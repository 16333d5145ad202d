------------------------------- MODULE LeaseTx -------------------------------
(***************************************************************************)
(* Queue.Lease statement by statement: one PostgreSQL transaction (READ     *)
(* COMMITTED) per call, interleaved with the transactions of other workers  *)
(* and with the single-statement methods of JobQueue.                       *)
(*                                                                          *)
(*   idle --PickCandidate--> capLock --AcquireCapLock--> count              *)
(*        \                                               | CountBusy        *)
(*         \--(cap_ = 0)--> update <---------(room)-------+--(at cap)--> rollback *)
(*                                                                          *)
(* What the caller is told (a job, or nothing) is visible as the step that  *)
(* brings the transaction back to idle: UpdateCommit or Rollback/Abort.     *)
(***************************************************************************)
EXTENDS JobQueue

CONSTANT Priority   \* jobs.priority

ASSUME LeaseTxAssumption ==
    /\ Priority \in [Jobs -> Nat]
    /\ None \notin Jobs

VARIABLES
    tx,        \* each worker's transaction in progress, or Idle
    capLock,   \* the project's advisory lock: the worker holding it, or None
    arrivedAt  \* jobs.created_at, as a rank

txVars == <<status, holder, expired, attempts, cap, capSeen,
            tx, capLock, arrivedAt>>

\* seen is a history field: the rows the SELECT could have chosen from.
Idle == [pc |-> "idle", job |-> None, cap |-> 0, seen |-> {}]

\* FOR UPDATE OF j holds the candidate's row until the transaction ends.
RowLocked(j) == \E w \in Workers : tx[w].pc # "idle" /\ tx[w].job = j

Before(i, j) ==
    \/ Priority[i] > Priority[j]
    \/ Priority[i] = Priority[j] /\ arrivedAt[i] < arrivedAt[j]

\* WHERE status='queued' ... FOR UPDATE OF j SKIP LOCKED
Candidates == {j \in Jobs : status[j] = "queued" /\ ~RowLocked(j)}

\* ... ORDER BY priority DESC, created_at ASC LIMIT 1
IsHead(j) == j \in Candidates /\ \A i \in Candidates : ~Before(i, j)

TxTypeOK ==
    /\ QueueTypeOK
    /\ tx \in [Workers -> [pc  : {"idle", "capLock", "count", "update", "rollback"},
                           job : Jobs \cup {None},
                           cap : Nat,
                           seen : SUBSET Jobs]]
    /\ capLock \in [Projects -> Workers \cup {None}]
    /\ arrivedAt \in [Jobs -> Nat]

TxInit ==
    /\ QueueInit
    /\ tx = [w \in Workers |-> Idle]
    /\ capLock = [p \in Projects |-> None]
    /\ arrivedAt = [j \in Jobs |-> 0]

-----------------------------------------------------------------------------
(* The statements of Lease *)

\* One SELECT reads the head of the queue, locks its row and reads the
\* project's cap; a cap of 0 skips step 2.
PickCandidate(w) ==
    /\ tx[w].pc = "idle"
    /\ \E j \in Jobs :
          /\ IsHead(j)
          /\ tx' = [tx EXCEPT ![w] =
                [pc  |-> IF cap[ProjectOf[j]] > 0 THEN "capLock" ELSE "update",
                 job |-> j,
                 cap |-> cap[ProjectOf[j]],
                 seen |-> Candidates]]
    /\ UNCHANGED <<queueVars, capLock, arrivedAt>>

\* Defect: the advisory lock is taken on nothing anyone else takes.
AcquireNoCapLock(w) ==
    /\ tx[w].pc = "capLock"
    /\ tx' = [tx EXCEPT ![w].pc = "count"]
    /\ UNCHANGED <<queueVars, capLock, arrivedAt>>

\* pg_advisory_xact_lock blocks while another transaction holds the lock.
AcquireCapLock(w) ==
    LET p == ProjectOf[tx[w].job] IN
    /\ tx[w].pc = "capLock"
    /\ capLock[p] = None
    /\ tx' = [tx EXCEPT ![w].pc = "count"]
    /\ capLock' = [capLock EXCEPT ![p] = w]
    /\ UNCHANGED <<queueVars, arrivedAt>>

\* Defect: the count overlooks jobs leased but not yet running.
CountRunningOnly(w) ==
    LET p == ProjectOf[tx[w].job]
        running == {j \in Busy(p) : status[j] = "running"}
        room == Cardinality(running) < tx[w].cap
    IN
    /\ tx[w].pc = "count"
    /\ tx' = [tx EXCEPT ![w].pc = IF room THEN "update" ELSE "rollback"]
    /\ UNCHANGED <<queueVars, capLock, arrivedAt>>

CountBusy(w) ==
    LET p == ProjectOf[tx[w].job]
        room == Cardinality(Busy(p)) < tx[w].cap
    IN
    /\ tx[w].pc = "count"
    /\ tx' = [tx EXCEPT ![w].pc = IF room THEN "update" ELSE "rollback"]
    /\ UNCHANGED <<queueVars, capLock, arrivedAt>>

\* Ending a transaction releases its row lock and its advisory lock.
EndTx(w) ==
    /\ tx' = [tx EXCEPT ![w] = Idle]
    /\ capLock' = [p \in Projects |-> IF capLock[p] = w THEN None ELSE capLock[p]]

\* The UPDATE names the row by id only; it becomes visible at COMMIT.
UpdateCommit(w) ==
    LET j == tx[w].job IN
    /\ tx[w].pc = "update"
    /\ status' = [status EXCEPT ![j] = "leased"]
    /\ holder' = [holder EXCEPT ![j] = w]
    /\ expired' = [expired EXCEPT ![j] = FALSE]
    /\ attempts' = [attempts EXCEPT ![j] = @ + 1]
    /\ EndTx(w)
    /\ UNCHANGED <<cap, capSeen, arrivedAt>>

\* Defect: a session-level advisory lock that the at-cap return forgets.
RollbackKeepsCapLock(w) ==
    /\ tx[w].pc = "rollback"
    /\ tx' = [tx EXCEPT ![w] = Idle]
    /\ UNCHANGED <<queueVars, capLock, arrivedAt>>

\* At cap: return "nothing available"; the deferred Rollback ends the tx.
Rollback(w) ==
    /\ tx[w].pc = "rollback"
    /\ EndTx(w)
    /\ UNCHANGED <<queueVars, arrivedAt>>

\* A statement fails, the context is cancelled, or the process dies.
Abort(w) ==
    /\ tx[w].pc \notin {"idle", "rollback"}
    /\ EndTx(w)
    /\ UNCHANGED <<queueVars, arrivedAt>>

-----------------------------------------------------------------------------
(* The other methods.  Each is one statement; it waits for the row locks of *)
(* the rows it changes.  A worker is in one call at a time.                 *)

TxEnqueue(j) ==
    /\ Enqueue(j)
    /\ arrivedAt' = [arrivedAt EXCEPT ![j] =
                        1 + Cardinality({i \in Jobs : status[i] # "absent"})]
    /\ UNCHANGED <<tx, capLock>>

TxWorkerCall(j, w) ==
    /\ tx[w].pc = "idle"
    /\ MarkRunning(j, w) \/ \E s \in Terminal : Complete(j, w, s)
    /\ UNCHANGED <<tx, capLock, arrivedAt>>

TxCancel(j) ==
    /\ ~RowLocked(j)
    /\ Cancel(j)
    /\ UNCHANGED <<tx, capLock, arrivedAt>>

TxCancelJobsOf(r) ==
    /\ \A j \in Jobs : RunOf[j] = r /\ Live(j) => ~RowLocked(j)
    /\ CancelJobsOf(r)
    /\ UNCHANGED <<tx, capLock, arrivedAt>>

TxLeaseClock ==
    /\ ReclaimExpired \/ \E j \in Jobs : ExpireLease(j)
    /\ UNCHANGED <<tx, capLock, arrivedAt>>

TxSetCap(p, c) ==
    /\ SetCap(p, c)
    /\ UNCHANGED <<tx, capLock, arrivedAt>>

LeaseStep(w) ==
    \/ AcquireCapLock(w)
    \/ CountBusy(w)
    \/ UpdateCommit(w)
    \/ Rollback(w)

TxNext ==
    \/ \E w \in Workers : PickCandidate(w) \/ LeaseStep(w) \/ Abort(w)
    \/ \E j \in Jobs : TxEnqueue(j) \/ TxCancel(j)
    \/ \E j \in Jobs, w \in Workers : TxWorkerCall(j, w)
    \/ \E r \in Runs : TxCancelJobsOf(r)
    \/ TxLeaseClock
    \/ \E p \in Projects, c \in Caps : TxSetCap(p, c)

TxSpec == TxInit /\ [][TxNext]_txVars

\* The database finishes a statement it has been given, and its lock manager
\* serves the waiters of an advisory lock in turn (hence SF on the wait).
\* Nothing is assumed of callers: no worker has to call Lease.
TxFairSpec ==
    /\ TxSpec
    /\ \A w \in Workers :
          /\ SF_txVars(AcquireCapLock(w))
          /\ WF_txVars(CountBusy(w))
          /\ WF_txVars(UpdateCommit(w))
          /\ WF_txVars(Rollback(w))

-----------------------------------------------------------------------------
(* Properties.  The refinement is QueueSpec itself: with tx, capLock and     *)
(* arrivedAt hidden, every step of TxNext is a step of the queue's contract *)
(* or none.                                                                 *)

\* FOR UPDATE ... SKIP LOCKED: no two Lease calls in progress hold the same
\* job, and nobody cancels or leases the job one of them holds, although
\* the UPDATE that follows names the row by id alone.
RowLockExclusive ==
    \A w \in Workers : tx[w].pc # "idle" =>
        /\ tx[w].job \in Jobs
        /\ status[tx[w].job] = "queued"
        /\ \A v \in Workers \ {w} : tx[v].pc # "idle" => tx[v].job # tx[w].job

\* The count a Lease call has taken under the advisory lock is still an
\* upper bound when it commits: only leases that read an unlimited cap
\* before the cap was set can slip past it.
CapCountCurrent ==
    \A w \in Workers : tx[w].pc = "update" /\ tx[w].cap > 0 =>
        LET p == ProjectOf[tx[w].job] IN
        /\ capLock[p] = w
        /\ 0 \in capSeen[p] \/ Cardinality(Busy(p)) < tx[w].cap

\* Whoever holds a project's advisory lock is past every wait of its own, and
\* holds it for a job of that project: a call that waits for the lock, and a
\* cancel that waits for the row of such a call, wait for someone who does not
\* wait.
LockHolderRuns ==
    \A p \in Projects : capLock[p] # None =>
        /\ tx[capLock[p]].pc \in {"count", "update", "rollback"}
        /\ ProjectOf[tx[capLock[p]].job] = p

\* What a call in progress knows of its project's cap: it read a value the
\* cap has had, it takes step 2 only for a limited project, and it owns the
\* advisory lock from the count to the end of its transaction.
CapReadKnown ==
    /\ \A p \in Projects : cap[p] \in capSeen[p]
    /\ \A w \in Workers : tx[w].pc # "idle" =>
          LET p == ProjectOf[tx[w].job] IN
          /\ tx[w].cap \in capSeen[p]
          /\ tx[w].pc # "update" => tx[w].cap > 0
          /\ tx[w].pc # "capLock" /\ tx[w].cap > 0 => capLock[p] = w

\* The inductive invariant of QueueProofs.
TxInv == TxTypeOK /\ RowLockExclusive /\ CapReadKnown /\ CapCountCurrent

\* No Lease call blocks forever: a call that holds a row lock and waits for
\* the advisory lock never waits on a call that waits on it.
LeaseCallReturns ==
    \A w \in Workers : tx[w].pc # "idle" ~> tx[w].pc = "idle"

\* Lease "Returns (nil, false, nil) when nothing is available"
\* (queue.go:137-138): when it does, none of the jobs that were queued when
\* it looked, and still are, belongs to a project with room.
NothingMeansNothingAvailable ==
    [][\A w \in Workers : tx[w].pc = "rollback" /\ tx'[w].pc = "idle" =>
          \A j \in tx[w].seen \cap Candidates : ~HasRoom(ProjectOf[j], cap[ProjectOf[j]])]_txVars
=============================================================================
