------------------------------ MODULE JobQueue ------------------------------
(***************************************************************************)
(* What the job queue promises its callers: the rows of the table `jobs`    *)
(* (internal/queue/queue.go), changed by one atomic step per exported       *)
(* method.  LeaseTx.tla opens the one method that is a transaction of       *)
(* several statements and shows that it implements Lease here; Dispatch.tla *)
(* puts the planner, the workers and the API on top.                        *)
(*                                                                          *)
(* A job is one pre-allocated identity per row a planner may insert, so     *)
(* that the row's run and project are functions of the identity.            *)
(***************************************************************************)
EXTENDS Naturals, FiniteSets

CONSTANTS
    Jobs, Runs, Projects, Workers,
    RunOf,        \* jobs.run_id
    ProjectOf,    \* jobs.project_id
    Caps,         \* values projects.max_concurrent_jobs takes; 0 = unlimited
    MaxAttempts,  \* bound: a lease expires only below this many attempts
    None          \* SQL NULL in jobs.leased_by

ASSUME QueueAssumption ==
    /\ IsFiniteSet(Jobs)
    /\ RunOf \in [Jobs -> Runs]
    /\ ProjectOf \in [Jobs -> Projects]
    /\ Caps \subseteq Nat
    /\ MaxAttempts \in Nat
    /\ None \notin Workers

VARIABLES
    status,    \* jobs.status, "absent" before the INSERT
    holder,    \* jobs.leased_by
    expired,   \* jobs.lease_expires_at < NOW()
    attempts,  \* jobs.attempts
    cap,       \* projects.max_concurrent_jobs
    capSeen    \* history: every value cap has had (Lease may use an old one)

queueVars == <<status, holder, expired, attempts, cap, capSeen>>

Terminal == {"succeeded", "failed", "cancelled", "timed_out"}
Active == {"leased", "running"}
Status == {"absent", "queued"} \cup Active \cup Terminal

Live(j) == status[j] \notin Terminal \cup {"absent"}

\* The rows the cap counts: status IN ('leased','running') of one project.
Busy(p) == {j \in Jobs : ProjectOf[j] = p /\ status[j] \in Active}

\* A cap of 0 is no cap.
HasRoom(p, c) == c = 0 \/ Cardinality(Busy(p)) < c

QueueTypeOK ==
    /\ status \in [Jobs -> Status]
    /\ holder \in [Jobs -> Workers \cup {None}]
    /\ expired \in [Jobs -> BOOLEAN]
    /\ attempts \in [Jobs -> Nat]
    /\ cap \in [Projects -> Caps]
    /\ capSeen \in [Projects -> SUBSET Caps]

QueueInit ==
    /\ status = [j \in Jobs |-> "absent"]
    /\ holder = [j \in Jobs |-> None]
    /\ expired = [j \in Jobs |-> FALSE]
    /\ attempts = [j \in Jobs |-> 0]
    /\ cap \in [Projects -> Caps]
    /\ capSeen = [p \in Projects |-> {cap[p]}]

-----------------------------------------------------------------------------
(* The exported methods.  A call whose WHERE clause matches no row changes  *)
(* nothing; callers that look at the row count see the negated guard.       *)

Enqueue(j) ==
    /\ status[j] = "absent"
    /\ status' = [status EXCEPT ![j] = "queued"]
    /\ UNCHANGED <<holder, expired, attempts, cap, capSeen>>

\* Any queued job whose project has room may be handed out: which one is
\* LeaseTx's business, and the cap it is held against is one the project
\* has had, not necessarily the present one.
Lease(j, w) ==
    /\ status[j] = "queued"
    /\ \E c \in capSeen[ProjectOf[j]] : HasRoom(ProjectOf[j], c)
    /\ status' = [status EXCEPT ![j] = "leased"]
    /\ holder' = [holder EXCEPT ![j] = w]
    /\ expired' = [expired EXCEPT ![j] = FALSE]
    /\ attempts' = [attempts EXCEPT ![j] = @ + 1]
    /\ UNCHANGED <<cap, capSeen>>

CanMarkRunning(j, w) == holder[j] = w /\ status[j] = "leased"

MarkRunning(j, w) ==
    /\ CanMarkRunning(j, w)
    /\ status' = [status EXCEPT ![j] = "running"]
    /\ UNCHANGED <<holder, expired, attempts, cap, capSeen>>

\* Defect: the UPDATE does not compare leased_by.
CanCompleteAnyHolder(j, w) == status[j] \in Active

CanComplete(j, w) == holder[j] = w /\ status[j] \in Active

\* leased_by and lease_expires_at keep their values, and an expired lease
\* that no sweep has reclaimed yet may still complete.
Complete(j, w, s) ==
    /\ s \in Terminal
    /\ CanComplete(j, w)
    /\ status' = [status EXCEPT ![j] = s]
    /\ UNCHANGED <<holder, expired, attempts, cap, capSeen>>

Cancel(j) ==
    /\ Live(j)
    /\ status' = [status EXCEPT ![j] = "cancelled"]
    /\ UNCHANGED <<holder, expired, attempts, cap, capSeen>>

\* The first statement of CancelRun; the second one is Dispatch's.
CancelJobsOf(r) ==
    /\ status' = [j \in Jobs |-> IF RunOf[j] = r /\ Live(j)
                                 THEN "cancelled" ELSE status[j]]
    /\ UNCHANGED <<holder, expired, attempts, cap, capSeen>>

\* The clock passes lease_expires_at: nothing renews a lease, so this may
\* happen while the worker is still executing.
ExpireLease(j) ==
    /\ status[j] \in Active
    /\ ~expired[j]
    /\ attempts[j] < MaxAttempts
    /\ expired' = [expired EXCEPT ![j] = TRUE]
    /\ UNCHANGED <<status, holder, attempts, cap, capSeen>>

\* Defects: the sweep looks at the expiry alone, or (like the partial index
\* jobs_lease_idx) at status='leased' alone.
ReclaimableByExpiry == {j \in Jobs : expired[j]}
ReclaimableLeasedOnly == {j \in Jobs : status[j] = "leased" /\ expired[j]}

Reclaimable == {j \in Jobs : status[j] \in Active /\ expired[j]}

ReclaimExpired ==
    /\ Reclaimable # {}
    /\ status' = [j \in Jobs |-> IF j \in Reclaimable THEN "queued" ELSE status[j]]
    /\ holder' = [j \in Jobs |-> IF j \in Reclaimable THEN None ELSE holder[j]]
    /\ expired' = [j \in Jobs |-> IF j \in Reclaimable THEN FALSE ELSE expired[j]]
    /\ UNCHANGED <<attempts, cap, capSeen>>

\* PATCH /v1/projects/{id}: the cap of a project changes under the workers.
SetCap(p, c) ==
    /\ c # cap[p]
    /\ cap' = [cap EXCEPT ![p] = c]
    /\ capSeen' = [capSeen EXCEPT ![p] = @ \cup {c}]
    /\ UNCHANGED <<status, holder, expired, attempts>>

QueueNext ==
    \/ \E j \in Jobs : Enqueue(j) \/ Cancel(j) \/ ExpireLease(j)
    \/ \E j \in Jobs, w \in Workers : Lease(j, w) \/ MarkRunning(j, w)
    \/ \E j \in Jobs, w \in Workers, s \in Status : Complete(j, w, s)
    \/ \E r \in Runs : CancelJobsOf(r)
    \/ ReclaimExpired
    \/ \E p \in Projects, c \in Caps : SetCap(p, c)

QueueSpec == QueueInit /\ [][QueueNext]_queueVars

-----------------------------------------------------------------------------
(* Properties *)

\* A project never has more jobs leased or running than the largest cap it
\* has had (projects.max_concurrent_jobs, "race-free under concurrent
\* workers"); a project that has been unlimited (0) promises nothing.
CapRespected ==
    \A p \in Projects :
        \E c \in capSeen[p] : c = 0 \/ Cardinality(Busy(p)) <= c

\* The lease columns tell the truth about the status: a job that waits in
\* the queue, fresh or reclaimed, has no leaseholder left over from an
\* earlier attempt (whose late MarkRunning or Complete would then match),
\* no expiry, and a job in a worker's hands names that worker.
LeaseRecorded ==
    \A j \in Jobs :
        /\ status[j] \in {"absent", "queued"} => holder[j] = None /\ ~expired[j]
        /\ status[j] \in Active => holder[j] \in Workers /\ attempts[j] > 0

\* A job that has ended stays ended with the status it got: neither a late
\* worker, nor a cancel, nor the reclaim sweep after its lease ran out
\* brings it back or rewrites its result.
TerminalAbsorbing ==
    [][\A j \in Jobs : status[j] \in Terminal => status'[j] = status[j]]_queueVars

=============================================================================
