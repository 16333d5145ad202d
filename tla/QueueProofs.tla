----------------------------- MODULE QueueProofs -----------------------------
(***************************************************************************)
(* The job queue, for every set of jobs, workers, runs and projects, every  *)
(* cap and every number of retries: first the contract, JobQueue, and then  *)
(* Lease as the transaction it is, LeaseTx, which implements it while caps  *)
(* change at any time.                                                      *)
(***************************************************************************)
EXTENDS LeaseTx, FiniteSetTheorems, TLAPS

-----------------------------------------------------------------------------
(* JobQueue *)

\* One step of any method of internal/queue keeps the column types.
LEMMA QueueTypeStep == QueueTypeOK /\ [QueueNext]_queueVars => QueueTypeOK'
<1> SUFFICES ASSUME QueueTypeOK, [QueueNext]_queueVars PROVE QueueTypeOK'
  OBVIOUS
<1> USE QueueAssumption DEF QueueTypeOK, Status, Active, Terminal
<1>1. CASE UNCHANGED queueVars
  BY <1>1 DEF queueVars
<1>2. ASSUME NEW j \in Jobs, Enqueue(j) PROVE QueueTypeOK'
  BY <1>2 DEF Enqueue
<1>3. ASSUME NEW j \in Jobs, Cancel(j) PROVE QueueTypeOK'
  BY <1>3 DEF Cancel
<1>4. ASSUME NEW j \in Jobs, ExpireLease(j) PROVE QueueTypeOK'
  BY <1>4 DEF ExpireLease
<1>5. ASSUME NEW j \in Jobs, NEW w \in Workers, Lease(j, w) PROVE QueueTypeOK'
  BY <1>5 DEF Lease
<1>6. ASSUME NEW j \in Jobs, NEW w \in Workers, MarkRunning(j, w)
      PROVE  QueueTypeOK'
  BY <1>6 DEF MarkRunning
<1>7. ASSUME NEW j \in Jobs, NEW w \in Workers, NEW s \in Status,
             Complete(j, w, s)
      PROVE  QueueTypeOK'
  BY <1>7 DEF Complete
<1>8. ASSUME NEW r \in Runs, CancelJobsOf(r) PROVE QueueTypeOK'
  BY <1>8 DEF CancelJobsOf
<1>9. CASE ReclaimExpired
  BY <1>9 DEF ReclaimExpired
<1>10. ASSUME NEW p \in Projects, NEW c \in Caps, SetCap(p, c)
       PROVE  QueueTypeOK'
  BY <1>10 DEF SetCap
<1> QED
  BY <1>1, <1>2, <1>3, <1>4, <1>5, <1>6, <1>7, <1>8, <1>9, <1>10 DEF QueueNext

\* Every row of `jobs` keeps a status its CHECK constraint allows, and the
\* lease columns their types, under every method of internal/queue.
THEOREM QueueTypeCorrect == QueueSpec => []QueueTypeOK
<1>1. QueueInit => QueueTypeOK
  BY QueueAssumption DEF QueueInit, QueueTypeOK, Status
<1> QED
  BY <1>1, QueueTypeStep, PTL DEF QueueSpec

-----------------------------------------------------------------------------
(* Counting the busy jobs of a project. *)

LEMMA BusyFinite ==
  ASSUME NEW p
  PROVE  IsFiniteSet(Busy(p)) /\ Cardinality(Busy(p)) \in Nat
<1>1. Busy(p) \subseteq Jobs
  BY DEF Busy
<1> QED
  BY <1>1, QueueAssumption, FS_Subset, FS_CardinalityType

LEMMA BusyFinitePrime ==
  ASSUME NEW p
  PROVE  IsFiniteSet(Busy(p)') /\ Cardinality(Busy(p)') \in Nat
<1>1. Busy(p)' \subseteq Jobs
  BY DEF Busy
<1> QED
  BY <1>1, QueueAssumption, FS_Subset, FS_CardinalityType

\* A step that makes no job of a project busy, and does not forget a cap the
\* project has had, keeps the project within its cap.
LEMMA FewerBusyKeepsCap ==
  ASSUME CapRespected, NEW p \in Projects,
         QueueTypeOK, Busy(p)' \subseteq Busy(p), capSeen[p] \subseteq capSeen'[p]
  PROVE  \E c \in capSeen'[p] : c = 0 \/ Cardinality(Busy(p)') <= c
<1>1. Cardinality(Busy(p)') <= Cardinality(Busy(p))
  BY BusyFinite, FS_Subset
<1>2. PICK c \in capSeen[p] : c = 0 \/ Cardinality(Busy(p)) <= c
  BY DEF CapRespected
<1>3. c \in Nat
  BY <1>2, QueueAssumption DEF QueueTypeOK
<1>4. c = 0 \/ Cardinality(Busy(p)') <= c
  BY <1>1, <1>2, <1>3, BusyFinite, BusyFinitePrime
<1> QED
  BY <1>2, <1>4

\* Leasing one job adds one to the count of its project, which had room.
LEMMA LeaseKeepsCap ==
  ASSUME QueueTypeOK, CapRespected, NEW j \in Jobs, NEW w \in Workers, Lease(j, w)
  PROVE  CapRespected'
<1> SUFFICES ASSUME NEW p \in Projects
             PROVE  \E c \in capSeen'[p] : c = 0 \/ Cardinality(Busy(p)') <= c
  BY DEF CapRespected
<1>1. capSeen' = capSeen
  BY DEF Lease
<1>2. CASE p # ProjectOf[j]
  <2>1. Busy(p)' \subseteq Busy(p)
    BY <1>2 DEF Busy, Lease, QueueTypeOK
  <2> QED
    BY <1>1, <2>1, FewerBusyKeepsCap
<1>3. CASE p = ProjectOf[j]
  <2>1. PICK c \in capSeen[p] : HasRoom(p, c)
    BY <1>3 DEF Lease
  <2>2. c \in Nat
    BY <2>1, QueueAssumption DEF QueueTypeOK
  <2>3. Busy(p)' = Busy(p) \cup {j}
    BY <1>3 DEF Busy, Lease, QueueTypeOK, Active
  <2>4. j \notin Busy(p)
    BY DEF Busy, Lease, Active
  <2>5. Cardinality(Busy(p)') = Cardinality(Busy(p)) + 1
    BY <2>3, <2>4, BusyFinite, FS_AddElement
  <2>6. c = 0 \/ Cardinality(Busy(p)') <= c
    BY <2>1, <2>2, <2>5, BusyFinite DEF HasRoom
  <2> QED
    BY <1>1, <2>1, <2>6
<1> QED
  BY <1>2, <1>3

\* The per-project concurrency cap holds under any interleaving of the
\* queue's methods and of changes of the cap (threat-model.md T6).
THEOREM CapAlwaysRespected == QueueSpec => []CapRespected
<1>1. QueueInit => CapRespected
  <2> SUFFICES ASSUME QueueInit, NEW p \in Projects
               PROVE  \E c \in capSeen[p] : c = 0 \/ Cardinality(Busy(p)) <= c
    BY DEF CapRespected
  <2>1. Busy(p) = {}
    BY DEF QueueInit, Busy, Active
  <2>2. cap[p] \in capSeen[p] /\ cap[p] \in Nat
    BY QueueAssumption DEF QueueInit
  <2> QED
    BY <2>1, <2>2, FS_EmptySet
<1>2. QueueTypeOK /\ CapRespected /\ [QueueNext]_queueVars => CapRespected'
  <2> SUFFICES ASSUME QueueTypeOK, CapRespected, [QueueNext]_queueVars
               PROVE  CapRespected'
    OBVIOUS
  <2>1. ASSUME NEW j \in Jobs, NEW w \in Workers, Lease(j, w)
        PROVE  CapRespected'
    BY <2>1, LeaseKeepsCap
  <2>2. ASSUME \A j \in Jobs : status'[j] \in Active => status[j] \in Active,
               \A p \in Projects : capSeen[p] \subseteq capSeen'[p]
        PROVE  CapRespected'
    <3>1. \A p \in Projects : Busy(p)' \subseteq Busy(p)
      BY <2>2 DEF Busy
    <3> QED
      BY <2>2, <3>1, FewerBusyKeepsCap DEF CapRespected
  <2> USE DEF QueueTypeOK, Active, Terminal
  <2>3. CASE UNCHANGED queueVars
    BY <2>2, <2>3 DEF queueVars
  <2>4. ASSUME NEW j \in Jobs, Enqueue(j) PROVE CapRespected'
    BY <2>2, <2>4 DEF Enqueue
  <2>5. ASSUME NEW j \in Jobs, Cancel(j) PROVE CapRespected'
    BY <2>2, <2>5 DEF Cancel
  <2>6. ASSUME NEW j \in Jobs, ExpireLease(j) PROVE CapRespected'
    BY <2>2, <2>6 DEF ExpireLease
  <2>7. ASSUME NEW j \in Jobs, NEW w \in Workers, MarkRunning(j, w)
        PROVE  CapRespected'
    BY <2>2, <2>7 DEF MarkRunning, CanMarkRunning
  <2>8. ASSUME NEW j \in Jobs, NEW w \in Workers, NEW s \in Status,
               Complete(j, w, s)
        PROVE  CapRespected'
    BY <2>2, <2>8 DEF Complete, CanComplete
  <2>9. ASSUME NEW r \in Runs, CancelJobsOf(r) PROVE CapRespected'
    BY <2>2, <2>9 DEF CancelJobsOf
  <2>10. CASE ReclaimExpired
    BY <2>2, <2>10 DEF ReclaimExpired
  <2>11. ASSUME NEW p \in Projects, NEW c \in Caps, SetCap(p, c)
         PROVE  CapRespected'
    BY <2>2, <2>11 DEF SetCap
  <2> QED
    BY <2>1, <2>3, <2>4, <2>5, <2>6, <2>7, <2>8, <2>9, <2>10, <2>11 DEF QueueNext
<1> QED
  BY <1>1, <1>2, QueueTypeCorrect, PTL DEF QueueSpec

\* A reclaimed job carries no trace of its last leaseholder, so that worker's
\* late MarkRunning or Complete matches no row.
THEOREM LeaseAlwaysRecorded == QueueSpec => []LeaseRecorded
<1>1. QueueInit => LeaseRecorded
  BY DEF QueueInit, LeaseRecorded, Active
<1>2. QueueTypeOK /\ LeaseRecorded /\ [QueueNext]_queueVars => LeaseRecorded'
  <2> SUFFICES ASSUME QueueTypeOK, LeaseRecorded, [QueueNext]_queueVars,
                      NEW k \in Jobs
               PROVE  LeaseRecorded!(k)'
    BY DEF LeaseRecorded
  <2>0. LeaseRecorded!(k)
    BY DEF LeaseRecorded
  <2> USE <2>0, QueueAssumption DEF QueueTypeOK, Active, Terminal
  <2>1. CASE UNCHANGED queueVars
    BY <2>1 DEF queueVars
  <2>2. ASSUME NEW j \in Jobs, Enqueue(j) PROVE LeaseRecorded!(k)'
    BY <2>2 DEF Enqueue
  <2>3. ASSUME NEW j \in Jobs, Cancel(j) PROVE LeaseRecorded!(k)'
    BY <2>3 DEF Cancel
  <2>4. ASSUME NEW j \in Jobs, ExpireLease(j) PROVE LeaseRecorded!(k)'
    BY <2>4 DEF ExpireLease
  <2>5. ASSUME NEW j \in Jobs, NEW w \in Workers, Lease(j, w)
        PROVE  LeaseRecorded!(k)'
    BY <2>5 DEF Lease
  <2>6. ASSUME NEW j \in Jobs, NEW w \in Workers, MarkRunning(j, w)
        PROVE  LeaseRecorded!(k)'
    BY <2>6 DEF MarkRunning, CanMarkRunning
  <2>7. ASSUME NEW j \in Jobs, NEW w \in Workers, NEW s \in Status,
               Complete(j, w, s)
        PROVE  LeaseRecorded!(k)'
    BY <2>7 DEF Complete, CanComplete
  <2>8. ASSUME NEW r \in Runs, CancelJobsOf(r) PROVE LeaseRecorded!(k)'
    BY <2>8 DEF CancelJobsOf, Live
  <2>9. CASE ReclaimExpired
    BY <2>9 DEF ReclaimExpired, Reclaimable
  <2>10. ASSUME NEW p \in Projects, NEW c \in Caps, SetCap(p, c)
         PROVE  LeaseRecorded!(k)'
    BY <2>10 DEF SetCap
  <2> QED
    BY <2>1, <2>2, <2>3, <2>4, <2>5, <2>6, <2>7, <2>8, <2>9, <2>10 DEF QueueNext
<1> QED
  BY <1>1, <1>2, QueueTypeCorrect, PTL DEF QueueSpec

\* No method of the queue changes the status of a job that has ended.
THEOREM TerminalIsFinal == QueueSpec => TerminalAbsorbing
<1>1. QueueTypeOK /\ [QueueNext]_queueVars =>
        [\A j \in Jobs : status[j] \in Terminal => status'[j] = status[j]]_queueVars
  <2> SUFFICES ASSUME QueueTypeOK, QueueNext, NEW k \in Jobs, status[k] \in Terminal
               PROVE  status'[k] = status[k]
    OBVIOUS
  <2> USE DEF QueueTypeOK, Active, Terminal
  <2>1. ASSUME NEW j \in Jobs, Enqueue(j) PROVE status'[k] = status[k]
    BY <2>1 DEF Enqueue
  <2>2. ASSUME NEW j \in Jobs, Cancel(j) PROVE status'[k] = status[k]
    BY <2>2 DEF Cancel, Live
  <2>3. ASSUME NEW j \in Jobs, ExpireLease(j) PROVE status'[k] = status[k]
    BY <2>3 DEF ExpireLease
  <2>4. ASSUME NEW j \in Jobs, NEW w \in Workers, Lease(j, w)
        PROVE  status'[k] = status[k]
    BY <2>4 DEF Lease
  <2>5. ASSUME NEW j \in Jobs, NEW w \in Workers, MarkRunning(j, w)
        PROVE  status'[k] = status[k]
    BY <2>5 DEF MarkRunning, CanMarkRunning
  <2>6. ASSUME NEW j \in Jobs, NEW w \in Workers, NEW s \in Status,
               Complete(j, w, s)
        PROVE  status'[k] = status[k]
    BY <2>6 DEF Complete, CanComplete
  <2>7. ASSUME NEW r \in Runs, CancelJobsOf(r) PROVE status'[k] = status[k]
    BY <2>7 DEF CancelJobsOf, Live
  <2>8. CASE ReclaimExpired
    BY <2>8 DEF ReclaimExpired, Reclaimable
  <2>9. ASSUME NEW p \in Projects, NEW c \in Caps, SetCap(p, c)
        PROVE  status'[k] = status[k]
    BY <2>9 DEF SetCap
  <2> QED
    BY <2>1, <2>2, <2>3, <2>4, <2>5, <2>6, <2>7, <2>8, <2>9 DEF QueueNext
<1> QED
  BY <1>1, QueueTypeCorrect, PTL DEF QueueSpec, TerminalAbsorbing

-----------------------------------------------------------------------------
(* LeaseTx *)

\* The steps of the other methods, and what they all have in common: they
\* touch no transaction, keep every locked row queued, make no job busy and
\* forget no cap.
QuietStep ==
    /\ UNCHANGED <<tx, capLock>>
    /\ \A w \in Workers : tx[w].pc # "idle" => status'[tx[w].job] = status[tx[w].job]
    /\ \A j \in Jobs : status'[j] \in Active => status[j] \in Active
    /\ \A p \in Projects : /\ capSeen[p] \subseteq capSeen'[p]
                           /\ cap'[p] \in capSeen'[p]

LEMMA FewerBusy ==
  ASSUME NEW p, \A j \in Jobs : status'[j] \in Active => status[j] \in Active
  PROVE  Cardinality(Busy(p)') <= Cardinality(Busy(p))
<1>1. Busy(p)' \subseteq Busy(p)
  BY DEF Busy
<1> QED
  BY <1>1, BusyFinite, FS_Subset

LEMMA CapsAreNat ==
  ASSUME TxTypeOK, NEW p \in Projects, NEW c \in capSeen[p]
  PROVE  c \in Nat
BY QueueAssumption DEF TxTypeOK, QueueTypeOK

\* Every method but Lease is a quiet step.
LEMMA OthersAreQuiet ==
  ASSUME TxInv,
         \/ \E j \in Jobs : TxEnqueue(j) \/ TxCancel(j)
         \/ \E j \in Jobs, w \in Workers : TxWorkerCall(j, w)
         \/ \E r \in Runs : TxCancelJobsOf(r)
         \/ TxLeaseClock
         \/ \E p \in Projects, c \in Caps : TxSetCap(p, c)
  PROVE  QuietStep /\ TxTypeOK' /\ QueueNext
<1> USE QueueAssumption, LeaseTxAssumption
        DEF TxInv, TxTypeOK, QueueTypeOK, RowLockExclusive, CapReadKnown, Active, Terminal, Status
<1>1. ASSUME NEW j \in Jobs, TxEnqueue(j) PROVE QuietStep /\ TxTypeOK' /\ QueueNext
  <2>1. IsFiniteSet({i \in Jobs : status[i] # "absent"})
    BY FS_Subset
  <2>2. Cardinality({i \in Jobs : status[i] # "absent"}) \in Nat
    BY <2>1, FS_CardinalityType
  <2>3. QuietStep
    BY <1>1 DEF TxEnqueue, Enqueue, QuietStep
  <2>4. TxTypeOK'
    BY <1>1, <2>2 DEF TxEnqueue, Enqueue
  <2> QED
    BY <1>1, <2>3, <2>4 DEF TxEnqueue, QueueNext
<1>2. ASSUME NEW j \in Jobs, TxCancel(j) PROVE QuietStep /\ TxTypeOK' /\ QueueNext
  <2>1. QuietStep /\ TxTypeOK'
    BY <1>2 DEF TxCancel, Cancel, RowLocked, QuietStep
  <2> QED
    BY <1>2, <2>1 DEF TxCancel, QueueNext
<1>3. ASSUME NEW j \in Jobs, NEW w \in Workers, TxWorkerCall(j, w)
      PROVE  QuietStep /\ TxTypeOK' /\ QueueNext
  <2>1. CASE MarkRunning(j, w)
    <3>1. QuietStep /\ TxTypeOK'
      BY <1>3, <2>1 DEF TxWorkerCall, MarkRunning, CanMarkRunning, QuietStep
    <3> QED
      BY <2>1, <3>1 DEF QueueNext
  <2>2. ASSUME NEW s \in Terminal, Complete(j, w, s)
        PROVE  QuietStep /\ TxTypeOK' /\ QueueNext
    <3>1. QuietStep /\ TxTypeOK'
      BY <1>3, <2>2 DEF TxWorkerCall, Complete, CanComplete, QuietStep
    <3> QED
      BY <2>2, <3>1 DEF QueueNext
  <2> QED
    BY <1>3, <2>1, <2>2 DEF TxWorkerCall
<1>4. ASSUME NEW r \in Runs, TxCancelJobsOf(r) PROVE QuietStep /\ TxTypeOK' /\ QueueNext
  <2>1. \A w \in Workers : tx[w].pc # "idle" => status'[tx[w].job] = status[tx[w].job]
    BY <1>4 DEF TxCancelJobsOf, CancelJobsOf, RowLocked
  <2>2. TxTypeOK'
    BY <1>4 DEF TxCancelJobsOf, CancelJobsOf
  <2>3. QuietStep
    BY <1>4, <2>1 DEF TxCancelJobsOf, CancelJobsOf, QuietStep
  <2> QED
    BY <1>4, <2>2, <2>3 DEF TxCancelJobsOf, QueueNext
<1>5. CASE TxLeaseClock
  <2>1. CASE ReclaimExpired
    <3>1. QuietStep /\ TxTypeOK'
      BY <1>5, <2>1 DEF TxLeaseClock, ReclaimExpired, Reclaimable, QuietStep
    <3> QED
      BY <2>1, <3>1 DEF QueueNext
  <2>2. ASSUME NEW j \in Jobs, ExpireLease(j) PROVE QuietStep /\ TxTypeOK' /\ QueueNext
    <3>1. QuietStep /\ TxTypeOK'
      BY <1>5, <2>2 DEF TxLeaseClock, ExpireLease, QuietStep
    <3> QED
      BY <2>2, <3>1 DEF QueueNext
  <2> QED
    BY <1>5, <2>1, <2>2 DEF TxLeaseClock
<1>6. ASSUME NEW p \in Projects, NEW c \in Caps, TxSetCap(p, c)
      PROVE  QuietStep /\ TxTypeOK' /\ QueueNext
  <2>1. QuietStep
    BY <1>6 DEF TxSetCap, SetCap, QuietStep
  <2>2. TxTypeOK'
    BY <1>6 DEF TxSetCap, SetCap
  <2> QED
    BY <1>6, <2>1, <2>2 DEF TxSetCap, QueueNext
<1> QED
  BY <1>1, <1>2, <1>3, <1>4, <1>5, <1>6

LEMMA QuietKeepsInv == TxInv /\ QuietStep /\ TxTypeOK' => TxInv'
<1> SUFFICES ASSUME TxInv, QuietStep, TxTypeOK' PROVE TxInv'
  OBVIOUS
<1> USE DEF TxInv
<1>1. RowLockExclusive'
  BY DEF RowLockExclusive, QuietStep
<1>2. CapReadKnown'
  BY QueueAssumption DEF CapReadKnown, QuietStep, TxTypeOK, RowLockExclusive
<1>3. CapCountCurrent'
  <2> SUFFICES ASSUME NEW w \in Workers, tx[w].pc = "update", tx[w].cap > 0
               PROVE  CapCountCurrent!(w)!2'
    BY DEF CapCountCurrent, QuietStep
  <2> DEFINE p == ProjectOf[tx[w].job]
  <2>1. p \in Projects
    BY QueueAssumption DEF RowLockExclusive
  <2>2. Cardinality(Busy(p)') <= Cardinality(Busy(p))
    BY FewerBusy DEF QuietStep
  <2>3. capLock[p] = w /\ (0 \in capSeen[p] \/ Cardinality(Busy(p)) < tx[w].cap)
    BY DEF CapCountCurrent
  <2>4. tx[w].cap \in Nat
    BY DEF TxTypeOK
  <2>5. 0 \in capSeen'[p] \/ Cardinality(Busy(p)') < tx[w].cap
    BY <2>1, <2>2, <2>3, <2>4, BusyFinite, BusyFinitePrime DEF QuietStep
  <2> QED
    BY <2>3, <2>5 DEF QuietStep
<1> QED
  BY <1>1, <1>2, <1>3

-----------------------------------------------------------------------------
(* The statements of Lease itself. *)

LEMMA PickKeepsInv ==
  ASSUME TxInv, NEW w \in Workers, PickCandidate(w)
  PROVE  TxInv'
<1> USE QueueAssumption, LeaseTxAssumption DEF TxInv
<1>1. PICK j \in Jobs :
        /\ IsHead(j)
        /\ tx' = [tx EXCEPT ![w] =
              [pc  |-> IF cap[ProjectOf[j]] > 0 THEN "capLock" ELSE "update",
               job |-> j, cap |-> cap[ProjectOf[j]], seen |-> Candidates]]
  BY DEF PickCandidate
<1>2. status[j] = "queued" /\ ~RowLocked(j)
  BY <1>1 DEF IsHead, Candidates
<1>3. UNCHANGED <<status, holder, expired, attempts, cap, capSeen, capLock, arrivedAt>>
  BY DEF PickCandidate, queueVars
<1>4. tx'[w] = [pc  |-> IF cap[ProjectOf[j]] > 0 THEN "capLock" ELSE "update",
                job |-> j, cap |-> cap[ProjectOf[j]], seen |-> Candidates]
  BY <1>1 DEF TxTypeOK
<1>5. \A v \in Workers \ {w} : tx'[v] = tx[v]
  BY <1>1 DEF TxTypeOK
<1>6. cap[ProjectOf[j]] \in Nat
  BY DEF TxTypeOK, QueueTypeOK
<1>7. TxTypeOK'
  <2>1. Candidates \subseteq Jobs
    BY DEF Candidates
  <2> QED
    BY <1>1, <1>3, <1>6, <2>1 DEF TxTypeOK, QueueTypeOK
<1>8. RowLockExclusive'
  <2>1. \A v \in Workers \ {w} : tx[v].pc # "idle" => tx[v].job # j
    BY <1>2 DEF RowLocked
  <2> QED
    BY <1>2, <1>3, <1>4, <1>5, <2>1 DEF RowLockExclusive
<1>9. CapReadKnown'
  BY <1>3, <1>4, <1>5, <1>6 DEF CapReadKnown, RowLockExclusive
<1>10. CapCountCurrent'
  <2>1. ~(tx'[w].pc = "update" /\ tx'[w].cap > 0)
    BY <1>4, <1>6
  <2>2. \A p : Busy(p)' = Busy(p)
    BY <1>3 DEF Busy
  <2> QED
    BY <1>3, <1>5, <2>1, <2>2 DEF CapCountCurrent
<1> QED
  BY <1>7, <1>8, <1>9, <1>10

LEMMA AcquireKeepsInv ==
  ASSUME TxInv, NEW w \in Workers, AcquireCapLock(w)
  PROVE  TxInv'
<1> USE QueueAssumption DEF TxInv
<1> DEFINE p == ProjectOf[tx[w].job]
<1>1. /\ tx[w].pc = "capLock" /\ capLock[p] = None
      /\ tx' = [tx EXCEPT ![w].pc = "count"]
      /\ capLock' = [capLock EXCEPT ![p] = w]
      /\ UNCHANGED <<status, holder, expired, attempts, cap, capSeen, arrivedAt>>
  BY DEF AcquireCapLock, queueVars
<1>2. tx[w].job \in Jobs /\ p \in Projects
  BY <1>1 DEF RowLockExclusive
<1>3. /\ tx'[w].pc = "count" /\ tx'[w].job = tx[w].job /\ tx'[w].cap = tx[w].cap
      /\ \A v \in Workers \ {w} : tx'[v] = tx[v]
  BY <1>1 DEF TxTypeOK
<1>4. TxTypeOK'
  <2>1. QueueTypeOK'
    BY <1>1 DEF TxTypeOK, QueueTypeOK
  <2>2. tx' \in [Workers -> [pc : {"idle", "capLock", "count", "update", "rollback"},
                            job : Jobs \cup {None}, cap : Nat, seen : SUBSET Jobs]]
    BY <1>1 DEF TxTypeOK
  <2>3. capLock' \in [Projects -> Workers \cup {None}]
    BY <1>1 DEF TxTypeOK
  <2> QED
    BY <1>1, <2>1, <2>2, <2>3 DEF TxTypeOK
<1>5. RowLockExclusive'
  BY <1>1, <1>3 DEF RowLockExclusive
<1>6. capLock'[p] = w /\ \A q \in Projects \ {p} : capLock'[q] = capLock[q]
  BY <1>1, <1>2 DEF TxTypeOK
<1>7. \A v \in Workers \ {w}, q \in Projects : capLock[q] = v => capLock'[q] = v
  BY <1>1, <1>6
<1>8. CapReadKnown'
  <2>1. \A q \in Projects : cap'[q] \in capSeen'[q]
    BY <1>1 DEF CapReadKnown
  <2>2. CapReadKnown!2!(w)'
    BY <1>1, <1>2, <1>3, <1>6 DEF CapReadKnown
  <2>3. ASSUME NEW v \in Workers \ {w} PROVE CapReadKnown!2!(v)'
    BY <1>1, <1>3, <1>7 DEF CapReadKnown, RowLockExclusive
  <2> QED
    BY <2>1, <2>2, <2>3 DEF CapReadKnown
<1>9. CapCountCurrent'
  <2> SUFFICES ASSUME NEW v \in Workers, tx'[v].pc = "update", tx'[v].cap > 0
               PROVE  CapCountCurrent!(v)!2'
    BY DEF CapCountCurrent
  <2> DEFINE q == ProjectOf[tx[v].job]
  <2>1. v # w /\ tx'[v] = tx[v]
    BY <1>3
  <2>2. q \in Projects
    BY <2>1 DEF RowLockExclusive
  <2>3. capLock[q] = v /\ (0 \in capSeen[q] \/ Cardinality(Busy(q)) < tx[v].cap)
    BY <2>1 DEF CapCountCurrent
  <2>4. Busy(q)' = Busy(q)
    BY <1>1, <2>1 DEF Busy
  <2> QED
    BY <1>1, <1>7, <2>1, <2>2, <2>3, <2>4
<1> QED
  BY <1>4, <1>5, <1>8, <1>9

LEMMA CountKeepsInv ==
  ASSUME TxInv, NEW w \in Workers, CountBusy(w)
  PROVE  TxInv'
<1> USE QueueAssumption DEF TxInv
<1> DEFINE p == ProjectOf[tx[w].job]
           room == Cardinality(Busy(p)) < tx[w].cap
<1>1. /\ tx[w].pc = "count"
      /\ tx' = [tx EXCEPT ![w].pc = IF room THEN "update" ELSE "rollback"]
      /\ UNCHANGED <<status, holder, expired, attempts, cap, capSeen, capLock, arrivedAt>>
  BY DEF CountBusy, queueVars
<1>2. p \in Projects
  BY <1>1 DEF RowLockExclusive
<1>3. /\ tx'[w].pc = IF room THEN "update" ELSE "rollback"
      /\ tx'[w].job = tx[w].job /\ tx'[w].cap = tx[w].cap
      /\ \A v \in Workers \ {w} : tx'[v] = tx[v]
  BY <1>1 DEF TxTypeOK
<1>4. TxTypeOK'
  <2>1. PICK pc \in {"update", "rollback"} : tx' = [tx EXCEPT ![w].pc = pc]
    BY <1>1
  <2>2. QueueTypeOK'
    BY <1>1 DEF TxTypeOK, QueueTypeOK
  <2> QED
    BY <1>1, <2>1, <2>2 DEF TxTypeOK
<1>5. RowLockExclusive'
  BY <1>1, <1>3 DEF RowLockExclusive
<1>6. CapReadKnown'
  BY <1>1, <1>3 DEF CapReadKnown, RowLockExclusive
<1>7. CapCountCurrent'
  <2> SUFFICES ASSUME NEW v \in Workers, tx'[v].pc = "update", tx'[v].cap > 0
               PROVE  CapCountCurrent!(v)!2'
    BY DEF CapCountCurrent
  <2> DEFINE q == ProjectOf[tx[v].job]
  <2>1. Busy(q)' = Busy(q)
    BY <1>1 DEF Busy
  <2>2. CASE v = w
    <3>1. capLock[p] = w
      BY <1>1, <1>3, <2>2 DEF CapReadKnown
    <3>2. room
      BY <1>3, <2>2
    <3> QED
      BY <1>1, <1>3, <2>1, <2>2, <3>1, <3>2
  <2>3. CASE v # w
    <3>1. capLock[q] = v /\ (0 \in capSeen[q] \/ Cardinality(Busy(q)) < tx[v].cap)
      BY <1>3, <2>3 DEF CapCountCurrent
    <3> QED
      BY <1>1, <1>3, <2>1, <2>3, <3>1
  <2> QED
    BY <2>2, <2>3
<1> QED
  BY <1>4, <1>5, <1>6, <1>7

\* Ending a transaction without a lease: the other transactions keep their
\* row locks and advisory locks.
LEMMA EndKeepsInv ==
  ASSUME TxInv, NEW w \in Workers, EndTx(w),
         UNCHANGED <<status, holder, expired, attempts, cap, capSeen, arrivedAt>>
  PROVE  TxInv'
<1> USE QueueAssumption DEF TxInv
<1>1. /\ tx'[w] = Idle /\ Idle.pc = "idle"
      /\ \A v \in Workers \ {w} : tx'[v] = tx[v]
  BY DEF EndTx, TxTypeOK, Idle
<1>2. \A v \in Workers \ {w}, q \in Projects : capLock[q] = v => capLock'[q] = v
  BY DEF EndTx
<1>3. TxTypeOK'
  <2>1. tx' \in [Workers -> [pc : {"idle", "capLock", "count", "update", "rollback"},
                            job : Jobs \cup {None}, cap : Nat, seen : SUBSET Jobs]]
    BY DEF EndTx, TxTypeOK, Idle
  <2>2. capLock' \in [Projects -> Workers \cup {None}]
    BY DEF EndTx, TxTypeOK
  <2> QED
    BY <2>1, <2>2 DEF TxTypeOK, QueueTypeOK
<1>4. RowLockExclusive'
  BY <1>1 DEF RowLockExclusive
<1>5. CapReadKnown'
  <2>1. ASSUME NEW v \in Workers \ {w} PROVE CapReadKnown!2!(v)'
    BY <1>1, <1>2 DEF CapReadKnown, RowLockExclusive
  <2> QED
    BY <1>1, <2>1 DEF CapReadKnown
<1>6. CapCountCurrent'
  <2> SUFFICES ASSUME NEW v \in Workers, tx'[v].pc = "update", tx'[v].cap > 0
               PROVE  CapCountCurrent!(v)!2'
    BY DEF CapCountCurrent
  <2> DEFINE q == ProjectOf[tx[v].job]
  <2>1. v # w /\ tx'[v] = tx[v]
    BY <1>1
  <2>2. q \in Projects
    BY <2>1 DEF RowLockExclusive
  <2>3. capLock[q] = v /\ (0 \in capSeen[q] \/ Cardinality(Busy(q)) < tx[v].cap)
    BY <2>1 DEF CapCountCurrent
  <2>4. Busy(q)' = Busy(q)
    BY <2>1 DEF Busy
  <2> QED
    BY <1>2, <2>1, <2>2, <2>3, <2>4
<1> QED
  BY <1>3, <1>4, <1>5, <1>6

\* The commit leases a job that is still queued, and its project has room:
\* whoever could have taken the room since the count needs the advisory lock.
LEMMA CommitIsLease ==
  ASSUME TxInv, NEW w \in Workers, UpdateCommit(w)
  PROVE  tx[w].job \in Jobs /\ Lease(tx[w].job, w)
<1> DEFINE j == tx[w].job
           p == ProjectOf[j]
<1>1. j \in Jobs /\ status[j] = "queued"
  BY DEF TxInv, RowLockExclusive, UpdateCommit
<1>2. p \in Projects
  BY <1>1, QueueAssumption
<1>3. \E c \in capSeen[p] : HasRoom(p, c)
  <2>1. tx[w].cap \in capSeen[p]
    BY DEF TxInv, CapReadKnown, UpdateCommit
  <2>0. tx[w].cap \in Nat
    BY DEF TxInv, TxTypeOK
  <2>2. CASE tx[w].cap = 0
    BY <2>1, <2>2 DEF HasRoom
  <2>3. CASE tx[w].cap > 0
    <3>1. 0 \in capSeen[p] \/ Cardinality(Busy(p)) < tx[w].cap
      BY <2>3 DEF TxInv, CapCountCurrent, UpdateCommit
    <3> QED
      BY <2>1, <3>1 DEF HasRoom
  <2> QED
    BY <2>0, <2>2, <2>3
<1> QED
  BY <1>1, <1>3 DEF Lease, UpdateCommit

LEMMA CommitKeepsInv ==
  ASSUME TxInv, NEW w \in Workers, UpdateCommit(w)
  PROVE  TxInv'
<1> USE QueueAssumption DEF TxInv
<1> DEFINE j == tx[w].job
<1>1. /\ tx[w].pc = "update" /\ EndTx(w)
      /\ status' = [status EXCEPT ![j] = "leased"]
      /\ holder' = [holder EXCEPT ![j] = w]
      /\ expired' = [expired EXCEPT ![j] = FALSE]
      /\ attempts' = [attempts EXCEPT ![j] = @ + 1]
      /\ UNCHANGED <<cap, capSeen, arrivedAt>>
  BY DEF UpdateCommit
<1>2. /\ tx'[w] = Idle /\ Idle.pc = "idle"
      /\ \A v \in Workers \ {w} : tx'[v] = tx[v]
  BY <1>1 DEF EndTx, TxTypeOK, Idle
<1>3. \A v \in Workers \ {w}, q \in Projects : capLock[q] = v => capLock'[q] = v
  BY <1>1 DEF EndTx
<1>4. TxTypeOK'
  <2>1. tx' \in [Workers -> [pc : {"idle", "capLock", "count", "update", "rollback"},
                            job : Jobs \cup {None}, cap : Nat, seen : SUBSET Jobs]]
    BY <1>1 DEF EndTx, TxTypeOK, Idle
  <2>2. capLock' \in [Projects -> Workers \cup {None}]
    BY <1>1 DEF EndTx, TxTypeOK
  <2>3. QueueTypeOK'
    BY CommitIsLease, QueueTypeStep DEF QueueNext, TxTypeOK
  <2> QED
    BY <1>1, <2>1, <2>2, <2>3 DEF TxTypeOK
<1>5. RowLockExclusive'
  <2> SUFFICES ASSUME NEW v \in Workers, tx'[v].pc # "idle"
               PROVE  RowLockExclusive!(v)!2'
    BY DEF RowLockExclusive
  <2>1. v # w /\ tx'[v] = tx[v] /\ tx[v].job # j
    BY <1>1, <1>2 DEF RowLockExclusive
  <2>2. status'[tx[v].job] = status[tx[v].job]
    BY <1>1, <2>1 DEF TxTypeOK, QueueTypeOK, RowLockExclusive
  <2> QED
    BY <1>2, <2>1, <2>2 DEF RowLockExclusive
<1>6. CapReadKnown'
  <2>1. ASSUME NEW v \in Workers \ {w} PROVE CapReadKnown!2!(v)'
    BY <1>1, <1>2, <1>3 DEF CapReadKnown, RowLockExclusive
  <2> QED
    BY <1>1, <1>2, <2>1 DEF CapReadKnown
<1>7. CapCountCurrent'
  <2> SUFFICES ASSUME NEW v \in Workers, tx'[v].pc = "update", tx'[v].cap > 0
               PROVE  CapCountCurrent!(v)!2'
    BY DEF CapCountCurrent
  <2> DEFINE q == ProjectOf[tx[v].job]
  <2>1. v # w /\ tx'[v] = tx[v]
    BY <1>2
  <2>2. q \in Projects
    BY <2>1 DEF RowLockExclusive
  <2>3. capLock[q] = v /\ (0 \in capSeen[q] \/ Cardinality(Busy(q)) < tx[v].cap)
    BY <2>1 DEF CapCountCurrent
  <2>4. CASE ProjectOf[j] # q
    <3>1. Busy(q)' = Busy(q)
      BY <1>1, <2>1, <2>4 DEF Busy, TxTypeOK, QueueTypeOK
    <3> QED
      BY <1>1, <1>3, <2>1, <2>2, <2>3, <3>1
  <2>5. CASE ProjectOf[j] = q
    \* w does not hold q's advisory lock, v does: w read the cap as 0.
    <3>1. tx[w].cap = 0
      BY <1>1, <2>1, <2>3, <2>5 DEF CapReadKnown, TxTypeOK
    <3>2. 0 \in capSeen[q]
      BY <1>1, <2>5, <3>1 DEF CapReadKnown
    <3> QED
      BY <1>1, <1>3, <2>1, <2>2, <2>3, <3>2
  <2> QED
    BY <2>4, <2>5
<1> QED
  BY <1>4, <1>5, <1>6, <1>7

-----------------------------------------------------------------------------
(* The theorems *)

LEMMA TxInvInit == TxInit => TxInv
<1> SUFFICES ASSUME TxInit PROVE TxInv
  OBVIOUS
<1>1. \A w \in Workers : tx[w].pc = "idle"
  BY DEF TxInit, Idle
<1>2. TxTypeOK
  BY QueueAssumption DEF TxInit, TxTypeOK, QueueInit, QueueTypeOK, Status, Idle
<1>3. \A p \in Projects : cap[p] \in capSeen[p]
  BY DEF TxInit, QueueInit
<1> QED
  BY <1>1, <1>2, <1>3
     DEF TxInv, RowLockExclusive, CapReadKnown, CapCountCurrent

LEMMA TxInvNext == TxInv /\ [TxNext]_txVars => TxInv' /\ [QueueNext]_queueVars
<1> SUFFICES ASSUME TxInv, [TxNext]_txVars PROVE TxInv' /\ [QueueNext]_queueVars
  OBVIOUS
<1>1. CASE UNCHANGED txVars
  <2>1. UNCHANGED <<tx, capLock, arrivedAt>> /\ UNCHANGED queueVars
    BY <1>1 DEF txVars, queueVars
  <2>2. TxTypeOK'
    BY <2>1 DEF TxInv, TxTypeOK, QueueTypeOK, queueVars
  <2>3. QuietStep
    BY <2>1 DEF QuietStep, TxInv, CapReadKnown, queueVars
  <2> QED
    BY <2>1, <2>2, <2>3, QuietKeepsInv
<1>2. ASSUME NEW w \in Workers, PickCandidate(w)
      PROVE  TxInv' /\ [QueueNext]_queueVars
  BY <1>2, PickKeepsInv DEF PickCandidate
<1>3. ASSUME NEW w \in Workers, AcquireCapLock(w)
      PROVE  TxInv' /\ [QueueNext]_queueVars
  BY <1>3, AcquireKeepsInv DEF AcquireCapLock
<1>4. ASSUME NEW w \in Workers, CountBusy(w)
      PROVE  TxInv' /\ [QueueNext]_queueVars
  BY <1>4, CountKeepsInv DEF CountBusy
<1>5. ASSUME NEW w \in Workers, UpdateCommit(w)
      PROVE  TxInv' /\ [QueueNext]_queueVars
  BY <1>5, CommitKeepsInv, CommitIsLease DEF QueueNext
<1>6. ASSUME NEW w \in Workers, Rollback(w) \/ Abort(w)
      PROVE  TxInv' /\ [QueueNext]_queueVars
  <2>1. EndTx(w) /\ UNCHANGED queueVars /\ UNCHANGED arrivedAt
    BY <1>6 DEF Rollback, Abort
  <2> QED
    BY <2>1, EndKeepsInv DEF queueVars
<1>7. CASE \/ \E j \in Jobs : TxEnqueue(j) \/ TxCancel(j)
           \/ \E j \in Jobs, w \in Workers : TxWorkerCall(j, w)
           \/ \E r \in Runs : TxCancelJobsOf(r)
           \/ TxLeaseClock
           \/ \E p \in Projects, c \in Caps : TxSetCap(p, c)
  BY <1>7, OthersAreQuiet, QuietKeepsInv
<1> QED
  BY <1>1, <1>2, <1>3, <1>4, <1>5, <1>6, <1>7 DEF TxNext, LeaseStep

\* Two Lease calls in progress never hold the same job, and the job a call
\* holds stays queued until its UPDATE, which names it by id alone.
THEOREM RowLocksExclude == TxSpec => []RowLockExclusive
<1>1. TxInv => RowLockExclusive
  BY DEF TxInv
<1> QED
  BY <1>1, TxInvInit, TxInvNext, PTL DEF TxSpec

\* What a Lease call counted under the advisory lock still bounds the busy
\* jobs of the project when the call commits.
THEOREM CapCountStaysCurrent == TxSpec => []CapCountCurrent
<1>1. TxInv => CapCountCurrent
  BY DEF TxInv
<1> QED
  BY <1>1, TxInvInit, TxInvNext, PTL DEF TxSpec

\* The transaction implements the contract of JobQueue.
THEOREM LeaseTxImplementsQueue == TxSpec => QueueSpec
<1>1. TxInit => QueueInit
  BY DEF TxInit
<1> QED
  BY <1>1, TxInvInit, TxInvNext, PTL DEF TxSpec, QueueSpec

\* Hence the concurrency cap holds for the transaction as the code runs it.
COROLLARY LeaseTxRespectsCap == TxSpec => []CapRespected
  BY LeaseTxImplementsQueue, CapAlwaysRespected

\* Hence a job that has ended stays ended under those transactions, too.
COROLLARY LeaseTxKeepsEnded == TxSpec => TerminalAbsorbing
  BY LeaseTxImplementsQueue, TerminalIsFinal

-----------------------------------------------------------------------------
(* Who waits for whom. *)

\* The holder of an advisory lock waits for nobody (queue.go:170-196), for any
\* number of projects and workers: no circle of waits can close.
THEOREM LockHoldersRun == TxSpec => []LockHolderRuns
<1>1. TxInit => LockHolderRuns
  BY DEF TxInit, LockHolderRuns
<1>2. TxInv /\ LockHolderRuns /\ [TxNext]_txVars => LockHolderRuns'
  <2> SUFFICES ASSUME TxInv, LockHolderRuns, [TxNext]_txVars PROVE LockHolderRuns'
    OBVIOUS
  <2> USE QueueAssumption DEF TxInv, TxTypeOK
  <2>1. CASE UNCHANGED <<tx, capLock>>
    BY <2>1 DEF LockHolderRuns
  <2>2. ASSUME NEW w \in Workers, PickCandidate(w) PROVE LockHolderRuns'
    <3>1. capLock' = capLock /\ \A p \in Projects : capLock[p] # w
      BY <2>2 DEF PickCandidate, LockHolderRuns
    <3>2. \A v \in Workers \ {w} : tx'[v] = tx[v]
      BY <2>2 DEF PickCandidate
    <3> QED
      BY <3>1, <3>2 DEF LockHolderRuns
  <2>3. ASSUME NEW w \in Workers, AcquireCapLock(w) PROVE LockHolderRuns'
    <3> DEFINE q == ProjectOf[tx[w].job]
    <3>1. /\ tx'[w].pc = "count" /\ tx'[w].job = tx[w].job
          /\ \A v \in Workers \ {w} : tx'[v] = tx[v]
          /\ \A p \in Projects : capLock[p] # w
      BY <2>3 DEF AcquireCapLock, LockHolderRuns
    <3>2. \A p \in Projects : capLock'[p] = IF p = q THEN w ELSE capLock[p]
      BY <2>3 DEF AcquireCapLock
    <3> QED
      BY <3>1, <3>2 DEF LockHolderRuns
  <2>4. ASSUME NEW w \in Workers, CountBusy(w) PROVE LockHolderRuns'
    <3>1. /\ capLock' = capLock
          /\ tx'[w].pc \in {"update", "rollback"} /\ tx'[w].job = tx[w].job
          /\ \A v \in Workers \ {w} : tx'[v] = tx[v]
      BY <2>4 DEF CountBusy
    <3> QED
      BY <3>1 DEF LockHolderRuns
  <2>5. ASSUME NEW w \in Workers, EndTx(w) PROVE LockHolderRuns'
    <3>1. /\ \A v \in Workers \ {w} : tx'[v] = tx[v]
          /\ \A p \in Projects : capLock'[p] = IF capLock[p] = w THEN None ELSE capLock[p]
      BY <2>5 DEF EndTx
    <3> QED
      BY <3>1 DEF LockHolderRuns
  <2>6. CASE UNCHANGED txVars
    BY <2>1, <2>6 DEF txVars
  <2>7. CASE TxLeaseClock \/ \E j \in Jobs : TxEnqueue(j) \/ TxCancel(j)
    BY <2>1, <2>7 DEF TxLeaseClock, TxEnqueue, TxCancel
  <2>8. CASE \/ \E j \in Jobs, w \in Workers : TxWorkerCall(j, w)
             \/ \E r \in Runs : TxCancelJobsOf(r)
             \/ \E p \in Projects, c \in Caps : TxSetCap(p, c)
    BY <2>1, <2>8 DEF TxWorkerCall, TxCancelJobsOf, TxSetCap
  <2>9. ASSUME NEW w \in Workers, UpdateCommit(w) \/ Rollback(w) \/ Abort(w)
        PROVE  LockHolderRuns'
    BY <2>5, <2>9 DEF UpdateCommit, Rollback, Abort
  <2> QED
    BY <2>2, <2>3, <2>4, <2>6, <2>7, <2>8, <2>9 DEF TxNext, LeaseStep
<1> QED
  BY <1>1, <1>2, TxInvInit, TxInvNext, PTL DEF TxSpec
=============================================================================
