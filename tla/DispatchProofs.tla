--------------------------- MODULE DispatchProofs ---------------------------
(* Theorems of Dispatch: for any number of jobs, runs and workers, and with  *)
(* any number of crashes and failed calls.                                   *)
EXTENDS Dispatch, QueueProofs

Busily(w) == wk[w].pc \notin {"idle", "down"}

\* What the status columns and the calls in progress agree on.
RunsAgree ==
    /\ \A r \in Runs : plan[r].pc = "none" <=> run[r] = "absent"
    /\ \A j \in Jobs : status[j] # "absent" => plan[RunOf[j]].pc # "none"
    /\ \A r \in Runs : cancel[r].pc # "none" => plan[r].pc = "returned" \/ Rows(r) # {}
    /\ \A r \in Runs : Planning(r) /\ Rows(r) = {} => run[r] = "running"
    /\ \A r \in Runs : \A j \in plan[r].todo : RunOf[j] = r

\* What a worker has in its hands.
WorkersAgree ==
    \A w \in Workers :
        /\ Busily(w) => wk[w].job \in Jobs /\ status[wk[w].job] # "absent"
        /\ wk[w].pc = "complete" => wk[w].result \in Results
        /\ wk[w].pc = "verdict" => wk[w].result \in {"succeeded", "failed"}

Inv == DispatchTypeOK /\ RunsAgree /\ WorkersAgree

LEMMA InitInv == Init => Inv
<1> SUFFICES ASSUME Init PROVE Inv
  OBVIOUS
<1> USE QueueAssumption, DispatchAssumption
<1>1. QueueTypeOK
  BY DEF Init, QueueInit, QueueTypeOK, Status
<1>2. DispatchTypeOK
  BY <1>1 DEF Init, DispatchTypeOK, NoWork, WorkerPC
<1>3. RunsAgree /\ WorkersAgree
  BY DEF Init, QueueInit, RunsAgree, WorkersAgree, Rows, Planning, NoWork, Busily
<1> QED
  BY <1>2, <1>3 DEF Inv

-----------------------------------------------------------------------------
(* What the queue's methods do to `jobs`, as far as runs are concerned. *)

\* A row is never removed, and a job that has ended is left as it is.
KeepsRows ==
    /\ QueueTypeOK'
    /\ \A j \in Jobs : status[j] # "absent" => status'[j] # "absent"
    /\ \A j \in Jobs : status[j] \in Terminal => status'[j] = status[j]

\* Nor is one added.
AddsNone == \A j \in Jobs : status[j] = "absent" => status'[j] = "absent"

LEMMA QueueStep ==
  ASSUME QueueTypeOK, [QueueNext]_queueVars
  PROVE  KeepsRows
<1>1. QueueTypeOK'
  BY QueueTypeStep
<1>2. ASSUME NEW k \in Jobs
      PROVE  /\ status[k] # "absent" => status'[k] # "absent"
             /\ status[k] \in Terminal => status'[k] = status[k]
  <2> USE DEF QueueTypeOK, Active, Terminal
  <2>1. CASE UNCHANGED queueVars
    BY <2>1 DEF queueVars
  <2>2. ASSUME NEW j \in Jobs, Enqueue(j) PROVE <1>2!2
    BY <2>2 DEF Enqueue
  <2>3. ASSUME NEW j \in Jobs, Cancel(j) PROVE <1>2!2
    BY <2>3 DEF Cancel, Live
  <2>4. ASSUME NEW j \in Jobs, ExpireLease(j) PROVE <1>2!2
    BY <2>4 DEF ExpireLease
  <2>5. ASSUME NEW j \in Jobs, NEW w \in Workers, Lease(j, w) PROVE <1>2!2
    BY <2>5 DEF Lease
  <2>6. ASSUME NEW j \in Jobs, NEW w \in Workers, MarkRunning(j, w) PROVE <1>2!2
    BY <2>6 DEF MarkRunning, CanMarkRunning
  <2>7. ASSUME NEW j \in Jobs, NEW w \in Workers, NEW s \in Status, Complete(j, w, s) PROVE <1>2!2
    BY <2>7 DEF Complete, CanComplete
  <2>8. ASSUME NEW r \in Runs, CancelJobsOf(r) PROVE <1>2!2
    BY <2>8 DEF CancelJobsOf, Live
  <2>9. CASE ReclaimExpired
    BY <2>9 DEF ReclaimExpired, Reclaimable
  <2>10. ASSUME NEW p \in Projects, NEW c \in Caps, SetCap(p, c) PROVE <1>2!2
    BY <2>10 DEF SetCap
  <2> QED
    BY <2>1, <2>2, <2>3, <2>4, <2>5, <2>6, <2>7, <2>8, <2>9, <2>10 DEF QueueNext
<1> QED
  BY <1>1, <1>2 DEF KeepsRows
\* Every step is one of the queue's, or leaves it alone.
LEMMA StepOfQueue == Inv /\ [Next]_vars => [QueueNext]_queueVars
<1> SUFFICES ASSUME Inv, [Next]_vars PROVE [QueueNext]_queueVars
  OBVIOUS
<1>0. CASE UNCHANGED vars
  BY <1>0 DEF vars, queueVars
<1>1. ASSUME NEW r \in Runs, StartPlan(r) PROVE [QueueNext]_queueVars
  BY <1>1 DEF StartPlan
<1>2. ASSUME NEW r \in Runs, NEW j \in Jobs, PlanKeep(r, j) PROVE [QueueNext]_queueVars
  BY <1>2 DEF PlanKeep, QueueNext
<1>3. ASSUME NEW r \in Runs, NEW j \in Jobs, PlanDrop(r, j) PROVE [QueueNext]_queueVars
  BY <1>3 DEF PlanDrop
<1>4. ASSUME NEW r \in Runs, PlanEnd(r) PROVE [QueueNext]_queueVars
  BY <1>4 DEF PlanEnd
<1>5. ASSUME NEW r \in Runs, PlanFail(r) PROVE [QueueNext]_queueVars
  BY <1>5 DEF PlanFail
<1>6. ASSUME NEW r \in Runs, CancelJobs(r) PROVE [QueueNext]_queueVars
  BY <1>6 DEF CancelJobs, QueueNext
<1>7. ASSUME NEW r \in Runs, CancelRunRow(r) PROVE [QueueNext]_queueVars
  BY <1>7 DEF CancelRunRow
<1>8. ASSUME NEW r \in Runs, CancelFails(r) PROVE [QueueNext]_queueVars
  BY <1>8 DEF CancelFails
<1>9. ASSUME NEW w \in Workers, WorkerLease(w) PROVE [QueueNext]_queueVars
  BY <1>9 DEF WorkerLease, QueueNext
<1>10. ASSUME NEW w \in Workers, LeaseLost(w) PROVE [QueueNext]_queueVars
  BY <1>10 DEF LeaseLost, QueueNext
<1>11. ASSUME NEW w \in Workers, Unregistered(w) PROVE [QueueNext]_queueVars
  BY <1>11 DEF Unregistered
<1>12. ASSUME NEW w \in Workers, StartJob(w) PROVE [QueueNext]_queueVars
  <2>1. wk[w].job \in Jobs
    BY <1>12 DEF StartJob, Inv, WorkersAgree, Busily
  <2> QED
    BY <1>12, <2>1 DEF StartJob, QueueNext
<1>13. ASSUME NEW w \in Workers, StartRefused(w) PROVE [QueueNext]_queueVars
  BY <1>13 DEF StartRefused
<1>14. ASSUME NEW w \in Workers, NEW res \in Results, Executed(w, res) PROVE [QueueNext]_queueVars
  BY <1>14 DEF Executed
<1>15. ASSUME NEW w \in Workers, CompleteJob(w) PROVE [QueueNext]_queueVars
  <2>1. wk[w].job \in Jobs
    BY <1>15 DEF CompleteJob, Inv, WorkersAgree, Busily
  <2>2. \A s \in Terminal : s \in Status
    BY DEF Terminal, Status
  <2> QED
    BY <1>15, <2>1, <2>2 DEF CompleteJob, QueueNext, Complete
<1>16. ASSUME NEW w \in Workers, CountJobs(w) PROVE [QueueNext]_queueVars
  BY <1>16 DEF CountJobs
<1>17. ASSUME NEW w \in Workers, SetVerdict(w) PROVE [QueueNext]_queueVars
  BY <1>17 DEF SetVerdict
<1>18. ASSUME NEW w \in Workers, Restart(w) PROVE [QueueNext]_queueVars
  BY <1>18 DEF Restart
<1>19. ASSUME NEW w \in Workers, CallFails(w) PROVE [QueueNext]_queueVars
  BY <1>19 DEF CallFails
<1>20. ASSUME NEW w \in Workers, Crash(w) PROVE [QueueNext]_queueVars
  BY <1>20 DEF Crash
<1>21. CASE Clock
  BY <1>21 DEF Clock, QueueNext
<1>22. CASE Sweep
  BY <1>22 DEF Sweep, QueueNext
<1> QED
  BY <1>0, <1>1, <1>2, <1>3, <1>4, <1>5, <1>6, <1>7, <1>8, <1>9, <1>10, <1>11,
     <1>12, <1>13, <1>14, <1>15, <1>16, <1>17, <1>18, <1>19, <1>20, <1>21, <1>22
     DEF Next, PlanStep, WorkStep
-----------------------------------------------------------------------------
(* Types. *)

LEMMA TypesFromParts ==
  ASSUME Inv, [Next]_vars,
         run' \in [Runs -> {"absent", "running"} \cup Finished],
         plan' \in [Runs -> [pc : {"none", "planning", "returned", "failed"}, todo : SUBSET Jobs]],
         wk' \in [Workers -> [pc : WorkerPC, job : Jobs \cup {None}, attempt : Nat,
                             result : Results \cup {None}]],
         cancel' \in [Runs -> [pc : {"none", "jobs", "done", "failed"}, hit : BOOLEAN, whole : BOOLEAN]],
         early' \in SUBSET Runs, faults' \in Nat
  PROVE  DispatchTypeOK'
BY StepOfQueue, QueueStep DEF Inv, DispatchTypeOK, KeepsRows

\* A function goes on having values of a set when one of them is replaced.
LEMMA OneUpdated ==
  ASSUME NEW S, NEW T, NEW f \in [S -> T], NEW x \in S, NEW v \in T
  PROVE  [f EXCEPT ![x] = v] \in [S -> T]
OBVIOUS

PlanRow == [pc : {"none", "planning", "returned", "failed"}, todo : SUBSET Jobs]
WorkerRow == [pc : WorkerPC, job : Jobs \cup {None}, attempt : Nat, result : Results \cup {None}]
CancelRow == [pc : {"none", "jobs", "done", "failed"}, hit : BOOLEAN, whole : BOOLEAN]

\* Every step keeps the types.
LEMMA TypeStep == Inv /\ [Next]_vars => DispatchTypeOK'
<1> SUFFICES ASSUME Inv, [Next]_vars PROVE DispatchTypeOK'
  OBVIOUS
<1> USE QueueAssumption, DispatchAssumption
<1>0. CASE UNCHANGED vars
  BY <1>0, TypesFromParts DEF vars, dispatchVars, Inv, DispatchTypeOK
<1>1. ASSUME NEW r \in Runs, StartPlan(r) PROVE DispatchTypeOK'
  BY <1>1, TypesFromParts DEF StartPlan, Inv, DispatchTypeOK, WorkerPC, dispatchVars
<1>2. ASSUME NEW r \in Runs, NEW j \in Jobs, PlanKeep(r, j) PROVE DispatchTypeOK'
  BY <1>2, TypesFromParts DEF PlanKeep, Planning, Inv, DispatchTypeOK, WorkerPC, dispatchVars
<1>3. ASSUME NEW r \in Runs, NEW j \in Jobs, PlanDrop(r, j) PROVE DispatchTypeOK'
  BY <1>3, TypesFromParts DEF PlanDrop, Planning, Inv, DispatchTypeOK, WorkerPC, dispatchVars
<1>4. ASSUME NEW r \in Runs, PlanEnd(r) PROVE DispatchTypeOK'
  <2>1. plan \in [Runs -> PlanRow] /\ plan' = [plan EXCEPT ![r] = [plan[r] EXCEPT !.pc = "returned"]]
    BY <1>4 DEF PlanEnd, PlanRow, Inv, DispatchTypeOK
  <2>2. plan' \in [Runs -> PlanRow]
    <3>1. plan[r] \in PlanRow
      BY <2>1
    <3>2. [plan[r] EXCEPT !.pc = "returned"] \in PlanRow
      BY <3>1 DEF PlanRow
    <3> QED
      BY <2>1, <3>2, OneUpdated
  <2> QED
    BY <1>4, <2>2, TypesFromParts DEF PlanEnd, PlanRow, Inv, DispatchTypeOK, Finished
<1>5. ASSUME NEW r \in Runs, PlanFail(r) PROVE DispatchTypeOK'
  <2>1. plan \in [Runs -> PlanRow] /\ plan' = [plan EXCEPT ![r] = [plan[r] EXCEPT !.pc = "failed"]]
    BY <1>5 DEF PlanFail, PlanRow, Inv, DispatchTypeOK
  <2>2. plan' \in [Runs -> PlanRow]
    <3>1. plan[r] \in PlanRow
      BY <2>1
    <3>2. [plan[r] EXCEPT !.pc = "failed"] \in PlanRow
      BY <3>1 DEF PlanRow
    <3> QED
      BY <2>1, <3>2, OneUpdated
  <2>3. UNCHANGED <<run, wk, cancel, early>> /\ faults' \in Nat
    BY <1>5 DEF PlanFail, Fault, Inv, DispatchTypeOK
  <2> QED
    BY <2>2, <2>3, TypesFromParts DEF PlanRow, Inv, DispatchTypeOK
<1>6. ASSUME NEW r \in Runs, CancelJobs(r) PROVE DispatchTypeOK'
  <2>1. [pc |-> "jobs", hit |-> \E j \in Rows(r) : Live(j), whole |-> ~Planning(r)]
          \in [pc : {"none", "jobs", "done", "failed"}, hit : BOOLEAN, whole : BOOLEAN]
    OBVIOUS
  <2> QED
    BY <1>6, <2>1, TypesFromParts DEF CancelJobs, Inv, DispatchTypeOK
<1>7. ASSUME NEW r \in Runs, CancelRunRow(r) PROVE DispatchTypeOK'
  <2>1. cancel \in [Runs -> CancelRow] /\ cancel' = [cancel EXCEPT ![r] = [cancel[r] EXCEPT !.pc = "done"]]
    BY <1>7 DEF CancelRunRow, CancelRow, Inv, DispatchTypeOK
  <2>2. cancel' \in [Runs -> CancelRow]
    <3>1. cancel[r] \in CancelRow
      BY <2>1
    <3>2. [cancel[r] EXCEPT !.pc = "done"] \in CancelRow
      BY <3>1 DEF CancelRow
    <3> QED
      BY <2>1, <3>2, OneUpdated
  <2>3. run' \in [Runs -> {"absent", "running"} \cup Finished]
    BY <1>7 DEF CancelRunRow, Finished, Inv, DispatchTypeOK
  <2>4. UNCHANGED <<plan, wk, early, faults>>
    BY <1>7 DEF CancelRunRow
  <2> QED
    BY <2>2, <2>3, <2>4, TypesFromParts DEF CancelRow, Inv, DispatchTypeOK
<1>8. ASSUME NEW r \in Runs, CancelFails(r) PROVE DispatchTypeOK'
  <2>1. cancel \in [Runs -> CancelRow] /\ cancel' = [cancel EXCEPT ![r] = [cancel[r] EXCEPT !.pc = "failed"]]
    BY <1>8 DEF CancelFails, CancelRow, Inv, DispatchTypeOK
  <2>2. cancel' \in [Runs -> CancelRow]
    <3>1. cancel[r] \in CancelRow
      BY <2>1
    <3>2. [cancel[r] EXCEPT !.pc = "failed"] \in CancelRow
      BY <3>1 DEF CancelRow
    <3> QED
      BY <2>1, <3>2, OneUpdated
  <2>3. UNCHANGED <<run, plan, wk, early>> /\ faults' \in Nat
    BY <1>8 DEF CancelFails, Fault, Inv, DispatchTypeOK
  <2> QED
    BY <2>2, <2>3, TypesFromParts DEF CancelRow, Inv, DispatchTypeOK
<1>9. ASSUME NEW w \in Workers, WorkerLease(w) PROVE DispatchTypeOK'
  <2>1. wk[w] \in [pc : WorkerPC, job : Jobs \cup {None}, attempt : Nat, result : Results \cup {None}]
    BY DEF Inv, DispatchTypeOK
  <2>2. PICK j \in Jobs : /\ Lease(j, w)
                             /\ wk' = [wk EXCEPT ![w] = [pc |-> "leased", job |-> j,
                                                          attempt |-> attempts'[j], result |-> None]]
    BY <1>9 DEF WorkerLease
  <2>3. attempts'[j] \in Nat
    BY <2>2 DEF Lease, Inv, DispatchTypeOK, QueueTypeOK
  <2>4. wk' \in [Workers -> [pc : WorkerPC, job : Jobs \cup {None}, attempt : Nat, result : Results \cup {None}]]
    BY <2>1, <2>2, <2>3 DEF Inv, DispatchTypeOK, WorkerPC
  <2> QED
    BY <1>9, <2>4, TypesFromParts DEF WorkerLease, Inv, DispatchTypeOK
<1>10. ASSUME NEW w \in Workers, LeaseLost(w) PROVE DispatchTypeOK'
  BY <1>10, TypesFromParts DEF LeaseLost, Fault, Inv, DispatchTypeOK, WorkerPC, dispatchVars
<1>11. ASSUME NEW w \in Workers, Unregistered(w) PROVE DispatchTypeOK'
  <2>1. wk[w] \in [pc : WorkerPC, job : Jobs \cup {None}, attempt : Nat, result : Results \cup {None}]
    BY DEF Inv, DispatchTypeOK
  <2>2. [wk[w] EXCEPT !.pc = "complete", !.result = "failed"] \in [pc : WorkerPC, job : Jobs \cup {None}, attempt : Nat, result : Results \cup {None}]
    BY <2>1 DEF WorkerPC, Results
  <2>3. wk' = [wk EXCEPT ![w] = [wk[w] EXCEPT !.pc = "complete", !.result = "failed"]]
    BY <1>11 DEF Unregistered, Inv, DispatchTypeOK
  <2>4. wk' \in [Workers -> [pc : WorkerPC, job : Jobs \cup {None}, attempt : Nat, result : Results \cup {None}]]
    BY <2>2, <2>3 DEF Inv, DispatchTypeOK
  <2> QED
    BY <1>11, <2>4, TypesFromParts DEF Unregistered, Inv, DispatchTypeOK
<1>12. ASSUME NEW w \in Workers, StartJob(w) PROVE DispatchTypeOK'
  <2>1. wk \in [Workers -> WorkerRow] /\ wk' = [wk EXCEPT ![w] = [wk[w] EXCEPT !.pc = "execute"]]
    BY <1>12 DEF StartJob, WorkerRow, Inv, DispatchTypeOK
  <2>2. wk' \in [Workers -> WorkerRow]
    <3>1. wk[w] \in WorkerRow
      BY <2>1
    <3>2. [wk[w] EXCEPT !.pc = "execute"] \in WorkerRow
      BY <3>1 DEF WorkerRow, WorkerPC
    <3> QED
      BY <2>1, <3>2, OneUpdated
  <2>3. UNCHANGED <<run, plan, cancel, early, faults>>
    BY <1>12 DEF StartJob
  <2> QED
    BY <2>2, <2>3, TypesFromParts DEF WorkerRow, Inv, DispatchTypeOK
<1>13. ASSUME NEW w \in Workers, StartRefused(w) PROVE DispatchTypeOK'
  BY <1>13, TypesFromParts DEF StartRefused, NoWork, Inv, DispatchTypeOK, WorkerPC, dispatchVars
<1>14. ASSUME NEW w \in Workers, NEW res \in Results, Executed(w, res) PROVE DispatchTypeOK'
  <2>1. wk[w] \in [pc : WorkerPC, job : Jobs \cup {None}, attempt : Nat, result : Results \cup {None}]
    BY DEF Inv, DispatchTypeOK
  <2>2. [wk[w] EXCEPT !.pc = "complete", !.result = res] \in [pc : WorkerPC, job : Jobs \cup {None}, attempt : Nat, result : Results \cup {None}]
    BY <2>1 DEF WorkerPC, Results
  <2>3. wk' = [wk EXCEPT ![w] = [wk[w] EXCEPT !.pc = "complete", !.result = res]]
    BY <1>14 DEF Executed, Inv, DispatchTypeOK
  <2>4. wk' \in [Workers -> [pc : WorkerPC, job : Jobs \cup {None}, attempt : Nat, result : Results \cup {None}]]
    BY <2>2, <2>3 DEF Inv, DispatchTypeOK
  <2> QED
    BY <1>14, <2>4, TypesFromParts DEF Executed, Inv, DispatchTypeOK
<1>15. ASSUME NEW w \in Workers, CompleteJob(w) PROVE DispatchTypeOK'
  BY <1>15, TypesFromParts DEF CompleteJob, Inv, DispatchTypeOK, WorkerPC, dispatchVars
<1>16. ASSUME NEW w \in Workers, CountJobs(w) PROVE DispatchTypeOK'
  <2>1. wk[w] \in [pc : WorkerPC, job : Jobs \cup {None}, attempt : Nat, result : Results \cup {None}]
    BY DEF Inv, DispatchTypeOK
  <2>2. wk'[w] \in [pc : WorkerPC, job : Jobs \cup {None}, attempt : Nat, result : Results \cup {None}]
    BY <1>16, <2>1 DEF CountJobs, NoWork, Inv, DispatchTypeOK, WorkerPC, Results
  <2>3. wk' = [wk EXCEPT ![w] = wk'[w]]
    BY <1>16 DEF CountJobs, Inv, DispatchTypeOK
  <2>4. wk' \in [Workers -> [pc : WorkerPC, job : Jobs \cup {None}, attempt : Nat, result : Results \cup {None}]]
    BY <2>2, <2>3 DEF Inv, DispatchTypeOK
  <2>5. RunOf[wk[w].job] \in Runs
    BY <1>16 DEF CountJobs, Inv, WorkersAgree, Busily
  <2> QED
    BY <1>16, <2>4, <2>5, TypesFromParts DEF CountJobs, Inv, DispatchTypeOK
<1>17. ASSUME NEW w \in Workers, SetVerdict(w) PROVE DispatchTypeOK'
  <2>1. wk[w].result \in Finished \cup {"running"}
    BY <1>17 DEF SetVerdict, Inv, WorkersAgree, Finished
  <2>2. RunOf[wk[w].job] \in Runs
    BY <1>17 DEF SetVerdict, Inv, WorkersAgree, Busily
  <2> QED
    BY <1>17, <2>1, <2>2, TypesFromParts DEF SetVerdict, Inv, DispatchTypeOK, WorkerPC, NoWork, Finished, queueVars
<1>18. ASSUME NEW w \in Workers, Restart(w) PROVE DispatchTypeOK'
  BY <1>18, TypesFromParts DEF Restart, NoWork, Inv, DispatchTypeOK, WorkerPC, dispatchVars
<1>19. ASSUME NEW w \in Workers, CallFails(w) PROVE DispatchTypeOK'
  <2>1. wk[w] \in [pc : WorkerPC, job : Jobs \cup {None}, attempt : Nat, result : Results \cup {None}]
    BY DEF Inv, DispatchTypeOK
  <2>2. wk'[w] \in [pc : WorkerPC, job : Jobs \cup {None}, attempt : Nat, result : Results \cup {None}]
    BY <1>19, <2>1 DEF CallFails, NoWork, Inv, DispatchTypeOK, WorkerPC, Results
  <2>3. wk' = [wk EXCEPT ![w] = wk'[w]]
    BY <1>19 DEF CallFails, Inv, DispatchTypeOK
  <2>4. wk' \in [Workers -> [pc : WorkerPC, job : Jobs \cup {None}, attempt : Nat, result : Results \cup {None}]]
    BY <2>2, <2>3 DEF Inv, DispatchTypeOK
  <2> QED
    BY <1>19, <2>4, TypesFromParts DEF CallFails, Fault, Inv, DispatchTypeOK
<1>20. ASSUME NEW w \in Workers, Crash(w) PROVE DispatchTypeOK'
  BY <1>20, TypesFromParts DEF Crash, NoWork, Fault, Inv, DispatchTypeOK, WorkerPC, dispatchVars
<1>21. CASE Clock
  BY <1>21, TypesFromParts DEF Clock, Inv, DispatchTypeOK, WorkerPC, dispatchVars
<1>22. CASE Sweep
  BY <1>22, TypesFromParts DEF Sweep, Inv, DispatchTypeOK, WorkerPC, dispatchVars
<1> QED
  BY <1>0, <1>1, <1>2, <1>3, <1>4, <1>5, <1>6, <1>7, <1>8, <1>9, <1>10, <1>11,
     <1>12, <1>13, <1>14, <1>15, <1>16, <1>17, <1>18, <1>19, <1>20, <1>21, <1>22
     DEF Next, PlanStep, WorkStep
-----------------------------------------------------------------------------
(* The agreement of runs, plans, cancellations and workers. *)

\* A step of a worker, of time or of the sweep.
LEMMA RunsFrame ==
  ASSUME Inv, KeepsRows, AddsNone, UNCHANGED <<run, plan, cancel>>
  PROVE  RunsAgree'
<1>1. \A r \in Runs : Rows(r)' = Rows(r)
  BY DEF KeepsRows, AddsNone, Rows
<1> QED
  BY <1>1, QueueAssumption DEF Inv, RunsAgree, AddsNone, Planning

LEMMA WorkersFrame ==
  ASSUME Inv, KeepsRows, UNCHANGED wk
  PROVE  WorkersAgree'
BY QueueAssumption DEF Inv, WorkersAgree, KeepsRows, Busily

LEMMA WorkerMoves ==
  ASSUME Inv, KeepsRows, NEW w \in Workers, \A v \in Workers \ {w} : wk'[v] = wk[v],
         wk'[w].pc \notin {"idle", "down"} => wk'[w].job \in Jobs /\ status'[wk'[w].job] # "absent",
         wk'[w].pc = "complete" => wk'[w].result \in Results,
         wk'[w].pc = "verdict" => wk'[w].result \in {"succeeded", "failed"}
  PROVE  WorkersAgree'
BY QueueAssumption DEF Inv, WorkersAgree, KeepsRows, Busily

\* Every step keeps the agreement.
LEMMA AgreeStep == Inv /\ [Next]_vars => RunsAgree' /\ WorkersAgree'
<1> SUFFICES ASSUME Inv, [Next]_vars PROVE RunsAgree' /\ WorkersAgree'
  OBVIOUS
<1>k. KeepsRows
  BY StepOfQueue, QueueStep DEF Inv, DispatchTypeOK
<1> USE <1>k
<1>0. CASE UNCHANGED vars
  BY <1>0, RunsFrame, WorkersFrame DEF vars, dispatchVars, AddsNone
<1>1. ASSUME NEW r \in Runs, StartPlan(r) PROVE RunsAgree' /\ WorkersAgree'
  <2>1. WorkersAgree'
    BY <1>1, WorkersFrame DEF StartPlan
  <2>2. \A q \in Runs : Rows(q)' = Rows(q)
    BY <1>1 DEF StartPlan, queueVars, Rows, Inv, DispatchTypeOK, QueueTypeOK
  <2>3. \A i \in Jobs : status'[i] # "absent" => status[i] # "absent"
    BY <1>1 DEF StartPlan, queueVars, Inv, DispatchTypeOK, QueueTypeOK
  <2>4. RunsAgree'
    BY <1>1, <2>2, <2>3, QueueAssumption DEF StartPlan, Inv, RunsAgree, DispatchTypeOK, Planning, Finished
  <2> QED
    BY <2>1, <2>4
<1>2. ASSUME NEW r \in Runs, NEW j \in Jobs, PlanKeep(r, j) PROVE RunsAgree' /\ WorkersAgree'
  <2>1. WorkersAgree'
    BY <1>2, WorkersFrame DEF PlanKeep
  <2>2. \A q \in Runs : Rows(q) \subseteq Rows(q)'
    BY DEF KeepsRows, Rows
  <2>3. \A i \in Jobs : status'[i] # "absent" => status[i] # "absent" \/ i = j
    BY <1>2 DEF PlanKeep, Enqueue, Inv, DispatchTypeOK, QueueTypeOK
  <2>4. plan[r].pc = "planning" /\ \A q \in Runs : plan'[q].pc = plan[q].pc
    BY <1>2 DEF PlanKeep, Planning, Inv, DispatchTypeOK
  <2>5. RunOf[j] \in Runs
    BY QueueAssumption
  <2>10. RunOf[j] = r
    BY <1>2 DEF PlanKeep, Planning, Inv, RunsAgree
  <2>6. RunsAgree'
    BY <1>2, <2>2, <2>3, <2>4, <2>10, QueueAssumption DEF PlanKeep, Inv, RunsAgree, Planning
  <2> QED
    BY <2>1, <2>6
<1>3. ASSUME NEW r \in Runs, NEW j \in Jobs, PlanDrop(r, j) PROVE RunsAgree' /\ WorkersAgree'
  <2>1. WorkersAgree'
    BY <1>3, WorkersFrame DEF PlanDrop
  <2>2. \A q \in Runs : Rows(q)' = Rows(q)
    BY <1>3 DEF PlanDrop, queueVars, Rows, Inv, DispatchTypeOK, QueueTypeOK
  <2>3. \A i \in Jobs : status'[i] # "absent" => status[i] # "absent"
    BY <1>3 DEF PlanDrop, queueVars, Inv, DispatchTypeOK, QueueTypeOK
  <2>4. RunsAgree'
    BY <1>3, <2>2, <2>3, QueueAssumption DEF PlanDrop, Inv, RunsAgree, DispatchTypeOK, Planning, Finished
  <2> QED
    BY <2>1, <2>4
<1>4. ASSUME NEW r \in Runs, PlanEnd(r) PROVE RunsAgree' /\ WorkersAgree'
  <2>1. WorkersAgree'
    BY <1>4, WorkersFrame DEF PlanEnd
  <2>2. \A q \in Runs : Rows(q)' = Rows(q)
    BY <1>4 DEF PlanEnd, queueVars, Rows, Inv, DispatchTypeOK, QueueTypeOK
  <2>3. \A i \in Jobs : status'[i] # "absent" => status[i] # "absent"
    BY <1>4 DEF PlanEnd, queueVars, Inv, DispatchTypeOK, QueueTypeOK
  <2>4. RunsAgree'
    BY <1>4, <2>2, <2>3, QueueAssumption DEF PlanEnd, Inv, RunsAgree, DispatchTypeOK, Planning, Finished
  <2> QED
    BY <2>1, <2>4
<1>5. ASSUME NEW r \in Runs, PlanFail(r) PROVE RunsAgree' /\ WorkersAgree'
  <2>1. WorkersAgree'
    BY <1>5, WorkersFrame DEF PlanFail
  <2>2. \A q \in Runs : Rows(q)' = Rows(q)
    BY <1>5 DEF PlanFail, queueVars, Rows, Inv, DispatchTypeOK, QueueTypeOK
  <2>3. \A i \in Jobs : status'[i] # "absent" => status[i] # "absent"
    BY <1>5 DEF PlanFail, queueVars, Inv, DispatchTypeOK, QueueTypeOK
  <2>4. RunsAgree'
    BY <1>5, <2>2, <2>3, QueueAssumption DEF PlanFail, Inv, RunsAgree, DispatchTypeOK, Planning, Finished
  <2> QED
    BY <2>1, <2>4
<1>6. ASSUME NEW r \in Runs, CancelJobs(r) PROVE RunsAgree' /\ WorkersAgree'
  <2>1. WorkersAgree'
    BY <1>6, WorkersFrame DEF CancelJobs
  <2>2. \A q \in Runs : Rows(q)' = Rows(q)
    BY <1>6 DEF CancelJobs, CancelJobsOf, Live, Known, Terminal, Rows, Inv, DispatchTypeOK, QueueTypeOK
  <2>3. \A i \in Jobs : status'[i] # "absent" => status[i] # "absent"
    BY <1>6 DEF CancelJobs, CancelJobsOf, Live, Known, Terminal, Inv, DispatchTypeOK, QueueTypeOK
  <2>4. RunsAgree'
    BY <1>6, <2>2, <2>3, QueueAssumption DEF CancelJobs, Inv, RunsAgree, DispatchTypeOK, Planning, Finished, Known
  <2> QED
    BY <2>1, <2>4
<1>7. ASSUME NEW r \in Runs, CancelRunRow(r) PROVE RunsAgree' /\ WorkersAgree'
  <2>1. WorkersAgree'
    BY <1>7, WorkersFrame DEF CancelRunRow
  <2>2. \A q \in Runs : Rows(q)' = Rows(q)
    BY <1>7 DEF CancelRunRow, queueVars, Rows, Inv, DispatchTypeOK, QueueTypeOK
  <2>3. \A i \in Jobs : status'[i] # "absent" => status[i] # "absent"
    BY <1>7 DEF CancelRunRow, queueVars, Inv, DispatchTypeOK, QueueTypeOK
  <2>4. RunsAgree'
    BY <1>7, <2>2, <2>3, QueueAssumption DEF CancelRunRow, Inv, RunsAgree, DispatchTypeOK, Planning, Finished, Rows
  <2> QED
    BY <2>1, <2>4
<1>8. ASSUME NEW r \in Runs, CancelFails(r) PROVE RunsAgree' /\ WorkersAgree'
  <2>1. WorkersAgree'
    BY <1>8, WorkersFrame DEF CancelFails
  <2>2. \A q \in Runs : Rows(q)' = Rows(q)
    BY <1>8 DEF CancelFails, queueVars, Rows, Inv, DispatchTypeOK, QueueTypeOK
  <2>3. \A i \in Jobs : status'[i] # "absent" => status[i] # "absent"
    BY <1>8 DEF CancelFails, queueVars, Inv, DispatchTypeOK, QueueTypeOK
  <2>4. RunsAgree'
    BY <1>8, <2>2, <2>3, QueueAssumption DEF CancelFails, Inv, RunsAgree, DispatchTypeOK, Planning, Finished
  <2> QED
    BY <2>1, <2>4
<1>9. ASSUME NEW w \in Workers, WorkerLease(w) PROVE RunsAgree' /\ WorkersAgree'
  <2>1. AddsNone
    BY <1>9 DEF WorkerLease, Lease, AddsNone, Inv, DispatchTypeOK, QueueTypeOK
  <2>2. RunsAgree'
    BY <1>9, <2>1, RunsFrame DEF WorkerLease
  <2>3. PICK j \in Jobs : Lease(j, w) /\ wk' = [wk EXCEPT ![w] = [pc |-> "leased", job |-> j,
                                                          attempt |-> attempts'[j], result |-> None]]
    BY <1>9 DEF WorkerLease
  <2>4. status'[j] # "absent"
    BY <2>3 DEF Lease, Inv, DispatchTypeOK, QueueTypeOK
  <2>5. WorkersAgree'
    BY <2>3, <2>4, WorkerMoves DEF Inv, DispatchTypeOK
  <2> QED
    BY <2>2, <2>5
<1>10. ASSUME NEW w \in Workers, LeaseLost(w) PROVE RunsAgree' /\ WorkersAgree'
  <2>1. AddsNone
    BY <1>10 DEF LeaseLost, Lease, AddsNone, Inv, DispatchTypeOK, QueueTypeOK
  <2>2. RunsAgree'
    BY <1>10, <2>1, RunsFrame DEF LeaseLost
  <2>3. WorkersAgree'
    BY <1>10, WorkersFrame DEF LeaseLost
  <2> QED
    BY <2>2, <2>3
<1>11. ASSUME NEW w \in Workers, Unregistered(w) PROVE RunsAgree' /\ WorkersAgree'
  <2>1. AddsNone
    BY <1>11 DEF Unregistered, queueVars, AddsNone, Inv, DispatchTypeOK, QueueTypeOK
  <2>2. RunsAgree'
    BY <1>11, <2>1, RunsFrame DEF Unregistered
  <2>3. wk[w].pc \notin {"idle", "down"} => wk[w].job \in Jobs /\ status'[wk[w].job] # "absent"
    BY DEF Inv, WorkersAgree, Busily, KeepsRows
  <2>4. wk[w].pc = "complete" => wk[w].result \in Results
    BY DEF Inv, WorkersAgree
  <2>5. WorkersAgree'
    BY <1>11, <2>3, <2>4, WorkerMoves DEF Unregistered, NoWork, Inv, DispatchTypeOK, Results
  <2> QED
    BY <2>2, <2>5
<1>12. ASSUME NEW w \in Workers, StartJob(w) PROVE RunsAgree' /\ WorkersAgree'
  <2>1. AddsNone
    BY <1>12 DEF StartJob, MarkRunning, CanMarkRunning, AddsNone, Inv, DispatchTypeOK, QueueTypeOK
  <2>2. RunsAgree'
    BY <1>12, <2>1, RunsFrame DEF StartJob
  <2>3. wk[w].pc \notin {"idle", "down"} => wk[w].job \in Jobs /\ status'[wk[w].job] # "absent"
    BY DEF Inv, WorkersAgree, Busily, KeepsRows
  <2>4. wk[w].pc = "complete" => wk[w].result \in Results
    BY DEF Inv, WorkersAgree
  <2>5. WorkersAgree'
    BY <1>12, <2>3, <2>4, WorkerMoves DEF StartJob, NoWork, Inv, DispatchTypeOK, Results
  <2> QED
    BY <2>2, <2>5
<1>13. ASSUME NEW w \in Workers, StartRefused(w) PROVE RunsAgree' /\ WorkersAgree'
  <2>1. AddsNone
    BY <1>13 DEF StartRefused, queueVars, AddsNone, Inv, DispatchTypeOK, QueueTypeOK
  <2>2. RunsAgree'
    BY <1>13, <2>1, RunsFrame DEF StartRefused
  <2>3. wk[w].pc \notin {"idle", "down"} => wk[w].job \in Jobs /\ status'[wk[w].job] # "absent"
    BY DEF Inv, WorkersAgree, Busily, KeepsRows
  <2>4. wk[w].pc = "complete" => wk[w].result \in Results
    BY DEF Inv, WorkersAgree
  <2>5. WorkersAgree'
    BY <1>13, <2>3, <2>4, WorkerMoves DEF StartRefused, NoWork, Inv, DispatchTypeOK, Results
  <2> QED
    BY <2>2, <2>5
<1>14. ASSUME NEW w \in Workers, NEW res \in Results, Executed(w, res) PROVE RunsAgree' /\ WorkersAgree'
  <2>1. AddsNone
    BY <1>14 DEF Executed, queueVars, AddsNone, Inv, DispatchTypeOK, QueueTypeOK
  <2>2. RunsAgree'
    BY <1>14, <2>1, RunsFrame DEF Executed
  <2>3. wk[w].pc \notin {"idle", "down"} => wk[w].job \in Jobs /\ status'[wk[w].job] # "absent"
    BY DEF Inv, WorkersAgree, Busily, KeepsRows
  <2>4. wk[w].pc = "complete" => wk[w].result \in Results
    BY DEF Inv, WorkersAgree
  <2>5. WorkersAgree'
    BY <1>14, <2>3, <2>4, WorkerMoves DEF Executed, NoWork, Inv, DispatchTypeOK, Results
  <2> QED
    BY <2>2, <2>5
<1>15. ASSUME NEW w \in Workers, CompleteJob(w) PROVE RunsAgree' /\ WorkersAgree'
  <2>1. AddsNone
    BY <1>15 DEF CompleteJob, Complete, CanComplete, Active, queueVars, AddsNone, Inv, DispatchTypeOK, QueueTypeOK
  <2>2. RunsAgree'
    BY <1>15, <2>1, RunsFrame DEF CompleteJob
  <2>3. wk[w].pc \notin {"idle", "down"} => wk[w].job \in Jobs /\ status'[wk[w].job] # "absent"
    BY DEF Inv, WorkersAgree, Busily, KeepsRows
  <2>4. wk[w].pc = "complete" => wk[w].result \in Results
    BY DEF Inv, WorkersAgree
  <2>5. WorkersAgree'
    BY <1>15, <2>3, <2>4, WorkerMoves DEF CompleteJob, NoWork, Inv, DispatchTypeOK, Results
  <2> QED
    BY <2>2, <2>5
<1>16. ASSUME NEW w \in Workers, CountJobs(w) PROVE RunsAgree' /\ WorkersAgree'
  <2>1. AddsNone
    BY <1>16 DEF CountJobs, queueVars, AddsNone, Inv, DispatchTypeOK, QueueTypeOK
  <2>2. RunsAgree'
    BY <1>16, <2>1, RunsFrame DEF CountJobs
  <2>3. wk[w].pc \notin {"idle", "down"} => wk[w].job \in Jobs /\ status'[wk[w].job] # "absent"
    BY DEF Inv, WorkersAgree, Busily, KeepsRows
  <2>4. wk[w].pc = "complete" => wk[w].result \in Results
    BY DEF Inv, WorkersAgree
  <2>5. WorkersAgree'
    BY <1>16, <2>3, <2>4, WorkerMoves DEF CountJobs, NoWork, Inv, DispatchTypeOK, Results
  <2> QED
    BY <2>2, <2>5
<1>17. ASSUME NEW w \in Workers, SetVerdict(w) PROVE RunsAgree' /\ WorkersAgree'
  <2>1. UNCHANGED queueVars
    BY <1>17 DEF SetVerdict
  <2>a. \A q \in Runs : Rows(q)' = Rows(q)
    BY <2>1 DEF Rows, queueVars
  <2>b. RunOf[wk[w].job] \in Runs /\ wk[w].job \in Rows(RunOf[wk[w].job])
    BY <1>17, QueueAssumption DEF SetVerdict, Inv, WorkersAgree, Busily, Rows
  <2>c. wk[w].result \in {"succeeded", "failed"}
    BY <1>17 DEF SetVerdict, Inv, WorkersAgree
  <2>2. RunsAgree'
    BY <1>17, <2>1, <2>a, <2>b, <2>c, QueueAssumption DEF SetVerdict, queueVars, Inv, RunsAgree, DispatchTypeOK, Planning, Finished, Rows
  <2>3. wk[w].pc \notin {"idle", "down"} => wk[w].job \in Jobs /\ status'[wk[w].job] # "absent"
    BY DEF Inv, WorkersAgree, Busily, KeepsRows
  <2>4. wk[w].pc = "complete" => wk[w].result \in Results
    BY DEF Inv, WorkersAgree
  <2>5. WorkersAgree'
    BY <1>17, <2>3, <2>4, WorkerMoves DEF SetVerdict, NoWork, Inv, DispatchTypeOK, Results
  <2> QED
    BY <2>2, <2>5
<1>18. ASSUME NEW w \in Workers, Restart(w) PROVE RunsAgree' /\ WorkersAgree'
  <2>1. AddsNone
    BY <1>18 DEF Restart, queueVars, AddsNone, Inv, DispatchTypeOK, QueueTypeOK
  <2>2. RunsAgree'
    BY <1>18, <2>1, RunsFrame DEF Restart
  <2>3. wk[w].pc \notin {"idle", "down"} => wk[w].job \in Jobs /\ status'[wk[w].job] # "absent"
    BY DEF Inv, WorkersAgree, Busily, KeepsRows
  <2>4. wk[w].pc = "complete" => wk[w].result \in Results
    BY DEF Inv, WorkersAgree
  <2>5. WorkersAgree'
    BY <1>18, <2>3, <2>4, WorkerMoves DEF Restart, NoWork, Inv, DispatchTypeOK, Results
  <2> QED
    BY <2>2, <2>5
<1>19. ASSUME NEW w \in Workers, CallFails(w) PROVE RunsAgree' /\ WorkersAgree'
  <2>1. AddsNone
    BY <1>19 DEF CallFails, queueVars, AddsNone, Inv, DispatchTypeOK, QueueTypeOK
  <2>2. RunsAgree'
    BY <1>19, <2>1, RunsFrame DEF CallFails
  <2>3. wk[w].pc \notin {"idle", "down"} => wk[w].job \in Jobs /\ status'[wk[w].job] # "absent"
    BY DEF Inv, WorkersAgree, Busily, KeepsRows
  <2>4. wk[w].pc = "complete" => wk[w].result \in Results
    BY DEF Inv, WorkersAgree
  <2>5. WorkersAgree'
    BY <1>19, <2>3, <2>4, WorkerMoves DEF CallFails, NoWork, Inv, DispatchTypeOK, Results
  <2> QED
    BY <2>2, <2>5
<1>20. ASSUME NEW w \in Workers, Crash(w) PROVE RunsAgree' /\ WorkersAgree'
  <2>1. AddsNone
    BY <1>20 DEF Crash, queueVars, AddsNone, Inv, DispatchTypeOK, QueueTypeOK
  <2>2. RunsAgree'
    BY <1>20, <2>1, RunsFrame DEF Crash
  <2>3. wk[w].pc \notin {"idle", "down"} => wk[w].job \in Jobs /\ status'[wk[w].job] # "absent"
    BY DEF Inv, WorkersAgree, Busily, KeepsRows
  <2>4. wk[w].pc = "complete" => wk[w].result \in Results
    BY DEF Inv, WorkersAgree
  <2>5. WorkersAgree'
    BY <1>20, <2>3, <2>4, WorkerMoves DEF Crash, NoWork, Inv, DispatchTypeOK, Results
  <2> QED
    BY <2>2, <2>5
<1>21. CASE Clock
  <2>1. AddsNone
    BY <1>21 DEF Clock, ExpireLease, AddsNone, Inv, DispatchTypeOK, QueueTypeOK
  <2>2. RunsAgree'
    BY <1>21, <2>1, RunsFrame DEF Clock, dispatchVars
  <2>3. WorkersAgree'
    BY <1>21, WorkersFrame DEF Clock, dispatchVars
  <2> QED
    BY <2>2, <2>3
<1>22. CASE Sweep
  <2>1. AddsNone
    BY <1>22 DEF Sweep, ReclaimExpired, Reclaimable, Active, AddsNone, Inv, DispatchTypeOK, QueueTypeOK
  <2>2. RunsAgree'
    BY <1>22, <2>1, RunsFrame DEF Sweep, dispatchVars
  <2>3. WorkersAgree'
    BY <1>22, WorkersFrame DEF Sweep, dispatchVars
  <2> QED
    BY <2>2, <2>3
<1> QED
  BY <1>0, <1>1, <1>2, <1>3, <1>4, <1>5, <1>6, <1>7, <1>8, <1>9, <1>10, <1>11,
     <1>12, <1>13, <1>14, <1>15, <1>16, <1>17, <1>18, <1>19, <1>20, <1>21, <1>22
     DEF Next, PlanStep, WorkStep
\* The invariant on which the rest is built.
LEMMA InvStep == Inv /\ [Next]_vars => Inv'
BY TypeStep, AgreeStep DEF Inv

LEMMA InvAlways == Spec => []Inv
BY InitInv, InvStep, PTL DEF Spec

\* For any number of jobs, runs and workers, the variables keep their types.
THEOREM DispatchTypeCorrect == Spec => []DispatchTypeOK
<1>1. Inv => DispatchTypeOK
  BY DEF Inv
<1> QED
  BY <1>1, InvAlways, PTL

\* What planner, workers, sweep and cancel calls do to `jobs` is what the
\* queue allows: whatever is proved of the queue holds here, too.
THEOREM DispatchUsesQueue == Spec => QueueSpec
<1>1. Init => QueueInit
  BY DEF Init
<1> QED
  BY <1>1, InvAlways, StepOfQueue, PTL DEF Spec, QueueSpec

\* What is proved of the queue holds while planners, workers and cancel calls
\* use it, crash and fail: no project has more leased and running jobs than a
\* cap it has had (queue.go:185).
COROLLARY DispatchRespectsCap == Spec => []CapRespected
  BY DispatchUsesQueue, CapAlwaysRespected

\* ... a leased or running job has a worker and an attempt in its row, a waiting
\* one has no lease left over (Lease, Complete and ReclaimExpired of queue.go).
COROLLARY DispatchRecordsLeases == Spec => []LeaseRecorded
  BY DispatchUsesQueue, LeaseAlwaysRecorded

\* ... and a job that has ended stays ended, whoever completes, cancels or
\* reclaims it late.
COROLLARY DispatchKeepsEnded == Spec => TerminalAbsorbing
  BY DispatchUsesQueue, TerminalIsFinal

-----------------------------------------------------------------------------
(* The life of a run. *)

Outcomes == [j \in Jobs |-> JobLife(status[j])]
Accepting == {r \in Runs : Planning(r)}
ClaimsOf(r) == {wk[w].result : w \in {v \in Workers : wk[v].pc = "verdict" /\ RunOf[wk[v].job] = r}}
Claims == [r \in Runs |-> ClaimsOf(r)]

LEMMA JobLifeIs ==
  ASSUME NEW s \in Status
  PROVE  /\ JobLife(s) = "none" <=> s = "absent"
         /\ JobLife(s) = "open" <=> s \notin Terminal \cup {"absent"}
         /\ JobLife(s) = "bad" <=> s \in {"failed", "timed_out"}
         /\ JobLife(s) \in {"none", "open", "ok", "bad"}
BY DEF JobLife, Status, Terminal, Active

\* The abstract module's view of a run.
LEMMA LifeView ==
  ASSUME Inv, NEW r \in Runs
  PROVE  /\ Life!Of(r) = Rows(r)
         /\ Life!AllEnded(r) <=> Settled(r)
         /\ Life!Verdict(r) = IF AnyFailed(r) THEN "failed" ELSE "succeeded"
<1>1. \A j \in Jobs : status[j] \in Status
  BY DEF Inv, DispatchTypeOK, QueueTypeOK
<1>2. Life!Of(r) = Rows(r)
  BY <1>1, JobLifeIs DEF Life!Of, Rows
<1>3. Life!AllEnded(r) <=> Settled(r)
  BY <1>1, <1>2, JobLifeIs DEF Life!AllEnded, Settled, Rows
<1>4. (\E j \in Life!Of(r) : Outcomes[j] = "bad") <=> AnyFailed(r)
  BY <1>1, <1>2, JobLifeIs DEF Outcomes, AnyFailed, Rows
<1> QED
  BY <1>2, <1>3, <1>4 DEF Life!Verdict, Outcomes

\* A step of one worker that neither reaches nor leaves its second statement.
LEMMA ClaimsFrame ==
  ASSUME Inv, NEW w \in Workers, \A v \in Workers \ {w} : wk'[v] = wk[v],
         wk[w].pc # "verdict", wk'[w].pc # "verdict"
  PROVE  Claims' = Claims
<1>1. \A v \in Workers : (wk'[v].pc = "verdict" <=> wk[v].pc = "verdict")
                         /\ (wk[v].pc = "verdict" => wk'[v] = wk[v])
  OBVIOUS
<1>2. ASSUME NEW r \in Runs PROVE ClaimsOf(r)' = ClaimsOf(r)
  BY <1>1 DEF ClaimsOf
<1> QED
  BY <1>2 DEF Claims

LEMMA OutcomesFrame ==
  ASSUME \A j \in Jobs : JobLife(status'[j]) = JobLife(status[j])
  PROVE  Outcomes' = Outcomes
BY DEF Outcomes

\* Nothing the abstract module sees has changed.
LEMMA Stutters ==
  ASSUME UNCHANGED run, Outcomes' = Outcomes, Accepting' = Accepting, Claims' = Claims
  PROVE  UNCHANGED Life!vars
BY DEF Life!vars, Outcomes, Accepting, Claims, ClaimsOf

\* A worker in front of its second statement goes away from it.
LEMMA ClaimLeaves ==
  ASSUME Inv, NEW w \in Workers, \A v \in Workers \ {w} : wk'[v] = wk[v],
         wk[w].pc = "verdict", wk'[w].pc # "verdict", NEW r \in Runs, r = RunOf[wk[w].job]
  PROVE  /\ wk[w].result \in Claims[r]
         /\ Claims' \in {Claims, [Claims EXCEPT ![r] = @ \ {wk[w].result}]}
<1>1. wk[w].result \in Claims[r]
  BY DEF Claims, ClaimsOf
<1>2. ASSUME NEW q \in Runs, q # r PROVE ClaimsOf(q)' = ClaimsOf(q)
  BY <1>2 DEF ClaimsOf
<1>3. CASE \E v \in Workers \ {w} : /\ wk[v].pc = "verdict" /\ RunOf[wk[v].job] = r
                                    /\ wk[v].result = wk[w].result
  <2>1. ClaimsOf(r)' = ClaimsOf(r)
    BY <1>3 DEF ClaimsOf
  <2> QED
    BY <1>1, <1>2, <2>1 DEF Claims
<1>4. CASE ~\E v \in Workers \ {w} : /\ wk[v].pc = "verdict" /\ RunOf[wk[v].job] = r
                                     /\ wk[v].result = wk[w].result
  <2>1. ClaimsOf(r)' = ClaimsOf(r) \ {wk[w].result}
    BY <1>4 DEF ClaimsOf
  <2> QED
    BY <1>1, <1>2, <2>1 DEF Claims
<1> QED
  BY <1>1, <1>3, <1>4

\* A job and a run are what the abstract module makes of them.
LEMMA JobIsOpen ==
  ASSUME Inv, NEW j \in Jobs
  PROVE  /\ Outcomes[j] = "none" <=> status[j] = "absent"
         /\ Outcomes[j] = "open" <=> status[j] \notin Terminal \cup {"absent"}
<1>1. status[j] \in Status
  BY DEF Inv, DispatchTypeOK, QueueTypeOK
<1> QED
  BY <1>1, JobLifeIs DEF Outcomes


LEMMA LifeOfOneRun ==
  ASSUME NEW r \in Runs, Life!Claim(r) \/ Life!Withdraw(r) \/ Life!Judge(r)
  PROVE  Life!Next
BY DEF Life!Next

\* Every step is one of the life of a run, or none.
LEMMA LifeStep == Inv /\ [Next]_vars => [Life!Next]_(Life!vars)
<1> SUFFICES ASSUME Inv, [Next]_vars PROVE [Life!Next]_(Life!vars)
  OBVIOUS
<1>0. CASE UNCHANGED vars
  BY <1>0, Stutters DEF vars, dispatchVars, Outcomes, Accepting, Planning, Claims, ClaimsOf
<1>1. ASSUME NEW r \in Runs, StartPlan(r) PROVE [Life!Next]_(Life!vars)
  <2>1. Outcomes' = Outcomes
    BY <1>1 DEF StartPlan, Outcomes, queueVars
  <2>2. Accepting' = Accepting \cup {r}
    BY <1>1 DEF StartPlan, Accepting, Planning, Inv, DispatchTypeOK
  <2>3. Claims' = Claims
    BY <1>1 DEF StartPlan, Claims, ClaimsOf
  <2>4. Life!Submit(r)
    BY <1>1, <2>1, <2>2, <2>3 DEF StartPlan, Inv, RunsAgree, Life!Submit, Outcomes, Accepting, Claims, ClaimsOf
  <2> QED
    BY <2>4 DEF Life!Next
<1>2. ASSUME NEW r \in Runs, NEW j \in Jobs, PlanKeep(r, j) PROVE [Life!Next]_(Life!vars)
  <2>1. Outcomes' = [Outcomes EXCEPT ![j] = "open"]
    BY <1>2 DEF PlanKeep, Enqueue, Outcomes, JobLife, Inv, DispatchTypeOK, QueueTypeOK
  <2>2. Accepting' = Accepting
    BY <1>2 DEF PlanKeep, Accepting, Planning, Inv, DispatchTypeOK
  <2>3. Claims' = Claims
    BY <1>2 DEF PlanKeep, Claims, ClaimsOf
  <2>4. RunOf[j] \in Accepting /\ Outcomes[j] = "none"
    BY <1>2, JobIsOpen DEF PlanKeep, Enqueue, Inv, RunsAgree, Accepting, Planning
  <2>5. Life!Admit(j)
    BY <1>2, <2>1, <2>2, <2>3, <2>4 DEF PlanKeep, Life!Admit, Outcomes, Accepting, Claims, ClaimsOf
  <2> QED
    BY <2>5 DEF Life!Next
<1>3. ASSUME NEW r \in Runs, NEW j \in Jobs, PlanDrop(r, j) PROVE [Life!Next]_(Life!vars)
  <2>1. Outcomes' = Outcomes
    BY <1>3, OutcomesFrame DEF PlanDrop, JobLife, Inv, DispatchTypeOK, QueueTypeOK, queueVars
  <2>2. Accepting' = Accepting
    BY <1>3 DEF PlanDrop, Accepting, Planning, Inv, DispatchTypeOK
  <2>3. Claims' = Claims
    BY <1>3 DEF PlanDrop, dispatchVars, Claims, ClaimsOf
  <2> QED
    BY <1>3, <2>1, <2>2, <2>3, Stutters DEF PlanDrop, dispatchVars
<1>4. ASSUME NEW r \in Runs, PlanEnd(r) PROVE [Life!Next]_(Life!vars)
  <2>1. Outcomes' = Outcomes
    BY <1>4 DEF PlanEnd, Outcomes, queueVars
  <2>2. r \in Accepting /\ Accepting' = Accepting \ {r}
    BY <1>4 DEF PlanEnd, Accepting, Planning, Inv, DispatchTypeOK
  <2>3. Claims' = Claims
    BY <1>4 DEF PlanEnd, Claims, ClaimsOf
  <2>4. Life!Of(r) = Rows(r)
    BY LifeView
  <2>6. run' = IF Rows(r) = {} THEN [run EXCEPT ![r] = "succeeded"] ELSE run
    BY <1>4 DEF PlanEnd, Inv, DispatchTypeOK
  <2>7. Rows(r) = {} => run[r] = "running"
    BY <1>4 DEF PlanEnd, Inv, RunsAgree
  <2>5. Life!Close(r)
    BY <2>1, <2>2, <2>3, <2>4, <2>6, <2>7 DEF Life!Close, Outcomes, Accepting, Claims, ClaimsOf
  <2> QED
    BY <2>5 DEF Life!Next
<1>5. ASSUME NEW r \in Runs, PlanFail(r) PROVE [Life!Next]_(Life!vars)
  <2>1. Outcomes' = Outcomes
    BY <1>5 DEF PlanFail, Outcomes, queueVars
  <2>2. r \in Accepting /\ Accepting' = Accepting \ {r}
    BY <1>5 DEF PlanFail, Accepting, Planning, Inv, DispatchTypeOK
  <2>3. Claims' = Claims
    BY <1>5 DEF PlanFail, Claims, ClaimsOf
  <2>5. Life!Abandon(r)
    BY <1>5, <2>1, <2>2, <2>3 DEF PlanFail, Life!Abandon, Outcomes, Accepting, Claims, ClaimsOf
  <2> QED
    BY <2>5 DEF Life!Next
<1>6. ASSUME NEW r \in Runs, CancelJobs(r) PROVE [Life!Next]_(Life!vars)
  <2>1. Outcomes' = [j \in Jobs |-> IF j \in Life!Of(r) /\ Outcomes[j] = "open" THEN "ok" ELSE Outcomes[j]]
    <3>1. ASSUME NEW j \in Jobs
          PROVE  JobLife(status'[j]) = IF j \in Life!Of(r) /\ Outcomes[j] = "open" THEN "ok" ELSE Outcomes[j]
      <4>1. Life!Of(r) = Rows(r)
        BY LifeView
      <4>2. CASE RunOf[j] = r /\ Live(j)
        <5>1. j \in Rows(r) /\ Outcomes[j] = "open"
          BY <4>2, JobIsOpen DEF Live, Rows, Terminal
        <5>2. status'[j] = "cancelled"
          BY <1>6, <4>2 DEF CancelJobs, CancelJobsOf
        <5> QED
          BY <4>1, <5>1, <5>2 DEF JobLife
      <4>3. CASE ~(RunOf[j] = r /\ Live(j))
        <5>1. ~(j \in Rows(r) /\ Outcomes[j] = "open")
          BY <4>3, JobIsOpen DEF Live, Rows, Terminal
        <5>2. status'[j] = status[j]
          BY <1>6, <4>3 DEF CancelJobs, CancelJobsOf
        <5> QED
          BY <4>1, <5>1, <5>2 DEF Outcomes
      <4> QED
        BY <4>2, <4>3
    <3> QED
      BY <3>1 DEF Outcomes
  <2>2. Accepting' = Accepting
    BY <1>6 DEF CancelJobs, Accepting, Planning, Inv, DispatchTypeOK
  <2>3. Claims' = Claims
    BY <1>6 DEF CancelJobs, Claims, ClaimsOf
  <2>4. run[r] # "absent"
    BY <1>6 DEF CancelJobs, Known, Inv, RunsAgree, Rows
  <2>5. Life!Recall(r)
    BY <1>6, <2>1, <2>2, <2>3, <2>4 DEF CancelJobs, Life!Recall, Outcomes, Accepting, Claims, ClaimsOf
  <2> QED
    BY <2>5 DEF Life!Next
<1>7. ASSUME NEW r \in Runs, CancelRunRow(r) PROVE [Life!Next]_(Life!vars)
  <2>1. Outcomes' = Outcomes
    BY <1>7 DEF CancelRunRow, Outcomes, queueVars
  <2>2. Accepting' = Accepting
    BY <1>7 DEF CancelRunRow, Accepting, Planning, Inv, DispatchTypeOK
  <2>3. Claims' = Claims
    BY <1>7 DEF CancelRunRow, Claims, ClaimsOf
  <2>4. run[r] # "absent"
    BY <1>7 DEF CancelRunRow, Inv, RunsAgree, Rows
  <2>5. CASE run[r] \in Finished
    <3>1. run' = run
      BY <1>7, <2>5 DEF CancelRunRow, Inv, DispatchTypeOK
    <3> QED
      BY <2>1, <2>2, <2>3, <3>1, Stutters
  <2>6. CASE run[r] = "running"
    <3>1. Life!Cancel(r)
      BY <1>7, <2>1, <2>2, <2>3, <2>6 DEF CancelRunRow, Finished, Life!Cancel, Outcomes, Accepting, Claims, ClaimsOf
    <3> QED
      BY <3>1 DEF Life!Next
  <2> QED
    BY <2>4, <2>5, <2>6 DEF Inv, DispatchTypeOK
<1>8. ASSUME NEW r \in Runs, CancelFails(r) PROVE [Life!Next]_(Life!vars)
  <2>1. Outcomes' = Outcomes
    BY <1>8, OutcomesFrame DEF CancelFails, JobLife, Inv, DispatchTypeOK, QueueTypeOK, queueVars
  <2>2. Accepting' = Accepting
    BY <1>8 DEF CancelFails, Accepting, Planning, Inv, DispatchTypeOK
  <2>3. Claims' = Claims
    BY <1>8 DEF CancelFails, dispatchVars, Claims, ClaimsOf
  <2> QED
    BY <1>8, <2>1, <2>2, <2>3, Stutters DEF CancelFails, dispatchVars
<1>9. ASSUME NEW w \in Workers, WorkerLease(w) PROVE [Life!Next]_(Life!vars)
  <2>1. Outcomes' = Outcomes
    BY <1>9, OutcomesFrame DEF WorkerLease, JobLife, Inv, DispatchTypeOK, QueueTypeOK, Lease
  <2>2. Accepting' = Accepting
    BY <1>9 DEF WorkerLease, Accepting, Planning, Inv, DispatchTypeOK
  <2>3. Claims' = Claims
    BY <1>9, ClaimsFrame DEF WorkerLease, NoWork, Inv, DispatchTypeOK, Lease
  <2> QED
    BY <1>9, <2>1, <2>2, <2>3, Stutters DEF WorkerLease, dispatchVars
<1>10. ASSUME NEW w \in Workers, LeaseLost(w) PROVE [Life!Next]_(Life!vars)
  <2>1. Outcomes' = Outcomes
    BY <1>10, OutcomesFrame DEF LeaseLost, JobLife, Inv, DispatchTypeOK, QueueTypeOK, Lease
  <2>2. Accepting' = Accepting
    BY <1>10 DEF LeaseLost, Accepting, Planning, Inv, DispatchTypeOK
  <2>3. Claims' = Claims
    BY <1>10 DEF LeaseLost, dispatchVars, Claims, ClaimsOf
  <2> QED
    BY <1>10, <2>1, <2>2, <2>3, Stutters DEF LeaseLost, dispatchVars
<1>11. ASSUME NEW w \in Workers, Unregistered(w) PROVE [Life!Next]_(Life!vars)
  <2>1. Outcomes' = Outcomes
    BY <1>11, OutcomesFrame DEF Unregistered, JobLife, Inv, DispatchTypeOK, QueueTypeOK, queueVars
  <2>2. Accepting' = Accepting
    BY <1>11 DEF Unregistered, Accepting, Planning, Inv, DispatchTypeOK
  <2>3. Claims' = Claims
    BY <1>11, ClaimsFrame DEF Unregistered, NoWork, Inv, DispatchTypeOK
  <2> QED
    BY <1>11, <2>1, <2>2, <2>3, Stutters DEF Unregistered, dispatchVars
<1>12. ASSUME NEW w \in Workers, StartJob(w) PROVE [Life!Next]_(Life!vars)
  <2>1. Outcomes' = Outcomes
    BY <1>12, OutcomesFrame DEF StartJob, JobLife, Inv, DispatchTypeOK, QueueTypeOK, MarkRunning, CanMarkRunning
  <2>2. Accepting' = Accepting
    BY <1>12 DEF StartJob, Accepting, Planning, Inv, DispatchTypeOK
  <2>3. Claims' = Claims
    BY <1>12, ClaimsFrame DEF StartJob, NoWork, Inv, DispatchTypeOK
  <2> QED
    BY <1>12, <2>1, <2>2, <2>3, Stutters DEF StartJob, dispatchVars
<1>13. ASSUME NEW w \in Workers, StartRefused(w) PROVE [Life!Next]_(Life!vars)
  <2>1. Outcomes' = Outcomes
    BY <1>13, OutcomesFrame DEF StartRefused, JobLife, Inv, DispatchTypeOK, QueueTypeOK, queueVars
  <2>2. Accepting' = Accepting
    BY <1>13 DEF StartRefused, Accepting, Planning, Inv, DispatchTypeOK
  <2>3. Claims' = Claims
    BY <1>13, ClaimsFrame DEF StartRefused, NoWork, Inv, DispatchTypeOK
  <2> QED
    BY <1>13, <2>1, <2>2, <2>3, Stutters DEF StartRefused, dispatchVars
<1>14. ASSUME NEW w \in Workers, NEW res \in Results, Executed(w, res) PROVE [Life!Next]_(Life!vars)
  <2>1. Outcomes' = Outcomes
    BY <1>14, OutcomesFrame DEF Executed, JobLife, Inv, DispatchTypeOK, QueueTypeOK, queueVars
  <2>2. Accepting' = Accepting
    BY <1>14 DEF Executed, Accepting, Planning, Inv, DispatchTypeOK
  <2>3. Claims' = Claims
    BY <1>14, ClaimsFrame DEF Executed, NoWork, Inv, DispatchTypeOK
  <2> QED
    BY <1>14, <2>1, <2>2, <2>3, Stutters DEF Executed, dispatchVars
<1>15. ASSUME NEW w \in Workers, CompleteJob(w) PROVE [Life!Next]_(Life!vars)
  <2> DEFINE j == wk[w].job
  <2>0. j \in Jobs
    BY <1>15 DEF CompleteJob, Inv, WorkersAgree, Busily
  <2>2. Accepting' = Accepting
    BY <1>15 DEF CompleteJob, Accepting, Planning, Inv, DispatchTypeOK
  <2>3. Claims' = Claims
    BY <1>15, ClaimsFrame DEF CompleteJob, Inv, DispatchTypeOK
  <2>4. CASE Complete(j, w, wk[w].result)
    <3>1. Outcomes[j] = "open"
      BY <2>0, <2>4, JobIsOpen DEF Complete, CanComplete, Active, Terminal
    <3>2. JobLife(wk[w].result) \in {"ok", "bad"}
      BY <1>15 DEF CompleteJob, Inv, WorkersAgree, Results, JobLife
    <3>3. Outcomes' = [Outcomes EXCEPT ![j] = JobLife(wk[w].result)]
      BY <2>0, <2>4 DEF Complete, Outcomes, Inv, DispatchTypeOK, QueueTypeOK
    <3>4. Life!End(j)
      BY <1>15, <2>2, <2>3, <3>1, <3>2, <3>3 DEF CompleteJob, Life!End, Outcomes, Accepting, Claims, ClaimsOf
    <3> QED
      BY <2>0, <3>4 DEF Life!Next
  <2>5. CASE UNCHANGED queueVars
    <3>1. Outcomes' = Outcomes
      BY <2>5 DEF queueVars, Outcomes
    <3> QED
      BY <1>15, <2>2, <2>3, <3>1, Stutters DEF CompleteJob
  <2> QED
    BY <1>15, <2>4, <2>5 DEF CompleteJob
<1>16. ASSUME NEW w \in Workers, CountJobs(w) PROVE [Life!Next]_(Life!vars)
  <2>1. Outcomes' = Outcomes
    BY <1>16 DEF CountJobs, Outcomes, queueVars
  <2>2. Accepting' = Accepting
    BY <1>16 DEF CountJobs, Accepting, Planning, Inv, DispatchTypeOK
  <2>3. PICK r \in Runs : r = RunOf[wk[w].job]
    BY <1>16, QueueAssumption DEF CountJobs, Inv, WorkersAgree, Busily
  <2>4. CASE Rows(r) # {} /\ Settled(r)
    <3> DEFINE v == IF AnyFailed(r) THEN "failed" ELSE "succeeded"
    <3>1. wk' = [wk EXCEPT ![w] = [wk[w] EXCEPT !.pc = "verdict", !.result = v]]
      BY <1>16, <2>3, <2>4 DEF CountJobs, Inv, DispatchTypeOK
    <3>2. wk'[w].pc = "verdict" /\ wk'[w].result = v /\ wk'[w].job = wk[w].job
      BY <3>1 DEF Inv, DispatchTypeOK
    <3>3. \A u \in Workers \ {w} : wk'[u] = wk[u]
      BY <3>1 DEF Inv, DispatchTypeOK
    <3>4. wk[w].pc # "verdict"
      BY <1>16 DEF CountJobs
    <3>5. Claims' = [Claims EXCEPT ![r] = @ \cup {v}]
      <4>1. ClaimsOf(r)' = ClaimsOf(r) \cup {v}
        BY <2>3, <3>2, <3>3, <3>4 DEF ClaimsOf
      <4>2. \A q \in Runs : q # r => ClaimsOf(q)' = ClaimsOf(q)
        BY <2>3, <3>2, <3>3, <3>4 DEF ClaimsOf
      <4> QED
        BY <2>3, <4>1, <4>2 DEF Claims
    <3>6. Life!Of(r) # {} /\ Life!AllEnded(r) /\ Life!Verdict(r) = v
      BY <2>3, <2>4, LifeView
    <3>7. Life!Claim(r)
      BY <1>16, <2>1, <2>2, <3>5, <3>6 DEF CountJobs, Life!Claim, Outcomes, Accepting, Claims, ClaimsOf
    <3> QED
      BY <3>7, LifeOfOneRun
  <2>5. CASE ~(Rows(r) # {} /\ Settled(r))
    <3>1. wk' = [wk EXCEPT ![w] = NoWork("idle")]
      BY <1>16, <2>3, <2>5 DEF CountJobs
    <3>2. wk[w].pc # "verdict"
      BY <1>16 DEF CountJobs
    <3>3. wk'[w].pc # "verdict" /\ \A v \in Workers \ {w} : wk'[v] = wk[v]
      BY <3>1 DEF NoWork, Inv, DispatchTypeOK
    <3>4. Claims' = Claims
      BY <3>2, <3>3, ClaimsFrame
    <3> QED
      BY <1>16, <2>1, <2>2, <3>4, Stutters DEF CountJobs
  <2> QED
    BY <2>4, <2>5
<1>17. ASSUME NEW w \in Workers, SetVerdict(w) PROVE [Life!Next]_(Life!vars)
  <2>1. Outcomes' = Outcomes
    BY <1>17 DEF SetVerdict, Outcomes, queueVars
  <2>2. Accepting' = Accepting
    BY <1>17 DEF SetVerdict, Accepting, Planning, Inv, DispatchTypeOK
  <2>3. PICK r \in Runs : r = RunOf[wk[w].job]
    BY <1>17, QueueAssumption DEF SetVerdict, Inv, WorkersAgree, Busily
  <2>4. wk[w].result \in Claims[r] /\ Claims' \in {Claims, [Claims EXCEPT ![r] = @ \ {wk[w].result}]}
    BY <1>17, <2>3, ClaimLeaves DEF SetVerdict, NoWork, Inv, DispatchTypeOK
  <2>5. run[r] # "absent"
    BY <1>17, <2>3 DEF SetVerdict, Inv, WorkersAgree, RunsAgree, Busily
  <2>6. CASE run[r] = "running"
    <3>1. run' = [run EXCEPT ![r] = wk[w].result]
      BY <1>17, <2>3, <2>6 DEF SetVerdict, Finished, Inv, DispatchTypeOK
    <3>2. Life!Judge(r)
      BY <2>1, <2>2, <2>4, <2>6, <3>1 DEF Life!Judge, Outcomes, Accepting, Claims, ClaimsOf
    <3> QED
      BY <3>2, LifeOfOneRun
  <2>7. CASE run[r] \in Finished
    <3>5. UNCHANGED run
      BY <1>17, <2>3, <2>7 DEF SetVerdict, Inv, DispatchTypeOK
    <3>6. Life!Withdraw(r) \/ Claims' = Claims
      BY <2>1, <2>2, <2>4, <3>5 DEF Life!Withdraw, Outcomes, Accepting, Claims, ClaimsOf
    <3> QED
      BY <2>1, <2>2, <2>3, <3>5, <3>6, Stutters, LifeOfOneRun
  <2> QED
    BY <2>3, <2>5, <2>6, <2>7 DEF Inv, DispatchTypeOK, Finished
<1>18. ASSUME NEW w \in Workers, Restart(w) PROVE [Life!Next]_(Life!vars)
  <2>1. Outcomes' = Outcomes
    BY <1>18, OutcomesFrame DEF Restart, JobLife, Inv, DispatchTypeOK, QueueTypeOK, queueVars
  <2>2. Accepting' = Accepting
    BY <1>18 DEF Restart, Accepting, Planning, Inv, DispatchTypeOK
  <2>3. Claims' = Claims
    BY <1>18, ClaimsFrame DEF Restart, NoWork, Inv, DispatchTypeOK
  <2> QED
    BY <1>18, <2>1, <2>2, <2>3, Stutters DEF Restart, dispatchVars
<1>19. ASSUME NEW w \in Workers, CallFails(w) PROVE [Life!Next]_(Life!vars)
  <2>1. Outcomes' = Outcomes
    BY <1>19 DEF CallFails, Outcomes, queueVars
  <2>2. Accepting' = Accepting
    BY <1>19 DEF CallFails, Accepting, Planning, Inv, DispatchTypeOK
  <2>3. wk'[w].pc # "verdict" /\ \A v \in Workers \ {w} : wk'[v] = wk[v]
    BY <1>19 DEF CallFails, NoWork, Inv, DispatchTypeOK
  <2>4. UNCHANGED run
    BY <1>19 DEF CallFails
  <2>5. CASE wk[w].pc = "verdict"
    <3>1. PICK r \in Runs : r = RunOf[wk[w].job]
      BY <2>5, QueueAssumption DEF Inv, WorkersAgree, Busily
    <3>2. wk[w].result \in Claims[r] /\ Claims' \in {Claims, [Claims EXCEPT ![r] = @ \ {wk[w].result}]}
      BY <2>3, <2>5, <3>1, ClaimLeaves
    <3>3. Life!Withdraw(r) \/ Claims' = Claims
      BY <2>1, <2>2, <2>4, <3>2 DEF Life!Withdraw, Outcomes, Accepting, Claims, ClaimsOf
    <3> QED
      BY <2>1, <2>2, <2>4, <3>3, Stutters, LifeOfOneRun
  <2>6. CASE wk[w].pc # "verdict"
    <3>1. Claims' = Claims
      BY <2>3, <2>6, ClaimsFrame
    <3> QED
      BY <2>1, <2>2, <2>4, <3>1, Stutters
  <2> QED
    BY <2>5, <2>6
<1>20. ASSUME NEW w \in Workers, Crash(w) PROVE [Life!Next]_(Life!vars)
  <2>1. Outcomes' = Outcomes
    BY <1>20 DEF Crash, Outcomes, queueVars
  <2>2. Accepting' = Accepting
    BY <1>20 DEF Crash, Accepting, Planning, Inv, DispatchTypeOK
  <2>3. wk'[w].pc # "verdict" /\ \A v \in Workers \ {w} : wk'[v] = wk[v]
    BY <1>20 DEF Crash, NoWork, Inv, DispatchTypeOK
  <2>4. UNCHANGED run
    BY <1>20 DEF Crash
  <2>5. CASE wk[w].pc = "verdict"
    <3>1. PICK r \in Runs : r = RunOf[wk[w].job]
      BY <2>5, QueueAssumption DEF Inv, WorkersAgree, Busily
    <3>2. wk[w].result \in Claims[r] /\ Claims' \in {Claims, [Claims EXCEPT ![r] = @ \ {wk[w].result}]}
      BY <2>3, <2>5, <3>1, ClaimLeaves
    <3>3. Life!Withdraw(r) \/ Claims' = Claims
      BY <2>1, <2>2, <2>4, <3>2 DEF Life!Withdraw, Outcomes, Accepting, Claims, ClaimsOf
    <3> QED
      BY <2>1, <2>2, <2>4, <3>3, Stutters, LifeOfOneRun
  <2>6. CASE wk[w].pc # "verdict"
    <3>1. Claims' = Claims
      BY <2>3, <2>6, ClaimsFrame
    <3> QED
      BY <2>1, <2>2, <2>4, <3>1, Stutters
  <2> QED
    BY <2>5, <2>6
<1>21. CASE Clock
  <2>1. Outcomes' = Outcomes
    BY <1>21, OutcomesFrame DEF Clock, JobLife, Inv, DispatchTypeOK, QueueTypeOK, ExpireLease
  <2>2. Accepting' = Accepting
    BY <1>21 DEF Clock, Accepting, Planning, Inv, DispatchTypeOK, dispatchVars
  <2>3. Claims' = Claims
    BY <1>21 DEF Clock, dispatchVars, Claims, ClaimsOf
  <2> QED
    BY <1>21, <2>1, <2>2, <2>3, Stutters DEF Clock, dispatchVars
<1>22. CASE Sweep
  <2>1. Outcomes' = Outcomes
    BY <1>22, OutcomesFrame DEF Sweep, JobLife, Inv, DispatchTypeOK, QueueTypeOK, ReclaimExpired, Reclaimable, Active
  <2>2. Accepting' = Accepting
    BY <1>22 DEF Sweep, Accepting, Planning, Inv, DispatchTypeOK, dispatchVars
  <2>3. Claims' = Claims
    BY <1>22 DEF Sweep, dispatchVars, Claims, ClaimsOf
  <2> QED
    BY <1>22, <2>1, <2>2, <2>3, Stutters DEF Sweep, dispatchVars
<1> QED
  BY <1>0, <1>1, <1>2, <1>3, <1>4, <1>5, <1>6, <1>7, <1>8, <1>9, <1>10, <1>11,
     <1>12, <1>13, <1>14, <1>15, <1>16, <1>17, <1>18, <1>19, <1>20, <1>21, <1>22
     DEF Next, PlanStep, WorkStep
\* The statements of planner, workers and cancel calls implement the life of
\* a run, for any number of them and whatever fails.
THEOREM DispatchImplementsRunLife == Spec => RunLifeSpec
<1>1. Init => Life!Init
  BY DEF Init, QueueInit, Life!Init, JobLife, Planning, NoWork
<1> QED
  BY <1>1, InvAlways, LifeStep, PTL DEF Spec, RunLifeSpec, Life!Spec

\* Hence a run that is finished stays as it is.
THEOREM FinishedStays == Spec => FinishedIsFinal
<1>1. Inv /\ [Next]_vars => [\A r \in Runs : run[r] \in Finished => run'[r] = run[r]]_vars
  <2> SUFFICES ASSUME Inv, [Next]_vars, NEW r \in Runs, run[r] \in Finished
               PROVE  run'[r] = run[r]
    OBVIOUS
  <2>1. [Life!Next]_(Life!vars)
    BY LifeStep
  <2>2. CASE UNCHANGED Life!vars
    BY <2>2 DEF Life!vars
  <2>3. CASE Life!Next
    <3>1. ASSUME NEW q \in Runs,
                 \/ Life!Submit(q) \/ Life!Recall(q) \/ Life!Close(q) \/ Life!Abandon(q)
                 \/ Life!Claim(q) \/ Life!Withdraw(q) \/ Life!Judge(q) \/ Life!Cancel(q)
          PROVE  run'[r] = run[r]
      BY <3>1 DEF Life!Submit, Life!Recall, Life!Close, Life!Abandon, Life!Claim,
                  Life!Withdraw, Life!Judge, Life!Cancel, Finished, Inv, DispatchTypeOK
    <3>2. ASSUME NEW j \in Jobs, Life!Admit(j) \/ Life!End(j) PROVE run'[r] = run[r]
      BY <3>2 DEF Life!Admit, Life!End
    <3> QED
      BY <2>3, <3>1, <3>2 DEF Life!Next
  <2> QED
    BY <2>1, <2>2, <2>3
<1> QED
  BY <1>1, InvAlways, PTL DEF Spec, FinishedIsFinal

-----------------------------------------------------------------------------
(* The verdict on a run, and its cancellation. *)

\* Planning is over, and all jobs have ended.
ClosedOn(r) == plan[r].pc \in {"returned", "failed"} /\ Settled(r)
Right(r, v) == ClosedOn(r) /\ (v = "failed" <=> AnyFailed(r))

VerdictInv ==
    /\ \A r \in Runs \ early : run[r] \in {"succeeded", "failed"} => Right(r, run[r])
    /\ \A w \in Workers :
          wk[w].pc = "verdict" /\ RunOf[wk[w].job] \notin early
              => Right(RunOf[wk[w].job], wk[w].result)
    /\ \A r \in Runs : cancel[r].whole => ClosedOn(r)

\* Only a plan in progress adds jobs, and a plan that is over stays so.
PlanOver ==
    /\ \A j \in Jobs : status[j] = "absent" /\ status'[j] # "absent" => Planning(RunOf[j])
    /\ \A r \in Runs : plan[r].pc \in {"returned", "failed"} => plan'[r].pc = plan[r].pc

\* What changes a verdict, a claim, or a cancellation.
Quiet ==
    /\ early \subseteq early'
    /\ \A r \in Runs : run'[r] \in {"succeeded", "failed"} => run'[r] = run[r]
    /\ \A w \in Workers : wk'[w].pc = "verdict" => wk'[w] = wk[w]
    /\ \A r \in Runs : cancel'[r].whole => cancel[r].whole

LEMMA PlanOverStep == Inv /\ [Next]_vars => PlanOver
<1> SUFFICES ASSUME Inv, [Next]_vars PROVE PlanOver
  OBVIOUS
<1>0. CASE UNCHANGED vars
  BY <1>0 DEF vars, dispatchVars, PlanOver
<1>1. ASSUME NEW r \in Runs, StartPlan(r) PROVE PlanOver
  BY <1>1 DEF StartPlan, queueVars, NoWork, Planning, PlanOver, Inv, RunsAgree, DispatchTypeOK, QueueTypeOK
<1>2. ASSUME NEW r \in Runs, NEW j \in Jobs, PlanKeep(r, j) PROVE PlanOver
  BY <1>2 DEF PlanKeep, Enqueue, NoWork, Planning, PlanOver, Inv, RunsAgree, DispatchTypeOK, QueueTypeOK
<1>3. ASSUME NEW r \in Runs, NEW j \in Jobs, PlanDrop(r, j) PROVE PlanOver
  BY <1>3 DEF PlanDrop, queueVars, NoWork, Planning, PlanOver, Inv, RunsAgree, DispatchTypeOK, QueueTypeOK
<1>4. ASSUME NEW r \in Runs, PlanEnd(r) PROVE PlanOver
  BY <1>4 DEF PlanEnd, queueVars, NoWork, Planning, PlanOver, Inv, RunsAgree, DispatchTypeOK, QueueTypeOK
<1>5. ASSUME NEW r \in Runs, PlanFail(r) PROVE PlanOver
  BY <1>5 DEF PlanFail, queueVars, NoWork, Planning, PlanOver, Inv, RunsAgree, DispatchTypeOK, QueueTypeOK
<1>6. ASSUME NEW r \in Runs, CancelJobs(r) PROVE PlanOver
  BY <1>6 DEF CancelJobs, CancelJobsOf, Live, Terminal, NoWork, Planning, PlanOver, Inv, RunsAgree, DispatchTypeOK, QueueTypeOK
<1>7. ASSUME NEW r \in Runs, CancelRunRow(r) PROVE PlanOver
  BY <1>7 DEF CancelRunRow, queueVars, NoWork, Planning, PlanOver, Inv, RunsAgree, DispatchTypeOK, QueueTypeOK
<1>8. ASSUME NEW r \in Runs, CancelFails(r) PROVE PlanOver
  BY <1>8 DEF CancelFails, queueVars, NoWork, Planning, PlanOver, Inv, RunsAgree, DispatchTypeOK, QueueTypeOK
<1>9. ASSUME NEW w \in Workers, WorkerLease(w) PROVE PlanOver
  BY <1>9 DEF WorkerLease, Lease, NoWork, Planning, PlanOver, Inv, RunsAgree, DispatchTypeOK, QueueTypeOK
<1>10. ASSUME NEW w \in Workers, LeaseLost(w) PROVE PlanOver
  BY <1>10 DEF LeaseLost, Lease, NoWork, Planning, PlanOver, Inv, RunsAgree, DispatchTypeOK, QueueTypeOK
<1>11. ASSUME NEW w \in Workers, Unregistered(w) PROVE PlanOver
  BY <1>11 DEF Unregistered, queueVars, NoWork, Planning, PlanOver, Inv, RunsAgree, DispatchTypeOK, QueueTypeOK
<1>12. ASSUME NEW w \in Workers, StartJob(w) PROVE PlanOver
  BY <1>12 DEF StartJob, MarkRunning, CanMarkRunning, NoWork, Planning, PlanOver, Inv, RunsAgree, DispatchTypeOK, QueueTypeOK
<1>13. ASSUME NEW w \in Workers, StartRefused(w) PROVE PlanOver
  BY <1>13 DEF StartRefused, queueVars, NoWork, Planning, PlanOver, Inv, RunsAgree, DispatchTypeOK, QueueTypeOK
<1>14. ASSUME NEW w \in Workers, NEW res \in Results, Executed(w, res) PROVE PlanOver
  BY <1>14 DEF Executed, queueVars, NoWork, Planning, PlanOver, Inv, RunsAgree, DispatchTypeOK, QueueTypeOK
<1>15. ASSUME NEW w \in Workers, CompleteJob(w) PROVE PlanOver
  BY <1>15 DEF CompleteJob, Complete, CanComplete, Active, queueVars, NoWork, Planning, PlanOver, Inv, RunsAgree, DispatchTypeOK, QueueTypeOK
<1>16. ASSUME NEW w \in Workers, CountJobs(w) PROVE PlanOver
  BY <1>16 DEF CountJobs, queueVars, NoWork, Planning, PlanOver, Inv, RunsAgree, DispatchTypeOK, QueueTypeOK
<1>17. ASSUME NEW w \in Workers, SetVerdict(w) PROVE PlanOver
  BY <1>17 DEF SetVerdict, queueVars, NoWork, Planning, PlanOver, Inv, RunsAgree, DispatchTypeOK, QueueTypeOK
<1>18. ASSUME NEW w \in Workers, Restart(w) PROVE PlanOver
  BY <1>18 DEF Restart, queueVars, NoWork, Planning, PlanOver, Inv, RunsAgree, DispatchTypeOK, QueueTypeOK
<1>19. ASSUME NEW w \in Workers, CallFails(w) PROVE PlanOver
  BY <1>19 DEF CallFails, queueVars, NoWork, Planning, PlanOver, Inv, RunsAgree, DispatchTypeOK, QueueTypeOK
<1>20. ASSUME NEW w \in Workers, Crash(w) PROVE PlanOver
  BY <1>20 DEF Crash, queueVars, NoWork, Planning, PlanOver, Inv, RunsAgree, DispatchTypeOK, QueueTypeOK
<1>21. CASE Clock
  BY <1>21 DEF Clock, ExpireLease, dispatchVars, NoWork, Planning, PlanOver, Inv, RunsAgree, DispatchTypeOK, QueueTypeOK
<1>22. CASE Sweep
  BY <1>22 DEF Sweep, ReclaimExpired, Reclaimable, Active, dispatchVars, NoWork, Planning, PlanOver, Inv, RunsAgree, DispatchTypeOK, QueueTypeOK
<1> QED
  BY <1>0, <1>1, <1>2, <1>3, <1>4, <1>5, <1>6, <1>7, <1>8, <1>9, <1>10, <1>11,
     <1>12, <1>13, <1>14, <1>15, <1>16, <1>17, <1>18, <1>19, <1>20, <1>21, <1>22
     DEF Next, PlanStep, WorkStep
LEMMA RightStays ==
  ASSUME Inv, [Next]_vars, NEW r \in Runs
  PROVE  /\ ClosedOn(r) => ClosedOn(r)'
         /\ \A v : Right(r, v) => (ClosedOn(r)' /\ (v = "failed" <=> AnyFailed(r)'))
<1>1. PlanOver /\ KeepsRows
  BY PlanOverStep, StepOfQueue, QueueStep DEF Inv, DispatchTypeOK
<1>2. ASSUME ClosedOn(r) PROVE ClosedOn(r)' /\ (AnyFailed(r)' <=> AnyFailed(r))
  <2>1. Rows(r)' = Rows(r)
    BY <1>1, <1>2 DEF ClosedOn, PlanOver, KeepsRows, Planning, Rows
  <2>2. \A j \in Rows(r) : status[j] \in Terminal /\ status'[j] = status[j]
    BY <1>1, <1>2 DEF ClosedOn, Settled, KeepsRows, Rows
  <2> QED
    BY <1>1, <1>2, <2>1, <2>2 DEF ClosedOn, Settled, AnyFailed, PlanOver
<1> QED
  BY <1>2 DEF Right

LEMMA QuietKeepsVerdicts ==
  ASSUME Inv, [Next]_vars, VerdictInv, Quiet
  PROVE  VerdictInv'
<1>1. ASSUME NEW r \in Runs, r \notin early', run'[r] \in {"succeeded", "failed"}
      PROVE  Right(r, run[r])' /\ run'[r] = run[r]
  BY <1>1, RightStays DEF VerdictInv, Quiet, Right
<1>2. ASSUME NEW w \in Workers, wk'[w].pc = "verdict", RunOf[wk'[w].job] \notin early'
      PROVE  Right(RunOf[wk[w].job], wk[w].result)' /\ wk'[w] = wk[w]
  <2>1. wk'[w] = wk[w] /\ RunOf[wk[w].job] \in Runs
    BY <1>2, QueueAssumption DEF Quiet, Inv, WorkersAgree, Busily
  <2> QED
    BY <1>2, <2>1, RightStays DEF VerdictInv, Quiet, Right
<1>3. ASSUME NEW r \in Runs, cancel'[r].whole PROVE ClosedOn(r)'
  BY <1>3, RightStays DEF VerdictInv, Quiet
<1> QED
  BY <1>1, <1>2, <1>3 DEF VerdictInv, Right

LEMMA VerdictStep == Inv /\ VerdictInv /\ [Next]_vars => VerdictInv'
<1> SUFFICES ASSUME Inv, VerdictInv, [Next]_vars PROVE VerdictInv'
  OBVIOUS
<1>0. CASE UNCHANGED vars
  BY <1>0, QuietKeepsVerdicts DEF vars, dispatchVars, Quiet
<1>1. ASSUME NEW r \in Runs, StartPlan(r) PROVE VerdictInv'
  <2>1. Quiet
    BY <1>1 DEF StartPlan, NoWork, Quiet, Finished, Inv, RunsAgree, DispatchTypeOK
  <2> QED
    BY <2>1, QuietKeepsVerdicts
<1>2. ASSUME NEW r \in Runs, NEW j \in Jobs, PlanKeep(r, j) PROVE VerdictInv'
  <2>1. Quiet
    BY <1>2 DEF PlanKeep, NoWork, Quiet, Finished, Inv, RunsAgree, DispatchTypeOK
  <2> QED
    BY <2>1, QuietKeepsVerdicts
<1>3. ASSUME NEW r \in Runs, NEW j \in Jobs, PlanDrop(r, j) PROVE VerdictInv'
  <2>1. Quiet
    BY <1>3 DEF PlanDrop, NoWork, Quiet, Finished, Inv, RunsAgree, DispatchTypeOK
  <2> QED
    BY <2>1, QuietKeepsVerdicts
<1>4. ASSUME NEW r \in Runs, PlanEnd(r) PROVE VerdictInv'
  <2>1. CASE Rows(r) # {}
    <3>1. Quiet
      BY <1>4, <2>1 DEF PlanEnd, Quiet, Inv, DispatchTypeOK
    <3> QED
      BY <3>1, QuietKeepsVerdicts
  <2>2. CASE Rows(r) = {}
    <3>1. ClosedOn(r)' /\ ~AnyFailed(r)' /\ run'[r] = "succeeded"
      BY <1>4, <2>2 DEF PlanEnd, ClosedOn, Settled, AnyFailed, Rows, queueVars, Inv, DispatchTypeOK
    <3>2. ASSUME NEW q \in Runs \ early, q # r, run'[q] \in {"succeeded", "failed"} PROVE Right(q, run[q])' /\ run'[q] = run[q]
      BY <1>4, <3>2, RightStays DEF PlanEnd, VerdictInv, Right, Inv, DispatchTypeOK
    <3>3. ASSUME NEW w \in Workers, wk[w].pc = "verdict", RunOf[wk[w].job] \notin early
          PROVE  Right(RunOf[wk[w].job], wk[w].result)'
      BY <1>4, <3>3, RightStays, QueueAssumption DEF PlanEnd, VerdictInv, Right, Inv, WorkersAgree, Busily
    <3>4. ASSUME NEW q \in Runs, cancel[q].whole PROVE ClosedOn(q)'
      BY <3>4, RightStays DEF VerdictInv
    <3>5. UNCHANGED <<wk, early, cancel>>
      BY <1>4 DEF PlanEnd
    <3> QED
      BY <3>1, <3>2, <3>3, <3>4, <3>5 DEF VerdictInv, Right
  <2> QED
    BY <2>1, <2>2
<1>5. ASSUME NEW r \in Runs, PlanFail(r) PROVE VerdictInv'
  <2>1. Quiet
    BY <1>5 DEF PlanFail, NoWork, Quiet, Finished, Inv, RunsAgree, DispatchTypeOK
  <2> QED
    BY <2>1, QuietKeepsVerdicts
<1>6. ASSUME NEW r \in Runs, CancelJobs(r) PROVE VerdictInv'
  <2>1. UNCHANGED <<run, plan, wk, early>>
    BY <1>6 DEF CancelJobs
  <2>2. ASSUME cancel'[r].whole PROVE ClosedOn(r)'
    <3>1. ~Planning(r)
      BY <1>6, <2>2 DEF CancelJobs, Inv, DispatchTypeOK
    <3>2. plan[r].pc \in {"returned", "failed"}
      BY <1>6, <3>1 DEF CancelJobs, Known, Planning, Inv, RunsAgree, DispatchTypeOK, Rows
    <3>3. \A j \in Jobs : RunOf[j] = r => status'[j] \in Terminal \cup {"absent"}
      BY <1>6 DEF CancelJobs, CancelJobsOf, Live, Terminal, Inv, DispatchTypeOK, QueueTypeOK
    <3> QED
      BY <2>1, <3>2, <3>3 DEF ClosedOn, Settled, Rows
  <2>3. ASSUME NEW q \in Runs, q # r, cancel'[q].whole PROVE ClosedOn(q)'
    BY <1>6, <2>3, RightStays DEF CancelJobs, VerdictInv, Inv, DispatchTypeOK
  <2>4. ASSUME NEW q \in Runs \ early, run[q] \in {"succeeded", "failed"} PROVE Right(q, run[q])'
    BY <2>1, <2>4, RightStays DEF VerdictInv, Right
  <2>5. ASSUME NEW w \in Workers, wk[w].pc = "verdict", RunOf[wk[w].job] \notin early PROVE Right(RunOf[wk[w].job], wk[w].result)'
    BY <2>1, <2>5, RightStays, QueueAssumption DEF VerdictInv, Right, Inv, WorkersAgree, Busily
  <2> QED
    BY <2>1, <2>2, <2>3, <2>4, <2>5 DEF VerdictInv, Right
<1>7. ASSUME NEW r \in Runs, CancelRunRow(r) PROVE VerdictInv'
  <2>1. Quiet
    BY <1>7 DEF CancelRunRow, NoWork, Quiet, Finished, Inv, RunsAgree, DispatchTypeOK
  <2> QED
    BY <2>1, QuietKeepsVerdicts
<1>8. ASSUME NEW r \in Runs, CancelFails(r) PROVE VerdictInv'
  <2>1. Quiet
    BY <1>8 DEF CancelFails, NoWork, Quiet, Finished, Inv, RunsAgree, DispatchTypeOK
  <2> QED
    BY <2>1, QuietKeepsVerdicts
<1>9. ASSUME NEW w \in Workers, WorkerLease(w) PROVE VerdictInv'
  <2>1. Quiet
    BY <1>9 DEF WorkerLease, NoWork, Quiet, Finished, Inv, RunsAgree, DispatchTypeOK, Lease
  <2> QED
    BY <2>1, QuietKeepsVerdicts
<1>10. ASSUME NEW w \in Workers, LeaseLost(w) PROVE VerdictInv'
  <2>1. Quiet
    BY <1>10 DEF LeaseLost, NoWork, Quiet, Finished, Inv, RunsAgree, DispatchTypeOK
  <2> QED
    BY <2>1, QuietKeepsVerdicts
<1>11. ASSUME NEW w \in Workers, Unregistered(w) PROVE VerdictInv'
  <2>1. Quiet
    BY <1>11 DEF Unregistered, NoWork, Quiet, Finished, Inv, RunsAgree, DispatchTypeOK
  <2> QED
    BY <2>1, QuietKeepsVerdicts
<1>12. ASSUME NEW w \in Workers, StartJob(w) PROVE VerdictInv'
  <2>1. Quiet
    BY <1>12 DEF StartJob, NoWork, Quiet, Finished, Inv, RunsAgree, DispatchTypeOK
  <2> QED
    BY <2>1, QuietKeepsVerdicts
<1>13. ASSUME NEW w \in Workers, StartRefused(w) PROVE VerdictInv'
  <2>1. Quiet
    BY <1>13 DEF StartRefused, NoWork, Quiet, Finished, Inv, RunsAgree, DispatchTypeOK
  <2> QED
    BY <2>1, QuietKeepsVerdicts
<1>14. ASSUME NEW w \in Workers, NEW res \in Results, Executed(w, res) PROVE VerdictInv'
  <2>1. Quiet
    BY <1>14 DEF Executed, NoWork, Quiet, Finished, Inv, RunsAgree, DispatchTypeOK
  <2> QED
    BY <2>1, QuietKeepsVerdicts
<1>15. ASSUME NEW w \in Workers, CompleteJob(w) PROVE VerdictInv'
  <2>1. Quiet
    BY <1>15 DEF CompleteJob, NoWork, Quiet, Finished, Inv, RunsAgree, DispatchTypeOK
  <2> QED
    BY <2>1, QuietKeepsVerdicts
<1>16. ASSUME NEW w \in Workers, CountJobs(w) PROVE VerdictInv'
  <2>1. PICK r \in Runs : r = RunOf[wk[w].job]
    BY <1>16, QueueAssumption DEF CountJobs, Inv, WorkersAgree, Busily
  <2>2. UNCHANGED <<queueVars, run, plan, cancel>> /\ early \subseteq early'
    BY <1>16 DEF CountJobs
  <2>3. ASSUME wk'[w].pc = "verdict", r \notin early'
        PROVE  /\ wk'[w].job = wk[w].job
               /\ ClosedOn(r)'
               /\ wk'[w].result = "failed" <=> AnyFailed(r)'
    <3>1. Rows(r) # {} /\ Settled(r)
      BY <1>16, <2>1, <2>3 DEF CountJobs, NoWork, Inv, DispatchTypeOK
    <3>2. ~Planning(r)
      BY <1>16, <2>1, <2>3, <3>1 DEF CountJobs
    <3>3. wk' = [wk EXCEPT ![w] = [wk[w] EXCEPT !.pc = "verdict", !.result = IF AnyFailed(r) THEN "failed" ELSE "succeeded"]]
      BY <1>16, <2>1, <3>1 DEF CountJobs, Inv, DispatchTypeOK
    <3>4. wk'[w].job = wk[w].job /\ (wk'[w].result = "failed" <=> AnyFailed(r))
      BY <3>3 DEF Inv, DispatchTypeOK
    <3>5. plan[r].pc \in {"returned", "failed"}
      BY <2>1, <3>1, <3>2 DEF Inv, DispatchTypeOK, RunsAgree, Rows, Planning
    <3>6. ClosedOn(r)' /\ (AnyFailed(r)' <=> AnyFailed(r))
      BY <2>2, <3>1, <3>5 DEF ClosedOn, Settled, AnyFailed, Rows, queueVars
    <3> QED
      BY <3>4, <3>6
  <2>4. ASSUME NEW u \in Workers \ {w}, wk'[u].pc = "verdict", RunOf[wk'[u].job] \notin early'
        PROVE  Right(RunOf[wk[u].job], wk[u].result)' /\ wk'[u] = wk[u]
    <3>1. wk'[u] = wk[u]
      BY <1>16 DEF CountJobs, Inv, DispatchTypeOK
    <3>2. RunOf[wk[u].job] \in Runs
      BY <2>4, <3>1, QueueAssumption DEF Inv, WorkersAgree, Busily
    <3>3. Right(RunOf[wk[u].job], wk[u].result)
      BY <2>2, <2>4, <3>1, <3>2 DEF VerdictInv
    <3>4. Right(RunOf[wk[u].job], wk[u].result)'
      BY <3>1, <3>2, <3>3, RightStays DEF Right
    <3> QED
      BY <3>1, <3>4
  <2>5. ASSUME NEW q \in Runs \ early', run[q] \in {"succeeded", "failed"} PROVE Right(q, run[q])'
    BY <2>2, <2>5, RightStays DEF VerdictInv, Right
  <2>6. ASSUME NEW q \in Runs, cancel[q].whole PROVE ClosedOn(q)'
    BY <2>6, RightStays DEF VerdictInv
  <2>7. ASSUME NEW u \in Workers, wk'[u].pc = "verdict", RunOf[wk'[u].job] \notin early'
        PROVE  Right(RunOf[wk[u].job], wk[u].result)'
    <3>1. CASE u = w
      <4>1. RunOf[wk'[u].job] = r
        BY <2>1, <2>3, <2>7, <3>1, <1>16 DEF CountJobs, NoWork, Inv, DispatchTypeOK
      <4>2. ClosedOn(r)' /\ (wk'[u].result = "failed" <=> AnyFailed(r)')
        BY <2>3, <2>7, <3>1, <4>1
      <4> QED
        BY <4>1, <4>2 DEF Right
    <3>2. CASE u # w
      BY <2>4, <2>7, <3>2
    <3> QED
      BY <3>1, <3>2
  <2> QED
    BY <2>2, <2>5, <2>6, <2>7 DEF VerdictInv
<1>17. ASSUME NEW w \in Workers, SetVerdict(w) PROVE VerdictInv'
  <2>1. PICK r \in Runs : r = RunOf[wk[w].job]
    BY <1>17, QueueAssumption DEF SetVerdict, Inv, WorkersAgree, Busily
  <2>2. r \notin early =>
           ClosedOn(r)' /\ (wk[w].result = "failed" <=> AnyFailed(r)')
    <3>1. r \notin early => Right(r, wk[w].result)
      BY <1>17, <2>1 DEF SetVerdict, VerdictInv
    <3> QED
      BY <3>1, RightStays DEF Right
  <2>3. ASSUME NEW q \in Runs \ early, run'[q] = run[q], run'[q] \in {"succeeded", "failed"}
        PROVE  Right(q, run[q])'
    BY <2>3, RightStays DEF VerdictInv, Right
  <2>4. \A q \in Runs : run'[q] = run[q] \/ (q = r /\ run'[q] = wk[w].result)
    BY <1>17, <2>1 DEF SetVerdict, Inv, DispatchTypeOK
  <2>5. ASSUME NEW u \in Workers, wk'[u].pc = "verdict", RunOf[wk'[u].job] \notin early
        PROVE  Right(RunOf[wk[u].job], wk[u].result)' /\ wk'[u] = wk[u]
    <3>1. wk'[u] = wk[u]
      BY <1>17, <2>5 DEF SetVerdict, NoWork, Inv, DispatchTypeOK
    <3> QED
      BY <2>5, <3>1, RightStays, QueueAssumption DEF VerdictInv, Right, Inv, WorkersAgree, Busily
  <2>6. ASSUME NEW q \in Runs, cancel[q].whole PROVE ClosedOn(q)'
    BY <2>6, RightStays DEF VerdictInv
  <2>7. UNCHANGED <<early, cancel>>
    BY <1>17 DEF SetVerdict
  <2>8. ASSUME NEW q \in Runs \ early, run'[q] \in {"succeeded", "failed"}
        PROVE  Right(q, run[q])'
    <3>1. CASE run'[q] = run[q]
      BY <2>3, <2>8, <3>1
    <3>2. CASE q = r /\ run'[q] = wk[w].result
      <4>1. ClosedOn(q)' /\ (run'[q] = "failed" <=> AnyFailed(q)')
        BY <2>2, <2>8, <3>2
      <4> QED
        BY <4>1 DEF Right
    <3> QED
      BY <2>4, <3>1, <3>2
  <2> QED
    BY <2>5, <2>6, <2>7, <2>8 DEF VerdictInv
<1>18. ASSUME NEW w \in Workers, Restart(w) PROVE VerdictInv'
  <2>1. Quiet
    BY <1>18 DEF Restart, NoWork, Quiet, Finished, Inv, RunsAgree, DispatchTypeOK
  <2> QED
    BY <2>1, QuietKeepsVerdicts
<1>19. ASSUME NEW w \in Workers, CallFails(w) PROVE VerdictInv'
  <2>1. Quiet
    BY <1>19 DEF CallFails, NoWork, Quiet, Finished, Inv, RunsAgree, DispatchTypeOK
  <2> QED
    BY <2>1, QuietKeepsVerdicts
<1>20. ASSUME NEW w \in Workers, Crash(w) PROVE VerdictInv'
  <2>1. Quiet
    BY <1>20 DEF Crash, NoWork, Quiet, Finished, Inv, RunsAgree, DispatchTypeOK
  <2> QED
    BY <2>1, QuietKeepsVerdicts
<1>21. CASE Clock
  <2>1. Quiet
    BY <1>21 DEF Clock, NoWork, Quiet, Finished, Inv, RunsAgree, DispatchTypeOK, dispatchVars
  <2> QED
    BY <2>1, QuietKeepsVerdicts
<1>22. CASE Sweep
  <2>1. Quiet
    BY <1>22 DEF Sweep, NoWork, Quiet, Finished, Inv, RunsAgree, DispatchTypeOK, dispatchVars
  <2> QED
    BY <2>1, QuietKeepsVerdicts
<1> QED
  BY <1>0, <1>1, <1>2, <1>3, <1>4, <1>5, <1>6, <1>7, <1>8, <1>9, <1>10, <1>11,
     <1>12, <1>13, <1>14, <1>15, <1>16, <1>17, <1>18, <1>19, <1>20, <1>21, <1>22
     DEF Next, PlanStep, WorkStep
LEMMA VerdictAlways == Spec => [](Inv /\ VerdictInv)
<1>1. Init => VerdictInv
  BY DEF Init, NoWork, VerdictInv
<1> QED
  BY <1>1, InitInv, InvStep, VerdictStep, PTL DEF Spec

\* A run that ended by counting, after its plan was over, has the verdict its
\* jobs justify, whatever crashes, fails or is cancelled.
THEOREM VerdictAlwaysRight == Spec => []VerdictRight
<1>1. VerdictInv => VerdictRight
  BY DEF VerdictInv, VerdictRight, Right, ClosedOn
<1> QED
  BY <1>1, VerdictAlways, PTL

\* The jobs of a run that was cancelled after its plan stay ended.
THEOREM CancelAlwaysSticks == Spec => []CancelSticks
<1>1. VerdictInv => CancelSticks
  BY DEF VerdictInv, CancelSticks, ClosedOn
<1> QED
  BY <1>1, VerdictAlways, PTL

-----------------------------------------------------------------------------
(* A result is recorded only by the worker, and for the attempt, that holds *)
(* the job.  leased_by does not say which lease it is; what makes it enough  *)
(* is that a worker leases nothing while it is busy, so that the lease it    *)
(* holds is always its latest one.                                           *)

Holds(w, j) == holder[j] = w /\ status[j] \in Active

FenceInv ==
    \A w \in Workers : Busily(w) /\ Holds(w, wk[w].job)
                          => wk[w].attempt = attempts[wk[w].job]

\* No lease is given out, and no worker takes a job.
NoNewLease ==
    /\ attempts' = attempts
    /\ \A w \in Workers : Busily(w)' => /\ Busily(w)
                                        /\ wk'[w].job = wk[w].job
                                        /\ wk'[w].attempt = wk[w].attempt
    /\ \A w \in Workers, j \in Jobs : Holds(w, j)' => Holds(w, j)

LEMMA FenceFrame ==
  ASSUME Inv, FenceInv, NoNewLease
  PROVE  FenceInv'
<1> SUFFICES ASSUME NEW w \in Workers, Busily(w)', Holds(w, wk[w].job)'
             PROVE  wk'[w].attempt = attempts'[wk'[w].job]
  BY DEF FenceInv
<1>1. Busily(w) /\ wk'[w].job = wk[w].job /\ wk'[w].attempt = wk[w].attempt
  BY DEF NoNewLease
<1>2. wk[w].job \in Jobs
  BY <1>1 DEF Inv, WorkersAgree
<1>3. Holds(w, wk[w].job)
  BY <1>1, <1>2 DEF NoNewLease, Holds
<1> QED
  BY <1>1, <1>3 DEF FenceInv, NoNewLease

\* The two steps that do give a lease out.
LEMMA FenceLease ==
  ASSUME Inv, FenceInv, NEW w \in Workers, NEW j \in Jobs, Lease(j, w), ~Busily(w),
         \A u \in Workers \ {w} : wk'[u] = wk[u],
         Busily(w)' => wk'[w].job = j /\ wk'[w].attempt = attempts'[j]
  PROVE  FenceInv'
<1> SUFFICES ASSUME NEW u \in Workers, Busily(u)', Holds(u, wk[u].job)'
             PROVE  wk'[u].attempt = attempts'[wk'[u].job]
  BY DEF FenceInv
<1>1. CASE u = w
  BY <1>1
<1>2. CASE u # w
  <2>1. Busily(u) /\ wk'[u] = wk[u] /\ wk[u].job \in Jobs
    BY <1>2 DEF Busily, Inv, WorkersAgree
  <2>2. wk[u].job # j
    BY <1>2, <2>1 DEF Lease, Holds, Inv, DispatchTypeOK, QueueTypeOK
  <2>3. Holds(u, wk[u].job) /\ attempts'[wk[u].job] = attempts[wk[u].job]
    BY <2>1, <2>2 DEF Lease, Holds, Inv, DispatchTypeOK, QueueTypeOK
  <2> QED
    BY <2>1, <2>3 DEF FenceInv
<1> QED
  BY <1>1, <1>2

LEMMA FenceStep == Inv /\ FenceInv /\ [Next]_vars => FenceInv'
<1> SUFFICES ASSUME Inv, FenceInv, [Next]_vars PROVE FenceInv'
  OBVIOUS
<1>0. CASE UNCHANGED vars
  <2>1. NoNewLease
    BY <1>0 DEF vars, dispatchVars, NoNewLease, Busily, Holds
  <2> QED
    BY <2>1, FenceFrame
<1>1. ASSUME NEW r \in Runs, StartPlan(r) PROVE FenceInv'
  <2>1. NoNewLease
    BY <1>1, QueueAssumption DEF StartPlan, NoNewLease, Busily, Holds, NoWork, Active, Inv, DispatchTypeOK, QueueTypeOK, queueVars
  <2> QED
    BY <2>1, FenceFrame
<1>2. ASSUME NEW r \in Runs, NEW j \in Jobs, PlanKeep(r, j) PROVE FenceInv'
  <2>1. NoNewLease
    BY <1>2, QueueAssumption DEF PlanKeep, NoNewLease, Busily, Holds, NoWork, Active, Inv, DispatchTypeOK, QueueTypeOK, Enqueue
  <2> QED
    BY <2>1, FenceFrame
<1>3. ASSUME NEW r \in Runs, NEW j \in Jobs, PlanDrop(r, j) PROVE FenceInv'
  <2>1. NoNewLease
    BY <1>3, QueueAssumption DEF PlanDrop, NoNewLease, Busily, Holds, NoWork, Active, Inv, DispatchTypeOK, QueueTypeOK, queueVars
  <2> QED
    BY <2>1, FenceFrame
<1>4. ASSUME NEW r \in Runs, PlanEnd(r) PROVE FenceInv'
  <2>1. NoNewLease
    BY <1>4, QueueAssumption DEF PlanEnd, NoNewLease, Busily, Holds, NoWork, Active, Inv, DispatchTypeOK, QueueTypeOK, queueVars
  <2> QED
    BY <2>1, FenceFrame
<1>5. ASSUME NEW r \in Runs, PlanFail(r) PROVE FenceInv'
  <2>1. NoNewLease
    BY <1>5, QueueAssumption DEF PlanFail, NoNewLease, Busily, Holds, NoWork, Active, Inv, DispatchTypeOK, QueueTypeOK, queueVars
  <2> QED
    BY <2>1, FenceFrame
<1>6. ASSUME NEW r \in Runs, CancelJobs(r) PROVE FenceInv'
  <2>1. NoNewLease
    BY <1>6, QueueAssumption DEF CancelJobs, NoNewLease, Busily, Holds, NoWork, Active, Inv, DispatchTypeOK, QueueTypeOK, CancelJobsOf, Live, Terminal
  <2> QED
    BY <2>1, FenceFrame
<1>7. ASSUME NEW r \in Runs, CancelRunRow(r) PROVE FenceInv'
  <2>1. NoNewLease
    BY <1>7, QueueAssumption DEF CancelRunRow, NoNewLease, Busily, Holds, NoWork, Active, Inv, DispatchTypeOK, QueueTypeOK, queueVars
  <2> QED
    BY <2>1, FenceFrame
<1>8. ASSUME NEW r \in Runs, CancelFails(r) PROVE FenceInv'
  <2>1. NoNewLease
    BY <1>8, QueueAssumption DEF CancelFails, NoNewLease, Busily, Holds, NoWork, Active, Inv, DispatchTypeOK, QueueTypeOK, queueVars
  <2> QED
    BY <2>1, FenceFrame
<1>9. ASSUME NEW w \in Workers, WorkerLease(w) PROVE FenceInv'
  <2>1. PICK j \in Jobs : Lease(j, w) /\ wk'[w].job = j /\ wk'[w].attempt = attempts'[j]
    BY <1>9 DEF WorkerLease, Inv, DispatchTypeOK
  <2>2. ~Busily(w) /\ \A u \in Workers \ {w} : wk'[u] = wk[u]
    BY <1>9 DEF WorkerLease, Busily, Inv, DispatchTypeOK
  <2> QED
    BY <2>1, <2>2, FenceLease
<1>10. ASSUME NEW w \in Workers, LeaseLost(w) PROVE FenceInv'
  <2>1. PICK j \in Jobs : Lease(j, w)
    BY <1>10 DEF LeaseLost
  <2>2. ~Busily(w) /\ ~Busily(w)' /\ wk' = wk
    BY <1>10 DEF LeaseLost, Busily
  <2> QED
    BY <2>1, <2>2, FenceLease
<1>11. ASSUME NEW w \in Workers, Unregistered(w) PROVE FenceInv'
  <2>1. NoNewLease
    BY <1>11, QueueAssumption DEF Unregistered, NoNewLease, Busily, Holds, NoWork, Active, Inv, DispatchTypeOK, QueueTypeOK, queueVars
  <2> QED
    BY <2>1, FenceFrame
<1>12. ASSUME NEW w \in Workers, StartJob(w) PROVE FenceInv'
  <2>1. NoNewLease
    BY <1>12, QueueAssumption DEF StartJob, NoNewLease, Busily, Holds, NoWork, Active, Inv, DispatchTypeOK, QueueTypeOK, MarkRunning, CanMarkRunning
  <2> QED
    BY <2>1, FenceFrame
<1>13. ASSUME NEW w \in Workers, StartRefused(w) PROVE FenceInv'
  <2>1. NoNewLease
    BY <1>13, QueueAssumption DEF StartRefused, NoNewLease, Busily, Holds, NoWork, Active, Inv, DispatchTypeOK, QueueTypeOK, queueVars
  <2> QED
    BY <2>1, FenceFrame
<1>14. ASSUME NEW w \in Workers, NEW res \in Results, Executed(w, res) PROVE FenceInv'
  <2>1. NoNewLease
    BY <1>14, QueueAssumption DEF Executed, NoNewLease, Busily, Holds, NoWork, Active, Inv, DispatchTypeOK, QueueTypeOK, queueVars
  <2> QED
    BY <2>1, FenceFrame
<1>15. ASSUME NEW w \in Workers, CompleteJob(w) PROVE FenceInv'
  <2>1. /\ attempts' = attempts /\ holder' = holder
        /\ \A j \in Jobs : status'[j] \in Active => status[j] \in Active
    <3>1. CASE Complete(wk[w].job, w, wk[w].result)
      BY <3>1 DEF Complete, Active, Terminal, Inv, DispatchTypeOK, QueueTypeOK
    <3>2. CASE UNCHANGED queueVars
      BY <3>2 DEF queueVars
    <3> QED
      BY <1>15, <3>1, <3>2 DEF CompleteJob
  <2>2. wk' = [wk EXCEPT ![w].pc = "count"] /\ Busily(w)
    BY <1>15 DEF CompleteJob, Busily
  <2>3. NoNewLease
    BY <2>1, <2>2 DEF NoNewLease, Busily, Holds, Inv, DispatchTypeOK
  <2> QED
    BY <2>3, FenceFrame
<1>16. ASSUME NEW w \in Workers, CountJobs(w) PROVE FenceInv'
  <2>1. NoNewLease
    BY <1>16, QueueAssumption DEF CountJobs, NoNewLease, Busily, Holds, NoWork, Active, Inv, DispatchTypeOK, QueueTypeOK, queueVars
  <2> QED
    BY <2>1, FenceFrame
<1>17. ASSUME NEW w \in Workers, SetVerdict(w) PROVE FenceInv'
  <2>1. NoNewLease
    BY <1>17, QueueAssumption DEF SetVerdict, NoNewLease, Busily, Holds, NoWork, Active, Inv, DispatchTypeOK, QueueTypeOK, queueVars
  <2> QED
    BY <2>1, FenceFrame
<1>18. ASSUME NEW w \in Workers, Restart(w) PROVE FenceInv'
  <2>1. NoNewLease
    BY <1>18, QueueAssumption DEF Restart, NoNewLease, Busily, Holds, NoWork, Active, Inv, DispatchTypeOK, QueueTypeOK, queueVars
  <2> QED
    BY <2>1, FenceFrame
<1>19. ASSUME NEW w \in Workers, CallFails(w) PROVE FenceInv'
  <2>1. NoNewLease
    BY <1>19, QueueAssumption DEF CallFails, NoNewLease, Busily, Holds, NoWork, Active, Inv, DispatchTypeOK, QueueTypeOK, queueVars
  <2> QED
    BY <2>1, FenceFrame
<1>20. ASSUME NEW w \in Workers, Crash(w) PROVE FenceInv'
  <2>1. NoNewLease
    BY <1>20, QueueAssumption DEF Crash, NoNewLease, Busily, Holds, NoWork, Active, Inv, DispatchTypeOK, QueueTypeOK, queueVars
  <2> QED
    BY <2>1, FenceFrame
<1>21. CASE Clock
  <2>1. NoNewLease
    BY <1>21, QueueAssumption DEF Clock, NoNewLease, Busily, Holds, NoWork, Active, Inv, DispatchTypeOK, QueueTypeOK, ExpireLease, dispatchVars
  <2> QED
    BY <2>1, FenceFrame
<1>22. CASE Sweep
  <2>1. NoNewLease
    BY <1>22, QueueAssumption DEF Sweep, NoNewLease, Busily, Holds, NoWork, Active, Inv, DispatchTypeOK, QueueTypeOK, ReclaimExpired, Reclaimable, dispatchVars
  <2> QED
    BY <2>1, FenceFrame
<1> QED
  BY <1>0, <1>1, <1>2, <1>3, <1>4, <1>5, <1>6, <1>7, <1>8, <1>9, <1>10, <1>11,
     <1>12, <1>13, <1>14, <1>15, <1>16, <1>17, <1>18, <1>19, <1>20, <1>21, <1>22
     DEF Next, PlanStep, WorkStep

Fenced(j) ==
    status[j] \in Active /\ status'[j] \in Results =>
        \E w \in Workers : /\ wk[w].pc = "complete"
                           /\ wk[w].job = j
                           /\ wk[w].attempt = attempts[j]
                           /\ wk[w].result = status'[j]

LEMMA FencedStep == Inv /\ FenceInv /\ [Next]_vars => \A j \in Jobs : Fenced(j)
<1> SUFFICES ASSUME Inv, FenceInv, [Next]_vars, NEW k \in Jobs PROVE Fenced(k)
  OBVIOUS
<1>0. CASE UNCHANGED vars
  BY <1>0 DEF vars, Fenced, Active, Results
<1>1. ASSUME NEW r \in Runs, StartPlan(r) PROVE Fenced(k)
  BY <1>1 DEF StartPlan, queueVars, Fenced, Results, Active, Inv, DispatchTypeOK, QueueTypeOK
<1>2. ASSUME NEW r \in Runs, NEW j \in Jobs, PlanKeep(r, j) PROVE Fenced(k)
  BY <1>2 DEF PlanKeep, Enqueue, Fenced, Results, Active, Inv, DispatchTypeOK, QueueTypeOK
<1>3. ASSUME NEW r \in Runs, NEW j \in Jobs, PlanDrop(r, j) PROVE Fenced(k)
  BY <1>3 DEF PlanDrop, queueVars, Fenced, Results, Active, Inv, DispatchTypeOK, QueueTypeOK
<1>4. ASSUME NEW r \in Runs, PlanEnd(r) PROVE Fenced(k)
  BY <1>4 DEF PlanEnd, queueVars, Fenced, Results, Active, Inv, DispatchTypeOK, QueueTypeOK
<1>5. ASSUME NEW r \in Runs, PlanFail(r) PROVE Fenced(k)
  BY <1>5 DEF PlanFail, queueVars, Fenced, Results, Active, Inv, DispatchTypeOK, QueueTypeOK
<1>6. ASSUME NEW r \in Runs, CancelJobs(r) PROVE Fenced(k)
  BY <1>6 DEF CancelJobs, CancelJobsOf, Live, Terminal, Fenced, Results, Active, Inv, DispatchTypeOK, QueueTypeOK
<1>7. ASSUME NEW r \in Runs, CancelRunRow(r) PROVE Fenced(k)
  BY <1>7 DEF CancelRunRow, queueVars, Fenced, Results, Active, Inv, DispatchTypeOK, QueueTypeOK
<1>8. ASSUME NEW r \in Runs, CancelFails(r) PROVE Fenced(k)
  BY <1>8 DEF CancelFails, queueVars, Fenced, Results, Active, Inv, DispatchTypeOK, QueueTypeOK
<1>9. ASSUME NEW w \in Workers, WorkerLease(w) PROVE Fenced(k)
  BY <1>9 DEF WorkerLease, Lease, Fenced, Results, Active, Inv, DispatchTypeOK, QueueTypeOK
<1>10. ASSUME NEW w \in Workers, LeaseLost(w) PROVE Fenced(k)
  BY <1>10 DEF LeaseLost, Lease, Fenced, Results, Active, Inv, DispatchTypeOK, QueueTypeOK
<1>11. ASSUME NEW w \in Workers, Unregistered(w) PROVE Fenced(k)
  BY <1>11 DEF Unregistered, queueVars, Fenced, Results, Active, Inv, DispatchTypeOK, QueueTypeOK
<1>12. ASSUME NEW w \in Workers, StartJob(w) PROVE Fenced(k)
  BY <1>12 DEF StartJob, MarkRunning, CanMarkRunning, Fenced, Results, Active, Inv, DispatchTypeOK, QueueTypeOK
<1>13. ASSUME NEW w \in Workers, StartRefused(w) PROVE Fenced(k)
  BY <1>13 DEF StartRefused, queueVars, Fenced, Results, Active, Inv, DispatchTypeOK, QueueTypeOK
<1>14. ASSUME NEW w \in Workers, NEW res \in Results, Executed(w, res) PROVE Fenced(k)
  BY <1>14 DEF Executed, queueVars, Fenced, Results, Active, Inv, DispatchTypeOK, QueueTypeOK
<1>15. ASSUME NEW w \in Workers, CompleteJob(w) PROVE Fenced(k)
  BY <1>15 DEF CompleteJob, Complete, CanComplete, FenceInv, Busily, Holds, Fenced, Results, Active, queueVars, Inv, DispatchTypeOK, QueueTypeOK, WorkersAgree
<1>16. ASSUME NEW w \in Workers, CountJobs(w) PROVE Fenced(k)
  BY <1>16 DEF CountJobs, queueVars, Fenced, Results, Active, Inv, DispatchTypeOK, QueueTypeOK
<1>17. ASSUME NEW w \in Workers, SetVerdict(w) PROVE Fenced(k)
  BY <1>17 DEF SetVerdict, queueVars, Fenced, Results, Active, Inv, DispatchTypeOK, QueueTypeOK
<1>18. ASSUME NEW w \in Workers, Restart(w) PROVE Fenced(k)
  BY <1>18 DEF Restart, queueVars, Fenced, Results, Active, Inv, DispatchTypeOK, QueueTypeOK
<1>19. ASSUME NEW w \in Workers, CallFails(w) PROVE Fenced(k)
  BY <1>19 DEF CallFails, queueVars, Fenced, Results, Active, Inv, DispatchTypeOK, QueueTypeOK
<1>20. ASSUME NEW w \in Workers, Crash(w) PROVE Fenced(k)
  BY <1>20 DEF Crash, queueVars, Fenced, Results, Active, Inv, DispatchTypeOK, QueueTypeOK
<1>21. CASE Clock
  BY <1>21 DEF Clock, ExpireLease, dispatchVars, Fenced, Results, Active, Inv, DispatchTypeOK, QueueTypeOK
<1>22. CASE Sweep
  BY <1>22 DEF Sweep, ReclaimExpired, Reclaimable, dispatchVars, Fenced, Results, Active, Inv, DispatchTypeOK, QueueTypeOK
<1> QED
  BY <1>0, <1>1, <1>2, <1>3, <1>4, <1>5, <1>6, <1>7, <1>8, <1>9, <1>10, <1>11,
     <1>12, <1>13, <1>14, <1>15, <1>16, <1>17, <1>18, <1>19, <1>20, <1>21, <1>22
     DEF Next, PlanStep, WorkStep

\* A worker's result reaches the row only for the attempt it was leased, and
\* while the worker still holds it.
THEOREM CompletionIsFenced == Spec => FencedCompletion
<1>1. Init => FenceInv
  BY DEF Init, NoWork, Busily, FenceInv
<1>2. (\A j \in Jobs : Fenced(j)) =>
        \A j \in Jobs :
          status[j] \in Active /\ status'[j] \in Results =>
             \E w \in Workers : /\ wk[w].pc = "complete"
                                /\ wk[w].job = j
                                /\ wk[w].attempt = attempts[j]
                                /\ wk[w].result = status'[j]
  BY DEF Fenced
<1> QED
  BY <1>1, <1>2, InitInv, InvStep, FenceStep, FencedStep, PTL DEF Spec, FencedCompletion

-----------------------------------------------------------------------------
(* Someone is on the way to finish a run whose jobs have all ended. *)

Waiting(r) == run[r] = "running" /\ Rows(r) # {} /\ Settled(r) /\ cancel[r].pc # "jobs"
Someone(r) == \E w \in Workers : /\ wk[w].pc \in {"count", "verdict"}
                                 /\ RunOf[wk[w].job] = r

\* Unlike LastOneCounts this also speaks of a run that is still being planned:
\* the worker that counts too early would otherwise be forgotten.
LastInv == faults = 0 => \A r \in Runs : Waiting(r) => Someone(r)

LEMMA LastStep == Inv /\ LastInv /\ [Next]_vars => LastInv'
<1> SUFFICES ASSUME Inv, LastInv, [Next]_vars, faults' = 0, NEW q \in Runs, Waiting(q)'
             PROVE  Someone(q)'
  BY DEF LastInv
<1>a. faults = 0
  <2>1. faults' = faults \/ faults' = faults + 1
    BY DEF Next, PlanStep, WorkStep, Clock, Sweep, vars, dispatchVars, Fault,
           StartPlan, PlanKeep, PlanDrop, PlanEnd, PlanFail, CancelJobs, CancelRunRow,
           CancelFails, WorkerLease, LeaseLost, Unregistered, StartJob, StartRefused,
           Executed, CompleteJob, CountJobs, SetVerdict, Restart, CallFails, Crash
  <2> QED
    BY <2>1 DEF Inv, DispatchTypeOK
<1>b. Waiting(q)'
  OBVIOUS
<1>c. Waiting(q) => Someone(q)
  BY <1>a DEF LastInv
<1>0. CASE UNCHANGED vars
  BY <1>0, <1>b, <1>c DEF vars, dispatchVars, Waiting, Someone, Rows, Settled
<1>1. ASSUME NEW r \in Runs, StartPlan(r) PROVE Someone(q)'
  <2>1. Waiting(q)
    BY <1>1, <1>b DEF StartPlan, Waiting, Rows, Settled, queueVars, RunsAgree, Inv, DispatchTypeOK, QueueTypeOK
  <2>2. Someone(q) => Someone(q)'
    BY <1>1 DEF StartPlan, Someone
  <2> QED
    BY <2>1, <2>2, <1>c
<1>2. ASSUME NEW r \in Runs, NEW j \in Jobs, PlanKeep(r, j) PROVE Someone(q)'
  <2>1. Waiting(q)
    BY <1>2, <1>b DEF PlanKeep, Enqueue, Waiting, Rows, Settled, Terminal, RunsAgree, Inv, DispatchTypeOK, QueueTypeOK
  <2>2. Someone(q) => Someone(q)'
    BY <1>2 DEF PlanKeep, Someone
  <2> QED
    BY <2>1, <2>2, <1>c
<1>3. ASSUME NEW r \in Runs, NEW j \in Jobs, PlanDrop(r, j) PROVE Someone(q)'
  <2>1. Waiting(q)
    BY <1>3, <1>b DEF PlanDrop, queueVars, Waiting, Rows, Settled, Terminal, Finished, Inv, DispatchTypeOK, QueueTypeOK
  <2>2. Someone(q) => Someone(q)'
    BY <1>3 DEF PlanDrop, Someone, NoWork, Inv, DispatchTypeOK, QueueTypeOK
  <2> QED
    BY <2>1, <2>2, <1>c
<1>4. ASSUME NEW r \in Runs, PlanEnd(r) PROVE Someone(q)'
  <2>1. Waiting(q)
    BY <1>4, <1>b DEF PlanEnd, queueVars, Waiting, Rows, Settled, Terminal, Finished, Inv, DispatchTypeOK, QueueTypeOK
  <2>2. Someone(q) => Someone(q)'
    BY <1>4 DEF PlanEnd, Someone, NoWork, Inv, DispatchTypeOK, QueueTypeOK
  <2> QED
    BY <2>1, <2>2, <1>c
<1>5. ASSUME NEW r \in Runs, PlanFail(r) PROVE Someone(q)'
  BY <1>5, <1>a DEF PlanFail, Fault, Inv, DispatchTypeOK
<1>6. ASSUME NEW r \in Runs, CancelJobs(r) PROVE Someone(q)'
  <2>1. Waiting(q)
    BY <1>6, <1>b DEF CancelJobs, CancelJobsOf, Live, Terminal, Waiting, Rows, Settled, Terminal, Finished, Inv, DispatchTypeOK, QueueTypeOK
  <2>2. Someone(q) => Someone(q)'
    BY <1>6 DEF CancelJobs, Someone, NoWork, Inv, DispatchTypeOK, QueueTypeOK
  <2> QED
    BY <2>1, <2>2, <1>c
<1>7. ASSUME NEW r \in Runs, CancelRunRow(r) PROVE Someone(q)'
  <2>1. Waiting(q)
    BY <1>7, <1>b DEF CancelRunRow, queueVars, Waiting, Rows, Settled, Terminal, Finished, Inv, DispatchTypeOK, QueueTypeOK
  <2>2. Someone(q) => Someone(q)'
    BY <1>7 DEF CancelRunRow, Someone, NoWork, Inv, DispatchTypeOK, QueueTypeOK
  <2> QED
    BY <2>1, <2>2, <1>c
<1>8. ASSUME NEW r \in Runs, CancelFails(r) PROVE Someone(q)'
  BY <1>8, <1>a DEF CancelFails, Fault, Inv, DispatchTypeOK
<1>9. ASSUME NEW w \in Workers, WorkerLease(w) PROVE Someone(q)'
  <2>1. Waiting(q)
    BY <1>9, <1>b DEF WorkerLease, Lease, Waiting, Rows, Settled, Terminal, Finished, Inv, DispatchTypeOK, QueueTypeOK
  <2>2. Someone(q) => Someone(q)'
    BY <1>9 DEF WorkerLease, Someone, NoWork, Inv, DispatchTypeOK, QueueTypeOK
  <2> QED
    BY <2>1, <2>2, <1>c
<1>10. ASSUME NEW w \in Workers, LeaseLost(w) PROVE Someone(q)'
  BY <1>10, <1>a DEF LeaseLost, Fault, Inv, DispatchTypeOK
<1>11. ASSUME NEW w \in Workers, Unregistered(w) PROVE Someone(q)'
  <2>1. Waiting(q)
    BY <1>11, <1>b DEF Unregistered, queueVars, Waiting, Rows, Settled, Terminal, Finished, Inv, DispatchTypeOK, QueueTypeOK
  <2>2. Someone(q) => Someone(q)'
    BY <1>11 DEF Unregistered, Someone, NoWork, Inv, DispatchTypeOK, QueueTypeOK
  <2> QED
    BY <2>1, <2>2, <1>c
<1>12. ASSUME NEW w \in Workers, StartJob(w) PROVE Someone(q)'
  <2>1. Waiting(q)
    BY <1>12, <1>b DEF StartJob, MarkRunning, CanMarkRunning, Waiting, Rows, Settled, Terminal, Finished, Inv, DispatchTypeOK, QueueTypeOK
  <2>2. Someone(q) => Someone(q)'
    BY <1>12 DEF StartJob, Someone, NoWork, Inv, DispatchTypeOK, QueueTypeOK
  <2> QED
    BY <2>1, <2>2, <1>c
<1>13. ASSUME NEW w \in Workers, StartRefused(w) PROVE Someone(q)'
  <2>1. Waiting(q)
    BY <1>13, <1>b DEF StartRefused, queueVars, Waiting, Rows, Settled, Terminal, Finished, Inv, DispatchTypeOK, QueueTypeOK
  <2>2. Someone(q) => Someone(q)'
    BY <1>13 DEF StartRefused, Someone, NoWork, Inv, DispatchTypeOK, QueueTypeOK
  <2> QED
    BY <2>1, <2>2, <1>c
<1>14. ASSUME NEW w \in Workers, NEW res \in Results, Executed(w, res) PROVE Someone(q)'
  <2>1. Waiting(q)
    BY <1>14, <1>b DEF Executed, queueVars, Waiting, Rows, Settled, Terminal, Finished, Inv, DispatchTypeOK, QueueTypeOK
  <2>2. Someone(q) => Someone(q)'
    BY <1>14 DEF Executed, Someone, NoWork, Inv, DispatchTypeOK, QueueTypeOK
  <2> QED
    BY <2>1, <2>2, <1>c
<1>15. ASSUME NEW w \in Workers, CompleteJob(w) PROVE Someone(q)'
  <2>1. wk[w].job \in Jobs /\ wk' = [wk EXCEPT ![w].pc = "count"]
    BY <1>15 DEF CompleteJob, Inv, WorkersAgree, Busily
  <2>2. CASE RunOf[wk[w].job] = q
    BY <2>1, <2>2 DEF Someone, Inv, DispatchTypeOK, QueueTypeOK
  <2>3. CASE RunOf[wk[w].job] # q
    <3>1. \A j \in Jobs : RunOf[j] = q => status'[j] = status[j]
      BY <1>15, <2>1, <2>3 DEF CompleteJob, Complete, queueVars, Inv, DispatchTypeOK, QueueTypeOK
    <3>2. Waiting(q)
      BY <1>15, <1>b, <3>1 DEF CompleteJob, Waiting, Rows, Settled
    <3>3. Someone(q) => Someone(q)'
      BY <2>1 DEF Someone, Inv, DispatchTypeOK, QueueTypeOK
    <3> QED
      BY <3>2, <3>3, <1>c
  <2> QED
    BY <2>2, <2>3
<1>16. ASSUME NEW w \in Workers, CountJobs(w) PROVE Someone(q)'
  <2>1. Waiting(q)
    BY <1>16, <1>b DEF CountJobs, Waiting, Rows, Settled, queueVars
  <2>2. PICK u \in Workers : wk[u].pc \in {"count", "verdict"} /\ RunOf[wk[u].job] = q
    BY <2>1, <1>c DEF Someone
  <2>3. CASE u = w
    <3>1. wk'[u].pc = "verdict" /\ wk'[u].job = wk[u].job
      BY <1>16, <2>1, <2>2, <2>3 DEF CountJobs, Waiting, Inv, DispatchTypeOK, QueueTypeOK
    <3> QED
      BY <2>2, <3>1 DEF Someone
  <2>4. CASE u # w
    <3>1. wk'[u] = wk[u]
      BY <1>16, <2>4 DEF CountJobs, Inv, DispatchTypeOK, QueueTypeOK
    <3> QED
      BY <2>2, <3>1 DEF Someone
  <2> QED
    BY <2>3, <2>4
<1>17. ASSUME NEW w \in Workers, SetVerdict(w) PROVE Someone(q)'
  <2>1. RunOf[wk[w].job] # q
    BY <1>17, <1>b, QueueAssumption DEF SetVerdict, Waiting, Finished, Inv, DispatchTypeOK, WorkersAgree, Busily
  <2>2. Waiting(q)
    BY <1>17, <1>b, <2>1 DEF SetVerdict, Waiting, Rows, Settled, queueVars, Inv, DispatchTypeOK, QueueTypeOK
  <2>3. Someone(q) => Someone(q)'
    BY <1>17, <2>1 DEF SetVerdict, Someone, Inv, DispatchTypeOK, QueueTypeOK
  <2> QED
    BY <2>2, <2>3, <1>c
<1>18. ASSUME NEW w \in Workers, Restart(w) PROVE Someone(q)'
  <2>1. Waiting(q)
    BY <1>18, <1>b DEF Restart, queueVars, Waiting, Rows, Settled, Terminal, Finished, Inv, DispatchTypeOK, QueueTypeOK
  <2>2. Someone(q) => Someone(q)'
    BY <1>18 DEF Restart, Someone, NoWork, Inv, DispatchTypeOK, QueueTypeOK
  <2> QED
    BY <2>1, <2>2, <1>c
<1>19. ASSUME NEW w \in Workers, CallFails(w) PROVE Someone(q)'
  BY <1>19, <1>a DEF CallFails, Fault, Inv, DispatchTypeOK
<1>20. ASSUME NEW w \in Workers, Crash(w) PROVE Someone(q)'
  BY <1>20, <1>a DEF Crash, Fault, Inv, DispatchTypeOK
<1>21. CASE Clock
  <2>1. Waiting(q)
    BY <1>21, <1>b DEF Clock, ExpireLease, dispatchVars, Waiting, Rows, Settled, Terminal, Inv, DispatchTypeOK, QueueTypeOK
  <2>2. Someone(q) => Someone(q)'
    BY <1>21 DEF Clock, dispatchVars, Someone
  <2> QED
    BY <2>1, <2>2, <1>c
<1>22. CASE Sweep
  <2>1. Waiting(q)
    BY <1>22, <1>b DEF Sweep, ReclaimExpired, Reclaimable, Active, dispatchVars, Waiting, Rows, Settled, Terminal, Inv, DispatchTypeOK, QueueTypeOK
  <2>2. Someone(q) => Someone(q)'
    BY <1>22 DEF Sweep, dispatchVars, Someone
  <2> QED
    BY <2>1, <2>2, <1>c
<1> QED
  BY <1>0, <1>1, <1>2, <1>3, <1>4, <1>5, <1>6, <1>7, <1>8, <1>9, <1>10, <1>11,
     <1>12, <1>13, <1>14, <1>15, <1>16, <1>17, <1>18, <1>19, <1>20, <1>21, <1>22
     DEF Next, PlanStep, WorkStep

\* Of the workers that end the last jobs of a run, one is left that sees them
\* all ended and finishes the run.
THEOREM LastOneAlwaysCounts == Spec => []LastOneCounts
<1>1. Init => LastInv
  BY DEF Init, LastInv, Waiting
<1>2. LastInv => LastOneCounts
  BY DEF LastInv, LastOneCounts, Waiting, Someone
<1> QED
  BY <1>1, <1>2, InitInv, InvStep, LastStep, PTL DEF Spec
=============================================================================
