------------------------------ MODULE Dispatch ------------------------------
(***************************************************************************)
(* Runs over the job queue: the planner (internal/run), the worker pool     *)
(* (internal/worker) and the cancel call of the API, all of which change    *)
(* `jobs` through the methods of JobQueue and `runs` by statements of their *)
(* own.  Every statement is a step; a failure or a crash may fall between   *)
(* any two of them.                                                         *)
(*                                                                          *)
(* The jobs with RunOf[j] = r are the (capability, target) pairs of the     *)
(* request that creates r; scope keeps or drops each at plan time.          *)
(***************************************************************************)
EXTENDS JobQueue

CONSTANT MaxFaults  \* bound: crashes and failed calls in a behaviour

ASSUME DispatchAssumption == MaxFaults \in Nat

VARIABLES
    run,     \* runs.status, "absent" before the INSERT
    plan,    \* each run's Plan call: its progress and the pairs still to do
    wk,      \* each worker's place in Pool.execute
    cancel,  \* each run's CancelRun call
    early,   \* history: runs counted as finished while still being planned
    faults   \* how many crashes and failed calls so far

dispatchVars == <<run, plan, wk, cancel, early, faults>>
vars == <<status, holder, expired, attempts, cap, capSeen, dispatchVars>>

Results == {"succeeded", "failed", "timed_out"}
Finished == {"succeeded", "failed", "cancelled"}
WorkerPC == {"idle", "leased", "execute", "complete", "count", "verdict", "down"}

\* attempt is the value of jobs.attempts the worker's lease returned.
NoWork(pc) == [pc |-> pc, job |-> None, attempt |-> 0, result |-> None]

Rows(r) == {j \in Jobs : RunOf[j] = r /\ status[j] # "absent"}

\* Defect: timed_out is missing from the FILTER of `done`.
SettledForgetsTimedOut(r) ==
    \A j \in Rows(r) : status[j] \in {"succeeded", "failed", "cancelled"}

Settled(r) == \A j \in Rows(r) : status[j] \in Terminal
AnyFailed(r) == \E j \in Rows(r) : status[j] \in {"failed", "timed_out"}
Planning(r) == plan[r].pc = "planning"

DispatchTypeOK ==
    /\ QueueTypeOK
    /\ run \in [Runs -> {"absent", "running"} \cup Finished]
    /\ plan \in [Runs -> [pc   : {"none", "planning", "returned", "failed"},
                          todo : SUBSET Jobs]]
    /\ wk \in [Workers -> [pc      : WorkerPC,
                           job     : Jobs \cup {None},
                           attempt : Nat,
                           result  : Results \cup {None}]]
    /\ cancel \in [Runs -> [pc    : {"none", "jobs", "done", "failed"},
                            hit   : BOOLEAN,
                            whole : BOOLEAN]]
    /\ early \in SUBSET Runs
    /\ faults \in Nat

Init ==
    /\ QueueInit
    /\ run = [r \in Runs |-> "absent"]
    /\ plan = [r \in Runs |-> [pc |-> "none", todo |-> {}]]
    /\ wk = [w \in Workers |-> NoWork("idle")]
    /\ cancel = [r \in Runs |-> [pc |-> "none", hit |-> FALSE, whole |-> FALSE]]
    /\ early = {}
    /\ faults = 0

\* One more fault may happen; if it strands a job's lease, the lease must
\* still be able to expire under the bound MaxAttempts.
Fault == faults < MaxFaults /\ faults' = faults + 1
Strandable(j) == attempts[j] < MaxAttempts

-----------------------------------------------------------------------------
(* Planner.Plan *)

\* INSERT INTO runs ... 'running', committed before any job is planned.
StartPlan(r) ==
    /\ plan[r].pc = "none"
    /\ plan' = [plan EXCEPT ![r] =
                  [pc |-> "planning", todo |-> {j \in Jobs : RunOf[j] = r}]]
    /\ run' = [run EXCEPT ![r] = "running"]
    /\ UNCHANGED <<queueVars, wk, cancel, early, faults>>

PlanKeep(r, j) ==
    /\ Planning(r) /\ j \in plan[r].todo
    /\ Enqueue(j)
    /\ plan' = [plan EXCEPT ![r].todo = @ \ {j}]
    /\ UNCHANGED <<run, wk, cancel, early, faults>>

\* Scope denies the target; the drop is audited (ScopeGate.tla).
PlanDrop(r, j) ==
    /\ Planning(r) /\ j \in plan[r].todo
    /\ plan' = [plan EXCEPT ![r].todo = @ \ {j}]
    /\ UNCHANGED <<queueVars, run, wk, cancel, early, faults>>

\* Nothing kept: succeeded at once, by an UPDATE without a status guard.
PlanEnd(r) ==
    /\ Planning(r) /\ plan[r].todo = {}
    /\ plan' = [plan EXCEPT ![r].pc = "returned"]
    /\ run' = [run EXCEPT ![r] = IF Rows(r) = {} THEN "succeeded" ELSE @]
    /\ UNCHANGED <<queueVars, wk, cancel, early, faults>>

\* An audit append or an enqueue fails, or the client goes away and its
\* context is cancelled: Plan returns and leaves what it has done.
PlanFail(r) ==
    /\ Planning(r)
    /\ Fault
    /\ plan' = [plan EXCEPT ![r].pc = "failed"]
    /\ UNCHANGED <<queueVars, run, wk, cancel, early>>

-----------------------------------------------------------------------------
(* Pool.loop and Pool.execute *)

WorkerLease(w) ==
    /\ wk[w].pc = "idle"
    /\ \E j \in Jobs :
          /\ Lease(j, w)
          /\ wk' = [wk EXCEPT ![w] = [pc |-> "leased", job |-> j,
                                      attempt |-> attempts'[j], result |-> None]]
    /\ UNCHANGED <<run, plan, cancel, early, faults>>

\* The lease commits but the worker is told of an error.
LeaseLost(w) ==
    /\ wk[w].pc = "idle"
    /\ Fault
    /\ \E j \in Jobs : Lease(j, w) /\ attempts'[j] < MaxAttempts
    /\ UNCHANGED <<run, plan, wk, cancel, early>>

\* The registry does not know the collector: Complete(failed) without a
\* MarkRunning before it.
Unregistered(w) ==
    /\ wk[w].pc = "leased"
    /\ wk' = [wk EXCEPT ![w].pc = "complete", ![w].result = "failed"]
    /\ UNCHANGED <<queueVars, run, plan, cancel, early, faults>>

StartJob(w) ==
    /\ wk[w].pc = "leased"
    /\ MarkRunning(wk[w].job, w)
    /\ wk' = [wk EXCEPT ![w].pc = "execute"]
    /\ UNCHANGED <<run, plan, cancel, early, faults>>

\* "queue: not the leaseholder": give the job up.
StartRefused(w) ==
    /\ wk[w].pc = "leased"
    /\ ~CanMarkRunning(wk[w].job, w)
    /\ wk' = [wk EXCEPT ![w] = NoWork("idle")]
    /\ UNCHANGED <<queueVars, run, plan, cancel, early, faults>>

\* resolveSecrets fails, or the collector returns nil, an error or
\* DeadlineExceeded (Canceled is Crash below).
Executed(w, res) ==
    /\ wk[w].pc = "execute"
    /\ wk' = [wk EXCEPT ![w].pc = "complete", ![w].result = res]
    /\ UNCHANGED <<queueVars, run, plan, cancel, early, faults>>

\* The error of Complete is discarded: a worker that has lost its lease goes
\* on to MaybeFinishRun like one that has not.
CompleteJob(w) ==
    LET j == wk[w].job IN
    /\ wk[w].pc = "complete"
    /\ \/ Complete(j, w, wk[w].result)
       \/ ~CanComplete(j, w) /\ UNCHANGED queueVars
    /\ wk' = [wk EXCEPT ![w].pc = "count"]
    /\ UNCHANGED <<run, plan, cancel, early, faults>>

\* Defect: COUNT(*) FILTER (WHERE status='failed') forgets timed_out.
CountFailedOnly(w) ==
    LET r == RunOf[wk[w].job]
        failed == \E j \in Rows(r) : status[j] = "failed"
    IN
    /\ wk[w].pc = "count"
    /\ wk' = [wk EXCEPT ![w] =
          IF Rows(r) # {} /\ Settled(r)
          THEN [@ EXCEPT !.pc = "verdict",
                         !.result = IF failed THEN "failed" ELSE "succeeded"]
          ELSE NoWork("idle")]
    /\ early' = IF Planning(r) /\ Settled(r) THEN early \cup {r} ELSE early
    /\ UNCHANGED <<queueVars, run, plan, cancel, faults>>

\* Defect: the FILTER of `done` misses timed_out.
CountForgetsTimedOut(w) ==
    LET r == RunOf[wk[w].job] IN
    /\ wk[w].pc = "count"
    /\ wk' = [wk EXCEPT ![w] =
          IF Rows(r) # {} /\ SettledForgetsTimedOut(r)
          THEN [@ EXCEPT !.pc = "verdict",
                         !.result = IF AnyFailed(r) THEN "failed" ELSE "succeeded"]
          ELSE NoWork("idle")]
    /\ early' = IF Planning(r) /\ Settled(r) THEN early \cup {r} ELSE early
    /\ UNCHANGED <<queueVars, run, plan, cancel, faults>>

\* MaybeFinishRun, first statement.
CountJobs(w) ==
    LET r == RunOf[wk[w].job] IN
    /\ wk[w].pc = "count"
    /\ wk' = [wk EXCEPT ![w] =
          IF Rows(r) # {} /\ Settled(r)
          THEN [@ EXCEPT !.pc = "verdict",
                         !.result = IF AnyFailed(r) THEN "failed" ELSE "succeeded"]
          ELSE NoWork("idle")]
    /\ early' = IF Planning(r) /\ Settled(r) THEN early \cup {r} ELSE early
    /\ UNCHANGED <<queueVars, run, plan, cancel, faults>>

\* Defect: the UPDATE has no status NOT IN (...) guard.
SetVerdictUnguarded(w) ==
    LET r == RunOf[wk[w].job] IN
    /\ wk[w].pc = "verdict"
    /\ run' = [run EXCEPT ![r] = wk[w].result]
    /\ wk' = [wk EXCEPT ![w] = NoWork("idle")]
    /\ UNCHANGED <<queueVars, plan, cancel, early, faults>>

\* MaybeFinishRun, second statement: a run that has finished stays as it is.
SetVerdict(w) ==
    LET r == RunOf[wk[w].job] IN
    /\ wk[w].pc = "verdict"
    /\ run' = [run EXCEPT ![r] = IF @ \in Finished THEN @ ELSE wk[w].result]
    /\ wk' = [wk EXCEPT ![w] = NoWork("idle")]
    /\ UNCHANGED <<queueVars, plan, cancel, early, faults>>

\* A call of execute fails in the database and its error is discarded or
\* only logged.
CallFails(w) ==
    /\ wk[w].pc \in {"leased", "complete", "count", "verdict"}
    /\ Strandable(wk[w].job)
    /\ Fault
    /\ wk' = [wk EXCEPT ![w] = IF @.pc = "complete" THEN [@ EXCEPT !.pc = "count"]
                                                    ELSE NoWork("idle")]
    /\ UNCHANGED <<queueVars, run, plan, cancel, early>>

\* The process dies, or it shuts down: then the context is cancelled, a
\* collector that was executing returns Canceled and its job is left for the
\* reclaim sweep, every later call on the context fails, and the loop ends.
Crash(w) ==
    /\ wk[w].pc \notin {"idle", "down"}
    /\ Strandable(wk[w].job)
    /\ Fault
    /\ wk' = [wk EXCEPT ![w] = NoWork("down")]
    /\ UNCHANGED <<queueVars, run, plan, cancel, early>>

Restart(w) ==
    /\ wk[w].pc = "down"
    /\ wk' = [wk EXCEPT ![w] = NoWork("idle")]
    /\ UNCHANGED <<queueVars, run, plan, cancel, early, faults>>

-----------------------------------------------------------------------------
(* POST /v1/runs/{id}/cancel *)

\* A client learns a run's id from Plan's answer, or from a finding one of
\* its jobs has emitted.
Known(r) == plan[r].pc = "returned" \/ \E j \in Rows(r) : attempts[j] > 0

CancelJobs(r) ==
    /\ cancel[r].pc = "none"
    /\ Known(r)
    /\ CancelJobsOf(r)
    /\ cancel' = [cancel EXCEPT ![r] =
          [pc |-> "jobs", hit |-> \E j \in Rows(r) : Live(j), whole |-> ~Planning(r)]]
    /\ UNCHANGED <<run, plan, wk, early, faults>>

CancelRunRow(r) ==
    /\ cancel[r].pc = "jobs"
    /\ run' = [run EXCEPT ![r] = IF @ \in Finished THEN @ ELSE "cancelled"]
    /\ cancel' = [cancel EXCEPT ![r].pc = "done"]
    /\ UNCHANGED <<queueVars, plan, wk, early, faults>>

CancelFails(r) ==
    /\ cancel[r].pc = "jobs"
    /\ Fault
    /\ cancel' = [cancel EXCEPT ![r].pc = "failed"]
    /\ UNCHANGED <<queueVars, run, plan, wk, early>>

-----------------------------------------------------------------------------
(* Time and the reclaim loop *)

Clock == (\E j \in Jobs : ExpireLease(j)) /\ UNCHANGED dispatchVars
Sweep == ReclaimExpired /\ UNCHANGED dispatchVars

PlanStep(r) ==
    \/ \E j \in Jobs : PlanKeep(r, j) \/ PlanDrop(r, j)
    \/ PlanEnd(r)

WorkStep(w) ==
    \/ Unregistered(w) \/ StartJob(w) \/ StartRefused(w)
    \/ \E res \in Results : Executed(w, res)
    \/ CompleteJob(w) \/ CountJobs(w) \/ SetVerdict(w)
    \/ Restart(w)

Next ==
    \/ \E r \in Runs : \/ StartPlan(r) \/ PlanStep(r) \/ PlanFail(r)
                       \/ CancelJobs(r) \/ CancelRunRow(r) \/ CancelFails(r)
    \/ \E w \in Workers : \/ WorkerLease(w) \/ LeaseLost(w) \/ WorkStep(w)
                          \/ CallFails(w) \/ Crash(w)
    \/ Clock
    \/ Sweep

Spec == Init /\ [][Next]_vars

\* A Plan or CancelRun call in progress goes on, every worker keeps polling
\* and finishes what it executes, a dead worker is restarted, time passes and
\* the reclaim ticker ticks.  No one has to submit or cancel a run, and no
\* fault has to happen.
FairSpec ==
    /\ Spec
    /\ \A r \in Runs : WF_vars(PlanStep(r)) /\ WF_vars(CancelRunRow(r))
    /\ \A w \in Workers : WF_vars(WorkerLease(w)) /\ WF_vars(WorkStep(w))
    /\ WF_vars(Clock)
    /\ WF_vars(Sweep)

-----------------------------------------------------------------------------
(* Properties *)

\* jobs.leased_by is no fencing token: it names the worker, not the lease.
\* Still a result is only ever recorded by the worker, and for the attempt,
\* that holds the job now; a worker whose lease was reclaimed records none.
FencedCompletion ==
    [][\A j \in Jobs :
          status[j] \in Active /\ status'[j] \in Results =>
             \E w \in Workers : /\ wk[w].pc = "complete"
                                /\ wk[w].job = j
                                /\ wk[w].attempt = attempts[j]
                                /\ wk[w].result = status'[j]]_vars

\* A run that ended by counting its jobs, after its Plan call was over, has
\* only ended jobs, and failed exactly if one of them failed or timed out.
VerdictRight ==
    \A r \in Runs \ early : run[r] \in {"succeeded", "failed"} =>
        /\ Settled(r)
        /\ run[r] = "failed" <=> AnyFailed(r)

\* A finished run keeps its status, although Plan's last UPDATE and the two
\* workers that both saw the last job end write it without looking or late.
FinishedIsFinal ==
    [][\A r \in Runs : run[r] \in Finished => run'[r] = run[r]]_vars

\* The statements of planner, workers and cancel call, with their failures,
\* implement the life of a run: it finishes once and stays finished, only on
\* a verdict its jobs justified at one moment, although Plan's last UPDATE
\* looks at no status and two workers that saw the last jobs end both write.
JobLife(s) ==
    CASE s = "absent" -> "none"
      [] s \in {"failed", "timed_out"} -> "bad"
      [] s \in {"succeeded", "cancelled"} -> "ok"
      [] OTHER -> "open"

Life == INSTANCE RunLife WITH
    outcome   <- [j \in Jobs |-> JobLife(status[j])],
    accepting <- {r \in Runs : Planning(r)},
    claims    <- [r \in Runs |-> {wk[w].result : w \in {v \in Workers :
                                      wk[v].pc = "verdict" /\ RunOf[wk[v].job] = r}}]

RunLifeSpec == Life!Spec

\* Cancelling a run that is no longer being planned ends all its jobs for
\* good: no late worker, expired lease or sweep revives one.
CancelSticks ==
    \A r \in Runs : cancel[r].whole => Settled(r)

\* MaybeFinishRun is called by whoever has just ended a job, and by no one
\* else.  So a run whose jobs have all ended, and which nothing has stopped,
\* always has a worker on its way to finish it: of two workers that end the
\* last two jobs at the same time, the later one sees both.
LastOneCounts ==
    \A r \in Runs :
        run[r] = "running" /\ ~Planning(r) /\ Rows(r) # {} /\ Settled(r)
                           /\ cancel[r].pc # "jobs" /\ faults = 0
            => \E w \in Workers : /\ wk[w].pc \in {"count", "verdict"}
                                  /\ RunOf[wk[w].job] = r

\* No job is lost: whatever crashes, a queued job ends.
JobsFinish ==
    \A j \in Jobs : status[j] = "queued" ~> status[j] \in Terminal

\* Without faults a run that was started is finished.
RunsFinish ==
    \A r \in Runs : run[r] = "running" ~> run[r] \in Finished \/ faults > 0

(* What the comments of the code say, and the code does not do. *)

\* run.go:264: a run is finished by MaybeFinishRun only when "all of a run's
\* jobs are terminal".
FinishedRunIsSettled ==
    \A r \in Runs : run[r] \in {"succeeded", "failed"} => Settled(r)

\* queue.go:288: CancelRun "marks all non-terminal jobs of a run as cancelled
\* and the run itself as cancelled".
CancelledJobsCancelRun ==
    \A r \in Runs : cancel[r].pc = "done" /\ cancel[r].hit => run[r] = "cancelled"

\* run.go:264: when all of a planned run's jobs are terminal, it is finished.
SettledRunFinishes ==
    \A r \in Runs :
        plan[r].pc = "returned" /\ Settled(r) ~> run[r] \in Finished
=============================================================================
