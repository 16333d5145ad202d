------------------------------ MODULE RunLife ------------------------------
(***************************************************************************)
(* What a run promises to whoever started it, without the queue, the        *)
(* workers and their statements: it is planned, its jobs are admitted and   *)
(* end, somebody finds that all of them have ended and claims a verdict,    *)
(* and the verdict, or a cancellation, is final.  Dispatch.tla implements   *)
(* it.                                                                      *)
(***************************************************************************)
CONSTANTS
    Jobs, Runs,
    RunOf  \* the run of each job

VARIABLES
    run,        \* each run: absent, running, succeeded, failed, cancelled
    outcome,    \* each job: none, open, ok, bad
    accepting,  \* runs that are still being planned
    claims      \* verdicts found for each run and not yet written

vars == <<run, outcome, accepting, claims>>

Final == {"succeeded", "failed", "cancelled"}
Of(r) == {j \in Jobs : RunOf[j] = r /\ outcome[j] # "none"}
AllEnded(r) == \A j \in Of(r) : outcome[j] # "open"
Verdict(r) == IF \E j \in Of(r) : outcome[j] = "bad" THEN "failed" ELSE "succeeded"

Init ==
    /\ run = [r \in Runs |-> "absent"]
    /\ outcome = [j \in Jobs |-> "none"]
    /\ accepting = {}
    /\ claims = [r \in Runs |-> {}]

Submit(r) ==
    /\ run[r] = "absent"
    /\ run' = [run EXCEPT ![r] = "running"]
    /\ accepting' = accepting \cup {r}
    /\ UNCHANGED <<outcome, claims>>

Admit(j) ==
    /\ RunOf[j] \in accepting /\ outcome[j] = "none"
    /\ outcome' = [outcome EXCEPT ![j] = "open"]
    /\ UNCHANGED <<run, accepting, claims>>

End(j) ==
    /\ outcome[j] = "open"
    /\ \E o \in {"ok", "bad"} : outcome' = [outcome EXCEPT ![j] = o]
    /\ UNCHANGED <<run, accepting, claims>>

\* A run that exists may have all its open jobs called off.
Recall(r) ==
    /\ run[r] # "absent"
    /\ outcome' = [j \in Jobs |-> IF j \in Of(r) /\ outcome[j] = "open" THEN "ok" ELSE outcome[j]]
    /\ UNCHANGED <<run, accepting, claims>>

\* Planning ends; a run without jobs has succeeded.
Close(r) ==
    /\ r \in accepting
    /\ accepting' = accepting \ {r}
    /\ \/ Of(r) # {} /\ UNCHANGED run
       \/ Of(r) = {} /\ run[r] = "running" /\ run' = [run EXCEPT ![r] = "succeeded"]
    /\ UNCHANGED <<outcome, claims>>

\* Planning breaks off, whatever it has admitted.
Abandon(r) ==
    /\ r \in accepting
    /\ accepting' = accepting \ {r}
    /\ UNCHANGED <<run, outcome, claims>>

\* A claim is the verdict on jobs that have all ended.
Claim(r) ==
    /\ Of(r) # {} /\ AllEnded(r)
    /\ claims' = [claims EXCEPT ![r] = @ \cup {Verdict(r)}]
    /\ UNCHANGED <<run, outcome, accepting>>

\* A claim may come to nothing.
Withdraw(r) ==
    /\ \E v \in claims[r] : claims' = [claims EXCEPT ![r] = @ \ {v}]
    /\ UNCHANGED <<run, outcome, accepting>>

\* Somebody else may have claimed the same.
Judge(r) ==
    /\ run[r] = "running"
    /\ \E v \in claims[r] :
          /\ run' = [run EXCEPT ![r] = v]
          /\ claims' \in {claims, [claims EXCEPT ![r] = @ \ {v}]}
    /\ UNCHANGED <<outcome, accepting>>

Cancel(r) ==
    /\ run[r] = "running"
    /\ run' = [run EXCEPT ![r] = "cancelled"]
    /\ UNCHANGED <<outcome, accepting, claims>>

Next ==
    \/ \E r \in Runs : \/ Submit(r) \/ Recall(r) \/ Close(r) \/ Abandon(r)
                       \/ Claim(r) \/ Withdraw(r) \/ Judge(r) \/ Cancel(r)
    \/ \E j \in Jobs : Admit(j) \/ End(j)

Spec == Init /\ [][Next]_vars
=============================================================================
