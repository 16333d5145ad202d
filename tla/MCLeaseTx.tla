----------------------------- MODULE MCLeaseTx ------------------------------
(* Instances of LeaseTx: jobs that compete for one project's cap, or that   *)
(* wait in two projects.                                                    *)
EXTENDS LeaseTx, TLC

CONSTANTS j1, j2, j3, r1, r2, p1, p2

OneProject == [j \in Jobs |-> p1]
OneRun == [j \in Jobs |-> r1]
SamePriority == [j \in Jobs |-> 0]

TwoProjects == (j1 :> p1) @@ (j2 :> p1) @@ (j3 :> p2)
TwoRuns == (j1 :> r1) @@ (j2 :> r1) @@ (j3 :> r2)
=============================================================================
