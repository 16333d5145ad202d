----------------------------- MODULE MCDispatch -----------------------------
(* Instances of Dispatch: every job in one run of one project. *)
EXTENDS Dispatch, TLC

CONSTANTS r1, p1

OneProject == [j \in Jobs |-> p1]
OneRun == [j \in Jobs |-> r1]

MCSymmetry == Permutations(Workers)
=============================================================================
