----------------------------- MODULE MCEvidence -----------------------------
(* Instances of Evidence: the jobs of two runs, of one project or of two. *)
EXTENDS Evidence, TLC

CONSTANTS j1, j2, r1, r2, p1, p2

MCRunOf == j1 :> r1 @@ j2 :> r2
SameProject == r1 :> p1 @@ r2 :> p1
OtherProject == r1 :> p1 @@ r2 :> p2

MCSymmetry == Permutations(Blobs) \cup Permutations(Labels) \cup Permutations(Keys)
=============================================================================
