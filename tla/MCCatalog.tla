----------------------------- MODULE MCCatalog -----------------------------
(* Instances of Catalog: a built-in collector and one that is not. *)
EXTENDS Catalog, TLC

MCSymmetry == Permutations(Calls) \cup Permutations(Binaries)
=============================================================================
