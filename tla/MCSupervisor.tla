---------------------------- MODULE MCSupervisor ----------------------------
(* Instances of Supervisor: with and without a helper process. *)
EXTENDS Supervisor

BothEnds == {"deadline", "cancelled"}
OnlyDeadline == {"deadline"}
=============================================================================
