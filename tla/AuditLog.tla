------------------------------ MODULE AuditLog ------------------------------
(***************************************************************************)
(* What the audit log promises, without transactions, locks and hashes: it  *)
(* is a sequence of events that only grows at its end, a call is told of    *)
(* success only with its event in it, a call that failed may have left its  *)
(* event behind, and no event is in it twice.  AuditTrail.tla implements    *)
(* it.                                                                      *)
(***************************************************************************)
EXTENDS Sequences

CONSTANT Calls  \* each with an event of its own

VARIABLES
    events,  \* the history
    state    \* each call: new, waiting, told, failed

vars == <<events, state>>

Init ==
    /\ events = <<>>
    /\ state = [c \in Calls |-> "new"]

Submit(c) ==
    /\ state[c] = "new"
    /\ state' = [state EXCEPT ![c] = "waiting"]
    /\ UNCHANGED events

\* The caller may fail to hear of it.
Record(c) ==
    /\ state[c] = "waiting"
    /\ events' = Append(events, c)
    /\ \E answer \in {"told", "failed"} : state' = [state EXCEPT ![c] = answer]

Refuse(c) ==
    /\ state[c] = "waiting"
    /\ state' = [state EXCEPT ![c] = "failed"]
    /\ UNCHANGED events

\* Everybody who waits is let down at once.
Stop ==
    /\ state' = [c \in Calls |-> IF state[c] = "waiting" THEN "failed" ELSE state[c]]
    /\ UNCHANGED events

Next == Stop \/ \E c \in Calls : Submit(c) \/ Record(c) \/ Refuse(c)

Spec == Init /\ [][Next]_vars
=============================================================================
