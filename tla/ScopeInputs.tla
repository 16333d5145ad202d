---------------------------- MODULE ScopeInputs ----------------------------
(* The scope engine on its inputs: one state for each list of rules that a  *)
(* project can have, each target and each moment.  What the code computes   *)
(* is in Scope.tla; a state here only picks what it is computed for.        *)
EXTENDS Scope, Integers

CONSTANTS
    Rows,      \* rules that the create call has accepted
    Asked,     \* targets
    Bases,     \* DNS names a rule may have as its value
    Moments    \* values of time.Now() and bounds of windows; 0 is an open end

ASSUME InputsAssumption ==
    /\ IsFiniteSet(Rows) /\ \A r \in Rows : Validate(r) /\ r.order \in Int
    /\ Bases \subseteq Seq(STRING) /\ \A t \in Asked : t.identity \in Seq(STRING)
    /\ Moments \subseteq Nat

VARIABLE input

\* UNIQUE (project_id, rule_order)
InputInit ==
    input \in [rules  : {R \in SUBSET Rows : \A x, y \in R : x.order = y.order => x = y},
               target : Asked,
               now    : Moments]

InputNext == UNCHANGED input

InputSpec == InputInit /\ [][InputNext]_input

-----------------------------------------------------------------------------
(* Properties *)

\* The rule that decides is the applicable one of least order (Evaluate over
\* Store.List).
LeastOrderRule == LeastOrderDecides(input.rules, input.target, input.now)

\* The DNS kinds divide the names at and below a base without gap or overlap,
\* and take in no other name that ends alike.
SuffixRules == \A base \in Bases : SuffixSplits(base, input.target)

\* Windows that meet divide the time between them without gap or overlap.
WindowRules == \A a, b, c \in Moments : WindowsTile(a, b, c, input.now)

(* What a comment says, and the code does not do. *)

\* scope.go:283: "strip :port if present"; a bare address has none.
AddressKept ==
    IsAddress(input.target.identity) /\ input.target.host = <<>> =>
        HostOnly(input.target) = input.target.identity
=============================================================================
