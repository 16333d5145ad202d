---------------------------- MODULE MCScopeGate ----------------------------
(* Instances of ScopeGate: one name, or one URL, and the rules that an      *)
(* operator may create for it.                                              *)
EXTENDS ScopeGate, TLC

NoURL == [host |-> <<>>, path |-> <<>>]

Domain == <<"example", ".", "com">>

Sub == [kind |-> "dns_name", identity |-> <<"a", ".">> \o Domain, stem |-> <<>>,
        host |-> <<>>, port |-> 0, url |-> <<>>, parsed |-> {NoURL}]
OneName == {Sub}

Page == [kind |-> "url", identity |-> <<"https", "://", "app">>, stem |-> <<"https">>,
         host |-> <<>>, port |-> 0, url |-> <<"https", "://", "app">>,
         parsed |-> {[host |-> <<"app">>, path |-> <<>>]}]
OnePage == {Page}

Row(order, effect, kind, value) ==
    [NoRule EXCEPT !.order = order, !.effect = effect, !.kind = kind, !.value = value]

DenyApex == Row(1, "deny", "dns_exact", Domain)
AllowSub == Row(1, "allow", "dns_wildcard", Domain)
AllowAll == [Row(2, "allow", "dns_suffix", Domain)
               EXCEPT !.start = 1, !.end = 2]
BadPorts == [Row(3, "allow", "cidr", <<"1">>) EXCEPT !.portMin = 443, !.portMax = 80]

\* Two rules of one order, one with a window behind them, and one that the
\* validation refuses.
PlanRows == {DenyApex, AllowSub, AllowAll, BadPorts}
PageRows == {Row(1, "allow", "url_prefix", <<"https", "://", "app">>)}

MCSymmetry == Permutations(Capabs)
=============================================================================
