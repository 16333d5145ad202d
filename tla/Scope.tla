------------------------------- MODULE Scope -------------------------------
(***************************************************************************)
(* The scope engine (internal/scope): which verdict an ordered list of      *)
(* rules gives a target at a moment, and which rule decides.  Pure; the     *)
(* table of rules and the callers are in ScopeGate.tla.                     *)
(*                                                                          *)
(* Text is a sequence of pieces, as fine as the comparisons need, so that   *)
(* two texts are equal, or one begins or ends another, when their pieces    *)
(* do.  An address is a bit for its family and then its own bits.  Names    *)
(* and hosts are folded to one case, URLs and accounts are not.  <<>> is    *)
(* the empty string and 0 an absent port or an open end of a window.        *)
(*                                                                          *)
(*   target  [kind, identity, stem, host, port, url, parsed]                *)
(*           stem    what identity has in front of its last colon, which    *)
(*                   need not be the one of a port: <<>> if there is none   *)
(*           parsed  what url.Parse makes of url, a set of at most one      *)
(*                   [host, path], empty if it fails                        *)
(*   rule    [order, effect, kind, value, exact, portMin, portMax,          *)
(*            start, end]  (exact: a path_glob that does not end in a star;  *)
(*            the star is not part of the value, nor is the "*." in front   *)
(*            of a dns_wildcard)                                            *)
(***************************************************************************)
EXTENDS Naturals, Sequences, FiniteSets, SequencesExt

Effects == {"allow", "deny", "out_of_scope"}
Kinds == {"cidr", "host", "dns_exact", "dns_wildcard", "dns_suffix",
          "url_prefix", "path_glob", "vhost", "account"}

NoRule == [order |-> 0, effect |-> "out_of_scope", kind |-> "none",
           value |-> <<>>, exact |-> FALSE,
           portMin |-> 0, portMax |-> 0, start |-> 0, end |-> 0]

IsAddress(text) == text # <<>> /\ \A i \in DOMAIN text : text[i] \in {"0", "1"}

\* Rule.Validate: a path_glob may be nothing but a star.
Validate(rule) ==
    /\ rule.effect \in Effects
    /\ rule.kind \in Kinds
    /\ rule.value # <<>> \/ (rule.kind = "path_glob" /\ ~rule.exact)
    /\ rule.kind = "cidr" => IsAddress(rule.value)
    /\ 0 <= rule.portMin /\ rule.portMin <= rule.portMax
    /\ rule.start # 0 /\ rule.end # 0 => rule.start <= rule.end

\* Defect: the end of a window is included.
InWindowClosed(rule, now) ==
    /\ rule.start # 0 => rule.start <= now
    /\ rule.end # 0 => now <= rule.end

\* [start, end)
InWindow(rule, now) ==
    /\ rule.start # 0 => rule.start <= now
    /\ rule.end # 0 => now < rule.end

\* A rule about ports never matches a target that names none.
PortMatches(rule, target) ==
    \/ rule.portMin = 0 /\ rule.portMax = 0
    \/ target.port # 0 /\ rule.portMin <= target.port /\ target.port <= rule.portMax

\* A target without a host of its own is known by its identity up to the last
\* colon.  Of a bare IPv6 address that leaves another address, of a URL its
\* scheme.
HostOnly(target) ==
    IF target.host # <<>> THEN target.host
    ELSE IF target.stem # <<>> THEN target.stem ELSE target.identity

\* Defect: the dot is forgotten, and evil-example.com is below example.com.
BelowUndotted(base, name) == IsStrictSuffix(base, name)

Below(base, name) == IsSuffix(<<".">> \o base, name)

ValueMatches(rule, target) ==
    \/ /\ rule.kind = "cidr"
       /\ IsAddress(HostOnly(target)) /\ IsPrefix(rule.value, HostOnly(target))
    \/ rule.kind = "host" /\ rule.value = HostOnly(target)
    \/ /\ target.kind = "dns_name"
       /\ \/ rule.kind \in {"dns_exact", "dns_suffix"} /\ rule.value = target.identity
          \/ /\ rule.kind \in {"dns_wildcard", "dns_suffix"}
             /\ Below(rule.value, target.identity)
    \/ rule.kind = "account" /\ target.kind = "account"
       /\ rule.value = target.identity
    \/ /\ target.kind = "url"
       /\ \/ rule.kind = "url_prefix" /\ IsPrefix(rule.value, target.url)
          \/ rule.kind = "vhost" /\ \E u \in target.parsed : rule.value = u.host
          \/ rule.kind = "path_glob" /\ \E u \in target.parsed :
                IF rule.exact THEN rule.value = u.path ELSE IsPrefix(rule.value, u.path)

Applies(rule, target, now) ==
    InWindow(rule, now) /\ PortMatches(rule, target) /\ ValueMatches(rule, target)

Matching(target, list, now) == {i \in DOMAIN list : Applies(list[i], target, now)}

\* Defect: the last rule that matches decides.
DecidingLast(target, list, now) ==
    IF Matching(target, list, now) = {} THEN NoRule
    ELSE list[CHOOSE i \in Matching(target, list, now) :
                 \A k \in Matching(target, list, now) : k <= i]

\* Result.Rule: the first rule that matches.
Deciding(target, list, now) ==
    IF Matching(target, list, now) = {} THEN NoRule
    ELSE list[CHOOSE i \in Matching(target, list, now) :
                 \A k \in Matching(target, list, now) : i <= k]

Evaluate(target, list, now) == Deciding(target, list, now).effect

\* SELECT ... ORDER BY rule_order: the orders of a project are unique.
List(rules) ==
    [i \in 1 .. Cardinality(rules) |->
        CHOOSE r \in rules :
            Cardinality({s \in rules : s.order < r.order}) = i - 1]

-----------------------------------------------------------------------------
(* Properties *)

\* A set of rules with distinct orders means the same however the list is
\* built: the rule that decides is the one of least order among those that
\* apply, and none decides only if none applies.
LeastOrderDecides(rules, target, now) ==
    LET best == Deciding(target, List(rules), now) IN
    /\ best = NoRule <=> ~\E r \in rules : Applies(r, target, now)
    /\ best # NoRule => /\ best \in rules /\ Applies(best, target, now)
                        /\ \A r \in rules : r.order < best.order =>
                                ~Applies(r, target, now)

\* scope.go:59-61: *.base and base itself are disjoint and a suffix rule is
\* both of them, so that splitting one suffix rule in two leaves no gap; and
\* what it adds to the base are its subdomains, never a name that only ends
\* in the same letters.
SuffixSplits(base, target) ==
    LET Matches(kind) ==
            ValueMatches([NoRule EXCEPT !.kind = kind, !.value = base], target)
        name == target.identity
    IN  /\ Matches("dns_suffix") <=> Matches("dns_exact") \/ Matches("dns_wildcard")
        /\ ~(Matches("dns_exact") /\ Matches("dns_wildcard"))
        /\ Matches("dns_suffix") <=>
               /\ target.kind = "dns_name" /\ IsSuffix(base, name)
               /\ name # base => name[Len(name) - Len(base)] = "."

\* Two windows that meet at t cover every moment the joint window does, and
\* none of them twice: no rule is off at a hand-over and none overlaps.
WindowsTile(start, t, end, now) ==
    LET Within(a, b) == InWindow([NoRule EXCEPT !.start = a, !.end = b], now)
    IN  t # 0 /\ (start = 0 \/ start <= t) /\ (end = 0 \/ t <= end) =>
            /\ Within(start, end) <=> Within(start, t) \/ Within(t, end)
            /\ ~(Within(start, t) /\ Within(t, end))
=============================================================================
