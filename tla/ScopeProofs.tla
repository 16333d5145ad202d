----------------------------- MODULE ScopeProofs -----------------------------
(* What the scope engine decides for every ordered list of rules, and what  *)
(* Planner.Plan guarantees about every run it plans, for every set of       *)
(* rules, targets and capabilities.                                         *)
EXTENDS ScopeGate, ScopeInputs, FiniteSetTheorems, TLAPS

\* A set of indices has a least one: of the intervals 1 .. i, one includes
\* no other strictly.
LEMMA LeastIndex ==
  ASSUME NEW I \in SUBSET Nat, I # {}
  PROVE  \E i \in I : \A k \in I : i <= k
<1> DEFINE T == {1 .. i : i \in I}
           R == StrictSubsetOrdering(Nat)
<1>1. \A i \in I : i \in Nat /\ 1 .. i \in FiniteSubsetsOf(Nat)
  BY FS_Interval DEF FiniteSubsetsOf
<1>2. T \subseteq FiniteSubsetsOf(Nat) /\ T # {}
  BY <1>1
<1>3. PICK x \in T : \A y \in T : <<y, x>> \notin R
  <2> HIDE DEF T, R
  <2>1. IsWellFoundedOn(R, FiniteSubsetsOf(Nat))
    BY FS_StrictSubsetOrderingWellFounded DEF R
  <2> QED
    BY <1>2, <2>1, WFMin
<1>4. PICK i \in I : x = 1 .. i
  OBVIOUS
<1>5. ASSUME NEW k \in I, k < i PROVE FALSE
  <2>1. 1 .. k \in T /\ 1 .. k \subseteq 1 .. i /\ i \in 1 .. i /\ i \notin 1 .. k
    BY <1>1, <1>5
  <2>2. 1 .. k \in SUBSET Nat /\ 1 .. i \in SUBSET Nat
    OBVIOUS
  <2>3. <<1 .. k, 1 .. i>> \in R
    BY <2>1, <2>2 DEF StrictSubsetOrdering
  <2> QED
    BY <1>3, <1>4, <2>1, <2>3
<1> QED
  BY <1>1, <1>5

LEMMA FirstMatching ==
  ASSUME NEW target, NEW at, NEW S, NEW list \in Seq(S),
         Matching(target, list, at) # {}
  PROVE  \E i \in Matching(target, list, at) :
            /\ \A k \in Matching(target, list, at) : i <= k
            /\ Deciding(target, list, at) = list[i]
<1> DEFINE M == Matching(target, list, at)
<1>1. M \in SUBSET Nat
  BY DEF Matching
<1>2. \E i \in M : \A k \in M : i <= k
  BY <1>1, LeastIndex
<1>3. (CHOOSE i \in M : \A k \in M : i <= k) \in M
      /\ \A k \in M : (CHOOSE i \in M : \A k2 \in M : i <= k2) <= k
  BY <1>2
<1>4. Deciding(target, list, at) = list[CHOOSE i \in M : \A k \in M : i <= k]
  BY DEF Deciding
<1> QED
  BY <1>3, <1>4

\* In a list in ascending order the rule that Evaluate returns applies, and
\* no applicable rule has a lower order: first match is least order.
THEOREM FirstMatchIsLeastOrder ==
  ASSUME NEW target, NEW at, NEW S, NEW list \in Seq(S),
         \A i \in DOMAIN list : list[i].order \in Int,
         \A i, k \in DOMAIN list : i < k => list[i].order < list[k].order,
         Matching(target, list, at) # {}
  PROVE  LET best == Deciding(target, list, at) IN
         /\ Applies(best, target, at)
         /\ \A k \in DOMAIN list : list[k].order < best.order =>
               ~Applies(list[k], target, at)
<1>1. PICK i \in Matching(target, list, at) :
         /\ \A k \in Matching(target, list, at) : i <= k
         /\ Deciding(target, list, at) = list[i]
  BY FirstMatching
<1>2. i \in DOMAIN list /\ Applies(list[i], target, at)
  BY DEF Matching
<1>3. ASSUME NEW k \in DOMAIN list, list[k].order < list[i].order,
             Applies(list[k], target, at)
      PROVE  FALSE
  <2>1. k \in Matching(target, list, at)
    BY <1>3 DEF Matching
  <2>2. i <= k /\ i \in Nat /\ k \in Nat
    BY <2>1, <1>1, <1>2
  <2>3. i = k \/ i < k
    BY <2>2
  <2> QED
    BY <2>3, <1>2, <1>3
<1> QED
  BY <1>1, <1>2, <1>3

\* Rules appended behind the one that decides change nothing, whatever their
\* effect (scope_test.go, TestPropertyMonotonicAppend, and for allow as well
\* as for deny).
THEOREM AppendKeepsVerdict ==
  ASSUME NEW target, NEW at, NEW S, NEW list \in Seq(S), NEW more \in Seq(S),
         Matching(target, list, at) # {}
  PROVE  Deciding(target, list \o more, at) = Deciding(target, list, at)
<1> DEFINE both == list \o more
<1>1. PICK i \in Matching(target, list, at) :
         /\ \A k \in Matching(target, list, at) : i <= k
         /\ Deciding(target, list, at) = list[i]
  BY FirstMatching
<1>2. /\ both \in Seq(S)
      /\ DOMAIN both = 1 .. Len(list) + Len(more)
      /\ DOMAIN list = 1 .. Len(list)
      /\ Len(list) \in Nat /\ Len(more) \in Nat
      /\ \A k \in 1 .. Len(list) : both[k] = list[k]
  OBVIOUS
<1>3. i \in Matching(target, both, at)
  BY <1>1, <1>2 DEF Matching
<1>4. PICK m \in Matching(target, both, at) :
         /\ \A k \in Matching(target, both, at) : m <= k
         /\ Deciding(target, both, at) = both[m]
  BY <1>2, <1>3, FirstMatching
<1>5. m <= i /\ m \in 1 .. Len(list)
  BY <1>1, <1>2, <1>3, <1>4 DEF Matching
<1>6. m \in Matching(target, list, at)
  BY <1>2, <1>5 DEF Matching
<1>7. m = i
  BY <1>1, <1>2, <1>5, <1>6 DEF Matching
<1> QED
  BY <1>1, <1>2, <1>4, <1>5, <1>7

-----------------------------------------------------------------------------
(* Store.List: the rows in the order of rule_order.                          *)

Distinct(R) ==
    /\ IsFiniteSet(R)
    /\ \A x \in R : x.order \in Int
    /\ \A x, y \in R : x.order = y.order => x = y

Lower(R, r) == {s \in R : s.order < r.order}

\* The number of rows in front of a row grows with its order.
LEMMA RankGrows ==
  ASSUME NEW R, Distinct(R), NEW x \in R, NEW y \in R, x.order < y.order
  PROVE  Cardinality(Lower(R, x)) < Cardinality(Lower(R, y))
<1>1. Lower(R, x) \subseteq Lower(R, y) /\ x \in Lower(R, y) /\ x \notin Lower(R, x)
  BY DEF Lower, Distinct
<1>2. IsFiniteSet(Lower(R, y))
  BY FS_Subset DEF Lower, Distinct
<1>3. Cardinality(Lower(R, y)) \in Nat /\ Cardinality(Lower(R, x)) \in Nat
  BY <1>1, <1>2, FS_Subset, FS_CardinalityType
<1> QED
  BY <1>1, <1>2, <1>3, FS_Subset

\* Each place of the list belongs to a row: counting is one to one from the
\* rows to as many numbers.
LEMMA EveryRankTaken ==
  ASSUME NEW R, Distinct(R)
  PROVE  \A i \in 1 .. Cardinality(R) : \E r \in R : Cardinality(Lower(R, r)) = i - 1
<1> DEFINE n == Cardinality(R)
           rank == [r \in R |-> Cardinality(Lower(R, r))]
<1>1. n \in Nat
  BY FS_CardinalityType DEF Distinct
<1>2. \A r \in R : rank[r] \in 0 .. n - 1
  <2> SUFFICES ASSUME NEW r \in R PROVE Cardinality(Lower(R, r)) \in 0 .. n - 1
    OBVIOUS
  <2>1. Lower(R, r) \subseteq R /\ r \notin Lower(R, r)
    BY DEF Lower, Distinct
  <2>2. Cardinality(Lower(R, r)) \in Nat /\ Cardinality(Lower(R, r)) < n
    BY <1>1, <2>1, FS_Subset, FS_CardinalityType DEF Distinct
  <2> QED
    BY <1>1, <2>2
<1>3. \A x, y \in R : rank[x] = rank[y] => x = y
  <2> SUFFICES ASSUME NEW x \in R, NEW y \in R, rank[x] = rank[y], x # y PROVE FALSE
    OBVIOUS
  <2>1. x.order < y.order \/ y.order < x.order
    BY DEF Distinct
  <2>2. rank[x] < rank[y] \/ rank[y] < rank[x]
    BY <2>1, RankGrows
  <2>3. rank[x] \in Int /\ rank[y] \in Int
    BY <1>2
  <2> HIDE DEF rank
  <2> QED
    BY <2>2, <2>3
<1>4. rank \in Injection(R, 0 .. n - 1)
  BY <1>2, <1>3 DEF Injection, IsInjective
<1>5. IsFiniteSet(0 .. n - 1) /\ Cardinality(0 .. n - 1) = n
  BY <1>1, FS_Interval
<1>6. rank \in Surjection(R, 0 .. n - 1)
  BY <1>4, <1>5, FS_Injection
<1>7. \A k \in 0 .. n - 1 : \E r \in R : rank[r] = k
  BY <1>6 DEF Surjection
<1>8. \A i \in 1 .. n : i - 1 \in 0 .. n - 1
  BY <1>1
<1> QED
  BY <1>7, <1>8

\* List holds every row once, in ascending order.
LEMMA ListIsSorted ==
  ASSUME NEW R, Distinct(R)
  PROVE  /\ List(R) \in Seq(R)
         /\ \A r \in R : \E i \in DOMAIN List(R) : List(R)[i] = r
         /\ \A i, k \in DOMAIN List(R) : i < k => List(R)[i].order < List(R)[k].order
<1> DEFINE n == Cardinality(R)
           list == List(R)
           Rank(r) == Cardinality(Lower(R, r))
<1>1. n \in Nat
  BY FS_CardinalityType DEF Distinct
<1>2. list = [i \in 1 .. n |-> CHOOSE r \in R : Rank(r) = i - 1]
  BY DEF List, Lower
<1>3. \A i \in 1 .. n : list[i] \in R /\ Rank(list[i]) = i - 1
  <2> SUFFICES ASSUME NEW i \in 1 .. n PROVE list[i] \in R /\ Rank(list[i]) = i - 1
    OBVIOUS
  <2>1. \E r \in R : Rank(r) = i - 1
    BY EveryRankTaken
  <2>2. list[i] = CHOOSE r \in R : Rank(r) = i - 1
    BY <1>2
  <2> HIDE DEF list, Rank
  <2> QED
    BY <2>1, <2>2
<1>4. list \in Seq(R) /\ DOMAIN list = 1 .. n
  BY <1>1, <1>2, <1>3
<1>5. \A x, y \in R : x.order < y.order => Rank(x) < Rank(y)
  BY RankGrows
<1>6. \A x \in R : Rank(x) \in 0 .. n - 1
  <2> SUFFICES ASSUME NEW x \in R PROVE Rank(x) \in 0 .. n - 1
    OBVIOUS
  <2>1. Lower(R, x) \subseteq R /\ x \notin Lower(R, x)
    BY DEF Lower, Distinct
  <2>2. Rank(x) \in Nat /\ Rank(x) < n
    BY <1>1, <2>1, FS_Subset, FS_CardinalityType DEF Distinct
  <2> QED
    BY <1>1, <2>2
<1>7. \A x, y \in R : x = y \/ x.order < y.order \/ y.order < x.order
  BY DEF Distinct
<1> HIDE DEF Rank, list, n
<1>8. ASSUME NEW r \in R PROVE \E i \in DOMAIN list : list[i] = r
  <2>1. Rank(r) + 1 \in 1 .. n
    BY <1>1, <1>6
  <2>2. list[Rank(r) + 1] \in R /\ Rank(list[Rank(r) + 1]) = Rank(r) /\ Rank(r) \in Int
    BY <1>3, <1>6, <2>1
  <2>3. list[Rank(r) + 1] = r
    BY <1>5, <1>7, <2>2
  <2> QED
    BY <1>4, <2>1, <2>3
<1>9. ASSUME NEW i \in DOMAIN list, NEW k \in DOMAIN list, i < k
      PROVE  list[i].order < list[k].order
  <2>1. i \in Int /\ k \in Int /\ Rank(list[i]) = i - 1 /\ Rank(list[k]) = k - 1
    BY <1>3, <1>4
  <2>2. list[i] \in R /\ list[k] \in R
    BY <1>3, <1>4
  <2>3. list[i] # list[k] /\ ~(list[k].order < list[i].order)
    BY <1>5, <1>9, <2>1, <2>2
  <2> QED
    BY <1>7, <2>2, <2>3
<1> QED
  BY <1>4, <1>8, <1>9 DEF list

\* For any finite set of rows with distinct orders, the rule that Evaluate
\* returns over Store.List is the applicable one of least order, and there
\* is none only if none applies.
THEOREM LeastOrderAlwaysDecides ==
  ASSUME NEW R, Distinct(R), NEW target, NEW at
  PROVE  LeastOrderDecides(R, target, at)
<1> DEFINE list == List(R)
           best == Deciding(target, list, at)
<1>1. /\ list \in Seq(R)
      /\ \A r \in R : \E i \in DOMAIN list : list[i] = r
      /\ \A i, k \in DOMAIN list : i < k => list[i].order < list[k].order
  BY ListIsSorted
<1>2. \A i \in DOMAIN list : list[i] \in R /\ list[i].order \in Int
  BY <1>1 DEF Distinct
<1>3. ~Applies(NoRule, target, at)
  BY DEF Applies, ValueMatches, NoRule
<1> HIDE DEF list
<1>4. CASE Matching(target, list, at) = {}
  <2>1. \A r \in R : ~Applies(r, target, at)
    BY <1>1, <1>4 DEF Matching
  <2> QED
    BY <1>4, <2>1 DEF LeastOrderDecides, Deciding, list
<1>5. CASE Matching(target, list, at) # {}
  <2>1. /\ Applies(best, target, at)
        /\ \A k \in DOMAIN list : list[k].order < best.order => ~Applies(list[k], target, at)
    BY <1>1, <1>2, <1>5, FirstMatchIsLeastOrder
  <2>2. best \in R
    BY <1>1, <1>2, <1>5, FirstMatching DEF Matching
  <2>3. best # NoRule
    BY <1>3, <2>1
  <2>4. \A r \in R : r.order < best.order => ~Applies(r, target, at)
    BY <1>1, <2>1
  <2> QED
    BY <2>1, <2>2, <2>3, <2>4 DEF LeastOrderDecides, list
<1> QED
  BY <1>4, <1>5

-----------------------------------------------------------------------------
(* The engine on its inputs. *)

LEMMA InputInvariant ==
  InputSpec => [](/\ Distinct(input.rules) /\ input.rules \subseteq Rows
                  /\ input.now \in Nat /\ input.target \in Asked)
<1> DEFINE Inv == /\ Distinct(input.rules) /\ input.rules \subseteq Rows
                  /\ input.now \in Nat /\ input.target \in Asked
<1>1. InputInit => Inv
  BY FS_Subset, InputsAssumption DEF InputInit, Distinct
<1>2. Inv /\ [InputNext]_input => Inv'
  BY DEF InputNext, Distinct
<1> QED
  BY <1>1, <1>2, PTL DEF InputSpec

\* Whatever rows a project has, the applicable one of least order decides
\* (scope.go, Evaluate; Store.List).
THEOREM LeastOrderAlwaysRules == InputSpec => []LeastOrderRule
<1>1. Distinct(input.rules) => LeastOrderRule
  BY LeastOrderAlwaysDecides DEF LeastOrderRule
<1> QED
  BY <1>1, InputInvariant, PTL

\* A sequence ends another when it is no longer and agrees with it from the
\* end.
LEMMA SuffixByPieces ==
  ASSUME NEW S, NEW s \in Seq(S), NEW t \in Seq(S)
  PROVE  IsSuffix(s, t) <=>
            /\ Len(s) <= Len(t)
            /\ \A i \in 1 .. Len(s) : s[i] = t[Len(t) - Len(s) + i]
<1> DEFINE rs == Reverse(s)
           rt == Reverse(t)
           m == Len(s)
           n == Len(t)
<1>1. /\ m \in Nat /\ n \in Nat
      /\ DOMAIN s = 1 .. m /\ DOMAIN t = 1 .. n
      /\ rs \in Seq(S) /\ Len(rs) = m /\ \A i \in 1 .. m : rs[i] = s[m - i + 1]
      /\ rt \in Seq(S) /\ Len(rt) = n /\ \A i \in 1 .. n : rt[i] = t[n - i + 1]
  BY DEF Reverse
<1>2. IsSuffix(s, t) <=> m <= n /\ SubSeq(rs, 1, m) = SubSeq(rt, 1, m)
  BY <1>1 DEF IsSuffix, IsPrefix
<1> HIDE DEF rs, rt, m, n
<1>3. ASSUME m <= n
      PROVE  SubSeq(rs, 1, m) = SubSeq(rt, 1, m) <=> \A i \in 1 .. m : rs[i] = rt[i]
  <2>1. /\ SubSeq(rs, 1, m) = [i \in 1 .. m |-> rs[i]]
        /\ SubSeq(rt, 1, m) = [i \in 1 .. m |-> rt[i]]
    BY <1>1, <1>3
  <2> QED
    BY <2>1
<1>4. ASSUME m <= n
      PROVE  (\A i \in 1 .. m : rs[i] = rt[i])
             <=> (\A i \in 1 .. m : s[i] = t[n - m + i])
  <2>1. \A i \in 1 .. m : /\ m - i + 1 \in 1 .. m
                           /\ m - (m - i + 1) + 1 = i
                           /\ n - (m - i + 1) + 1 = n - m + i
                           /\ n - m + (m - i + 1) = n - i + 1
                           /\ i \in 1 .. n
    BY <1>1, <1>4
  <2>2. ASSUME \A i \in 1 .. m : rs[i] = rt[i], NEW i \in 1 .. m
        PROVE  s[i] = t[n - m + i]
    <3> DEFINE k == m - i + 1
    <3>1. k \in 1 .. m /\ k \in 1 .. n /\ m - k + 1 = i /\ n - k + 1 = n - m + i
      BY <2>1
    <3>2. rs[k] = s[m - k + 1] /\ rt[k] = t[n - k + 1] /\ rs[k] = rt[k]
      <4> HIDE DEF k
      <4> QED
        BY <1>1, <2>2, <3>1
    <3> HIDE DEF k
    <3> QED
      BY <3>1, <3>2
  <2>3. ASSUME \A i \in 1 .. m : s[i] = t[n - m + i], NEW i \in 1 .. m
        PROVE  rs[i] = rt[i]
    <3>1. s[m - i + 1] = t[n - i + 1]
      BY <2>1, <2>3
    <3>2. rs[i] = s[m - i + 1] /\ rt[i] = t[n - i + 1]
      BY <1>1, <2>1
    <3> QED
      BY <3>1, <3>2
  <2> QED
    BY <2>2, <2>3
<1> QED
  BY <1>2, <1>3, <1>4 DEF m, n

LEMMA DotInFront ==
  ASSUME NEW S, NEW dot \in S, NEW s \in Seq(S)
  PROVE  /\ <<dot>> \o s \in Seq(S) /\ Len(<<dot>> \o s) = Len(s) + 1
         /\ (<<dot>> \o s)[1] = dot
         /\ \A i \in 1 .. Len(s) : (<<dot>> \o s)[i + 1] = s[i]
OBVIOUS

\* What is below a base is longer than it, ends in it, and has a dot in front.
LEMMA BelowByPieces ==
  ASSUME NEW S, "." \in S, NEW base \in Seq(S), NEW name \in Seq(S)
  PROVE  Below(base, name) <=>
            /\ IsSuffix(base, name)
            /\ Len(base) < Len(name) /\ name[Len(name) - Len(base)] = "."
<1> DEFINE dotted == <<".">> \o base
           m == Len(base)
           n == Len(name)
           At(i) == base[i] = name[n - m + i]
<1>1. /\ m \in Nat /\ n \in Nat
      /\ dotted \in Seq(S) /\ Len(dotted) = m + 1
      /\ dotted[1] = "." /\ \A i \in 1 .. m : dotted[i + 1] = base[i]
  <2>1. m \in Nat /\ n \in Nat
    OBVIOUS
  <2> QED
    BY <2>1, DotInFront
<1>2. Below(base, name) <=> IsSuffix(dotted, name)
  BY DEF Below
<1>3. IsSuffix(dotted, name) <=>
         m + 1 <= n /\ \A i \in 1 .. m + 1 : dotted[i] = name[n - (m + 1) + i]
  <2> HIDE DEF dotted, m, n
  <2>1. IsSuffix(dotted, name) <=>
           /\ Len(dotted) <= Len(name)
           /\ \A i \in 1 .. Len(dotted) : dotted[i] = name[Len(name) - Len(dotted) + i]
    BY <1>1, SuffixByPieces
  <2> QED
    BY <1>1, <2>1 DEF n
<1>4. IsSuffix(base, name) <=> m <= n /\ \A i \in 1 .. m : At(i)
  BY SuffixByPieces
<1>5. (\A i \in 1 .. m + 1 : dotted[i] = name[n - (m + 1) + i])
      <=> name[n - m] = "." /\ \A i \in 1 .. m : At(i)
  <2> HIDE DEF dotted, m, n
  <2>1. \A i \in 1 .. m + 1 : i = 1 \/ (i - 1 \in 1 .. m /\ i = (i - 1) + 1)
    BY <1>1
  <2>2. n - (m + 1) + 1 = n - m /\ 1 \in 1 .. m + 1
    BY <1>1
  <2>3. \A i \in 1 .. m : i + 1 \in 1 .. m + 1 /\ n - (m + 1) + (i + 1) = n - m + i
    BY <1>1
  <2>4. (\A i \in 1 .. m + 1 : dotted[i] = name[n - (m + 1) + i])
        => name[n - m] = "." /\ \A i \in 1 .. m : At(i)
    BY <1>1, <2>2, <2>3
  <2>5. ASSUME name[n - m] = ".", \A i \in 1 .. m : At(i), NEW i \in 1 .. m + 1
        PROVE  dotted[i] = name[n - (m + 1) + i]
    <3>1. CASE i = 1
      BY <1>1, <2>2, <2>5, <3>1
    <3>2. CASE i # 1
      <4>1. PICK k \in 1 .. m : i = k + 1
        BY <2>1, <3>2
      <4>2. dotted[k + 1] = base[k] /\ n - (m + 1) + (k + 1) = n - m + k /\ At(k)
        BY <1>1, <2>3, <2>5
      <4> QED
        BY <4>1, <4>2
    <3> QED
      BY <3>1, <3>2
  <2> QED
    BY <2>4, <2>5
<1> HIDE DEF At, dotted
<1> QED
  BY <1>1, <1>2, <1>3, <1>4, <1>5

\* A dns_suffix rule is a dns_exact and a dns_wildcard rule, which no name
\* satisfies both, and what it matches besides the base ends in a dot and the
\* base (scope.go:59-61, valueMatches).
THEOREM SuffixAlwaysSplits == InputSpec => []SuffixRules
<1> DEFINE Pieces == STRING \cup {"."}
<1>1. ASSUME NEW base \in Seq(Pieces), NEW target, target.identity \in Seq(Pieces)
      PROVE  SuffixSplits(base, target)
  <2> DEFINE name == target.identity
             rule(kind) == [NoRule EXCEPT !.kind = kind, !.value = base]
             Dns == target.kind = "dns_name"
  <2>1. \A kind \in Kinds : rule(kind).kind = kind /\ rule(kind).value = base
    BY DEF NoRule
  <2>2. /\ ValueMatches(rule("dns_exact"), target) <=> Dns /\ base = name
        /\ ValueMatches(rule("dns_wildcard"), target) <=> Dns /\ Below(base, name)
        /\ ValueMatches(rule("dns_suffix"), target) <=>
               Dns /\ (base = name \/ Below(base, name))
    <3> HIDE DEF rule
    <3> QED
      BY <2>1 DEF ValueMatches, Kinds
  <2>0. "." \in Pieces
    OBVIOUS
  <2> HIDE DEF Pieces
  <2>3. Below(base, name) <=>
           /\ IsSuffix(base, name)
           /\ Len(base) < Len(name) /\ name[Len(name) - Len(base)] = "."
    BY <1>1, <2>0, BelowByPieces
  <2>4. IsSuffix(base, name) <=>
           /\ Len(base) <= Len(name)
           /\ \A i \in 1 .. Len(base) : base[i] = name[Len(name) - Len(base) + i]
    BY <1>1, SuffixByPieces
  <2>5. Len(base) \in Nat /\ Len(name) \in Nat
    BY <1>1
  <2>6. base = name => IsSuffix(base, name)
    BY <2>4, <2>5
  <2>7. IsSuffix(base, name) /\ Len(base) = Len(name) => base = name
    BY <1>1, <2>4
  <2>8. ~(base = name /\ Below(base, name))
    BY <2>3, <2>5
  <2>9. base = name \/ Below(base, name) <=>
           IsSuffix(base, name) /\ (name # base => name[Len(name) - Len(base)] = ".")
    <3>1. IsSuffix(base, name) => Len(base) = Len(name) \/ Len(base) < Len(name)
      BY <2>4, <2>5
    <3> QED
      BY <2>3, <2>6, <2>7, <3>1
  <2> HIDE DEF rule, name
  <2> QED
    BY <2>2, <2>8, <2>9 DEF SuffixSplits, rule, name
<1>2. input.target \in Asked => SuffixRules
  <2>1. Seq(STRING) \subseteq Seq(Pieces)
    OBVIOUS
  <2> HIDE DEF Pieces
  <2> QED
    BY <1>1, <2>1, InputsAssumption DEF SuffixRules
<1> QED
  BY <1>2, InputInvariant, PTL

\* Two windows that meet cover what the joint one does, and nothing twice
\* (scope.go:109-118, InWindow).
THEOREM WindowsAlwaysTile == InputSpec => []WindowRules
<1>1. ASSUME NEW start \in Nat, NEW t \in Nat, NEW end \in Nat, NEW at \in Nat
      PROVE  WindowsTile(start, t, end, at)
  <2> DEFINE Within(a, b) == InWindow([NoRule EXCEPT !.start = a, !.end = b], at)
  <2>1. \A a, b : Within(a, b) <=> (a # 0 => a <= at) /\ (b # 0 => at < b)
    BY DEF InWindow, NoRule
  <2>2. WindowsTile(start, t, end, at) <=>
           (t # 0 /\ (start = 0 \/ start <= t) /\ (end = 0 \/ t <= end) =>
               /\ Within(start, end) <=> Within(start, t) \/ Within(t, end)
               /\ ~(Within(start, t) /\ Within(t, end)))
    BY DEF WindowsTile
  <2> HIDE DEF Within
  <2> QED
    BY <2>1, <2>2
<1>2. input.now \in Nat => WindowRules
  BY <1>1, InputsAssumption DEF WindowRules
<1> QED
  BY <1>2, InputInvariant, PTL

-----------------------------------------------------------------------------
(* The state of ScopeGate: rules that the create call accepts, each with an  *)
(* order of its own.                                                         *)

RulesOK == Distinct(rules) /\ \A r \in rules : Validate(r)

\* An event that is being ingested names a target.
IngestOK == \A j \in Jobs : ingest[j].pc # "idle" => ingest[j].target \in Targets

ScopeInv == ScopeTypeOK /\ RulesOK /\ IngestOK

\* What is evaluated over the rules is a verdict.
LEMMA EvaluateTyped ==
  ASSUME RulesOK, NEW t, NEW at
  PROVE  Evaluate(t, List(rules), at) \in Effects
<1>1. LeastOrderDecides(rules, t, at)
  BY LeastOrderAlwaysDecides DEF RulesOK
<1>2. \A r \in rules : r.effect \in Effects
  BY DEF RulesOK, Validate
<1>3. NoRule.effect \in Effects
  BY DEF NoRule, Effects
<1> QED
  BY <1>1, <1>2, <1>3 DEF LeastOrderDecides, Evaluate

LEMMA FaultTyped ==
  ASSUME faults \in 0 .. MaxFaults, Fault
  PROVE  faults' \in 0 .. MaxFaults
BY ScopeAssumption DEF Fault

LEMMA ScopeInvInit == Init => ScopeInv
<1> SUFFICES ASSUME Init PROVE ScopeInv
  OBVIOUS
<1>1. <<>> \in Seq(RuleRows)
  OBVIOUS
<1>2. plan \in [Runs -> [pc      : {"none", "listed", "looping", "returned", "failed"},
                          list    : Seq(RuleRows),
                          at      : 0 .. MaxTime,
                          todo    : SUBSET Pairs,
                          kept    : SUBSET Pairs,
                          dropped : SUBSET Pairs]]
  BY <1>1, ScopeAssumption DEF Init, NoPlan
<1>3. ingest \in [Jobs -> [pc     : {"idle", "allowed", "denied", "record"},
                            target : Targets \cup {None},
                            effect : Effects,
                            whole  : Effects]]
  BY DEF Init, NoIngest, Effects
<1>4. ScopeTypeOK
  BY <1>2, <1>3, ScopeAssumption DEF Init, ScopeTypeOK
<1>5. RulesOK
  BY FS_EmptySet DEF Init, RulesOK, Distinct
<1>6. IngestOK
  BY DEF Init, IngestOK, NoIngest
<1> QED
  BY <1>4, <1>5, <1>6 DEF ScopeInv

\* Only the create call adds a rule, with an order that no other has.
LEMMA RulesStep ==
  ASSUME ScopeInv, [Next]_vars
  PROVE  RulesOK' /\ rules' \in SUBSET RuleRows
<1> USE DEF ScopeInv, ScopeTypeOK, RulesOK
<1>1. ASSUME NEW x \in RuleRows, CreateRule(x)
      PROVE  RulesOK' /\ rules' \in SUBSET RuleRows
  <2>1. IsFiniteSet(rules \cup {x})
    BY FS_AddElement DEF Distinct
  <2> QED
    BY <1>1, <2>1, ScopeAssumption DEF CreateRule, Distinct
<1>2. ASSUME NEW x \in RuleRows, DeleteRule(x)
      PROVE  RulesOK' /\ rules' \in SUBSET RuleRows
  <2>1. IsFiniteSet(rules \ {x})
    BY FS_Subset DEF Distinct
  <2> QED
    BY <1>2, <2>1 DEF DeleteRule, Distinct
<1>3. rules' = rules \/ \E x \in RuleRows : CreateRule(x) \/ DeleteRule(x)
  BY DEF Next, vars, scopeVars, Tick, PlanList, PlanBegin, PlanFail, PlanReturn, PlanKeep,
         PlanDrop, StartJob, RecordFinding, IngestAllowed, IngestDenied, RecordTarget,
         EmitTarget, Quarantine
<1>4. CASE rules' = rules
  BY <1>4
<1> QED
  BY <1>1, <1>2, <1>3, <1>4

\* Only RecordTarget ends an ingestion, and only EmitTarget begins one.
LEMMA IngestStep ==
  ASSUME ScopeInv, [Next]_vars
  PROVE  IngestOK'
<1> USE DEF ScopeInv, ScopeTypeOK, IngestOK
<1>1. CASE ingest' = ingest
  BY <1>1
<1>2. ASSUME NEW j \in Jobs, NEW t \in Targets, NEW named \in BOOLEAN,
             EmitTarget(j, t, named)
      PROVE  IngestOK'
  <2>1. PICK e :
           ingest' = [ingest EXCEPT ![j] =
              [pc |-> IF e = "allow" THEN "allowed" ELSE "denied",
               target |-> t, effect |-> e, whole |-> Evaluate(t, List(rules), now)]]
    BY <1>2 DEF EmitTarget
  <2>2. ingest'[j].target = t /\ \A k \in Jobs : k # j => ingest'[k] = ingest[k]
    BY <2>1
  <2> QED
    BY <2>2
<1>3. ASSUME NEW j \in Jobs, IngestAllowed(j) \/ IngestDenied(j) PROVE IngestOK'
  <2>1. ingest[j].pc # "idle" /\ ingest' = [ingest EXCEPT ![j].pc = "record"]
    BY <1>3 DEF IngestAllowed, IngestDenied
  <2>2. \A k \in Jobs :
           ingest'[k].target = ingest[k].target /\ (k # j => ingest'[k] = ingest[k])
    BY <2>1
  <2> QED
    BY <2>1, <2>2
<1>4. ASSUME NEW j \in Jobs, RecordTarget(j) PROVE IngestOK'
  BY <1>4 DEF RecordTarget, NoIngest
<1>5. \/ ingest' = ingest
      \/ \E j \in Jobs :
            \/ IngestAllowed(j) \/ IngestDenied(j) \/ RecordTarget(j)
            \/ \E t \in Targets, named \in BOOLEAN : EmitTarget(j, t, named)
  BY DEF Next, vars, ingestVars, Tick, CreateRule, DeleteRule, PlanList, PlanBegin, PlanFail,
         PlanReturn, PlanKeep, PlanDrop, StartJob, RecordFinding, Quarantine
<1> QED
  BY <1>1, <1>2, <1>3, <1>4, <1>5

PlanRows(lists, times) ==
    [pc   : {"none", "listed", "looping", "returned", "failed"},
     list : lists, at : times,
     todo : SUBSET Pairs, kept : SUBSET Pairs, dropped : SUBSET Pairs]

\* A Plan call keeps the rows it has listed and the moment it has read.
LEMMA PlanRowsStep ==
  ASSUME NEW lists, NEW times, plan \in [Runs -> PlanRows(lists, times)],
         List(rules) \in lists, now \in times, NEW r \in Runs,
         \/ PlanList(r) \/ PlanBegin(r) \/ PlanFail(r) \/ PlanReturn(r)
         \/ \E p \in Pairs : PlanKeep(r, p) \/ PlanDrop(r, p)
  PROVE  plan' \in [Runs -> PlanRows(lists, times)]
<1> DEFINE row == plan[r]
           Row == PlanRows(lists, times)
           Moved(s) == plan' = [plan EXCEPT ![r] = s]
<1>0. plan \in [Runs -> Row] /\ row \in Row
  OBVIOUS
<1>1. ASSUME NEW s \in Row, Moved(s) PROVE plan' \in [Runs -> Row]
  <2> HIDE DEF Row
  <2> QED
    BY <1>0, <1>1
<1>2. CASE PlanList(r)
  <2> DEFINE s == [row EXCEPT !.pc = "listed", !.list = List(rules)]
  <2>1. Moved(s)
    BY <1>2 DEF PlanList
  <2>2. s \in Row
    BY <1>0 DEF PlanRows
  <2> QED
    BY <1>1, <2>1, <2>2
<1>3. CASE PlanBegin(r)
  <2> DEFINE s == [row EXCEPT !.pc = "looping", !.at = now, !.todo = Pairs]
  <2>1. Moved(s)
    BY <1>3 DEF PlanBegin
  <2>2. s \in Row
    BY <1>0 DEF PlanRows
  <2> QED
    BY <1>1, <2>1, <2>2
<1>4. CASE PlanFail(r) \/ PlanReturn(r)
  <2>1. PICK pc \in {"failed", "returned"} : Moved([row EXCEPT !.pc = pc])
    BY <1>4 DEF PlanFail, PlanReturn
  <2>2. [row EXCEPT !.pc = pc] \in Row
    BY <1>0 DEF PlanRows
  <2> QED
    BY <1>1, <2>1, <2>2
<1>5. ASSUME NEW p \in Pairs, PlanKeep(r, p) PROVE plan' \in [Runs -> Row]
  <2> DEFINE s == [row EXCEPT !.todo = @ \ {p}, !.kept = @ \cup {p}]
  <2>1. Moved(s)
    BY <1>5 DEF PlanKeep
  <2>2. s \in Row
    BY <1>0 DEF PlanRows
  <2> QED
    BY <1>1, <2>1, <2>2
<1>6. ASSUME NEW p \in Pairs, PlanDrop(r, p) PROVE plan' \in [Runs -> Row]
  <2> DEFINE s == [row EXCEPT !.todo = @ \ {p}, !.dropped = @ \cup {p}]
  <2>1. Moved(s)
    BY <1>6 DEF PlanDrop
  <2>2. s \in Row
    BY <1>0 DEF PlanRows
  <2> QED
    BY <1>1, <2>1, <2>2
<1> QED
  BY <1>2, <1>3, <1>4, <1>5, <1>6

LEMMA ScopeInvStep == ScopeInv /\ [Next]_vars => ScopeInv'
<1> SUFFICES ASSUME ScopeInv, [Next]_vars PROVE ScopeInv'
  OBVIOUS
<1>1. RulesOK' /\ rules' \in SUBSET RuleRows
  BY RulesStep
<1>2. \A x, y \in rules' : x.order = y.order => x = y
  BY <1>1 DEF RulesOK, Distinct
<1> SUFFICES ScopeTypeOK'
  BY <1>1, IngestStep DEF ScopeInv
<1>3. ScopeTypeOK /\ RulesOK /\ IngestOK /\ faults \in 0 .. MaxFaults
  BY DEF ScopeInv, ScopeTypeOK
<1> HIDE DEF ScopeInv
<1> USE <1>1, <1>2, <1>3 DEF ScopeTypeOK
<1>4. CASE UNCHANGED vars
  BY <1>4 DEF vars, scopeVars, planVars, ingestVars
<1>5. CASE Tick
  BY <1>5, ScopeAssumption DEF Tick, planVars, ingestVars
<1>6. ASSUME NEW x \in RuleRows, CreateRule(x) \/ DeleteRule(x)
      PROVE  ScopeTypeOK'
  BY <1>6 DEF CreateRule, DeleteRule, planVars, ingestVars
<1>7. ASSUME NEW r \in Runs,
             \/ PlanList(r) \/ PlanBegin(r) \/ PlanFail(r) \/ PlanReturn(r)
             \/ \E p \in Pairs : PlanKeep(r, p) \/ PlanDrop(r, p)
      PROVE  ScopeTypeOK'
  <2>1. plan' \in [Runs -> PlanRows(Seq(RuleRows), 0 .. MaxTime)]
    <3>1. List(rules) \in Seq(RuleRows)
      BY ListIsSorted DEF RulesOK
    <3> QED
      BY <1>7, <3>1, PlanRowsStep DEF PlanRows
  <2>2. job' \in [Jobs -> {"absent", "queued", "running"}]
    BY <1>7 DEF PlanList, PlanBegin, PlanFail, PlanReturn, PlanKeep, PlanDrop
  <2>3. faults' \in 0 .. MaxFaults
    BY <1>7, FaultTyped DEF PlanList, PlanBegin, PlanFail, PlanReturn, PlanKeep, PlanDrop
  <2>4. now' = now /\ UNCHANGED ingestVars
    BY <1>7 DEF PlanList, PlanBegin, PlanFail, PlanReturn, PlanKeep, PlanDrop, scopeVars
  <2> QED
    BY <2>1, <2>2, <2>3, <2>4 DEF PlanRows, ingestVars
<1>8. ASSUME NEW j \in Jobs, StartJob(j) PROVE ScopeTypeOK'
  BY <1>8 DEF StartJob, scopeVars, ingestVars
<1>9. ASSUME NEW j \in Jobs, RecordFinding(j) PROVE ScopeTypeOK'
  BY <1>9 DEF RecordFinding, scopeVars, planVars
<1>10. ASSUME NEW j \in Jobs, NEW claim \in Targets \cup {Other}, Quarantine(j, claim)
       PROVE  ScopeTypeOK'
  <2>1. faults' \in 0 .. MaxFaults
    BY <1>10, FaultTyped DEF Quarantine, AppendOrLose
  <2> QED
    BY <1>10, <2>1 DEF Quarantine, scopeVars, planVars, ingestVars
<1>11. ASSUME NEW j \in Jobs, NEW t \in Targets, NEW named \in BOOLEAN,
              EmitTarget(j, t, named)
       PROVE  ScopeTypeOK'
  <2>1. /\ Evaluate(Discovered(t, named), List(rules), now) \in Effects
        /\ Evaluate(t, List(rules), now) \in Effects
    BY EvaluateTyped
  <2> HIDE DEF Evaluate, List
  <2> QED
    BY <1>11, <2>1 DEF EmitTarget, scopeVars, planVars
<1>12. ASSUME NEW j \in Jobs, IngestAllowed(j) PROVE ScopeTypeOK'
  <2>1. faults' \in 0 .. MaxFaults
    BY <1>12, FaultTyped DEF IngestAllowed
  <2>2. targets' \in SUBSET Targets
    BY <1>12 DEF IngestAllowed, IngestOK
  <2> QED
    BY <1>12, <2>1, <2>2 DEF IngestAllowed, scopeVars, planVars
<1>13. ASSUME NEW j \in Jobs, IngestDenied(j) PROVE ScopeTypeOK'
  <2>1. faults' \in 0 .. MaxFaults
    BY <1>13, FaultTyped DEF IngestDenied, AppendOrLose
  <2> QED
    BY <1>13, <2>1 DEF IngestDenied, scopeVars, planVars
<1>14. ASSUME NEW j \in Jobs, RecordTarget(j) PROVE ScopeTypeOK'
  BY <1>14 DEF RecordTarget, NoIngest, Effects, scopeVars, planVars
<1> QED
  BY <1>4, <1>5, <1>6, <1>7, <1>8, <1>9, <1>10, <1>11, <1>12, <1>13, <1>14 DEF Next

LEMMA ScopeInvariant == Spec => []ScopeInv
BY ScopeInvInit, ScopeInvStep, PTL DEF Spec

\* The rules, the plans, the jobs and what is being ingested keep their types,
\* and no two rules share an order (Store.Create, Planner.Plan, Pool.execute).
THEOREM ScopeTypeCorrect == Spec => []ScopeTypeOK
BY ScopeInvariant, PTL DEF ScopeInv

\* Two sets of rules that agree on the one that decides in both.
LEMMA SameDecides ==
  ASSUME NEW R, NEW S, Distinct(R), Distinct(S), NEW t, NEW at,
         Deciding(t, List(R), at) = NoRule \/ Deciding(t, List(R), at) \in S,
         Deciding(t, List(S), at) = NoRule \/ Deciding(t, List(S), at) \in R
  PROVE  Deciding(t, List(R), at) = Deciding(t, List(S), at)
<1> DEFINE before == Deciding(t, List(R), at)
           after == Deciding(t, List(S), at)
<1>1. /\ before = NoRule <=> ~\E r \in R : Applies(r, t, at)
      /\ before # NoRule => /\ before \in R /\ Applies(before, t, at)
                            /\ \A r \in R : r.order < before.order => ~Applies(r, t, at)
  BY LeastOrderAlwaysDecides DEF LeastOrderDecides
<1>2. /\ after = NoRule <=> ~\E r \in S : Applies(r, t, at)
      /\ after # NoRule => /\ after \in S /\ Applies(after, t, at)
                           /\ \A r \in S : r.order < after.order => ~Applies(r, t, at)
  BY LeastOrderAlwaysDecides DEF LeastOrderDecides
<1> HIDE DEF before, after
<1>3. (before = NoRule \/ before \in S) /\ (after = NoRule \/ after \in R)
  BY DEF before, after
<1>4. before = NoRule <=> after = NoRule
  BY <1>1, <1>2, <1>3
<1>5. CASE before # NoRule
  <2>1. before \in R /\ after \in R /\ before.order \in Int /\ after.order \in Int
    BY <1>1, <1>3, <1>4, <1>5 DEF Distinct
  <2>2. before.order = after.order => before = after
    BY <2>1 DEF Distinct
  <2>3. ~(before.order < after.order) /\ ~(after.order < before.order)
    BY <1>1, <1>2, <1>3, <1>4, <1>5
  <2>4. before = after
    BY <2>1, <2>2, <2>3
  <2> QED
    BY <2>4 DEF before, after
<1> QED
  BY <1>4, <1>5 DEF before, after

\* A rule that is added decides itself, or what decided before it still does
\* (Store.Create, Evaluate).
LEMMA AddedRuleDecides ==
  ASSUME NEW R, NEW x, NEW S, S = R \cup {x}, Distinct(S), NEW t, NEW at
  PROVE  \/ Deciding(t, List(S), at) = Deciding(t, List(R), at)
         \/ Deciding(t, List(S), at) = x
<1> DEFINE before == Deciding(t, List(R), at)
           after == Deciding(t, List(S), at)
<1>1. Distinct(R) /\ Distinct(S)
  BY FS_Subset DEF Distinct
<1>2. before = NoRule \/ before \in S
  BY <1>1, LeastOrderAlwaysDecides DEF LeastOrderDecides
<1>3. after = NoRule \/ after \in S
  BY <1>1, LeastOrderAlwaysDecides DEF LeastOrderDecides
<1>4. CASE after # x
  <2> HIDE DEF before, after
  <2>1. after = NoRule \/ after \in R
    BY <1>3, <1>4
  <2> QED
    BY <1>1, <1>2, <2>1, SameDecides DEF before, after
<1> QED
  BY <1>4

\* Rules are safe to roll out one by one, at any place of the order and not
\* only behind the others (scope_test.go:233): a deny rule lets nothing in, an
\* allow rule shuts nothing out, and only a deny rule makes a denial.
THEOREM RulesMonotonic ==
  ASSUME NEW R, NEW x, NEW S, S = R \cup {x}, Distinct(S), NEW t, NEW at
  PROVE  LET before == Evaluate(t, List(R), at)
             after == Evaluate(t, List(S), at)
         IN  /\ x.effect = "deny" /\ after = "allow" => before = "allow"
             /\ x.effect = "allow" /\ before = "allow" => after = "allow"
             /\ x.effect # "deny" /\ after = "deny" => before = "deny"
<1> DEFINE before == Deciding(t, List(R), at)
           after == Deciding(t, List(S), at)
<1>1. after = before \/ after = x
  BY AddedRuleDecides
<1> HIDE DEF before, after
<1>2. after.effect = before.effect \/ after.effect = x.effect
  BY <1>1
<1> QED
  BY <1>2 DEF Evaluate, before, after

\* An edit of the rules changes a verdict only through the rule that is
\* edited, for any rules, targets and windows (Store.Create, Store.Delete,
\* Evaluate).
THEOREM VerdictAlwaysFramed == Spec => VerdictFramed
<1> DEFINE Framed ==
      rules' # rules /\ now' = now =>
         \A t \in Targets :
            LET before == Deciding(t, List(rules), now)
                after == Deciding(t, List(rules'), now)
            IN  before # after =>
                   \/ before \in rules \ rules'
                   \/ after \in rules' \ rules
                      /\ (before \in rules => after.order < before.order)
<1>1. ScopeInv /\ ScopeInv' /\ [Next]_vars => [Framed]_vars
  <2> SUFFICES ASSUME ScopeInv, ScopeInv', NEW t \in Targets,
                      Deciding(t, List(rules), now) # Deciding(t, List(rules'), now),
                      Deciding(t, List(rules), now) \notin rules \ rules'
               PROVE  LET before == Deciding(t, List(rules), now)
                          after == Deciding(t, List(rules'), now)
                      IN  after \in rules' \ rules
                          /\ (before \in rules => after.order < before.order)
    OBVIOUS
  <2> DEFINE before == Deciding(t, List(rules), now)
             after == Deciding(t, List(rules'), now)
  <2>1. Distinct(rules) /\ Distinct(rules')
    BY DEF ScopeInv, RulesOK
  <2>2. /\ before = NoRule <=> ~\E r \in rules : Applies(r, t, now)
        /\ before # NoRule => /\ before \in rules /\ Applies(before, t, now)
                              /\ \A r \in rules : r.order < before.order => ~Applies(r, t, now)
    BY <2>1, LeastOrderAlwaysDecides DEF LeastOrderDecides
  <2>3. /\ after = NoRule <=> ~\E r \in rules' : Applies(r, t, now)
        /\ after # NoRule => /\ after \in rules' /\ Applies(after, t, now)
                             /\ \A r \in rules' : r.order < after.order => ~Applies(r, t, now)
    BY <2>1, LeastOrderAlwaysDecides DEF LeastOrderDecides
  <2>4. after \in rules' \ rules
    BY <2>1, <2>2, <2>3, SameDecides
  <2> HIDE DEF before, after
  <2>5. ASSUME before \in rules PROVE after.order < before.order
    <3>1. before \in rules' /\ before.order \in Int /\ after.order \in Int /\ before # after
      BY <2>1, <2>4, <2>5 DEF Distinct, before, after
    <3>2. before # NoRule /\ after # NoRule
      BY <2>4, <2>5 DEF ScopeInv, RulesOK, Validate, NoRule, Kinds
    <3>3. ~(before.order < after.order)
      BY <2>2, <2>3, <3>1, <3>2
    <3>4. before.order # after.order
      BY <2>1, <2>4, <3>1 DEF Distinct
    <3> QED
      BY <3>1, <3>3, <3>4
  <2> QED
    BY <2>4, <2>5 DEF before, after
<1> QED
  BY <1>1, ScopeInvariant, PTL DEF Spec, VerdictFramed

-----------------------------------------------------------------------------
(* Planner.Plan: the snapshot of the rules and of the clock settles every   *)
(* pair the call handles, and each handled pair leaves a job or a record.   *)

\* What one run's Plan call has done, and has recorded.
PlanOK(r) ==
    /\ plan[r].pc \in {"none", "listed"} =>
          plan[r].kept = {} /\ plan[r].dropped = {}
    /\ plan[r].pc \in {"looping", "returned"} =>
          Pairs \subseteq plan[r].todo \cup plan[r].kept \cup plan[r].dropped
    /\ plan[r].pc = "returned" => plan[r].todo = {}
    /\ \A p \in plan[r].kept :
          Planned(r, p[2]).effect = "allow" /\ job[<<r, p>>] # "absent"
    /\ \A p \in plan[r].dropped :
          Planned(r, p[2]).effect # "allow" /\ DropEvent(r, p) \in trail

PlanInv == ScopeInv /\ \A r \in Runs : PlanOK(r)

\* Whatever leaves the Plan call of r alone keeps what it has recorded.
LEMMA PlanOKFramed ==
  ASSUME NEW r \in Runs, ScopeTypeOK, PlanOK(r), plan'[r] = plan[r],
         trail \subseteq trail',
         \A j \in Jobs : job[j] # "absent" => job'[j] # "absent"
  PROVE  PlanOK(r)'
<1>1. \A p \in plan[r].kept : <<r, p>> \in Jobs
  BY DEF ScopeTypeOK, Jobs
<1> QED
  BY <1>1 DEF PlanOK, Planned, DropEvent

LEMMA PlanInvStep == PlanInv /\ [Next]_vars => PlanInv'
<1> SUFFICES ASSUME PlanInv, [Next]_vars, NEW r \in Runs PROVE PlanOK(r)'
  BY ScopeInvStep DEF PlanInv
<1>1. ScopeTypeOK /\ PlanOK(r)
  BY DEF PlanInv, ScopeInv
<1>2. CASE plan' = plan
  <2>1. trail \subseteq trail' /\ \A j \in Jobs : job[j] # "absent" => job'[j] # "absent"
    <3>1. CASE UNCHANGED vars
      BY <3>1 DEF vars, planVars
    <3>2. CASE Tick \/ \E x \in RuleRows : CreateRule(x) \/ DeleteRule(x)
      BY <3>2 DEF Tick, CreateRule, DeleteRule, planVars
    <3>3. CASE \E s \in Runs : PlanList(s) \/ PlanBegin(s) \/ PlanFail(s) \/ PlanReturn(s)
      BY <3>3 DEF PlanList, PlanBegin, PlanFail, PlanReturn
    <3>4. CASE \E s \in Runs, p \in Pairs : PlanKeep(s, p) \/ PlanDrop(s, p)
      BY <1>1, <3>4 DEF PlanKeep, PlanDrop, ScopeTypeOK
    <3>5. CASE \E j \in Jobs : StartJob(j)
      BY <1>1, <3>5 DEF StartJob, ScopeTypeOK
    <3>6. CASE \E j \in Jobs :
                  \/ RecordFinding(j) \/ IngestAllowed(j) \/ IngestDenied(j)
                  \/ RecordTarget(j)
                  \/ \E t \in Targets, named \in BOOLEAN : EmitTarget(j, t, named)
                  \/ \E claim \in Targets \cup {Other} : Quarantine(j, claim)
      BY <3>6 DEF RecordFinding, IngestAllowed, IngestDenied, RecordTarget,
                  EmitTarget, Quarantine, AppendOrLose, planVars
    <3> QED
      BY <3>1, <3>2, <3>3, <3>4, <3>5, <3>6 DEF Next
  <2> QED
    BY <1>1, <1>2, <2>1, PlanOKFramed
<1>3. ASSUME NEW s \in Runs, PlanList(s) \/ PlanBegin(s) \/ PlanFail(s) \/ PlanReturn(s)
      PROVE  PlanOK(r)'
  <2>1. CASE r # s
    BY <1>1, <1>3, <2>1, PlanOKFramed
       DEF PlanList, PlanBegin, PlanFail, PlanReturn, ScopeTypeOK
  <2>2. CASE r = s
    <3> USE DEF ScopeTypeOK, PlanOK, Planned, DropEvent
    <3>1. CASE PlanList(r)
      BY <1>1, <3>1 DEF PlanList
    <3>2. CASE PlanBegin(r)
      BY <1>1, <3>2 DEF PlanBegin
    <3>3. CASE PlanFail(r)
      BY <1>1, <3>3 DEF PlanFail
    <3>4. CASE PlanReturn(r)
      BY <1>1, <3>4 DEF PlanReturn
    <3> QED
      BY <1>3, <2>2, <3>1, <3>2, <3>3, <3>4
  <2> QED
    BY <2>1, <2>2
<1>4. ASSUME NEW s \in Runs, NEW p \in Pairs, PlanKeep(s, p)
      PROVE  PlanOK(r)'
  <2>1. CASE r # s
    BY <1>1, <1>4, <2>1, PlanOKFramed DEF PlanKeep, ScopeTypeOK
  <2>2. CASE r = s
    <3>1. <<r, p>> \in Jobs /\ \A q \in Pairs : <<r, q>> \in Jobs
      BY DEF Jobs
    <3> QED
      BY <1>1, <1>4, <2>2, <3>1 DEF PlanKeep, ScopeTypeOK, PlanOK, Planned, DropEvent
  <2> QED
    BY <2>1, <2>2
<1>5. ASSUME NEW s \in Runs, NEW p \in Pairs, PlanDrop(s, p)
      PROVE  PlanOK(r)'
  <2>1. CASE r # s
    BY <1>1, <1>5, <2>1, PlanOKFramed DEF PlanDrop, ScopeTypeOK
  <2>2. CASE r = s
    BY <1>1, <1>5, <2>2 DEF PlanDrop, ScopeTypeOK, PlanOK, Planned, DropEvent
  <2> QED
    BY <2>1, <2>2
<1>6. CASE \/ UNCHANGED vars \/ Tick
           \/ \E x \in RuleRows : CreateRule(x) \/ DeleteRule(x)
           \/ \E j \in Jobs :
                 \/ StartJob(j) \/ RecordFinding(j)
                 \/ IngestAllowed(j) \/ IngestDenied(j) \/ RecordTarget(j)
                 \/ \E t \in Targets, named \in BOOLEAN : EmitTarget(j, t, named)
                 \/ \E claim \in Targets \cup {Other} : Quarantine(j, claim)
  <2>1. plan' = plan
    BY <1>6 DEF vars, Tick, CreateRule, DeleteRule, StartJob, RecordFinding,
                IngestAllowed, IngestDenied, RecordTarget, EmitTarget,
                Quarantine, planVars
  <2> QED
    BY <1>2, <2>1
<1> QED
  BY <1>3, <1>4, <1>5, <1>6 DEF Next

LEMMA PlanInvInit == Init => PlanInv
<1>1. Init => \A r \in Runs : PlanOK(r)
  BY DEF Init, PlanOK, NoPlan
<1> QED
  BY <1>1, ScopeInvInit DEF PlanInv

\* The capabilities of a run get the same verdict on a target, whatever
\* happens to the rules and the clock while it is planned.
THEOREM OneVerdictAlways == Spec => []OneVerdictPerTarget
<1>1. PlanInv => OneVerdictPerTarget
  BY DEF PlanInv, PlanOK, OneVerdictPerTarget
<1> QED
  BY <1>1, PlanInvInit, PlanInvStep, PTL DEF Spec

\* A Plan that returns has turned every pair it was asked for into a job or
\* into an audit record of the drop.
THEOREM PlanAlwaysAccounts == Spec => []PlanAccounts
<1>1. PlanInv => PlanAccounts
  BY DEF PlanInv, PlanOK, PlanAccounts
<1> QED
  BY <1>1, PlanInvInit, PlanInvStep, PTL DEF Spec
=============================================================================
