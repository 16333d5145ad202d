---------------------------- MODULE BuiltinProofs ----------------------------
(* What one execution of a built-in collector guarantees, for every job,    *)
(* every set of ports, every concurrency and every number of refused        *)
(* statements.                                                              *)
EXTENDS Builtin, FiniteSetTheorems, TLAPS

-----------------------------------------------------------------------------
(* sort.Ints and the least number of a set. *)

Smaller(S, x) == {y \in S : y < x}

\* How many numbers of a set are below one of them: this grows with it.
LEMMA RankGrows ==
  ASSUME NEW S \in SUBSET Int, IsFiniteSet(S), NEW x \in S, NEW y \in S, x < y
  PROVE  Cardinality(Smaller(S, x)) < Cardinality(Smaller(S, y))
<1>1. Smaller(S, x) \subseteq Smaller(S, y) /\ x \in Smaller(S, y) /\ x \notin Smaller(S, x)
  <2>1. x \in Int /\ y \in Int
    OBVIOUS
  <2>2. ASSUME NEW z \in S, z < x PROVE z < y
    <3>1. z \in Int
      OBVIOUS
    <3> QED
      BY <2>1, <2>2, <3>1
  <2>3. ~(x < x)
    BY <2>1
  <2> QED
    BY <2>2, <2>3 DEF Smaller
<1>2. IsFiniteSet(Smaller(S, y))
  <2>1. Smaller(S, y) \in SUBSET S
    BY DEF Smaller
  <2> QED
    BY <2>1, FS_Subset
<1>3. Cardinality(Smaller(S, y)) \in Nat /\ Cardinality(Smaller(S, x)) \in Nat
  BY <1>1, <1>2, FS_Subset, FS_CardinalityType
<1> QED
  BY <1>1, <1>2, <1>3, FS_Subset

\* Each place of the sorted slice belongs to a number.
LEMMA EveryRankTaken ==
  ASSUME NEW S \in SUBSET Int, IsFiniteSet(S)
  PROVE  /\ \A i \in 1 .. Cardinality(S) : \E x \in S : Cardinality(Smaller(S, x)) = i - 1
         /\ \A x \in S : Cardinality(Smaller(S, x)) + 1 \in 1 .. Cardinality(S)
         /\ \A x, y \in S : Cardinality(Smaller(S, x)) = Cardinality(Smaller(S, y)) => x = y
<1> DEFINE n == Cardinality(S)
           rank == [x \in S |-> Cardinality(Smaller(S, x))]
<1>1. n \in Nat
  BY FS_CardinalityType
<1>2. \A x \in S : rank[x] \in 0 .. n - 1
  <2> SUFFICES ASSUME NEW x \in S PROVE Cardinality(Smaller(S, x)) \in 0 .. n - 1
    OBVIOUS
  <2>1. Smaller(S, x) \subseteq S /\ x \notin Smaller(S, x)
    BY DEF Smaller
  <2>2. Cardinality(Smaller(S, x)) \in Nat /\ Cardinality(Smaller(S, x)) < n
    BY <1>1, <2>1, FS_Subset, FS_CardinalityType
  <2> QED
    BY <1>1, <2>2
<1>3. \A x, y \in S : rank[x] = rank[y] => x = y
  <2> SUFFICES ASSUME NEW x \in S, NEW y \in S, rank[x] = rank[y], x # y PROVE FALSE
    OBVIOUS
  <2>1. rank[x] < rank[y] \/ rank[y] < rank[x]
    BY RankGrows
  <2>2. rank[x] \in Int /\ rank[y] \in Int
    BY <1>2
  <2> HIDE DEF rank
  <2> QED
    BY <2>1, <2>2
<1>4. rank \in Injection(S, 0 .. n - 1)
  BY <1>2, <1>3 DEF Injection, IsInjective
<1>5. IsFiniteSet(0 .. n - 1) /\ Cardinality(0 .. n - 1) = n
  BY <1>1, FS_Interval
<1>6. rank \in Surjection(S, 0 .. n - 1)
  BY <1>4, <1>5, FS_Injection
<1>7. \A k \in 0 .. n - 1 : \E x \in S : rank[x] = k
  BY <1>6 DEF Surjection
<1>8. \A i \in 1 .. n : i - 1 \in 0 .. n - 1
  BY <1>1
<1> QED
  BY <1>1, <1>2, <1>3, <1>7, <1>8

\* The sorted slice holds every number of the set, and no other.
LEMMA AscendingHoldsAll ==
  ASSUME NEW S \in SUBSET Int, IsFiniteSet(S)
  PROVE  /\ Ascending(S) \in Seq(S)
         /\ \A x \in S : \E i \in 1 .. Len(Ascending(S)) : Ascending(S)[i] = x
<1> DEFINE n == Cardinality(S)
           Rank(x) == Cardinality(Smaller(S, x))
           list == Ascending(S)
<1>1. n \in Nat
  BY FS_CardinalityType
<1>2. list = [i \in 1 .. n |-> CHOOSE x \in S : Rank(x) = i - 1]
  BY DEF Ascending, Smaller
<1>3. /\ \A i \in 1 .. n : \E x \in S : Rank(x) = i - 1
      /\ \A x \in S : Rank(x) + 1 \in 1 .. n
      /\ \A x, y \in S : Rank(x) = Rank(y) => x = y
      /\ \A x \in S : Rank(x) \in Int
  <2>1. \A x \in S : Rank(x) \in Nat
    BY FS_Subset, FS_CardinalityType DEF Smaller
  <2> QED
    BY <2>1, EveryRankTaken
<1> HIDE DEF n, Rank, list
<1>4. \A i \in 1 .. n : list[i] \in S /\ Rank(list[i]) = i - 1
  <2> SUFFICES ASSUME NEW i \in 1 .. n PROVE list[i] \in S /\ Rank(list[i]) = i - 1
    OBVIOUS
  <2>1. \E x \in S : Rank(x) = i - 1
    BY <1>3
  <2>2. list[i] = CHOOSE x \in S : Rank(x) = i - 1
    BY <1>2
  <2> QED
    BY <2>1, <2>2
<1>5. list \in Seq(S) /\ Len(list) = n
  BY <1>1, <1>2, <1>4
<1>6. ASSUME NEW x \in S PROVE \E i \in 1 .. n : list[i] = x
  <2>1. list[Rank(x) + 1] \in S /\ Rank(list[Rank(x) + 1]) = Rank(x)
    BY <1>3, <1>4
  <2> QED
    BY <1>3, <2>1
<1> QED
  BY <1>5, <1>6 DEF list

\* The port the loop takes next is one that is left.
LEMMA MinIsLeft ==
  ASSUME NEW S \in SUBSET Int, IsFiniteSet(S), S # {}
  PROVE  Min(S) \in S
<1>1. 1 \in 1 .. Cardinality(S)
  BY FS_CardinalityType, FS_EmptySet
<1>2. PICK x \in S : Cardinality(Smaller(S, x)) = 0
  BY <1>1, EveryRankTaken
<1>3. Smaller(S, x) = {}
  BY <1>2, FS_Subset, FS_EmptySet DEF Smaller
<1>4. \A y \in S : x <= y
  BY <1>3 DEF Smaller
<1> QED
  BY <1>4 DEF Min

-----------------------------------------------------------------------------
(* The ports and the probes of a job. *)

LEMMA PortsAreProbes ==
  ASSUME job \in Configs, job.name = "porttcp", PortsOK(job.ports)
  PROVE  /\ PortsOf(job.ports) \subseteq Probes
         /\ PortsOf(job.ports) \in SUBSET (1 .. MaxPort)
         /\ IsFiniteSet(PortsOf(job.ports))
<1>1. PortsOf(job.ports) \in SUBSET (1 .. MaxPort)
  <2>1. \A t \in job.ports : t.lo \in Int /\ t.hi \in Int /\ 1 <= t.lo /\ t.hi <= MaxPort
    BY BuiltinAssumption DEF PortsOK
  <2>2. ASSUME NEW x \in PortsOf(job.ports) PROVE x \in 1 .. MaxPort
    <3>1. PICK t \in job.ports : x \in t.lo .. t.hi
      BY DEF PortsOf
    <3> QED
      BY <2>1, <3>1, BuiltinAssumption
  <2> QED
    BY <2>2
<1>2. IsFiniteSet(1 .. MaxPort)
  BY FS_Interval, BuiltinAssumption
<1>3. PortsOf(job.ports) \subseteq Probes
  BY DEF Probes, PortsOf
<1> QED
  BY <1>1, <1>2, <1>3, FS_Subset

LEMMA ProbesTyped == Probes \subseteq Int \cup Lookups /\ Lookups \subseteq Probes
BY DEF Probes, PortsOf

LEMMA EventsTyped ==
  /\ Log \in Events
  /\ \A s \in Labels : Artifact(s) \in Events
  /\ \A k \in Keys, r \in SUBSET Labels : Finding(k, r) \in Events
  /\ \A K \in SUBSET Keys : Done(K) \in Events
BY DEF Events, Log, Artifact, Finding, Done

LEMMA KeysTyped ==
  /\ \A s \in KeyKinds, x \in Int \cup Lookups : <<s, x>> \in Keys
  /\ \A chain \in Chains : \A i \in 1 .. Len(chain) : <<"cert", chain[i].serial>> \in Keys
  /\ \A x \in Probes : Key(x) \in Keys
<1>1. \A s \in KeyKinds, x \in Int \cup Lookups : <<s, x>> \in Keys
  BY DEF Keys
<1>2. \A x \in Probes : Key(x) \in Keys
  <2>1. \A x \in Probes : x \in Int \cup Lookups
    BY ProbesTyped
  <2>2. "dns" \in KeyKinds /\ "open" \in KeyKinds
    BY DEF KeyKinds
  <2> QED
    BY <1>1, <2>1, <2>2 DEF Key
<1>3. ASSUME NEW chain \in Chains, NEW i \in 1 .. Len(chain)
      PROVE  <<"cert", chain[i].serial>> \in Keys
  <2>1. chain[i] \in {chain[k] : k \in 1 .. Len(chain)}
    OBVIOUS
  <2>2. chain[i] \in Certificates
    BY <2>1 DEF Certificates
  <2> QED
    BY <2>2 DEF Keys, KeyKinds
<1> QED
  BY <1>1, <1>2, <1>3

-----------------------------------------------------------------------------
(* The inductive invariant. *)

\* Each collector has its own steps, and a scan has ports it may dial.
Phase ==
    /\ job.name = "porttcp" =>
          /\ pc \in {"start", "scan", "slot", "report"}
          /\ pc # "start" => PortsOK(job.ports)
    /\ job.name = "dns" => pc \in {"start", "resolve", "gather", "report"}
    /\ job.name \notin {"porttcp", "dns"} => pc \in {"start", "steps", "ask", "parse", "report"}
    /\ pc = "parse" => job.name = "nmap" /\ left \subseteq PortsOf(job.ports)

\* Only a scan dials and only dnspassive looks up; nothing is under way when
\* they report, and only the end of the context cuts a probe.
Probing ==
    /\ job.name \notin {"porttcp", "dns"} \/ pc \in {"start", "resolve"} =>
          \A x \in Probes : probe[x] = "idle"
    /\ job.name = "porttcp" => \A x \in Probes : probe[x] # "idle" => x \in PortsOf(job.ports)
    /\ job.name = "dns" => \A x \in Probes : probe[x] # "idle" => x \in Lookups
    /\ pc = "report" \/ result # None => Out = {}
    /\ ctx = "live" => \A x \in Probes : probe[x] # "cut"

\* While the context lives, a port is dialled or will be.
Scanning ==
    job.name = "porttcp" =>
        /\ Cardinality(Out) <= Slots
        /\ pc # "start" =>
              /\ left \subseteq PortsOf(job.ports)
              /\ \A p \in left : probe[p] = "idle"
              /\ ctx = "live" => \A p \in PortsOf(job.ports) : p \in left \/ probe[p] # "idle"
        /\ pc = "slot" => left # {}
        /\ pc = "report" => left = {}

\* What is no longer awaited has come back.
Gathering ==
    job.name = "dns" =>
        /\ pc = "gather" =>
              /\ left \subseteq Lookups
              /\ \A x \in Lookups : probe[x] # "idle" /\ (x \notin left => probe[x] # "out")
        /\ pc = "report" => \A x \in Lookups : probe[x] \notin {"idle", "out"}

\* The summary is the last event, and Execute succeeds by recording it.
Reporting ==
    /\ \A i \in 1 .. Len(todo) : todo[i].kind = "done" =>
          /\ pc = "report" /\ i = Len(todo)
          /\ job.name = "porttcp" => todo[i] = Done(found)
    /\ result = "ok" =>
          /\ ctx = "live" /\ todo # <<>>
          /\ Head(todo).kind = "done" /\ Head(todo) \in trace

\* The findings that are stored or have been refused, those in the queue, and
\* those of answers that the loop has yet to come to.
Settled == {f.key : f \in kept} \cup refused
Queued == {todo[i].key : i \in {k \in 1 .. Len(todo) : todo[k].kind = "finding"}}
Pending ==
    IF pc \in {"scan", "slot"} THEN {Key(x) : x \in Open}
    ELSE IF pc = "gather" THEN {Key(x) : x \in Open \cap left}
    ELSE {}

\* What the network has answered is settled, dropped by dnspassive, queued, or
\* still to be queued.
Keeping ==
    /\ job.name \in {"porttcp", "dns"} => found = {Key(x) : x \in Open \cup Mixed}
    /\ job.name # "dns" => Mixed = {}
    /\ job.name \notin {"porttcp", "dns"} /\ pc # "report" => found = {}
    /\ half => todo # <<>> /\ Head(todo).kind \in {"finding", "artifact_ref"}
    /\ ctx = "live" =>
          /\ half /\ Head(todo).kind = "finding" => Head(todo).key \in Settled
          /\ found \ Dropped \subseteq Settled \cup Queued \cup Pending

BuiltinInv ==
    BuiltinTypeOK /\ Phase /\ Probing /\ Scanning /\ Gathering /\ Reporting /\ Keeping

LEMMA BuiltinInvInit == Init => BuiltinInv
<1> SUFFICES ASSUME Init PROVE BuiltinInv
  OBVIOUS
<1>1. BuiltinTypeOK
  <2>1. <<>> \in Seq(Events) /\ 0 \in 0 .. MaxFaults
    BY BuiltinAssumption
  <2> QED
    BY <2>1 DEF Init, BuiltinTypeOK
<1>2. Out = {} /\ Open = {} /\ Mixed = {}
  BY DEF Init, Out, Open, Mixed
<1>3. Phase /\ Probing /\ Gathering
  BY <1>2 DEF Init, Phase, Probing, Gathering
<1>6. Reporting
  BY BuiltinAssumption DEF Init, Reporting
<1>4. Scanning
  <2>1. job.name = "porttcp" => Slots \in Int /\ 1 <= Slots
    BY BuiltinAssumption DEF Init, Slots
  <2> QED
    BY <1>2, <2>1, FS_EmptySet DEF Init, Scanning
<1>5. Keeping
  BY <1>2 DEF Init, Keeping
<1> QED
  BY <1>1, <1>3, <1>4, <1>5, <1>6 DEF BuiltinInv

-----------------------------------------------------------------------------
(* The reports: findings, then one summary. *)

IsReport(events, keys, K) ==
    /\ events \in Seq(Events) /\ events # <<>>
    /\ events[Len(events)] = Done(K)
    /\ \A i \in 1 .. Len(events) - 1 : events[i].kind # "done"
    /\ \A k \in keys : \E i \in 1 .. Len(events) :
          events[i].kind = "finding" /\ events[i].key = k

LEMMA ThenDone ==
  ASSUME NEW head \in Seq(Events), NEW keys, NEW K \in SUBSET Keys,
         \A i \in 1 .. Len(head) : head[i].kind # "done",
         \A k \in keys : \E i \in 1 .. Len(head) : head[i].kind = "finding" /\ head[i].key = k
  PROVE  IsReport(head \o <<Done(K)>>, keys, K)
<1> DEFINE all == head \o <<Done(K)>>
<1>1. Done(K) \in Events
  BY EventsTyped
<1> HIDE DEF Events
<1>2. /\ all \in Seq(Events) /\ Len(all) = Len(head) + 1 /\ Len(head) \in Nat
      /\ \A i \in 1 .. Len(head) : all[i] = head[i]
      /\ all[Len(head) + 1] = Done(K)
  BY <1>1 DEF Done
<1> HIDE DEF all
<1>3. all # <<>>
  BY <1>2
<1>4. \A k \in keys : \E i \in 1 .. Len(all) : all[i].kind = "finding" /\ all[i].key = k
  BY <1>2
<1>5. \A i \in 1 .. Len(all) - 1 : all[i].kind # "done"
  BY <1>2
<1> QED
  BY <1>2, <1>3, <1>4, <1>5 DEF IsReport, all

\* One finding for every open port, in ascending order.
LEMMA PortsReport ==
  ASSUME NEW S \in SUBSET Int, IsFiniteSet(S), NEW refs \in SUBSET Labels,
         NEW K \in SUBSET Keys
  PROVE  LET ports == Ascending(S)
         IN  IsReport([i \in 1 .. Len(ports) |-> Finding(<<"open", ports[i]>>, refs)]
                        \o <<Done(K)>>, {<<"open", x>> : x \in S}, K)
<1> DEFINE ports == Ascending(S)
           head == [i \in 1 .. Len(ports) |-> Finding(<<"open", ports[i]>>, refs)]
<1>1. ports \in Seq(S) /\ \A x \in S : \E i \in 1 .. Len(ports) : ports[i] = x
  BY AscendingHoldsAll
<1> HIDE DEF ports
<1>2. ASSUME NEW i \in 1 .. Len(ports)
      PROVE  Finding(<<"open", ports[i]>>, refs) \in Events
  <2>1. ports[i] \in S
    BY <1>1
  <2>2. ports[i] \in Int \cup Lookups /\ "open" \in KeyKinds
    BY <2>1 DEF KeyKinds
  <2>3. <<"open", ports[i]>> \in Keys
    BY <2>2, KeysTyped
  <2> QED
    BY <2>3, EventsTyped
<1>3. Len(ports) \in Nat
  BY <1>1
<1>4. head \in Seq(Events) /\ Len(head) = Len(ports)
  BY <1>2, <1>3
<1>5. \A i \in 1 .. Len(head) : head[i].kind = "finding" /\ head[i].key = <<"open", ports[i]>>
  BY <1>4 DEF Finding
<1>6. \A k \in {<<"open", x>> : x \in S} :
         \E i \in 1 .. Len(head) : head[i].kind = "finding" /\ head[i].key = k
  <2> HIDE DEF head
  <2> SUFFICES ASSUME NEW x \in S
               PROVE  \E i \in 1 .. Len(head) :
                         head[i].kind = "finding" /\ head[i].key = <<"open", x>>
    OBVIOUS
  <2>1. PICK i \in 1 .. Len(ports) : ports[i] = x
    BY <1>1
  <2> QED
    BY <1>4, <1>5, <2>1
<1> HIDE DEF head
<1>7. IsReport(head \o <<Done(K)>>, {<<"open", x>> : x \in S}, K)
  BY <1>4, <1>5, <1>6, ThenDone
<1> QED
  BY <1>7 DEF head, ports

\* httpprobe: an artifact, the response and, over TLS, its parameters.
LEMMA ResponseReport ==
  ASSUME NEW secure \in BOOLEAN, Respond(secure)
  PROVE  found' \in SUBSET Keys /\ IsReport(todo', found', {})
<1> DEFINE live == <<"live", 0>>
           tls == <<"tls", 0>>
           head == <<Artifact("response-1"), Finding(live, {"response-1"})>>
                      \o (IF secure THEN <<Finding(tls, {})>> ELSE <<>>)
<1>1. live \in Keys /\ tls \in Keys
  BY KeysTyped DEF KeyKinds
<1>2. /\ Artifact("response-1") \in Events /\ Finding(live, {"response-1"}) \in Events
      /\ Finding(tls, {}) \in Events
  BY <1>1, EventsTyped DEF Labels
<1>3. found' = {live} \cup (IF secure THEN {tls} ELSE {}) /\ todo' = head \o <<Done({})>>
  BY DEF Respond, Say
<1> HIDE DEF live, tls
<1>4. /\ head \in Seq(Events)
      /\ \A i \in 1 .. Len(head) : head[i].kind # "done"
      /\ \A k \in found' : \E i \in 1 .. Len(head) : head[i].kind = "finding" /\ head[i].key = k
  <2> DEFINE a == Artifact("response-1")
             f == Finding(live, {"response-1"})
             g == Finding(tls, {})
  <2>1. /\ a.kind # "done" /\ f.kind = "finding" /\ g.kind = "finding"
        /\ f.key = live /\ g.key = tls
    BY DEF Artifact, Finding
  <2>2. a \in Events /\ f \in Events /\ g \in Events
    BY <1>2
  <2>3. /\ head \in Seq(Events) /\ Len(head) = IF secure THEN 3 ELSE 2
        /\ head[1] = a /\ head[2] = f /\ (secure => head[3] = g)
    <3> DEFINE more == IF secure THEN <<g>> ELSE <<>>
    <3>1. head = <<a, f>> \o more
      OBVIOUS
    <3> HIDE DEF a, f, g, head
    <3>2. <<a, f>> \in Seq(Events) /\ Len(<<a, f>>) = 2 /\ <<a, f>>[1] = a /\ <<a, f>>[2] = f
      BY <2>2
    <3>3. more \in Seq(Events) /\ Len(more) = (IF secure THEN 1 ELSE 0) /\ (secure => more[1] = g)
      BY <2>2
    <3> HIDE DEF more
    <3> QED
      BY <3>1, <3>2, <3>3
  <2> HIDE DEF a, f, g, head
  <2>4. CASE secure
    BY <1>3, <2>1, <2>2, <2>3, <2>4
  <2>5. CASE ~secure
    BY <1>3, <2>1, <2>2, <2>3, <2>5
  <2> QED
    BY <2>4, <2>5
<1>5. {} \in SUBSET Keys
  OBVIOUS
<1> HIDE DEF head
<1> QED
  BY <1>1, <1>3, <1>4, <1>5, ThenDone

\* tlsinspect: the version, then every certificate of the chain.
LEMMA HandshakeReport ==
  ASSUME NEW chain \in Chains, Handshake(chain)
  PROVE  found' \in SUBSET Keys /\ IsReport(todo', found', {})
<1> DEFINE n == Len(chain)
           version == Finding(<<"version", 0>>, {})
           certs == [i \in 1 .. n |-> Finding(<<"cert", chain[i].serial>>, {})]
           head == <<version>> \o certs
<1>1. n \in Nat
  BY BuiltinAssumption
<1>2. <<"version", 0>> \in Keys /\ \A i \in 1 .. n : <<"cert", chain[i].serial>> \in Keys
  BY KeysTyped DEF KeyKinds
<1>3. version \in Events /\ version.kind = "finding" /\ version.key = <<"version", 0>>
  BY <1>2, EventsTyped DEF Finding
<1>4. \A i \in 1 .. n : /\ certs[i] \in Events /\ certs[i].kind = "finding"
                         /\ certs[i].key = <<"cert", chain[i].serial>>
  BY <1>2, EventsTyped DEF Finding
<1>5. certs \in Seq(Events) /\ Len(certs) = n
  BY <1>1, <1>4
<1>6. /\ found' = {<<"version", 0>>} \cup {certs[i].key : i \in 1 .. n}
      /\ todo' = head \o <<Done({})>>
  BY DEF Handshake, Say
<1>7. /\ head \in Seq(Events) /\ Len(head) = n + 1 /\ head[1] = version
      /\ \A i \in 1 .. n : head[i + 1] = certs[i]
  <2> HIDE DEF version, certs, n
  <2> QED
    BY <1>1, <1>3, <1>5
<1> HIDE DEF version, certs, n, head
<1>8. \A i \in 1 .. Len(head) : head[i].kind = "finding"
  <2> SUFFICES ASSUME NEW i \in 1 .. n + 1 PROVE head[i].kind = "finding"
    BY <1>7
  <2>1. CASE i = 1
    BY <1>3, <1>7, <2>1
  <2>2. CASE i # 1
    <3>1. i - 1 \in 1 .. n /\ (i - 1) + 1 = i
      BY <1>1, <2>2
    <3>2. head[i] = certs[i - 1]
      BY <1>7, <3>1
    <3> QED
      BY <1>4, <3>1, <3>2
  <2> QED
    BY <2>1, <2>2
<1>9. \A k \in found' : \E i \in 1 .. Len(head) : head[i].key = k
  <2>1. 1 \in 1 .. Len(head) /\ \A i \in 1 .. n : i + 1 \in 1 .. Len(head)
    BY <1>1, <1>7
  <2> QED
    BY <1>3, <1>6, <1>7, <2>1
<1>10. found' \in SUBSET Keys
  BY <1>2, <1>3, <1>4, <1>6
<1> QED
  BY <1>6, <1>7, <1>8, <1>9, <1>10, ThenDone

LEMMA OpenPorts ==
  ASSUME BuiltinInv, job.name = "porttcp", pc # "start"
  PROVE  /\ Open \in SUBSET Int /\ IsFiniteSet(Open)
         /\ left \in SUBSET Int /\ IsFiniteSet(left)
         /\ found = {<<"open", x>> : x \in Open}
<1>1. /\ PortsOf(job.ports) \in SUBSET (1 .. MaxPort)
      /\ IsFiniteSet(PortsOf(job.ports))
  BY PortsAreProbes DEF BuiltinInv, BuiltinTypeOK, Phase
<1>2. Open \in SUBSET PortsOf(job.ports) /\ left \in SUBSET PortsOf(job.ports)
  BY DEF BuiltinInv, Probing, Scanning, Open
<1>3. found = {<<"open", x>> : x \in Open}
  <2>1. found = {Key(x) : x \in Open \cup Mixed} /\ Mixed = {}
    BY DEF BuiltinInv, Keeping
  <2> QED
    BY <2>1 DEF Key
<1>4. \A x \in PortsOf(job.ports) : x \in Int
  BY <1>1
<1> QED
  BY <1>1, <1>2, <1>3, <1>4, FS_Subset

LEMMA Reported ==
  ASSUME BuiltinInv,
         \/ MockFinds \/ ScanEnds \/ ParseXML
         \/ \E b \in BOOLEAN : Respond(b)
         \/ \E chain \in Chains : Handshake(chain)
  PROVE  \E K \in SUBSET Keys :
            /\ found' \in SUBSET Keys /\ IsReport(todo', found', K)
            /\ job.name = "porttcp" => K = found'
<1> DEFINE Well(K) == /\ found' \in SUBSET Keys /\ IsReport(todo', found', K)
                      /\ job.name = "porttcp" => K = found'
<1>0. found \in SUBSET Keys /\ {} \in SUBSET Keys
  BY DEF BuiltinInv, BuiltinTypeOK
<1>1. CASE MockFinds
  <2> DEFINE k == <<"mock", 1>>
             l == <<"mock", 2>>
             head == <<Finding(k, {}), Finding(l, {})>>
  <2>1. k \in Keys /\ l \in Keys
    BY KeysTyped DEF KeyKinds
  <2>2. found' = {k, l}
    BY <1>1 DEF MockFinds
  <2>3. todo' = <<Finding(k, {}), Finding(l, {}), Done({})>>
    BY <1>1 DEF MockFinds, Say
  <2>4. /\ Finding(k, {}) \in Events /\ Finding(l, {}) \in Events /\ Done({}) \in Events
        /\ Finding(k, {}).kind = "finding" /\ Finding(k, {}).key = k
        /\ Finding(l, {}).kind = "finding" /\ Finding(l, {}).key = l
    BY <2>1, <1>0, EventsTyped DEF Finding
  <2> HIDE DEF k, l
  <2>5. /\ todo' \in Seq(Events) /\ Len(todo') = 3
        /\ todo'[1] = Finding(k, {}) /\ todo'[2] = Finding(l, {}) /\ todo'[3] = Done({})
    BY <2>3, <2>4
  <2>6. IsReport(todo', found', {})
    BY <2>2, <2>4, <2>5 DEF IsReport
  <2>7. job.name # "porttcp"
    BY <1>1 DEF MockFinds, Idle, BuiltinInv, Phase
  <2> QED
    BY <1>0, <2>1, <2>2, <2>6, <2>7
<1>2. CASE ScanEnds
  <2>1. job.name = "porttcp" /\ pc # "start"
    BY <1>2 DEF ScanEnds, Idle, BuiltinInv, Phase
  <2>2. /\ found' = found /\ todo' = OpenReport
    BY <1>2 DEF ScanEnds, Say
  <2>3. /\ Open \in SUBSET Int /\ IsFiniteSet(Open)
        /\ found = {<<"open", x>> : x \in Open}
    BY <2>1, OpenPorts
  <2>4. IsReport(OpenReport, found, found)
    BY <1>0, <2>3, PortsReport DEF OpenReport
  <2> QED
    BY <1>0, <2>2, <2>4
<1>3. CASE ParseXML
  <2>1. job \in Configs /\ job.name = "nmap" /\ left \subseteq PortsOf(job.ports)
    BY <1>3 DEF ParseXML, Idle, BuiltinInv, BuiltinTypeOK, Phase
  <2>2. IsFiniteSet(left) /\ left \in SUBSET Int
    BY <2>1, FS_Subset, BuiltinAssumption
  <2>3. found' = {<<"open", x>> : x \in left}
    BY <1>3 DEF ParseXML
  <2>4. IsReport(todo', found', {})
    <3>1. {"nmap-xml"} \in SUBSET Labels
      BY DEF Labels
    <3> QED
      BY <1>0, <1>3, <2>2, <2>3, <3>1, PortsReport DEF ParseXML, Say
  <2>5. found' \in SUBSET Keys
    BY <2>2, <2>3, KeysTyped DEF KeyKinds
  <2> QED
    BY <1>0, <2>1, <2>4, <2>5
<1>4. CASE \E b \in BOOLEAN : Respond(b)
  <2>1. job.name # "porttcp"
    BY <1>4 DEF Respond
  <2> QED
    BY <1>0, <1>4, <2>1, ResponseReport
<1>5. CASE \E chain \in Chains : Handshake(chain)
  <2>1. job.name # "porttcp"
    BY <1>5 DEF Handshake
  <2> QED
    BY <1>0, <1>5, <2>1, HandshakeReport
<1> QED
  BY <1>1, <1>2, <1>3, <1>4, <1>5

LEMMA NothingReported == IsReport(<<Done({})>>, {}, {})
<1>1. Done({}) \in Events
  BY EventsTyped
<1> QED
  BY <1>1 DEF IsReport

-----------------------------------------------------------------------------
(* Every step keeps the types. *)

LEMMA EventFields ==
  ASSUME NEW e \in Events
  PROVE  /\ e.kind \in {"log", "artifact_ref", "finding", "done"}
         /\ e.kind = "artifact_ref" => e.label \in Labels
         /\ e.kind = "finding" => e.key \in Keys /\ e.refs \in SUBSET Labels
BY DEF Events, Log

LEMMA FaultTyped ==
  ASSUME faults \in 0 .. MaxFaults, Fault
  PROVE  faults' \in 0 .. MaxFaults /\ faults' # 0
BY BuiltinAssumption DEF Fault

LEMMA HeadTyped ==
  ASSUME BuiltinTypeOK, todo # <<>>
  PROVE  /\ Head(todo) \in Events /\ Tail(todo) \in Seq(Events)
         /\ Len(todo) \in Nat /\ Len(todo) >= 1 /\ Head(todo) = todo[1]
         /\ Len(Tail(todo)) = Len(todo) - 1
         /\ \A i \in 1 .. Len(Tail(todo)) : Tail(todo)[i] = todo[i + 1]
<1> HIDE DEF Events
<1>1. todo \in Seq(Events)
  BY DEF BuiltinTypeOK
<1> QED
  BY <1>1

LEMMA IngestTyped ==
  ASSUME BuiltinTypeOK, Ingest
  PROVE  BuiltinTypeOK'
<1> DEFINE e == Head(todo)
<1>1. todo # <<>> /\ e \in Events
  BY HeadTyped DEF Ingest
<1>2. Cited(e) \in SUBSET Labels
  BY DEF Cited, BuiltinTypeOK
<1>3. \/ /\ labels' = labels /\ kept' = kept
      \/ /\ e.kind = "finding" /\ labels' = labels
         /\ kept' = kept \cup {[key |-> e.key, cites |-> Cited(e)]}
      \/ /\ e.kind = "artifact_ref" /\ kept' = kept
         /\ labels' = labels \cup {e.label}
  <2>1. Ingested(e) \/ IngestLost(e)
    BY DEF Ingest
  <2>2. e.kind \in {"finding", "artifact_ref"}
    BY DEF Ingest
  <2> QED
    BY <2>1, <2>2 DEF IngestLost, Ingested
<1>4. /\ labels' \in SUBSET Labels
      /\ kept' \in SUBSET [key : Keys, cites : SUBSET Labels]
  BY <1>1, <1>2, <1>3, EventFields DEF BuiltinTypeOK
<1>7. refused' \in SUBSET Keys
  <2>1. refused' = refused \/ (e.kind = "finding" /\ refused' = refused \cup {e.key})
    BY DEF Ingest
  <2> QED
    BY <1>1, <2>1, EventFields DEF BuiltinTypeOK
<1>5. faults' \in 0 .. MaxFaults
  BY FaultTyped DEF Ingest, BuiltinTypeOK
<1>6. /\ half' \in BOOLEAN
      /\ UNCHANGED <<job, pc, left, probe, found, todo, trace, ctx, result>>
  BY DEF Ingest
<1> HIDE DEF e
<1> QED
  BY <1>4, <1>5, <1>6, <1>7 DEF BuiltinTypeOK

LEMMA RecordTyped ==
  ASSUME BuiltinTypeOK, Record
  PROVE  BuiltinTypeOK'
<1> DEFINE e == Head(todo)
<1>1. e \in Events /\ Tail(todo) \in Seq(Events)
  BY HeadTyped DEF Record, Recordable
<1>2. trace' \in SUBSET Events
  BY <1>1 DEF Record, Recorded, RecordLost, BuiltinTypeOK
<1>3. todo' \in Seq(Events)
  BY <1>1 DEF Record, AfterRecord, AfterError, BuiltinTypeOK
<1>4. result' \in {None, "ok", "error", "deadline", "canceled"}
  BY DEF Record, AfterRecord, AfterError, CtxErr, BuiltinTypeOK
<1>5. faults' \in 0 .. MaxFaults
  BY FaultTyped DEF Record, BuiltinTypeOK
<1>6. half' \in BOOLEAN /\ UNCHANGED <<job, pc, left, probe, found, labels, kept, refused, ctx>>
  BY DEF Record
<1> QED
  BY <1>2, <1>3, <1>4, <1>5, <1>6 DEF BuiltinTypeOK

\* The steps that queue a report.
Reporters ==
    \/ MockFinds \/ ScanEnds \/ ParseXML
    \/ \E b \in BOOLEAN : Respond(b)
    \/ \E chain \in Chains : Handshake(chain)

\* Those that leave Execute with an error.
Returns == Reject \/ MockStops \/ MockFails \/ RequestFails \/ NmapFails \/ ParseFails

\* Those that begin the work of an accepted job.
Starts == StartMock \/ StartScan \/ StartLookups \/ StartRequest

\* The other steps of the collector's own code, which prepare a report.
Works ==
    \/ MockStep \/ NextPort \/ Dial \/ StopDialling
    \/ AskAll \/ (\E x \in Lookups : Receive(x)) \/ AllReceived \/ NmapEnds

LEMMA NextSorts ==
  Next => \/ CtxEnds \/ Returns \/ Starts \/ Works \/ Reporters \/ Ingest \/ Record
          \/ \E x \in Probes : Answer(x)
BY DEF Next, Run, Nmap, Ask, Emit, Returns, Starts, Works, Reporters

LEMMA TypeStep == BuiltinInv /\ [Next]_vars => BuiltinTypeOK'
<1> SUFFICES ASSUME BuiltinInv, [Next]_vars PROVE BuiltinTypeOK'
  OBVIOUS
<1>1. BuiltinTypeOK
  BY DEF BuiltinInv
<1>2. CASE UNCHANGED vars
  BY <1>1, <1>2 DEF vars, BuiltinTypeOK
<1>3. CASE CtxEnds
  BY <1>1, <1>3 DEF CtxEnds, BuiltinTypeOK
<1>4. CASE Returns
  <2>1. result' \in {"error", "deadline", "canceled"}
    BY <1>4 DEF Returns, Reject, MockStops, MockFails, RequestFails, NmapFails, ParseFails,
                Return, CtxErr
  <2>2. UNCHANGED <<job, pc, left, probe, found, todo, half, labels, kept, refused, trace, ctx, faults>>
    BY <1>4 DEF Returns, Reject, MockStops, MockFails, RequestFails, NmapFails, ParseFails,
                Return
  <2> QED
    BY <1>1, <2>1, <2>2 DEF BuiltinTypeOK
<1>5. CASE Ingest
  BY <1>1, <1>5, IngestTyped
<1>6. CASE Record
  BY <1>1, <1>6, RecordTyped
<1>7. ASSUME NEW x \in Probes, Answer(x) PROVE BuiltinTypeOK'
  <2>1. probe' \in [Probes -> {"idle", "out", "cut", "none", "hit", "mixed"}]
    BY <1>1, <1>7 DEF Answer, BuiltinTypeOK
  <2>2. found' \in SUBSET Keys
    BY <1>1, <1>7, KeysTyped DEF Answer, BuiltinTypeOK
  <2>3. UNCHANGED <<job, pc, left, todo, half, labels, kept, refused, trace, ctx, result, faults>>
    BY <1>7 DEF Answer
  <2> QED
    BY <1>1, <2>1, <2>2, <2>3 DEF BuiltinTypeOK
<1>8. CASE Starts \/ Works \/ Reporters
  <2>1. /\ pc' \in {"start", "steps", "scan", "slot", "resolve", "gather", "ask", "parse", "report"}
        /\ UNCHANGED <<job, half, labels, kept, refused, trace, ctx, result, faults>>
    BY <1>8 DEF Starts, StartMock, StartScan, StartLookups, StartRequest,
                Works, MockStep, NextPort, Dial, StopDialling, AskAll, Receive, AllReceived,
                NmapEnds, Reporters, MockFinds, ScanEnds, ParseXML, Respond, Handshake, Say
  <2>2. left' \in SUBSET (Int \cup Lookups)
    <3>1. PortsOf(job.ports) \subseteq Int
      BY DEF PortsOf
    <3>2. \/ left' \subseteq left \/ left' \subseteq PortsOf(job.ports) \/ left' = Lookups
          \/ left' = 1 .. job.steps
      BY <1>8 DEF
           Starts, StartMock, StartScan, StartLookups, StartRequest,
           Works, MockStep, NextPort, Dial, StopDialling, AskAll, Receive, AllReceived,
           NmapEnds, Reporters, MockFinds, ScanEnds, ParseXML, Respond, Handshake
    <3>3. 1 .. job.steps \subseteq Int
      OBVIOUS
    <3> QED
      BY <1>1, <3>1, <3>2, <3>3 DEF BuiltinTypeOK
  <2>3. probe' \in [Probes -> {"idle", "out", "cut", "none", "hit", "mixed"}]
    <3>1. CASE Dial
      BY <1>1, <3>1 DEF Dial, BuiltinTypeOK
    <3>2. CASE AskAll
      BY <1>1, <3>2 DEF AskAll, BuiltinTypeOK
    <3>3. CASE probe' = probe
      BY <1>1, <3>3 DEF BuiltinTypeOK
    <3> QED
      BY <1>8, <3>1, <3>2, <3>3 DEF
           Starts, StartMock, StartScan, StartLookups, StartRequest,
           Works, MockStep, NextPort, StopDialling, Receive, AllReceived,
           NmapEnds, Reporters, MockFinds, ScanEnds, ParseXML, Respond, Handshake
  <2>4. todo' \in Seq(Events) /\ found' \in SUBSET Keys
    <3>1. CASE Reporters
      BY <3>1, Reported DEF Reporters, IsReport
    <3>2. CASE Starts \/ Works
      <4>1. found' = found
        BY <3>2 DEF Starts, StartMock, StartScan, StartLookups, StartRequest, Works, MockStep,
                    NextPort, Dial, StopDialling, AskAll, Receive, AllReceived, NmapEnds
      <4>2. \/ todo' = <<>> \/ todo' = <<Log>> \/ todo' = <<Log, Log>> \/ todo' = <<Done({})>>
            \/ todo' = <<Artifact("nmap-xml")>>
            \/ \E x \in Lookups : todo' = <<Finding(Key(x), {})>>
        BY <3>2 DEF Starts, StartMock, StartScan, StartLookups, StartRequest, Works, MockStep,
                    NextPort, Dial, StopDialling, AskAll, Receive, AllReceived, NmapEnds, Say
      <4>3. /\ Log \in Events /\ Done({}) \in Events /\ Artifact("nmap-xml") \in Events
            /\ \A x \in Lookups : Finding(Key(x), {}) \in Events
        BY EventsTyped, KeysTyped, ProbesTyped DEF Labels
      <4>4. \A a, b \in Events : <<>> \in Seq(Events) /\ <<a>> \in Seq(Events)
                                  /\ <<a, b>> \in Seq(Events)
        OBVIOUS
      <4>5. todo' \in Seq(Events)
        BY <4>2, <4>3, <4>4
      <4> QED
        BY <1>1, <4>1, <4>5 DEF BuiltinTypeOK
    <3> QED
      BY <1>8, <3>1, <3>2
  <2> QED
    BY <1>1, <2>1, <2>2, <2>3, <2>4 DEF BuiltinTypeOK
<1> QED
  BY <1>2, <1>3, <1>4, <1>5, <1>6, <1>7, <1>8, NextSorts

-----------------------------------------------------------------------------
(* Every step keeps the rest of the invariant. *)

LEMMA PhaseNames ==
  ASSUME BuiltinInv
  PROVE  /\ pc \in {"scan", "slot"} => job.name = "porttcp"
         /\ pc \in {"resolve", "gather"} => job.name = "dns"
         /\ pc \in {"steps", "ask", "parse"} => job.name \notin {"porttcp", "dns"}
BY DEF BuiltinInv, Phase

\* The steps between the collector's own.
Pauses == UNCHANGED vars \/ CtxEnds \/ Returns \/ Ingest \/ Record
             \/ \E x \in Probes : Answer(x)

LEMMA PausesFrame ==
  ASSUME Pauses
  PROVE  UNCHANGED <<job, pc, left>>
BY DEF Pauses, vars, CtxEnds, Returns, Reject, MockStops, MockFails, RequestFails, NmapFails,
       ParseFails, Return, Ingest, Record, Answer

LEMMA NextSplits == [Next]_vars => Pauses \/ Starts \/ Works \/ Reporters
BY NextSorts DEF Pauses

LEMMA PhaseStep == BuiltinInv /\ [Next]_vars => Phase'
<1> SUFFICES ASSUME BuiltinInv, [Next]_vars PROVE Phase'
  OBVIOUS
<1>1. Phase
  BY DEF BuiltinInv
<1>2. CASE Pauses
  BY <1>1, <1>2, PausesFrame DEF Phase
<1>3. CASE Starts
  BY <1>3 DEF Starts, StartMock, StartScan, StartLookups, StartRequest, Say, Acceptable, Phase
<1>4. CASE Works
  <2>1. CASE NmapEnds
    <3>1. pc' = "parse" /\ job' = job /\ job.name = "nmap" /\ left' \subseteq PortsOf(job.ports)
      BY <2>1 DEF NmapEnds, Say
    <3> QED
      BY <3>1 DEF Phase
  <2>2. CASE MockStep \/ NextPort \/ Dial \/ StopDialling
    BY <1>1, <2>2, PhaseNames DEF MockStep, NextPort, Dial, StopDialling, Idle, Say, Phase
  <2>3. CASE AskAll \/ AllReceived \/ \E x \in Lookups : Receive(x)
    BY <1>1, <2>3, PhaseNames DEF AskAll, AllReceived, Receive, Idle, Say, Phase
  <2> QED
    BY <1>4, <2>1, <2>2, <2>3 DEF Works
<1>5. CASE Reporters
  <2>1. pc' = "report" /\ job' = job
    BY <1>5 DEF Reporters, MockFinds, ScanEnds, ParseXML, Respond, Handshake, Say
  <2>2. pc # "start"
    BY <1>5 DEF Reporters, MockFinds, ScanEnds, ParseXML, Respond, Handshake, Idle
  <2> QED
    BY <1>1, <2>1, <2>2 DEF Phase
<1> QED
  BY <1>2, <1>3, <1>4, <1>5, NextSplits

\* Only AskAll, Dial and Answer touch a probe.
LEMMA ProbesFrame ==
  ASSUME Starts \/ Works \/ Reporters, ~AskAll, ~Dial
  PROVE  probe' = probe
BY DEF Starts, StartMock, StartScan, StartLookups, StartRequest,
       Works, MockStep, NextPort, StopDialling, Receive, AllReceived, NmapEnds,
       Reporters, MockFinds, ScanEnds, ParseXML, Respond, Handshake

\* What a step of the collector finds, and leaves alone.
LEMMA OwnStep ==
  ASSUME Starts \/ Works \/ Reporters
  PROVE  /\ result = None /\ todo = <<>>
         /\ UNCHANGED <<job, half, labels, kept, refused, trace, ctx, result, faults>>
         /\ pc # "report"
BY DEF Starts, StartMock, StartScan, StartLookups, StartRequest,
       Works, MockStep, NextPort, Dial, StopDialling, AskAll, Receive, AllReceived, NmapEnds,
       Reporters, MockFinds, ScanEnds, ParseXML, Respond, Handshake, Idle, Say

LEMMA DialsLeft ==
  ASSUME BuiltinInv, Dial
  PROVE  /\ Min(left) \in left /\ Min(left) \in Probes
         /\ job.name = "porttcp" /\ job' = job /\ ctx' = ctx
         /\ pc = "slot" /\ pc' = "scan" /\ result' = None
         /\ probe' = [probe EXCEPT ![Min(left)] = "out"]
         /\ left' = left \ {Min(left)}
         /\ Cardinality(Out) < Slots
<1>1. job.name = "porttcp" /\ pc = "slot"
  BY PhaseNames DEF Dial, Idle
<1>2. left # {} /\ left \subseteq PortsOf(job.ports)
  BY <1>1 DEF BuiltinInv, Scanning
<1>3. left \in SUBSET Int /\ IsFiniteSet(left)
  BY <1>1, OpenPorts
<1>4. Min(left) \in left
  BY <1>2, <1>3, MinIsLeft
<1>5. left \subseteq Probes
  BY <1>1, <1>2, PortsAreProbes DEF BuiltinInv, BuiltinTypeOK, Phase
<1> HIDE DEF Min
<1> QED
  BY <1>1, <1>4, <1>5 DEF Dial, Idle, Say, SlotFree

LEMMA ProbingStep == BuiltinInv /\ [Next]_vars => Probing'
<1> SUFFICES ASSUME BuiltinInv, [Next]_vars PROVE Probing'
  OBVIOUS
<1>1. Probing /\ Phase /\ BuiltinTypeOK
  BY DEF BuiltinInv
<1>2. CASE UNCHANGED vars
  BY <1>1, <1>2 DEF vars, Probing, Out
<1>3. CASE CtxEnds
  BY <1>1, <1>3 DEF CtxEnds, Probing, Out
<1>4. CASE Returns
  <2>1. UNCHANGED <<job, pc, probe, ctx>>
    BY <1>4 DEF Returns, Reject, MockStops, MockFails, RequestFails, NmapFails, ParseFails, Return
  <2>2. pc \in {"start", "steps", "ask", "parse"}
    BY <1>4 DEF Returns, Reject, MockStops, MockFails, RequestFails, NmapFails, ParseFails, Idle
  <2>3. Out = {}
    BY <1>1, <2>2, PhaseNames DEF Probing, Out
  <2> QED
    BY <1>1, <2>1, <2>3 DEF Probing, Out
<1>5. CASE Ingest
  BY <1>1, <1>5 DEF Ingest, Probing, Out
<1>6. CASE Record
  <2>1. UNCHANGED <<job, pc, probe, ctx>>
    BY <1>6 DEF Record
  <2>2. ASSUME result' # None PROVE Out = {}
    <3>1. Head(todo).kind = "done" \/ job.name = "mock"
      BY <1>6, <2>2 DEF Record, Recordable, AfterRecord, AfterError
    <3>2. CASE job.name = "mock"
      BY <1>1, <3>2 DEF Probing, Out
    <3>3. CASE Head(todo).kind = "done"
      <4>1. todo # <<>>
        BY <1>6 DEF Record, Recordable
      <4>2. 1 \in 1 .. Len(todo) /\ todo[1] = Head(todo)
        BY <1>1, <4>1, HeadTyped
      <4>3. pc = "report"
        BY <3>3, <4>2 DEF BuiltinInv, Reporting
      <4> QED
        BY <1>1, <4>3 DEF Probing
    <3> QED
      BY <3>1, <3>2, <3>3
  <2> QED
    BY <1>1, <2>1, <2>2 DEF Probing, Out
<1>7. ASSUME NEW x \in Probes, Answer(x) PROVE Probing'
  <2>1. /\ probe[x] = "out" /\ UNCHANGED <<job, pc, ctx, result>>
        /\ \/ probe' = [probe EXCEPT ![x] = "hit"] \/ probe' = [probe EXCEPT ![x] = "none"]
           \/ probe' = [probe EXCEPT ![x] = "mixed"]
           \/ ctx # "live" /\ probe' = [probe EXCEPT ![x] = "cut"]
    BY <1>7 DEF Answer
  <2>2. x \in Out /\ \A y \in Probes : y # x => probe'[y] = probe[y]
    BY <1>1, <2>1 DEF Out, BuiltinTypeOK
  <2>3. probe'[x] # "out" /\ (ctx = "live" => probe'[x] # "cut")
    BY <1>1, <2>1 DEF BuiltinTypeOK
  <2>4. Out' \subseteq Out
    BY <2>2, <2>3 DEF Out
  <2> QED
    BY <1>1, <2>1, <2>2, <2>3, <2>4 DEF Probing
<1>8. CASE Starts \/ Works \/ Reporters
  <2>1. CASE Dial
    <3>1. Min(left) \in PortsOf(job.ports)
      BY <2>1, DialsLeft DEF BuiltinInv, Scanning
    <3> HIDE DEF Min
    <3> QED
      BY <1>1, <2>1, <3>1, DialsLeft DEF Probing, BuiltinTypeOK
  <2>2. CASE AskAll
    <3>1. job.name = "dns" /\ pc = "resolve" /\ pc' = "gather" /\ job' = job /\ ctx' = ctx
          /\ result' = None
      BY <2>2, PhaseNames DEF AskAll, Idle, Say
    <3>2. \A x \in Probes : probe[x] = "idle"
      BY <1>1, <3>1 DEF Probing
    <3>3. \A x \in Probes : probe'[x] = IF x \in Lookups THEN "out" ELSE "idle"
      BY <2>2, <3>2 DEF AskAll
    <3> QED
      BY <3>1, <3>3 DEF Probing
  <2>3. CASE probe' = probe
    <3>1. result' = None /\ job' = job /\ ctx' = ctx /\ Out' = Out
      BY <1>8, <2>3, OwnStep DEF Out
    <3>2. pc' \in {"start", "resolve"} => pc \in {"start", "resolve"}
      BY <1>8 DEF Starts, StartMock, StartScan, StartLookups, StartRequest,
       Works, MockStep, NextPort, Dial, StopDialling, AskAll, Receive, AllReceived, NmapEnds,
       Reporters, MockFinds, ScanEnds, ParseXML, Respond, Handshake, Idle, Say
    <3>3. ASSUME pc' = "report" PROVE Out = {}
      <4>1. CASE ScanEnds
        BY <4>1 DEF ScanEnds
      <4>2. CASE AllReceived
        <5>1. job.name = "dns" /\ pc = "gather" /\ left = {}
          BY <4>2, PhaseNames DEF AllReceived, Idle
        <5>2. \A x \in Lookups : probe[x] # "out"
          BY <5>1 DEF BuiltinInv, Gathering
        <5> QED
          BY <1>1, <5>1, <5>2 DEF Probing, Out
      <4>3. CASE pc \in {"steps", "ask", "parse"}
        BY <1>1, <4>3, PhaseNames DEF Probing, Out
      <4> QED
        BY <1>8, <3>3, <4>1, <4>2, <4>3
           DEF Starts, StartMock, StartScan, StartLookups, StartRequest,
               Works, MockStep, NextPort, Dial, StopDialling, AskAll, Receive, NmapEnds,
               Reporters, MockFinds, ParseXML, Respond, Handshake, Idle, Say
    <3> QED
      BY <1>1, <2>3, <3>1, <3>2, <3>3 DEF Probing
  <2> QED
    BY <1>8, <2>1, <2>2, <2>3, ProbesFrame
<1> QED
  BY <1>2, <1>3, <1>4, <1>5, <1>6, <1>7, <1>8, NextSorts

\* The probes of a scan are among finitely many ports.
LEMMA OutFinite ==
  ASSUME BuiltinInv, job.name = "porttcp"
  PROVE  IsFiniteSet(Out) /\ Cardinality(Out) \in Nat
<1>1. CASE pc = "start"
  <2>1. Out = {}
    BY <1>1 DEF BuiltinInv, Probing, Out
  <2> QED
    BY <2>1, FS_EmptySet
<1>2. CASE pc # "start"
  <2>1. IsFiniteSet(PortsOf(job.ports))
    BY <1>2, PortsAreProbes DEF BuiltinInv, BuiltinTypeOK, Phase
  <2>2. Out \in SUBSET PortsOf(job.ports)
    BY DEF BuiltinInv, Probing, Out
  <2> QED
    BY <2>1, <2>2, FS_Subset, FS_CardinalityType
<1> QED
  BY <1>1, <1>2

LEMMA ScanningStep == BuiltinInv /\ [Next]_vars => Scanning'
<1> SUFFICES ASSUME BuiltinInv, [Next]_vars, job'.name = "porttcp"
             PROVE  Scanning'
  BY DEF Scanning
<1>0. job' = job
  <2>1. CASE Pauses
    BY <2>1, PausesFrame
  <2> QED
    BY <2>1, NextSplits, OwnStep
<1>1. /\ BuiltinTypeOK /\ Phase /\ Scanning /\ job.name = "porttcp"
      /\ Slots' = Slots /\ Slots \in Int
  <2>1. Slots \in Int
    BY <1>0, BuiltinAssumption DEF BuiltinInv, BuiltinTypeOK, Slots
  <2> QED
    BY <1>0, <2>1 DEF BuiltinInv, Slots
<1>2. pc \in {"start", "scan", "slot", "report"}
  BY <1>1 DEF Phase
<1>3. CASE Pauses
  <2>1. UNCHANGED <<job, pc, left>>
    BY <1>3, PausesFrame
  <2>2. CASE \E x \in Probes : Answer(x)
    <3>1. PICK x \in Probes : Answer(x)
      BY <2>2
    <3>2. /\ probe[x] = "out" /\ ctx' = ctx
          /\ \E v \in {"hit", "none", "cut", "mixed"} : probe' = [probe EXCEPT ![x] = v]
      BY <3>1 DEF Answer
    <3>3. Out' \in SUBSET Out
      BY <1>1, <3>2 DEF Out, BuiltinTypeOK
    <3>4. Cardinality(Out') <= Cardinality(Out) /\ Cardinality(Out') \in Nat
      BY <1>1, <3>3, OutFinite, FS_Subset, FS_CardinalityType
    <3>5. Cardinality(Out') <= Slots
      BY <1>1, <3>4, OutFinite DEF Scanning
    <3>6. \A p \in Probes : (p # x => probe'[p] = probe[p]) /\ (p = x => probe'[p] # "idle")
      BY <1>1, <3>2 DEF BuiltinTypeOK
    <3>7. pc # "start" => PortsOf(job.ports) \subseteq Probes
      BY <1>1, PortsAreProbes DEF BuiltinTypeOK, Phase
    <3> QED
      BY <1>1, <2>1, <3>2, <3>5, <3>6, <3>7 DEF Scanning
  <2>3. CASE ~\E x \in Probes : Answer(x)
    <3>1. probe' = probe /\ (ctx' = "live" => ctx = "live")
      BY <1>3, <2>3 DEF Pauses, vars, CtxEnds, Returns, Reject, MockStops, MockFails, RequestFails,
                        NmapFails, ParseFails, Return, Ingest, Record
    <3>2. Out' = Out
      BY <3>1 DEF Out
    <3> QED
      BY <1>1, <2>1, <3>1, <3>2 DEF Scanning
  <2> QED
    BY <2>2, <2>3
<1>4. CASE StartScan
  <2>1. /\ pc = "start" /\ pc' = "scan" /\ probe' = probe /\ ctx' = ctx
        /\ left' = PortsOf(job.ports) /\ PortsOK(job.ports)
    BY <1>1, <1>4 DEF StartScan, Idle, Say, Acceptable
  <2>2. \A x \in Probes : probe[x] = "idle"
    BY <2>1 DEF BuiltinInv, Probing
  <2>3. PortsOf(job.ports) \subseteq Probes
    BY <1>1, <2>1, PortsAreProbes DEF BuiltinTypeOK
  <2>4. Out' = Out
    BY <2>1 DEF Out
  <2> QED
    BY <1>0, <1>1, <2>1, <2>2, <2>3, <2>4 DEF Scanning
<1>5. CASE NextPort \/ StopDialling \/ ScanEnds
  <2>1. /\ pc = "scan" /\ pc' \in {"scan", "slot", "report"} /\ UNCHANGED <<probe, ctx>>
        /\ left' = left \/ (left' = {} /\ ctx # "live")
        /\ pc' = "slot" => left' # {}
        /\ pc' = "report" => left' = {}
    BY <1>5 DEF NextPort, StopDialling, ScanEnds, Idle, Say
  <2>2. Out' = Out
    BY <2>1 DEF Out
  <2> QED
    BY <1>0, <1>1, <2>1, <2>2 DEF Scanning
<1>6. CASE Dial
  <2> DEFINE p == Min(left)
  <2>1. /\ p \in left /\ p \in Probes /\ pc = "slot" /\ pc' = "scan" /\ ctx' = ctx
        /\ probe' = [probe EXCEPT ![p] = "out"] /\ left' = left \ {p}
        /\ Cardinality(Out) < Slots
    BY <1>6, DialsLeft
  <2> HIDE DEF p
  <2>2. Out' = Out \cup {p} /\ p \notin Out
    BY <1>1, <2>1 DEF Out, BuiltinTypeOK, Scanning
  <2>3. Cardinality(Out') <= Slots
    <3>1. IsFiniteSet(Out) /\ Cardinality(Out) \in Nat
      BY <1>1, OutFinite
    <3>2. Cardinality(Out') = Cardinality(Out) + 1
      BY <2>2, <3>1, FS_AddElement
    <3> QED
      BY <1>1, <2>1, <3>1, <3>2
  <2>4. \A q \in Probes : (q # p => probe'[q] = probe[q]) /\ (q = p => probe'[q] = "out")
    BY <1>1, <2>1 DEF BuiltinTypeOK
  <2>5. PortsOf(job.ports) \subseteq Probes
    BY <1>1, <2>1, PortsAreProbes DEF BuiltinTypeOK, Phase
  <2>6. /\ left' \subseteq PortsOf(job.ports) /\ \A q \in left' : probe'[q] = "idle"
        /\ ctx = "live" => \A q \in PortsOf(job.ports) : q \in left' \/ probe'[q] # "idle"
    BY <1>1, <2>1, <2>4, <2>5 DEF Scanning
  <2> QED
    BY <1>0, <1>1, <2>1, <2>3, <2>6 DEF Scanning
<1>7. CASE Starts
  BY <1>1, <1>4, <1>7 DEF Starts, StartMock, StartLookups, StartRequest
<1>8. CASE Works
  <2>1. CASE MockStep \/ AskAll \/ AllReceived \/ NmapEnds \/ \E x \in Lookups : Receive(x)
    BY <1>2, <2>1 DEF MockStep, AskAll, AllReceived, Receive, NmapEnds, Idle
  <2> QED
    BY <1>5, <1>6, <1>8, <2>1 DEF Works
<1>9. CASE Reporters
  BY <1>1, <1>2, <1>5, <1>9 DEF Reporters, MockFinds, ParseXML, Respond, Handshake, Idle
<1> QED
  BY <1>3, <1>7, <1>8, <1>9, NextSplits

LEMMA GatheringStep == BuiltinInv /\ [Next]_vars => Gathering'
<1> SUFFICES ASSUME BuiltinInv, [Next]_vars, job'.name = "dns"
             PROVE  Gathering'
  BY DEF Gathering
<1>0. job' = job
  <2>1. CASE Pauses
    BY <2>1, PausesFrame
  <2> QED
    BY <2>1, NextSplits, OwnStep
<1>1. /\ BuiltinTypeOK /\ Gathering /\ job.name = "dns"
      /\ pc \in {"start", "resolve", "gather", "report"}
      /\ Lookups \subseteq Probes
  BY <1>0, ProbesTyped DEF BuiltinInv, Phase
<1>2. CASE Pauses
  <2>1. UNCHANGED <<job, pc, left>>
    BY <1>2, PausesFrame
  <2>2. CASE \E x \in Probes : Answer(x)
    <3>1. PICK x \in Probes : Answer(x)
      BY <2>2
    <3>2. \E v \in {"hit", "none", "cut", "mixed"} : probe' = [probe EXCEPT ![x] = v]
      BY <3>1 DEF Answer
    <3>3. \A y \in Probes : (y # x => probe'[y] = probe[y])
                            /\ (y = x => probe'[y] \notin {"idle", "out"})
      BY <1>1, <3>2 DEF BuiltinTypeOK
    <3> QED
      BY <1>1, <2>1, <3>3 DEF Gathering
  <2>3. CASE ~\E x \in Probes : Answer(x)
    <3>1. probe' = probe
      BY <1>2, <2>3 DEF Pauses, vars, CtxEnds, Returns, Reject, MockStops, MockFails, RequestFails,
                        NmapFails, ParseFails, Return, Ingest, Record
    <3> QED
      BY <1>1, <2>1, <3>1 DEF Gathering
  <2> QED
    BY <2>2, <2>3
<1>3. CASE Starts
  BY <1>3 DEF Starts, StartMock, StartScan, StartLookups, StartRequest, Say, Gathering
<1>4. CASE AskAll
  <2>1. pc' = "gather" /\ left' = Lookups
    BY <1>4 DEF AskAll, Say
  <2>2. \A x \in Lookups : probe'[x] = "out"
    BY <1>1, <1>4 DEF AskAll
  <2> QED
    BY <2>1, <2>2 DEF Gathering
<1>5. ASSUME NEW x \in Lookups, Receive(x) PROVE Gathering'
  <2>1. pc = "gather" /\ pc' = "gather" /\ probe' = probe /\ left' = left \ {x} /\ probe[x] # "out"
    BY <1>5 DEF Receive, Idle, Say
  <2> QED
    BY <1>1, <2>1 DEF Gathering
<1>6. CASE AllReceived
  <2>1. pc = "gather" /\ pc' = "report" /\ probe' = probe /\ left = {}
    BY <1>6 DEF AllReceived, Idle, Say
  <2> QED
    BY <1>1, <2>1 DEF Gathering
<1>7. CASE Works
  BY <1>1, <1>4, <1>5, <1>6, <1>7
     DEF Works, MockStep, NextPort, Dial, StopDialling, NmapEnds, Idle
<1>8. CASE Reporters
  BY <1>1, <1>8 DEF Reporters, MockFinds, ScanEnds, ParseXML, Respond, Handshake, Idle
<1> QED
  BY <1>2, <1>3, <1>7, <1>8, NextSplits

\* What Record does to the queue and to the result.
LEMMA RecordSteps ==
  ASSUME BuiltinTypeOK, Record
  PROVE  /\ todo # <<>> /\ half' = FALSE /\ (trace \subseteq trace')
         /\ UNCHANGED <<job, pc, left, probe, found, labels, kept, refused, ctx>>
         /\ half \/ Head(todo).kind \notin {"finding", "artifact_ref"}
         /\ \/ todo' = todo /\ result' # None /\ result' # "ok"
            \/ todo' = Tail(todo) /\ result' = None /\ Head(todo).kind # "done"
            \/ /\ todo' = todo /\ result' = "ok" /\ ctx = "live"
               /\ Head(todo).kind = "done" /\ Head(todo) \in trace'
<1>1. trace \subseteq trace'
  BY DEF Record, Recorded, RecordLost
<1>2. result = None /\ todo # <<>> /\ half' = FALSE
      /\ UNCHANGED <<job, pc, left, probe, found, labels, kept, refused, ctx>>
      /\ (half \/ Head(todo).kind \notin {"finding", "artifact_ref"})
  BY DEF Record, Recordable
<1>3. CASE ctx = "live" /\ Recorded(Head(todo)) /\ AfterRecord
  BY <1>1, <1>2, <1>3 DEF AfterRecord, Recorded
<1>4. CASE \E err \in {"error", "deadline", "canceled"} : AfterError(err)
  BY <1>1, <1>2, <1>4, BuiltinAssumption DEF AfterError
<1>5. CtxErr \in {"error", "deadline", "canceled"}
  BY DEF CtxErr
<1> QED
  BY <1>3, <1>4, <1>5 DEF Record

LEMMA ReportingStep == BuiltinInv /\ [Next]_vars => Reporting'
<1> SUFFICES ASSUME BuiltinInv, [Next]_vars PROVE Reporting'
  OBVIOUS
<1>1. BuiltinTypeOK /\ Reporting
  BY DEF BuiltinInv
<1>2. CASE UNCHANGED vars
  BY <1>1, <1>2 DEF vars, Reporting
<1>3. CASE CtxEnds \/ Ingest
  <2>1. UNCHANGED <<job, pc, found, todo, result, trace>> /\ result = None
    BY <1>3 DEF CtxEnds, Ingest
  <2> QED
    BY <1>1, <2>1, BuiltinAssumption DEF Reporting
<1>4. CASE Returns
  <2>1. /\ UNCHANGED <<job, pc, found, todo>>
        /\ result' # "ok"
    BY <1>4 DEF Returns, Reject, MockStops, MockFails, RequestFails, NmapFails, ParseFails,
                Return, CtxErr
  <2> QED
    BY <1>1, <2>1 DEF Reporting
<1>5. CASE Record
  <2> USE <1>1
  <2>1. todo # <<>> /\ UNCHANGED <<job, pc, found, ctx>>
    BY <1>5, RecordSteps
  <2>2. CASE todo' = todo /\ result' # "ok"
    BY <2>1, <2>2 DEF Reporting
  <2>3. CASE todo' = Tail(todo) /\ result' = None
    <3>1. \A i \in 1 .. Len(todo') : todo'[i] = todo[i + 1] /\ i + 1 \in 1 .. Len(todo)
          /\ Len(todo') = Len(todo) - 1 /\ Len(todo) \in Nat
      BY <2>1, <2>3, HeadTyped
    <3> QED
      BY <2>1, <2>3, <3>1, BuiltinAssumption DEF Reporting
  <2>4. CASE todo' = todo /\ ctx = "live" /\ Head(todo).kind = "done" /\ Head(todo) \in trace'
    BY <2>1, <2>4 DEF Reporting
  <2> QED
    BY <1>5, <2>2, <2>3, <2>4, RecordSteps
<1>6. ASSUME NEW x \in Probes, Answer(x) PROVE Reporting'
  <2>1. /\ UNCHANGED <<job, pc, todo, result, trace, ctx>>
        /\ probe[x] = "out"
    BY <1>6 DEF Answer
  <2>2. pc # "report"
    BY <2>1 DEF BuiltinInv, Probing, Out
  <2> QED
    BY <1>1, <2>1, <2>2 DEF Reporting
<1>7. CASE Starts \/ Works \/ Reporters
  <2>1. result' = None /\ job' = job
    BY <1>7, OwnStep
  <2>2. result' # "ok"
    BY <2>1, BuiltinAssumption
  <2>3. CASE Reporters
    <3>1. PICK K : IsReport(todo', found', K) /\ (job.name = "porttcp" => K = found')
      BY <2>3, Reported DEF Reporters
    <3>2. pc' = "report"
      BY <2>3 DEF Reporters, MockFinds, ScanEnds, ParseXML, Respond, Handshake, Say
    <3>3. Len(todo') \in Nat
      BY <3>1 DEF IsReport
    <3>4. \A i \in 1 .. Len(todo') : i \in 1 .. Len(todo') - 1 \/ i = Len(todo')
      BY <3>3
    <3> QED
      BY <2>1, <2>2, <3>1, <3>2, <3>4 DEF IsReport, Reporting
  <2>4. CASE AllReceived
    <3>1. todo' = <<Done({})>> /\ pc' = "report"
      BY <2>4 DEF AllReceived, Say
    <3>2. job.name # "porttcp"
      BY <2>4, PhaseNames DEF AllReceived, Idle
    <3>3. Len(todo') = 1
      BY <3>1
    <3> QED
      BY <2>1, <2>2, <3>1, <3>2, <3>3 DEF Reporting
  <2>5. CASE (Starts \/ Works) /\ ~AllReceived
    <3>1. \/ todo' = <<>> \/ todo' = <<Log>> \/ todo' = <<Log, Log>>
          \/ todo' = <<Artifact("nmap-xml")>>
          \/ \E x \in Lookups : todo' = <<Finding(Key(x), {})>>
      BY <2>5 DEF Starts, StartMock, StartScan, StartLookups, StartRequest, Works, MockStep,
                  NextPort, Dial, StopDialling, AskAll, Receive, NmapEnds, Say
    <3>2. Log.kind # "done" /\ Artifact("nmap-xml").kind # "done"
          /\ \A x \in Lookups : Finding(Key(x), {}).kind # "done"
      BY DEF Log, Artifact, Finding
    <3>3. \A i \in 1 .. Len(todo') : todo'[i].kind # "done"
      BY <3>1, <3>2
    <3> QED
      BY <2>2, <3>3 DEF Reporting
  <2> QED
    BY <1>7, <2>3, <2>4, <2>5
<1> QED
  BY <1>2, <1>3, <1>4, <1>5, <1>6, <1>7, NextSorts

\* Nothing has been asked yet, or nothing that a report does not tell.
LEMMA NothingFound ==
  ASSUME BuiltinInv, pc \in {"start", "steps", "resolve", "ask", "parse"}
  PROVE  found = {} /\ Open = {} /\ Mixed = {}
<1>1. Open = {} /\ Mixed = {}
  BY PhaseNames DEF BuiltinInv, Probing, Open, Mixed
<1>2. found = {}
  BY <1>1 DEF BuiltinInv, Keeping
<1> QED
  BY <1>1, <1>2

LEMMA KeepingAnswer ==
  ASSUME BuiltinInv, NEW x \in Probes, Answer(x)
  PROVE  Keeping'
<1>1. BuiltinTypeOK /\ Keeping /\ Probing /\ Phase
  BY DEF BuiltinInv
<1>2. /\ probe[x] = "out" /\ result = None
      /\ UNCHANGED <<job, pc, left, todo, half, labels, kept, refused, trace, ctx, result, faults>>
  BY DEF Answer
<1>3. \/ pc \in {"scan", "slot"} /\ job.name = "porttcp"
      \/ pc = "gather" /\ job.name = "dns" /\ x \in left
  <2>1. x \in Out
    BY <1>2 DEF Out
  <2>2. job.name \in {"porttcp", "dns"} /\ pc \notin {"start", "resolve", "report"}
    BY <1>1, <1>2, <2>1 DEF Probing
  <2>3. pc = "gather" => x \in left
    BY <1>1, <1>2, <2>2, PhaseNames DEF BuiltinInv, Gathering, Probing
  <2> QED
    BY <1>1, <2>2, <2>3 DEF Phase
<1>4. /\ Open \subseteq Open' /\ Open' \subseteq Open \cup {x}
      /\ Mixed \subseteq Mixed' /\ Mixed' \subseteq Mixed \cup {x}
      /\ job.name # "dns" => Mixed' = Mixed
      /\ found' = IF x \in Open' \cup Mixed' THEN found \cup {Key(x)} ELSE found
  <2>1. CASE probe' = [probe EXCEPT ![x] = "hit"] /\ found' = found \cup {Key(x)}
    BY <1>1, <1>2, <2>1 DEF Open, Mixed, BuiltinTypeOK
  <2>2. CASE /\ job.name = "dns" /\ probe' = [probe EXCEPT ![x] = "mixed"]
             /\ found' = found \cup {Key(x)}
    BY <1>1, <1>2, <2>2 DEF Open, Mixed, BuiltinTypeOK
  <2>3. CASE /\ probe' = [probe EXCEPT ![x] = "none"] \/ probe' = [probe EXCEPT ![x] = "cut"]
             /\ found' = found
    BY <1>1, <1>2, <2>3 DEF Open, Mixed, BuiltinTypeOK
  <2> QED
    BY <2>1, <2>2, <2>3 DEF Answer
<1>5. \A y : Key(y)' = Key(y)
  BY <1>2 DEF Key
<1>6. found' = {Key(y) : y \in Open' \cup Mixed'} /\ (job.name # "dns" => Mixed' = {})
  BY <1>1, <1>3, <1>4 DEF Keeping
<1>7. found' \ Dropped' \subseteq (found \ Dropped) \cup Pending'
  <2>1. Dropped' = {Key(y) : y \in Mixed'} /\ Dropped \subseteq Dropped'
    BY <1>4, <1>5 DEF Dropped
  <2>2. ASSUME x \in Open' PROVE Key(x) \in Pending'
    BY <1>2, <1>3, <1>5, <2>2 DEF Pending
  <2>3. x \in Mixed' => Key(x) \in Dropped'
    BY <2>1
  <2> QED
    BY <1>4, <2>1, <2>2, <2>3
<1>8. Pending \subseteq Pending'
  BY <1>2, <1>4, <1>5 DEF Pending
<1>9. Settled' = Settled /\ Queued' = Queued
  BY <1>2 DEF Settled, Queued
<1> QED
  BY <1>1, <1>2, <1>3, <1>5, <1>6, <1>7, <1>8, <1>9 DEF Keeping

LEMMA KeepingRecord ==
  ASSUME BuiltinInv, Record
  PROVE  Keeping'
<1>1. BuiltinTypeOK /\ Keeping
  BY DEF BuiltinInv
<1>2. /\ todo # <<>> /\ half' = FALSE
      /\ UNCHANGED <<job, pc, left, probe, found, labels, kept, refused, ctx>>
      /\ half \/ Head(todo).kind \notin {"finding", "artifact_ref"}
      /\ todo' = todo \/ todo' = Tail(todo)
  BY <1>1, RecordSteps
<1>4. /\ Open' = Open /\ Mixed' = Mixed /\ Dropped' = Dropped
      /\ Pending' = Pending /\ Settled' = Settled /\ \A x : Key(x)' = Key(x)
  BY <1>2 DEF Open, Mixed, Dropped, Pending, Settled, Key
<1>5. \A k \in Queued : k \in Queued' \/ (Head(todo).kind = "finding" /\ k = Head(todo).key)
  <2>1. CASE todo' = todo
    BY <2>1 DEF Queued
  <2>2. CASE todo' = Tail(todo)
    <3> SUFFICES ASSUME NEW i \in 1 .. Len(todo), todo[i].kind = "finding", i # 1
                 PROVE  todo[i].key \in Queued'
      BY <1>1, <1>2, HeadTyped DEF Queued
    <3>1. i - 1 \in 1 .. Len(todo') /\ todo'[i - 1] = todo[(i - 1) + 1] /\ (i - 1) + 1 = i
      BY <1>1, <1>2, <2>2, HeadTyped
    <3> QED
      BY <3>1 DEF Queued
  <2> QED
    BY <1>2, <2>1, <2>2
<1>6. ctx = "live" => found \ Dropped \subseteq Settled \cup Queued' \cup Pending
  BY <1>1, <1>2, <1>5 DEF Keeping
<1> QED
  BY <1>1, <1>2, <1>4, <1>6 DEF Keeping

LEMMA KeepingIngest ==
  ASSUME BuiltinInv, Ingest
  PROVE  Keeping'
<1> DEFINE e == Head(todo)
<1>1. BuiltinTypeOK /\ Keeping
  BY DEF BuiltinInv
<1>2. /\ UNCHANGED <<job, pc, left, probe, found, todo, ctx>>
      /\ todo # <<>> /\ e.kind \in {"finding", "artifact_ref"} /\ ~half
  BY DEF Ingest
<1>3. /\ Open' = Open /\ Mixed' = Mixed /\ Dropped' = Dropped
      /\ Pending' = Pending /\ Queued' = Queued /\ \A x : Key(x)' = Key(x)
  BY <1>2 DEF Open, Mixed, Dropped, Pending, Queued, Key
<1>4. Settled \subseteq Settled'
  <2>1. kept \subseteq kept'
    BY <1>2 DEF Ingest, Ingested, IngestLost
  <2>2. refused \subseteq refused'
    BY DEF Ingest
  <2> QED
    BY <2>1, <2>2 DEF Settled
<1>6. ASSUME ctx = "live", e.kind = "finding" PROVE e.key \in Settled'
  <2>1. Ingested(e) \/ refused' = refused \cup {e.key}
    BY <1>6 DEF Ingest
  <2>2. CASE refused' = refused \cup {e.key}
    BY <2>2 DEF Settled
  <2>3. CASE Ingested(e)
    <3> DEFINE f == [key |-> e.key, cites |-> Cited(e)]
    <3>1. kept' = kept \cup {f}
      BY <1>6, <2>3 DEF Ingested
    <3>2. f \in kept' /\ f.key = e.key
      BY <3>1
    <3> HIDE DEF f, e
    <3> QED
      BY <3>2 DEF Settled
  <2> QED
    BY <2>1, <2>2, <2>3
<1> QED
  BY <1>1, <1>2, <1>3, <1>4, <1>6 DEF Keeping

LEMMA KeepingOwn ==
  ASSUME BuiltinInv, Starts \/ Works \/ Reporters
  PROVE  Keeping'
<1>1. BuiltinTypeOK /\ Keeping
  BY DEF BuiltinInv
<1>2. /\ todo = <<>> /\ half' = FALSE
      /\ UNCHANGED <<job, labels, kept, refused, ctx, faults>>
  BY <1>1, OwnStep DEF Keeping, BuiltinTypeOK
<1>3. Settled' = Settled /\ Queued = {} /\ \A x : Key(x)' = Key(x)
  BY <1>2 DEF Settled, Queued, Key
<1>4. CASE Reporters
  <2>1. PICK K : IsReport(todo', found', K)
    BY <1>4, Reported DEF Reporters
  <2>2. found' \subseteq Queued'
    BY <2>1 DEF IsReport, Queued
  <2>3. pc' = "report" /\ probe' = probe
    BY <1>4 DEF Reporters, MockFinds, ScanEnds, ParseXML, Respond, Handshake, Say
  <2>4. job.name \in {"porttcp", "dns"} => found' = found
    <3>1. CASE ScanEnds
      BY <3>1 DEF ScanEnds
    <3>2. CASE MockFinds \/ ParseXML
      BY <3>2, PhaseNames DEF MockFinds, ParseXML, Idle
    <3>3. CASE (\E b \in BOOLEAN : Respond(b)) \/ \E chain \in Chains : Handshake(chain)
      BY <3>3 DEF Respond, Handshake
    <3> QED
      BY <1>4, <3>1, <3>2, <3>3 DEF Reporters
  <2>5. Open' = Open /\ Mixed' = Mixed
    BY <2>3 DEF Open, Mixed
  <2> QED
    BY <1>1, <1>2, <1>3, <2>2, <2>3, <2>4, <2>5 DEF Keeping
<1>5. CASE pc \in {"start", "steps", "resolve", "ask", "parse"} /\ (Starts \/ Works)
  <2>1. found' = {}
    BY <1>5, NothingFound DEF Starts, StartMock, StartScan, StartLookups, StartRequest, Works,
         MockStep, NextPort, Dial, StopDialling, AskAll, Receive, AllReceived, NmapEnds, Idle
  <2>2. Open' = {} /\ Mixed' = {}
    <3>1. CASE probe' = probe
      BY <1>5, <3>1, NothingFound DEF Open, Mixed
    <3>2. CASE AskAll
      <4>1. \A x \in Probes : probe'[x] = "out" \/ probe'[x] = probe[x]
        BY <3>2 DEF AskAll
      <4> QED
        BY <1>5, <4>1, NothingFound DEF Open, Mixed
    <3>3. ~Dial
      BY <1>5 DEF Dial, Idle
    <3> QED
      BY <1>5, <3>1, <3>2, <3>3, ProbesFrame
  <2> QED
    BY <1>2, <2>1, <2>2 DEF Keeping
<1>6. CASE NextPort \/ Dial \/ StopDialling
  <2>1. job.name = "porttcp" /\ pc' \in {"scan", "slot"} /\ found' = found
    BY <1>6, PhaseNames DEF NextPort, Dial, StopDialling, Idle, Say
  <2>2. Open' = Open /\ Mixed' = Mixed
    <3>1. CASE Dial
      <4>1. probe[Min(left)] = "idle"
        BY <3>1, DialsLeft DEF BuiltinInv, Scanning
      <4> HIDE DEF Min
      <4> QED
        BY <1>1, <3>1, <4>1, DialsLeft DEF Open, Mixed, BuiltinTypeOK
    <3>2. CASE probe' = probe
      BY <3>2 DEF Open, Mixed
    <3> QED
      BY <1>6, <3>1, <3>2 DEF NextPort, StopDialling
  <2>3. found' = {Key(x) : x \in Open'} /\ Mixed' = {}
    BY <1>1, <2>1, <2>2 DEF Keeping
  <2>4. found' \subseteq Pending'
    BY <1>3, <2>1, <2>3 DEF Pending
  <2> QED
    BY <1>2, <1>3, <2>1, <2>3, <2>4 DEF Keeping
<1>7. ASSUME NEW x \in Lookups, Receive(x) PROVE Keeping'
  <2>1. /\ job.name = "dns" /\ pc = "gather" /\ pc' = "gather"
        /\ probe' = probe /\ found' = found /\ left' = left \ {x}
        /\ probe[x] = "hit" => todo' = <<Finding(Key(x), {})>>
    BY <1>7, PhaseNames DEF Receive, Idle, Say
  <2>2. Open' = Open /\ Mixed' = Mixed /\ Dropped' = Dropped
    BY <1>3, <2>1 DEF Open, Mixed, Dropped
  <2>3. \A k \in Pending : k \in Pending' \/ (x \in Open /\ k = Key(x))
    BY <1>3, <2>1, <2>2 DEF Pending
  <2>4. x \in Open => Key(x) \in Queued'
    <3> SUFFICES ASSUME x \in Open PROVE Key(x) \in Queued'
      OBVIOUS
    <3>1. todo' = <<Finding(Key(x), {})>>
      BY <2>1 DEF Open
    <3>2. 1 \in 1 .. Len(todo') /\ todo'[1].kind = "finding" /\ todo'[1].key = Key(x)
      BY <3>1 DEF Finding
    <3> QED
      BY <3>2 DEF Queued
  <2>5. ctx = "live" => found \ Dropped \subseteq Settled \cup Queued' \cup Pending'
    BY <1>1, <1>3, <2>3, <2>4 DEF Keeping
  <2> QED
    BY <1>1, <1>2, <1>3, <2>1, <2>2, <2>5 DEF Keeping
<1>8. CASE AllReceived
  <2>1. /\ job.name = "dns" /\ pc = "gather" /\ pc' = "report" /\ left = {}
        /\ probe' = probe /\ found' = found
    BY <1>8, PhaseNames DEF AllReceived, Idle, Say
  <2>2. Open' = Open /\ Mixed' = Mixed /\ Dropped' = Dropped /\ Pending = {}
    BY <1>3, <2>1 DEF Open, Mixed, Dropped, Pending
  <2> QED
    BY <1>1, <1>2, <1>3, <2>1, <2>2 DEF Keeping
<1>9. Starts \/ MockStep \/ AskAll \/ NmapEnds => pc \in {"start", "steps", "resolve", "ask", "parse"}
  BY DEF Starts, StartMock, StartScan, StartLookups, StartRequest, MockStep, AskAll, NmapEnds, Idle
<1> QED
  BY <1>4, <1>5, <1>6, <1>7, <1>8, <1>9 DEF Works

LEMMA KeepingStep == BuiltinInv /\ [Next]_vars => Keeping'
<1> SUFFICES ASSUME BuiltinInv, [Next]_vars PROVE Keeping'
  OBVIOUS
<1>1. CASE UNCHANGED vars
  BY <1>1 DEF vars, BuiltinInv, Keeping, Settled, Queued, Pending, Open, Mixed, Dropped, Key
<1>2. CASE CtxEnds
  <2>1. UNCHANGED <<job, pc, probe, found, todo, half>> /\ ctx' # "live"
    BY <1>2 DEF CtxEnds
  <2>2. Open' = Open /\ Mixed' = Mixed /\ \A x : Key(x)' = Key(x)
    BY <2>1 DEF Open, Mixed, Key
  <2> QED
    BY <2>1, <2>2 DEF BuiltinInv, Keeping
<1>3. CASE Returns
  <2>1. UNCHANGED <<job, pc, left, probe, found, todo, half, kept, refused, ctx, faults>>
    BY <1>3 DEF Returns, Reject, MockStops, MockFails, RequestFails, NmapFails, ParseFails, Return
  <2> QED
    BY <2>1 DEF BuiltinInv, Keeping, Settled, Queued, Pending, Open, Mixed, Dropped, Key
<1> QED
  BY <1>1, <1>2, <1>3, KeepingIngest, KeepingRecord, KeepingAnswer, KeepingOwn, NextSorts

LEMMA BuiltinInvariant == Spec => []BuiltinInv
<1>1. BuiltinInv /\ [Next]_vars => BuiltinInv'
  BY TypeStep, PhaseStep, ProbingStep, ScanningStep, GatheringStep, ReportingStep, KeepingStep
     DEF BuiltinInv
<1> QED
  BY <1>1, BuiltinInvInit, PTL DEF Spec

-----------------------------------------------------------------------------
(* What the runs check, for every job. *)

\* The job, the probes, the queue and what has been recorded keep their types.
THEOREM BuiltinTypeCorrect == Spec => []BuiltinTypeOK
BY BuiltinInvariant, PTL DEF BuiltinInv

\* A collector that succeeds has tried everything it was asked to, and the
\* summary of a scan names the ports that answered, whatever errors of
\* probes, emissions and statements it has passed over (porttcp, dnspassive).
THEOREM SuccessIsAlwaysComplete == Spec => []SuccessIsComplete
<1>1. BuiltinInv => SuccessIsComplete
  <2> SUFFICES ASSUME BuiltinInv, result = "ok" PROVE SuccessIsComplete
    BY DEF SuccessIsComplete
  <2>1. BuiltinTypeOK /\ Probing /\ ctx = "live" /\ result # None
    BY BuiltinAssumption DEF BuiltinInv, Reporting
  <2>2. /\ todo # <<>> /\ Head(todo) \in trace /\ Head(todo).kind = "done"
        /\ 1 \in 1 .. Len(todo) /\ Head(todo) = todo[1]
    <3>1. todo # <<>> /\ Head(todo) \in trace /\ Head(todo).kind = "done"
      BY DEF BuiltinInv, Reporting
    <3>2. Len(todo) \in Nat /\ Len(todo) >= 1 /\ Head(todo) = todo[1]
      BY <2>1, <3>1, HeadTyped
    <3> QED
      BY <3>1, <3>2
  <2>3. pc = "report" /\ (job.name = "porttcp" => Head(todo) = Done(found))
    BY <2>2 DEF BuiltinInv, Reporting
  <2>4. ASSUME NEW x \in Probes, probe[x] # "idle" PROVE probe[x] \in {"hit", "none", "mixed"}
    BY <2>1, <2>4 DEF Probing, Out, BuiltinTypeOK
  <2>5. ASSUME job.name = "porttcp"
        PROVE  /\ job.ports # {}
               /\ \A t \in job.ports : 1 <= t.lo /\ t.lo <= t.hi /\ t.hi <= MaxPort
               /\ \A p \in PortsOf(job.ports) : probe[p] \in {"hit", "none"}
               /\ Done({Key(p) : p \in Open}) \in trace
    <3>1. PortsOK(job.ports) /\ PortsOf(job.ports) \subseteq Probes
      BY <2>1, <2>3, <2>5, PortsAreProbes DEF BuiltinInv, BuiltinTypeOK, Phase
    <3>2. \A p \in PortsOf(job.ports) : probe[p] # "idle"
      BY <2>1, <2>3, <2>5 DEF BuiltinInv, Scanning
    <3>3. found = {Key(p) : p \in Open} /\ Mixed = {}
      BY <2>5 DEF BuiltinInv, Keeping
    <3>4. \A p \in PortsOf(job.ports) : probe[p] \in {"hit", "none"}
      BY <2>4, <3>1, <3>2, <3>3 DEF Mixed
    <3> QED
      BY <2>2, <2>3, <2>5, <3>1, <3>3, <3>4 DEF PortsOK
  <2>6. job.name = "dns" => \A x \in Lookups : probe[x] \in {"hit", "none", "mixed"}
    BY <2>3, <2>4, ProbesTyped DEF BuiltinInv, Gathering
  <2> QED
    BY <2>5, <2>6 DEF SuccessIsComplete
<1> QED
  BY <1>1, BuiltinInvariant, PTL

\* All that the network answered before a success has become a finding, but
\* for findings that the database refused and for the records of a lookup that
\* had an error too (makeEmit, ingestFinding, dnspassive.go).
THEOREM FoundIsAlwaysKept == Spec => []FoundIsKept
<1>1. BuiltinInv => FoundIsKept
  <2> SUFFICES ASSUME BuiltinInv, result = "ok"
               PROVE  found \ Dropped \subseteq Settled
    BY DEF FoundIsKept, Settled
  <2>1. BuiltinTypeOK /\ ctx = "live" /\ todo # <<>> /\ Head(todo).kind = "done"
    BY DEF BuiltinInv, Reporting
  <2>2. Len(todo) \in Nat /\ Len(todo) >= 1 /\ Head(todo) = todo[1]
    BY <2>1, HeadTyped
  <2>3. pc = "report" /\ Len(todo) = 1
    <3>1. 1 \in 1 .. Len(todo) /\ todo[1].kind = "done"
      BY <2>1, <2>2
    <3> QED
      BY <3>1 DEF BuiltinInv, Reporting
  <2>4. Queued = {}
    BY <2>1, <2>2, <2>3 DEF Queued
  <2>5. Pending = {}
    BY <2>3 DEF Pending
  <2> QED
    BY <2>1, <2>4, <2>5 DEF BuiltinInv, Keeping
<1> QED
  BY <1>1, BuiltinInvariant, PTL

\* A scan has no more connections under way than its concurrency, and no
\* goroutine outlives Execute (porttcp.go: sem, wg; dnspassive.go).
THEOREM ScanIsAlwaysBounded == Spec => []ScanBounded
<1>1. BuiltinInv => ScanBounded
  BY DEF BuiltinInv, Scanning, Probing, ScanBounded, Slots
<1> QED
  BY <1>1, BuiltinInvariant, PTL
=============================================================================
