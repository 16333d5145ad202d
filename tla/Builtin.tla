------------------------------ MODULE Builtin ------------------------------
(***************************************************************************)
(* One execution of a collector that runs inside the daemon                 *)
(* (internal/collector/mock, porttcp, dnspassive, httpprobe, tlsinspect,    *)
(* nmapwrap), from the worker's call of Execute to its return, while the    *)
(* job's context may end and the database may refuse a statement.           *)
(*                                                                          *)
(* A collector asks the network, queues what it has learned in `todo`, and  *)
(* emits it event by event through the worker's makeEmit: the event is      *)
(* ingested, then recorded in job_events.  "Probes" are the dials of        *)
(* porttcp and the lookups of dnspassive, which run in goroutines.          *)
(***************************************************************************)
EXTENDS Integers, Sequences, FiniteSets, FiniteSetsExt, SequencesExt

CONSTANTS
    Configs,    \* the job: collector name and the parameters it looks at
    Lookups,    \* host, mx, ns, txt
    Chains,     \* certificate chains a server may present
    MaxPort,    \* 65535
    None,       \* Execute has not returned
    MaxFaults   \* bound: refused statements

VARIABLES
    job,      \* the configuration of this execution
    pc,       \* what the collector does when `todo` is empty
    left,     \* what a loop has still to do: ports to dial, lookups to receive,
              \* steps of mock; nmap: the open ports it has reported
    probe,    \* each probe: idle, out, cut (by the context), none, hit, or
              \* mixed: a lookup that returns records together with an error
    found,    \* dedup keys of what the network has answered
    todo,     \* events to emit
    half,     \* the first of them is ingested and not yet recorded
    labels,   \* the worker's labels: artifacts ingested
    kept,     \* findings upserted: key and evidence
    refused,  \* dedup keys of findings whose ingestion was refused (history)
    trace,    \* events recorded
    ctx,      \* live, deadline or cancelled
    result,   \* what Execute returned
    faults

vars == <<job, pc, left, probe, found, todo, half, labels, kept, refused, trace, ctx, result,
          faults>>

Log == [kind |-> "log"]
Artifact(label) == [kind |-> "artifact_ref", label |-> label]
Finding(key, refs) == [kind |-> "finding", key |-> key, refs |-> refs]
Done(keys) == [kind |-> "done", keys |-> keys]

-----------------------------------------------------------------------------
(* parsePorts: a token is [lo, hi], or [lo, lo] for a single port. *)

PortsOK(tokens) ==
    /\ tokens # {}
    /\ \A t \in tokens : 1 <= t.lo /\ t.lo <= t.hi /\ t.hi <= MaxPort

PortsOf(tokens) == UNION {t.lo .. t.hi : t \in tokens}

\* sort.Ints: each number behind those below it.
Ascending(S) ==
    [i \in 1 .. Cardinality(S) |-> CHOOSE x \in S : Cardinality({y \in S : y < x}) = i - 1]

\* What is asked of nmap, and with it what it reports, is finite.
ASSUME BuiltinAssumption ==
    /\ MaxPort \in Nat /\ MaxFaults \in Nat
    /\ None \notin {"ok", "error", "deadline", "canceled"}
    /\ \A g \in Configs :
          /\ g.name = "porttcp" =>
                g.concurrency \in Int /\ \A t \in g.ports : t.lo \in Int /\ t.hi \in Int
          /\ g.name = "nmap" => IsFiniteSet(PortsOf(g.ports)) /\ PortsOf(g.ports) \subseteq Int
    /\ \A chain \in Chains : Len(chain) \in Nat

Probes == PortsOf(UNION {g.ports : g \in {h \in Configs : h.name = "porttcp" /\ PortsOK(h.ports)}})
              \cup Lookups

Certificates == UNION {{chain[i] : i \in 1 .. Len(chain)} : chain \in Chains}
KeyKinds == {"open", "dns", "mock", "live", "tls", "version", "cert"}
Keys == KeyKinds \X (Int \cup Lookups \cup {c.serial : c \in Certificates})
Labels == {"response-1", "nmap-xml"}
Events ==
    {Log}
    \cup [kind : {"artifact_ref"}, label : Labels]
    \cup [kind : {"finding"}, key : Keys, refs : SUBSET Labels]
    \cup [kind : {"done"}, keys : SUBSET Keys]

BuiltinTypeOK ==
    /\ job \in Configs
    /\ pc \in {"start", "steps", "scan", "slot", "resolve", "gather", "ask", "parse", "report"}
    /\ left \in SUBSET (Int \cup Lookups)
    /\ probe \in [Probes -> {"idle", "out", "cut", "none", "hit", "mixed"}]
    /\ found \in SUBSET Keys
    /\ todo \in Seq(Events)
    /\ half \in BOOLEAN
    /\ labels \in SUBSET Labels
    /\ refused \in SUBSET Keys
    /\ kept \in SUBSET [key : Keys, cites : SUBSET Labels]
    /\ trace \in SUBSET Events
    /\ ctx \in {"live", "deadline", "cancelled"}
    /\ result \in {None, "ok", "error", "deadline", "canceled"}
    /\ faults \in 0 .. MaxFaults

Init ==
    /\ job \in Configs
    /\ pc = "start"
    /\ left = {}
    /\ probe = [x \in Probes |-> "idle"]
    /\ found = {}
    /\ todo = <<>>
    /\ half = FALSE
    /\ labels = {}
    /\ kept = {}
    /\ refused = {}
    /\ trace = {}
    /\ ctx = "live"
    /\ result = None
    /\ faults = 0

Fault == faults < MaxFaults /\ faults' = faults + 1
CtxErr == IF ctx = "deadline" THEN "deadline" ELSE "canceled"

\* The collector's own code runs: it waits for nothing and emits nothing.
Idle(where) == result = None /\ todo = <<>> /\ pc = where

Return(r) ==
    /\ result' = r
    /\ UNCHANGED <<job, pc, left, probe, found, todo, half, labels, kept, refused, trace, ctx, faults>>

Say(events, next) ==
    /\ todo' = events
    /\ pc' = next
    /\ UNCHANGED <<job, half, labels, kept, refused, trace, ctx, result, faults>>

\* The deadline of the job, or a shutdown of the daemon.
CtxEnds ==
    /\ result = None /\ ctx = "live"
    /\ ctx' \in {"deadline", "cancelled"}
    /\ UNCHANGED <<job, pc, left, probe, found, todo, half, labels, kept, refused, trace, result,
                   faults>>

-----------------------------------------------------------------------------
(* makeEmit *)

\* evidence_refs of these collectors are Go []string; what comes from an
\* external collector is decoded JSON, []any.
RefsType == "[]string"

\* ingestFinding: only []any is looked at.
Cited(e) == IF RefsType = "[]any" THEN e.refs \cap labels ELSE {}

Ingested(e) ==
    IF e.kind = "finding"
    THEN kept' = kept \cup {[key |-> e.key, cites |-> Cited(e)]} /\ UNCHANGED labels
    ELSE labels' = labels \cup {e.label} /\ UNCHANGED kept

\* The statement may have taken effect; but the worker notes no label then.
IngestLost(e) == (e.kind = "finding" /\ Ingested(e)) \/ UNCHANGED <<labels, kept>>

\* An error here is only logged.
Ingest ==
    LET e == Head(todo) IN
    /\ result = None /\ todo # <<>> /\ ~half
    /\ e.kind \in {"finding", "artifact_ref"}
    /\ half' = TRUE
    /\ \/ ctx = "live" /\ Ingested(e) /\ UNCHANGED <<refused, faults>>
       \/ ctx # "live" /\ IngestLost(e) /\ UNCHANGED <<refused, faults>>
       \/ /\ Fault /\ IngestLost(e)
          /\ refused' = IF e.kind = "finding" THEN refused \cup {e.key} ELSE refused
    /\ UNCHANGED <<job, pc, left, probe, found, todo, trace, ctx, result>>

Recordable ==
    /\ result = None /\ todo # <<>>
    /\ half \/ Head(todo).kind \notin {"finding", "artifact_ref"}

Recorded(e) == trace' = trace \cup {e}

\* Defect: the error of RecordEvent is logged like that of an ingestion.
AfterErrorIgnored(err) ==
    LET e == Head(todo) IN
    IF e.kind = "done"
    THEN result' = "ok" /\ UNCHANGED todo
    ELSE todo' = Tail(todo) /\ UNCHANGED result

\* RecordEvent fails: mock returns the error at once, the others only that
\* of the last event.
AfterError(err) ==
    LET e == Head(todo) IN
    IF e.kind = "done" \/ job.name = "mock"
    THEN result' = err /\ UNCHANGED todo
    ELSE todo' = Tail(todo) /\ UNCHANGED result

AfterRecord ==
    IF Head(todo).kind = "done"
    THEN result' = "ok" /\ UNCHANGED todo
    ELSE todo' = Tail(todo) /\ UNCHANGED result

RecordLost(e) == Recorded(e) \/ UNCHANGED trace

\* A statement on a context that has ended fails, sent or not.
Record ==
    /\ Recordable
    /\ half' = FALSE
    /\ \/ ctx = "live" /\ Recorded(Head(todo)) /\ AfterRecord /\ UNCHANGED faults
       \/ ctx # "live" /\ RecordLost(Head(todo)) /\ AfterError(CtxErr) /\ UNCHANGED faults
       \/ Fault /\ RecordLost(Head(todo)) /\ AfterError("error")
    /\ UNCHANGED <<job, pc, left, probe, found, labels, kept, refused, ctx>>

-----------------------------------------------------------------------------
(* The head of each Execute: parameters, then a log line *)

Acceptable ==
    /\ job.targetOK   \* the kind and the identity of the target suit the collector
    /\ job.name = "porttcp" => PortsOK(job.ports)

Reject == Idle("start") /\ ~Acceptable /\ Return("error")

StartMock ==
    /\ Idle("start") /\ job.name = "mock"
    /\ left' = 1 .. job.steps
    /\ Say(<<>>, "steps")
    /\ UNCHANGED <<probe, found>>

StartScan ==
    /\ Idle("start") /\ job.name = "porttcp" /\ Acceptable
    /\ left' = PortsOf(job.ports)
    /\ Say(<<Log>>, "scan")
    /\ UNCHANGED <<probe, found>>

StartLookups ==
    /\ Idle("start") /\ job.name = "dns" /\ Acceptable
    /\ Say(<<Log>>, "resolve")
    /\ UNCHANGED <<left, probe, found>>

StartRequest ==
    /\ Idle("start") /\ job.name \in {"http", "tls", "nmap"} /\ Acceptable
    /\ Say(<<Log>>, "ask")
    /\ UNCHANGED <<left, probe, found>>

-----------------------------------------------------------------------------
(* mock *)

MockStep ==
    /\ Idle("steps") /\ left # {} /\ ctx = "live"
    /\ left' = left \ {Min(left)}
    /\ Say(<<Log, Log>>, "steps")
    /\ UNCHANGED <<probe, found>>

\* ctx.Err() before a step, or the delay after one.
MockStops ==
    /\ Idle("steps") /\ ctx # "live"
    /\ left # {} \/ (job.delay /\ job.steps > 0)
    /\ Return(CtxErr)

MockFails == Idle("steps") /\ left = {} /\ job.fail /\ Return("error")

MockFinds ==
    /\ Idle("steps") /\ left = {} /\ ~job.fail
    /\ found' = {<<"mock", i>> : i \in 1 .. 2}
    /\ Say(<<Finding(<<"mock", 1>>, {}), Finding(<<"mock", 2>>, {}), Done({})>>, "report")
    /\ UNCHANGED <<left, probe>>

-----------------------------------------------------------------------------
(* porttcp *)

\* Defect: a dial that is refused keeps its slot.
OutOrRefused == {x \in Probes : probe[x] \in {"out", "none"}}

Out == {x \in Probes : probe[x] = "out"}
Slots == IF job.concurrency < 1 THEN 1 ELSE job.concurrency

\* Defect: one goroutine too many gets a slot.
SlotFreeOffByOne == Cardinality(Out) <= Slots

SlotFree == Cardinality(Out) < Slots

\* The loop looks at the context, then waits for a slot, then starts a
\* goroutine that dials.
NextPort ==
    /\ Idle("scan") /\ left # {} /\ ctx = "live"
    /\ Say(<<>>, "slot")
    /\ UNCHANGED <<left, probe, found>>

Dial ==
    /\ Idle("slot") /\ SlotFree
    /\ probe' = [probe EXCEPT ![Min(left)] = "out"]
    /\ left' = left \ {Min(left)}
    /\ Say(<<>>, "scan")
    /\ UNCHANGED found

StopDialling ==
    /\ Idle("scan") /\ left # {} /\ ctx # "live"
    /\ left' = {}
    /\ Say(<<>>, "scan")
    /\ UNCHANGED <<probe, found>>

Key(x) == IF job.name = "dns" THEN <<"dns", x>> ELSE <<"open", x>>

\* A dial or a lookup comes back with something, with nothing, or because the
\* context has ended; and a lookup, of which the resolver drops some records,
\* with the others and an error.
Answer(x) ==
    /\ probe[x] = "out" /\ result = None
    /\ \/ /\ probe' = [probe EXCEPT ![x] = "hit"]
          /\ found' = found \cup {Key(x)}
       \/ /\ job.name = "dns"
          /\ probe' = [probe EXCEPT ![x] = "mixed"]
          /\ found' = found \cup {Key(x)}
       \/ probe' = [probe EXCEPT ![x] = "none"] /\ UNCHANGED found
       \/ ctx # "live" /\ probe' = [probe EXCEPT ![x] = "cut"] /\ UNCHANGED found
    /\ UNCHANGED <<job, pc, left, todo, half, labels, kept, refused, trace, ctx, result, faults>>

Open == {x \in Probes : probe[x] = "hit"}
Mixed == {x \in Probes : probe[x] = "mixed"}

\* What dnspassive has the records of and passes over.
Dropped == {Key(x) : x \in Mixed}

OpenReport ==
    LET ports == Ascending(Open) IN
    [i \in 1 .. Len(ports) |-> Finding(<<"open", ports[i]>>, {})] \o <<Done(found)>>

\* Defect: the results are read without wg.Wait.
ScanEndsEarly ==
    /\ Idle("scan") /\ left = {}
    /\ Say(OpenReport, "report")
    /\ UNCHANGED <<left, probe, found>>

\* wg.Wait, sort, report.
ScanEnds ==
    /\ Idle("scan") /\ left = {} /\ Out = {}
    /\ Say(OpenReport, "report")
    /\ UNCHANGED <<left, probe, found>>

-----------------------------------------------------------------------------
(* dnspassive *)

AskAll ==
    /\ Idle("resolve")
    /\ probe' = [x \in Probes |-> IF x \in Lookups THEN "out" ELSE probe[x]]
    /\ left' = Lookups
    /\ Say(<<>>, "gather")
    /\ UNCHANGED found

\* The next result from the channel: a finding, a line for an error whatever
\* records came with it, or nothing for an answer without records.
Receive(x) ==
    /\ Idle("gather") /\ x \in left /\ probe[x] # "out"
    /\ left' = left \ {x}
    /\ \/ probe[x] = "hit" /\ Say(<<Finding(Key(x), {})>>, "gather")
       \/ probe[x] # "hit" /\ Say(<<Log>>, "gather")
       \/ probe[x] = "none" /\ Say(<<>>, "gather")
    /\ UNCHANGED <<probe, found>>

AllReceived ==
    /\ Idle("gather") /\ left = {}
    /\ Say(<<Done({})>>, "report")
    /\ UNCHANGED <<left, probe, found>>

-----------------------------------------------------------------------------
(* httpprobe, tlsinspect: one connection *)

\* No connection, no handshake, no answer, no temporary file.  The client's,
\* the dialer's and the handshake's own timeouts are DeadlineExceeded too.
RequestFails ==
    /\ Idle("ask") /\ job.name \in {"http", "tls"}
    /\ \E r \in {"error", "deadline"} \cup (IF ctx = "live" THEN {} ELSE {CtxErr}) : Return(r)

\* A response, over TLS or not.
Respond(secure) ==
    /\ Idle("ask") /\ job.name = "http"
    /\ found' = {<<"live", 0>>} \cup (IF secure THEN {<<"tls", 0>>} ELSE {})
    /\ Say(<<Artifact("response-1"), Finding(<<"live", 0>>, {"response-1"})>>
               \o (IF secure THEN <<Finding(<<"tls", 0>>, {})>> ELSE <<>>)
               \o <<Done({})>>, "report")
    /\ UNCHANGED <<left, probe>>

\* A certificate's key is its serial number, whoever issued it.
Handshake(chain) ==
    /\ Idle("ask") /\ job.name = "tls"
    /\ LET certs == [i \in 1 .. Len(chain) |-> Finding(<<"cert", chain[i].serial>>, {})] IN
       /\ found' = {<<"version", 0>>} \cup {certs[i].key : i \in 1 .. Len(chain)}
       /\ Say(<<Finding(<<"version", 0>>, {})>> \o certs \o <<Done({})>>, "report")
    /\ UNCHANGED <<left, probe>>

-----------------------------------------------------------------------------
(* nmapwrap *)

\* The process cannot be started, fails, or is killed at the end of the
\* context: an ExitError, but the context's error if it ended before the start
\* or as the process exited with 0.
NmapFails ==
    /\ Idle("ask") /\ job.name = "nmap"
    /\ \E r \in {"error"} \cup (IF ctx = "live" THEN {} ELSE {CtxErr}) : Return(r)

NmapEnds ==
    /\ Idle("ask") /\ job.name = "nmap"
    /\ left' \in SUBSET PortsOf(job.ports)
    /\ Say(<<Artifact("nmap-xml")>>, "parse")
    /\ UNCHANGED <<probe, found>>

\* The output is no XML; it has been ingested by now.
ParseFails == Idle("parse") /\ Return("error")

ParseXML ==
    LET ports == Ascending(left) IN
    /\ Idle("parse")
    /\ found' = {<<"open", p>> : p \in left}
    /\ Say([i \in 1 .. Len(ports) |-> Finding(<<"open", ports[i]>>, {"nmap-xml"})]
              \o <<Done({})>>, "report")
    /\ UNCHANGED <<left, probe>>

-----------------------------------------------------------------------------
Nmap == NmapFails \/ NmapEnds

Ask == RequestFails \/ (\E b \in BOOLEAN : Respond(b)) \/ (\E ch \in Chains : Handshake(ch))

Run ==
    \/ Reject \/ StartMock \/ StartScan \/ StartLookups \/ StartRequest
    \/ MockStep \/ MockStops \/ MockFails \/ MockFinds
    \/ NextPort \/ Dial \/ StopDialling \/ ScanEnds
    \/ AskAll \/ (\E x \in Lookups : Receive(x)) \/ AllReceived
    \/ Ask \/ ParseFails \/ ParseXML

Emit == Ingest \/ Record

Next == CtxEnds \/ Run \/ Nmap \/ Emit \/ \E x \in Probes : Answer(x)

Spec == Init /\ [][Next]_vars

\* The collector's code and the database go on.  A dial, a lookup and a
\* request have timeouts of their own; nmap has none, but is killed when the
\* context ends.  No context has to end.
FairSpec ==
    /\ Spec
    /\ WF_vars(Run) /\ WF_vars(Emit)
    /\ \A x \in Probes : WF_vars(Answer(x))
    /\ WF_vars(ctx # "live" /\ Nmap)

-----------------------------------------------------------------------------
(* Properties *)

\* Success means that everything was tried: no dial or lookup was skipped or
\* cut short by a context that ended meanwhile, although their errors and
\* those of every event but the last are ignored; a list of ports that names
\* none, or a range of none, is not passed over; and the summary of a scan
\* names the ports that answered.
SuccessIsComplete ==
    result = "ok" =>
        /\ job.name = "porttcp" =>
              /\ job.ports # {}
              /\ \A t \in job.ports : 1 <= t.lo /\ t.lo <= t.hi /\ t.hi <= MaxPort
              /\ \A p \in PortsOf(job.ports) : probe[p] \in {"hit", "none"}
              /\ Done({Key(p) : p \in Open}) \in trace
        /\ job.name = "dns" => \A x \in Lookups : probe[x] \in {"hit", "none", "mixed"}

\* Success means that everything the network answered is a finding, even what
\* arrived as the context ended, but for what was lost on the way there: a
\* finding whose own ingestion the database refused, which is only logged, and
\* the records of a lookup that had an error too, which are dropped.
FoundIsKept ==
    result = "ok" =>
        found \ Dropped \subseteq {f.key : f \in kept} \cup refused

\* A scan never has more connections under way than its concurrency, of 1 at
\* least; and no goroutine outlives Execute, however it ends.
ScanBounded ==
    /\ job.name = "porttcp" => Cardinality(Out) <= (IF job.concurrency < 1 THEN 1 ELSE job.concurrency)
    /\ result # None => Out = {}

\* Execute returns, unless it waits for an nmap that has no deadline.
ExecuteReturns ==
    ctx # "live" \/ job.name # "nmap" ~> result # None

(* What the documents of the code say, and the code does not do. *)

\* dnspassive.go:11: "Each non-empty result becomes a finding".
EveryResultFound ==
    job.name = "dns" /\ result = "ok" /\ faults = 0 => found \subseteq {f.key : f \in kept}

\* collector-protocol.md:102: evidence_refs "are labels the collector used in
\* earlier artifact_ref events", each resolved to its sha256.
EvidenceCited ==
    \A e \in trace :
        e.kind = "finding" /\ e.refs \subseteq labels /\ faults = 0 /\ ctx = "live"
            => \E f \in kept : f.key = e.key /\ e.refs \subseteq f.cites

\* worker.go:244: all emissions are persisted into job_events, "so the operator
\* has a complete trace of what happened".
TraceComplete ==
    result = "ok" =>
        \A f \in kept : \E e \in trace : e.kind = "finding" /\ e.key = f.key
=============================================================================
