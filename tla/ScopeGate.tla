----------------------------- MODULE ScopeGate -----------------------------
(***************************************************************************)
(* Where the scope of one project is enforced, while its rules are edited   *)
(* and its windows open and close: Planner.Plan (internal/run), the worker  *)
(* (internal/worker), which starts jobs and ingests what they emit, and the *)
(* calls of the API that create and delete rules.                           *)
(***************************************************************************)
EXTENDS Scope, Integers

CONSTANTS
    RuleRows,   \* rules an operator may ask for
    Targets,    \* targets a run may name, and collectors may discover
    Capabs,     \* capabilities a run names
    Runs,
    MaxTime,    \* bound: the clock stops here
    MaxFaults,  \* bound: failed audit appends, enqueues and upserts
    Other,      \* a target no run names, but a finding may claim
    None

ASSUME ScopeAssumption ==
    /\ \A x \in RuleRows : x.order \in Int
    /\ MaxTime \in Nat /\ MaxFaults \in Nat

VARIABLES
    rules,     \* the rows of scope_rules
    now,       \* time.Now()
    plan,      \* each run's Plan call
    job,       \* state of each (run, capability, target) job
    ingest,    \* each job's target_discovered event in progress
    targets,   \* the rows of targets whose provenance is a run
    events,    \* target_discovered and finding rows of job_events
    findings,  \* jobs a finding has been recorded for
    trail,     \* scope.dropped and finding.quarantine rows of audit_events
    faults

scopeVars == <<rules, now>>
planVars == <<plan, job>>
ingestVars == <<ingest, targets, events, findings>>
vars == <<scopeVars, planVars, ingestVars, trail, faults>>

Pairs == Capabs \X Targets
Jobs == Runs \X Pairs
TargetOf(j) == j[2][2]

\* What a target_discovered payload carries: no port and no URL, which parses
\* as an empty one, and the host that it names, or the identity if it names
\* none and the kind is "host".
Discovered(t, named) ==
    [t EXCEPT !.port = 0, !.url = <<>>, !.parsed = {[host |-> <<>>, path |-> <<>>]},
              !.host = IF named THEN @ ELSE IF t.kind = "host" THEN t.identity ELSE <<>>]

InScope(t) == Evaluate(t, List(rules), now) = "allow"

NoPlan == [pc |-> "none", list |-> <<>>, at |-> 0,
           todo |-> {}, kept |-> {}, dropped |-> {}]
NoIngest == [pc |-> "idle", target |-> None, effect |-> "allow", whole |-> "allow"]

ScopeTypeOK ==
    /\ rules \in SUBSET RuleRows
    /\ \A x, y \in rules : x.order = y.order => x = y
    /\ now \in 0 .. MaxTime
    /\ plan \in [Runs -> [pc      : {"none", "listed", "looping", "returned", "failed"},
                          list    : Seq(RuleRows),
                          at      : 0 .. MaxTime,
                          todo    : SUBSET Pairs,
                          kept    : SUBSET Pairs,
                          dropped : SUBSET Pairs]]
    /\ job \in [Jobs -> {"absent", "queued", "running"}]
    /\ ingest \in [Jobs -> [pc     : {"idle", "allowed", "denied", "record"},
                            target : Targets \cup {None},
                            effect : Effects,
                            whole  : Effects]]
    /\ targets \in SUBSET Targets
    /\ findings \in SUBSET Jobs
    /\ faults \in 0 .. MaxFaults

Init ==
    /\ rules = {}
    /\ now = 0
    /\ plan = [r \in Runs |-> NoPlan]
    /\ job = [j \in Jobs |-> "absent"]
    /\ ingest = [j \in Jobs |-> NoIngest]
    /\ targets = {} /\ events = {} /\ findings = {}
    /\ trail = {}
    /\ faults = 0

Fault == faults < MaxFaults /\ faults' = faults + 1

\* An audit append that may fail, and whose error the caller discards.
AppendOrLose(e) ==
    \/ trail' = trail \cup {e} /\ UNCHANGED faults
    \/ Fault /\ UNCHANGED trail

Tick ==
    /\ now < MaxTime
    /\ now' = now + 1
    /\ UNCHANGED <<rules, planVars, ingestVars, trail, faults>>

-----------------------------------------------------------------------------
(* POST and DELETE /v1/projects/{id}/scope.  The audit append behind each    *)
(* of them, and its failure, are AuditTrail.tla's.                          *)

CreateRule(x) ==
    /\ Validate(x)
    /\ \A y \in rules : y.order # x.order
    /\ rules' = rules \cup {x}
    /\ UNCHANGED <<now, planVars, ingestVars, trail, faults>>

DeleteRule(x) ==
    /\ x \in rules
    /\ rules' = rules \ {x}
    /\ UNCHANGED <<now, planVars, ingestVars, trail, faults>>

-----------------------------------------------------------------------------
(* Planner.Plan *)

PlanList(r) ==
    /\ plan[r].pc = "none"
    /\ plan' = [plan EXCEPT ![r].pc = "listed", ![r].list = List(rules)]
    /\ UNCHANGED <<scopeVars, job, ingestVars, trail, faults>>

\* The run is inserted and the clock read, once for the whole call.
PlanBegin(r) ==
    /\ plan[r].pc = "listed"
    /\ plan' = [plan EXCEPT ![r].pc = "looping", ![r].at = now, ![r].todo = Pairs]
    /\ UNCHANGED <<scopeVars, job, ingestVars, trail, faults>>

\* Defect: the rules are listed again for every pair.
PlannedAfresh(r, t) == Deciding(t, List(rules), now)

Planned(r, t) == Deciding(t, plan[r].list, plan[r].at)

PlanKeep(r, p) ==
    /\ plan[r].pc = "looping" /\ p \in plan[r].todo
    /\ Planned(r, p[2]).effect = "allow"
    /\ job' = [job EXCEPT ![<<r, p>>] = "queued"]
    /\ plan' = [plan EXCEPT ![r].todo = @ \ {p}, ![r].kept = @ \cup {p}]
    /\ UNCHANGED <<scopeVars, ingestVars, trail, faults>>

DropEvent(r, p) ==
    [action |-> "drop", run |-> r, pair |-> p, rule |-> Planned(r, p[2])]

\* Defect: the error of the audit append is ignored, as the worker does.
PlanDropUnaudited(r, p) ==
    /\ plan[r].pc = "looping" /\ p \in plan[r].todo
    /\ Planned(r, p[2]).effect # "allow"
    /\ plan' = [plan EXCEPT ![r].todo = @ \ {p}, ![r].dropped = @ \cup {p}]
    /\ AppendOrLose(DropEvent(r, p))
    /\ UNCHANGED <<scopeVars, job, ingestVars>>

\* deny or out_of_scope: the drop is audited before the loop goes on.
PlanDrop(r, p) ==
    /\ plan[r].pc = "looping" /\ p \in plan[r].todo
    /\ Planned(r, p[2]).effect # "allow"
    /\ plan' = [plan EXCEPT ![r].todo = @ \ {p}, ![r].dropped = @ \cup {p}]
    /\ trail' = trail \cup {DropEvent(r, p)}
    /\ UNCHANGED <<scopeVars, job, ingestVars, faults>>

\* An append or an enqueue fails; the jobs enqueued so far stay.
PlanFail(r) ==
    /\ plan[r].pc = "looping"
    /\ Fault
    /\ plan' = [plan EXCEPT ![r].pc = "failed"]
    /\ UNCHANGED <<scopeVars, job, ingestVars, trail>>

PlanReturn(r) ==
    /\ plan[r].pc = "looping" /\ plan[r].todo = {}
    /\ plan' = [plan EXCEPT ![r].pc = "returned"]
    /\ UNCHANGED <<scopeVars, job, ingestVars, trail, faults>>

-----------------------------------------------------------------------------
(* Pool.execute and the events its collector emits *)

\* From the lease to the collector: nothing looks at the scope.
StartJob(j) ==
    /\ job[j] = "queued"
    /\ job' = [job EXCEPT ![j] = "running"]
    /\ UNCHANGED <<scopeVars, plan, ingestVars, trail, faults>>

\* A finding that names no target, or the job's own, is recorded; one that
\* names another is only audited.
RecordFinding(j) ==
    /\ job[j] = "running" /\ ingest[j].pc = "idle"
    /\ findings' = findings \cup {j}
    /\ UNCHANGED <<scopeVars, planVars, ingest, targets, events, trail, faults>>

Quarantine(j, claim) ==
    /\ job[j] = "running" /\ ingest[j].pc = "idle"
    /\ claim # TargetOf(j)
    /\ AppendOrLose([action |-> "quarantine", job |-> j, claim |-> claim])
    /\ UNCHANGED <<scopeVars, planVars, ingestVars>>

\* target_discovered: the rules are listed and the clock read.
EmitTarget(j, t, named) ==
    LET effect == Evaluate(Discovered(t, named), List(rules), now) IN
    /\ job[j] = "running" /\ ingest[j].pc = "idle"
    /\ ingest' = [ingest EXCEPT ![j] =
          [pc |-> IF effect = "allow" THEN "allowed" ELSE "denied",
           target |-> t, effect |-> effect,
           whole |-> Evaluate(t, List(rules), now)]]
    /\ UNCHANGED <<scopeVars, planVars, targets, events, findings, trail, faults>>

IngestAllowed(j) ==
    /\ ingest[j].pc = "allowed"
    /\ \/ targets' = targets \cup {ingest[j].target} /\ UNCHANGED faults
       \/ Fault /\ UNCHANGED targets
    /\ ingest' = [ingest EXCEPT ![j].pc = "record"]
    /\ UNCHANGED <<scopeVars, planVars, events, findings, trail>>

IngestDenied(j) ==
    /\ ingest[j].pc = "denied"
    /\ AppendOrLose([action |-> "drop", job |-> j, target |-> ingest[j].target])
    /\ ingest' = [ingest EXCEPT ![j].pc = "record"]
    /\ UNCHANGED <<scopeVars, planVars, targets, events, findings>>

\* RecordEvent, whatever became of the event.
RecordTarget(j) ==
    /\ ingest[j].pc = "record"
    /\ events' = events \cup {[job |-> j, target |-> ingest[j].target,
                               effect |-> ingest[j].effect, whole |-> ingest[j].whole]}
    /\ ingest' = [ingest EXCEPT ![j] = NoIngest]
    /\ UNCHANGED <<scopeVars, planVars, targets, findings, trail, faults>>

Next ==
    \/ Tick
    \/ \E x \in RuleRows : CreateRule(x) \/ DeleteRule(x)
    \/ \E r \in Runs :
          \/ PlanList(r) \/ PlanBegin(r) \/ PlanFail(r) \/ PlanReturn(r)
          \/ \E p \in Pairs : PlanKeep(r, p) \/ PlanDrop(r, p)
    \/ \E j \in Jobs :
          \/ StartJob(j) \/ RecordFinding(j)
          \/ IngestAllowed(j) \/ IngestDenied(j) \/ RecordTarget(j)
          \/ \E t \in Targets, named \in BOOLEAN : EmitTarget(j, t, named)
          \/ \E claim \in Targets \cup {Other} : Quarantine(j, claim)

Spec == Init /\ [][Next]_vars

-----------------------------------------------------------------------------
(* Properties *)

\* Editing the rules changes the verdict on a target only through the rule
\* that is edited: its verdict stays unless that rule is the one that
\* decides it before or after, so that a rule appended behind the deciding
\* one, or deleted there, changes nothing, whatever its effect.
VerdictFramed ==
    [][rules' # rules /\ now' = now =>
         \A t \in Targets :
            LET before == Deciding(t, List(rules), now)
                after == Deciding(t, List(rules'), now)
            IN  before # after =>
                   \/ before \in rules \ rules'
                   \/ after \in rules' \ rules
                      /\ (before \in rules => after.order < before.order)]_vars

\* However the rules change and the clock moves while a run is planned, the
\* run's capabilities all get the same verdict on a target.
OneVerdictPerTarget ==
    \A r \in Runs : \A p \in plan[r].kept, q \in plan[r].dropped : p[2] # q[2]

\* run.go:83: before Plan returns, every pair it was asked for is a job or
\* is in the audit log as dropped, by the rule that decided; a Plan that
\* could not write that down says so.
PlanAccounts ==
    \A r \in Runs : plan[r].pc = "returned" =>
        \A p \in Pairs :
            job[<<r, p>>] # "absent" \/ DropEvent(r, p) \in trail

(* What the documents say, and the code does not do. *)

\* architecture.md:135: at dispatch, "a target that became out-of-scope
\* between plan and dispatch (e.g. ROE expired, time window closed) is
\* rejected".
DispatchInScope ==
    [][\A j \in Jobs : job[j] = "queued" /\ job'[j] = "running" => InScope(TargetOf(j))]_vars

\* architecture.md:138: "a finding whose target is not in scope is
\* quarantined".
FindingInScope ==
    [][\A j \in findings' \ findings : InScope(TargetOf(j))]_vars

\* threat-model.md:106: "Every dropped target is recorded in the audit log".
DropsOnRecord ==
    \A e \in events : e.effect # "allow" =>
        [action |-> "drop", job |-> e.job, target |-> e.target] \in trail

\* worker.go:429: "Allowed targets are upserted"; what scope allows is what
\* scope/check and Plan say of the same target.
AllowedTargetsKept ==
    \A e \in events : e.whole = "allow" => e.target \in targets
=============================================================================
