# Polypent: a verification project

Polypent runs security collectors against the targets of a project, within the
scope its operators have written down. One daemon (`polypentd`) holds the HTTP
API, the planner, a pool of workers and the collectors compiled in; all lasting
state is in PostgreSQL and in a directory of artifacts. This directory models
that daemon in TLA+: the parts in which several actors change the same rows,
in which a step may fail or the process die between two statements, and in
which a verdict depends on time and on order. TLC checks small instances, and
TLAPS proves the theorems listed below for all of them.

    tlc -workers 2 -config MCLeaseTx.cfg MCLeaseTx      # one run
    tlapm QueueProofs.tla                               # one proof module

`PROJECT.json` lists the runs with their properties, the lines of code behind
every definition, one mutant per property that shows what would break it, the
hazards of the code and the findings.

## Inventory

State, operations and what is hard, per component of the repository (`src/`).

| Component | State | Operations | Hard because | Correct when |
|---|---|---|---|---|
| Job queue `internal/queue` | rows of `jobs` (status, leased_by, lease_expires_at, attempts), `projects.max_concurrent_jobs` | Enqueue, Lease, MarkRunning, Complete, Cancel, CancelRun, ReclaimExpired | Lease is a transaction of four statements under a row lock and an advisory lock; leases expire under running workers | caps hold; one holder per lease; terminal rows stay terminal |
| Planner, verdict `internal/run` | rows of `runs` | Plan, MaybeFinishRun | Plan is a loop of statements, workers finish jobs meanwhile; the verdict takes two statements | every pair is a job or an audited drop; a finished run has only finished jobs, and the right verdict |
| Worker pool `internal/worker` | each goroutine's job, label map | loop, execute, reclaim ticker, emit | crash, shutdown, lost lease, failed statement anywhere; whoever finishes last finishes the run | results come from the lease's holder; nothing is left behind for ever |
| Scope engine `internal/scope` | none (rules in `scope_rules`) | Validate, Evaluate; Create, List, Delete | first match over windows, ports and nine kinds of pattern; rules change under a plan | the least order decides; an edit changes only what its rule decides |
| Audit log `internal/audit` | rows of `audit_events`, an advisory lock, a sequence | Append, Verify | concurrent appends, ids before commits, failures with the lock held | the chain verifies; an answered call has its row |
| Catalog, registry `internal/catalog`, `internal/collector` | rows of `collectors_catalog`, a map in memory | upsert and delete calls, Register, Get, boot | check-then-act over two locks; memory is rebuilt from rows at boot | what was created is served; nothing is swapped; a restart works |
| Artifacts `internal/artifact` | files named by hash, rows of `artifacts` | Put, Record, Open | file, row and label are three steps; one row for all projects | what a finding cites by a label exists and can be fetched |
| Findings `internal/finding` | rows of `findings` by (project, collector, dedup_key) | Upsert, list | concurrent re-emissions; `NOW()` of a statement that waits; a second statement asks what the first did | evidence accumulates; the caller is told the truth |
| Manifest `internal/manifest` | none | Build, Sign, Verify | five queries without a transaction | it lists what the run found, and all it cites |
| External supervisor `internal/external`, `internal/protocol/ndjson` | a process and its group, pipes, a context | Execute | output, exit, deadline and shutdown in any order; helpers that keep the pipes | success means all was recorded; the deadline ends it; nothing survives it |
| Tokens and roles `internal/auth` | rows of `api_tokens`, a principal per request | Issue, Lookup, HasAny, Revoke, bootstrap | a request is authenticated once and goes on while its token is revoked; the first token is counted, minted and logged in three steps | no token reaches further than its issuer; a revoked one begins nothing; what can be presented is on record |
| Vault `internal/secrets` | rows of `project_secrets`, a master key per process | Put, Decrypt, Delete; `resolveSecrets` of the worker | a job names keys at plan time and reads them one by one at dispatch, while they are rotated and the daemon restarts | a job gets current values of its own project, or fails |
| Built-in collectors `internal/collector/*` | goroutines of one execution, the events they emit | Execute of mock, porttcp, dnspassive, httpprobe, tlsinspect, nmapwrap | the context ends under dials and lookups whose errors are dropped; so are those of all events but the last | success means that all was tried and kept; Execute returns |
| Projects, targets `internal/project`, `internal/target` | rows of `projects`, `targets` | CRUD; Upsert merges provenance | operators and runs upsert the same target | no provenance is lost |
| API `internal/api` | none of its own | handlers over the above, recovery middleware | mutation and audit append are two transactions | every mutation is on record |
| CLI, config, logging, migrations, example collectors, conformance kit | none in the daemon | — | — | — |

How they interact: the API calls Planner, Queue, the stores and Append one
after the other; Planner lists the rules, inserts the run, and enqueues or
audits pair by pair; each worker leases, marks running, executes a collector
from the registry with a callback (`emit`) that ingests its events on the
worker's goroutine, completes, and tries to finish the run; the supervisor is
a collector that starts a process; a ticker reclaims expired leases. All
sharing between goroutines is through PostgreSQL, except the registry map, and
all exclusion is by row locks, two kinds of advisory lock and unique indexes.

## Modules

    JobQueue  <--EXTENDS--  LeaseTx        (implements JobQueue!QueueSpec)
       ^------EXTENDS-----  Dispatch       (planner, workers, cancel;
                                            implements RunLife!Spec)
    Scope     <--EXTENDS--  ScopeGate      (rules, plan, ingestion, clock)
       ^------EXTENDS-----  ScopeInputs    (the engine on its inputs)
    Access    <--EXTENDS--  Vault          (tokens and requests; secrets and jobs)
    AuditTrail                         (implements AuditLog!Spec)
    Catalog   Evidence   Supervisor   Builtin

* **JobQueue**: the contract of `queue.go`. Each exported method is one atomic
  action over `status`, `holder`, `expired`, `attempts`; `cap` is
  `max_concurrent_jobs`. Jobs are identities allocated beforehand, so that a
  job's run and project are constant functions. `expired` stands for
  `lease_expires_at < NOW()`; `ExpireLease` is time. `capSeen` is history: a
  lease may go by any cap the project has had, since Lease reads it before it
  waits. (A tighter reading, "the cap in force", is false of the code, and of
  any code that does not lock the project's row.)
* **LeaseTx**: `Lease` one statement at a time. `tx[w]` is the transaction of a
  worker: the candidate whose row it has locked, the cap it has read, and where
  it is. `capLock` is the advisory lock. A commit or a rollback releases both.
  The other methods are single statements that wait for row locks.
* **Dispatch**: `Planner.Plan`, `Pool.execute` and `CancelRun` over the queue,
  one step per statement: `plan`, `wk` and `cancel` say where each call is.
  `CallFails`, `PlanFail`, `CancelFails`, `LeaseLost` and `Crash` let any of
  them fail, or take effect with a lost reply.
* **RunLife**: what a run promises, without queue and workers: submitted, jobs
  admitted and ended, a claim that all of them have ended, one verdict or a
  cancellation, which is final. `Dispatch!Life` maps a job's status to its
  outcome, a Plan call in progress to `accepting`, and the workers between the
  two statements of MaybeFinishRun to `claims`. It is an abstraction of what the
  code does, so a verdict may be older than a job that was admitted after it
  (FinishedRunIsSettled below).
* **Scope**: the engine as operators. Texts are sequences of pieces, finer than
  labels of a name (with their dots) or segments of a path, so that prefix and
  suffix rules are `IsPrefix` and `IsSuffix`, and `example.com` ends
  `evil-example.com`; names and hosts are folded to one case beforehand, so that
  `EqualFold` and `ToLower` are not checked. An address is its family and its bits.
  `stem` is the identity up to its last colon, which is where `hostOnly` cuts it,
  and `parsed` what `url.Parse` makes of the URL. `List` is the order of the rows by rank: the i-th has
  i - 1 below it. ScopeInputs has one state per set of rows that
  UNIQUE (project_id, rule_order) admits, target and moment; its properties compare
  the operators with a reference definition.
* **ScopeGate**: the places where scope is enforced or said to be, with rules
  created and deleted and a clock. The rule list and the time a plan has read
  are part of `plan[r]`. A discovered target is evaluated as `Discovered(t, named)`,
  with the fields the worker fills in; `named` says whether the payload has a host.
* **AuditTrail**: `Append` in six steps with its lock and its sequence, behind a
  handler's own change. A hash is the sequence of events it covers: HMAC as
  an injective function. `Verify` is computed as the code does, on the rows
  of the log and on rows that someone has changed behind the daemon's back
  (`Altered`, `Exchanged`).
* **AuditLog**: the promise of the log, without rows, ids, transactions, locks and
  hashes: a history that grows at its end by the events of the calls that ask for
  it, each at most once, and a call is told of success only with its event in it.
  AuditTrail maps its rows, in the order of their ids, to the history (`Listed`),
  and each call's place to its standing.
* **Catalog**: admin calls, the registry, stop and boot.
* **Evidence**: the events of several jobs on their way to disk, `artifacts` and
  `findings`, and a manifest built meanwhile. A finding may cite anything: a label
  of its job stands for the hash that the job's label map has, and any other text
  is linked as it is, be it a sha of something stored, a sha of nothing, or a label
  whose artifact failed. `recorded` and `linked` are history: the keys each run has
  upserted, and the hashes that came from labels, by finding.
* **Access**: `api_tokens`, the requests of the API that issue and revoke tokens,
  and the boot. `call[c]` is a request: who made it, where its handler is, the
  token it has issued. `known` is who holds a plaintext: it grows when the
  bootstrap token is logged and when an issue is answered. `cut` is history: the
  tokens whose revocation had been answered when the request came.
* **Vault**: the requests that put and delete secrets, and `resolveSecrets` key
  by key, over Access. A value is known by the request that put it. `master` is
  the signing key the process was started with; `gone` and `stale` are history.
* **Builtin**: one execution of one of the six collectors, given by `job`. What
  it has to emit is in `todo`; each event is ingested and then recorded, two
  steps of which either may fail (`half`). `probe` are the dials of porttcp and
  the lookups of dnspassive; what the network answers is arbitrary, also records
  and an error at once ("mixed"; the records are dropped). `refused` is history:
  the findings whose own statement failed. `Ascending`, for `sort.Ints`, is by rank
  like `List`.
* **Supervisor**: `Execute`, the process, a helper in its group, the
  goroutine of `exec.CommandContext`, the context and the worker's reaction.

`MC*` modules give the constants their values. Definitions under a comment
"Defect:" are mutated forms, which no specification uses.

Data that is abstracted everywhere: names, payloads, UUIDs and hashes are
model values; the text of errors and logs is left out. PostgreSQL is taken at
READ COMMITTED: a statement is atomic, a transaction's writes appear at its
commit, an `UPDATE` re-evaluates its condition once it has the row.

## Runs

Times are those of two workers on a small machine.

| Run | Bounds | States | Shows |
|---|---|---|---|
| MCLeaseTx | 2 jobs of a project, 2 workers, caps 0, 1 and 2, 2 attempts | 96k | CapRespected, CapCountCurrent, refinement of QueueSpec, LeaseCallReturns |
| MCDispatch | 1 run of 2 jobs, 2 workers, caps 0 and 1, 2 attempts, 1 fault | 2.3M | FencedCompletion, VerdictRight, CancelSticks, LastOneCounts, refinement of RunLife |
| MCDispatchLive | 1 job, 2 workers, 3 attempts, 2 faults | 110k | JobsFinish, RunsFinish |
| MCScope | ScopeInputs on all lists of up to 5 of 12 rules, 28 targets, 4 moments | 48k | LeastOrderRule, SuffixRules, WindowRules |
| MCScopeGate | 2 capabilities, 4 rules, 2 moments, 1 fault | 1.3M | OneVerdictPerTarget, PlanAccounts, VerdictFramed |
| MCCatalog | 3 calls, 2 names, 2 binaries, 2 faults | 28k | CreatedIsServed, BuiltinsKept |
| MCAuditTrail | 3 calls, 2 faults (module AuditTrail itself) | 3.6k | ChainIntact, TamperFound, refinement of AuditLog, AppendEnds |
| MCEvidence | 2 runs of a project, 2 blobs, 1 label, 2 events each, 1 reference per finding, 2 faults | 7.6M | EvidenceStored, EvidenceAccumulates, ManifestComplete |
| MCSupervisor | 4 lines, a helper, both ends of the context | 106k | SuccessIsWhole, NoChildLeft, PreemptedIsLeft, TimeoutEnds |
| MCVault | 3 tokens, 3 requests, 2 projects, 2 keys, 1 job, 2 signing keys, 1 fault | 1.1M | AuthorityDescends, OneBootstrap, RevokedBeginsNothing, UsableIsOnRecord, JobGetsItsOwn, NothingStale |
| MCBuiltin | 23 jobs over the 6 collectors, 4 ports, 4 lookups, 2 chains, 1 fault | 1.0M | SuccessIsComplete, FoundIsKept, ScanBounded, ExecuteReturns |
| MCDispatchStuck | 1 job, 1 worker, 1 fault | | a violation of SettledRunFinishes |

The type invariants (`...TypeOK`) and FinishedIsFinal, LeaseRecorded,
TerminalAbsorbing, RegistryStable, RowLockExclusive, LockHolderRuns,
LockHolderAppends and AnsweredIsLogged are in no run: they are proved for every
instance. They and the inductive invariants of the proofs hold in the run of their
module when they are added there.

Why the bounds are enough. The races here are between two parties about one
row: two workers and one cap, a worker and the planner, two emissions and one
finding. Two of each, with a third call where a third makes a difference (a
queue of waiters on the audit lock; a boot between two upserts; a token that
issues one that revokes it), has every such
pair in every order. `MaxAttempts = 2` is the least that executes a job again
while its first execution goes on; faults are counted, and one or two are
enough for a failure in the middle of what another failure has left.
`MaxAttempts`, `MaxFaults`, `MaxTime`, `MaxEmits`, `MaxRefs` and `MaxLines` are in guards
and named as bounds where they are declared. Symmetry is used in runs of safety
properties only, over constants that no definition tells apart; a run with a
liveness property has none. `CHECK_DEADLOCK FALSE` stands where the system comes
to rest: all calls answered, all jobs finished. LeaseTx is checked for deadlock:
with a queue that can be cancelled and caps that can be changed it never stops.

A finding of MCEvidence has one reference: two emissions under one key already
merge a label with a raw sha, or with another label's hash.

The jobs of MCBuiltin cover what the collectors look at: a scan with overlapping
ranges and twice as many ports as slots, one with a concurrency of 0, and each way
in which a list of ports is refused (`MaxPort` is 4 there). MCVault lets a token be
issued by a token that was issued, an owner of each project be put against both,
and a key be rotated, deleted and put again; only one of the two projects has a
job.

JobQueue has no run of its own: its properties are checked of LeaseTx, which
extends it, together with the refinement, and are proved of it.

The end of a run is checked twice. LastOneCounts is the safety half, with two
jobs: in every state in which all jobs of a run have ended, some worker is on
its way to finish it. RunsFinish is the liveness half, with one job; with two
the state graph with crashes is too large for the liveness check.

### Divergences

Where a comment or a document of the repository promises what the code does not
do, the module states the promise (at its end, with the place that makes it)
and TLC refutes it. MCDispatchStuck is a run of its own, and a finding in
`PROJECT.json` with both sides quoted: a worker dies, or its count fails, after
the last Complete, and the run never ends.

The others are seen by putting the property into the configuration named,
with the change of constants given:

| Property | Configuration | What happens |
|---|---|---|
| NothingMeansNothingAvailable | MCLeaseTx with `Jobs = {j1, j2, j3}`, both runs and projects, `RunOf <- TwoRuns`, `ProjectOf <- TwoProjects` | a job at its project's cap at the head of the queue hides all others |
| FinishedRunIsSettled | MCDispatch | a run is finished while the planner still adds jobs to it |
| CancelledJobsCancelRun | MCDispatch | a run whose jobs were cancelled ends as succeeded or failed |
| DispatchInScope | MCScopeGate with `MaxFaults = 0` | scope is not looked at when a job is dispatched, although it changed since the plan (`architecture.md:135`) |
| FindingInScope | MCScopeGate | scope is not looked at when a finding is ingested |
| DropsOnRecord | MCScopeGate | a discovery is dropped without a record |
| AllowedTargetsKept | MCScopeGate with `RuleRows <- PageRows`, `Targets <- OnePage` | a discovered target is evaluated without its URL and port, so that rules on these never match |
| RestartWorks | MCCatalog | a catalog row under a built-in name makes every boot panic (`handlers_catalog.go:71`) |
| NoRuntimePanic | MCCatalog | two upserts of a new name: one panics in its handler |
| MutationsLogged | MCAuditTrail | a mutation is committed and not on record |
| CreatorIsTold | MCEvidence | the emission that inserted a finding is told otherwise |
| LastSeenAdvances | MCEvidence | `last_seen_at` goes back |
| EvidenceIsLatest | MCEvidence | a re-emit merges evidence, which one comment wants ("evidence accumulating", `finding.go:6`) and another does not ("evidence ... get the latest values", `finding.go:136`; `collector-protocol.md:99-101`); EvidenceAccumulates is what the code keeps |
| LabelsResolved | MCEvidence | a label whose artifact was not ingested is stored as if it were a hash |
| CitedExists | MCEvidence | a raw sha is linked without looking whether there is such an artifact (`worker.go:408-412`, `collector-protocol.md:104-106`) |
| EvidenceDownloadable | MCEvidence with `Projects = {p1, p2}`, `ProjectOf <- OtherProject` | a project loses access to its own evidence |
| ManifestListsFindings | MCEvidence | a run's manifest loses findings to a later run |
| TimeoutIsAbsolute | MCSupervisor | a helper that holds the pipes outlasts the deadline |
| DeadlineIsTimedOut | MCSupervisor | a job ended by its deadline is failed, not timed_out |
| GroupKilled | MCSupervisor | a helper survives the kill of its group |
| RevokedIsOut | MCVault | a revoked token's request that is under way still takes effect (`threat-model.md:60`) |
| BootstrapLogged | MCVault | the daemon dies between minting and logging: no one ever has the bootstrap token, and none is minted again (`main.go:233`) |
| BootstrapSingleUse | MCVault | the bootstrap token can be used any number of times (`architecture.md:269`) |
| AddressKept | MCScope | a bare IPv6 address without a host is cut at its last colon, and rules see another address (`scope.go:283`) |
| EveryResultFound | MCBuiltin | a lookup that returns records and an error becomes a log line (`dnspassive.go:11` and `:97`) |
| EvidenceCited | MCBuiltin | findings of httpprobe and nmapwrap cite nothing: they pass `[]string`, the worker reads `[]any` (`collector-protocol.md:102`) |
| TraceComplete | MCBuiltin | a finding is stored and its event is not, and the job succeeds (`worker.go:244`) |

Observed while modelling, without a property: `tlsinspect` keys a certificate by
its serial number alone, so that certificates of two issuers become one finding;
an nmap killed at the deadline returns an ExitError, and its job is failed, not
timed_out, while a client's own timeout makes a job timed_out that had no
deadline; the temporary files of httpprobe and nmapwrap are never removed; a
finding the database refuses is lost although the job succeeds (FoundIsKept
excepts it, as `refused`); and no code scrubs secrets from ingested events, although
`architecture.md:274` says that the ingestor does.

### Fairness

* LeaseTx: weak fairness of each statement, for a transaction in progress is
  driven by its goroutine; strong fairness of the advisory lock, since
  PostgreSQL queues its waiters. Nothing is assumed of the loop that begins
  transactions, or of the environment.
* Dispatch: weak fairness of the steps of Plan, of the second statement of a
  cancel, of each worker's loop and of the reclaim ticker; and of time.
  `Restart` is among a worker's steps: a daemon that died is started again.
  None of `CallFails`, `Crash`, `PlanFail`, `LeaseLost` is fair, and their
  number is bounded: the property is what the code does once the failures stop.
* AuditTrail: strong fairness per call (the lock again).
* Supervisor: weak fairness of the goroutine of Execute and of the one that
  watches the context. None of the process and its helper: they may run for
  ever, so that TimeoutEnds says what happens once no helper holds the pipes
  any more. The reader's block in `Read` is a disabled step, not an unfair one.

* Builtin: weak fairness of the collector's own code, of the two halves of an
  emission (the database answers), and of each dial, lookup and request, which
  have timeouts of their own. nmap has none: it is only assumed to end once the
  context has ended and it is killed, so ExecuteReturns excludes an nmap whose
  job has no deadline and whose daemon is not stopped.

## Proofs

Eight modules: QueueProofs, DispatchProofs, ScopeProofs, AuditTrailProofs,
EvidenceProofs, VaultProofs, ExternalProofs and BuiltinProofs. The theorems hold
for every value of the constants that the named assumptions admit: any finite
set of jobs, any number of workers, calls, rules and events. In each, an
inductive invariant is proved once, and the theorems follow from it.

* **QueueProofs**, first of JobQueue: type correctness, then CapRespected: a new lease
  goes by a cap that is in `capSeen`, and `capSeen` only grows, while `Busy` grows by at
  most one element in Lease (lemmas on the cardinality of `Busy`) and else does
  not. LeaseRecorded, TerminalAbsorbing. Then of LeaseTx:
  `TxInv` = types, RowLockExclusive, CapReadKnown and
  CapCountCurrent. CapReadKnown is the strengthening: a transaction past the
  lock with a positive cap holds it, and the cap it has read is in `capSeen`.
  CapCountCurrent needs that no one else can add a busy job to the project
  between count and commit: another transaction would hold the same lock, or
  have read a cap of 0, and then 0 is in `capSeen`. With TxInv, every step maps
  to a step of the queue or to a stutter (the two statements before the commit,
  the rollbacks), which is LeaseTxImplementsQueue; its corollaries carry
  CapRespected and TerminalAbsorbing over. RowLocksExclude: no row is locked by two
  transactions. LockHoldersRun: who holds an advisory lock is past the wait for it
  and waits for nothing else, so that no circle of waits closes; this is the safety
  half of LeaseCallReturns.
* **ScopeProofs**, first of the engine. FirstMatchIsLeastOrder and
  AppendKeepsVerdict are about lists of rules of any length; the engine's loop is a
  minimum of positions there, not a recursion. LeastOrderAlwaysDecides goes from
  lists to sets of rows: the rank of a row, the number of rows below it, grows with
  its order (RankGrows), so that it is one to one into as many values as there are
  rows and takes each of them (EveryRankTaken), and `List` is sorted and has every
  row once (ListIsSorted). It gives LeastOrderRule, for any rows,
  targets and moments; and RulesMonotonic, about a rule that is added anywhere in
  the order: it decides, or what decided before still does (AddedRuleDecides), so
  that a deny rule lets nothing in, an allow rule shuts nothing out, and only a deny
  rule makes a denial. For SuffixRules, SuffixByPieces says what it is for one
  sequence to end another, place by place, without the reversal by which the library
  defines it; with a dot in front of the base (BelowByPieces) that is the base, a
  dot, and a length which the base itself does not have. WindowRules is arithmetic. Then of ScopeGate: `ScopeInv` = types, rules of
  distinct orders that Validate accepts, and an event that is being ingested names a
  target (without it the types are not inductive: the step that stores the target
  would not keep them). With it every list read from the rules is sorted, and an
  edit changes the deciding rule only through itself: VerdictAlwaysFramed. `PlanInv`
  adds `PlanOK`: kept and dropped pairs go by the list and the time stored in the
  plan, each kept one is a job, each dropped one in the trail, and todo, kept and
  dropped are all the pairs, which gives OneVerdictAlways and PlanAlwaysAccounts.
* **AuditTrailProofs**: `TrailInv` = types, ids unique and below the sequence,
  whoever is past the lock holds it and has read the last hash, every row
  chains to the one below it, and every row belongs to a call that has
  committed it. It is why gaps in the ids and ids taken before the commit do no
  harm: nobody else can insert between. LockHoldersAppend: every way out of Append
  lets the lock go. For AuditTrailImplementsLog a commit must map to an append at the
  end: its id is above all others, so the ranks of the old rows stay and its own is
  the next one (lemmas on `Listed`, from the cardinality of the rows below a row).
  The same induction gives LastHashIsHistory. TamperingIsFound: the rows before the
  change are sound as they were, the altered row is not, or the row behind it is not,
  since two histories of different length or end have different hashes; and
  `Verify` names the first such id (VerifyNames). The removal of the last row
  is not found and not claimed to be: AuditTrail has nothing to compare the end with.
  It needs a hash that is injective, and rows changed one at a time; whoever has the
  key can rewrite all of the rest.
* **EvidenceProofs**: `EvidenceInv` adds to EvidenceStored that every hash in a
  label map, and every one that a label stood for in an event about to be upserted,
  is stored already, that an event in `recording` has its file, and that a half-built
  manifest has linked only what is stored. Nothing is ever deleted, so that all of it
  is stable. Only Upsert changes a row, and it keeps its evidence and first_seen_at
  (EvidenceAccumulates). Nothing is proved of raw shas: the code promises nothing.

* **DispatchProofs**: every step of Dispatch is a step of the queue or leaves it
  alone (DispatchUsesQueue), so what is proved of JobQueue holds here, too
  (DispatchRespectsCap, DispatchRecordsLeases, DispatchKeepsEnded). `Inv` =
  types, what run, plan and cancel records say of one another (RunsAgree), and what
  a worker at work knows of its job (WorkersAgree); with it each action maps to one
  of RunLife or to a stutter (DispatchImplementsRunLife). `VerdictInv` adds that a
  verdict in a worker's hands stays right until it is written: after the Plan call
  no job is added, and a job that has ended is left as it is. `FenceInv` adds that a
  worker which holds a lease has the attempt that is in the row, which is what the
  code's comparison of `leased_by` alone comes to.
  `LastInv` is LastOneCounts for runs that are still being planned, too.
* **VaultProofs**: all invariants rest on step facts proved once: rows are added and
  revoked, and never change role, project or issuer; a request keeps its actor and
  what it asks for. With these AuthorityDescends is inductive. `BootInv`:
  `boot = "mint"` implies that no token exists, although that was found out in an
  earlier statement, since nothing else writes before the server is up. `RevokeInv`:
  a revoke that has come to its audit event has `revoked` in its row, for good.
  `RecordInv`: what a request has issued, and when its event is in the log.
  `StoredInv`: what is stored was put by a request that might, under that project
  and key, and is not gone. `ReadInv`: a job has read exactly the keys it has left
  behind, and values of that kind.
* **ExternalProofs**, of the catalog of external collectors and of the supervisor that
  runs them. Catalog: types; a call in its handler has a name and an entry and its
  process is up; a call that found or made a collector leaves one in the registry.
  Only Register changes the registry of a live process, and it only fills a gap.
  Supervisor: `SupervisorInv` = types and four facts. What is recorded is a prefix of
  what was written (InOrder); "done" is the last line recorded, and none while the
  loop goes on (OneDone); past the loop without a parse error, either "done" was read
  or everything written was and the process is no longer running (LoopLeft, of the
  end of file); every path out of Execute comes by a process that has ended (Ended).
  NoChildIsEverLeft is about that: the process does not run. It says neither that it
  was waited for (the path of a descriptor that cannot be written returns without
  Wait, `supervisor.go:85-88`) nor that its helpers are gone (GroupKilled).
  SuccessIsAlwaysWhole then is a fact about sequences: a prefix that ends with the
  first "done", or is the whole without one, is `UpToDone(written)`.
* **BuiltinProofs**: `BuiltinInv` is the conjunction of what the collectors' loops
  keep. Phase: which steps belong to which collector. Probing: only what was asked
  for is probed, nothing is under way once a report is queued, and only the end of
  the context cuts a probe. Scanning and Gathering: while the context lives, what is
  neither left nor under way has come back. Reporting: the summary is the last
  event of the queue, and names what was found when it was made. Keeping: what was
  found is settled (kept, or refused by the database), queued, or still to be queued
  (`Pending`), or came with an error (`Dropped`). These give SuccessIsAlwaysComplete and FoundIsAlwaysKept together with
  the lemma that only a recorded summary yields success. ScanBounded counts the
  dials under way: a dial is only begun while a slot is free, and Probing has
  none under way at the end.

Assumptions: the named ASSUMEs of the modules (finite sets of jobs, functions
with the right domains, a `None` that is nothing else; orders, ports and a
concurrency that are integers; finitely many ports asked of nmap). TLC evaluates
them in every run of the module.

Only model-checked: liveness (LeaseCallReturns, JobsFinish, RunsFinish, AppendEnds,
TimeoutEnds, ExecuteReturns), since fairness and ENABLED are out of the prover's
reach. Every other property of a passing run is a theorem. The divergences are
counterexamples, which only TLC finds. No module has a RECURSIVE operator.

## Not modelled, and why

* One CancelRun call per run. The syntax checks Validate makes of a url_prefix and of
  the star of a dns_wildcard; upper and lower case of names.
* Most of projects and targets: planned, see below. A project is never deleted
  here; its tokens and secrets would go with it.
* The bytes of tokens, ciphertexts and keys: a token's plaintext is its identity,
  hashing is injective, and encryption opens only what it sealed. `last_used_at`,
  names of tokens, and the listings.
* The JSON round trip in the audit log and the bytes of manifests and HMACs:
  conversions and cryptography, no control.
* What a collector finds out: in Evidence and ScopeGate any event may be emitted
  at any time; in Builtin the network may answer anything of the right shape.
* The example collectors and the conformance kit are programs outside the daemon:
  Supervisor lets a process write any lines. The CLI is an HTTP client without
  state.
* Log events with captured stderr, the 1 MiB cap on it, the line limit of the
  reader (one more line that does not parse). A descriptor fits the pipe.
* More than one daemon: worker ids and locks would allow it, the registry and
  the documents speak of one. Dispatch, in which every worker can die alone, is
  the exception and covers several.
* Severity, title, description and payload of a finding: overwritten like
  `run_id`. One collector in Evidence, as the key keeps collectors apart.
* The trail of ScopeGate is a set of events that are appended or lost; the chain
  itself is AuditTrail's.
* Rows changed in the database by hand, except one row of the audit log at a time
  (TamperFound).

## Plan

Done in the order of the plan: queue and its transaction, runs and workers,
scope, audit, catalog, evidence, supervisor; then tokens and the vault, the
built-in collectors, the life of a run as an abstract specification, and the
proofs of every safety property the runs check. To come:

1. Targets: the merge of provenance under concurrent upserts by runs and
   operators. Manifest: the queries for run, scope and jobs, against a
   specification of a consistent snapshot.
2. Sweep, lease and secrets together: a job that is queued again while its first
   execution still resolves its secrets.
