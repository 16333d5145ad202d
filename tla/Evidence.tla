------------------------------ MODULE Evidence ------------------------------
(***************************************************************************)
(* What a run leaves behind: artifacts (internal/artifact: a file named by  *)
(* its hash and a metadata row), findings (internal/finding: one row per    *)
(* project and dedup key) and manifests (internal/manifest).                *)
(*                                                                          *)
(* The events of one job are ingested one after the other by the goroutine  *)
(* that executes it (worker.makeEmit); those of different jobs interleave.  *)
(* A blob stands for its bytes, hence also for their sha256.  All findings  *)
(* here are of one collector.                                               *)
(***************************************************************************)
EXTENDS Naturals, FiniteSets

CONSTANTS
    Jobs, Runs, Projects,
    RunOf, ProjectOf,   \* [Jobs -> Runs], [Runs -> Projects]
    Keys,               \* dedup keys
    Blobs, Labels,      \* what a reference may be: a sha256, or a label
    MaxTime,            \* bound: the clock
    MaxEmits,           \* bound: events per job
    MaxRefs,            \* bound: references of one finding
    MaxFaults,          \* bound: failed steps, lost replies, crashes
    None

ASSUME EvidenceAssumption ==
    /\ RunOf \in [Jobs -> Runs] /\ ProjectOf \in [Runs -> Projects]
    /\ None \notin Blobs \cup Labels \cup Runs \cup Projects \cup Keys
    /\ {MaxTime, MaxEmits, MaxRefs, MaxFaults} \subseteq Nat

VARIABLES
    disk,       \* blobs that LocalFS holds
    meta,       \* the project of each row of artifacts, by sha256
    findings,   \* the rows of findings, by project and dedup key
    job,        \* each job's place in makeEmit, with its label map
    manifest,   \* the request that builds a manifest
    recorded,   \* the keys each run has upserted (history)
    linked,     \* by row: the hashes that labels stood for (history)
    now, faults

vars == <<disk, meta, findings, job, manifest, recorded, linked, now, faults>>

Project(j) == ProjectOf[RunOf[j]]

Refs == Blobs \cup Labels
Finding == [run : Runs, evidence : SUBSET Refs, first : 0 .. MaxTime, last : 0 .. MaxTime]

ASSUME NoneAssumption == None \notin Finding

NoLabels == [l \in Labels |-> None]

\* An event that a goroutine is about to ingest: the label and the blob of an
\* artifact_ref, or the key and the evidence of a finding with the time at
\* which its INSERT started.  linked is the part of the evidence that labels
\* stood for (history).
Idle == [pc |-> "idle", label |-> None, blob |-> None, key |-> None,
         evidence |-> {}, linked |-> {}, start |-> 0,
         created |-> FALSE, inserted |-> FALSE]

EventOK ==
    [pc       : {"idle", "putting", "recording", "upserting", "rereading", "reported"},
     label    : Labels \cup {None},
     blob     : Blobs \cup {None},
     key      : Keys \cup {None},
     evidence : SUBSET Refs,
     linked   : SUBSET Blobs,
     start    : 0 .. MaxTime,
     created  : BOOLEAN,
     inserted : BOOLEAN]                        \* UpsertResult.Inserted

JobState == [event    : EventOK,
             labels   : [Labels -> Blobs \cup {None}],  \* label -> sha256
             used     : SUBSET Labels,                  \* labels emitted so far (history)
             emits    : 0 .. MaxEmits]

NoManifest == [pc |-> "none", run |-> None, rows |-> {}, artifacts |-> {}, due |-> {}]

EvidenceTypeOK ==
    /\ disk \in SUBSET Blobs
    /\ meta \in [Blobs -> Projects \cup {None}]
    /\ findings \in [Projects -> [Keys -> Finding \cup {None}]]
    /\ job \in [Jobs -> JobState]
    /\ manifest \in [pc        : {"none", "findings", "signed"},
                     run       : Runs \cup {None},
                     rows      : SUBSET [key : Keys, evidence : SUBSET Refs, linked : SUBSET Blobs],
                     artifacts : SUBSET Blobs,
                     due       : SUBSET Keys]
    /\ recorded \in [Runs -> SUBSET Keys]
    /\ linked \in [Projects -> [Keys -> SUBSET Blobs]]
    /\ now \in 0 .. MaxTime
    /\ faults \in 0 .. MaxFaults

Init ==
    /\ disk = {}
    /\ meta = [b \in Blobs |-> None]
    /\ findings = [p \in Projects |-> [k \in Keys |-> None]]
    /\ job = [j \in Jobs |-> [event |-> Idle, labels |-> NoLabels, used |-> {},
                              emits |-> 0]]
    /\ manifest = NoManifest
    /\ recorded = [r \in Runs |-> {}]
    /\ linked = [p \in Projects |-> [k \in Keys |-> {}]]
    /\ now = 0 /\ faults = 0

Fault == faults < MaxFaults /\ faults' = faults + 1

At(j, pc) == job[j].event.pc = pc
Goto(j, pc) == job' = [job EXCEPT ![j].event.pc = pc]

\* The event is done with, or its ingestion has failed: that is only logged.
Drop(j) == job' = [job EXCEPT ![j].event = Idle]

Start(j, event) ==
    /\ job[j].event.pc \in {"idle", "reported"}
    /\ job[j].emits < MaxEmits
    /\ job' = [job EXCEPT ![j].event = event, ![j].emits = @ + 1,
                          ![j].used = @ \cup ({event.label} \ {None})]

Tick ==
    /\ now < MaxTime
    /\ now' = now + 1
    /\ UNCHANGED <<disk, meta, findings, job, manifest, recorded, linked, faults>>

-----------------------------------------------------------------------------
(* artifact_ref: worker.ingestArtifact *)

EmitArtifact(j, l, b) ==
    /\ Start(j, [Idle EXCEPT !.pc = "putting", !.label = l, !.blob = b])
    /\ UNCHANGED <<disk, meta, findings, manifest, recorded, linked, now, faults>>

\* LocalFS.Put: the file gets its name once it is complete.
Put(j) ==
    /\ At(j, "putting")
    /\ \/ /\ disk' = disk \cup {job[j].event.blob}
          /\ Goto(j, "recording")
          /\ UNCHANGED faults
       \/ Fault /\ Drop(j) /\ UNCHANGED disk
    /\ UNCHANGED <<meta, findings, manifest, recorded, linked, now>>

\* labels[label] = sha, if the event has a label.
Labelled(labels, e) == [l \in Labels |-> IF l = e.label THEN e.blob ELSE labels[l]]

\* Defect: the label is remembered although the row may not be there.
RecordLabelsFirst(j) ==
    LET e == job[j].event IN
    /\ At(j, "recording")
    /\ job' = [job EXCEPT ![j].event = Idle, ![j].labels = Labelled(@, e)]
    /\ \/ meta' = [meta EXCEPT ![e.blob] = Project(j)] /\ UNCHANGED faults
       \/ Fault /\ UNCHANGED meta
    /\ UNCHANGED <<disk, findings, manifest, recorded, linked, now>>

\* MetaStore.Record, then the label.  The statement may fail, or take effect
\* although its reply is lost.
Record(j) ==
    LET e == job[j].event
        recordedMeta == [meta EXCEPT ![e.blob] = Project(j)]
    IN
    /\ At(j, "recording")
    /\ \/ /\ meta' = recordedMeta
          /\ job' = [job EXCEPT ![j].event = Idle, ![j].labels = Labelled(@, e)]
          /\ UNCHANGED faults
       \/ Fault /\ Drop(j) /\ meta' \in {meta, recordedMeta}
    /\ UNCHANGED <<disk, findings, manifest, recorded, linked, now>>

-----------------------------------------------------------------------------
(* finding: worker.ingestFinding and finding.Store.Upsert *)

Known(j) == {l \in Labels : job[j].labels[l] # None}

\* What the labels among the references stand for.
Linked(j, refs) == {job[j].labels[l] : l \in refs \cap Known(j)}

\* Any other reference is taken for a sha and linked as it stands, whether
\* there is such an artifact or not.
Resolve(j, refs) == Linked(j, refs) \cup (refs \ Known(j))

\* NOW() is the moment at which the server starts the statement.
EmitFinding(j, k, refs) ==
    /\ Cardinality(refs) <= MaxRefs
    /\ Start(j, [Idle EXCEPT !.pc = "upserting", !.key = k, !.start = now,
                             !.evidence = Resolve(j, refs), !.linked = Linked(j, refs)])
    /\ UNCHANGED <<disk, meta, findings, manifest, recorded, linked, now, faults>>

\* Defect: EXCLUDED.evidence replaces what the row has.
UpsertedReplacing(old, run, e) ==
    IF old = None
    THEN [run |-> run, evidence |-> e.evidence, first |-> e.start, last |-> e.start]
    ELSE [old EXCEPT !.run = run, !.last = e.start, !.evidence = e.evidence]

\* The row after INSERT ... ON CONFLICT (project_id, collector, dedup_key).
Upserted(old, run, e) ==
    IF old = None
    THEN [run |-> run, evidence |-> e.evidence, first |-> e.start, last |-> e.start]
    ELSE [old EXCEPT !.run = run, !.last = e.start, !.evidence = @ \cup e.evidence]

Upsert(j) ==
    LET e == job[j].event
        p == Project(j)
        old == findings[p][e.key]
        new == [findings EXCEPT ![p][e.key] = Upserted(old, RunOf[j], e)]
        keys == [recorded EXCEPT ![RunOf[j]] = @ \cup {e.key}]
        links == [linked EXCEPT ![p][e.key] = @ \cup e.linked]
    IN
    /\ At(j, "upserting")
    /\ \/ /\ findings' = new /\ recorded' = keys /\ linked' = links
          /\ job' = [job EXCEPT ![j].event.pc = "rereading",
                                ![j].event.created = (old = None)]
          /\ UNCHANGED faults
       \/ /\ Fault /\ Drop(j)
          /\ \/ UNCHANGED <<findings, recorded, linked>>
             \/ findings' = new /\ recorded' = keys /\ linked' = links
    /\ UNCHANGED <<disk, meta, manifest, now>>

\* The second statement of Upsert: SELECT first_seen_at = last_seen_at.
Reread(j) ==
    LET row == findings[Project(j)][job[j].event.key] IN
    /\ At(j, "rereading")
    /\ \/ /\ job' = [job EXCEPT ![j].event.pc = "reported",
                                ![j].event.inserted = (row.first = row.last)]
          /\ UNCHANGED faults
       \/ Fault /\ Drop(j)
    /\ UNCHANGED <<disk, meta, findings, manifest, recorded, linked, now>>

-----------------------------------------------------------------------------
(* GET /v1/runs/{id}/manifest: manifest.Build, which uses no transaction *)

BuildFindings(r) ==
    LET p == ProjectOf[r]
        rows == findings[p]
        mine == {k \in Keys : rows[k] # None /\ rows[k].run = r}
    IN
    /\ manifest.pc # "findings"
    /\ manifest' = [pc |-> "findings", run |-> r, artifacts |-> {}, due |-> recorded[r],
                    rows |-> {[key |-> k, evidence |-> rows[k].evidence, linked |-> linked[p][k]]
                              : k \in mine}]
    /\ UNCHANGED <<disk, meta, findings, job, recorded, linked, now, faults>>

\* WHERE sha256 = ANY(evidence of the findings just read).
BuildArtifacts ==
    LET cited == UNION {row.evidence : row \in manifest.rows} IN
    /\ manifest.pc = "findings"
    /\ manifest' = [manifest EXCEPT !.pc = "signed",
                                    !.artifacts = {b \in Blobs \cap cited : meta[b] # None}]
    /\ UNCHANGED <<disk, meta, findings, job, recorded, linked, now, faults>>

-----------------------------------------------------------------------------

\* The daemon dies.  A job that is executed again starts with no labels.
Crash ==
    /\ Fault
    /\ job' = [j \in Jobs |-> [job[j] EXCEPT !.event = Idle, !.labels = NoLabels, !.used = {}]]
    /\ manifest' = NoManifest
    /\ UNCHANGED <<disk, meta, findings, recorded, linked, now>>

Next ==
    \/ \E j \in Jobs :
          \/ \E l \in Labels \cup {None}, b \in Blobs : EmitArtifact(j, l, b)
          \/ \E k \in Keys, refs \in SUBSET Refs : EmitFinding(j, k, refs)
          \/ Put(j) \/ Record(j) \/ Upsert(j) \/ Reread(j)
    \/ \E r \in Runs : BuildFindings(r)
    \/ BuildArtifacts
    \/ Tick
    \/ Crash

Spec == Init /\ [][Next]_vars

-----------------------------------------------------------------------------
(* Properties *)

Stored(b) == b \in disk /\ meta[b] # None

\* A finding keeps every hash that a label stood for when it was emitted, and
\* the file of that hash is on disk with its metadata row, whatever fails or
\* crashes between the steps that store the artifact and those that store the
\* finding.  (For a raw sha the code promises nothing: CitedExists.)
EvidenceStored ==
    \A p \in Projects, k \in Keys : \A b \in linked[p][k] :
        findings[p][k] # None /\ b \in findings[p][k].evidence /\ Stored(b)

\* A signed manifest lists every artifact that its findings have linked by a
\* label, although jobs go on storing both between the two queries of Build.
ManifestComplete ==
    manifest.pc = "signed" =>
        \A row \in manifest.rows : row.linked \subseteq manifest.artifacts

\* walkthrough.md:133 and finding.go:6: "evidence accumulat[es]": what one
\* emission of a finding has linked and when it was first seen survive every
\* later emission.  (finding.go:136 says the opposite: EvidenceIsLatest.)
EvidenceAccumulates ==
    [][\A p \in Projects, k \in Keys :
          LET row == findings[p][k] IN
          row # None => /\ row.evidence \subseteq findings'[p][k].evidence
                        /\ row.first = findings'[p][k].first]_vars

(* What docs and comments say, and the code does not do. *)

\* finding.go:127: "UpsertResult tells the caller whether the row was inserted
\* (true) or an existing one was updated".
CreatorIsTold == \A j \in Jobs : At(j, "reported") /\ job[j].event.created => job[j].event.inserted

\* finding.go:135: on re-emit "last_seen_at advances".
LastSeenAdvances ==
    [][\A p \in Projects, k \in Keys :
          findings[p][k] # None => findings[p][k].last <= findings'[p][k].last]_vars

\* finding.go:136: on re-emit "description, severity, evidence, cvss, payload
\* get the latest values"; collector-protocol.md:100: a re-emit "refreshes
\* last_seen_at, severity, description, evidence".
EvidenceIsLatest ==
    [][\A j \in Jobs :
          At(j, "upserting") /\ At(j, "rereading")' =>
              findings'[Project(j)][job[j].event.key].evidence = job[j].event.evidence]_vars

\* collector-protocol.md:103: "The supervisor resolves each label to the
\* sha256 it computed when it ingested the file".
LabelsResolved ==
    \A j \in Jobs : At(j, "rereading") => job[j].event.evidence \cap job[j].used = {}

\* collector-protocol.md:104: for a raw sha "the supervisor treats it as an
\* existing artifact sha".
CitedExists ==
    \A p \in Projects, k \in Keys :
        findings[p][k] # None => \A b \in findings[p][k].evidence \cap Blobs : Stored(b)

\* walkthrough.md:138: "Each finding lists its evidence as a set of sha256s.
\* Download by hash": the token of a project may download what is its own.
EvidenceDownloadable ==
    \A p \in Projects, k \in Keys : \A b \in linked[p][k] : meta[b] = p

\* architecture.md:283: "Each run produces a signed manifest: collector
\* versions, scope at run time, target list, finding ids, artifact hashes".
ManifestListsFindings ==
    manifest.pc = "signed" => manifest.due = {row.key : row \in manifest.rows}
=============================================================================
