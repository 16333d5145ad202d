--------------------------- MODULE EvidenceProofs ---------------------------
(* What findings and manifests link by a label is stored: for any number of *)
(* jobs, runs and projects, whatever fails or crashes between the steps.    *)
EXTENDS Evidence, TLAPS

AllStored(shas) == \A b \in shas : Stored(b)

\* An artifact_ref has its blob, and a finding its key.
Formed(e) ==
    /\ e.pc \in {"putting", "recording"} => e.blob \in Blobs
    /\ e.pc \in {"upserting", "rereading", "reported"} => e.key \in Keys

\* What the goroutine of a job relies on: a file it is about to record is on
\* disk; what a label it knows stands for is stored, and so are the hashes by
\* which it has replaced labels, all of which are evidence.
SoundJob(s) ==
    /\ Formed(s.event)
    /\ s.event.pc = "recording" => s.event.blob \in disk
    /\ \A l \in Labels : s.labels[l] # None => Stored(s.labels[l])
    /\ AllStored(s.event.linked) /\ s.event.linked \subseteq s.event.evidence

JobsOK == \A j \in Jobs : SoundJob(job[j])

ManifestOK ==
    \A row \in manifest.rows : AllStored(row.linked) /\ row.linked \subseteq row.evidence

EvidenceInv ==
    EvidenceTypeOK /\ EvidenceStored /\ JobsOK /\ ManifestOK /\ ManifestComplete

\* Nothing that is stored is lost.
Grows == disk \subseteq disk' /\ \A b \in Blobs : meta[b] # None => meta'[b] # None

LEMMA EvidenceInit == Init => EvidenceInv
BY EvidenceAssumption
   DEF Init, EvidenceInv, EvidenceTypeOK, EvidenceStored, JobsOK, SoundJob, Formed,
       ManifestOK, ManifestComplete, JobState, EventOK, Idle, NoLabels, NoManifest, Finding, Refs, AllStored

\* A sound job stays sound, and what a manifest cites stays stored.
LEMMA StaysSound ==
  ASSUME Grows
  PROVE  /\ \A shas \in SUBSET Blobs : AllStored(shas) => AllStored(shas)'
         /\ \A s \in JobState : SoundJob(s) => SoundJob(s)'
<1>1. \A b \in Blobs : Stored(b) => Stored(b)'
  BY DEF Grows, Stored
<1>2. \A shas \in SUBSET Blobs : AllStored(shas) => AllStored(shas)'
  BY <1>1 DEF AllStored
<1>3. ASSUME NEW s \in JobState, SoundJob(s) PROVE SoundJob(s)'
  <2>1. \A l \in Labels : s.labels[l] \in Blobs \cup {None}
    BY DEF JobState
  <2>2. s.event.linked \in SUBSET Blobs
    BY DEF JobState, EventOK
  <2> QED
    BY <1>1, <1>2, <1>3, <2>1, <2>2 DEF SoundJob, Grows
<1> QED
  BY <1>2, <1>3

\* One job moves to a sound state; the rows and the manifest keep.
LEMMA OneJobMoves ==
  ASSUME EvidenceInv, Grows, EvidenceTypeOK',
         NEW j \in Jobs, NEW s \in JobState, SoundJob(s)', job' = [job EXCEPT ![j] = s],
         EvidenceStored', manifest' = manifest
  PROVE  EvidenceInv'
<1>1. JobsOK'
  BY StaysSound DEF EvidenceInv, EvidenceTypeOK, JobsOK
<1>2. ManifestOK'
  <2>1. \A row \in manifest.rows : row.linked \in SUBSET Blobs
    BY DEF EvidenceInv, EvidenceTypeOK
  <2> QED
    BY <2>1, StaysSound DEF EvidenceInv, ManifestOK
<1>3. ManifestComplete'
  BY DEF EvidenceInv, ManifestComplete
<1> QED
  BY <1>1, <1>2, <1>3 DEF EvidenceInv

\* Rows that do not change go on citing what is stored.
LEMMA RowsKeep ==
  ASSUME EvidenceInv, Grows, findings' = findings, linked' = linked
  PROVE  EvidenceStored'
<1>1. \A b \in Blobs : Stored(b) => Stored(b)'
  BY DEF Grows, Stored
<1> QED
  BY <1>1 DEF EvidenceInv, EvidenceTypeOK, EvidenceStored

\* A job whose event is dropped is sound.
LEMMA IdleIsSound ==
  ASSUME Grows, NEW old \in JobState, SoundJob(old),
         NEW s, s = [old EXCEPT !.event = Idle]
  PROVE  s \in JobState /\ SoundJob(s)'
<1>1. Idle \in EventOK
  BY EvidenceAssumption DEF Idle, EventOK
<1>2. s \in JobState /\ s.event = Idle /\ s.labels = old.labels
  BY <1>1 DEF JobState
<1>3. SoundJob(old)'
  BY StaysSound
<1> QED
  BY <1>2, <1>3 DEF SoundJob, Formed, Idle, AllStored

LEMMA DropTypes ==
  ASSUME EvidenceInv, NEW j \in Jobs, Drop(j)
  PROVE  job' \in [Jobs -> JobState]
<1>1. Idle \in EventOK
  BY EvidenceAssumption DEF Idle, EventOK
<1>2. job \in [Jobs -> JobState]
  BY DEF EvidenceInv, EvidenceTypeOK
<1>3. [job[j] EXCEPT !.event = Idle] \in JobState
  BY <1>1, <1>2 DEF JobState
<1>4. job' = [job EXCEPT ![j] = [job[j] EXCEPT !.event = Idle]]
  BY DEF Drop
<1> QED
  BY <1>2, <1>3, <1>4

LEMMA FaultType ==
  ASSUME EvidenceInv, Fault
  PROVE  faults' \in 0 .. MaxFaults
BY EvidenceAssumption DEF Fault, EvidenceInv, EvidenceTypeOK

LEMMA DropStep ==
  ASSUME EvidenceInv, Grows, EvidenceStored', NEW j \in Jobs, Drop(j), manifest' = manifest,
         EvidenceTypeOK'
  PROVE  EvidenceInv'
<1>1. PICK s : s = [job[j] EXCEPT !.event = Idle]
  OBVIOUS
<1>2. job[j] \in JobState /\ SoundJob(job[j])
  BY DEF EvidenceInv, EvidenceTypeOK, JobsOK
<1>3. s \in JobState /\ SoundJob(s)'
  BY <1>1, <1>2, IdleIsSound
<1>4. job' = [job EXCEPT ![j] = s]
  BY <1>1 DEF Drop, EvidenceInv, EvidenceTypeOK
<1> QED
  BY <1>3, <1>4, OneJobMoves

\* Taking up an event.
LEMMA StartStep ==
  ASSUME EvidenceInv, NEW j \in Jobs, NEW e \in EventOK, Start(j, e),
         Formed(e), e.pc # "recording", AllStored(e.linked), e.linked \subseteq e.evidence,
         UNCHANGED <<disk, meta, findings, manifest, recorded, linked, now, faults>>
  PROVE  EvidenceInv'
<1>1. job[j] \in JobState /\ SoundJob(job[j])
  BY DEF EvidenceInv, EvidenceTypeOK, JobsOK
<1>2. PICK s : s = [job[j] EXCEPT !.event = e, !.emits = @ + 1, !.used = @ \cup ({e.label} \ {None})]
  OBVIOUS
<1>3. s \in JobState
  <2>1. {e.label} \ {None} \subseteq Labels
    BY DEF EventOK
  <2>2. job[j].emits + 1 \in 0 .. MaxEmits
    BY <1>1, EvidenceAssumption DEF Start, JobState
  <2> QED
    BY <1>1, <1>2, <2>1, <2>2 DEF JobState
<1>4. job' = [job EXCEPT ![j] = s]
  BY <1>2 DEF Start, EvidenceInv, EvidenceTypeOK
<1>5. Grows
  BY DEF Grows
<1>6. SoundJob(s)'
  <2>1. s.event = e /\ s.labels = job[j].labels
    BY <1>1, <1>2 DEF JobState
  <2>2. SoundJob(s)
    BY <1>1, <2>1 DEF SoundJob
  <2> QED
    BY <1>3, <1>5, <2>2, StaysSound
<1>7. EvidenceTypeOK'
  BY <1>3, <1>4 DEF EvidenceInv, EvidenceTypeOK
<1> QED
  BY <1>3, <1>4, <1>5, <1>6, <1>7, RowsKeep, OneJobMoves

LEMMA EmitArtifactStep ==
  ASSUME EvidenceInv, NEW j \in Jobs, NEW l \in Labels \cup {None}, NEW b \in Blobs,
         EmitArtifact(j, l, b)
  PROVE  EvidenceInv'
<1> DEFINE e == [Idle EXCEPT !.pc = "putting", !.label = l, !.blob = b]
<1>1. e \in EventOK /\ Formed(e) /\ e.pc = "putting" /\ e.linked = {}
  <2>1. Idle \in EventOK /\ Idle.linked = {}
    BY EvidenceAssumption DEF Idle, EventOK
  <2> QED
    BY <2>1 DEF EventOK, Formed
<1>2. Start(j, e) /\ UNCHANGED <<disk, meta, findings, manifest, recorded, linked, now, faults>>
  BY DEF EmitArtifact
<1> HIDE DEF e
<1>3. AllStored(e.linked) /\ e.linked \subseteq e.evidence
  BY <1>1 DEF AllStored
<1> QED
  BY <1>1, <1>2, <1>3, StartStep

\* Labels are replaced by what is stored; other references go in as they are.
LEMMA EmitFindingStep ==
  ASSUME EvidenceInv, NEW j \in Jobs, NEW k \in Keys, NEW refs \in SUBSET Refs,
         EmitFinding(j, k, refs)
  PROVE  EvidenceInv'
<1> DEFINE e == [Idle EXCEPT !.pc = "upserting", !.key = k, !.start = now,
                             !.evidence = Resolve(j, refs), !.linked = Linked(j, refs)]
<1>1. \A l \in Labels : /\ job[j].labels[l] \in Blobs \cup {None}
                        /\ job[j].labels[l] # None => Stored(job[j].labels[l])
  BY DEF EvidenceInv, EvidenceTypeOK, JobsOK, SoundJob, JobState
<1>2. Linked(j, refs) \subseteq Blobs /\ AllStored(Linked(j, refs))
  BY <1>1 DEF Linked, Known, AllStored
<1>3. Resolve(j, refs) \subseteq Refs /\ Linked(j, refs) \subseteq Resolve(j, refs)
  BY <1>2 DEF Resolve, Refs
<1>4. /\ e \in EventOK /\ Formed(e) /\ e.pc = "upserting"
      /\ e.evidence = Resolve(j, refs) /\ e.linked = Linked(j, refs)
  BY <1>2, <1>3, EvidenceAssumption DEF Idle, EventOK, Formed, EvidenceInv, EvidenceTypeOK
<1>5. Start(j, e) /\ UNCHANGED <<disk, meta, findings, manifest, recorded, linked, now, faults>>
  BY DEF EmitFinding
<1> HIDE DEF e
<1> QED
  BY <1>2, <1>3, <1>4, <1>5, StartStep

\* What is recorded is stored, and its label may be cited from now on.
LEMMA PutStep ==
  ASSUME EvidenceInv, NEW j \in Jobs, Put(j)
  PROVE  EvidenceInv'
<1> DEFINE e == job[j].event
<1>1. /\ job[j] \in JobState /\ SoundJob(job[j])
      /\ e.pc = "putting" /\ e.blob \in Blobs
  BY DEF EvidenceInv, EvidenceTypeOK, JobsOK, SoundJob, Formed, Put, At
<1>2. Grows /\ findings' = findings /\ linked' = linked /\ manifest' = manifest
  BY DEF Grows, Put
<1>3. EvidenceStored'
  BY <1>2, RowsKeep
<1>4. CASE disk' = disk \cup {e.blob} /\ Goto(j, "recording") /\ UNCHANGED faults
  <2>1. PICK s : s = [job[j] EXCEPT !.event.pc = "recording"]
    OBVIOUS
  <2>2. /\ s \in JobState /\ s.event.pc = "recording" /\ s.event.blob = e.blob
        /\ s.event.evidence = e.evidence /\ s.event.linked = e.linked
        /\ s.labels = job[j].labels
    BY <1>1, <2>1 DEF JobState, EventOK
  <2>3. job' = [job EXCEPT ![j] = s]
    BY <1>4, <2>1 DEF Goto, EvidenceInv, EvidenceTypeOK
  <2>4. SoundJob(s)'
    <3>1. \A b \in Blobs : Stored(b) => Stored(b)'
      BY <1>2 DEF Grows, Stored
    <3>2. AllStored(s.event.linked)' /\ s.event.linked \subseteq s.event.evidence
      BY <1>1, <1>2, <2>2, StaysSound DEF SoundJob, JobState, EventOK
    <3>3. \A l \in Labels : s.labels[l] \in Blobs \cup {None}
      BY <2>2 DEF JobState
    <3> QED
      BY <1>1, <1>4, <2>2, <3>1, <3>2, <3>3 DEF SoundJob, Formed
  <2>5. EvidenceTypeOK'
    BY <1>1, <1>4, <2>2, <2>3 DEF Put, EvidenceInv, EvidenceTypeOK
  <2> QED
    BY <1>2, <1>3, <2>2, <2>3, <2>4, <2>5, OneJobMoves
<1>5. CASE Fault /\ Drop(j) /\ UNCHANGED disk
  <2>1. EvidenceTypeOK'
    BY <1>5, DropTypes, FaultType DEF Put, EvidenceInv, EvidenceTypeOK
  <2> QED
    BY <1>2, <1>3, <1>5, <2>1, DropStep
<1> QED
  BY <1>4, <1>5 DEF Put

LEMMA RecordStep ==
  ASSUME EvidenceInv, NEW j \in Jobs, Record(j)
  PROVE  EvidenceInv'
<1> DEFINE e == job[j].event
           recordedMeta == [meta EXCEPT ![e.blob] = Project(j)]
<1>1. /\ job[j] \in JobState /\ SoundJob(job[j])
      /\ e.pc = "recording" /\ e.blob \in Blobs /\ e.blob \in disk
  BY DEF EvidenceInv, EvidenceTypeOK, JobsOK, SoundJob, Formed, Record, At
<1>2. Project(j) \in Projects /\ Project(j) # None
  BY EvidenceAssumption DEF Project
<1>3. meta' \in {meta, recordedMeta} /\ UNCHANGED <<disk, findings, manifest, recorded, linked, now>>
  BY DEF Record
<1>4. meta' \in [Blobs -> Projects \cup {None}]
  BY <1>1, <1>2, <1>3 DEF EvidenceInv, EvidenceTypeOK
<1>5. Grows
  BY <1>2, <1>3 DEF Grows, EvidenceInv, EvidenceTypeOK
<1>6. EvidenceStored'
  BY <1>3, <1>5, RowsKeep
<1>7. CASE /\ meta' = recordedMeta
           /\ job' = [job EXCEPT ![j].event = Idle, ![j].labels = Labelled(@, e)]
           /\ UNCHANGED faults
  <2>1. PICK s : s = [job[j] EXCEPT !.event = Idle, !.labels = Labelled(@, e)]
    OBVIOUS
  <2>2. Idle \in EventOK /\ Labelled(job[j].labels, e) \in [Labels -> Blobs \cup {None}]
    BY <1>1, EvidenceAssumption DEF Idle, EventOK, Labelled, JobState
  <2>3. s \in JobState /\ s.event = Idle /\ s.labels = Labelled(job[j].labels, e)
    BY <1>1, <2>1, <2>2 DEF JobState
  <2>4. job' = [job EXCEPT ![j] = s]
    BY <1>7, <2>1 DEF EvidenceInv, EvidenceTypeOK
  <2>5. SoundJob(s)'
    <3>1. \A b \in Blobs : Stored(b) => Stored(b)'
      BY <1>5 DEF Grows, Stored
    <3>2. PICK c \in Blobs : c = e.blob
      BY <1>1
    <3>3. Stored(c)'
      BY <1>1, <1>2, <1>3, <1>7, <3>2 DEF Stored, EvidenceInv, EvidenceTypeOK
    <3>4. \A l \in Labels : s.labels[l] = c \/ s.labels[l] = job[j].labels[l]
      BY <2>3, <3>2 DEF Labelled
    <3>5. \A l \in Labels : /\ job[j].labels[l] \in Blobs \cup {None}
                            /\ job[j].labels[l] # None => Stored(job[j].labels[l])
      BY <1>1 DEF SoundJob, JobState
    <3>6. \A l \in Labels : s.labels[l] # None => Stored(s.labels[l])'
      BY <3>1, <3>3, <3>4, <3>5
    <3> QED
      BY <2>3, <3>6 DEF SoundJob, Formed, Idle, AllStored
  <2>6. EvidenceTypeOK'
    <3>1. job' \in [Jobs -> JobState]
      BY <2>3, <2>4 DEF EvidenceInv, EvidenceTypeOK
    <3> QED
      BY <1>3, <1>4, <1>7, <3>1 DEF EvidenceInv, EvidenceTypeOK
  <2> QED
    BY <1>3, <1>5, <1>6, <2>3, <2>4, <2>5, <2>6, OneJobMoves
<1>8. CASE Fault /\ Drop(j)
  <2>1. EvidenceTypeOK'
    BY <1>3, <1>4, <1>8, DropTypes, FaultType DEF EvidenceInv, EvidenceTypeOK
  <2> QED
    BY <1>3, <1>5, <1>6, <1>8, <2>1, DropStep
<1> QED
  BY <1>7, <1>8 DEF Record

LEMMA UpsertStep ==
  ASSUME EvidenceInv, NEW j \in Jobs, Upsert(j)
  PROVE  EvidenceInv'
<1> DEFINE e == job[j].event
           p == Project(j)
           old == findings[p][e.key]
           new == [findings EXCEPT ![p][e.key] = Upserted(old, RunOf[j], e)]
           keys == [recorded EXCEPT ![RunOf[j]] = @ \cup {e.key}]
           links == [linked EXCEPT ![p][e.key] = @ \cup e.linked]
<1>1. /\ job[j] \in JobState /\ SoundJob(job[j]) /\ e \in EventOK
      /\ e.pc = "upserting" /\ e.key \in Keys
      /\ AllStored(e.linked) /\ e.linked \subseteq e.evidence
  BY DEF EvidenceInv, EvidenceTypeOK, JobsOK, SoundJob, Formed, Upsert, At, JobState
<1>2. RunOf[j] \in Runs /\ p \in Projects
  BY EvidenceAssumption DEF Project
<1>3. old \in Finding \cup {None}
  BY <1>1, <1>2 DEF EvidenceInv, EvidenceTypeOK
<1>4. /\ Upserted(old, RunOf[j], e) \in Finding
      /\ \A b \in linked[p][e.key] \cup e.linked :
            b \in Upserted(old, RunOf[j], e).evidence /\ Stored(b)
  <2>1. e.evidence \in SUBSET Refs /\ e.start \in 0 .. MaxTime
    BY <1>1 DEF EventOK
  <2>2. \A b \in linked[p][e.key] : old # None /\ b \in old.evidence /\ Stored(b)
    BY <1>1, <1>2 DEF EvidenceInv, EvidenceStored
  <2> HIDE DEF old, e, p
  <2>3. CASE old = None
    BY <1>1, <1>2, <2>1, <2>2, <2>3 DEF Upserted, Finding, AllStored
  <2>4. CASE old # None
    BY <1>1, <1>2, <1>3, <2>1, <2>2, <2>4 DEF Upserted, Finding, AllStored
  <2> QED
    BY <2>3, <2>4
<1>5. /\ new \in [Projects -> [Keys -> Finding \cup {None}]] /\ keys \in [Runs -> SUBSET Keys]
      /\ links \in [Projects -> [Keys -> SUBSET Blobs]]
  <2>1. e.linked \in SUBSET Blobs
    BY <1>1 DEF EventOK
  <2> QED
    BY <1>1, <1>2, <1>4, <2>1 DEF EvidenceInv, EvidenceTypeOK
<1>6. /\ \/ findings' = findings /\ linked' = linked
         \/ findings' = new /\ linked' = links
      /\ recorded' \in {recorded, keys}
      /\ UNCHANGED <<disk, meta, manifest, now>>
  BY DEF Upsert
<1>7. Grows
  BY <1>6 DEF Grows
<1>8. EvidenceStored'
  <2>1. \A b : Stored(b) => Stored(b)'
    BY <1>6 DEF Stored
  <2>2. CASE findings' = findings /\ linked' = linked
    BY <1>7, <2>2, RowsKeep
  <2>3. CASE findings' = new /\ linked' = links
    <3>1. PICK row : row = Upserted(old, RunOf[j], e)
      OBVIOUS
    <3>2. PICK q \in Projects, k \in Keys : q = p /\ k = e.key
      BY <1>1, <1>2
    <3>3. \A x \in Projects, y \in Keys :
             /\ findings'[x][y] = IF x = q /\ y = k THEN row ELSE findings[x][y]
             /\ linked'[x][y] = IF x = q /\ y = k THEN linked[x][y] \cup e.linked ELSE linked[x][y]
      BY <2>3, <3>1, <3>2 DEF EvidenceInv, EvidenceTypeOK
    <3>4. \A b \in linked[q][k] \cup e.linked : b \in row.evidence /\ Stored(b)'
      BY <1>4, <2>1, <3>1, <3>2
    <3>5. row # None
      BY <1>4, <3>1, NoneAssumption
    <3>6. ASSUME NEW x \in Projects, NEW y \in Keys, NEW b \in linked'[x][y]
          PROVE  findings'[x][y] # None /\ b \in findings'[x][y].evidence /\ Stored(b)'
      <4>1. CASE x = q /\ y = k
        <5>1. findings'[x][y] = row /\ linked'[x][y] = linked[q][k] \cup e.linked
          BY <3>3, <4>1
        <5> HIDE DEF e
        <5> QED
          BY <3>4, <3>5, <3>6, <5>1
      <4>2. CASE ~(x = q /\ y = k)
        <5>1. findings'[x][y] = findings[x][y] /\ linked'[x][y] = linked[x][y]
          BY <3>3, <4>2
        <5>2. findings[x][y] # None /\ b \in findings[x][y].evidence /\ Stored(b)
          BY <3>6, <5>1 DEF EvidenceInv, EvidenceStored
        <5> QED
          BY <2>1, <5>1, <5>2
      <4> QED
        BY <4>1, <4>2
    <3> QED
      BY <3>6 DEF EvidenceStored
  <2> QED
    BY <1>6, <2>2, <2>3
<1>9. CASE /\ job' = [job EXCEPT ![j].event.pc = "rereading",
                                 ![j].event.created = (old = None)]
           /\ UNCHANGED faults
  <2>1. PICK s : s = [job[j] EXCEPT !.event.pc = "rereading", !.event.created = (old = None)]
    OBVIOUS
  <2>2. /\ s.event = [e EXCEPT !.pc = "rereading", !.created = (old = None)]
        /\ s = [job[j] EXCEPT !.event = s.event]
    BY <1>1, <2>1 DEF JobState
  <2>3. /\ s.event \in EventOK /\ s.event.pc = "rereading"
        /\ s.event.key = e.key /\ s.event.evidence = e.evidence /\ s.event.linked = e.linked
    <3> HIDE DEF e
    <3> QED
      BY <1>1, <2>2 DEF EventOK
  <2>4. s \in JobState /\ s.labels = job[j].labels
    BY <1>1, <2>2, <2>3 DEF JobState
  <2>5. job' = [job EXCEPT ![j] = s]
    BY <1>9, <2>1 DEF EvidenceInv, EvidenceTypeOK
  <2>6. SoundJob(s)'
    <3>1. SoundJob(s)
      BY <1>1, <2>3, <2>4 DEF SoundJob, Formed
    <3> QED
      BY <1>7, <2>4, <3>1, StaysSound
  <2>7. EvidenceTypeOK'
    <3>1. faults' = faults
      BY <1>9
    <3> HIDE DEF e, old, new, keys, links
    <3> QED
      BY <1>5, <1>6, <2>4, <2>5, <3>1 DEF EvidenceInv, EvidenceTypeOK
  <2> QED
    BY <1>6, <1>7, <1>8, <2>4, <2>5, <2>6, <2>7, OneJobMoves
<1>10. CASE Fault /\ Drop(j)
  <2>1. EvidenceTypeOK'
    BY <1>5, <1>6, <1>10, DropTypes, FaultType DEF EvidenceInv, EvidenceTypeOK
  <2> QED
    BY <1>6, <1>7, <1>8, <1>10, <2>1, DropStep
<1> QED
  BY <1>9, <1>10 DEF Upsert

LEMMA RereadStep ==
  ASSUME EvidenceInv, NEW j \in Jobs, Reread(j)
  PROVE  EvidenceInv'
<1> DEFINE e == job[j].event
           same == findings[Project(j)][e.key].first = findings[Project(j)][e.key].last
<1>1. job[j] \in JobState /\ SoundJob(job[j]) /\ e \in EventOK /\ e.pc = "rereading"
  BY DEF EvidenceInv, EvidenceTypeOK, JobsOK, Reread, At, JobState
<1>2. Grows /\ UNCHANGED <<disk, meta, findings, manifest, recorded, linked, now>>
  BY DEF Grows, Reread
<1>3. EvidenceStored'
  BY <1>2, RowsKeep
<1>4. CASE job' = [job EXCEPT ![j].event.pc = "reported", ![j].event.inserted = same] /\ UNCHANGED faults
  <2>1. PICK ins \in BOOLEAN : ins = same
    OBVIOUS
  <2>2. PICK s : s = [job[j] EXCEPT !.event.pc = "reported", !.event.inserted = ins]
    OBVIOUS
  <2>3. /\ s.event = [e EXCEPT !.pc = "reported", !.inserted = ins]
        /\ s = [job[j] EXCEPT !.event = s.event]
    BY <1>1, <2>2 DEF JobState
  <2>4. /\ s.event \in EventOK /\ s.event.pc = "reported"
        /\ s.event.key = e.key /\ s.event.evidence = e.evidence /\ s.event.linked = e.linked
    <3> HIDE DEF e
    <3> QED
      BY <1>1, <2>3 DEF EventOK
  <2>5. s \in JobState /\ s.labels = job[j].labels
    BY <1>1, <2>3, <2>4 DEF JobState
  <2>6. job' = [job EXCEPT ![j] = s]
    BY <1>4, <2>1, <2>2 DEF EvidenceInv, EvidenceTypeOK
  <2>7. SoundJob(s)'
    <3>1. SoundJob(s)
      BY <1>1, <2>4, <2>5 DEF SoundJob, Formed
    <3> QED
      BY <1>2, <2>5, <3>1, StaysSound
  <2>8. EvidenceTypeOK'
    <3>1. job' \in [Jobs -> JobState]
      BY <2>5, <2>6 DEF EvidenceInv, EvidenceTypeOK
    <3> QED
      BY <1>2, <1>4, <3>1 DEF EvidenceInv, EvidenceTypeOK
  <2> QED
    BY <1>2, <1>3, <2>5, <2>6, <2>7, <2>8, OneJobMoves
<1>5. CASE Fault /\ Drop(j)
  <2>1. EvidenceTypeOK'
    BY <1>2, <1>5, DropTypes, FaultType DEF EvidenceInv, EvidenceTypeOK
  <2> QED
    BY <1>2, <1>3, <1>5, <2>1, DropStep
<1> QED
  BY <1>4, <1>5 DEF Reread

\* Build reads the findings: what they cite is stored.
LEMMA BuildFindingsStep ==
  ASSUME EvidenceInv, NEW r \in Runs, BuildFindings(r)
  PROVE  EvidenceInv'
<1> DEFINE p == ProjectOf[r]
           rows == findings[p]
           mine == {k \in Keys : rows[k] # None /\ rows[k].run = r}
           read == {[key |-> k, evidence |-> rows[k].evidence, linked |-> linked[p][k]] : k \in mine}
<1>1. /\ manifest' = [pc |-> "findings", run |-> r, artifacts |-> {}, due |-> recorded[r],
                      rows |-> read]
      /\ UNCHANGED <<disk, meta, findings, job, recorded, linked, now, faults>>
  BY DEF BuildFindings
<1>2. p \in Projects
  BY EvidenceAssumption
<1>3. \A k \in mine : /\ k \in Keys /\ rows[k].evidence \in SUBSET Refs
                      /\ linked[p][k] \in SUBSET Blobs
                      /\ AllStored(linked[p][k]) /\ linked[p][k] \subseteq rows[k].evidence
  BY <1>2 DEF EvidenceInv, EvidenceTypeOK, EvidenceStored, AllStored, Finding
<1>4. read \in SUBSET [key : Keys, evidence : SUBSET Refs, linked : SUBSET Blobs]
  BY <1>3
<1>5. \A row \in read : AllStored(row.linked) /\ row.linked \subseteq row.evidence
  BY <1>3
<1> HIDE DEF read
<1>6. EvidenceTypeOK'
  BY <1>1, <1>4 DEF EvidenceInv, EvidenceTypeOK
<1>7. ManifestOK'
  BY <1>1, <1>5 DEF ManifestOK, AllStored, Stored
<1>8. ManifestComplete'
  BY <1>1 DEF ManifestComplete
<1>9. EvidenceStored' /\ JobsOK'
  BY <1>1 DEF EvidenceInv, EvidenceStored, JobsOK, SoundJob, AllStored, Stored
<1> QED
  BY <1>6, <1>7, <1>8, <1>9 DEF EvidenceInv

\* Then it reads the artifacts they cite: all of those that are stored.
LEMMA BuildArtifactsStep ==
  ASSUME EvidenceInv, BuildArtifacts
  PROVE  EvidenceInv'
<1> DEFINE cited == UNION {row.evidence : row \in manifest.rows}
           found == {b \in Blobs \cap cited : meta[b] # None}
<1>1. /\ manifest' = [manifest EXCEPT !.pc = "signed", !.artifacts = found]
      /\ UNCHANGED <<disk, meta, findings, job, recorded, linked, now, faults>>
  BY DEF BuildArtifacts
<1>2. \A row \in manifest.rows : row.linked \subseteq found
  BY DEF EvidenceInv, EvidenceTypeOK, ManifestOK, AllStored, Stored
<1>3. found \in SUBSET Blobs
  OBVIOUS
<1> HIDE DEF found
<1>4. manifest'.rows = manifest.rows /\ manifest'.artifacts = found
  BY <1>1 DEF EvidenceInv, EvidenceTypeOK
<1>5. EvidenceTypeOK'
  BY <1>1, <1>3 DEF EvidenceInv, EvidenceTypeOK
<1>6. ManifestOK' /\ ManifestComplete'
  BY <1>1, <1>2, <1>4 DEF EvidenceInv, ManifestOK, ManifestComplete, AllStored, Stored
<1>7. EvidenceStored' /\ JobsOK'
  BY <1>1 DEF EvidenceInv, EvidenceStored, JobsOK, SoundJob, AllStored, Stored
<1> QED
  BY <1>5, <1>6, <1>7 DEF EvidenceInv

LEMMA CrashStep ==
  ASSUME EvidenceInv, Crash
  PROVE  EvidenceInv'
<1>1. Idle \in EventOK /\ NoLabels \in [Labels -> Blobs \cup {None}]
  BY EvidenceAssumption DEF Idle, EventOK, NoLabels
<1>2. \A j \in Jobs : /\ job'[j] = [job[j] EXCEPT !.event = Idle, !.labels = NoLabels, !.used = {}]
                      /\ job[j] \in JobState
  BY DEF Crash, EvidenceInv, EvidenceTypeOK
<1>3. \A j \in Jobs : job'[j] \in JobState /\ job'[j].event = Idle /\ job'[j].labels = NoLabels
  BY <1>1, <1>2 DEF JobState
<1>4. UNCHANGED <<disk, meta, findings, recorded, linked, now>> /\ manifest' = NoManifest
  BY DEF Crash
<1>5. JobsOK'
  BY <1>3 DEF JobsOK, SoundJob, Formed, Idle, NoLabels, AllStored
<1>6. job' \in [Jobs -> JobState]
  BY <1>3 DEF Crash
<1>7. EvidenceTypeOK'
  <2>1. faults' \in 0 .. MaxFaults
    BY FaultType DEF Crash
  <2> QED
    BY <1>4, <1>6, <2>1 DEF EvidenceInv, EvidenceTypeOK, NoManifest
<1>8. EvidenceStored' /\ ManifestOK' /\ ManifestComplete'
  BY <1>4 DEF EvidenceInv, EvidenceStored, ManifestOK, ManifestComplete, NoManifest, Stored
<1> QED
  BY <1>5, <1>7, <1>8 DEF EvidenceInv

LEMMA EvidenceStep == EvidenceInv /\ [Next]_vars => EvidenceInv'
<1> SUFFICES ASSUME EvidenceInv, [Next]_vars PROVE EvidenceInv'
  OBVIOUS
<1>1. CASE Tick
  <2>1. now' \in 0 .. MaxTime
    BY <1>1, EvidenceAssumption DEF Tick, EvidenceInv, EvidenceTypeOK
  <2> QED
    BY <1>1, <2>1 DEF Tick, EvidenceInv, EvidenceTypeOK, EvidenceStored, JobsOK, SoundJob,
                      ManifestOK, ManifestComplete, AllStored, Stored
<1>2. CASE UNCHANGED vars
  BY <1>2 DEF vars, EvidenceInv, EvidenceTypeOK, EvidenceStored, JobsOK, SoundJob,
              ManifestOK, ManifestComplete, AllStored, Stored
<1> QED
  BY <1>1, <1>2, EmitArtifactStep, EmitFindingStep, PutStep, RecordStep, UpsertStep,
     RereadStep, BuildFindingsStep, BuildArtifactsStep, CrashStep DEF Next

LEMMA EvidenceInvariant == Spec => []EvidenceInv
BY EvidenceInit, EvidenceStep, PTL DEF Spec

\* The rows, the files, the goroutines and the manifest keep their types, and
\* clock and faults their bounds (internal/artifact, internal/finding).
THEOREM EvidenceTypeCorrect == Spec => []EvidenceTypeOK
BY EvidenceInvariant, PTL DEF EvidenceInv

\* Every hash that a label stood for stays evidence of its finding, with its
\* file on disk and its metadata row, for any number of jobs and any failures
\* (worker.ingestArtifact, ingestFinding).  Nothing is claimed of the hashes
\* that collectors cite raw.
THEOREM EvidenceAlwaysStored == Spec => []EvidenceStored
BY EvidenceInvariant, PTL DEF EvidenceInv

\* Build signs no manifest that lacks an artifact which one of its findings
\* has linked by a label, although it reads findings and artifacts in two
\* queries (manifest.Build).
THEOREM ManifestAlwaysComplete == Spec => []ManifestComplete
BY EvidenceInvariant, PTL DEF EvidenceInv

\* Only Upsert changes a row, and it keeps what the row has.
LEMMA RowsAccumulate ==
  ASSUME EvidenceTypeOK, NEW j \in Jobs, Upsert(j), NEW p \in Projects, NEW k \in Keys,
         findings[p][k] # None
  PROVE  /\ findings[p][k].evidence \subseteq findings'[p][k].evidence
         /\ findings[p][k].first = findings'[p][k].first
<1> DEFINE e == job[j].event
           row == Upserted(findings[Project(j)][e.key], RunOf[j], e)
<1>1. findings[p][k] \in Finding
  BY DEF EvidenceTypeOK
<1>2. findings' = findings \/ findings' = [findings EXCEPT ![Project(j)][e.key] = row]
  BY DEF Upsert
<1>3. findings'[p][k] = findings[p][k] \/ (Project(j) = p /\ e.key = k /\ findings'[p][k] = row)
  <2> HIDE DEF row, e
  <2> QED
    BY <1>2 DEF EvidenceTypeOK
<1>4. ASSUME Project(j) = p, e.key = k
      PROVE  findings[p][k].evidence \subseteq row.evidence /\ row.first = findings[p][k].first
  BY <1>1, <1>4 DEF Upserted, Finding
<1> QED
  BY <1>3, <1>4

\* What one emission of a finding has linked, and when it was first seen,
\* survive every later emission, however many jobs upsert the row and whatever
\* fails between (finding.Store.Upsert's ON CONFLICT clause).
THEOREM EvidenceAlwaysAccumulates == Spec => EvidenceAccumulates
<1> DEFINE Kept == \A p \in Projects, k \in Keys :
                      LET row == findings[p][k] IN
                      row # None => /\ row.evidence \subseteq findings'[p][k].evidence
                                    /\ row.first = findings'[p][k].first
<1>1. EvidenceInv /\ [Next]_vars => [Kept]_vars
  <2> SUFFICES ASSUME EvidenceInv, Next PROVE Kept
    OBVIOUS
  <2>1. ASSUME NEW j \in Jobs, Upsert(j) PROVE Kept
    BY <2>1, RowsAccumulate DEF EvidenceInv
  <2>2. CASE findings' = findings
    BY <2>2
  <2>3. findings' = findings \/ \E j \in Jobs : Upsert(j)
    BY DEF Next, EmitArtifact, EmitFinding, Put, Record, Reread, BuildFindings,
           BuildArtifacts, Tick, Crash
  <2> QED
    BY <2>1, <2>2, <2>3
<1> QED
  BY <1>1, EvidenceInvariant, PTL DEF Spec, EvidenceAccumulates
=============================================================================
