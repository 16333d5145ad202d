--------------------------- MODULE ExternalProofs ---------------------------
(***************************************************************************)
(* External collectors: what holds of the catalog and the registry for any  *)
(* number of names, binaries, calls and faults, and of one execution for    *)
(* any output of its process, any helper and any end of its context.        *)
(***************************************************************************)
EXTENDS Catalog, Supervisor, TLAPS

-----------------------------------------------------------------------------
(* The catalog and the registry                                             *)

InHandler == {"upserted", "missing", "audit", "created"}

\* A call in its handler has a name and an entry, and the process that serves
\* it is up.
CallsWhole ==
    \A c \in Calls :
        /\ call[c].pc \in InHandler =>
              daemon = "up" /\ call[c].name \in Names /\ call[c].entry \in Entry
        /\ call[c].pc = "missing" => Served(call[c].entry)

\* A call that has found or registered a collector leaves one behind.
CallsServed ==
    \A c \in Calls :
        call[c].pc \in {"audit", "created"} /\ Served(call[c].entry)
            => registry[call[c].name] # Absent

CatalogInv == CatalogTypeOK /\ CallsWhole /\ CallsServed /\ BuiltinsKept

-----------------------------------------------------------------------------
(* Steps of one call *)

Move(c) ==
    \/ \E n \in Names : Delete(c, n) \/ \E e \in Entry : Upsert(c, n, e)
    \/ LookUp(c) \/ Register(c) \/ RegisterPanics(c)
    \/ AuditUpsert(c) \/ AuditDelete(c)

\* The record of a call, field by field.
LEMMA CallTyped ==
    ASSUME CatalogTypeOK, NEW c \in Calls
    PROVE  /\ call[c].name \in Names \cup {Absent}
           /\ call[c].entry \in Entry \cup {Absent}
           /\ call[c] \in [pc    : {"none", "upserted", "missing", "audit", "created",
                                    "deleted", "done", "failed", "panicked", "lost"},
                           name  : Names \cup {Absent},
                           entry : Entry \cup {Absent}]
  BY DEF CatalogTypeOK

\* A fault is counted within its bound.
LEMMA FaultTyped ==
    ASSUME faults \in 0 .. MaxFaults, Fault
    PROVE  faults' \in 0 .. MaxFaults
  BY CatalogAssumption DEF Fault

\* A binary that is registered is a collector.
LEMMA BinaryIsThere ==
    ASSUME NEW e \in Entry
    PROVE  e.binary \in Binaries /\ e.binary # Absent
  BY CatalogAssumption DEF Entry

\* Each action keeps the types.
LEMMA MoveTyped ==
    ASSUME CatalogTypeOK, CallsWhole, NEW c \in Calls, Move(c)
    PROVE  CatalogTypeOK'
<1> USE DEF CatalogTypeOK
<1>1. ASSUME NEW n \in Names, Delete(c, n) PROVE CatalogTypeOK'
  BY <1>1 DEF Delete
<1>2. ASSUME NEW n \in Names, NEW e \in Entry, Upsert(c, n, e) PROVE CatalogTypeOK'
  BY <1>2, FaultTyped DEF Upsert
<1>3. CASE LookUp(c)
  BY <1>3 DEF LookUp
<1>4. CASE Register(c)
  <2>1. call[c].name \in Names /\ call[c].entry.binary \in Binaries
    BY <1>4, BinaryIsThere DEF CallsWhole, InHandler, Register
  <2> QED
    BY <1>4, <2>1 DEF Register
<1>5. CASE RegisterPanics(c)
  BY <1>5 DEF RegisterPanics
<1>6. CASE AuditUpsert(c)
  BY <1>6, FaultTyped DEF AuditUpsert
<1>7. CASE AuditDelete(c)
  BY <1>7, FaultTyped DEF AuditDelete
<1> QED
  BY <1>1, <1>2, <1>3, <1>4, <1>5, <1>6, <1>7 DEF Move

LEMMA BootTyped ==
    ASSUME CatalogTypeOK, Boot
    PROVE  CatalogTypeOK'
<1> USE DEF CatalogTypeOK
<1>1. Builtin \in [Names -> Binaries \cup {"builtin", Absent}]
  BY DEF Builtin
<1>2. Hydrated \in [Names -> Binaries \cup {"builtin", Absent}]
  <2>1. ASSUME NEW n \in Names, Served(entries[n]) PROVE entries[n].binary \in Binaries
    BY <2>1, BinaryIsThere DEF Served
  <2> QED
    BY <2>1 DEF Hydrated
<1> QED
  BY <1>1, <1>2, FaultTyped DEF Boot

LEMMA StopTyped ==
    ASSUME CatalogTypeOK, Stop
    PROVE  CatalogTypeOK'
<1>1. NoCall("lost") \in [pc    : {"none", "upserted", "missing", "audit", "created",
                                    "deleted", "done", "failed", "panicked", "lost"},
                           name  : Names \cup {Absent},
                           entry : Entry \cup {Absent}]
  BY DEF NoCall
<1>2. call' \in [Calls -> [pc    : {"none", "upserted", "missing", "audit", "created",
                                    "deleted", "done", "failed", "panicked", "lost"},
                           name  : Names \cup {Absent},
                           entry : Entry \cup {Absent}]]
  BY <1>1, CallTyped DEF Stop
<1> QED
  BY <1>2, FaultTyped DEF CatalogTypeOK, Stop

-----------------------------------------------------------------------------
(* Each kind of step keeps the invariant *)

\* Only Register changes the registry while the process lives, and it fills
\* a gap.
LEMMA MoveFillsGaps ==
    ASSUME CatalogInv, NEW c \in Calls, Move(c)
    PROVE  /\ daemon' = daemon
           /\ \A n \in Names : registry[n] # Absent => registry'[n] = registry[n]
           /\ \A d \in Calls \ {c} : call'[d] = call[d]
<1> USE DEF CatalogInv, CatalogTypeOK
<1>1. ASSUME NEW n \in Names, Delete(c, n)
      PROVE  UNCHANGED <<daemon, registry>> /\ \A d \in Calls \ {c} : call'[d] = call[d]
  BY <1>1 DEF Delete
<1>2. ASSUME NEW n \in Names, NEW e \in Entry, Upsert(c, n, e)
      PROVE  UNCHANGED <<daemon, registry>> /\ \A d \in Calls \ {c} : call'[d] = call[d]
  BY <1>2 DEF Upsert
<1>3. CASE Register(c)
  BY <1>3 DEF Register
<1>4. CASE LookUp(c) \/ RegisterPanics(c) \/ AuditUpsert(c) \/ AuditDelete(c)
  BY <1>4 DEF LookUp, RegisterPanics, AuditUpsert, AuditDelete
<1> QED
  BY <1>1, <1>2, <1>3, <1>4 DEF Move

\* Where a call is after its own step.
LEMMA MoveOwn ==
    ASSUME CatalogInv, NEW c \in Calls, Move(c)
    PROVE  /\ call'[c].pc \in InHandler =>
                 daemon = "up" /\ call'[c].name \in Names /\ call'[c].entry \in Entry
           /\ call'[c].pc = "missing" => Served(call'[c].entry)
           /\ call'[c].pc \in {"audit", "created"} /\ Served(call'[c].entry)
                 => registry'[call'[c].name] # Absent
<1> DEFINE Own ==
      /\ call'[c].pc \in InHandler =>
            daemon = "up" /\ call'[c].name \in Names /\ call'[c].entry \in Entry
      /\ call'[c].pc = "missing" => Served(call'[c].entry)
      /\ call'[c].pc \in {"audit", "created"} /\ Served(call'[c].entry)
            => registry'[call'[c].name] # Absent
<1> USE DEF CatalogInv, CatalogTypeOK
<1>1. ASSUME NEW n \in Names, Delete(c, n) PROVE Own
  BY <1>1 DEF Delete, InHandler
<1>2. ASSUME NEW n \in Names, NEW e \in Entry, Upsert(c, n, e) PROVE Own
  BY <1>2 DEF Upsert, InHandler
<1>3. CASE LookUp(c)
  BY <1>3 DEF LookUp, CallsWhole, InHandler
<1>4. CASE Register(c)
  <2>1. call[c].name \in Names /\ call[c].entry \in Entry /\ daemon = "up"
    BY <1>4 DEF CallsWhole, InHandler, Register
  <2>2. call[c].entry.binary # Absent
    BY <2>1, BinaryIsThere
  <2> QED
    BY <1>4, <2>1, <2>2 DEF Register
<1>5. CASE RegisterPanics(c)
  BY <1>5 DEF RegisterPanics, InHandler
<1>6. CASE AuditUpsert(c)
  BY <1>6 DEF AuditUpsert, CallsWhole, CallsServed, InHandler
<1>7. CASE AuditDelete(c)
  BY <1>7 DEF AuditDelete, InHandler
<1> QED
  BY <1>1, <1>2, <1>3, <1>4, <1>5, <1>6, <1>7 DEF Move

LEMMA MoveKeepsInv ==
    ASSUME CatalogInv, NEW c \in Calls, Move(c)
    PROVE  CatalogInv'
<1>1. CatalogTypeOK'
  BY MoveTyped DEF CatalogInv
<1>2. /\ daemon' = daemon
      /\ \A n \in Names : registry[n] # Absent => registry'[n] = registry[n]
      /\ \A d \in Calls \ {c} : call'[d] = call[d]
  BY MoveFillsGaps
<1>3. CallsWhole'
  BY <1>2, MoveOwn DEF CatalogInv, CallsWhole
<1>4. CallsServed'
  <2>1. ASSUME NEW d \in Calls, d # c, call'[d].pc \in {"audit", "created"}, Served(call'[d].entry)
        PROVE  registry'[call'[d].name] # Absent
    <3>1. call'[d] = call[d]
      BY <1>2, <2>1
    <3>2. call[d].name \in Names
      BY <2>1, <3>1 DEF CatalogInv, CallsWhole, InHandler
    <3>3. registry[call[d].name] # Absent
      BY <2>1, <3>1 DEF CatalogInv, CallsServed
    <3> QED
      BY <1>2, <3>1, <3>2, <3>3
  <2> QED
    BY <2>1, MoveOwn DEF CallsServed
<1>5. BuiltinsKept'
  <2>1. ASSUME NEW n \in Builtins, daemon = "up"
        PROVE  registry[n] = "builtin" /\ n \in Names /\ "builtin" # Absent
    BY <2>1, CatalogAssumption DEF CatalogInv, BuiltinsKept
  <2> QED
    BY <1>2, <2>1 DEF BuiltinsKept
<1> QED
  BY <1>1, <1>3, <1>4, <1>5 DEF CatalogInv

\* A boot finds no call in its handler, and registers the built-in collectors
\* whether or not the catalog can be read.
LEMMA BootKeepsInv ==
    ASSUME CatalogInv, Boot
    PROVE  CatalogInv'
<1>1. CatalogTypeOK'
  BY BootTyped DEF CatalogInv
<1>2. \A c \in Calls : call'[c].pc \notin InHandler
  BY DEF Boot, CatalogInv, CallsWhole
<1>3. daemon' = "up" => registry' = Hydrated \/ registry' = Builtin
  BY DEF Boot
<1>4. \A n \in Builtins : Hydrated[n] = "builtin" /\ Builtin[n] = "builtin"
  BY CatalogAssumption DEF Hydrated, Builtin
<1>5. CallsWhole' /\ CallsServed'
  BY <1>2 DEF CallsWhole, CallsServed, InHandler
<1> QED
  BY <1>1, <1>3, <1>4, <1>5 DEF CatalogInv, BuiltinsKept

LEMMA StopKeepsInv ==
    ASSUME CatalogInv, Stop
    PROVE  CatalogInv'
<1>1. CatalogTypeOK'
  BY StopTyped DEF CatalogInv
<1>2. \A c \in Calls : call'[c].pc \in {"none", "lost"}
  BY DEF Stop, NoCall
<1> QED
  BY <1>1, <1>2 DEF Stop, CatalogInv, CallsWhole, CallsServed, BuiltinsKept, InHandler

LEMMA CatalogInitial == CatalogInit => CatalogInv
<1> SUFFICES ASSUME CatalogInit PROVE CatalogInv
  OBVIOUS
<1> USE DEF CatalogInit
<1>1. CatalogTypeOK
  BY CatalogAssumption DEF CatalogTypeOK, Builtin, NoCall
<1>2. BuiltinsKept
  BY CatalogAssumption DEF BuiltinsKept, Builtin
<1>3. CallsWhole /\ CallsServed
  BY DEF CallsWhole, CallsServed, InHandler, NoCall
<1> QED
  BY <1>1, <1>2, <1>3 DEF CatalogInv

LEMMA CatalogStep == CatalogInv /\ [CatalogNext]_catalogVars => CatalogInv'
<1> SUFFICES ASSUME CatalogInv, [CatalogNext]_catalogVars PROVE CatalogInv'
  OBVIOUS
<1>1. CASE UNCHANGED catalogVars
  BY <1>1 DEF catalogVars, CatalogInv, CatalogTypeOK, CallsWhole, CallsServed, BuiltinsKept
<1>2. CASE \E c \in Calls : Move(c)
  BY <1>2, MoveKeepsInv
<1>3. CASE Stop
  BY <1>3, StopKeepsInv
<1>4. CASE Boot
  BY <1>4, BootKeepsInv
<1> QED
  BY <1>1, <1>2, <1>3, <1>4 DEF CatalogNext, Move

LEMMA CatalogInvariant == CatalogSpec => []CatalogInv
  BY CatalogInitial, CatalogStep, PTL DEF CatalogSpec

-----------------------------------------------------------------------------
(* Theorems *)

\* The variables of the catalog and the registry keep their types.
THEOREM CatalogTypeCorrect == CatalogSpec => []CatalogTypeOK
  BY CatalogInvariant, PTL DEF CatalogInv

\* What an admin was told is created can be dispatched to, whoever upserts the
\* same name at once (Server.handleUpsertCatalog).
THEOREM CreatedIsAlwaysServed == CatalogSpec => []CreatedIsServed
<1>1. CatalogInv => CreatedIsServed
  BY DEF CatalogInv, CallsServed, CreatedIsServed
<1> QED
  BY <1>1, CatalogInvariant, PTL

\* No catalog row takes over the name of a collector compiled in, at runtime
\* or at boot (runServe, Registry.Register).
THEOREM BuiltinsAlwaysKept == CatalogSpec => []BuiltinsKept
  BY CatalogInvariant, PTL DEF CatalogInv

\* As long as the process lives no collector is swapped for another
\* (Registry.Register).
THEOREM RegistryNeverSwaps == CatalogSpec => RegistryStable
<1>1. CatalogInv /\ [CatalogNext]_catalogVars =>
        [\A n \in Names :
            daemon = "up" /\ daemon' = "up" /\ registry[n] # Absent
                => registry'[n] = registry[n]]_catalogVars
  <2> SUFFICES ASSUME CatalogInv, CatalogNext, NEW n \in Names,
                      daemon = "up", daemon' = "up", registry[n] # Absent
               PROVE  registry'[n] = registry[n]
    OBVIOUS
  <2>1. CASE \E c \in Calls : Move(c)
    BY <2>1, MoveFillsGaps
  <2>2. CASE Stop \/ Boot
    BY <2>2 DEF Stop, Boot
  <2> QED
    BY <2>1, <2>2 DEF CatalogNext, Move
<1> QED
  BY <1>1, CatalogInvariant, PTL DEF CatalogSpec, RegistryStable

-----------------------------------------------------------------------------
(* One execution of an external collector, for any output of the process.   *)

\* The reader hands on the lines in their order, and holds the next of them.
InOrder ==
    /\ Len(emitted) <= Len(written)
    /\ \A i \in 1 .. Len(emitted) : emitted[i] = written[i]
    /\ pc = "emitting" => Len(emitted) < Len(written) /\ line = written[Len(emitted) + 1]

\* "done" is the last line that is handed on: the loop has ended then.
OneDone ==
    /\ \A i \in 1 .. Len(emitted) : emitted[i] = "done" => i = Len(emitted)
    /\ pc \in {"start", "descriptor", "next", "reading", "emitting"} =>
          \A i \in 1 .. Len(emitted) : emitted[i] # "done"

\* There is nothing more to hand on.
Whole ==
    \/ Len(emitted) > 0 /\ emitted[Len(emitted)] = "done"
    \/ Len(emitted) = Len(written) /\ child # "running"

\* What Execute relies on behind its loop.
LoopLeft ==
    /\ pc \in {"closing", "waiting"} /\ parseErr = None => Whole
    /\ pc = "ok" => Whole /\ child = "exited0"

\* A path that leaves Execute leaves no process; only the last step of the
\* worker writes a status.
Ended ==
    /\ pc = "start" => child = "none"
    /\ pc \in {"ok", "failed", "deadline", "cancelled", "returned"} => child # "running"
    /\ status # "running" => pc = "returned"
    /\ status = "succeeded" => Whole /\ child = "exited0"

SupervisorInv == SupervisorTypeOK /\ InOrder /\ OneDone /\ LoopLeft /\ Ended

\* The lines that are recorded are those up to the first "done".
LEMMA WholeIsUpToDone ==
  ASSUME SupervisorTypeOK, InOrder, OneDone, Whole
  PROVE  emitted = UpToDone(written)
<1> DEFINE n == Len(emitted)
           ends == {i \in 1 .. Len(written) : written[i] = "done"}
<1>1. /\ emitted \in Seq(Lines) /\ written \in Seq(Lines)
      /\ n \in Nat /\ Len(written) \in Nat /\ n <= Len(written)
      /\ \A i \in 1 .. n : emitted[i] = written[i]
  BY DEF SupervisorTypeOK, InOrder
<1>2. CASE n > 0 /\ emitted[n] = "done"
  <2>1. n \in ends /\ \A i \in ends : n <= i
    BY <1>1, <1>2 DEF OneDone
  <2>2. (CHOOSE i \in ends : \A k \in ends : i <= k) = n
    BY <1>1, <2>1
  <2>3. emitted = SubSeq(written, 1, n)
    BY <1>1
  <2> QED
    BY <2>1, <2>2, <2>3 DEF UpToDone
<1>3. CASE n = Len(written) /\ ~(n > 0 /\ emitted[n] = "done")
  <2>1. ends = {}
    BY <1>1, <1>3 DEF OneDone
  <2>2. emitted = written
    BY <1>1, <1>3
  <2> QED
    BY <2>1, <2>2 DEF UpToDone
<1> QED
  BY <1>2, <1>3 DEF Whole

LEMMA SupervisorInit == Init => SupervisorInv
<1> SUFFICES ASSUME Init PROVE SupervisorInv
  OBVIOUS
<1>1. <<>> \in Seq(Lines) /\ Len(<<>>) = 0
  OBVIOUS
<1>2. SupervisorTypeOK
  <2>1. written \in Seq(Lines) /\ emitted \in Seq(Lines) /\ Len(written) <= MaxLines
    BY <1>1, SupervisorAssumption DEF Init
  <2>2. reaped \in BOOLEAN
    BY DEF Init
  <2> QED
    BY <2>1, <2>2 DEF Init, SupervisorTypeOK
<1>3. InOrder /\ OneDone /\ LoopLeft /\ Ended
  BY <1>1 DEF Init, InOrder, OneDone, LoopLeft, Ended
<1> QED
  BY <1>2, <1>3 DEF SupervisorInv

LEMMA SupervisorTypes == SupervisorTypeOK /\ InOrder /\ [Next]_vars => SupervisorTypeOK'
<1> SUFFICES ASSUME SupervisorTypeOK, InOrder, [Next]_vars PROVE SupervisorTypeOK'
  OBVIOUS
<1> USE SupervisorAssumption DEF SupervisorTypeOK
<1>1. CASE UNCHANGED vars
  BY <1>1 DEF vars
<1>2. ASSUME NEW l \in Lines, ChildWrites(l) PROVE SupervisorTypeOK'
  BY <1>2 DEF ChildWrites
<1>3. CASE ChildSpawns \/ ChildExits \/ HelperExits \/ CtxEnds \/ CtxKills
  BY <1>3 DEF ChildSpawns, ChildExits, HelperExits, CtxEnds, CtxKills
<1>4. CASE Start \/ WriteDescriptor \/ Close
  BY <1>4 DEF Start, WriteDescriptor, Close, Kill
<1>5. CASE Next0
  BY <1>5 DEF Next0, Errors
<1>6. CASE Read
  BY <1>6 DEF Read, EOF, Errors, Lines
<1>7. CASE Emit
  <2>1. line \in Lines
    BY <1>7 DEF Emit, InOrder
  <2>2. emitted' \in Seq(Lines)
    BY <1>7, <2>1 DEF Emit
  <2>3. pc' \in {"closing", "next"} /\ parseErr' \in Errors \cup {None}
    BY <1>7 DEF Emit, Errors
  <2> QED
    BY <1>7, <2>2, <2>3 DEF Emit
<1>8. CASE Wait
  BY <1>8 DEF Wait, Outcome
<1>9. CASE Complete
  BY <1>9 DEF Complete, Statuses
<1> QED
  BY <1>1, <1>2, <1>3, <1>4, <1>5, <1>6, <1>7, <1>8, <1>9 DEF Next, Step

LEMMA SupervisorStep == SupervisorInv /\ [Next]_vars => SupervisorInv'
<1> SUFFICES ASSUME SupervisorInv, [Next]_vars PROVE SupervisorInv'
  OBVIOUS
<1>1. SupervisorTypeOK'
  BY SupervisorTypes DEF SupervisorInv
<1> SUFFICES InOrder' /\ OneDone' /\ LoopLeft' /\ Ended'
  BY <1>1 DEF SupervisorInv
<1>2. /\ SupervisorTypeOK /\ InOrder /\ OneDone /\ LoopLeft /\ Ended
      /\ written \in Seq(Lines) /\ emitted \in Seq(Lines)
  BY DEF SupervisorInv, SupervisorTypeOK
<1> USE SupervisorAssumption, <1>1, <1>2 DEF InOrder, OneDone, LoopLeft, Whole, Ended
<1>3. CASE UNCHANGED vars
  BY <1>3 DEF vars
<1>4. ASSUME NEW l \in Lines, ChildWrites(l) PROVE InOrder' /\ OneDone' /\ LoopLeft' /\ Ended'
  BY <1>4 DEF ChildWrites
<1>5. CASE ChildSpawns \/ ChildExits \/ HelperExits \/ CtxEnds \/ CtxKills
  BY <1>5 DEF ChildSpawns, ChildExits, HelperExits, CtxEnds, CtxKills
<1>6. CASE Start
  <2>1. pc' \in {"descriptor", "failed", "deadline", "cancelled"} /\ pc = "start"
        /\ UNCHANGED <<line, parseErr, ctx, helper, written, emitted, watched, reaped, status>>
    BY <1>6 DEF Start, SupervisorTypeOK
  <2>2. pc' = "descriptor" \/ child' = "none"
    BY <1>6 DEF Start
  <2> QED
    BY <2>1, <2>2
<1>7. CASE WriteDescriptor
  BY <1>7 DEF WriteDescriptor, Kill
<1>8. CASE Next0
  <2>1. \/ pc' = "reading" /\ parseErr' = parseErr
        \/ pc' = "closing" /\ parseErr' # None
    BY <1>8 DEF Next0, SupervisorTypeOK
  <2> QED
    BY <1>8, <2>1 DEF Next0
<1>9. CASE Read
  BY <1>9 DEF Read, EOF
<1>10. CASE Emit
  <2>1. CASE /\ emitted' = Append(emitted, line)
             /\ pc' = (IF line = "done" THEN "closing" ELSE "next")
             /\ parseErr' = parseErr
    <3>1. line \in Lines /\ line = written[Len(emitted) + 1] /\ Len(emitted) < Len(written)
      BY <1>10 DEF Emit
    <3>2. /\ Len(emitted') = Len(emitted) + 1 /\ emitted'[Len(emitted) + 1] = line
          /\ \A i \in 1 .. Len(emitted) : emitted'[i] = emitted[i]
      BY <2>1, <3>1
    <3>3. InOrder'
      BY <1>10, <2>1, <3>1, <3>2 DEF Emit
    <3>4. OneDone' /\ LoopLeft' /\ Ended'
      BY <1>10, <2>1, <3>1, <3>2 DEF Emit
    <3> QED
      BY <3>3, <3>4
  <2>2. CASE emitted' = emitted /\ pc' = "closing" /\ parseErr' # None
    BY <1>10, <2>2 DEF Emit
  <2> QED
    BY <1>10, <2>1, <2>2 DEF Emit, SupervisorTypeOK
<1>11. CASE Close
  BY <1>11 DEF Close, Kill
<1>12. CASE Wait
  BY <1>12 DEF Wait, Outcome, WaitError
<1>13. CASE Complete
  BY <1>13 DEF Complete, Statuses
<1> QED
  BY <1>3, <1>4, <1>5, <1>6, <1>7, <1>8, <1>9, <1>10, <1>11, <1>12, <1>13 DEF Next, Step

LEMMA SupervisorInvariant == Spec => []SupervisorInv
BY SupervisorInit, SupervisorStep, PTL DEF Spec

\* The reader, the process, its helper and the job keep their types, for any
\* number of lines (Supervisor.Execute).
THEOREM SupervisorTypeCorrect == Spec => []SupervisorTypeOK
BY SupervisorInvariant, PTL DEF SupervisorInv

\* A job that has succeeded has lost no event up to its "done" or its end, and
\* its process exited with 0 (Supervisor.Execute, Reader.Next, waitOrKill).
THEOREM SuccessIsAlwaysWhole == Spec => []SuccessIsWhole
<1>1. SupervisorInv => SuccessIsWhole
  BY WholeIsUpToDone DEF SupervisorInv, Ended, SuccessIsWhole
<1> QED
  BY <1>1, SupervisorInvariant, PTL

\* The process of an execution is not running when Execute returns, whichever
\* path it takes (supervisor.go:73-142).
THEOREM NoChildIsEverLeft == Spec => []NoChildLeft
<1>1. SupervisorInv => NoChildLeft
  BY DEF SupervisorInv, Ended, NoChildLeft
<1> QED
  BY <1>1, SupervisorInvariant, PTL

\* Once the pool is shut down no outcome is written (Pool.execute).
THEOREM PreemptedIsAlwaysLeft == Spec => PreemptedIsLeft
<1>1. [Next]_vars => [ctx = "cancelled" => status' = status]_vars
  BY DEF Next, ChildWrites, ChildSpawns, ChildExits, HelperExits, CtxEnds, CtxKills, Step,
         Start, WriteDescriptor, Next0, Read, Emit, Close, Wait, Complete
<1> QED
  BY <1>1, PTL DEF Spec, PreemptedIsLeft
=============================================================================
