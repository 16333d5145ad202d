-------------------------- MODULE AuditTrailProofs --------------------------
(* The audit log verifies, whatever appends run at once, fail or crash: for *)
(* any number of calls.                                                     *)
EXTENDS AuditTrail, FiniteSetTheorems, SequenceTheorems, TLAPS

Locked == {"locked", "read", "inserted"}

\* Ids name rows, are taken from the sequence, and have a greatest one.
IdsOK ==
    /\ IsFiniteSet(log)
    /\ \A r \in log : r.id < nextId
    /\ \A q, r \in log : q.id = r.id => q = r
    /\ log # {} => \E m \in log : \A q \in log : q.id <= m.id

\* What a transaction past the advisory lock may rely on: it is alone there,
\* what it read is still the last hash, and the id it took is above the log.
AppendOK ==
    \A c \in Calls :
        /\ call[c].pc \in Locked => lock = c
        /\ call[c].pc \in {"read", "inserted"} => call[c].prev = LastHash(log)
        /\ call[c].pc = "inserted" =>
              /\ call[c].id \in Nat \ {0} /\ call[c].id < nextId
              /\ \A r \in log : r.id < call[c].id

Chained == \A r \in log : Sound(log, r)

\* A row belongs to a call that has ended, and each such call has one at most.
RowsOwned ==
    /\ \A r \in log : call[r.event].pc \in {"ok", "error"}
    /\ \A q, r \in log : q.event = r.event => q = r
    /\ \A c \in Calls : call[c].pc = "ok" => \E r \in log : r.event = c

TrailInv == AuditTypeOK /\ IdsOK /\ AppendOK /\ Chained /\ RowsOwned

\* The last hash is a hash: the row with the greatest id exists.
LEMMA LastHashType ==
  ASSUME AuditTypeOK, IdsOK
  PROVE  LastHash(log) \in Hash
<1>1. CASE log = {}
  BY <1>1 DEF LastHash, Null, Hash
<1>2. CASE log # {}
  <2> DEFINE m == CHOOSE r \in log : \A q \in log : q.id <= r.id
  <2>1. m \in log
    BY <1>2 DEF IdsOK
  <2> QED
    BY <1>2, <2>1 DEF LastHash, AuditTypeOK
<1> QED
  BY <1>1, <1>2

\* A row above all others leaves what is below the others, and has the whole
\* log below it.
LEMMA RowOnTop ==
  ASSUME NEW rows, \A r \in rows : r.id \in Nat,
         NEW top, top.id \in Nat, \A r \in rows : r.id < top.id
  PROVE  /\ Below(rows \cup {top}, top) = rows
         /\ \A r \in rows : Below(rows \cup {top}, r) = Below(rows, r)
BY DEF Below

LEMMA TrailInit == Init => TrailInv
BY AuditAssumption, FS_EmptySet
   DEF Init, TrailInv, AuditTypeOK, IdsOK, AppendOK, Chained, RowsOwned, Hash, Null, InTx, Locked

\* Steps that leave the log alone: they must keep, for every call, what it
\* may rely on.
LEMMA QuietTrail ==
  ASSUME TrailInv, AuditTypeOK', log' = log, nextId' >= nextId, AppendOK',
         \A c \in Calls : (call'[c].pc = "ok") <=> (call[c].pc = "ok"),
         \A c \in Calls : call[c].pc = "error" => call'[c].pc = "error"
  PROVE  TrailInv'
<1>1. IdsOK'
  BY DEF TrailInv, AuditTypeOK, IdsOK
<1>2. Chained'
  BY DEF TrailInv, Chained, Sound, LastHash, Below
<1>3. RowsOwned'
  BY DEF TrailInv, RowsOwned, AuditTypeOK
<1> QED
  BY <1>1, <1>2, <1>3 DEF TrailInv

LEMMA CommitKeepsTrail ==
  ASSUME TrailInv, NEW c \in Calls, Commit(c)
  PROVE  TrailInv'
<1> DEFINE top == RowOf(c)
<1>1. /\ top.id = call[c].id /\ top.event = c /\ top.prev = call[c].prev
      /\ top.self = ChainHash(call[c].prev, c)
      /\ log' = log \cup {top} /\ nextId' = nextId /\ done' = done
      /\ call[c].pc = "inserted" /\ lock = c /\ lock' = None
      /\ call[c].id \in Nat /\ call[c].prev \in Hash
  BY DEF Commit, RowOf, At, Release, TrailInv, AuditTypeOK, AppendOK, Locked
<1>2. /\ top.prev = LastHash(log)
      /\ top.id \in Nat \ {0} /\ top.id < nextId
      /\ \A r \in log : r.id \in Nat /\ r.id < top.id
  BY <1>1 DEF TrailInv, AppendOK, AuditTypeOK
<1> HIDE DEF top
<1>3. \E pc \in {"ok", "error"} : call' = [call EXCEPT ![c].pc = pc]
  BY DEF Commit, Goto
<1>4. AuditTypeOK'
  <2>1. top.self \in Hash
    BY <1>1 DEF ChainHash, Hash
  <2>2. faults' \in 0 .. MaxFaults
    BY AuditAssumption DEF Commit, Fault, TrailInv, AuditTypeOK
  <2>3. \A r \in log' : /\ r.id \in Nat \ {0} /\ r.event \in Calls
                        /\ r.prev \in Hash /\ r.self \in Hash
    BY <1>1, <1>2, <2>1 DEF TrailInv, AuditTypeOK
  <2>4. call' \in [Calls -> [pc   : {"none", "changed", "ok", "error", "lost"} \cup InTx,
                             id   : Nat, prev : Hash]]
    BY <1>3 DEF TrailInv, AuditTypeOK
  <2> QED
    BY <1>1, <2>2, <2>3, <2>4 DEF TrailInv, AuditTypeOK
<1>5. IdsOK'
  BY <1>1, <1>2, FS_AddElement DEF TrailInv, AuditTypeOK, IdsOK
<1>6. AppendOK'
  <2>1. \A d \in Calls : d # c => call[d].pc \notin Locked
    BY <1>1 DEF TrailInv, AppendOK
  <2>2. \A d \in Calls : call'[d].pc \notin Locked
    BY <1>3, <2>1 DEF TrailInv, AuditTypeOK, Locked
  <2> QED
    BY <2>2 DEF AppendOK, Locked
<1>7. Chained'
  <2>1. /\ Below(log', top) = log
        /\ \A r \in log : Below(log', r) = Below(log, r)
    BY <1>1, <1>2, RowOnTop
  <2>2. Sound(log', top)
    BY <1>1, <1>2, <2>1 DEF Sound
  <2>3. \A r \in log : Sound(log', r)
    BY <2>1 DEF Sound, TrailInv, Chained
  <2> QED
    BY <1>1, <2>2, <2>3 DEF Chained
<1>8. RowsOwned'
  <2>1. \A r \in log : r.event \in Calls /\ r.event # c
    BY <1>1 DEF TrailInv, RowsOwned, AuditTypeOK
  <2>2. /\ call'[c].pc \in {"ok", "error"}
        /\ \A d \in Calls : d # c => call'[d] = call[d]
    BY <1>3 DEF TrailInv, AuditTypeOK
  <2> QED
    BY <1>1, <2>1, <2>2 DEF TrailInv, RowsOwned
<1> QED
  BY <1>4, <1>5, <1>6, <1>7, <1>8 DEF TrailInv

\* Every step keeps the invariant.
LEMMA TrailStep == TrailInv /\ [Next]_vars => TrailInv'
<1> SUFFICES ASSUME TrailInv, [Next]_vars PROVE TrailInv'
  OBVIOUS
<1>1. ASSUME NEW c \in Calls, Change(c) PROVE TrailInv'
  <2>1. LastHash(log)' = LastHash(log)
    BY <1>1 DEF Change, LastHash
  <2>2. AuditTypeOK'
    BY <1>1, <2>1, AuditAssumption DEF Change, TrailInv, AuditTypeOK, InTx, At, Goto
  <2>3. AppendOK'
    BY <1>1, <2>1, AuditAssumption
       DEF Change, TrailInv, AuditTypeOK, AppendOK, InTx, Locked, At, Goto
  <2>4. /\ log' = log /\ nextId' >= nextId
        /\ \A d \in Calls : /\ (call'[d].pc = "ok") <=> (call[d].pc = "ok")
                            /\ call[d].pc = "error" => call'[d].pc = "error"
    BY <1>1 DEF Change, TrailInv, AuditTypeOK, InTx, At, Goto
  <2> QED
    BY <2>2, <2>3, <2>4, QuietTrail
<1>2. ASSUME NEW c \in Calls, Begin(c) PROVE TrailInv'
  <2>1. LastHash(log)' = LastHash(log)
    BY <1>2 DEF Begin, LastHash
  <2>2. AuditTypeOK'
    BY <1>2, <2>1, AuditAssumption DEF Begin, TrailInv, AuditTypeOK, InTx, At, Goto
  <2>3. AppendOK'
    BY <1>2, <2>1, AuditAssumption
       DEF Begin, TrailInv, AuditTypeOK, AppendOK, InTx, Locked, At, Goto
  <2>4. /\ log' = log /\ nextId' >= nextId
        /\ \A d \in Calls : /\ (call'[d].pc = "ok") <=> (call[d].pc = "ok")
                            /\ call[d].pc = "error" => call'[d].pc = "error"
    BY <1>2 DEF Begin, TrailInv, AuditTypeOK, InTx, At, Goto
  <2> QED
    BY <2>2, <2>3, <2>4, QuietTrail
<1>3. ASSUME NEW c \in Calls, Lock(c) PROVE TrailInv'
  <2>1. LastHash(log)' = LastHash(log)
    BY <1>3 DEF Lock, LastHash
  <2>2. AuditTypeOK'
    BY <1>3, <2>1, AuditAssumption DEF Lock, TrailInv, AuditTypeOK, InTx, At, Goto
  <2>3. AppendOK'
    BY <1>3, <2>1, AuditAssumption
       DEF Lock, TrailInv, AuditTypeOK, AppendOK, InTx, Locked, At, Goto
  <2>4. /\ log' = log /\ nextId' >= nextId
        /\ \A d \in Calls : /\ (call'[d].pc = "ok") <=> (call[d].pc = "ok")
                            /\ call[d].pc = "error" => call'[d].pc = "error"
    BY <1>3 DEF Lock, TrailInv, AuditTypeOK, InTx, At, Goto
  <2> QED
    BY <2>2, <2>3, <2>4, QuietTrail
<1>4. ASSUME NEW c \in Calls, ReadPrev(c) PROVE TrailInv'
  <2>1. LastHash(log) \in Hash /\ LastHash(log)' = LastHash(log)
    BY <1>4, LastHashType DEF TrailInv, ReadPrev, LastHash
  <2>2. AuditTypeOK'
    BY <1>4, <2>1, AuditAssumption DEF ReadPrev, TrailInv, AuditTypeOK, InTx, At, Goto
  <2>3. AppendOK'
    BY <1>4, <2>1, AuditAssumption
       DEF ReadPrev, TrailInv, AuditTypeOK, AppendOK, InTx, Locked, At, Goto
  <2>4. /\ log' = log /\ nextId' >= nextId
        /\ \A d \in Calls : /\ (call'[d].pc = "ok") <=> (call[d].pc = "ok")
                            /\ call[d].pc = "error" => call'[d].pc = "error"
    BY <1>4 DEF ReadPrev, TrailInv, AuditTypeOK, InTx, At, Goto
  <2> QED
    BY <2>2, <2>3, <2>4, QuietTrail
<1>5. ASSUME NEW c \in Calls, Insert(c) PROVE TrailInv'
  <2>1. LastHash(log)' = LastHash(log)
    BY <1>5 DEF Insert, LastHash
  <2>2. AuditTypeOK'
    <3>1. nextId \in Nat /\ nextId' \in Nat \ {0} /\ "inserted" \in InTx
      BY <1>5 DEF Insert, TrailInv, AuditTypeOK, InTx
    <3>2. call' \in [Calls -> [pc   : {"none", "changed", "ok", "error", "lost"} \cup InTx,
                               id   : Nat, prev : Hash]]
      BY <1>5, <3>1 DEF Insert, TrailInv, AuditTypeOK
    <3> QED
      BY <1>5, <3>1, <3>2 DEF Insert, TrailInv, AuditTypeOK
  <2>3. AppendOK'
    <3>1. /\ call'[c].pc = "inserted" /\ call'[c].prev = call[c].prev /\ call'[c].id = nextId
          /\ call[c].pc = "read" /\ nextId' = nextId + 1 /\ nextId \in Nat \ {0}
          /\ \A r \in log : r.id < nextId
          /\ log' = log /\ lock' = lock
      BY <1>5 DEF Insert, TrailInv, AuditTypeOK, IdsOK, At
    <3>2. \A d \in Calls : d # c => call'[d] = call[d]
      BY <1>5 DEF Insert, TrailInv, AuditTypeOK
    <3> QED
      BY <2>1, <3>1, <3>2 DEF TrailInv, AuditTypeOK, AppendOK, Locked
  <2>4. /\ log' = log /\ nextId' >= nextId
        /\ \A d \in Calls : /\ (call'[d].pc = "ok") <=> (call[d].pc = "ok")
                            /\ call[d].pc = "error" => call'[d].pc = "error"
    BY <1>5 DEF Insert, TrailInv, AuditTypeOK, InTx, At, Goto
  <2> QED
    BY <2>2, <2>3, <2>4, QuietTrail
<1>6. ASSUME NEW c \in Calls, Commit(c) PROVE TrailInv'
  BY <1>6, CommitKeepsTrail
<1>7. ASSUME NEW c \in Calls, Rollback(c) PROVE TrailInv'
  <2>1. LastHash(log)' = LastHash(log)
    BY <1>7 DEF Rollback, LastHash
  <2>2. AuditTypeOK'
    BY <1>7, <2>1, AuditAssumption DEF Rollback, TrailInv, AuditTypeOK, InTx, At, Goto, Release, Fault
  <2>3. AppendOK'
    BY <1>7, <2>1, AuditAssumption
       DEF Rollback, TrailInv, AuditTypeOK, AppendOK, InTx, Locked, At, Goto, Release, Fault
  <2>4. /\ log' = log /\ nextId' >= nextId
        /\ \A d \in Calls : /\ (call'[d].pc = "ok") <=> (call[d].pc = "ok")
                            /\ call[d].pc = "error" => call'[d].pc = "error"
    BY <1>7 DEF Rollback, TrailInv, AuditTypeOK, InTx, At, Goto
  <2> QED
    BY <2>2, <2>3, <2>4, QuietTrail
<1>8. CASE Crash
  <2>1. LastHash(log)' = LastHash(log)
    BY <1>8 DEF Crash, LastHash
  <2>2. AuditTypeOK'
    BY <1>8, <2>1, AuditAssumption DEF Crash, TrailInv, AuditTypeOK, InTx, At, Goto, Fault
  <2>3. AppendOK'
    BY <1>8, <2>1, AuditAssumption
       DEF Crash, TrailInv, AuditTypeOK, AppendOK, InTx, Locked, At, Goto, Fault
  <2>4. /\ log' = log /\ nextId' >= nextId
        /\ \A d \in Calls : /\ (call'[d].pc = "ok") <=> (call[d].pc = "ok")
                            /\ call[d].pc = "error" => call'[d].pc = "error"
    BY <1>8 DEF Crash, TrailInv, AuditTypeOK, InTx, At, Goto
  <2> QED
    BY <2>2, <2>3, <2>4, QuietTrail
<1>9. CASE UNCHANGED vars
  <2>1. LastHash(log)' = LastHash(log)
    BY <1>9 DEF vars, LastHash
  <2>2. AuditTypeOK'
    BY <1>9, <2>1, AuditAssumption DEF vars, TrailInv, AuditTypeOK, InTx, At, Goto
  <2>3. AppendOK'
    BY <1>9, <2>1, AuditAssumption
       DEF vars, TrailInv, AuditTypeOK, AppendOK, InTx, Locked, At, Goto
  <2>4. /\ log' = log /\ nextId' >= nextId
        /\ \A d \in Calls : /\ (call'[d].pc = "ok") <=> (call[d].pc = "ok")
                            /\ call[d].pc = "error" => call'[d].pc = "error"
    BY <1>9 DEF vars, TrailInv, AuditTypeOK, InTx, At, Goto
  <2> QED
    BY <2>2, <2>3, <2>4, QuietTrail
<1> QED
  BY <1>1, <1>2, <1>3, <1>4, <1>5, <1>6, <1>7, <1>8, <1>9 DEF Next, AppendStep

LEMMA TrailInvariant == Spec => []TrailInv
BY TrailInit, TrailStep, PTL DEF Spec

\* Every event, hash and transaction keeps its type, and at most MaxFaults
\* faults are counted (audit.go).
THEOREM TrailTypeCorrect == Spec => []AuditTypeOK
BY TrailInvariant, PTL DEF TrailInv

\* Append under its advisory lock builds a chain that Verify accepts at every
\* moment, for any number of concurrent, failing and crashing appends.
THEOREM ChainAlwaysVerifies == Spec => []ChainIntact
<1>1. TrailInv => ChainIntact
  BY DEF TrailInv, Chained, ChainIntact, Verify
<1> QED
  BY <1>1, TrailInvariant, PTL

\* A call that Append answered without an error has one row, and only one.
THEOREM AnswersAreLogged == Spec => []AnsweredIsLogged
<1>1. ASSUME TrailInv PROVE AnsweredIsLogged
  <2> SUFFICES ASSUME NEW c \in Calls, At(c, "ok")
               PROVE  Cardinality({r \in log : r.event = c}) = 1
    BY DEF AnsweredIsLogged
  <2>1. PICK r \in log : {q \in log : q.event = c} = {r}
    BY <1>1 DEF TrailInv, RowsOwned, At
  <2> QED
    BY <2>1, FS_Singleton
<1> QED
  BY <1>1, TrailInvariant, PTL

\* Whoever keeps the others waiting is on its way to let go (audit.go:79):
\* every way out of Append releases the lock.
THEOREM LockHoldersAppend == Spec => []LockHolderAppends
<1>1. Init => LockHolderAppends
  BY DEF Init, LockHolderAppends
<1>2. TrailInv /\ LockHolderAppends /\ [Next]_vars => LockHolderAppends'
  <2> SUFFICES ASSUME AuditTypeOK, LockHolderAppends, [Next]_vars PROVE LockHolderAppends'
    BY DEF TrailInv
  <2> USE AuditAssumption DEF AuditTypeOK, LockHolderAppends
  <2>1. ASSUME NEW c \in Calls, Change(c) \/ Begin(c) PROVE LockHolderAppends'
    BY <2>1 DEF Change, Begin, At, Goto
  <2>2. ASSUME NEW c \in Calls, Lock(c) PROVE LockHolderAppends'
    BY <2>2 DEF Lock, At, Goto
  <2>3. ASSUME NEW c \in Calls, ReadPrev(c) \/ Insert(c) PROVE LockHolderAppends'
    <3>1. lock' = lock /\ call'[c].pc \in {"read", "inserted"}
          /\ \A d \in Calls \ {c} : call'[d] = call[d]
      BY <2>3 DEF ReadPrev, Insert
    <3> QED
      BY <3>1
  <2>4. ASSUME NEW c \in Calls, Commit(c) \/ Rollback(c) PROVE LockHolderAppends'
    <3>1. /\ lock' = IF lock = c THEN None ELSE lock
          /\ \A d \in Calls \ {c} : call'[d] = call[d]
      BY <2>4 DEF Commit, Rollback, Release, Goto
    <3> QED
      BY <3>1
  <2>5. CASE Crash
    BY <2>5 DEF Crash
  <2>6. CASE UNCHANGED vars
    BY <2>6 DEF vars
  <2> QED
    BY <2>1, <2>2, <2>3, <2>4, <2>5, <2>6 DEF Next, AppendStep
<1> QED
  BY <1>1, <1>2, TrailInvariant, PTL DEF Spec

-----------------------------------------------------------------------------
(* The rows are a history.                                                   *)

\* Places of the list below a row that is above all others.
LEMMA RanksUnderTop ==
  ASSUME NEW rows, IsFiniteSet(rows), \A r \in rows : r.id \in Nat,
         NEW top, top.id \in Nat, \A r \in rows : r.id < top.id
  PROVE  LET n == Cardinality(rows) IN
         /\ n \in Nat /\ Cardinality(rows \cup {top}) = n + 1
         /\ \A i \in 1 .. n : Ranked(rows \cup {top}, i) = Ranked(rows, i)
         /\ Ranked(rows \cup {top}, n + 1) = {top}
<1> DEFINE n == Cardinality(rows)
           all == rows \cup {top}
<1>1. n \in Nat
  BY FS_CardinalityType
<1>2. Cardinality(all) = n + 1
  <2>1. top \notin rows
    OBVIOUS
  <2> QED
    BY <2>1, FS_AddElement
<1>3. /\ Below(all, top) = rows
      /\ \A r \in rows : Below(all, r) = Below(rows, r)
  BY RowOnTop
<1>4. ASSUME NEW r \in rows
      PROVE  Cardinality(Below(rows, r)) \in Nat /\ Cardinality(Below(rows, r)) < n
  <2>1. Below(rows, r) \subseteq rows /\ r \notin Below(rows, r)
    BY DEF Below
  <2> QED
    BY <1>1, <2>1, FS_Subset, FS_CardinalityType
<1>5. ASSUME NEW i \in 1 .. n PROVE Ranked(all, i) = Ranked(rows, i)
  <2>1. Cardinality(Below(all, top)) # i - 1
    BY <1>1, <1>3
  <2> QED
    BY <1>3, <2>1 DEF Ranked
<1>6. Ranked(all, n + 1) = {top}
  <2>1. (n + 1) - 1 = n
    BY <1>1
  <2>2. \A r \in rows : Cardinality(Below(all, r)) # n
    BY <1>1, <1>3, <1>4
  <2> QED
    BY <1>3, <2>1, <2>2 DEF Ranked
<1> QED
  BY <1>1, <1>2, <1>5, <1>6

\* A row above all others comes last.
LEMMA ListedOnTop ==
  ASSUME NEW rows, IsFiniteSet(rows), \A r \in rows : r.id \in Nat,
         NEW top, top.id \in Nat, \A r \in rows : r.id < top.id
  PROVE  Listed(rows \cup {top}) = Append(Listed(rows), top.event)
<1> DEFINE n == Cardinality(rows)
           all == rows \cup {top}
           old == Listed(rows)
           S == {old[i] : i \in 1 .. n}
<1>1. /\ n \in Nat /\ Cardinality(all) = n + 1
      /\ \A i \in 1 .. n : Ranked(all, i) = Ranked(rows, i)
      /\ Ranked(all, n + 1) = {top}
  BY RanksUnderTop
<1>2. /\ old = [i \in 1 .. n |-> old[i]]
      /\ \A i \in 1 .. n : old[i] = (CHOOSE r \in Ranked(rows, i) : TRUE).event
  BY DEF Listed
<1>3. Listed(all) = [i \in 1 .. n + 1 |-> (CHOOSE r \in Ranked(all, i) : TRUE).event]
  BY <1>1 DEF Listed
<1>4. Listed(all) = [i \in 1 .. n + 1 |-> IF i \in 1 .. n THEN old[i] ELSE top.event]
  <2> SUFFICES ASSUME NEW i \in 1 .. n + 1
               PROVE  (CHOOSE r \in Ranked(all, i) : TRUE).event =
                         IF i \in 1 .. n THEN old[i] ELSE top.event
    BY <1>3
  <2>1. CASE i \in 1 .. n
    BY <1>1, <1>2, <2>1
  <2>2. CASE i \notin 1 .. n
    <3>1. i = n + 1
      BY <1>1, <2>2
    <3>2. (CHOOSE r \in {top} : TRUE) = top
      OBVIOUS
    <3> QED
      BY <1>1, <2>2, <3>1, <3>2
  <2> QED
    BY <2>1, <2>2
<1> HIDE DEF old, n
<1>5. old \in Seq(S) /\ Len(old) = n
  BY <1>1, <1>2
<1>6. PICK T : old \in Seq(T) /\ top.event \in T
  <2>1. old \in Seq(S \cup {top.event})
    BY <1>5
  <2> QED
    BY <2>1
<1>7. /\ Append(old, top.event) \in Seq(T) /\ Len(Append(old, top.event)) = n + 1
      /\ \A i \in 1 .. n : Append(old, top.event)[i] = old[i]
      /\ Append(old, top.event)[n + 1] = top.event
  BY <1>5, <1>6, AppendProperties
<1>8. /\ DOMAIN Append(old, top.event) = 1 .. n + 1
      /\ \A i \in 1 .. n + 1 : Append(old, top.event)[i] = Listed(all)[i]
  BY <1>1, <1>4, <1>7
<1>9. Append(old, top.event) = [i \in 1 .. n + 1 |-> Append(old, top.event)[i]]
  BY <1>7
<1> QED
  BY <1>4, <1>8, <1>9 DEF old

LEMMA ListedNothing == Listed({}) = <<>>
<1>1. Cardinality({}) = 0
  BY FS_EmptySet
<1> QED
  BY <1>1 DEF Listed

\* A commit appends the call's event to the list of the rows.
LEMMA CommitAppends ==
  ASSUME TrailInv, NEW c \in Calls, Commit(c)
  PROVE  /\ Listed(log)' = Append(Listed(log), c)
         /\ LastHash(log)' = Append(LastHash(log), c)
<1> DEFINE top == RowOf(c)
<1>1. /\ log' = log \cup {top} /\ top.event = c /\ top.id \in Nat
      /\ top.self = Append(LastHash(log), c)
      /\ \A r \in log : r.id \in Nat /\ r.id < top.id
  BY DEF Commit, RowOf, At, ChainHash, TrailInv, AuditTypeOK, AppendOK
<1>2. IsFiniteSet(log)
  BY DEF TrailInv, IdsOK
<1> HIDE DEF top
<1>3. Listed(log \cup {top}) = Append(Listed(log), c)
  BY <1>1, <1>2, ListedOnTop
<1>4. (CHOOSE r \in log' : \A q \in log' : q.id <= r.id) = top
  <2>1. top \in log' /\ \A q \in log' : q.id <= top.id
    BY <1>1
  <2>2. \A r \in log' : (\A q \in log' : q.id <= r.id) => r = top
    BY <1>1
  <2> QED
    BY <2>1, <2>2
<1>5. LastHash(log') = top.self
  BY <1>1, <1>4 DEF LastHash
<1> QED
  BY <1>1, <1>3, <1>5

\* The hash of the last row is that of the whole history in the order of the
\* ids: who keeps it can tell any other history from this one.
THEOREM LastHashIsHistory == Spec => [](LastHash(log) = Listed(log))
<1>1. Init => LastHash(log) = Listed(log)
  BY ListedNothing DEF Init, LastHash, Null
<1>2. TrailInv /\ LastHash(log) = Listed(log) /\ [Next]_vars
        => (LastHash(log) = Listed(log))'
  <2> SUFFICES ASSUME TrailInv, LastHash(log) = Listed(log), [Next]_vars
               PROVE  LastHash(log)' = Listed(log)'
    OBVIOUS
  <2>1. log' = log \/ \E c \in Calls : Commit(c)
    BY DEF Next, AppendStep, Change, Begin, Lock, ReadPrev, Insert, Rollback, Crash, vars
  <2>2. CASE log' = log
    BY <2>2 DEF LastHash, Listed, Ranked, Below
  <2>3. ASSUME NEW c \in Calls, Commit(c) PROVE LastHash(log)' = Listed(log)'
    BY <2>3, CommitAppends
  <2> QED
    BY <2>1, <2>2, <2>3
<1> QED
  BY <1>1, <1>2, TrailInvariant, PTL DEF Spec

-----------------------------------------------------------------------------
(* Append implements AuditLog.                                               *)

\* How a call stands, for each place it may be at.
LEMMA StandingOf ==
  ASSUME AuditTypeOK, NEW c \in Calls
  PROVE  /\ Standing(c) \in {"new", "waiting", "told", "failed"}
         /\ Standing(c) = "new" <=> call[c].pc = "none"
         /\ Standing(c) = "told" <=> call[c].pc = "ok"
         /\ Standing(c) = "failed" <=> call[c].pc \in {"error", "lost"}
BY DEF Standing, At

\* A step that leaves the log alone and moves one call.
LEMMA StepOfOne ==
  ASSUME TrailInv, TrailInv', log' = log, NEW c \in Calls,
         \A d \in Calls \ {c} : call'[d] = call[d],
         \/ Standing(c) = "new" /\ Standing(c)' = "waiting"
         \/ Standing(c) = "waiting" /\ Standing(c)' \in {"waiting", "failed"}
  PROVE  [History!Next]_History!vars
<1> DEFINE standing == [d \in Calls |-> Standing(d)]
<1>1. Listed(log)' = Listed(log)
  BY DEF Listed, Ranked, Below
<1>2. \A d \in Calls \ {c} : Standing(d)' = Standing(d)
  BY DEF Standing, At
<1>3. standing' = [standing EXCEPT ![c] = Standing(c)']
  BY <1>2
<1>4. standing[c] = Standing(c)
  OBVIOUS
<1>5. CASE Standing(c) = "new" /\ Standing(c)' = "waiting"
  BY <1>1, <1>3, <1>4, <1>5 DEF History!Next, History!Submit
<1>6. CASE Standing(c) = "waiting" /\ Standing(c)' = "waiting"
  <2>1. standing' = standing
    BY <1>2, <1>6
  <2> QED
    BY <1>1, <2>1 DEF History!vars
<1>7. CASE Standing(c) = "waiting" /\ Standing(c)' = "failed"
  BY <1>1, <1>3, <1>4, <1>7 DEF History!Next, History!Refuse
<1> QED
  BY <1>5, <1>6, <1>7

\* The commit is the moment at which the event is in the history.
LEMMA CommitRecords ==
  ASSUME TrailInv, TrailInv', NEW c \in Calls, Commit(c)
  PROVE  History!Next
<1> DEFINE standing == [d \in Calls |-> Standing(d)]
<1>1. Listed(log)' = Append(Listed(log), c)
  BY CommitAppends
<1>2. call[c].pc = "inserted" /\ call'[c].pc \in {"ok", "error"}
  BY DEF Commit, At, Goto, TrailInv, AuditTypeOK
<1>3. \A d \in Calls \ {c} : call'[d] = call[d]
  BY DEF Commit, Goto, TrailInv, AuditTypeOK
<1>4. Standing(c) = "waiting"
  BY <1>2, StandingOf DEF TrailInv
<1>5. Standing(c)' \in {"told", "failed"}
  BY <1>2 DEF Standing, At
<1>6. \A d \in Calls \ {c} : Standing(d)' = Standing(d)
  BY <1>3 DEF Standing, At
<1>7. standing' = [standing EXCEPT ![c] = Standing(c)']
  BY <1>6
<1>8. standing[c] = "waiting"
  BY <1>4
<1>9. History!Record(c)
  BY <1>1, <1>5, <1>7, <1>8 DEF History!Record
<1> QED
  BY <1>9 DEF History!Next

LEMMA CrashStops ==
  ASSUME TrailInv, Crash
  PROVE  History!Next
<1> DEFINE standing == [d \in Calls |-> Standing(d)]
<1>1. Listed(log)' = Listed(log)
  BY DEF Crash, Listed, Ranked, Below
<1>2. ASSUME NEW d \in Calls
      PROVE  Standing(d)' = IF standing[d] = "waiting" THEN "failed" ELSE standing[d]
  <2>1. /\ standing[d] = Standing(d)
        /\ Standing(d) = "waiting" <=> call[d].pc \in {"changed"} \cup InTx
    BY StandingOf DEF TrailInv, AuditTypeOK, InTx
  <2>2. CASE call[d].pc \in {"changed"} \cup InTx
    <3>1. call'[d].pc = "lost"
      BY <2>2 DEF Crash, TrailInv, AuditTypeOK
    <3> QED
      BY <2>1, <2>2, <3>1 DEF Standing, At
  <2>3. CASE call[d].pc \notin {"changed"} \cup InTx
    <3>1. call'[d] = call[d]
      BY <2>3 DEF Crash
    <3> QED
      BY <2>1, <2>3, <3>1 DEF Standing, At
  <2> QED
    BY <2>2, <2>3
<1>3. standing' = [d \in Calls |-> IF standing[d] = "waiting" THEN "failed" ELSE standing[d]]
  BY <1>2
<1> QED
  BY <1>1, <1>3 DEF History!Next, History!Stop

LEMMA TrailStepIsLogged ==
  ASSUME TrailInv, TrailInv', [Next]_vars
  PROVE  [History!Next]_History!vars
<1> USE DEF TrailInv
<1>1. ASSUME NEW c \in Calls, Change(c) PROVE [History!Next]_History!vars
  <2>1. /\ log' = log /\ \A d \in Calls \ {c} : call'[d] = call[d]
        /\ call[c].pc = "none" /\ call'[c].pc = "changed"
    BY <1>1 DEF Change, At, Goto, AuditTypeOK
  <2>2. Standing(c) = "new" /\ Standing(c)' = "waiting"
    BY <2>1 DEF Standing, At
  <2> QED
    BY <2>1, <2>2, StepOfOne
<1>2. ASSUME NEW c \in Calls, Begin(c) \/ Lock(c) \/ ReadPrev(c) \/ Insert(c)
      PROVE  [History!Next]_History!vars
  <2>1. /\ log' = log /\ \A d \in Calls \ {c} : call'[d] = call[d]
        /\ call[c].pc \in {"changed", "begun", "locked", "read"} /\ call'[c].pc \in InTx
    BY <1>2 DEF Begin, Lock, ReadPrev, Insert, At, Goto, AuditTypeOK, InTx
  <2>2. Standing(c) = "waiting" /\ Standing(c)' = "waiting"
    BY <2>1 DEF Standing, At, InTx
  <2> QED
    BY <2>1, <2>2, StepOfOne
<1>3. ASSUME NEW c \in Calls, Commit(c) PROVE [History!Next]_History!vars
  BY <1>3, CommitRecords
<1>4. ASSUME NEW c \in Calls, Rollback(c) PROVE [History!Next]_History!vars
  <2>1. /\ log' = log /\ \A d \in Calls \ {c} : call'[d] = call[d]
        /\ call[c].pc \in {"changed"} \cup InTx /\ call'[c].pc = "error"
    BY <1>4 DEF Rollback, Goto, AuditTypeOK
  <2>2. Standing(c) = "waiting" /\ Standing(c)' = "failed"
    BY <2>1 DEF Standing, At, InTx
  <2> QED
    BY <2>1, <2>2, StepOfOne
<1>5. CASE Crash
  BY <1>5, CrashStops
<1>6. CASE UNCHANGED vars
  <2>1. Listed(log)' = Listed(log)
    BY <1>6 DEF vars, Listed, Ranked, Below
  <2>2. \A d \in Calls : Standing(d)' = Standing(d)
    BY <1>6 DEF vars, Standing, At
  <2>3. [d \in Calls |-> Standing(d)]' = [d \in Calls |-> Standing(d)]
    BY <2>2
  <2> QED
    BY <2>1, <2>3 DEF History!vars
<1> QED
  BY <1>1, <1>2, <1>3, <1>4, <1>5, <1>6 DEF Next, AppendStep

\* Concurrent, failing and crashing appends keep one history that grows at
\* its end, by the events of the calls that ask for it.
THEOREM AuditTrailImplementsLog == Spec => LogSpec
<1>1. Init => History!Init
  <2> SUFFICES ASSUME Init PROVE History!Init
    OBVIOUS
  <2>1. \A c \in Calls : Standing(c) = "new"
    BY DEF Init, Standing, At
  <2> QED
    BY <2>1, ListedNothing DEF Init, History!Init
<1>2. TrailInv /\ TrailInv' /\ [Next]_vars => [History!Next]_History!vars
  BY TrailStepIsLogged
<1> QED
  BY <1>1, <1>2, TrailInvariant, PTL DEF Spec, LogSpec, History!Spec
-----------------------------------------------------------------------------
(* A log that was changed behind Append's back.                              *)

\* Verify stops at the first row that is not sound.
LEMMA VerifyNames ==
  ASSUME NEW rows, \A q \in rows : q.id \in Nat,
         \A p, q \in rows : p.id = q.id => p = q,
         NEW r \in rows, ~Sound(rows, r),
         \A q \in rows : q.id < r.id => Sound(rows, q)
  PROVE  Verify(rows) = r.id
<1> DEFINE bad == {q \in rows : ~Sound(rows, q)}
<1>1. r \in bad /\ \A q \in bad : r.id <= q.id
  OBVIOUS
<1>2. \A p \in bad : (\A q \in bad : p.id <= q.id) => p = r
  BY <1>1
<1>3. (CHOOSE p \in bad : \A q \in bad : p.id <= q.id) = r
  BY <1>1, <1>2
<1> QED
  BY <1>1, <1>3 DEF Verify

\* The last hash of rows that have one of them above all others.
LEMMA LastHashOnTop ==
  ASSUME NEW rows, \A q \in rows : q.id \in Nat,
         NEW top, top.id \in Nat, \A q \in rows : q.id < top.id
  PROVE  LastHash(rows \cup {top}) = top.self
<1> DEFINE all == rows \cup {top}
<1>1. top \in all /\ \A q \in all : q.id <= top.id
  OBVIOUS
<1>2. \A r \in all : (\A q \in all : q.id <= r.id) => r = top
  BY <1>1
<1>3. (CHOOSE r \in all : \A q \in all : q.id <= r.id) = top
  BY <1>1, <1>2
<1> QED
  BY <1>1, <1>3 DEF LastHash

\* A chain of hashes tells its events apart, and grows.
LEMMA ChainsDiffer ==
  ASSUME NEW s \in Hash, NEW d \in Calls, NEW e \in Calls
  PROVE  /\ ChainHash(s, e) # s
         /\ d # e => ChainHash(s, d) # ChainHash(s, e)
BY AppendProperties DEF ChainHash, Hash

\* What the log gives about one of its rows and the row behind it.
LEMMA RowFacts ==
  ASSUME TrailInv, NEW r \in log
  PROVE  /\ r.id \in Nat /\ r.event \in Calls /\ r.prev \in Hash
         /\ r.prev = LastHash(Below(log, r)) /\ r.self = ChainHash(r.prev, r.event)
         /\ \A q \in log : q.id \in Nat /\ Sound(log, q)
         /\ \A p, q \in log : p.id = q.id => p = q
         /\ \A n \in log : Follows(r, n) => n.prev = r.self
<1>1. /\ r.id \in Nat /\ r.event \in Calls /\ r.prev \in Hash
      /\ r.prev = LastHash(Below(log, r)) /\ r.self = ChainHash(r.prev, r.event)
      /\ \A q \in log : q.id \in Nat /\ Sound(log, q)
      /\ \A p, q \in log : p.id = q.id => p = q
  BY DEF TrailInv, AuditTypeOK, Chained, Sound, IdsOK
<1>2. ASSUME NEW n \in log, Follows(r, n) PROVE n.prev = r.self
  <2>1. LastHash(Below(log, r) \cup {r}) = r.self
    <3>1. \A q \in Below(log, r) : q.id \in Nat /\ q.id < r.id
      BY <1>1 DEF Below
    <3> QED
      BY <1>1, <3>1, LastHashOnTop
  <2>2. n.prev = LastHash(Below(log, n))
    BY <1>1 DEF Sound
  <2> QED
    BY <1>2, <2>1, <2>2 DEF Follows
<1> QED
  BY <1>1, <1>2

\* Sound rows stay sound while nothing changes below them.
LEMMA SoundBelow ==
  ASSUME NEW rows, \A p \in log \cup rows : p.id \in Nat, NEW k \in Nat,
         \A p \in log \cup rows : p.id < k => p \in log /\ p \in rows,
         NEW q \in rows, q.id < k, \A p \in log : Sound(log, p)
  PROVE  Sound(rows, q)
<1>1. q \in log /\ q.id \in Nat
  OBVIOUS
<1>2. ASSUME NEW p \in log \cup rows, p.id < q.id PROVE p \in log /\ p \in rows
  <2>1. p.id < k
    BY <1>1, <1>2
  <2> QED
    BY <2>1
<1>3. Below(rows, q) = Below(log, q)
  BY <1>2 DEF Below
<1> QED
  BY <1>1, <1>3 DEF Sound

LEMMA AlteredIsFound ==
  ASSUME TrailInv, NEW r \in log, NEW e \in Calls \ {r.event}
  PROVE  Verify((log \ {r}) \cup {Altered(r, e)}) = r.id
<1> DEFINE a == Altered(r, e)
           rows == (log \ {r}) \cup {a}
<1>1. a.id = r.id /\ a.event = e /\ a.prev = r.prev /\ a.self = r.self
  BY DEF Altered
<1> HIDE DEF a
<1>2. /\ \A q \in rows : q.id \in Nat
      /\ \A p, q \in rows : p.id = q.id => p = q
  BY <1>1, RowFacts
<1>3. ~Sound(rows, a)
  BY <1>1, RowFacts, ChainsDiffer DEF Sound
<1>4. ASSUME NEW q \in rows, q.id < a.id PROVE Sound(rows, q)
  <2>1. \A p \in log \cup rows : p.id < r.id => p \in log /\ p \in rows
    BY <1>1, RowFacts
  <2> QED
    BY <1>1, <1>2, <1>4, <2>1, RowFacts, SoundBelow
<1> QED
  BY <1>1, <1>2, <1>3, <1>4, VerifyNames DEF a

LEMMA RemovedIsFound ==
  ASSUME TrailInv, NEW r \in log, NEW n \in log, Follows(r, n)
  PROVE  Verify(log \ {r}) = n.id
<1> DEFINE rows == log \ {r}
<1>1. n \in rows /\ r.id \in Nat /\ n.id \in Nat /\ r.id < n.id
  BY RowFacts DEF Follows
<1>2. Below(rows, n) = Below(log, r)
  <2>1. Below(rows, n) = Below(log, n) \ {r}
    BY DEF Below
  <2>2. r \notin Below(log, r)
    BY <1>1 DEF Below
  <2> QED
    BY <2>1, <2>2 DEF Follows
<1>3. ~Sound(rows, n)
  BY <1>2, RowFacts, ChainsDiffer DEF Sound
<1>4. ASSUME NEW q \in rows, q.id < n.id PROVE Sound(rows, q)
  <2>1. q \in Below(log, r)
    BY <1>2, <1>4 DEF Below
  <2>2. q.id < r.id /\ \A p \in log \cup rows : p.id < r.id => p \in log /\ p \in rows
    BY <1>1, <2>1, RowFacts DEF Below
  <2> QED
    BY <1>1, <2>2, RowFacts, SoundBelow
<1>5. \A q \in rows : q.id \in Nat
  BY RowFacts
<1>6. \A p, q \in rows : p.id = q.id => p = q
  BY RowFacts
<1> QED
  BY <1>1, <1>3, <1>4, <1>5, <1>6, VerifyNames

LEMMA ExchangedIsFound ==
  ASSUME TrailInv, NEW r \in log, NEW n \in log, Follows(r, n), NEW e \in Calls \ {r.event}
  PROVE  Verify((log \ {r}) \cup {Exchanged(r, e)}) = n.id
<1> DEFINE x == Exchanged(r, e)
           rows == (log \ {r}) \cup {x}
<1>1. x.id = r.id /\ x.event = e /\ x.prev = r.prev /\ x.self = ChainHash(r.prev, e)
  BY DEF Exchanged
<1> HIDE DEF x
<1>2. n \in rows /\ r.id \in Nat /\ n.id \in Nat /\ r.id < n.id
  BY RowFacts DEF Follows
<1>3. Below(rows, x) = Below(log, r)
  BY <1>1, <1>2 DEF Below
<1>4. Below(rows, n) = Below(log, r) \cup {x}
  <2>1. Below(rows, n) = (Below(log, n) \ {r}) \cup {x}
    BY <1>1, <1>2 DEF Below
  <2>2. r \notin Below(log, r)
    BY <1>2 DEF Below
  <2> QED
    BY <2>1, <2>2 DEF Follows
<1>5. LastHash(Below(rows, n)) = x.self
  <2>1. \A q \in Below(log, r) : q.id \in Nat /\ q.id < x.id
    BY <1>1, RowFacts DEF Below
  <2> QED
    BY <1>1, <1>2, <1>4, <2>1, LastHashOnTop
<1>6. ~Sound(rows, n)
  BY <1>1, <1>5, RowFacts, ChainsDiffer DEF Sound
<1>7. Sound(rows, x)
  BY <1>1, <1>3, RowFacts DEF Sound
<1>8. ASSUME NEW q \in rows, q.id < n.id PROVE Sound(rows, q)
  <2>1. CASE q = x
    BY <1>7, <2>1
  <2>2. CASE q # x
    <3>1. q \in Below(log, r)
      BY <1>4, <1>8, <2>2 DEF Below
    <3>2. q.id < r.id /\ \A p \in log \cup rows : p.id < r.id => p \in log /\ p \in rows
      BY <1>1, <1>2, <3>1, RowFacts DEF Below
    <3>3. \A p \in log \cup rows : p.id \in Nat
      BY <1>1, RowFacts
    <3> QED
      BY <1>2, <3>2, <3>3, RowFacts, SoundBelow
  <2> QED
    BY <2>1, <2>2
<1>9. /\ \A q \in rows : q.id \in Nat
      /\ \A p, q \in rows : p.id = q.id => p = q
  BY <1>1, RowFacts
<1> QED
  BY <1>2, <1>6, <1>8, <1>9, VerifyNames DEF x

\* audit.go:5: in every log that Append has built, Verify finds the place at
\* which one row was altered, and the row behind one that was removed or
\* exchanged.
THEOREM TamperingIsFound == Spec => []TamperFound
<1>1. TrailInv => TamperFound
  BY AlteredIsFound, RemovedIsFound, ExchangedIsFound DEF TamperFound
<1> QED
  BY <1>1, TrailInvariant, PTL
=============================================================================
