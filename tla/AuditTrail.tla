----------------------------- MODULE AuditTrail -----------------------------
(***************************************************************************)
(* The hash-chained audit log (internal/audit) under concurrent calls of    *)
(* the API.  A call commits its own change first and appends its event      *)
(* afterwards, in a transaction of its own; whoever calls Append without a  *)
(* change before it (Planner.Plan, the worker) is a call that has done its  *)
(* part.  One daemon, one database.                                         *)
(*                                                                          *)
(* The HMAC is modelled as injective: a hash is the sequence of the events  *)
(* chained so far, and <<>> is the NULL before the first.                   *)
(***************************************************************************)
EXTENDS Naturals, Sequences, FiniteSets

CONSTANTS
    Calls,      \* API calls, each with an event of its own
    MaxFaults,  \* bound: failed statements, lost replies, crashes
    None

ASSUME AuditAssumption == None \notin Calls /\ MaxFaults \in Nat

VARIABLES
    log,     \* the committed rows of audit_events
    nextId,  \* the BIGSERIAL sequence: never rolled back
    lock,    \* who holds pg_advisory_xact_lock(advisoryLockKey)
    call,    \* each call's place in its handler and in Append
    done,    \* calls whose own change is committed
    faults

vars == <<log, nextId, lock, call, done, faults>>

Hash == Seq(Calls)
Null == <<>>
ChainHash(prev, event) == Append(prev, event)

InTx == {"begun", "locked", "read", "inserted"}

AuditTypeOK ==
    /\ \A r \in log : /\ r.id \in Nat \ {0} /\ r.event \in Calls
                      /\ r.prev \in Hash /\ r.self \in Hash
    /\ nextId \in Nat \ {0}
    /\ lock \in Calls \cup {None}
    /\ call \in [Calls -> [pc   : {"none", "changed", "ok", "error", "lost"} \cup InTx,
                           id   : Nat,
                           prev : Hash]]
    /\ done \in SUBSET Calls
    /\ faults \in 0 .. MaxFaults

\* SELECT self_hash ... ORDER BY id DESC LIMIT 1, among some rows.
LastHash(rows) ==
    IF rows = {} THEN Null
    ELSE (CHOOSE r \in rows : \A q \in rows : q.id <= r.id).self

Below(rows, r) == {q \in rows : q.id < r.id}

\* Defect: the stored prev_hash is taken at its word.
SoundUnlinked(rows, r) == r.self = ChainHash(r.prev, r.event)

\* What Verify recomputes for one row.
Sound(rows, r) ==
    /\ r.prev = LastHash(Below(rows, r))
    /\ r.self = ChainHash(r.prev, r.event)

\* The events of some rows in the order of their ids.
Ranked(rows, i) == {r \in rows : Cardinality(Below(rows, r)) = i - 1}
Listed(rows) ==
    [i \in 1 .. Cardinality(rows) |-> (CHOOSE r \in Ranked(rows, i) : TRUE).event]

\* The id of the first row that is not sound, or 0.
Verify(rows) ==
    LET bad == {r \in rows : ~Sound(rows, r)} IN
    IF bad = {} THEN 0 ELSE (CHOOSE r \in bad : \A q \in bad : r.id <= q.id).id

Init ==
    /\ log = {}
    /\ nextId = 1
    /\ lock = None
    /\ call = [c \in Calls |-> [pc |-> "none", id |-> 0, prev |-> Null]]
    /\ done = {}
    /\ faults = 0

Fault == faults < MaxFaults /\ faults' = faults + 1

At(c, pc) == call[c].pc = pc
Goto(c, pc) == call' = [call EXCEPT ![c].pc = pc]

\* The end of a transaction releases its advisory lock.
Release(c) == lock' = IF lock = c THEN None ELSE lock

-----------------------------------------------------------------------------
(* A handler: its own change, then Append *)

Change(c) ==
    /\ At(c, "none")
    /\ done' = done \cup {c}
    /\ Goto(c, "changed")
    /\ UNCHANGED <<log, nextId, lock, faults>>

Begin(c) ==
    /\ At(c, "changed")
    /\ Goto(c, "begun")
    /\ UNCHANGED <<log, nextId, lock, done, faults>>

\* Defect: no advisory lock.
LockNothing(c) ==
    /\ At(c, "begun")
    /\ Goto(c, "locked")
    /\ UNCHANGED <<log, nextId, lock, done, faults>>

Lock(c) ==
    /\ At(c, "begun")
    /\ lock = None
    /\ lock' = c
    /\ Goto(c, "locked")
    /\ UNCHANGED <<log, nextId, done, faults>>

ReadPrev(c) ==
    /\ At(c, "locked")
    /\ call' = [call EXCEPT ![c].pc = "read", ![c].prev = LastHash(log)]
    /\ UNCHANGED <<log, nextId, lock, done, faults>>

\* Takes an id; the row is visible to others from the commit on.
Insert(c) ==
    /\ At(c, "read")
    /\ call' = [call EXCEPT ![c].pc = "inserted", ![c].id = nextId]
    /\ nextId' = nextId + 1
    /\ UNCHANGED <<log, lock, done, faults>>

RowOf(c) == [id |-> call[c].id, event |-> c, prev |-> call[c].prev,
             self |-> ChainHash(call[c].prev, c)]

\* Defect: Append returns without a commit; the deferred Rollback runs.
CommitForgotten(c) ==
    /\ At(c, "inserted")
    /\ Goto(c, "ok")
    /\ Release(c)
    /\ UNCHANGED <<log, nextId, done, faults>>

\* The commit may take effect although its reply is lost.
Commit(c) ==
    /\ At(c, "inserted")
    /\ log' = log \cup {RowOf(c)}
    /\ \/ Goto(c, "ok") /\ UNCHANGED faults
       \/ Fault /\ Goto(c, "error")
    /\ Release(c)
    /\ UNCHANGED <<nextId, done>>

\* Defect: a session lock, which the rollback does not release.
RollbackKeepsLock(c) ==
    /\ call[c].pc \in {"changed"} \cup InTx
    /\ Fault
    /\ Goto(c, "error")
    /\ UNCHANGED <<log, nextId, lock, done>>

\* A statement fails, or the client goes away and its context is cancelled:
\* the handler answers 500 "audit append failed".
Rollback(c) ==
    /\ call[c].pc \in {"changed"} \cup InTx
    /\ Fault
    /\ Goto(c, "error")
    /\ Release(c)
    /\ UNCHANGED <<log, nextId, done>>

\* The daemon dies: the server rolls its transactions back.
Crash ==
    /\ Fault
    /\ call' = [c \in Calls |-> IF call[c].pc \in {"changed"} \cup InTx
                                THEN [call[c] EXCEPT !.pc = "lost"] ELSE call[c]]
    /\ lock' = None
    /\ UNCHANGED <<log, nextId, done>>

AppendStep(c) ==
    Begin(c) \/ Lock(c) \/ ReadPrev(c) \/ Insert(c) \/ Commit(c)

Next ==
    \/ \E c \in Calls : Change(c) \/ AppendStep(c) \/ Rollback(c)
    \/ Crash

Spec == Init /\ [][Next]_vars

\* A handler goes on, and the database grants a free lock to whoever waits
\* for it: strong fairness, since PostgreSQL queues the waiters.
FairSpec == Spec /\ \A c \in Calls : SF_vars(AppendStep(c))

-----------------------------------------------------------------------------
(* Properties *)

\* audit.go:23: however appends interleave, fail and crash, Verify finds
\* nothing: every row chains to the one before it in id order, although ids
\* are handed out before the commit and failed appends leave gaps.
ChainIntact == Verify(log) = 0

\* A call that was answered without an error has exactly one row.
AnsweredIsLogged ==
    \A c \in Calls : At(c, "ok") => Cardinality({r \in log : r.event = c}) = 1

\* Read by id, the rows are a history that grows by one event at its end:
\* Append implements AuditLog, whatever ids and commits cross.
Standing(c) ==
    CASE At(c, "none")                    -> "new"
      [] At(c, "ok")                      -> "told"
      [] call[c].pc \in {"error", "lost"} -> "failed"
      [] OTHER                            -> "waiting"
History == INSTANCE AuditLog WITH
    events <- Listed(log), state <- [c \in Calls |-> Standing(c)]
LogSpec == History!Spec

\* The advisory lock belongs to an append in progress: none that has failed,
\* ended or crashed keeps the others waiting.
LockHolderAppends == lock # None => call[lock].pc \in {"locked", "read", "inserted"}

\* Every append comes to an end: a failed one does not keep the lock.
AppendEnds ==
    \A c \in Calls : At(c, "changed") ~> call[c].pc \in {"ok", "error", "lost"}

\* audit.go:5: "a single tampered or removed row breaks the chain at that
\* point".  For every row and every change of it alone: a row whose event is
\* not the one that was hashed is named by Verify; where a row was taken out,
\* or exchanged together with its hash, Verify names the row behind it, if
\* there is one (the last row has none, and nothing tells that it is gone).
Follows(r, n) == r.id < n.id /\ Below(log, n) = Below(log, r) \cup {r}
Altered(r, e) == [id |-> r.id, event |-> e, prev |-> r.prev, self |-> r.self]
Exchanged(r, e) == [id |-> r.id, event |-> e, prev |-> r.prev, self |-> ChainHash(r.prev, e)]

TamperFound ==
    \A r \in log :
        /\ \A e \in Calls \ {r.event} :
              Verify((log \ {r}) \cup {Altered(r, e)}) = r.id
        /\ \A n \in log : Follows(r, n) =>
              /\ Verify(log \ {r}) = n.id
              /\ \A e \in Calls \ {r.event} :
                    Verify((log \ {r}) \cup {Exchanged(r, e)}) = n.id

\* threat-model.md:62: the audit log "records the actor token id on every
\* mutation"; the code commits the mutation before, and apart from, its row.
MutationsLogged ==
    \A c \in Calls :
        c \in done /\ call[c].pc \in {"ok", "error", "lost"} =>
            \E r \in log : r.event = c
=============================================================================
