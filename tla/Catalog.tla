------------------------------ MODULE Catalog ------------------------------
(***************************************************************************)
(* Which collectors a daemon can run: the table collectors_catalog          *)
(* (internal/catalog), the registry in memory (internal/collector), the     *)
(* admin calls that change both (internal/api/handlers_catalog.go) and the  *)
(* boot that fills the registry again (cmd/polypentd).                      *)
(*                                                                          *)
(* A handler that panics is caught by the API's recovery middleware; a      *)
(* panic during boot ends the process.                                      *)
(***************************************************************************)
EXTENDS Naturals

CONSTANTS
    Names, Builtins, Binaries,
    Calls,       \* admin calls, each made at most once
    MaxFaults,   \* bound: crashes, failed appends, failed catalog reads
    Absent

ASSUME CatalogAssumption ==
    /\ Builtins \subseteq Names
    /\ Absent \notin Binaries \cup {"builtin"}
    /\ "builtin" \notin Binaries
    /\ MaxFaults \in Nat

VARIABLES
    entries,   \* the rows of collectors_catalog, by name
    registry,  \* Registry.m of the running process
    daemon,    \* "up", "down" (stopped or crashed) or "panicked" (at boot)
    call,      \* each admin call's place in its handler
    faults

catalogVars == <<entries, registry, daemon, call, faults>>

\* transport is ndjson or some other value, which nothing serves.
Entry == [binary : Binaries, ndjson : BOOLEAN]

Served(e) == e # Absent /\ e.ndjson

NoCall(pc) == [pc |-> pc, name |-> Absent, entry |-> Absent]

CatalogTypeOK ==
    /\ entries \in [Names -> Entry \cup {Absent}]
    /\ registry \in [Names -> Binaries \cup {"builtin", Absent}]
    /\ daemon \in {"up", "down", "panicked"}
    /\ call \in [Calls -> [pc    : {"none", "upserted", "missing", "audit", "created",
                                    "deleted", "done", "failed", "panicked", "lost"},
                           name  : Names \cup {Absent},
                           entry : Entry \cup {Absent}]]
    /\ faults \in 0 .. MaxFaults

Builtin == [n \in Names |-> IF n \in Builtins THEN "builtin" ELSE Absent]

CatalogInit ==
    /\ entries = [n \in Names |-> Absent]
    /\ registry = Builtin
    /\ daemon = "up"
    /\ call = [c \in Calls |-> NoCall("none")]
    /\ faults = 0

Fault == faults < MaxFaults /\ faults' = faults + 1

-----------------------------------------------------------------------------
(* POST /v1/collectors *)

\* Store.Upsert: inserts or replaces the row, whatever its name.  The statement
\* may take effect although its reply is lost; the call then answers 400.
Upsert(c, n, e) ==
    /\ daemon = "up" /\ call[c].pc = "none"
    /\ entries' = [entries EXCEPT ![n] = e]
    /\ \/ /\ call' = [call EXCEPT ![c] = [pc |-> "upserted", name |-> n, entry |-> e]]
          /\ UNCHANGED faults
       \/ /\ Fault
          /\ call' = [call EXCEPT ![c] = [pc |-> "failed", name |-> n, entry |-> e]]
    /\ UNCHANGED <<registry, daemon>>

\* Defect: the answer of Registry.Get is read the wrong way round.
LookUpInverted(c) ==
    LET n == call[c].name IN
    /\ call[c].pc = "upserted"
    /\ call' = [call EXCEPT ![c].pc =
                  IF registry[n] # Absent /\ Served(call[c].entry) THEN "missing" ELSE "audit"]
    /\ UNCHANGED <<entries, registry, daemon, faults>>

\* Registry.Get: a name that is registered keeps its collector.
LookUp(c) ==
    LET n == call[c].name IN
    /\ call[c].pc = "upserted"
    /\ call' = [call EXCEPT ![c].pc =
                  IF registry[n] = Absent /\ Served(call[c].entry) THEN "missing" ELSE "audit"]
    /\ UNCHANGED <<entries, registry, daemon, faults>>

Register(c) ==
    /\ call[c].pc = "missing"
    /\ registry[call[c].name] = Absent
    /\ registry' = [registry EXCEPT ![call[c].name] = call[c].entry.binary]
    /\ call' = [call EXCEPT ![c].pc = "audit"]
    /\ UNCHANGED <<entries, daemon, faults>>

\* Another call has registered the name since LookUp.
RegisterPanics(c) ==
    /\ call[c].pc = "missing"
    /\ registry[call[c].name] # Absent
    /\ call' = [call EXCEPT ![c].pc = "panicked"]
    /\ UNCHANGED <<entries, registry, daemon, faults>>

AuditUpsert(c) ==
    /\ call[c].pc = "audit"
    /\ \/ call' = [call EXCEPT ![c].pc = "created"] /\ UNCHANGED faults
       \/ Fault /\ call' = [call EXCEPT ![c].pc = "failed"]
    /\ UNCHANGED <<entries, registry, daemon>>

-----------------------------------------------------------------------------
(* DELETE /v1/collectors/{name}: the registry is left alone. *)

Delete(c, n) ==
    /\ daemon = "up" /\ call[c].pc = "none"
    /\ entries[n] # Absent
    /\ entries' = [entries EXCEPT ![n] = Absent]
    /\ call' = [call EXCEPT ![c] = [pc |-> "deleted", name |-> n, entry |-> Absent]]
    /\ UNCHANGED <<registry, daemon, faults>>

AuditDelete(c) ==
    /\ call[c].pc = "deleted"
    /\ \/ call' = [call EXCEPT ![c].pc = "done"] /\ UNCHANGED faults
       \/ Fault /\ call' = [call EXCEPT ![c].pc = "failed"]
    /\ UNCHANGED <<entries, registry, daemon>>

-----------------------------------------------------------------------------
(* The process *)

\* Stop or crash: the memory is gone, and so is what a call was doing.
Stop ==
    /\ daemon = "up"
    /\ Fault
    /\ daemon' = "down"
    /\ registry' = [n \in Names |-> Absent]
    /\ call' = [c \in Calls |->
                  IF call[c].pc = "none" THEN call[c] ELSE NoCall("lost")]
    /\ UNCHANGED entries

Hydrated ==
    [n \in Names |-> IF n \in Builtins THEN "builtin"
                     ELSE IF Served(entries[n]) THEN entries[n].binary ELSE Absent]

BootPanics == \E n \in Builtins : Served(entries[n])

\* Defect: Register replaces, so that a row takes over a built-in name.
BootReplacing ==
    /\ daemon # "up"
    /\ daemon' = "up"
    /\ registry' = [n \in Names |->
          IF Served(entries[n]) THEN entries[n].binary ELSE Builtin[n]]
    /\ UNCHANGED <<entries, call, faults>>

\* runServe: the built-in collectors first, then the rows of the catalog.  A
\* name that is registered twice panics; a catalog that cannot be read is
\* only logged.
Boot ==
    /\ daemon # "up"
    /\ \/ /\ BootPanics
          /\ daemon' = "panicked"
          /\ UNCHANGED <<registry, faults>>
       \/ /\ ~BootPanics
          /\ daemon' = "up" /\ registry' = Hydrated
          /\ UNCHANGED faults
       \/ /\ Fault
          /\ daemon' = "up" /\ registry' = Builtin
    /\ UNCHANGED <<entries, call>>

CatalogNext ==
    \/ \E c \in Calls :
          \/ \E n \in Names : Delete(c, n) \/ \E e \in Entry : Upsert(c, n, e)
          \/ LookUp(c) \/ Register(c) \/ RegisterPanics(c)
          \/ AuditUpsert(c) \/ AuditDelete(c)
    \/ Stop
    \/ Boot

CatalogSpec == CatalogInit /\ [][CatalogNext]_catalogVars

-----------------------------------------------------------------------------
(* Properties *)

\* handlers_catalog.go:69: a collector whose upsert was answered "created"
\* can be dispatched to without a restart, although two admins may upsert
\* the same name at once and the entry may have been deleted again.
CreatedIsServed ==
    \A c \in Calls :
        call[c].pc = "created" /\ Served(call[c].entry) => registry[call[c].name] # Absent

\* The collectors compiled in are there whenever the daemon is up, and no
\* catalog row takes over one of their names, at runtime or at boot.
BuiltinsKept == daemon = "up" => \A n \in Builtins : registry[n] = "builtin"

\* A registered collector is never swapped while the daemon is up, so that a
\* running job and the next one of its run use the same binary, even when
\* two calls have both found the name free.
RegistryStable ==
    [][\A n \in Names :
          daemon = "up" /\ daemon' = "up" /\ registry[n] # Absent =>
             registry'[n] = registry[n]]_catalogVars

(* What the comments of the code say, and the code does not do. *)

\* handlers_catalog.go:71: "If a name was previously registered, we keep the
\* existing one; admins can restart to pick up new binaries".
RestartWorks == daemon # "panicked"

\* collector.go:46: "duplicates panic so a misconfiguration surfaces at boot,
\* not at runtime".
NoRuntimePanic == \A c \in Calls : call[c].pc # "panicked"
=============================================================================
