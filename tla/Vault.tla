------------------------------- MODULE Vault -------------------------------
(***************************************************************************)
(* Secrets of a project (internal/secrets, handlers_secrets.go), written by *)
(* the requests of Access.tla and read by jobs when they are dispatched     *)
(* (worker.resolveSecrets).  A job names keys; their values are read one by *)
(* one, while requests put and delete, tokens are revoked, and the daemon   *)
(* may be restarted with another master key.                                *)
(*                                                                          *)
(* A value is known by the request that put it.  AES-GCM is perfect: a      *)
(* ciphertext opens only under the master key, project and key name it was  *)
(* sealed with.                                                             *)
(***************************************************************************)
EXTENDS Access

CONSTANTS
    Keys,
    Masters,     \* values of audit.signing_key, from which the vault's keys derive
    Jobs,
    JobProject,  \* the project of each job
    Wanted       \* parameters.secret_keys of each job

Sealed == [master : Masters, project : Projects, key : Keys, value : Calls]

ASSUME VaultAssumption ==
    /\ None \notin Sealed
    /\ JobProject \in [Jobs -> Projects]
    /\ Wanted \in [Jobs -> SUBSET Keys]
    /\ \A q \in Requests : q.kind \in {"put", "delete"} => q.project \in Projects /\ q.key \in Keys

VARIABLES
    secret,   \* project_secrets: the ciphertext of each project and key, or None
    master,   \* the master key of the running daemon
    gone,     \* history: values that were overwritten or deleted
    job       \* each job, from its dispatch on

vaultVars == <<secret, master, gone, job>>
vars == <<row, expired, known, boot, call, logged, faults, secret, master, gone, job>>

\* stale: the values that were gone when the dispatch began.
NoValues == [k \in Keys |-> None]
Waiting == [pc |-> "queued", left |-> {}, got |-> NoValues, stale |-> {}]

Init ==
    /\ AccessInit
    /\ secret = [p \in Projects |-> [k \in Keys |-> None]]
    /\ master \in Masters
    /\ gone = {}
    /\ job = [j \in Jobs |-> Waiting]

Values(p, k) == IF secret[p][k] = None THEN {} ELSE {secret[p][k].value}

-----------------------------------------------------------------------------
(* Requests *)

\* authorizeScopeWrite
MayWrite(t, p) ==
    \/ row[t].role = "admin"
    \/ row[t].role = "owner" /\ row[t].project = p

\* Defect: ON CONFLICT DO NOTHING.
PutIfAbsent(p, k, v) ==
    /\ secret' = IF secret[p][k] = None
                 THEN [secret EXCEPT ![p][k] = [master |-> master, project |-> p, key |-> k, value |-> v]]
                 ELSE secret
    /\ gone' = gone \cup Values(p, k)

\* Vault.Put: insert, or replace the ciphertext.
Put(p, k, v) ==
    /\ secret' = [secret EXCEPT ![p][k] = [master |-> master, project |-> p, key |-> k, value |-> v]]
    /\ gone' = gone \cup Values(p, k)

\* handlePutSecret.
PutSecret(c) ==
    LET q == call[c].op IN
    /\ Asks(c, "put")
    /\ MayWrite(call[c].actor, q.project)
    /\ Put(q.project, q.key, c)
    /\ Goto(c, "audit")
    /\ UNCHANGED <<row, expired, known, boot, logged, faults, master, job>>

\* handleDeleteSecret.
DeleteSecret(c) ==
    LET q == call[c].op IN
    /\ Asks(c, "delete")
    /\ MayWrite(call[c].actor, q.project)
    /\ secret[q.project][q.key] # None
    /\ secret' = [secret EXCEPT ![q.project][q.key] = None]
    /\ gone' = gone \cup Values(q.project, q.key)
    /\ Goto(c, "audit")
    /\ UNCHANGED <<row, expired, known, boot, logged, faults, master, job>>

\* 403, or 404 for a delete.
RefuseSecret(c) ==
    LET q == call[c].op IN
    /\ \/ Asks(c, "put") /\ ~MayWrite(call[c].actor, q.project)
       \/ Asks(c, "delete") /\ ~(MayWrite(call[c].actor, q.project)
                                    /\ secret[q.project][q.key] # None)
    /\ Goto(c, "refused")
    /\ UNCHANGED <<row, expired, known, boot, logged, faults, vaultVars>>

-----------------------------------------------------------------------------
(* Jobs: resolveSecrets, between MarkRunning and the collector *)

StartJob(j) ==
    /\ boot = "up"
    /\ job[j].pc = "queued"
    /\ job' = [job EXCEPT ![j] = [pc |-> "resolving", left |-> Wanted[j], got |-> NoValues, stale |-> gone]]
    /\ UNCHANGED <<accessVars, secret, master, gone>>

\* Defect: the query asks for the key only, and the ciphertext is bound to
\* nothing but the master key.
OpenByKey(j, k) ==
    {s.value : s \in {secret[p][k] : p \in Projects} \ {None}}

\* Vault.Decrypt: the value, or nothing if the row is missing or sealed under
\* another master key.
Open(j, k) ==
    LET s == secret[JobProject[j]][k] IN
    IF s # None /\ s.master = master /\ s.project = JobProject[j] /\ s.key = k
    THEN {s.value} ELSE {}

ReadSecret(j, k) ==
    /\ job[j].pc = "resolving" /\ k \in job[j].left
    /\ \E v \in Open(j, k) :
          job' = [job EXCEPT ![j].left = @ \ {k}, ![j].got[k] = v]
    /\ UNCHANGED <<accessVars, secret, master, gone>>

\* One key that cannot be read fails the job.
ReadFails(j, k) ==
    /\ job[j].pc = "resolving" /\ k \in job[j].left
    /\ Open(j, k) = {}
    /\ job' = [job EXCEPT ![j].pc = "failed"]
    /\ UNCHANGED <<accessVars, secret, master, gone>>

\* The collector gets a copy of the parameters, with the values.
ExecuteJob(j) ==
    /\ job[j].pc = "resolving" /\ job[j].left = {}
    /\ job' = [job EXCEPT ![j].pc = "executing"]
    /\ UNCHANGED <<accessVars, secret, master, gone>>

-----------------------------------------------------------------------------
\* The daemon dies with what its workers have read; their jobs go back to the
\* queue (Dispatch.tla).  It comes up with the key its configuration has then.
Die ==
    /\ Crash
    /\ job' = [j \in Jobs |-> IF job[j].pc = "failed" THEN job[j] ELSE Waiting]
    /\ master' \in Masters
    /\ UNCHANGED <<secret, gone>>

Next ==
    \/ (DaemonStep \/ \E t \in Tokens : Expire(t)) /\ UNCHANGED vaultVars
    \/ Die
    \/ \E c \in Calls :
          \/ /\ \/ \E t \in Tokens, q \in Requests : Authenticate(c, t, q)
                \/ TokenStep(c)
                \/ CallFails(c)
             /\ UNCHANGED vaultVars
          \/ PutSecret(c) \/ DeleteSecret(c) \/ RefuseSecret(c)
    \/ \E j \in Jobs : \/ StartJob(j) \/ ExecuteJob(j)
                       \/ \E k \in Keys : ReadSecret(j, k) \/ ReadFails(j, k)

Spec == Init /\ [][Next]_vars

-----------------------------------------------------------------------------
(* Properties *)

\* A collector is started with all the secrets its job asks for and no others,
\* each as somebody put it who may write to the job's project: whatever is
\* rotated, deleted or sealed under another master key while they are read.
JobGetsItsOwn ==
    \A j \in Jobs : job[j].pc = "executing" =>
        /\ {k \in Keys : job[j].got[k] # None} = Wanted[j]
        /\ \A k \in Wanted[j] :
              LET c == call[job[j].got[k]] IN
              /\ c.op.kind = "put" /\ c.op.project = JobProject[j] /\ c.op.key = k
              /\ MayWrite(c.actor, JobProject[j])

\* No job runs with a value that was rotated or deleted before it was
\* dispatched, not even when a crash has it dispatched again.
NothingStale ==
    \A j \in Jobs : \A k \in Keys : job[j].got[k] \notin job[j].stale
=============================================================================
