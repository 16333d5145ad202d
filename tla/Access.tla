------------------------------- MODULE Access -------------------------------
(***************************************************************************)
(* API tokens (internal/auth, internal/api/handlers_tokens.go) and the      *)
(* requests made with them.  A request is authenticated once, in the        *)
(* middleware; its principal then stays in the request's context, so that   *)
(* a token may be revoked, or expire, while a request of it is under way.   *)
(* A handler changes the database, appends its audit event and answers,     *)
(* each a step of its own; a crash or a failure may fall in between.        *)
(*                                                                          *)
(* The handlers for secrets are added by Vault.tla.  "operator" stands for  *)
(* operator, viewer and automation, which these handlers treat alike.       *)
(***************************************************************************)
EXTENDS Naturals

CONSTANTS
    Tokens,     \* identities of rows of api_tokens
    Projects,
    Calls,      \* requests in a behaviour
    Requests,   \* what a request may ask for
    None,       \* no project (platform scope), no token
    MaxFaults   \* bound: crashes and failed statements in a behaviour

Roles == {"admin", "owner", "operator"}

Row == [role : Roles, project : Projects \cup {None}, expires : BOOLEAN,
        revoked : BOOLEAN, issuer : Tokens \cup {None}]

ASSUME AccessAssumption ==
    /\ MaxFaults \in Nat
    /\ None \notin Tokens \cup Projects \cup Calls \cup Requests \cup Row
    /\ \A q \in Requests :
         /\ q.kind = "issue" => /\ q.role \in Roles
                                /\ q.project \in Projects \cup {None}
                                /\ q.expires \in BOOLEAN
         /\ q.kind = "revoke" => q.token \in Tokens

VARIABLES
    row,      \* api_tokens; None before the INSERT
    expired,  \* tokens whose expires_at is past
    known,    \* tokens whose plaintext has been handed out or logged
    boot,     \* runServe: "down", "mint", "minted", "up"
    call,     \* each request
    logged,   \* requests whose audit event is committed
    faults

accessVars == <<row, expired, known, boot, call, logged, faults>>

\* cut: the tokens whose revocation had been answered when the request came.
NoCall == [pc |-> "none", actor |-> None, op |-> None, new |-> None, cut |-> {}]

Places == {"none", "in", "audit", "logged", "answered", "refused", "failed"}

AccessTypeOK ==
    /\ row \in [Tokens -> Row \cup {None}]
    /\ expired \in SUBSET Tokens
    /\ known \in SUBSET Tokens
    /\ boot \in {"down", "mint", "minted", "up"}
    /\ call \in [Calls -> [pc : Places, actor : Tokens \cup {None},
                           op : Requests \cup {None}, new : Tokens \cup {None},
                           cut : SUBSET Tokens]]
    /\ logged \in SUBSET Calls
    /\ faults \in Nat

AccessInit ==
    /\ row = [t \in Tokens |-> None]
    /\ expired = {}
    /\ known = {}
    /\ boot = "down"
    /\ call = [c \in Calls |-> NoCall]
    /\ logged = {}
    /\ faults = 0

Fault == faults < MaxFaults /\ faults' = faults + 1

Issued == {t \in Tokens : row[t] # None}
Revoked == {t \in Issued : row[t].revoked}
Bootstrap == {t \in Issued : row[t].issuer = None}
Dismissed == {call[c].op.token : c \in {d \in Calls : /\ call[d].pc = "answered"
                                                     /\ call[d].op.kind = "revoke"}}

-----------------------------------------------------------------------------
(* The store *)

\* Store.Issue: admin goes with no project, every other role with one.
InsertToken(t, role, project, expires, issuer) ==
    /\ t \notin Issued
    /\ (role = "admin") <=> (project = None)
    /\ row' = [row EXCEPT ![t] = [role |-> role, project |-> project, expires |-> expires,
                                  revoked |-> FALSE, issuer |-> issuer]]

\* Defect: Lookup returns a revoked token's principal.
ValidUnlessExpired(t) == t \in Issued /\ t \notin expired

\* Store.Lookup, at the moment of its SELECT.
Valid(t) == t \in Issued /\ ~row[t].revoked /\ t \notin expired

\* expires_at goes by.
Expire(t) ==
    /\ t \in Issued \ expired
    /\ row[t].expires
    /\ expired' = expired \cup {t}
    /\ UNCHANGED <<row, known, boot, call, logged, faults>>

-----------------------------------------------------------------------------
(* The daemon: maybeBootstrap, then the server *)

\* Defect: only unrevoked tokens count.
HasAnyUnrevoked == Issued \ Revoked # {}

HasAny == Issued # {}

CheckTokens ==
    /\ boot = "down"
    /\ boot' = IF HasAny THEN "up" ELSE "mint"
    /\ UNCHANGED <<row, expired, known, call, logged, faults>>

Mint ==
    /\ boot = "mint"
    /\ \E t \in Tokens : InsertToken(t, "admin", None, FALSE, None)
    /\ boot' = "minted"
    /\ UNCHANGED <<expired, known, call, logged, faults>>

\* The plaintext goes to the daemon's log.
LogBootstrap ==
    /\ boot = "minted"
    /\ known' = known \cup Bootstrap
    /\ boot' = "up"
    /\ UNCHANGED <<row, expired, call, logged, faults>>

InProgress(c) == call[c].pc \in {"in", "audit", "logged"}

\* The daemon dies, or stops; requests in progress get no answer.
Crash ==
    /\ boot # "down"
    /\ Fault
    /\ boot' = "down"
    /\ call' = [c \in Calls |-> IF InProgress(c) THEN [call[c] EXCEPT !.pc = "failed"]
                                                 ELSE call[c]]
    /\ UNCHANGED <<row, expired, known, logged>>

-----------------------------------------------------------------------------
(* Requests *)

\* auth.Middleware.  A request that is turned away here changes nothing.
Authenticate(c, t, q) ==
    /\ boot = "up"
    /\ call[c].pc = "none"
    /\ t \in known
    /\ Valid(t)
    /\ call' = [call EXCEPT ![c] = [pc |-> "in", actor |-> t, op |-> q, new |-> None,
                                    cut |-> Dismissed]]
    /\ UNCHANGED <<row, expired, known, boot, logged, faults>>

Asks(c, kind) == call[c].pc = "in" /\ call[c].op.kind = kind
Goto(c, pc) == call' = [call EXCEPT ![c].pc = pc]

\* Defect: an owner is not held to its own project.
MayIssueAnywhere(t, q) ==
    \/ row[t].role = "admin"
    \/ row[t].role = "owner" /\ q.role # "admin"

MayIssue(t, q) ==
    \/ row[t].role = "admin"
    \/ row[t].role = "owner" /\ q.role # "admin" /\ q.project = row[t].project

MayRevoke(t, target) ==
    \/ row[t].role = "admin"
    \/ t = target
    \/ /\ row[t].role = "owner"
       /\ row[target].project # None
       /\ row[target].project = row[t].project

\* handleIssueToken.
IssueToken(c) ==
    LET q == call[c].op IN
    /\ Asks(c, "issue")
    /\ MayIssue(call[c].actor, q)
    /\ \E t \in Tokens :
          /\ InsertToken(t, q.role, q.project, q.expires, call[c].actor)
          /\ call' = [call EXCEPT ![c].pc = "audit", ![c].new = t]
    /\ UNCHANGED <<expired, known, boot, logged, faults>>

\* handleRevokeToken.  Its Get and the second read of Revoke look at columns
\* that never change.
RevokeToken(c) ==
    LET t == call[c].op.token IN
    /\ Asks(c, "revoke")
    /\ t \in Issued
    /\ MayRevoke(call[c].actor, t)
    /\ row' = [row EXCEPT ![t].revoked = TRUE]
    /\ Goto(c, "audit")
    /\ UNCHANGED <<expired, known, boot, logged, faults>>

\* 400, 403 or 404.
RefuseToken(c) ==
    LET q == call[c].op IN
    /\ \/ Asks(c, "issue") /\ ~(MayIssue(call[c].actor, q)
                                  /\ ((q.role = "admin") <=> (q.project = None)))
       \/ Asks(c, "revoke") /\ ~(q.token \in Issued /\ MayRevoke(call[c].actor, q.token))
    /\ Goto(c, "refused")
    /\ UNCHANGED <<row, expired, known, boot, logged, faults>>

\* Audit.Append commits (AuditTrail.tla).
Append(c) ==
    /\ call[c].pc = "audit"
    /\ logged' = logged \cup {c}
    /\ Goto(c, "logged")
    /\ UNCHANGED <<row, expired, known, boot, faults>>

\* Defect: the answer goes out before the event is appended.
AnswerEarly(c) ==
    /\ call[c].pc \in {"audit", "logged"}
    /\ Goto(c, "answered")
    /\ known' = known \cup ({call[c].new} \ {None})
    /\ UNCHANGED <<row, expired, boot, logged, faults>>

\* The answer to an issue carries the plaintext.
Answer(c) ==
    /\ call[c].pc = "logged"
    /\ Goto(c, "answered")
    /\ known' = known \cup ({call[c].new} \ {None})
    /\ UNCHANGED <<row, expired, boot, logged, faults>>

\* A statement fails, or takes effect with its reply lost, or the append
\* fails: 4xx or 500, whatever has been done stays done.
CallFails(c) ==
    /\ InProgress(c)
    /\ Fault
    /\ Goto(c, "failed")
    /\ UNCHANGED <<row, expired, known, boot, logged>>

DaemonStep == CheckTokens \/ Mint \/ LogBootstrap

TokenStep(c) == IssueToken(c) \/ RevokeToken(c) \/ RefuseToken(c) \/ Append(c) \/ Answer(c)

AccessNext ==
    \/ DaemonStep \/ Crash
    \/ \E t \in Tokens : Expire(t)
    \/ \E c \in Calls : \/ \E t \in Tokens, q \in Requests : Authenticate(c, t, q)
                        \/ TokenStep(c)
                        \/ CallFails(c)

AccessSpec == AccessInit /\ [][AccessNext]_accessVars

-----------------------------------------------------------------------------
(* Properties *)

\* What a token may act on: an admin everything, others their project.
Reach(t) == IF row[t].role = "admin" THEN Projects \cup {None} ELSE {row[t].project}

\* Nobody gains by issuing: down every chain of issuers, whoever revokes whom
\* meanwhile, a token reaches no further than the one it came from, only
\* admins and owners stand between, and every chain begins at a bootstrap token.
AuthorityDescends ==
    \A t \in Issued :
        LET p == row[t].issuer IN
        IF p = None THEN row[t].role = "admin"
        ELSE /\ p \in Issued
             /\ row[p].role \in {"admin", "owner"}
             /\ Reach(t) \subseteq Reach(p)
             /\ row[t].role = "admin" => row[p].role = "admin"

\* However often the daemon dies between counting, minting and logging, and
\* whatever is revoked, there is never a second bootstrap token.
OneBootstrap == \A s, t \in Bootstrap : s = t

\* Once a revocation is answered its token begins nothing any more: neither a
\* request that was authenticated before, nor a restart, nor another issue
\* brings it back.
RevokedBeginsNothing ==
    \A c \in Calls : call[c].pc # "none" => call[c].actor \notin call[c].cut

\* Whoever holds a plaintext is on record: a token that can be presented is
\* the bootstrap token, or its issue is in the audit log with its issuer, even
\* if the daemon died before it could answer.
UsableIsOnRecord ==
    \A t \in known \ Bootstrap :
        \E c \in logged : call[c].new = t /\ call[c].actor = row[t].issuer

(* What the documents of the code say, and the code does not do. *)

\* threat-model.md:60: a revoke "revokes immediately".
RevokedIsOut ==
    [][\A c, d \in Calls :
          /\ call[c].pc = "answered" /\ call[c].op.kind = "revoke"
          /\ call[d].actor = call[c].op.token
          => ~(call[d].pc = "in" /\ call'[d].pc = "audit")]_accessVars

\* main.go:233: the plaintext of the bootstrap token "is written to the daemon
\* log exactly once".
BootstrapLogged == boot = "up" => Bootstrap \subseteq known

\* architecture.md:269: "the bootstrap token is single-use".
BootstrapSingleUse ==
    \A c, d \in Calls : c # d /\ call[c].pc = "answered" /\ call[d].pc = "answered"
        /\ call[c].actor = call[d].actor => call[c].actor \notin Bootstrap
=============================================================================
