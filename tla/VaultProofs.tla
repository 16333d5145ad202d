----------------------------- MODULE VaultProofs -----------------------------
(* Theorems of Access and Vault: for any tokens, projects, requests, jobs,  *)
(* keys and master keys.                                                    *)
EXTENDS Vault, TLAPS

CallRow == [pc : Places, actor : Tokens \cup {None}, op : Requests \cup {None},
            new : Tokens \cup {None}, cut : SUBSET Tokens]

JobRow == [pc : {"queued", "resolving", "executing", "failed"}, left : SUBSET Keys,
           got : [Keys -> Calls \cup {None}], stale : SUBSET Calls]

VaultTypeOK ==
    /\ secret \in [Projects -> [Keys -> Sealed \cup {None}]]
    /\ master \in Masters
    /\ gone \in SUBSET Calls
    /\ job \in [Jobs -> JobRow]

\* A request that has begun came with a token of its own and asks for something.
CallsAsk == \A c \in Calls : call[c].pc # "none" => /\ call[c].actor \in Issued
                                                    /\ call[c].op \in Requests

TypeOK == AccessTypeOK /\ VaultTypeOK /\ CallsAsk

LEMMA CallTyped == AccessTypeOK => call \in [Calls -> CallRow]
  BY DEF AccessTypeOK, CallRow

LEMMA InitTypes == Init => TypeOK
<1> SUFFICES ASSUME Init PROVE TypeOK
  OBVIOUS
<1> USE DEF Init
<1>1. AccessTypeOK
  BY AccessAssumption DEF AccessInit, AccessTypeOK, NoCall, Places
<1>2. secret \in [Projects -> [Keys -> Sealed \cup {None}]]
  OBVIOUS
<1>3. job \in [Jobs -> JobRow]
  BY DEF Waiting, NoValues, JobRow
<1>4. VaultTypeOK
  BY <1>2, <1>3 DEF VaultTypeOK
<1>5. CallsAsk
  BY DEF AccessInit, NoCall, CallsAsk
<1> QED
  BY <1>1, <1>4, <1>5 DEF TypeOK

-----------------------------------------------------------------------------
(* What the steps do to the rows of api_tokens and to the requests. *)

\* A request is only moved on.
LEMMA CallMoves ==
  ASSUME call \in [Calls -> CallRow], NEW c \in Calls, NEW pc \in Places, Goto(c, pc)
  PROVE  /\ call' \in [Calls -> CallRow]
         /\ call'[c].pc = pc /\ call'[c].new = call[c].new
         /\ call'[c].actor = call[c].actor
         /\ call'[c].op = call[c].op
         /\ call'[c].cut = call[c].cut
         /\ \A d \in Calls \ {c} : call'[d] = call[d]
  BY DEF Goto, CallRow

\* A request issues token t.
LEMMA CallIssues ==
  ASSUME call \in [Calls -> CallRow], NEW c \in Calls, NEW t \in Tokens,
         call' = [call EXCEPT ![c].pc = "audit", ![c].new = t]
  PROVE  /\ call' \in [Calls -> CallRow]
         /\ call'[c].pc = "audit" /\ call'[c].new = t
         /\ call'[c].actor = call[c].actor
         /\ call'[c].op = call[c].op
         /\ call'[c].cut = call[c].cut
         /\ \A d \in Calls \ {c} : call'[d] = call[d]
  BY DEF CallRow, Places

LEMMA RowInserted ==
  ASSUME row \in [Tokens -> Row \cup {None}], NEW t \in Tokens,
         NEW role \in Roles, NEW project \in Projects \cup {None},
         NEW expires \in BOOLEAN, NEW issuer \in Tokens \cup {None},
         InsertToken(t, role, project, expires, issuer)
  PROVE  /\ row' \in [Tokens -> Row \cup {None}]
         /\ t \notin Issued
         /\ (role = "admin") <=> (project = None)
         /\ Issued' = Issued \cup {t}
         /\ \A u \in Issued : row'[u] = row[u]
         /\ row'[t].role = role /\ row'[t].project = project
         /\ row'[t].issuer = issuer /\ ~row'[t].revoked
<1> DEFINE new == [role |-> role, project |-> project, expires |-> expires,
                   revoked |-> FALSE, issuer |-> issuer]
<1>1. new \in Row
  BY DEF Row
<1>2. new # None
  BY <1>1, AccessAssumption
<1>3. row' = [row EXCEPT ![t] = new] /\ t \notin Issued
  BY DEF InsertToken
<1>4. row' \in [Tokens -> Row \cup {None}]
  <2> HIDE DEF new
  <2> QED
    BY <1>1, <1>3
<1>5. row'[t] = new /\ \A u \in Tokens \ {t} : row'[u] = row[u]
  <2> HIDE DEF new
  <2> QED
    BY <1>3
<1>6. Issued' = Issued \cup {t} /\ \A u \in Issued : row'[u] = row[u]
  <2> HIDE DEF new
  <2> QED
    BY <1>2, <1>3, <1>5 DEF Issued
<1>7. (role = "admin") <=> (project = None)
  BY DEF InsertToken
<1> QED
  BY <1>3, <1>4, <1>5, <1>6, <1>7

LEMMA RowRevoked ==
  ASSUME row \in [Tokens -> Row \cup {None}], NEW t \in Issued,
         row' = [row EXCEPT ![t].revoked = TRUE]
  PROVE  /\ row' \in [Tokens -> Row \cup {None}]
         /\ Issued' = Issued
         /\ row'[t].revoked
         /\ \A u \in Issued : /\ row'[u].role = row[u].role
                              /\ row'[u].project = row[u].project
                              /\ row'[u].issuer = row[u].issuer
                              /\ row[u].revoked => row'[u].revoked
<1>1. t \in Tokens /\ row[t] \in Row
  BY DEF Issued
<1>2. [row[t] EXCEPT !.revoked = TRUE] \in Row
  BY <1>1 DEF Row
<1>3. [row[t] EXCEPT !.revoked = TRUE] # None
  BY <1>2, AccessAssumption
<1>4. row'[t] = [row[t] EXCEPT !.revoked = TRUE] /\ \A u \in Tokens \ {t} : row'[u] = row[u]
  BY <1>1
<1>5. row' \in [Tokens -> Row \cup {None}]
  BY <1>1, <1>2, <1>4
<1>6. Issued' = Issued
  BY <1>1, <1>3, <1>4 DEF Issued
<1>7. /\ row'[t].revoked
      /\ row'[t].role = row[t].role /\ row'[t].project = row[t].project
      /\ row'[t].issuer = row[t].issuer
  BY <1>1, <1>4 DEF Row
<1> QED
  BY <1>4, <1>5, <1>6, <1>7 DEF Issued

-----------------------------------------------------------------------------
(* Types, and that what a token is and what a request asks for stay so. *)

\* A row of api_tokens keeps its role, project and issuer, and stays revoked.
RowsKept ==
    /\ row' \in [Tokens -> Row \cup {None}]
    /\ Issued \subseteq Issued'
    /\ \A u \in Issued : /\ row'[u].role = row[u].role
                         /\ row'[u].project = row[u].project
                         /\ row'[u].issuer = row[u].issuer
                         /\ row[u].revoked => row'[u].revoked

\* A request that has begun keeps its token and what it asks for.
CallsKept ==
    /\ call' \in [Calls -> CallRow]
    /\ \A d \in Calls : call[d].pc # "none" => /\ call'[d].pc # "none"
                                              /\ call'[d].actor = call[d].actor
                                              /\ call'[d].op = call[d].op
                                              /\ call'[d].cut = call[d].cut

LEMMA RowsStep == TypeOK /\ [Next]_vars => RowsKept
<1> SUFFICES ASSUME TypeOK, [Next]_vars PROVE RowsKept
  OBVIOUS
<1>0. CASE UNCHANGED vars
  BY <1>0 DEF vars, RowsKept, Issued, TypeOK, AccessTypeOK
<1>1. ASSUME CheckTokens, UNCHANGED vaultVars PROVE RowsKept
  BY <1>1 DEF CheckTokens, accessVars, vaultVars, RowsKept, Issued, TypeOK, AccessTypeOK
<1>2. ASSUME Mint, UNCHANGED vaultVars PROVE RowsKept
  <2>1. PICK t \in Tokens : InsertToken(t, "admin", None, FALSE, None)
    BY <1>2 DEF Mint
  <2> QED
    BY <2>1, RowInserted DEF RowsKept, TypeOK, AccessTypeOK, Roles
<1>3. ASSUME LogBootstrap, UNCHANGED vaultVars PROVE RowsKept
  BY <1>3 DEF LogBootstrap, accessVars, vaultVars, RowsKept, Issued, TypeOK, AccessTypeOK
<1>4. ASSUME NEW t \in Tokens, Expire(t), UNCHANGED vaultVars
      PROVE  RowsKept
  BY <1>4 DEF Expire, accessVars, vaultVars, RowsKept, Issued, TypeOK, AccessTypeOK
<1>5. ASSUME Die PROVE RowsKept
  BY <1>5 DEF Die, Crash, accessVars, vaultVars, RowsKept, Issued, TypeOK, AccessTypeOK
<1>6. ASSUME NEW c \in Calls, NEW t \in Tokens, NEW q \in Requests, Authenticate(c, t, q), UNCHANGED vaultVars
      PROVE  RowsKept
  BY <1>6 DEF Authenticate, accessVars, vaultVars, RowsKept, Issued, TypeOK, AccessTypeOK
<1>7. ASSUME NEW c \in Calls, IssueToken(c), UNCHANGED vaultVars
      PROVE  RowsKept
  <2>1. call[c].op \in Requests /\ call[c].op.kind = "issue" /\ call[c].actor \in Tokens
    BY <1>7 DEF IssueToken, Asks, TypeOK, CallsAsk, Issued
  <2>2. PICK t \in Tokens : InsertToken(t, call[c].op.role, call[c].op.project, call[c].op.expires, call[c].actor)
    BY <1>7 DEF IssueToken
  <2> QED
    BY <2>1, <2>2, RowInserted, AccessAssumption DEF RowsKept, TypeOK, AccessTypeOK
<1>8. ASSUME NEW c \in Calls, RevokeToken(c), UNCHANGED vaultVars
      PROVE  RowsKept
  <2>1. call[c].op.token \in Issued
    BY <1>8 DEF RevokeToken
  <2>2. row' = [row EXCEPT ![call[c].op.token].revoked = TRUE]
    BY <1>8 DEF RevokeToken
  <2> QED
    BY <2>1, <2>2, RowRevoked DEF RowsKept, TypeOK, AccessTypeOK
<1>9. ASSUME NEW c \in Calls, RefuseToken(c), UNCHANGED vaultVars
      PROVE  RowsKept
  BY <1>9 DEF RefuseToken, accessVars, vaultVars, RowsKept, Issued, TypeOK, AccessTypeOK
<1>10. ASSUME NEW c \in Calls, Append(c), UNCHANGED vaultVars
      PROVE  RowsKept
  BY <1>10 DEF Append, accessVars, vaultVars, RowsKept, Issued, TypeOK, AccessTypeOK
<1>11. ASSUME NEW c \in Calls, Answer(c), UNCHANGED vaultVars
      PROVE  RowsKept
  BY <1>11 DEF Answer, accessVars, vaultVars, RowsKept, Issued, TypeOK, AccessTypeOK
<1>12. ASSUME NEW c \in Calls, CallFails(c), UNCHANGED vaultVars
      PROVE  RowsKept
  BY <1>12 DEF CallFails, accessVars, vaultVars, RowsKept, Issued, TypeOK, AccessTypeOK
<1>13. ASSUME NEW c \in Calls, PutSecret(c)
      PROVE  RowsKept
  BY <1>13 DEF PutSecret, accessVars, vaultVars, RowsKept, Issued, TypeOK, AccessTypeOK
<1>14. ASSUME NEW c \in Calls, DeleteSecret(c)
      PROVE  RowsKept
  BY <1>14 DEF DeleteSecret, accessVars, vaultVars, RowsKept, Issued, TypeOK, AccessTypeOK
<1>15. ASSUME NEW c \in Calls, RefuseSecret(c)
      PROVE  RowsKept
  BY <1>15 DEF RefuseSecret, accessVars, vaultVars, RowsKept, Issued, TypeOK, AccessTypeOK
<1>16. ASSUME NEW j \in Jobs, StartJob(j)
      PROVE  RowsKept
  BY <1>16 DEF StartJob, accessVars, vaultVars, RowsKept, Issued, TypeOK, AccessTypeOK
<1>17. ASSUME NEW j \in Jobs, NEW k \in Keys, ReadSecret(j, k)
      PROVE  RowsKept
  BY <1>17 DEF ReadSecret, accessVars, vaultVars, RowsKept, Issued, TypeOK, AccessTypeOK
<1>18. ASSUME NEW j \in Jobs, NEW k \in Keys, ReadFails(j, k)
      PROVE  RowsKept
  BY <1>18 DEF ReadFails, accessVars, vaultVars, RowsKept, Issued, TypeOK, AccessTypeOK
<1>19. ASSUME NEW j \in Jobs, ExecuteJob(j)
      PROVE  RowsKept
  BY <1>19 DEF ExecuteJob, accessVars, vaultVars, RowsKept, Issued, TypeOK, AccessTypeOK
<1> QED
  BY <1>0, <1>1, <1>2, <1>3, <1>4, <1>5, <1>6, <1>7, <1>8, <1>9, <1>10, <1>11,
     <1>12, <1>13, <1>14, <1>15, <1>16, <1>17, <1>18, <1>19
     DEF Next, DaemonStep, TokenStep
LEMMA CallsStep == TypeOK /\ [Next]_vars => CallsKept
<1> SUFFICES ASSUME TypeOK, [Next]_vars PROVE CallsKept
  OBVIOUS
<1>0. CASE UNCHANGED vars
  BY <1>0, CallTyped DEF vars, CallsKept, TypeOK
<1>1. ASSUME CheckTokens, UNCHANGED vaultVars PROVE CallsKept
  BY <1>1, CallTyped DEF CheckTokens, CallsKept, accessVars, vaultVars, TypeOK
<1>2. ASSUME Mint, UNCHANGED vaultVars PROVE CallsKept
  BY <1>2, CallTyped DEF Mint, CallsKept, accessVars, vaultVars, TypeOK
<1>3. ASSUME LogBootstrap, UNCHANGED vaultVars PROVE CallsKept
  BY <1>3, CallTyped DEF LogBootstrap, CallsKept, accessVars, vaultVars, TypeOK
<1>4. ASSUME NEW t \in Tokens, Expire(t), UNCHANGED vaultVars
      PROVE  CallsKept
  BY <1>4, CallTyped DEF Expire, CallsKept, accessVars, vaultVars, TypeOK
<1>5. ASSUME Die PROVE CallsKept
  <2>1. call' = [c \in Calls |-> IF InProgress(c) THEN [call[c] EXCEPT !.pc = "failed"] ELSE call[c]]
    BY <1>5 DEF Die, Crash
  <2>2. \A c \in Calls : [call[c] EXCEPT !.pc = "failed"] \in CallRow
    BY CallTyped DEF CallRow, Places, TypeOK
  <2>3. call' \in [Calls -> CallRow]
    BY <2>1, <2>2, CallTyped DEF TypeOK
  <2>4. ASSUME NEW d \in Calls, call[d].pc # "none"
        PROVE  call'[d].pc # "none" /\ call'[d].actor = call[d].actor /\ call'[d].op = call[d].op /\ call'[d].cut = call[d].cut
    <3>1. call[d] \in CallRow
      BY CallTyped DEF TypeOK
    <3>2. call'[d] = call[d] \/ call'[d] = [call[d] EXCEPT !.pc = "failed"]
      BY <2>1
    <3> QED
      BY <2>4, <3>1, <3>2 DEF CallRow
  <2> QED
    BY <2>3, <2>4 DEF CallsKept
<1>6. ASSUME NEW c \in Calls, NEW t \in Tokens, NEW q \in Requests, Authenticate(c, t, q), UNCHANGED vaultVars
      PROVE  CallsKept
  <2>1. Dismissed \subseteq Tokens
    BY AccessAssumption DEF Dismissed, TypeOK, CallsAsk
  <2>2. [pc |-> "in", actor |-> t, op |-> q, new |-> None, cut |-> Dismissed] \in CallRow
    BY <2>1 DEF CallRow, Places
  <2>3. call' = [call EXCEPT ![c] = [pc |-> "in", actor |-> t, op |-> q, new |-> None, cut |-> Dismissed]] /\ call[c].pc = "none"
    BY <1>6 DEF Authenticate
  <2> QED
    BY <2>2, <2>3, CallTyped DEF CallsKept, TypeOK
<1>7. ASSUME NEW c \in Calls, IssueToken(c), UNCHANGED vaultVars
      PROVE  CallsKept
  <2>1. PICK t \in Tokens : call' = [call EXCEPT ![c].pc = "audit", ![c].new = t]
    BY <1>7 DEF IssueToken
  <2>2. call[c].pc # "none"
    BY <1>7 DEF IssueToken, Asks
  <2> QED
    BY <2>1, <2>2, CallIssues, CallTyped DEF CallsKept, TypeOK
<1>8. ASSUME NEW c \in Calls, RevokeToken(c), UNCHANGED vaultVars
      PROVE  CallsKept
  <2>1. Goto(c, "audit")
    BY <1>8 DEF RevokeToken
  <2>2. call[c].pc # "none"
    BY <1>8 DEF RevokeToken, Asks, InProgress
  <2> QED
    BY <2>1, <2>2, CallMoves, CallTyped DEF CallsKept, TypeOK, Places
<1>9. ASSUME NEW c \in Calls, RefuseToken(c), UNCHANGED vaultVars
      PROVE  CallsKept
  <2>1. Goto(c, "refused")
    BY <1>9 DEF RefuseToken
  <2>2. call[c].pc # "none"
    BY <1>9 DEF RefuseToken, Asks, InProgress
  <2> QED
    BY <2>1, <2>2, CallMoves, CallTyped DEF CallsKept, TypeOK, Places
<1>10. ASSUME NEW c \in Calls, Append(c), UNCHANGED vaultVars
      PROVE  CallsKept
  <2>1. Goto(c, "logged")
    BY <1>10 DEF Append
  <2>2. call[c].pc # "none"
    BY <1>10 DEF Append, Asks, InProgress
  <2> QED
    BY <2>1, <2>2, CallMoves, CallTyped DEF CallsKept, TypeOK, Places
<1>11. ASSUME NEW c \in Calls, Answer(c), UNCHANGED vaultVars
      PROVE  CallsKept
  <2>1. Goto(c, "answered")
    BY <1>11 DEF Answer
  <2>2. call[c].pc # "none"
    BY <1>11 DEF Answer, Asks, InProgress
  <2> QED
    BY <2>1, <2>2, CallMoves, CallTyped DEF CallsKept, TypeOK, Places
<1>12. ASSUME NEW c \in Calls, CallFails(c), UNCHANGED vaultVars
      PROVE  CallsKept
  <2>1. Goto(c, "failed")
    BY <1>12 DEF CallFails
  <2>2. call[c].pc # "none"
    BY <1>12 DEF CallFails, Asks, InProgress
  <2> QED
    BY <2>1, <2>2, CallMoves, CallTyped DEF CallsKept, TypeOK, Places
<1>13. ASSUME NEW c \in Calls, PutSecret(c)
      PROVE  CallsKept
  <2>1. Goto(c, "audit")
    BY <1>13 DEF PutSecret
  <2>2. call[c].pc # "none"
    BY <1>13 DEF PutSecret, Asks, InProgress
  <2> QED
    BY <2>1, <2>2, CallMoves, CallTyped DEF CallsKept, TypeOK, Places
<1>14. ASSUME NEW c \in Calls, DeleteSecret(c)
      PROVE  CallsKept
  <2>1. Goto(c, "audit")
    BY <1>14 DEF DeleteSecret
  <2>2. call[c].pc # "none"
    BY <1>14 DEF DeleteSecret, Asks, InProgress
  <2> QED
    BY <2>1, <2>2, CallMoves, CallTyped DEF CallsKept, TypeOK, Places
<1>15. ASSUME NEW c \in Calls, RefuseSecret(c)
      PROVE  CallsKept
  <2>1. Goto(c, "refused")
    BY <1>15 DEF RefuseSecret
  <2>2. call[c].pc # "none"
    BY <1>15 DEF RefuseSecret, Asks, InProgress
  <2> QED
    BY <2>1, <2>2, CallMoves, CallTyped DEF CallsKept, TypeOK, Places
<1>16. ASSUME NEW j \in Jobs, StartJob(j)
      PROVE  CallsKept
  BY <1>16, CallTyped DEF StartJob, CallsKept, accessVars, vaultVars, TypeOK
<1>17. ASSUME NEW j \in Jobs, NEW k \in Keys, ReadSecret(j, k)
      PROVE  CallsKept
  BY <1>17, CallTyped DEF ReadSecret, CallsKept, accessVars, vaultVars, TypeOK
<1>18. ASSUME NEW j \in Jobs, NEW k \in Keys, ReadFails(j, k)
      PROVE  CallsKept
  BY <1>18, CallTyped DEF ReadFails, CallsKept, accessVars, vaultVars, TypeOK
<1>19. ASSUME NEW j \in Jobs, ExecuteJob(j)
      PROVE  CallsKept
  BY <1>19, CallTyped DEF ExecuteJob, CallsKept, accessVars, vaultVars, TypeOK
<1> QED
  BY <1>0, <1>1, <1>2, <1>3, <1>4, <1>5, <1>6, <1>7, <1>8, <1>9, <1>10, <1>11,
     <1>12, <1>13, <1>14, <1>15, <1>16, <1>17, <1>18, <1>19
     DEF Next, DaemonStep, TokenStep
LEMMA AsksStep == TypeOK /\ [Next]_vars => CallsAsk'
<1> SUFFICES ASSUME TypeOK, [Next]_vars PROVE CallsAsk'
  OBVIOUS
<1>k. RowsKept /\ CallsKept
  BY RowsStep, CallsStep
<1>0. CASE UNCHANGED vars
  BY <1>0, <1>k DEF vars, CallsAsk, CallsKept, RowsKept, TypeOK
<1>1. ASSUME CheckTokens, UNCHANGED vaultVars PROVE CallsAsk'
  BY <1>1, <1>k DEF CheckTokens, CallsAsk, CallsKept, RowsKept, accessVars, vaultVars, TypeOK
<1>2. ASSUME Mint, UNCHANGED vaultVars PROVE CallsAsk'
  BY <1>2, <1>k DEF Mint, CallsAsk, CallsKept, RowsKept, accessVars, vaultVars, TypeOK
<1>3. ASSUME LogBootstrap, UNCHANGED vaultVars PROVE CallsAsk'
  BY <1>3, <1>k DEF LogBootstrap, CallsAsk, CallsKept, RowsKept, accessVars, vaultVars, TypeOK
<1>4. ASSUME NEW t \in Tokens, Expire(t), UNCHANGED vaultVars
      PROVE  CallsAsk'
  BY <1>4, <1>k DEF Expire, CallsAsk, CallsKept, RowsKept, accessVars, vaultVars, TypeOK
<1>5. ASSUME Die PROVE CallsAsk'
  <2>1. \A d \in Calls : call[d].pc = "none" => call'[d].pc = "none"
    BY <1>5 DEF Die, Crash, InProgress
  <2> QED
    BY <2>1, <1>k DEF CallsAsk, CallsKept, RowsKept, TypeOK
<1>6. ASSUME NEW c \in Calls, NEW t \in Tokens, NEW q \in Requests, Authenticate(c, t, q), UNCHANGED vaultVars
      PROVE  CallsAsk'
  BY <1>6, <1>k, CallTyped DEF Authenticate, Valid, CallsAsk, CallsKept, RowsKept, TypeOK
<1>7. ASSUME NEW c \in Calls, IssueToken(c), UNCHANGED vaultVars
      PROVE  CallsAsk'
  <2>1. PICK t \in Tokens : call' = [call EXCEPT ![c].pc = "audit", ![c].new = t]
    BY <1>7 DEF IssueToken
  <2>2. call[c].pc # "none"
    BY <1>7 DEF IssueToken, Asks
  <2> QED
    BY <2>1, <2>2, <1>k, CallIssues, CallTyped DEF CallsAsk, CallsKept, RowsKept, TypeOK
<1>8. ASSUME NEW c \in Calls, RevokeToken(c), UNCHANGED vaultVars
      PROVE  CallsAsk'
  <2>1. Goto(c, "audit") /\ call[c].pc # "none"
    BY <1>8 DEF RevokeToken, Asks, InProgress
  <2> QED
    BY <2>1, <1>k, CallMoves, CallTyped DEF CallsAsk, CallsKept, RowsKept, TypeOK, Places
<1>9. ASSUME NEW c \in Calls, RefuseToken(c), UNCHANGED vaultVars
      PROVE  CallsAsk'
  <2>1. Goto(c, "refused") /\ call[c].pc # "none"
    BY <1>9 DEF RefuseToken, Asks, InProgress
  <2> QED
    BY <2>1, <1>k, CallMoves, CallTyped DEF CallsAsk, CallsKept, RowsKept, TypeOK, Places
<1>10. ASSUME NEW c \in Calls, Append(c), UNCHANGED vaultVars
      PROVE  CallsAsk'
  <2>1. Goto(c, "logged") /\ call[c].pc # "none"
    BY <1>10 DEF Append, Asks, InProgress
  <2> QED
    BY <2>1, <1>k, CallMoves, CallTyped DEF CallsAsk, CallsKept, RowsKept, TypeOK, Places
<1>11. ASSUME NEW c \in Calls, Answer(c), UNCHANGED vaultVars
      PROVE  CallsAsk'
  <2>1. Goto(c, "answered") /\ call[c].pc # "none"
    BY <1>11 DEF Answer, Asks, InProgress
  <2> QED
    BY <2>1, <1>k, CallMoves, CallTyped DEF CallsAsk, CallsKept, RowsKept, TypeOK, Places
<1>12. ASSUME NEW c \in Calls, CallFails(c), UNCHANGED vaultVars
      PROVE  CallsAsk'
  <2>1. Goto(c, "failed") /\ call[c].pc # "none"
    BY <1>12 DEF CallFails, Asks, InProgress
  <2> QED
    BY <2>1, <1>k, CallMoves, CallTyped DEF CallsAsk, CallsKept, RowsKept, TypeOK, Places
<1>13. ASSUME NEW c \in Calls, PutSecret(c)
      PROVE  CallsAsk'
  <2>1. Goto(c, "audit") /\ call[c].pc # "none"
    BY <1>13 DEF PutSecret, Asks, InProgress
  <2> QED
    BY <2>1, <1>k, CallMoves, CallTyped DEF CallsAsk, CallsKept, RowsKept, TypeOK, Places
<1>14. ASSUME NEW c \in Calls, DeleteSecret(c)
      PROVE  CallsAsk'
  <2>1. Goto(c, "audit") /\ call[c].pc # "none"
    BY <1>14 DEF DeleteSecret, Asks, InProgress
  <2> QED
    BY <2>1, <1>k, CallMoves, CallTyped DEF CallsAsk, CallsKept, RowsKept, TypeOK, Places
<1>15. ASSUME NEW c \in Calls, RefuseSecret(c)
      PROVE  CallsAsk'
  <2>1. Goto(c, "refused") /\ call[c].pc # "none"
    BY <1>15 DEF RefuseSecret, Asks, InProgress
  <2> QED
    BY <2>1, <1>k, CallMoves, CallTyped DEF CallsAsk, CallsKept, RowsKept, TypeOK, Places
<1>16. ASSUME NEW j \in Jobs, StartJob(j)
      PROVE  CallsAsk'
  BY <1>16, <1>k DEF StartJob, CallsAsk, CallsKept, RowsKept, accessVars, vaultVars, TypeOK
<1>17. ASSUME NEW j \in Jobs, NEW k \in Keys, ReadSecret(j, k)
      PROVE  CallsAsk'
  BY <1>17, <1>k DEF ReadSecret, CallsAsk, CallsKept, RowsKept, accessVars, vaultVars, TypeOK
<1>18. ASSUME NEW j \in Jobs, NEW k \in Keys, ReadFails(j, k)
      PROVE  CallsAsk'
  BY <1>18, <1>k DEF ReadFails, CallsAsk, CallsKept, RowsKept, accessVars, vaultVars, TypeOK
<1>19. ASSUME NEW j \in Jobs, ExecuteJob(j)
      PROVE  CallsAsk'
  BY <1>19, <1>k DEF ExecuteJob, CallsAsk, CallsKept, RowsKept, accessVars, vaultVars, TypeOK
<1> QED
  BY <1>0, <1>1, <1>2, <1>3, <1>4, <1>5, <1>6, <1>7, <1>8, <1>9, <1>10, <1>11,
     <1>12, <1>13, <1>14, <1>15, <1>16, <1>17, <1>18, <1>19
     DEF Next, DaemonStep, TokenStep
LEMMA AccessTypeStep == TypeOK /\ [Next]_vars => AccessTypeOK'
<1> SUFFICES ASSUME TypeOK, [Next]_vars PROVE AccessTypeOK'
  OBVIOUS
<1>k. RowsKept /\ CallsKept
  BY RowsStep, CallsStep
<1>0. CASE UNCHANGED vars
  BY <1>0 DEF vars, TypeOK, AccessTypeOK
<1>1. ASSUME CheckTokens, UNCHANGED vaultVars PROVE AccessTypeOK'
  BY <1>1, <1>k DEF CheckTokens, CallRow, CallsKept, RowsKept, TypeOK, AccessTypeOK
<1>2. ASSUME Mint, UNCHANGED vaultVars PROVE AccessTypeOK'
  BY <1>2, <1>k DEF Mint, CallRow, CallsKept, RowsKept, TypeOK, AccessTypeOK
<1>3. ASSUME LogBootstrap, UNCHANGED vaultVars PROVE AccessTypeOK'
  BY <1>3, <1>k DEF LogBootstrap, Bootstrap, Issued, CallRow, CallsKept, RowsKept, TypeOK, AccessTypeOK
<1>4. ASSUME NEW t \in Tokens, Expire(t), UNCHANGED vaultVars
      PROVE  AccessTypeOK'
  BY <1>4, <1>k DEF Expire, CallRow, CallsKept, RowsKept, TypeOK, AccessTypeOK
<1>5. ASSUME Die PROVE AccessTypeOK'
  BY <1>5, <1>k DEF Die, Crash, Fault, CallRow, CallsKept, RowsKept, TypeOK, AccessTypeOK
<1>6. ASSUME NEW c \in Calls, NEW t \in Tokens, NEW q \in Requests, Authenticate(c, t, q), UNCHANGED vaultVars
      PROVE  AccessTypeOK'
  BY <1>6, <1>k DEF Authenticate, CallRow, CallsKept, RowsKept, TypeOK, AccessTypeOK
<1>7. ASSUME NEW c \in Calls, IssueToken(c), UNCHANGED vaultVars
      PROVE  AccessTypeOK'
  BY <1>7, <1>k DEF IssueToken, CallRow, CallsKept, RowsKept, TypeOK, AccessTypeOK
<1>8. ASSUME NEW c \in Calls, RevokeToken(c), UNCHANGED vaultVars
      PROVE  AccessTypeOK'
  BY <1>8, <1>k DEF RevokeToken, CallRow, CallsKept, RowsKept, TypeOK, AccessTypeOK
<1>9. ASSUME NEW c \in Calls, RefuseToken(c), UNCHANGED vaultVars
      PROVE  AccessTypeOK'
  BY <1>9, <1>k DEF RefuseToken, CallRow, CallsKept, RowsKept, TypeOK, AccessTypeOK
<1>10. ASSUME NEW c \in Calls, Append(c), UNCHANGED vaultVars
      PROVE  AccessTypeOK'
  BY <1>10, <1>k DEF Append, CallRow, CallsKept, RowsKept, TypeOK, AccessTypeOK
<1>11. ASSUME NEW c \in Calls, Answer(c), UNCHANGED vaultVars
      PROVE  AccessTypeOK'
  BY <1>11, <1>k DEF Answer, CallRow, CallsKept, RowsKept, TypeOK, AccessTypeOK
<1>12. ASSUME NEW c \in Calls, CallFails(c), UNCHANGED vaultVars
      PROVE  AccessTypeOK'
  BY <1>12, <1>k DEF CallFails, Fault, CallRow, CallsKept, RowsKept, TypeOK, AccessTypeOK
<1>13. ASSUME NEW c \in Calls, PutSecret(c)
      PROVE  AccessTypeOK'
  BY <1>13, <1>k DEF PutSecret, CallRow, CallsKept, RowsKept, TypeOK, AccessTypeOK
<1>14. ASSUME NEW c \in Calls, DeleteSecret(c)
      PROVE  AccessTypeOK'
  BY <1>14, <1>k DEF DeleteSecret, CallRow, CallsKept, RowsKept, TypeOK, AccessTypeOK
<1>15. ASSUME NEW c \in Calls, RefuseSecret(c)
      PROVE  AccessTypeOK'
  BY <1>15, <1>k DEF RefuseSecret, CallRow, CallsKept, RowsKept, TypeOK, AccessTypeOK
<1>16. ASSUME NEW j \in Jobs, StartJob(j)
      PROVE  AccessTypeOK'
  BY <1>16, <1>k DEF StartJob, accessVars, CallRow, CallsKept, RowsKept, TypeOK, AccessTypeOK
<1>17. ASSUME NEW j \in Jobs, NEW k \in Keys, ReadSecret(j, k)
      PROVE  AccessTypeOK'
  BY <1>17, <1>k DEF ReadSecret, accessVars, CallRow, CallsKept, RowsKept, TypeOK, AccessTypeOK
<1>18. ASSUME NEW j \in Jobs, NEW k \in Keys, ReadFails(j, k)
      PROVE  AccessTypeOK'
  BY <1>18, <1>k DEF ReadFails, accessVars, CallRow, CallsKept, RowsKept, TypeOK, AccessTypeOK
<1>19. ASSUME NEW j \in Jobs, ExecuteJob(j)
      PROVE  AccessTypeOK'
  BY <1>19, <1>k DEF ExecuteJob, accessVars, CallRow, CallsKept, RowsKept, TypeOK, AccessTypeOK
<1> QED
  BY <1>0, <1>1, <1>2, <1>3, <1>4, <1>5, <1>6, <1>7, <1>8, <1>9, <1>10, <1>11,
     <1>12, <1>13, <1>14, <1>15, <1>16, <1>17, <1>18, <1>19
     DEF Next, DaemonStep, TokenStep
LEMMA VaultTypeStep == TypeOK /\ [Next]_vars => VaultTypeOK'
<1> SUFFICES ASSUME TypeOK, [Next]_vars PROVE VaultTypeOK'
  OBVIOUS
<1>0. CASE UNCHANGED vars
  BY <1>0 DEF vars, TypeOK, VaultTypeOK
<1>1. ASSUME CheckTokens, UNCHANGED vaultVars PROVE VaultTypeOK'
  BY <1>1 DEF vaultVars, TypeOK, VaultTypeOK
<1>2. ASSUME Mint, UNCHANGED vaultVars PROVE VaultTypeOK'
  BY <1>2 DEF vaultVars, TypeOK, VaultTypeOK
<1>3. ASSUME LogBootstrap, UNCHANGED vaultVars PROVE VaultTypeOK'
  BY <1>3 DEF vaultVars, TypeOK, VaultTypeOK
<1>4. ASSUME NEW t \in Tokens, Expire(t), UNCHANGED vaultVars
      PROVE  VaultTypeOK'
  BY <1>4 DEF vaultVars, TypeOK, VaultTypeOK
<1>5. ASSUME Die PROVE VaultTypeOK'
  <2>1. Waiting \in JobRow
    BY DEF Waiting, NoValues, JobRow
  <2>2. job' \in [Jobs -> JobRow]
    BY <1>5, <2>1 DEF Die, TypeOK, VaultTypeOK
  <2> QED
    BY <1>5, <2>2 DEF Die, TypeOK, VaultTypeOK
<1>6. ASSUME NEW c \in Calls, NEW t \in Tokens, NEW q \in Requests, Authenticate(c, t, q), UNCHANGED vaultVars
      PROVE  VaultTypeOK'
  BY <1>6 DEF vaultVars, TypeOK, VaultTypeOK
<1>7. ASSUME NEW c \in Calls, IssueToken(c), UNCHANGED vaultVars
      PROVE  VaultTypeOK'
  BY <1>7 DEF vaultVars, TypeOK, VaultTypeOK
<1>8. ASSUME NEW c \in Calls, RevokeToken(c), UNCHANGED vaultVars
      PROVE  VaultTypeOK'
  BY <1>8 DEF vaultVars, TypeOK, VaultTypeOK
<1>9. ASSUME NEW c \in Calls, RefuseToken(c), UNCHANGED vaultVars
      PROVE  VaultTypeOK'
  BY <1>9 DEF vaultVars, TypeOK, VaultTypeOK
<1>10. ASSUME NEW c \in Calls, Append(c), UNCHANGED vaultVars
      PROVE  VaultTypeOK'
  BY <1>10 DEF vaultVars, TypeOK, VaultTypeOK
<1>11. ASSUME NEW c \in Calls, Answer(c), UNCHANGED vaultVars
      PROVE  VaultTypeOK'
  BY <1>11 DEF vaultVars, TypeOK, VaultTypeOK
<1>12. ASSUME NEW c \in Calls, CallFails(c), UNCHANGED vaultVars
      PROVE  VaultTypeOK'
  BY <1>12 DEF vaultVars, TypeOK, VaultTypeOK
<1>13. ASSUME NEW c \in Calls, PutSecret(c)
      PROVE  VaultTypeOK'
  <2> DEFINE p == call[c].op.project
  <2> DEFINE k == call[c].op.key
  <2> DEFINE e == [master |-> master, project |-> p, key |-> k, value |-> c]
  <2>1. p \in Projects /\ k \in Keys
    BY <1>13, VaultAssumption DEF PutSecret, Asks, TypeOK, CallsAsk
  <2>2. e \in Sealed
    BY <2>1 DEF Sealed, TypeOK, VaultTypeOK
  <2>3. secret' = [secret EXCEPT ![p][k] = e] /\ gone' = gone \cup Values(p, k) /\ UNCHANGED <<master, job>>
    BY <1>13 DEF PutSecret, Put
  <2>4. Values(p, k) \subseteq Calls
    BY <2>1 DEF Values, Sealed, TypeOK, VaultTypeOK
  <2> HIDE DEF p, k, e
  <2> QED
    BY <2>1, <2>2, <2>3, <2>4 DEF TypeOK, VaultTypeOK
<1>14. ASSUME NEW c \in Calls, DeleteSecret(c)
      PROVE  VaultTypeOK'
  <2> DEFINE p == call[c].op.project
  <2> DEFINE k == call[c].op.key
  <2>1. p \in Projects /\ k \in Keys
    BY <1>14, VaultAssumption DEF DeleteSecret, Asks, TypeOK, CallsAsk
  <2>2. secret' = [secret EXCEPT ![p][k] = None] /\ gone' = gone \cup Values(p, k) /\ UNCHANGED <<master, job>>
    BY <1>14 DEF DeleteSecret
  <2>3. Values(p, k) \subseteq Calls
    BY <2>1 DEF Values, Sealed, TypeOK, VaultTypeOK
  <2> HIDE DEF p, k
  <2> QED
    BY <2>1, <2>2, <2>3 DEF TypeOK, VaultTypeOK
<1>15. ASSUME NEW c \in Calls, RefuseSecret(c)
      PROVE  VaultTypeOK'
  BY <1>15 DEF RefuseSecret, vaultVars, TypeOK, VaultTypeOK
<1>16. ASSUME NEW j \in Jobs, StartJob(j)
      PROVE  VaultTypeOK'
  <2>1. [pc |-> "resolving", left |-> Wanted[j], got |-> NoValues, stale |-> gone] \in JobRow
    BY VaultAssumption DEF NoValues, JobRow, TypeOK, VaultTypeOK
  <2> QED
    BY <1>16, <2>1 DEF StartJob, TypeOK, VaultTypeOK
<1>17. ASSUME NEW j \in Jobs, NEW k \in Keys, ReadSecret(j, k)
      PROVE  VaultTypeOK'
  <2>1. PICK v \in Open(j, k) : job' = [job EXCEPT ![j].left = @ \ {k}, ![j].got[k] = v]
    BY <1>17 DEF ReadSecret
  <2>2. v \in Calls
    BY <2>1, VaultAssumption DEF Open, Sealed, TypeOK, VaultTypeOK
  <2> DEFINE s == [job[j] EXCEPT !.left = @ \ {k}, !.got[k] = v]
  <2>3. job \in [Jobs -> JobRow]
    BY DEF TypeOK, VaultTypeOK
  <2>4. s \in JobRow
    BY <2>2, <2>3 DEF JobRow
  <2>5. job' = [job EXCEPT ![j] = s]
    BY <2>1
  <2> HIDE DEF s
  <2>6. job' \in [Jobs -> JobRow]
    BY <2>3, <2>4, <2>5
  <2> QED
    BY <1>17, <2>6 DEF ReadSecret, TypeOK, VaultTypeOK
<1>18. ASSUME NEW j \in Jobs, NEW k \in Keys, ReadFails(j, k)
      PROVE  VaultTypeOK'
  <2>1. job' \in [Jobs -> JobRow]
    BY <1>18 DEF ReadFails, JobRow, TypeOK, VaultTypeOK
  <2> QED
    BY <1>18, <2>1 DEF ReadFails, TypeOK, VaultTypeOK
<1>19. ASSUME NEW j \in Jobs, ExecuteJob(j)
      PROVE  VaultTypeOK'
  <2>1. job' \in [Jobs -> JobRow]
    BY <1>19 DEF ExecuteJob, JobRow, TypeOK, VaultTypeOK
  <2> QED
    BY <1>19, <2>1 DEF ExecuteJob, TypeOK, VaultTypeOK
<1> QED
  BY <1>0, <1>1, <1>2, <1>3, <1>4, <1>5, <1>6, <1>7, <1>8, <1>9, <1>10, <1>11,
     <1>12, <1>13, <1>14, <1>15, <1>16, <1>17, <1>18, <1>19
     DEF Next, DaemonStep, TokenStep

LEMMA TypesAlways == Spec => []TypeOK
<1>1. TypeOK /\ [Next]_vars => TypeOK'
  BY AccessTypeStep, VaultTypeStep, AsksStep DEF TypeOK
<1> QED
  BY <1>1, InitTypes, PTL DEF Spec

\* Every variable of Access and Vault keeps its type, and every request that
\* has begun came with a token on record.
THEOREM VaultTypeCorrect == Spec => [](AccessTypeOK /\ VaultTypeOK)
<1>1. TypeOK => AccessTypeOK /\ VaultTypeOK
  BY DEF TypeOK
<1> QED
  BY <1>1, TypesAlways, PTL

-----------------------------------------------------------------------------
(* Who may do what: a token's authority comes down from its issuer's. *)

\* One row's share of AuthorityDescends.
Descends(t) ==
    LET p == row[t].issuer IN
    IF p = None THEN row[t].role = "admin"
    ELSE /\ p \in Issued
         /\ row[p].role \in {"admin", "owner"}
         /\ Reach(t) \subseteq Reach(p)
         /\ row[t].role = "admin" => row[p].role = "admin"

LEMMA DescentKept ==
  ASSUME TypeOK, RowsKept, NEW t \in Issued, Descends(t)
  PROVE  Descends(t)'
<1>1. \A u \in Issued : Reach(u)' = Reach(u)
  BY DEF RowsKept, Reach
<1>2. row'[t].issuer = row[t].issuer /\ row'[t].role = row[t].role
  BY DEF RowsKept
<1> QED
  BY <1>1, <1>2 DEF Descends, RowsKept

LEMMA MintStep ==
  ASSUME TypeOK, Mint
  PROVE  \E t \in Tokens : /\ t \notin Issued /\ Issued' = Issued \cup {t}
                           /\ row'[t].issuer = None /\ row'[t].role = "admin"
<1>1. PICK t \in Tokens : InsertToken(t, "admin", None, FALSE, None)
  BY DEF Mint
<1> QED
  BY <1>1, RowInserted DEF TypeOK, AccessTypeOK, Roles

LEMMA IssueStep ==
  ASSUME TypeOK, NEW c \in Calls, IssueToken(c)
  PROVE  \E t \in Tokens :
            /\ t \notin Issued /\ Issued' = Issued \cup {t}
            /\ row'[t].issuer = call[c].actor
            /\ call[c].actor \in Issued /\ call[c].actor # None
            /\ row'[t].role = call[c].op.role
            /\ row'[t].project = call[c].op.project
            /\ MayIssue(call[c].actor, call[c].op)
            /\ call[c].op.project \in Projects \cup {None}
            /\ call' = [call EXCEPT ![c].pc = "audit", ![c].new = t]
<1>1. /\ call[c].op \in Requests /\ call[c].op.kind = "issue"
      /\ call[c].actor \in Issued /\ call[c].actor \in Tokens
  BY DEF IssueToken, Asks, TypeOK, CallsAsk, Issued
<1>2. PICK t \in Tokens : /\ InsertToken(t, call[c].op.role, call[c].op.project,
                                         call[c].op.expires, call[c].actor)
                          /\ call' = [call EXCEPT ![c].pc = "audit", ![c].new = t]
  BY DEF IssueToken
<1>3. MayIssue(call[c].actor, call[c].op) /\ call[c].actor # None
  BY <1>1, AccessAssumption DEF IssueToken
<1>4. /\ t \notin Issued /\ Issued' = Issued \cup {t}
      /\ row'[t].issuer = call[c].actor
      /\ row'[t].role = call[c].op.role
      /\ row'[t].project = call[c].op.project
  BY <1>1, <1>2, RowInserted, AccessAssumption DEF TypeOK, AccessTypeOK
<1> QED
  BY <1>1, <1>2, <1>3, <1>4, AccessAssumption

\* No other step adds a row.
LEMMA NothingIssued ==
  ASSUME TypeOK, [Next]_vars, ~Mint, \A c \in Calls : ~IssueToken(c)
  PROVE  Issued' = Issued
<1>0. CASE UNCHANGED vars
  BY <1>0 DEF vars, Issued
<1>1. ASSUME CheckTokens, UNCHANGED vaultVars PROVE Issued' = Issued
  BY <1>1 DEF CheckTokens, accessVars, vaultVars, Issued
<1>2. ASSUME Mint, UNCHANGED vaultVars PROVE Issued' = Issued
  BY <1>2
<1>3. ASSUME LogBootstrap, UNCHANGED vaultVars PROVE Issued' = Issued
  BY <1>3 DEF LogBootstrap, accessVars, vaultVars, Issued
<1>4. ASSUME NEW t \in Tokens, Expire(t), UNCHANGED vaultVars
      PROVE  Issued' = Issued
  BY <1>4 DEF Expire, accessVars, vaultVars, Issued
<1>5. ASSUME Die PROVE Issued' = Issued
  BY <1>5 DEF Die, Crash, accessVars, vaultVars, Issued
<1>6. ASSUME NEW c \in Calls, NEW t \in Tokens, NEW q \in Requests, Authenticate(c, t, q), UNCHANGED vaultVars
      PROVE  Issued' = Issued
  BY <1>6 DEF Authenticate, accessVars, vaultVars, Issued
<1>7. ASSUME NEW c \in Calls, IssueToken(c), UNCHANGED vaultVars
      PROVE  Issued' = Issued
  BY <1>7
<1>8. ASSUME NEW c \in Calls, RevokeToken(c), UNCHANGED vaultVars
      PROVE  Issued' = Issued
  <2>1. call[c].op.token \in Issued /\ row' = [row EXCEPT ![call[c].op.token].revoked = TRUE]
    BY <1>8 DEF RevokeToken
  <2> QED
    BY <2>1, RowRevoked DEF TypeOK, AccessTypeOK
<1>9. ASSUME NEW c \in Calls, RefuseToken(c), UNCHANGED vaultVars
      PROVE  Issued' = Issued
  BY <1>9 DEF RefuseToken, accessVars, vaultVars, Issued
<1>10. ASSUME NEW c \in Calls, Append(c), UNCHANGED vaultVars
      PROVE  Issued' = Issued
  BY <1>10 DEF Append, accessVars, vaultVars, Issued
<1>11. ASSUME NEW c \in Calls, Answer(c), UNCHANGED vaultVars
      PROVE  Issued' = Issued
  BY <1>11 DEF Answer, accessVars, vaultVars, Issued
<1>12. ASSUME NEW c \in Calls, CallFails(c), UNCHANGED vaultVars
      PROVE  Issued' = Issued
  BY <1>12 DEF CallFails, accessVars, vaultVars, Issued
<1>13. ASSUME NEW c \in Calls, PutSecret(c)
      PROVE  Issued' = Issued
  BY <1>13 DEF PutSecret, accessVars, vaultVars, Issued
<1>14. ASSUME NEW c \in Calls, DeleteSecret(c)
      PROVE  Issued' = Issued
  BY <1>14 DEF DeleteSecret, accessVars, vaultVars, Issued
<1>15. ASSUME NEW c \in Calls, RefuseSecret(c)
      PROVE  Issued' = Issued
  BY <1>15 DEF RefuseSecret, accessVars, vaultVars, Issued
<1>16. ASSUME NEW j \in Jobs, StartJob(j)
      PROVE  Issued' = Issued
  BY <1>16 DEF StartJob, accessVars, vaultVars, Issued
<1>17. ASSUME NEW j \in Jobs, NEW k \in Keys, ReadSecret(j, k)
      PROVE  Issued' = Issued
  BY <1>17 DEF ReadSecret, accessVars, vaultVars, Issued
<1>18. ASSUME NEW j \in Jobs, NEW k \in Keys, ReadFails(j, k)
      PROVE  Issued' = Issued
  BY <1>18 DEF ReadFails, accessVars, vaultVars, Issued
<1>19. ASSUME NEW j \in Jobs, ExecuteJob(j)
      PROVE  Issued' = Issued
  BY <1>19 DEF ExecuteJob, accessVars, vaultVars, Issued
<1> QED
  BY <1>0, <1>1, <1>2, <1>3, <1>4, <1>5, <1>6, <1>7, <1>8, <1>9, <1>10, <1>11,
     <1>12, <1>13, <1>14, <1>15, <1>16, <1>17, <1>18, <1>19
     DEF Next, DaemonStep, TokenStep

LEMMA AuthorityStep == TypeOK /\ AuthorityDescends /\ [Next]_vars => AuthorityDescends'
<1> SUFFICES ASSUME TypeOK, AuthorityDescends, [Next]_vars PROVE \A t \in Issued' : Descends(t)'
  BY DEF AuthorityDescends, Descends
<1>1. RowsKept /\ \A t \in Issued : Descends(t)'
  BY RowsStep, DescentKept DEF AuthorityDescends, Descends
<1>2. CASE Mint
  BY <1>1, <1>2, MintStep DEF Descends
<1>3. ASSUME NEW c \in Calls, IssueToken(c) PROVE \A t \in Issued' : Descends(t)'
  <2> DEFINE p == call[c].actor
  <2>1. PICK t \in Tokens :
            /\ t \notin Issued /\ Issued' = Issued \cup {t}
            /\ row'[t].issuer = p
            /\ p \in Issued /\ p # None
            /\ row'[t].role = call[c].op.role
            /\ row'[t].project = call[c].op.project
            /\ MayIssue(p, call[c].op)
            /\ call[c].op.project \in Projects \cup {None}
    BY <1>3, IssueStep
  <2>2. row'[p].role = row[p].role /\ row'[p].project = row[p].project /\ p \in Issued'
    BY <1>1, <2>1 DEF RowsKept
  <2>3. row'[p].role \in {"admin", "owner"} /\ (row'[t].role = "admin" => row'[p].role = "admin")
    BY <2>1, <2>2 DEF MayIssue
  <2>4. Reach(t)' \subseteq Projects \cup {None}
    BY <2>1 DEF Reach
  <2>5. CASE row'[p].role = "admin"
    BY <2>1, <2>2, <2>3, <2>4, <2>5, <1>1 DEF Descends, Reach
  <2>6. CASE row'[p].role # "admin"
    <3>1. row'[t].role # "admin" /\ row'[t].project = row'[p].project
      BY <2>1, <2>2, <2>6 DEF MayIssue
    <3> QED
      BY <2>1, <2>2, <2>3, <2>6, <3>1, <1>1 DEF Descends, Reach
  <2> QED
    BY <2>5, <2>6
<1>4. CASE ~Mint /\ \A c \in Calls : ~IssueToken(c)
  BY <1>1, <1>4, NothingIssued
<1> QED
  BY <1>2, <1>3, <1>4

\* Down every chain of issuers authority only shrinks, whatever is issued,
\* revoked or crashes meanwhile.
THEOREM AuthorityAlwaysDescends == Spec => []AuthorityDescends
<1>1. Init => AuthorityDescends
  BY DEF Init, AccessInit, AuthorityDescends, Issued
<1> QED
  BY <1>1, AuthorityStep, TypesAlways, PTL DEF Spec

-----------------------------------------------------------------------------
(* The bootstrap token, answered revocations, tokens on record. *)

\* runServe checks, mints and logs before it serves.
BootInv ==
    /\ \A c \in Calls : InProgress(c) => boot = "up"
    /\ boot = "mint" => Issued = {}
    /\ OneBootstrap

\* A request that has got as far as its audit event has revoked its token.
RevokeInv ==
    /\ \A c \in Calls : /\ call[c].pc \in {"audit", "logged", "answered"}
                        /\ call[c].op.kind = "revoke"
                        => call[c].op.token \in Issued /\ row[call[c].op.token].revoked
    /\ RevokedBeginsNothing

\* What a request has issued, and when its event is in the log.
RecordInv ==
    /\ \A c \in Calls : call[c].pc \in {"none", "in"} => c \notin logged /\ call[c].new = None
    /\ \A c \in Calls : call[c].pc \in {"logged", "answered"} => c \in logged
    /\ \A c \in Calls : call[c].new # None => /\ call[c].new \in Issued
                                              /\ row[call[c].new].issuer = call[c].actor
    /\ known \subseteq Issued
    /\ UsableIsOnRecord

LEMMA BootStep == TypeOK /\ BootInv /\ [Next]_vars => BootInv'
<1> SUFFICES ASSUME TypeOK, BootInv, [Next]_vars PROVE BootInv'
  OBVIOUS
<1>k. RowsKept
  BY RowsStep
<1>0. CASE UNCHANGED vars
  BY <1>0 DEF vars, BootInv, OneBootstrap, Bootstrap, Issued, InProgress
<1>1. ASSUME CheckTokens, UNCHANGED vaultVars PROVE BootInv'
  BY <1>1 DEF CheckTokens, accessVars, vaultVars, HasAny, InProgress, BootInv, OneBootstrap, Bootstrap, Issued
<1>2. ASSUME Mint, UNCHANGED vaultVars PROVE BootInv'
  <2>1. PICK t \in Tokens : Issued' = Issued \cup {t}
    BY <1>2, MintStep
  <2> QED
    BY <1>2, <2>1 DEF Mint, InProgress, BootInv, OneBootstrap, Bootstrap
<1>3. ASSUME LogBootstrap, UNCHANGED vaultVars PROVE BootInv'
  BY <1>3 DEF LogBootstrap, accessVars, vaultVars, HasAny, InProgress, BootInv, OneBootstrap, Bootstrap, Issued
<1>4. ASSUME NEW t \in Tokens, Expire(t), UNCHANGED vaultVars
      PROVE  BootInv'
  BY <1>4 DEF Expire, accessVars, vaultVars, HasAny, InProgress, BootInv, OneBootstrap, Bootstrap, Issued
<1>5. ASSUME Die PROVE BootInv'
  <2>1. \A c \in Calls : ~InProgress(c)'
    BY <1>5, CallTyped DEF Die, Crash, InProgress, CallRow, TypeOK
  <2> QED
    BY <1>5, <2>1 DEF Die, Crash, BootInv, OneBootstrap, Bootstrap, Issued
<1>6. ASSUME NEW c \in Calls, NEW t \in Tokens, NEW q \in Requests, Authenticate(c, t, q), UNCHANGED vaultVars
      PROVE  BootInv'
  BY <1>6, CallTyped DEF Authenticate, InProgress, BootInv, OneBootstrap, Bootstrap, Issued, TypeOK
<1>7. ASSUME NEW c \in Calls, IssueToken(c), UNCHANGED vaultVars
      PROVE  BootInv'
  <2>1. PICK t \in Tokens :
            /\ t \notin Issued /\ Issued' = Issued \cup {t}
            /\ row'[t].issuer = call[c].actor /\ call[c].actor # None
            /\ call' = [call EXCEPT ![c].pc = "audit", ![c].new = t]
    BY <1>7, IssueStep
  <2>2. /\ call'[c].pc = "audit" /\ call'[c].new = t
        /\ \A d \in Calls \ {c} : call'[d] = call[d]
    BY <2>1, CallIssues, CallTyped DEF TypeOK
  <2>3. call[c].pc = "in" /\ call[c].op.kind = "issue"
    BY <1>7 DEF IssueToken, Asks
  <2> QED
    BY <1>7, <1>k, <2>1, <2>2, <2>3 DEF IssueToken, InProgress, BootInv, OneBootstrap, Bootstrap, RowsKept
<1>8. ASSUME NEW c \in Calls, RevokeToken(c), UNCHANGED vaultVars
      PROVE  BootInv'
  <2>1. /\ call'[c].pc = "audit" /\ call'[c].new = call[c].new
        /\ \A d \in Calls \ {c} : call'[d] = call[d]
    BY <1>8, CallMoves, CallTyped DEF RevokeToken, TypeOK, Places
  <2>2. call[c].pc = "in" /\ call[c].op.kind = "revoke"
    BY <1>8 DEF RevokeToken, Asks, InProgress
  <2>3. Issued' = Issued
    BY <1>8, RowRevoked DEF RevokeToken, TypeOK, AccessTypeOK
  <2> QED
    <3>1. boot' = boot
      BY <1>8 DEF RevokeToken
    <3>2. \A d \in Calls : InProgress(d)' => boot' = "up"
      BY <2>1, <2>2, <3>1 DEF InProgress, BootInv
    <3>3. Bootstrap' = Bootstrap
      BY <1>k, <2>3 DEF Bootstrap, RowsKept
    <3> QED
      BY <2>3, <3>1, <3>2, <3>3 DEF BootInv, OneBootstrap
<1>9. ASSUME NEW c \in Calls, RefuseToken(c), UNCHANGED vaultVars
      PROVE  BootInv'
  <2>1. /\ call'[c].pc = "refused" /\ call'[c].new = call[c].new
        /\ \A d \in Calls \ {c} : call'[d] = call[d]
    BY <1>9, CallMoves, CallTyped DEF RefuseToken, TypeOK, Places
  <2>2. InProgress(c)
    BY <1>9 DEF RefuseToken, Asks, InProgress
  <2>3. Issued' = Issued
    BY <1>9 DEF RefuseToken, Issued
  <2> QED
    BY <1>9, <1>k, <2>1, <2>2, <2>3 DEF RefuseToken, InProgress, BootInv, OneBootstrap, Bootstrap, RowsKept
<1>10. ASSUME NEW c \in Calls, Append(c), UNCHANGED vaultVars
      PROVE  BootInv'
  <2>1. /\ call'[c].pc = "logged" /\ call'[c].new = call[c].new
        /\ \A d \in Calls \ {c} : call'[d] = call[d]
    BY <1>10, CallMoves, CallTyped DEF Append, TypeOK, Places
  <2>2. call[c].pc = "audit"
    BY <1>10 DEF Append, Asks, InProgress
  <2>3. Issued' = Issued
    BY <1>10 DEF Append, Issued
  <2> QED
    BY <1>10, <1>k, <2>1, <2>2, <2>3 DEF Append, InProgress, BootInv, OneBootstrap, Bootstrap, RowsKept
<1>11. ASSUME NEW c \in Calls, Answer(c), UNCHANGED vaultVars
      PROVE  BootInv'
  <2>1. /\ call'[c].pc = "answered" /\ call'[c].new = call[c].new
        /\ \A d \in Calls \ {c} : call'[d] = call[d]
    BY <1>11, CallMoves, CallTyped DEF Answer, TypeOK, Places
  <2>2. call[c].pc = "logged"
    BY <1>11 DEF Answer, Asks, InProgress
  <2>3. Issued' = Issued
    BY <1>11 DEF Answer, Issued
  <2> QED
    BY <1>11, <1>k, <2>1, <2>2, <2>3 DEF Answer, InProgress, BootInv, OneBootstrap, Bootstrap, RowsKept
<1>12. ASSUME NEW c \in Calls, CallFails(c), UNCHANGED vaultVars
      PROVE  BootInv'
  <2>1. /\ call'[c].pc = "failed" /\ call'[c].new = call[c].new
        /\ \A d \in Calls \ {c} : call'[d] = call[d]
    BY <1>12, CallMoves, CallTyped DEF CallFails, TypeOK, Places
  <2>2. InProgress(c)
    BY <1>12 DEF CallFails, Asks, InProgress
  <2>3. Issued' = Issued
    BY <1>12 DEF CallFails, Issued
  <2> QED
    BY <1>12, <1>k, <2>1, <2>2, <2>3 DEF CallFails, InProgress, BootInv, OneBootstrap, Bootstrap, RowsKept
<1>13. ASSUME NEW c \in Calls, PutSecret(c)
      PROVE  BootInv'
  <2>1. /\ call'[c].pc = "audit" /\ call'[c].new = call[c].new
        /\ \A d \in Calls \ {c} : call'[d] = call[d]
    BY <1>13, CallMoves, CallTyped DEF PutSecret, TypeOK, Places
  <2>2. call[c].pc = "in" /\ call[c].op.kind = "put"
    BY <1>13 DEF PutSecret, Asks, InProgress
  <2>3. Issued' = Issued
    BY <1>13 DEF PutSecret, Issued
  <2> QED
    BY <1>13, <1>k, <2>1, <2>2, <2>3 DEF PutSecret, InProgress, BootInv, OneBootstrap, Bootstrap, RowsKept
<1>14. ASSUME NEW c \in Calls, DeleteSecret(c)
      PROVE  BootInv'
  <2>1. /\ call'[c].pc = "audit" /\ call'[c].new = call[c].new
        /\ \A d \in Calls \ {c} : call'[d] = call[d]
    BY <1>14, CallMoves, CallTyped DEF DeleteSecret, TypeOK, Places
  <2>2. call[c].pc = "in" /\ call[c].op.kind = "delete"
    BY <1>14 DEF DeleteSecret, Asks, InProgress
  <2>3. Issued' = Issued
    BY <1>14 DEF DeleteSecret, Issued
  <2> QED
    BY <1>14, <1>k, <2>1, <2>2, <2>3 DEF DeleteSecret, InProgress, BootInv, OneBootstrap, Bootstrap, RowsKept
<1>15. ASSUME NEW c \in Calls, RefuseSecret(c)
      PROVE  BootInv'
  <2>1. /\ call'[c].pc = "refused" /\ call'[c].new = call[c].new
        /\ \A d \in Calls \ {c} : call'[d] = call[d]
    BY <1>15, CallMoves, CallTyped DEF RefuseSecret, TypeOK, Places
  <2>2. InProgress(c)
    BY <1>15 DEF RefuseSecret, Asks, InProgress
  <2>3. Issued' = Issued
    BY <1>15 DEF RefuseSecret, Issued, vaultVars
  <2> QED
    BY <1>15, <1>k, <2>1, <2>2, <2>3 DEF RefuseSecret, InProgress, BootInv, OneBootstrap, Bootstrap, RowsKept
<1>16. ASSUME NEW j \in Jobs, StartJob(j)
      PROVE  BootInv'
  BY <1>16 DEF StartJob, accessVars, vaultVars, HasAny, InProgress, BootInv, OneBootstrap, Bootstrap, Issued
<1>17. ASSUME NEW j \in Jobs, NEW k \in Keys, ReadSecret(j, k)
      PROVE  BootInv'
  BY <1>17 DEF ReadSecret, accessVars, vaultVars, HasAny, InProgress, BootInv, OneBootstrap, Bootstrap, Issued
<1>18. ASSUME NEW j \in Jobs, NEW k \in Keys, ReadFails(j, k)
      PROVE  BootInv'
  BY <1>18 DEF ReadFails, accessVars, vaultVars, HasAny, InProgress, BootInv, OneBootstrap, Bootstrap, Issued
<1>19. ASSUME NEW j \in Jobs, ExecuteJob(j)
      PROVE  BootInv'
  BY <1>19 DEF ExecuteJob, accessVars, vaultVars, HasAny, InProgress, BootInv, OneBootstrap, Bootstrap, Issued
<1> QED
  BY <1>0, <1>1, <1>2, <1>3, <1>4, <1>5, <1>6, <1>7, <1>8, <1>9, <1>10, <1>11,
     <1>12, <1>13, <1>14, <1>15, <1>16, <1>17, <1>18, <1>19
     DEF Next, DaemonStep, TokenStep

LEMMA RevokeStep == TypeOK /\ RevokeInv /\ [Next]_vars => RevokeInv'
<1> SUFFICES ASSUME TypeOK, RevokeInv, [Next]_vars PROVE RevokeInv'
  OBVIOUS
<1>k. RowsKept /\ CallsKept
  BY RowsStep, CallsStep
<1>0. CASE UNCHANGED vars
  BY <1>0, <1>k DEF vars, RevokeInv, RevokedBeginsNothing, RowsKept
<1>1. ASSUME CheckTokens, UNCHANGED vaultVars PROVE RevokeInv'
  BY <1>1, <1>k DEF CheckTokens, accessVars, vaultVars, RowsKept, CallsKept, RevokeInv, RevokedBeginsNothing
<1>2. ASSUME Mint, UNCHANGED vaultVars PROVE RevokeInv'
  BY <1>2, <1>k DEF Mint, accessVars, vaultVars, RowsKept, CallsKept, RevokeInv, RevokedBeginsNothing
<1>3. ASSUME LogBootstrap, UNCHANGED vaultVars PROVE RevokeInv'
  BY <1>3, <1>k DEF LogBootstrap, accessVars, vaultVars, RowsKept, CallsKept, RevokeInv, RevokedBeginsNothing
<1>4. ASSUME NEW t \in Tokens, Expire(t), UNCHANGED vaultVars
      PROVE  RevokeInv'
  BY <1>4, <1>k DEF Expire, accessVars, vaultVars, RowsKept, CallsKept, RevokeInv, RevokedBeginsNothing
<1>5. ASSUME Die PROVE RevokeInv'
  <2>1. \A d \in Calls : call'[d].pc = call[d].pc \/ call'[d].pc = "failed"
    BY <1>5, CallTyped DEF Die, Crash, CallRow, TypeOK
  <2>2. \A d \in Calls : call[d].pc = "none" => call'[d].pc = "none"
    BY <1>5 DEF Die, Crash, InProgress
  <2> QED
    BY <1>k, <2>1, <2>2 DEF RowsKept, CallsKept, RevokeInv, RevokedBeginsNothing
<1>6. ASSUME NEW c \in Calls, NEW t \in Tokens, NEW q \in Requests, Authenticate(c, t, q), UNCHANGED vaultVars
      PROVE  RevokeInv'
  <2>1. /\ call'[c].pc = "in" /\ call'[c].actor = t /\ call'[c].cut = Dismissed
        /\ \A d \in Calls \ {c} : call'[d] = call[d]
    BY <1>6, CallTyped DEF Authenticate, TypeOK
  <2>2. t \notin Dismissed
    BY <1>6 DEF Authenticate, Valid, Dismissed, RevokeInv
  <2> QED
    BY <1>k, <2>1, <2>2 DEF RowsKept, CallsKept, RevokeInv, RevokedBeginsNothing
<1>7. ASSUME NEW c \in Calls, IssueToken(c), UNCHANGED vaultVars
      PROVE  RevokeInv'
  <2>1. PICK t \in Tokens :
            /\ t \notin Issued /\ Issued' = Issued \cup {t}
            /\ row'[t].issuer = call[c].actor /\ call[c].actor # None
            /\ call' = [call EXCEPT ![c].pc = "audit", ![c].new = t]
    BY <1>7, IssueStep
  <2>2. /\ call'[c].pc = "audit" /\ call'[c].new = t
        /\ \A d \in Calls \ {c} : call'[d] = call[d]
    BY <2>1, CallIssues, CallTyped DEF TypeOK
  <2>3. call[c].pc = "in" /\ call[c].op.kind = "issue"
    BY <1>7 DEF IssueToken, Asks
  <2> QED
    BY <1>k, <2>2, <2>3 DEF RowsKept, CallsKept, RevokeInv, RevokedBeginsNothing
<1>8. ASSUME NEW c \in Calls, RevokeToken(c), UNCHANGED vaultVars
      PROVE  RevokeInv'
  <2>1. /\ call'[c].pc = "audit" /\ call'[c].new = call[c].new
        /\ \A d \in Calls \ {c} : call'[d] = call[d]
    BY <1>8, CallMoves, CallTyped DEF RevokeToken, TypeOK, Places
  <2>2. call[c].pc = "in" /\ call[c].op.kind = "revoke"
    BY <1>8 DEF RevokeToken, Asks, InProgress
  <2>3. call[c].op.token \in Issued /\ row'[call[c].op.token].revoked
    BY <1>8, RowRevoked DEF RevokeToken, TypeOK, AccessTypeOK
  <2> QED
    BY <1>k, <2>1, <2>2, <2>3 DEF RowsKept, CallsKept, RevokeInv, RevokedBeginsNothing
<1>9. ASSUME NEW c \in Calls, RefuseToken(c), UNCHANGED vaultVars
      PROVE  RevokeInv'
  <2>1. /\ call'[c].pc = "refused" /\ call'[c].new = call[c].new
        /\ \A d \in Calls \ {c} : call'[d] = call[d]
    BY <1>9, CallMoves, CallTyped DEF RefuseToken, TypeOK, Places
  <2>2. InProgress(c)
    BY <1>9 DEF RefuseToken, Asks, InProgress
  <2> QED
    BY <1>k, <2>1, <2>2 DEF InProgress, RowsKept, CallsKept, RevokeInv, RevokedBeginsNothing
<1>10. ASSUME NEW c \in Calls, Append(c), UNCHANGED vaultVars
      PROVE  RevokeInv'
  <2>1. /\ call'[c].pc = "logged" /\ call'[c].new = call[c].new
        /\ \A d \in Calls \ {c} : call'[d] = call[d]
    BY <1>10, CallMoves, CallTyped DEF Append, TypeOK, Places
  <2>2. call[c].pc = "audit"
    BY <1>10 DEF Append, Asks, InProgress
  <2> QED
    BY <1>k, <2>1, <2>2 DEF InProgress, RowsKept, CallsKept, RevokeInv, RevokedBeginsNothing
<1>11. ASSUME NEW c \in Calls, Answer(c), UNCHANGED vaultVars
      PROVE  RevokeInv'
  <2>1. /\ call'[c].pc = "answered" /\ call'[c].new = call[c].new
        /\ \A d \in Calls \ {c} : call'[d] = call[d]
    BY <1>11, CallMoves, CallTyped DEF Answer, TypeOK, Places
  <2>2. call[c].pc = "logged"
    BY <1>11 DEF Answer, Asks, InProgress
  <2> QED
    BY <1>k, <2>1, <2>2 DEF InProgress, RowsKept, CallsKept, RevokeInv, RevokedBeginsNothing
<1>12. ASSUME NEW c \in Calls, CallFails(c), UNCHANGED vaultVars
      PROVE  RevokeInv'
  <2>1. /\ call'[c].pc = "failed" /\ call'[c].new = call[c].new
        /\ \A d \in Calls \ {c} : call'[d] = call[d]
    BY <1>12, CallMoves, CallTyped DEF CallFails, TypeOK, Places
  <2>2. InProgress(c)
    BY <1>12 DEF CallFails, Asks, InProgress
  <2> QED
    BY <1>k, <2>1, <2>2 DEF InProgress, RowsKept, CallsKept, RevokeInv, RevokedBeginsNothing
<1>13. ASSUME NEW c \in Calls, PutSecret(c)
      PROVE  RevokeInv'
  <2>1. /\ call'[c].pc = "audit" /\ call'[c].new = call[c].new
        /\ \A d \in Calls \ {c} : call'[d] = call[d]
    BY <1>13, CallMoves, CallTyped DEF PutSecret, TypeOK, Places
  <2>2. call[c].pc = "in" /\ call[c].op.kind = "put"
    BY <1>13 DEF PutSecret, Asks, InProgress
  <2> QED
    BY <1>k, <2>1, <2>2 DEF InProgress, RowsKept, CallsKept, RevokeInv, RevokedBeginsNothing
<1>14. ASSUME NEW c \in Calls, DeleteSecret(c)
      PROVE  RevokeInv'
  <2>1. /\ call'[c].pc = "audit" /\ call'[c].new = call[c].new
        /\ \A d \in Calls \ {c} : call'[d] = call[d]
    BY <1>14, CallMoves, CallTyped DEF DeleteSecret, TypeOK, Places
  <2>2. call[c].pc = "in" /\ call[c].op.kind = "delete"
    BY <1>14 DEF DeleteSecret, Asks, InProgress
  <2> QED
    BY <1>k, <2>1, <2>2 DEF InProgress, RowsKept, CallsKept, RevokeInv, RevokedBeginsNothing
<1>15. ASSUME NEW c \in Calls, RefuseSecret(c)
      PROVE  RevokeInv'
  <2>1. /\ call'[c].pc = "refused" /\ call'[c].new = call[c].new
        /\ \A d \in Calls \ {c} : call'[d] = call[d]
    BY <1>15, CallMoves, CallTyped DEF RefuseSecret, TypeOK, Places
  <2>2. InProgress(c)
    BY <1>15 DEF RefuseSecret, Asks, InProgress
  <2> QED
    BY <1>k, <2>1, <2>2 DEF InProgress, RowsKept, CallsKept, RevokeInv, RevokedBeginsNothing
<1>16. ASSUME NEW j \in Jobs, StartJob(j)
      PROVE  RevokeInv'
  BY <1>16, <1>k DEF StartJob, accessVars, vaultVars, RowsKept, CallsKept, RevokeInv, RevokedBeginsNothing
<1>17. ASSUME NEW j \in Jobs, NEW k \in Keys, ReadSecret(j, k)
      PROVE  RevokeInv'
  BY <1>17, <1>k DEF ReadSecret, accessVars, vaultVars, RowsKept, CallsKept, RevokeInv, RevokedBeginsNothing
<1>18. ASSUME NEW j \in Jobs, NEW k \in Keys, ReadFails(j, k)
      PROVE  RevokeInv'
  BY <1>18, <1>k DEF ReadFails, accessVars, vaultVars, RowsKept, CallsKept, RevokeInv, RevokedBeginsNothing
<1>19. ASSUME NEW j \in Jobs, ExecuteJob(j)
      PROVE  RevokeInv'
  BY <1>19, <1>k DEF ExecuteJob, accessVars, vaultVars, RowsKept, CallsKept, RevokeInv, RevokedBeginsNothing
<1> QED
  BY <1>0, <1>1, <1>2, <1>3, <1>4, <1>5, <1>6, <1>7, <1>8, <1>9, <1>10, <1>11,
     <1>12, <1>13, <1>14, <1>15, <1>16, <1>17, <1>18, <1>19
     DEF Next, DaemonStep, TokenStep

\* What a step must say of requests, log and plaintexts to keep RecordInv.
LEMMA RecordFrame ==
  ASSUME TypeOK, RecordInv, RowsKept, CallsKept, logged \subseteq logged',
         \A c \in Calls : call[c].new # None => call'[c].new = call[c].new,
         \A c \in Calls : call'[c].new # None =>
            \/ call'[c].new = call[c].new
            \/ call'[c].new \in Issued' /\ row'[call'[c].new].issuer = call'[c].actor,
         \A c \in Calls : call'[c].pc \in {"none", "in"} => c \notin logged' /\ call'[c].new = None,
         \A c \in Calls : call'[c].pc \in {"logged", "answered"} => c \in logged',
         \A t \in known' \ known :
            /\ t \in Issued'
            /\ t \in Bootstrap \/ \E c \in logged : call[c].new = t /\ call[c].actor = row[t].issuer
  PROVE  RecordInv'
<1>1. \A t \in Issued : t \in Tokens /\ t # None
  BY AccessAssumption DEF Issued
<1>2. \A t \in Issued : t \in Issued' /\ row'[t].issuer = row[t].issuer
  BY DEF RowsKept
<1>3. \A t \in Bootstrap : t \in Bootstrap'
  BY <1>2 DEF Bootstrap
<1>4. ASSUME NEW t \in Issued, NEW c \in logged, call[c].new = t, call[c].actor = row[t].issuer
      PROVE  c \in logged' /\ call'[c].new = t /\ call'[c].actor = row'[t].issuer
  <2>1. c \in Calls
    BY DEF TypeOK, AccessTypeOK
  <2>2. call[c].pc # "none"
    BY <2>1 DEF RecordInv
  <2> QED
    BY <1>1, <1>2, <1>4, <2>1, <2>2 DEF CallsKept
<1>5. UsableIsOnRecord'
  <2> SUFFICES ASSUME NEW t \in known' \ Bootstrap'
               PROVE  \E c \in logged' : call'[c].new = t /\ call'[c].actor = row'[t].issuer
    BY DEF UsableIsOnRecord
  <2>1. t \notin Bootstrap
    BY <1>3
  <2>2. PICK c \in logged : call[c].new = t /\ call[c].actor = row[t].issuer
    BY <2>1 DEF RecordInv, UsableIsOnRecord
  <2>3. t \in Issued
    <3>1. c \in Calls
      BY <2>2 DEF TypeOK, AccessTypeOK
    <3>2. CASE t \in known
      BY <3>2 DEF RecordInv
    <3>3. CASE t \notin known
      <4>1. t # None
        BY <3>3, AccessAssumption DEF Issued
      <4> QED
        BY <2>2, <3>1, <4>1 DEF RecordInv
    <3> QED
      BY <3>2, <3>3
  <2> QED
    BY <1>4, <2>2, <2>3
<1>6. known' \subseteq Issued'
  BY <1>2 DEF RecordInv
<1>7. ASSUME NEW c \in Calls, call'[c].new # None
      PROVE  call'[c].new \in Issued' /\ row'[call'[c].new].issuer = call'[c].actor
  <2>1. CASE call'[c].new = call[c].new
    <3>1. call[c].new \in Issued /\ row[call[c].new].issuer = call[c].actor /\ call[c].pc # "none"
      BY <1>7, <2>1 DEF RecordInv
    <3> QED
      BY <1>2, <2>1, <3>1 DEF CallsKept
  <2> QED
    BY <1>7, <2>1
<1> QED
  BY <1>5, <1>6, <1>7 DEF RecordInv

LEMMA RecordStep == TypeOK /\ RecordInv /\ [Next]_vars => RecordInv'
<1> SUFFICES ASSUME TypeOK, RecordInv, [Next]_vars PROVE RecordInv'
  OBVIOUS
<1>k. RowsKept /\ CallsKept
  BY RowsStep, CallsStep
<1>r. /\ \A c \in Calls : call[c].pc \in {"none", "in"} => c \notin logged /\ call[c].new = None
      /\ \A c \in Calls : call[c].pc \in {"logged", "answered"} => c \in logged
  BY DEF RecordInv
<1>0. CASE UNCHANGED vars
  <2>1. UNCHANGED <<known, logged, call>>
    BY <1>0 DEF vars
  <2> QED
    BY <1>k, <1>r, <2>1, RecordFrame
<1>1. ASSUME CheckTokens, UNCHANGED vaultVars PROVE RecordInv'
  <2>1. UNCHANGED <<known, logged, call>>
    BY <1>1 DEF CheckTokens, accessVars, vaultVars
  <2> QED
    BY <1>k, <1>r, <2>1, RecordFrame
<1>2. ASSUME Mint, UNCHANGED vaultVars PROVE RecordInv'
  <2>1. UNCHANGED <<known, logged, call>>
    BY <1>2 DEF Mint, accessVars, vaultVars
  <2> QED
    BY <1>k, <1>r, <2>1, RecordFrame
<1>3. ASSUME LogBootstrap, UNCHANGED vaultVars PROVE RecordInv'
  <2>1. UNCHANGED <<row, call, logged>> /\ known' = known \cup Bootstrap
    BY <1>3 DEF LogBootstrap
  <2>2. Bootstrap \subseteq Issued'
    BY <1>k DEF RowsKept, Bootstrap
  <2> QED
    BY <1>k, <1>r, <2>1, <2>2, RecordFrame
<1>4. ASSUME NEW t \in Tokens, Expire(t), UNCHANGED vaultVars
      PROVE  RecordInv'
  <2>1. UNCHANGED <<known, logged, call>>
    BY <1>4 DEF Expire, accessVars, vaultVars
  <2> QED
    BY <1>k, <1>r, <2>1, RecordFrame
<1>5. ASSUME Die PROVE RecordInv'
  <2>1. \A d \in Calls :
            /\ call'[d] = call[d] \/ (call[d].pc # "none" /\ call'[d].pc = "failed")
            /\ call'[d].new = call[d].new
    BY <1>5, CallTyped DEF Die, Crash, CallRow, TypeOK, InProgress
  <2>2. UNCHANGED <<known, logged>>
    BY <1>5 DEF Die, Crash
  <2> QED
    BY <1>k, <1>r, <2>1, <2>2, RecordFrame
<1>6. ASSUME NEW c \in Calls, NEW t \in Tokens, NEW q \in Requests, Authenticate(c, t, q), UNCHANGED vaultVars
      PROVE  RecordInv'
  <2>1. /\ call'[c].pc = "in" /\ call'[c].new = None
        /\ \A d \in Calls \ {c} : call'[d] = call[d]
    BY <1>6, CallTyped DEF Authenticate, TypeOK
  <2>2. call[c].pc = "none" /\ UNCHANGED <<known, logged>>
    BY <1>6 DEF Authenticate
  <2> QED
    BY <1>k, <1>r, <2>1, <2>2, RecordFrame
<1>7. ASSUME NEW c \in Calls, IssueToken(c), UNCHANGED vaultVars
      PROVE  RecordInv'
  <2>1. PICK t \in Tokens :
            /\ t \notin Issued /\ Issued' = Issued \cup {t}
            /\ row'[t].issuer = call[c].actor /\ call[c].actor # None
            /\ call' = [call EXCEPT ![c].pc = "audit", ![c].new = t]
    BY <1>7, IssueStep
  <2>2. /\ call'[c].pc = "audit" /\ call'[c].new = t
        /\ \A d \in Calls \ {c} : call'[d] = call[d]
    BY <2>1, CallIssues, CallTyped DEF TypeOK
  <2>3. call[c].pc = "in" /\ call[c].op.kind = "issue"
    BY <1>7 DEF IssueToken, Asks
  <2>4. UNCHANGED <<known, logged>> /\ call'[c].actor = call[c].actor
    BY <1>7, <1>k, <2>3 DEF IssueToken, CallsKept
  <2>5. call[c].new = None
    BY <2>3, <1>r
  <2>6. t \in Issued' /\ row'[t].issuer = call'[c].actor
    BY <2>1, <2>4
  <2>7. \A d \in Calls : call[d].new # None => call'[d].new = call[d].new
    BY <2>2, <2>5
  <2>8. \A d \in Calls : call'[d].new = call[d].new \/ (call'[d].new \in Issued' /\ row'[call'[d].new].issuer = call'[d].actor)
    BY <2>2, <2>6
  <2>9. \A d \in Calls : call'[d].pc \in {"none", "in"} => d \notin logged' /\ call'[d].new = None
    BY <1>r, <2>2, <2>4
  <2>10. \A d \in Calls : call'[d].pc \in {"logged", "answered"} => d \in logged'
    BY <1>r, <2>2, <2>4
  <2> QED
    BY <1>k, <2>4, <2>7, <2>8, <2>9, <2>10, RecordFrame
<1>8. ASSUME NEW c \in Calls, RevokeToken(c), UNCHANGED vaultVars
      PROVE  RecordInv'
  <2>1. /\ call'[c].pc = "audit" /\ call'[c].new = call[c].new
        /\ \A d \in Calls \ {c} : call'[d] = call[d]
    BY <1>8, CallMoves, CallTyped DEF RevokeToken, TypeOK, Places
  <2>2. call[c].pc = "in" /\ call[c].op.kind = "revoke"
    BY <1>8 DEF RevokeToken, Asks, InProgress
  <2>3. UNCHANGED <<known, logged>>
    BY <1>8 DEF RevokeToken, vaultVars
  <2> QED
    BY <1>k, <1>r, <2>1, <2>2, <2>3, RecordFrame
<1>9. ASSUME NEW c \in Calls, RefuseToken(c), UNCHANGED vaultVars
      PROVE  RecordInv'
  <2>1. /\ call'[c].pc = "refused" /\ call'[c].new = call[c].new
        /\ \A d \in Calls \ {c} : call'[d] = call[d]
    BY <1>9, CallMoves, CallTyped DEF RefuseToken, TypeOK, Places
  <2>2. InProgress(c)
    BY <1>9 DEF RefuseToken, Asks, InProgress
  <2>3. UNCHANGED <<known, logged>>
    BY <1>9 DEF RefuseToken, vaultVars
  <2> QED
    BY <1>k, <1>r, <2>1, <2>2, <2>3, RecordFrame
<1>10. ASSUME NEW c \in Calls, Append(c), UNCHANGED vaultVars
      PROVE  RecordInv'
  <2>1. /\ call'[c].pc = "logged" /\ call'[c].new = call[c].new
        /\ \A d \in Calls \ {c} : call'[d] = call[d]
    BY <1>10, CallMoves, CallTyped DEF Append, TypeOK, Places
  <2>2. call[c].pc = "audit"
    BY <1>10 DEF Append, Asks, InProgress
  <2>3. logged' = logged \cup {c} /\ known' = known
    BY <1>10 DEF Append
  <2> QED
    BY <1>k, <1>r, <2>1, <2>2, <2>3, RecordFrame
<1>11. ASSUME NEW c \in Calls, Answer(c), UNCHANGED vaultVars
      PROVE  RecordInv'
  <2>1. /\ call'[c].pc = "answered" /\ call'[c].new = call[c].new
        /\ \A d \in Calls \ {c} : call'[d] = call[d]
    BY <1>11, CallMoves, CallTyped DEF Answer, TypeOK, Places
  <2>2. call[c].pc = "logged"
    BY <1>11 DEF Answer, Asks, InProgress
  <2>3. known' = known \cup ({call[c].new} \ {None}) /\ logged' = logged
    BY <1>11 DEF Answer
  <2>4. c \in logged
    BY <2>2 DEF RecordInv
  <2>5. ASSUME NEW t \in known' \ known PROVE t \in Issued' /\ t = call[c].new /\ call[c].actor = row[t].issuer
    BY <1>k, <2>3 DEF RecordInv, RowsKept
  <2>6. \A t \in known' \ known : /\ t \in Issued'
                                  /\ \E d \in logged : call[d].new = t /\ call[d].actor = row[t].issuer
    BY <2>4, <2>5
  <2>7. \A d \in Calls : call'[d].new = call[d].new
    BY <2>1
  <2>8. \A d \in Calls : d # c => call'[d].pc = call[d].pc
    BY <2>1
  <2> QED
    BY <1>k, <1>r, <2>1, <2>3, <2>4, <2>6, <2>7, <2>8, RecordFrame
<1>12. ASSUME NEW c \in Calls, CallFails(c), UNCHANGED vaultVars
      PROVE  RecordInv'
  <2>1. /\ call'[c].pc = "failed" /\ call'[c].new = call[c].new
        /\ \A d \in Calls \ {c} : call'[d] = call[d]
    BY <1>12, CallMoves, CallTyped DEF CallFails, TypeOK, Places
  <2>2. InProgress(c)
    BY <1>12 DEF CallFails, Asks, InProgress
  <2>3. UNCHANGED <<known, logged>>
    BY <1>12 DEF CallFails, vaultVars
  <2> QED
    BY <1>k, <1>r, <2>1, <2>2, <2>3, RecordFrame
<1>13. ASSUME NEW c \in Calls, PutSecret(c)
      PROVE  RecordInv'
  <2>1. /\ call'[c].pc = "audit" /\ call'[c].new = call[c].new
        /\ \A d \in Calls \ {c} : call'[d] = call[d]
    BY <1>13, CallMoves, CallTyped DEF PutSecret, TypeOK, Places
  <2>2. call[c].pc = "in" /\ call[c].op.kind = "put"
    BY <1>13 DEF PutSecret, Asks, InProgress
  <2>3. UNCHANGED <<known, logged>>
    BY <1>13 DEF PutSecret, vaultVars
  <2> QED
    BY <1>k, <1>r, <2>1, <2>2, <2>3, RecordFrame
<1>14. ASSUME NEW c \in Calls, DeleteSecret(c)
      PROVE  RecordInv'
  <2>1. /\ call'[c].pc = "audit" /\ call'[c].new = call[c].new
        /\ \A d \in Calls \ {c} : call'[d] = call[d]
    BY <1>14, CallMoves, CallTyped DEF DeleteSecret, TypeOK, Places
  <2>2. call[c].pc = "in" /\ call[c].op.kind = "delete"
    BY <1>14 DEF DeleteSecret, Asks, InProgress
  <2>3. UNCHANGED <<known, logged>>
    BY <1>14 DEF DeleteSecret, vaultVars
  <2> QED
    BY <1>k, <1>r, <2>1, <2>2, <2>3, RecordFrame
<1>15. ASSUME NEW c \in Calls, RefuseSecret(c)
      PROVE  RecordInv'
  <2>1. /\ call'[c].pc = "refused" /\ call'[c].new = call[c].new
        /\ \A d \in Calls \ {c} : call'[d] = call[d]
    BY <1>15, CallMoves, CallTyped DEF RefuseSecret, TypeOK, Places
  <2>2. InProgress(c)
    BY <1>15 DEF RefuseSecret, Asks, InProgress
  <2>3. UNCHANGED <<known, logged>>
    BY <1>15 DEF RefuseSecret, vaultVars
  <2> QED
    BY <1>k, <1>r, <2>1, <2>2, <2>3, RecordFrame
<1>16. ASSUME NEW j \in Jobs, StartJob(j)
      PROVE  RecordInv'
  <2>1. UNCHANGED <<known, logged, call>>
    BY <1>16 DEF StartJob, accessVars, vaultVars
  <2> QED
    BY <1>k, <1>r, <2>1, RecordFrame
<1>17. ASSUME NEW j \in Jobs, NEW k \in Keys, ReadSecret(j, k)
      PROVE  RecordInv'
  <2>1. UNCHANGED <<known, logged, call>>
    BY <1>17 DEF ReadSecret, accessVars, vaultVars
  <2> QED
    BY <1>k, <1>r, <2>1, RecordFrame
<1>18. ASSUME NEW j \in Jobs, NEW k \in Keys, ReadFails(j, k)
      PROVE  RecordInv'
  <2>1. UNCHANGED <<known, logged, call>>
    BY <1>18 DEF ReadFails, accessVars, vaultVars
  <2> QED
    BY <1>k, <1>r, <2>1, RecordFrame
<1>19. ASSUME NEW j \in Jobs, ExecuteJob(j)
      PROVE  RecordInv'
  <2>1. UNCHANGED <<known, logged, call>>
    BY <1>19 DEF ExecuteJob, accessVars, vaultVars
  <2> QED
    BY <1>k, <1>r, <2>1, RecordFrame
<1> QED
  BY <1>0, <1>1, <1>2, <1>3, <1>4, <1>5, <1>6, <1>7, <1>8, <1>9, <1>10, <1>11,
     <1>12, <1>13, <1>14, <1>15, <1>16, <1>17, <1>18, <1>19
     DEF Next, DaemonStep, TokenStep

\* However often the daemon dies on the way, there is one bootstrap token.
THEOREM BootstrapStaysOne == Spec => []OneBootstrap
<1>1. Init => BootInv
  BY DEF Init, AccessInit, NoCall, BootInv, InProgress, OneBootstrap, Bootstrap, Issued
<1>2. BootInv => OneBootstrap
  BY DEF BootInv
<1> QED
  BY <1>1, <1>2, BootStep, TypesAlways, PTL DEF Spec

\* No request begins with a token whose revocation was answered before.
THEOREM RevocationHolds == Spec => []RevokedBeginsNothing
<1>1. Init => RevokeInv
  BY DEF Init, AccessInit, NoCall, RevokeInv, RevokedBeginsNothing
<1>2. RevokeInv => RevokedBeginsNothing
  BY DEF RevokeInv
<1> QED
  BY <1>1, <1>2, RevokeStep, TypesAlways, PTL DEF Spec

\* Every token that can be presented is the bootstrap token, or its issue is
\* in the audit log.
THEOREM TokensOnRecord == Spec => []UsableIsOnRecord
<1>1. Init => RecordInv
  BY DEF Init, AccessInit, NoCall, RecordInv, UsableIsOnRecord
<1>2. RecordInv => UsableIsOnRecord
  BY DEF RecordInv
<1> QED
  BY <1>1, <1>2, RecordStep, TypesAlways, PTL DEF Spec

-----------------------------------------------------------------------------
(* Secrets: a value belongs to one project and key for ever. *)

\* Request v has put a value under p and k, with a token that may.
PutBy(v, p, k) ==
    /\ v \in Calls
    /\ call[v].pc \notin {"none", "in"}
    /\ call[v].op.kind = "put" /\ call[v].op.project = p /\ call[v].op.key = k
    /\ MayWrite(call[v].actor, p)

\* What is stored.
StoredInv ==
    /\ \A p \in Projects, k \in Keys : secret[p][k] # None =>
          PutBy(secret[p][k].value, p, k) /\ secret[p][k].value \notin gone
    /\ \A v \in gone : call[v].pc \notin {"none", "in"}

\* What a job has read; without `left` a half-read job could not be told from
\* one that was given too little.
ReadInv ==
    \A j \in Jobs :
        /\ \A k \in Keys : job[j].got[k] # None =>
              PutBy(job[j].got[k], JobProject[j], k) /\ job[j].got[k] \notin job[j].stale
        /\ job[j].pc \in {"resolving", "executing"} =>
              /\ job[j].left \subseteq Wanted[j]
              /\ \A k \in Keys : job[j].got[k] # None <=> k \in Wanted[j] \ job[j].left
        /\ job[j].pc = "executing" => job[j].left = {}
        /\ job[j].stale \subseteq gone

\* A request never goes back to where it has not been handled.
Onward == \A c \in Calls : call[c].pc \notin {"none", "in"} => call'[c].pc \notin {"none", "in"}

LEMMA OnwardStep == TypeOK /\ [Next]_vars => Onward
<1> SUFFICES ASSUME TypeOK, [Next]_vars PROVE Onward
  OBVIOUS
<1>0. CASE UNCHANGED vars
  BY <1>0 DEF vars, Onward
<1>1. ASSUME CheckTokens, UNCHANGED vaultVars PROVE Onward
  BY <1>1 DEF CheckTokens, accessVars, vaultVars, Onward
<1>2. ASSUME Mint, UNCHANGED vaultVars PROVE Onward
  BY <1>2 DEF Mint, accessVars, vaultVars, Onward
<1>3. ASSUME LogBootstrap, UNCHANGED vaultVars PROVE Onward
  BY <1>3 DEF LogBootstrap, accessVars, vaultVars, Onward
<1>4. ASSUME NEW t \in Tokens, Expire(t), UNCHANGED vaultVars
      PROVE  Onward
  BY <1>4 DEF Expire, accessVars, vaultVars, Onward
<1>5. ASSUME Die PROVE Onward
  BY <1>5, CallTyped DEF Die, Crash, CallRow, Onward, TypeOK
<1>6. ASSUME NEW c \in Calls, NEW t \in Tokens, NEW q \in Requests, Authenticate(c, t, q), UNCHANGED vaultVars
      PROVE  Onward
  BY <1>6, CallTyped DEF Authenticate, Onward, TypeOK
<1>7. ASSUME NEW c \in Calls, IssueToken(c), UNCHANGED vaultVars
      PROVE  Onward
  <2>1. PICK t \in Tokens : call' = [call EXCEPT ![c].pc = "audit", ![c].new = t]
    BY <1>7 DEF IssueToken
  <2> QED
    BY <2>1, CallIssues, CallTyped DEF Onward, TypeOK
<1>8. ASSUME NEW c \in Calls, RevokeToken(c), UNCHANGED vaultVars
      PROVE  Onward
  <2>1. call'[c].pc = "audit" /\ \A d \in Calls \ {c} : call'[d] = call[d]
    BY <1>8, CallMoves, CallTyped DEF RevokeToken, TypeOK, Places
  <2> QED
    BY <2>1 DEF Onward
<1>9. ASSUME NEW c \in Calls, RefuseToken(c), UNCHANGED vaultVars
      PROVE  Onward
  <2>1. call'[c].pc = "refused" /\ \A d \in Calls \ {c} : call'[d] = call[d]
    BY <1>9, CallMoves, CallTyped DEF RefuseToken, TypeOK, Places
  <2> QED
    BY <2>1 DEF Onward
<1>10. ASSUME NEW c \in Calls, Append(c), UNCHANGED vaultVars
      PROVE  Onward
  <2>1. call'[c].pc = "logged" /\ \A d \in Calls \ {c} : call'[d] = call[d]
    BY <1>10, CallMoves, CallTyped DEF Append, TypeOK, Places
  <2> QED
    BY <2>1 DEF Onward
<1>11. ASSUME NEW c \in Calls, Answer(c), UNCHANGED vaultVars
      PROVE  Onward
  <2>1. call'[c].pc = "answered" /\ \A d \in Calls \ {c} : call'[d] = call[d]
    BY <1>11, CallMoves, CallTyped DEF Answer, TypeOK, Places
  <2> QED
    BY <2>1 DEF Onward
<1>12. ASSUME NEW c \in Calls, CallFails(c), UNCHANGED vaultVars
      PROVE  Onward
  <2>1. call'[c].pc = "failed" /\ \A d \in Calls \ {c} : call'[d] = call[d]
    BY <1>12, CallMoves, CallTyped DEF CallFails, TypeOK, Places
  <2> QED
    BY <2>1 DEF Onward
<1>13. ASSUME NEW c \in Calls, PutSecret(c)
      PROVE  Onward
  <2>1. call'[c].pc = "audit" /\ \A d \in Calls \ {c} : call'[d] = call[d]
    BY <1>13, CallMoves, CallTyped DEF PutSecret, TypeOK, Places
  <2> QED
    BY <2>1 DEF Onward
<1>14. ASSUME NEW c \in Calls, DeleteSecret(c)
      PROVE  Onward
  <2>1. call'[c].pc = "audit" /\ \A d \in Calls \ {c} : call'[d] = call[d]
    BY <1>14, CallMoves, CallTyped DEF DeleteSecret, TypeOK, Places
  <2> QED
    BY <2>1 DEF Onward
<1>15. ASSUME NEW c \in Calls, RefuseSecret(c)
      PROVE  Onward
  <2>1. call'[c].pc = "refused" /\ \A d \in Calls \ {c} : call'[d] = call[d]
    BY <1>15, CallMoves, CallTyped DEF RefuseSecret, TypeOK, Places
  <2> QED
    BY <2>1 DEF Onward
<1>16. ASSUME NEW j \in Jobs, StartJob(j)
      PROVE  Onward
  BY <1>16 DEF StartJob, accessVars, vaultVars, Onward
<1>17. ASSUME NEW j \in Jobs, NEW k \in Keys, ReadSecret(j, k)
      PROVE  Onward
  BY <1>17 DEF ReadSecret, accessVars, vaultVars, Onward
<1>18. ASSUME NEW j \in Jobs, NEW k \in Keys, ReadFails(j, k)
      PROVE  Onward
  BY <1>18 DEF ReadFails, accessVars, vaultVars, Onward
<1>19. ASSUME NEW j \in Jobs, ExecuteJob(j)
      PROVE  Onward
  BY <1>19 DEF ExecuteJob, accessVars, vaultVars, Onward
<1> QED
  BY <1>0, <1>1, <1>2, <1>3, <1>4, <1>5, <1>6, <1>7, <1>8, <1>9, <1>10, <1>11,
     <1>12, <1>13, <1>14, <1>15, <1>16, <1>17, <1>18, <1>19
     DEF Next, DaemonStep, TokenStep

LEMMA PutStays ==
  ASSUME TypeOK, [Next]_vars, NEW v, NEW p, NEW k, PutBy(v, p, k)
  PROVE  PutBy(v, p, k)'
<1>1. RowsKept /\ CallsKept /\ Onward
  BY RowsStep, CallsStep, OnwardStep
<1>2. call[v].actor \in Issued
  BY DEF PutBy, TypeOK, CallsAsk
<1> QED
  BY <1>1, <1>2 DEF PutBy, MayWrite, RowsKept, CallsKept, Onward

LEMMA StoredStep == TypeOK /\ StoredInv /\ [Next]_vars => StoredInv'
<1> SUFFICES ASSUME TypeOK, StoredInv, [Next]_vars PROVE StoredInv'
  OBVIOUS
<1>1. Onward
  BY OnwardStep
<1>2. CASE UNCHANGED <<secret, gone>>
  BY <1>1, <1>2, PutStays DEF StoredInv, Onward, TypeOK, VaultTypeOK
<1>3. ASSUME NEW c \in Calls, PutSecret(c) PROVE StoredInv'
  <2> DEFINE p == call[c].op.project
  <2> DEFINE k == call[c].op.key
  <2> DEFINE e == [master |-> master, project |-> p, key |-> k, value |-> c]
  <2>1. p \in Projects /\ k \in Keys
    BY <1>3, VaultAssumption DEF PutSecret, Asks, TypeOK, CallsAsk
  <2>2. call[c].pc = "in" /\ call[c].op.kind = "put" /\ MayWrite(call[c].actor, p)
    BY <1>3 DEF PutSecret, Asks
  <2>3. secret' = [secret EXCEPT ![p][k] = e] /\ gone' = gone \cup Values(p, k) /\ row' = row
    BY <1>3 DEF PutSecret, Put
  <2>4. /\ call'[c].pc = "audit" /\ call'[c].actor = call[c].actor
        /\ call'[c].op = call[c].op
    BY <1>3, CallMoves, CallTyped DEF PutSecret, TypeOK, Places
  <2>6. c \notin gone /\ c \notin Values(p, k)
    BY <2>1, <2>2 DEF StoredInv, Values, PutBy
  <2>7. \A v \in Values(p, k) : PutBy(v, p, k)
    BY <2>1 DEF StoredInv, Values
  <2>8. ASSUME NEW q \in Projects, NEW l \in Keys, q # p \/ l # k
        PROVE  secret'[q][l] = secret[q][l]
    BY <2>3, <2>8 DEF TypeOK, VaultTypeOK
  <2>9. ASSUME NEW q \in Projects, NEW l \in Keys, q # p \/ l # k, secret[q][l] # None
        PROVE  \E v : v = secret[q][l].value /\ PutBy(v, q, l)' /\ v \notin gone'
    <3>1. PICK v : v = secret[q][l].value
      OBVIOUS
    <3>2. PutBy(v, q, l) /\ v \notin gone
      BY <2>9, <3>1 DEF StoredInv
    <3>3. v \notin Values(p, k)
      BY <2>7, <2>9, <3>2 DEF PutBy
    <3>4. PutBy(v, q, l)'
      BY <3>2, PutStays
    <3> QED
      BY <2>3, <3>1, <3>2, <3>3, <3>4
  <2>10. secret'[p][k] = e /\ e.value = c
    BY <2>1, <2>3 DEF TypeOK, VaultTypeOK
  <2>11. \A v \in gone' : call'[v].pc \notin {"none", "in"}
    BY <1>1, <2>3, <2>7 DEF StoredInv, Onward, PutBy, TypeOK, VaultTypeOK
  <2>12. ASSUME NEW q \in Projects, NEW l \in Keys, secret'[q][l] # None
         PROVE  \E v : v = secret'[q][l].value /\ PutBy(v, q, l)' /\ v \notin gone'
    <3>1. CASE q = p /\ l = k
      <4>1. secret'[q][l].value = c
        BY <2>10, <3>1
      <4>2. PutBy(c, q, l)'
        BY <2>2, <2>3, <2>4, <3>1 DEF PutBy, MayWrite
      <4> QED
        BY <2>3, <2>6, <4>1, <4>2
    <3>2. CASE q # p \/ l # k
      <4>1. secret'[q][l] = secret[q][l]
        BY <2>8, <3>2
      <4> QED
        BY <2>9, <2>12, <3>2, <4>1
    <3> QED
      BY <3>1, <3>2
  <2> QED
    BY <2>11, <2>12 DEF StoredInv, PutBy
<1>4. ASSUME NEW c \in Calls, DeleteSecret(c) PROVE StoredInv'
  <2> DEFINE p == call[c].op.project
  <2> DEFINE k == call[c].op.key
  <2>1. p \in Projects /\ k \in Keys
    BY <1>4, VaultAssumption DEF DeleteSecret, Asks, TypeOK, CallsAsk
  <2>2. secret' = [secret EXCEPT ![p][k] = None] /\ gone' = gone \cup Values(p, k)
    BY <1>4 DEF DeleteSecret
  <2>3. \A v \in Values(p, k) : PutBy(v, p, k)
    BY <2>1 DEF StoredInv, Values
  <2>4. ASSUME NEW q \in Projects, NEW l \in Keys, secret'[q][l] # None
        PROVE  secret'[q][l] = secret[q][l] /\ (q # p \/ l # k)
    BY <2>1, <2>2, <2>4 DEF TypeOK, VaultTypeOK
  <2>5. ASSUME NEW q \in Projects, NEW l \in Keys, secret'[q][l] # None
        PROVE  \E v : v = secret'[q][l].value /\ PutBy(v, q, l)' /\ v \notin gone'
    <3>1. PICK v : v = secret'[q][l].value
      OBVIOUS
    <3>2. v = secret[q][l].value /\ secret[q][l] # None /\ (q # p \/ l # k)
      BY <2>4, <2>5, <3>1
    <3>3. PutBy(v, q, l) /\ v \notin gone
      BY <3>2 DEF StoredInv
    <3>4. v \notin Values(p, k)
      BY <2>3, <3>2, <3>3 DEF PutBy
    <3>5. PutBy(v, q, l)'
      BY <3>3, PutStays
    <3>6. v \notin gone'
      BY <2>2, <3>3, <3>4
    <3> QED
      BY <3>1, <3>5, <3>6
  <2>6. \A v \in gone' : call'[v].pc \notin {"none", "in"}
    BY <1>1, <2>2, <2>3 DEF StoredInv, Onward, PutBy, TypeOK, VaultTypeOK
  <2> QED
    BY <2>5, <2>6 DEF StoredInv, PutBy
<1>5. CASE /\ \A c \in Calls : ~PutSecret(c) /\ ~DeleteSecret(c)
  <2>1. UNCHANGED <<secret, gone>>
    BY <1>5 DEF Next, vars, vaultVars, Die, RefuseSecret, StartJob, ExecuteJob, ReadSecret, ReadFails
  <2> QED
    BY <1>2, <2>1
<1> QED
  BY <1>3, <1>4, <1>5

\* What ReadInv says of job i in the next state.
ReadNext(i) ==
    /\ \A k \in Keys : job'[i].got[k] # None =>
          \E v : /\ v = job'[i].got[k] /\ PutBy(v, JobProject[i], k)
                 /\ v \notin job'[i].stale
    /\ job'[i].pc \in {"resolving", "executing"} =>
          /\ job'[i].left \subseteq Wanted[i]
          /\ \A k \in Keys : job'[i].got[k] # None <=> k \in Wanted[i] \ job'[i].left
    /\ job'[i].pc = "executing" => job'[i].left = {}
    /\ job'[i].stale \subseteq gone'

LEMMA ReadNextStep ==
  ASSUME TypeOK, StoredInv, ReadInv, [Next]_vars, NEW i \in Jobs
  PROVE  ReadNext(i)
<1>1. gone \subseteq gone'
  BY DEF Next, vars, vaultVars, Die, RefuseSecret, PutSecret, Put, DeleteSecret,
         StartJob, ExecuteJob, ReadSecret, ReadFails
<1>2. job[i] \in JobRow
  BY DEF TypeOK, VaultTypeOK
<1>3. CASE job'[i] = job[i]
  BY <1>1, <1>3 DEF ReadInv, ReadNext
<1>4. CASE job'[i].pc = "queued" /\ job'[i].got = NoValues /\ job'[i].stale = {}
  BY <1>4 DEF NoValues, ReadNext
<1>5. CASE StartJob(i)
  <2>1. /\ job'[i].pc = "resolving" /\ job'[i].left = Wanted[i]
        /\ job'[i].got = NoValues /\ job'[i].stale = gone /\ gone' = gone
    BY <1>5 DEF StartJob, TypeOK, VaultTypeOK
  <2> QED
    BY <2>1 DEF NoValues, ReadNext
<1>6. ASSUME NEW k \in Keys, ReadSecret(i, k) PROVE ReadNext(i)
  <2>1. PICK v \in Open(i, k) : job' = [job EXCEPT ![i].left = @ \ {k}, ![i].got[k] = v]
    BY <1>6 DEF ReadSecret
  <2>2. job[i].pc = "resolving" /\ k \in job[i].left /\ gone' = gone
    BY <1>6 DEF ReadSecret
  <2>3. PutBy(v, JobProject[i], k) /\ v \notin gone
    BY <2>1, VaultAssumption DEF Open, StoredInv
  <2>4. v \in Calls /\ v # None
    BY <2>3, AccessAssumption DEF PutBy
  <2>5. /\ job'[i].pc = "resolving" /\ job'[i].left = job[i].left \ {k}
        /\ job'[i].got = [job[i].got EXCEPT ![k] = v] /\ job'[i].stale = job[i].stale
    <3>1. job'[i] = [[job[i] EXCEPT !.left = @ \ {k}] EXCEPT !.got = [@ EXCEPT ![k] = v]]
      BY <2>1 DEF TypeOK, VaultTypeOK
    <3>2. DOMAIN job[i] = {"pc", "left", "got", "stale"}
      BY <1>2 DEF JobRow
    <3> QED
      BY <1>2, <2>2, <3>1, <3>2 DEF JobRow
  <2>6. job'[i].got[k] = v /\ \A l \in Keys \ {k} : job'[i].got[l] = job[i].got[l]
    BY <1>2, <2>5 DEF JobRow
  <2>7. job[i].stale \subseteq gone /\ k \in Wanted[i] /\ job[i].left \subseteq Wanted[i]
    BY <2>2 DEF ReadInv
  <2>8. ASSUME NEW l \in Keys
        PROVE  job'[i].got[l] # None =>
                 PutBy(job'[i].got[l], JobProject[i], l) /\ job'[i].got[l] \notin job'[i].stale
    BY <2>3, <2>5, <2>6, <2>7 DEF ReadInv
  <2>9. ASSUME NEW l \in Keys
        PROVE  job'[i].got[l] # None <=> l \in Wanted[i] \ job'[i].left
    BY <2>2, <2>4, <2>5, <2>6, <2>7 DEF ReadInv
  <2> QED
    BY <2>2, <2>5, <2>7, <2>8, <2>9 DEF ReadNext
<1>7. ASSUME NEW k \in Keys, ReadFails(i, k) PROVE ReadNext(i)
  <2>1. /\ job'[i].pc = "failed" /\ job'[i].got = job[i].got
        /\ job'[i].stale = job[i].stale
    BY <1>2, <1>7 DEF ReadFails, JobRow, TypeOK, VaultTypeOK
  <2> QED
    BY <1>1, <2>1 DEF ReadInv, ReadNext
<1>8. CASE ExecuteJob(i)
  <2>1. /\ job'[i].pc = "executing" /\ job'[i].got = job[i].got
        /\ job'[i].left = job[i].left /\ job'[i].stale = job[i].stale
        /\ job[i].pc = "resolving" /\ job[i].left = {}
    BY <1>2, <1>8 DEF ExecuteJob, JobRow, TypeOK, VaultTypeOK
  <2> QED
    BY <1>1, <2>1 DEF ReadInv, ReadNext
<1>9. CASE Die
  BY <1>3, <1>4, <1>9 DEF Die, Waiting
<1>10. CASE UNCHANGED job
  BY <1>3, <1>10
<1>11. ASSUME NEW j \in Jobs, j # i,
              StartJob(j) \/ ExecuteJob(j) \/ \E k \in Keys : ReadSecret(j, k) \/ ReadFails(j, k)
       PROVE  ReadNext(i)
  BY <1>3, <1>11 DEF StartJob, ExecuteJob, ReadSecret, ReadFails, TypeOK, VaultTypeOK
<1> QED
  BY <1>5, <1>6, <1>7, <1>8, <1>9, <1>10, <1>11
     DEF Next, vars, vaultVars, RefuseSecret, PutSecret, DeleteSecret

LEMMA ReadStep == TypeOK /\ StoredInv /\ ReadInv /\ [Next]_vars => ReadInv'
<1> SUFFICES ASSUME TypeOK, StoredInv, ReadInv, [Next]_vars PROVE ReadInv'
  OBVIOUS
<1>1. ASSUME NEW i \in Jobs PROVE ReadNext(i)
  BY ReadNextStep
<1>2. ASSUME NEW i \in Jobs, NEW k \in Keys, job'[i].got[k] # None
      PROVE  PutBy(job[i].got[k], JobProject[i], k)' /\ job'[i].got[k] \notin job'[i].stale
  <2>1. PICK v : /\ v = job'[i].got[k] /\ PutBy(v, JobProject[i], k)
                 /\ v \notin job'[i].stale
    BY <1>1, <1>2 DEF ReadNext
  <2>2. PutBy(v, JobProject[i], k)'
    BY <2>1, PutStays
  <2> QED
    BY <2>1, <2>2 DEF PutBy
<1>3. ASSUME NEW i \in Jobs
      PROVE  /\ job'[i].pc \in {"resolving", "executing"} =>
                   /\ job'[i].left \subseteq Wanted[i]
                   /\ \A k \in Keys : job'[i].got[k] # None <=> k \in Wanted[i] \ job'[i].left
             /\ job'[i].pc = "executing" => job'[i].left = {}
             /\ job'[i].stale \subseteq gone'
  BY <1>1 DEF ReadNext
<1> QED
  BY <1>2, <1>3 DEF ReadInv

LEMMA SecretsAlways == Spec => [](StoredInv /\ ReadInv)
<1>1. Init => StoredInv
  BY DEF Init, StoredInv
<1>2. Init => ReadInv
  BY DEF Init, Waiting, NoValues, ReadInv
<1> QED
  BY <1>1, <1>2, StoredStep, ReadStep, TypesAlways, PTL DEF Spec

\* A collector gets all the secrets its job asks for, and only values put for
\* its project and key by somebody who may write to the project.
THEOREM JobsGetTheirOwn == Spec => []JobGetsItsOwn
<1>1. ASSUME ReadInv, NEW j \in Jobs, job[j].pc = "executing"
      PROVE  {k \in Keys : job[j].got[k] # None} = Wanted[j]
  BY <1>1, VaultAssumption DEF ReadInv
<1>2. ASSUME ReadInv, NEW j \in Jobs, job[j].pc = "executing", NEW k \in Wanted[j]
      PROVE  PutBy(job[j].got[k], JobProject[j], k)
  BY <1>1, <1>2 DEF ReadInv
<1>3. ReadInv => JobGetsItsOwn
  BY <1>1, <1>2 DEF PutBy, JobGetsItsOwn
<1> QED
  BY <1>3, SecretsAlways, PTL

\* A value that was rotated or deleted before the dispatch is never read.
THEOREM NeverStale == Spec => []NothingStale
<1>1. TypeOK /\ ReadInv => NothingStale
  BY AccessAssumption DEF ReadInv, NothingStale, TypeOK, VaultTypeOK, JobRow
<1> QED
  BY <1>1, SecretsAlways, TypesAlways, PTL
=============================================================================
