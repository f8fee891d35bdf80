---------------------------- MODULE SessionsProofs ----------------------------
(***************************************************************************)
(* For any number of accounts, tokens, concurrent requests and password    *)
(* changes: which sessions may outlive a password change, that ended       *)
(* sessions stay ended, and whom the audit log names.                      *)
(***************************************************************************)
EXTENDS Sessions, TLAPS

(* The initial state satisfies the inductive invariant. *)
LEMMA InitSessions == Init => IInv
<1> SUFFICES ASSUME Init PROVE IInv
    OBVIOUS
<1> USE SessionsAssumption DEF Init, Idle
<1>1. TypeOK
  BY DEF TypeOK, Request, Stages, UserOrNull
<1>2. Holding
  BY DEF Holding, Held
<1>3. Minted
  BY DEF Minted
<1>4. Closed
  BY DEF Closed, Settled, At
<1>5. AuditNamesAuthor
  BY DEF AuditNamesAuthor
<1>6. QED
  BY <1>1, <1>2, <1>3, <1>4, <1>5 DEF IInv

(* Logins, logouts and expiry keep it. *)
LEMMA LoginStep ==
  ASSUME IInv,
         \/ \E r \in Requests, u \in Users : Authenticate(r, u)
         \/ \E r \in Requests, t \in Tokens : Grant(r, t)
         \/ \E t \in Tokens : Logout(t) \/ Expire(t)
  PROVE IInv'
<1> USE SessionsAssumption
    DEF IInv, TypeOK, Request, Stages, UserOrNull, Idle, At, AuditNamesAuthor
<1>1. ASSUME NEW r \in Requests, NEW u \in Users, Authenticate(r, u) PROVE IInv'
  <2>1. /\ request' = [request EXCEPT ![r] =
               [stage |-> "grant", user |-> u, token |-> Null,
                word |-> password[u], mark |-> FALSE]]
        /\ UNCHANGED <<password, sessions, owner, expired, entry, hist>>
    BY <1>1 DEF Authenticate
  <2>2. TypeOK' /\ AuditNamesAuthor'
    BY <2>1 DEF hist
  <2>3. Holding'
    BY <2>1 DEF Holding, Held, hist
  <2>4. Minted'
    BY <2>1 DEF Minted, hist
  <2>5. ASSUME NEW v \in Users, NEW n \in Nat, n <= password[v], Settled(v, n)
        PROVE Settled(v, n)'
    BY <2>1, <2>5 DEF Settled, hist
  <2>6. Closed'
    <3>1. \A v \in Users : changed'[v] <= password'[v] /\ Settled(v, changed[v])'
      BY <2>1, <2>5 DEF Closed, hist
    <3>2. ASSUME NEW p \in Requests, request'[p].stage = "audit",
                 request'[p].mark, request'[p].user # Null
          PROVE Settled(request[p].user, request[p].word)'
      <4>1. request'[p] = request[p] /\ request[p] \in Request
        BY <2>1, <3>2
      <4>2. Settled(request[p].user, request[p].word)
            /\ request[p].word <= password[request[p].user]
        BY <3>2, <4>1 DEF Closed, Holding, Held
      <4>3. QED
        BY <2>5, <3>2, <4>1, <4>2
    <3>3. QED
      BY <2>1, <3>1, <3>2 DEF Closed, hist
  <2>7. QED
    BY <2>2, <2>3, <2>4, <2>6
<1>2. ASSUME NEW r \in Requests, NEW t \in Tokens, Grant(r, t) PROVE IInv'
  <2>1. /\ request[r].stage = "grant" /\ owner[t] = Null
        /\ sessions' = sessions \cup {t}
        /\ owner' = [owner EXCEPT ![t] = request[r].user]
        /\ proof' = [proof EXCEPT ![t] = request[r].word]
        /\ late' = IF request[r].mark THEN late \cup {t} ELSE late
        /\ request' = [request EXCEPT ![r] = Idle]
        /\ UNCHANGED <<password, expired, entry, changed, kept, ended>>
    BY <1>2 DEF Grant
  <2>2. request[r].user \in Users /\ request[r].word <= password[request[r].user]
    BY <2>1 DEF Holding, Held
  <2>3. TypeOK' /\ AuditNamesAuthor'
    BY <2>1, <2>2
  <2>4. Holding'
    BY <2>1, <2>2 DEF Holding, Held
  <2>5. Minted'
    BY <2>1, <2>2 DEF Minted
  <2>6. ASSUME NEW u \in Users, NEW n \in Nat, Settled(u, n) PROVE Settled(u, n)'
    BY <2>1, <2>2, <2>6 DEF Settled
  <2>7. Closed'
    BY <2>1, <2>6 DEF Closed
  <2>8. QED
    BY <2>3, <2>4, <2>5, <2>7
<1>3. ASSUME NEW t \in Tokens, Logout(t) PROVE IInv'
  <2>1. /\ sessions' = sessions \ {t} /\ ended' = ended \cup {t}
        /\ UNCHANGED <<password, owner, expired, request, entry, proof, changed, kept, late>>
    BY <1>3 DEF Logout
  <2>2. TypeOK' /\ AuditNamesAuthor' /\ Holding' /\ Minted'
    BY <2>1 DEF Holding, Held, Minted
  <2>3. Closed'
    BY <2>1 DEF Closed, Settled
  <2>4. QED
    BY <2>2, <2>3
<1>4. ASSUME NEW t \in Tokens, Expire(t) PROVE IInv'
  <2>1. /\ expired' \subseteq Tokens
        /\ UNCHANGED <<password, sessions, owner, request, entry, proof, changed,
                       kept, late, ended>>
    BY <1>4 DEF Expire, hist
  <2>2. TypeOK' /\ AuditNamesAuthor' /\ Holding' /\ Minted'
    BY <2>1 DEF Holding, Held, Minted
  <2>3. Closed'
    BY <2>1 DEF Closed, Settled
  <2>4. QED
    BY <2>2, <2>3
<1>5. QED
  BY <1>1, <1>2, <1>3, <1>4

(* So does any step that only moves one request on, to a state it may be in. *)
LEMMA MoveRequest ==
  ASSUME IInv, NEW r \in Requests, NEW q \in Request,
         q.stage # "grant", Held(q),
         q.stage = "audit" => ~q.mark,
         request' = [request EXCEPT ![r] = q],
         UNCHANGED <<password, sessions, owner, expired, entry, hist>>
  PROVE IInv'
<1> USE DEF IInv, TypeOK, hist, At
<1>1. TypeOK' /\ AuditNamesAuthor' /\ Minted'
  BY DEF AuditNamesAuthor, Minted
<1>2. Holding'
  BY DEF Holding, Held
<1>3. Closed'
  BY DEF Closed, Settled
<1>4. QED
  BY <1>1, <1>2, <1>3

(* Authorisation, refusals, handlers that end and abandoned requests do. *)
LEMMA HandlerStep ==
  ASSUME IInv, NEW r \in Requests,
         \/ \E t \in Tokens, ok \in BOOLEAN : ReadSession(r, t, ok)
         \/ Touch(r) \/ TouchFails(r) \/ Handle(r)
         \/ VerifyOld(r) \/ PurgeFails(r) \/ Abandon(r)
  PROVE IInv'
<1> USE SessionsAssumption DEF Request, Stages, UserOrNull, At
<1>1. IInv /\ request \in [Requests -> Request] /\ Held(request[r])
      /\ owner \in [Tokens -> UserOrNull] /\ password \in [Users -> Nat]
  BY DEF IInv, TypeOK, Holding
<1>2. ASSUME NEW t \in Tokens, NEW ok \in BOOLEAN, ReadSession(r, t, ok) PROVE IInv'
  <2> DEFINE q == [stage |-> IF ok /\ Live(t) THEN "touch" ELSE "audit",
                   user |-> IF ok /\ Live(t) THEN owner[t] ELSE Null,
                   token |-> t, word |-> 0, mark |-> FALSE]
  <2>1. q \in Request
    BY <1>1
  <2>2. q.stage # "grant" /\ ~q.mark /\ Held(q)
    BY <1>1, <1>2 DEF ReadSession, Held
  <2>3. QED
    BY <1>1, <1>2, <2>1, <2>2, MoveRequest DEF ReadSession
<1>3. CASE Touch(r) \/ Handle(r) \/ VerifyOld(r) \/ PurgeFails(r)
  <2>1. PICK s \in {"handle", "audit", "store"} :
           request' = [request EXCEPT ![r].stage = s]
    BY <1>3 DEF Touch, Handle, VerifyOld, PurgeFails, Goes, After
  <2> DEFINE q == [request[r] EXCEPT !.stage = s]
  <2>2. /\ request' = [request EXCEPT ![r] = q]
        /\ q \in Request
    BY <1>1, <2>1
  <2>3. /\ request[r].stage \in {"touch", "handle", "store", "purge"}
        /\ UNCHANGED <<password, sessions, owner, expired, entry, hist>>
    BY <1>3 DEF Touch, Handle, VerifyOld, PurgeFails
  <2>4. q.stage # "grant" /\ ~q.mark /\ Held(q)
    BY <1>1, <2>3 DEF Held
  <2>5. QED
    BY <1>1, <2>2, <2>3, <2>4, MoveRequest
<1>4. CASE TouchFails(r)
  <2> DEFINE q == [request[r] EXCEPT !.stage = "audit", !.user = Null]
  <2>1. /\ request' = [request EXCEPT ![r] = q]
        /\ q \in Request
        /\ UNCHANGED <<password, sessions, owner, expired, entry, hist>>
    BY <1>1, <1>4 DEF TouchFails
  <2>2. q.stage # "grant" /\ ~q.mark /\ Held(q)
    BY <1>1, <1>4 DEF TouchFails, Held
  <2>3. QED
    BY <1>1, <2>1, <2>2, MoveRequest
<1>5. CASE Abandon(r)
  <2>1. Idle \in Request /\ Held(Idle) /\ Idle.stage = "idle"
    BY DEF Idle, Held
  <2>2. QED
    BY <1>1, <1>5, <2>1, MoveRequest DEF Abandon
<1>6. QED
  BY <1>2, <1>3, <1>4, <1>5

(* A new hash is newer than every session, login and answered change. *)
LEMMA StoreStep == ASSUME IInv, NEW r \in Requests, StoreHash(r) PROVE IInv'
<1> USE SessionsAssumption DEF IInv, TypeOK, UserOrNull, At
<1> DEFINE u == request[r].user
           q == [request[r] EXCEPT !.stage = "purge", !.word = password[u] + 1]
<1>1. /\ request[r] \in Request /\ Held(request[r])
      /\ request[r].stage = "store" /\ u \in Users /\ password[u] \in Nat
  BY DEF StoreHash, Holding, Held, Request
<1>2. /\ password' = [password EXCEPT ![u] = @ + 1]
      /\ request' = [request EXCEPT ![r] = q]
      /\ UNCHANGED <<sessions, owner, expired, entry, hist>>
  BY <1>1 DEF StoreHash, After
<1>3. q \in Request
  <2>1. ASSUME NEW q0 \in Request, NEW w \in Nat
        PROVE [q0 EXCEPT !.stage = "purge", !.word = w] \in Request
    BY DEF Request, Stages
  <2>2. request[r] \in Request /\ password[u] + 1 \in Nat
    BY <1>1
  <2>3. QED
    BY <2>1, <2>2
<1>4. \A v \in Users : password[v] <= password'[v] /\ password'[v] \in Nat
  BY <1>1, <1>2
<1>5. TypeOK' /\ AuditNamesAuthor'
  BY <1>1, <1>2, <1>3 DEF AuditNamesAuthor, hist
<1>6. Holding'
  <2>1. Held(request[r])'
    <3>1. /\ request'[r].stage = "purge" /\ request'[r].user = u
          /\ request'[r].token = request[r].token
          /\ request'[r].mark = request[r].mark
          /\ request'[r].word = password[u] + 1
      BY <1>1, <1>2 DEF Request
    <3>2. QED
      BY <1>1, <1>2, <3>1 DEF Held
  <2>2. ASSUME NEW p \in Requests, p # r PROVE Held(request[p])'
    <3>1. request'[p] = request[p] /\ Held(request[p]) /\ request[p] \in Request
      BY <1>2, <2>2 DEF Holding
    <3>2. request[p].user # Null => /\ request[p].word <= password'[request[p].user]
                                    /\ request[p].user \in Users
      <4> SUFFICES ASSUME request[p].user # Null
                   PROVE  /\ request[p].word <= password'[request[p].user]
                          /\ request[p].user \in Users
          OBVIOUS
      <4>1. request[p].user \in Users /\ request[p].word \in Nat
            /\ request[p].word <= password[request[p].user]
        BY <3>1 DEF Held, Request
      <4>2. QED
        BY <1>4, <4>1
    <3>3. QED
      BY <1>2, <3>1, <3>2 DEF Held
  <2>3. QED
    BY <1>2, <2>1, <2>2 DEF Holding
<1>7. Minted'
  BY <1>2, <1>4 DEF Minted, hist
<1>8. Closed'
  <2>1. ASSUME NEW v \in Users, NEW n \in Nat, Settled(v, n) PROVE Settled(v, n)'
    BY <1>1, <1>2, <2>1 DEF Settled, hist, Request
  <2>2. \A v \in Users : changed'[v] <= password'[v] /\ Settled(v, changed[v])'
    BY <1>2, <1>4, <2>1 DEF Closed, hist
  <2>3. ASSUME NEW p \in Requests, request'[p].stage = "audit",
               request'[p].mark, request'[p].user # Null
        PROVE Settled(request[p].user, request[p].word)'
    <3>1. p # r /\ request'[p] = request[p] /\ request[p] \in Request
      BY <1>2, <2>3
    <3>2. Settled(request[p].user, request[p].word)
      BY <2>3, <3>1 DEF Closed
    <3>3. QED
      BY <2>1, <2>3, <3>1, <3>2 DEF Request
  <2>4. QED
    BY <1>2, <2>2, <2>3 DEF Closed, hist
<1>9. QED
  BY <1>5, <1>6, <1>7, <1>8

(* A purge leaves nothing older than the password its change has stored. *)
LEMMA PurgeStep == ASSUME IInv, NEW r \in Requests, Purge(r) PROVE IInv'
<1> USE SessionsAssumption DEF IInv, TypeOK, UserOrNull, At
<1> DEFINE u == request[r].user
<1>1. /\ request[r] \in Request /\ Held(request[r])
      /\ request[r].stage = "purge" /\ u \in Users
      /\ request[r].token \in Tokens
  BY DEF Purge, Holding, Held, Request
<1>2. /\ sessions' = sessions \ Purged(r)
      /\ ended' = ended \cup Purged(r)
      /\ kept' = kept \cup {request[r].token}
      /\ UNCHANGED <<password, owner, expired, entry, proof, changed, late>>
  BY DEF Purge, Purged
<1>3. /\ request' \in [Requests -> Request]
      /\ \A q \in Requests :
            /\ request'[q].user = request[q].user /\ request'[q].token = request[q].token
            /\ request'[q].word = request[q].word
            /\ request'[q].stage = IF q = r THEN "audit" ELSE request[q].stage
            /\ request[q].stage = "grant" /\ request[q].user = u => request'[q].mark = TRUE
            /\ \/ request'[q].mark = request[q].mark
               \/ request'[q].mark = TRUE /\ request'[q].stage \in {"grant", "audit"}
            /\ q # r /\ request[q].stage # "grant" => request'[q].mark = request[q].mark
  <2>1. request' = [q \in Requests |->
           IF q = r THEN [request[r] EXCEPT !.stage = "audit", !.mark = TRUE]
           ELSE IF request[q].stage = "grant" /\ request[q].user = u
                THEN [request[q] EXCEPT !.mark = TRUE]
           ELSE request[q]]
    BY DEF Purge, After
  <2>2. ASSUME NEW q0 \in Request
        PROVE /\ [q0 EXCEPT !.stage = "audit", !.mark = TRUE] \in Request
              /\ [q0 EXCEPT !.mark = TRUE] \in Request
    BY DEF Request, Stages
  <2>3. request' \in [Requests -> Request]
    BY <2>1, <2>2
  <2>4. \A q \in Requests : request[q] \in Request
    OBVIOUS
  <2>5. QED
    BY <2>1, <2>3, <2>4 DEF Request
<1>4. TypeOK' /\ AuditNamesAuthor'
  BY <1>2, <1>3 DEF AuditNamesAuthor
<1>5. Holding'
  <2> SUFFICES ASSUME NEW q \in Requests PROVE Held(request[q])'
      BY DEF Holding
  <2>1. Held(request[q])
    BY DEF Holding
  <2>2. QED
    BY <1>1, <1>2, <1>3, <2>1 DEF Held
<1>6. Minted'
  BY <1>2 DEF Minted
<1>7. ASSUME NEW v \in Users, NEW n \in Nat, Settled(v, n) PROVE Settled(v, n)'
  BY <1>1, <1>2, <1>3, <1>7 DEF Settled
<1>8. ASSUME NEW n \in Nat PROVE Settled(u, n)'
  <2>1. \A t \in sessions' : owner'[t] = u' => t = request[r].token
    BY <1>1, <1>2, <1>3 DEF Purged
  <2>2. \A q \in Requests : request'[q].stage = "grant" /\ request'[q].user = u'
                                => request'[q].mark
    BY <1>1, <1>3
  <2>3. QED
    BY <1>2, <2>1, <2>2 DEF Settled
<1>9. Closed'
  <2>1. \A v \in Users : changed'[v] <= password'[v] /\ Settled(v, changed[v])'
    BY <1>2, <1>7 DEF Closed
  <2>2. ASSUME NEW p \in Requests, request'[p].stage = "audit",
               request'[p].mark, request'[p].user # Null
        PROVE Settled(request[p].user, request[p].word)'
    <3>1. CASE p = r
      BY <1>1, <1>3, <1>8, <3>1 DEF Request
    <3>2. CASE p # r
      <4>1. request[p].stage = "audit" /\ request[p].mark /\ request[p].user \in Users
            /\ request[p].word \in Nat
        BY <1>3, <2>2, <3>2 DEF Request
      <4>2. Settled(request[p].user, request[p].word)
        BY <4>1 DEF Closed
      <4>3. QED
        BY <1>3, <1>7, <4>1, <4>2
    <3>3. QED
      BY <3>1, <3>2
  <2>3. QED
    BY <1>2, <2>1, <2>2 DEF Closed
<1>10. QED
  BY <1>4, <1>5, <1>6, <1>9

(* The row of audit_logs names the author or has lost it. *)
LEMMA AuditStep ==
  ASSUME IInv, NEW r \in Requests, NEW failed \in BOOLEAN, Audit(r, failed)
  PROVE IInv'
<1> USE SessionsAssumption DEF IInv, TypeOK, UserOrNull, At
<1> DEFINE q == request[r]
<1>1. /\ q \in Request /\ Held(q) /\ q.stage = "audit"
      /\ q.token \in Tokens /\ owner[q.token] # Null
      /\ q.user \in {Null, owner[q.token]} /\ q.word \in Nat
  BY DEF Audit, Holding, Held, Request
<1>2. /\ entry' = [by |-> q.user, actor |-> IF failed THEN Null ELSE Actor(q.token),
                   lost |-> failed \/ q.token \in expired \cup ended]
      /\ changed' = IF q.mark /\ q.user # Null
                    THEN [changed EXCEPT ![q.user] = Newest(@, q.word)]
                    ELSE changed
      /\ request' = [request EXCEPT ![r] = Idle]
      /\ UNCHANGED <<password, sessions, owner, expired, proof, kept, late, ended>>
  BY DEF Audit
<1>3. Idle \in Request /\ Idle.stage = "idle" /\ Idle.user = Null
  BY DEF Idle, Request, Stages
<1>4. Actor(q.token) = IF Live(q.token) THEN owner[q.token] ELSE Null
  BY DEF Actor
<1>5. AuditNamesAuthor'
  <2>1. ~Live(q.token) => q.token \in expired \cup ended
    BY <1>1 DEF Live, Minted
  <2>2. entry'.by = q.user /\ entry'.actor = (IF failed THEN Null ELSE Actor(q.token))
        /\ entry'.lost = (failed \/ q.token \in expired \cup ended)
    BY <1>2
  <2>3. QED
    BY <1>1, <1>4, <2>1, <2>2 DEF AuditNamesAuthor
<1>6. /\ changed' \in [Users -> Nat]
      /\ \A v \in Users : \/ changed'[v] = changed[v]
                          \/ v = q.user /\ q.mark /\ changed'[v] = q.word
  BY <1>1, <1>2 DEF Newest
<1>7. TypeOK'
  <2>1. entry' \in [by : UserOrNull, actor : UserOrNull, lost : BOOLEAN]
    BY <1>1, <1>2, <1>4
  <2>2. QED
    BY <1>2, <1>3, <1>6, <2>1
<1>8. Holding' /\ Minted'
  BY <1>2, <1>3 DEF Holding, Held, Minted
<1>9. ASSUME NEW v \in Users, NEW n \in Nat, Settled(v, n) PROVE Settled(v, n)'
  BY <1>2, <1>3, <1>9 DEF Settled
<1>10. Closed'
  <2>1. \A v \in Users : changed'[v] <= password'[v] /\ Settled(v, changed'[v])
    BY <1>1, <1>2, <1>6 DEF Closed, Held
  <2>2. \A v \in Users : Settled(v, changed[v])'
    BY <1>2, <1>3, <1>6, <2>1 DEF Settled
  <2>3. ASSUME NEW p \in Requests, request'[p].stage = "audit",
               request'[p].mark, request'[p].user # Null
        PROVE Settled(request[p].user, request[p].word)'
    <3>1. request'[p] = request[p] /\ request[p] \in Request
      BY <1>2, <1>3, <2>3
    <3>2. Settled(request[p].user, request[p].word)
      BY <2>3, <3>1 DEF Closed
    <3>3. QED
      BY <1>9, <2>3, <3>1, <3>2 DEF Request
  <2>4. QED
    BY <1>2, <2>1, <2>2, <2>3 DEF Closed
<1>11. QED
  BY <1>5, <1>7, <1>8, <1>10

(* Every step keeps the invariant. *)
LEMMA SessionsStep == IInv /\ [Next]_vars => IInv'
<1> SUFFICES ASSUME IInv, [Next]_vars PROVE IInv'
    OBVIOUS
<1>1. CASE UNCHANGED vars
  BY <1>1 DEF vars, hist, IInv, TypeOK, Holding, Held, Minted, Closed, Settled, At,
              AuditNamesAuthor
<1>2. CASE \/ \E r \in Requests, u \in Users : Authenticate(r, u)
           \/ \E r \in Requests, t \in Tokens : Grant(r, t)
           \/ \E t \in Tokens : Logout(t) \/ Expire(t)
  BY <1>2, LoginStep
<1>3. ASSUME NEW r \in Requests,
             \/ \E t \in Tokens, ok \in BOOLEAN : ReadSession(r, t, ok)
             \/ Touch(r) \/ TouchFails(r) \/ Handle(r)
             \/ VerifyOld(r) \/ PurgeFails(r) \/ Abandon(r)
      PROVE IInv'
  BY <1>3, HandlerStep
<1>4. ASSUME NEW r \in Requests, StoreHash(r) \/ Purge(r) PROVE IInv'
  BY <1>4, StoreStep, PurgeStep
<1>5. ASSUME NEW r \in Requests, NEW failed \in BOOLEAN, Audit(r, failed) PROVE IInv'
  BY <1>5, AuditStep
<1>6. QED
  BY <1>1, <1>2, <1>3, <1>4, <1>5 DEF Next, Change

(* The inductive invariant of logins, changes and audit: types, what requests *)
(* in flight hold, and which changes are settled.                             *)
THEOREM SessionsInvariant == Spec => []IInv
<1>1. QED
  BY InitSessions, SessionsStep, PTL DEF Spec

(* After a password change is answered with its purge done, a session of an *)
(* older password is the caller's own or comes from a login the purge found *)
(* between its password check and its INSERT.                               *)
THEOREM OnlyLateLoginsSurvive == Spec => []OnlyLateSurvive
<1>1. IInv => OnlyLateSurvive
  <2> SUFFICES ASSUME IInv, NEW t \in sessions, proof[t] < changed[owner[t]]
               PROVE  t \in kept \cup late
      BY DEF OnlyLateSurvive
  <2>1. owner[t] \in Users
    BY DEF IInv, TypeOK, Minted, UserOrNull
  <2>2. Settled(owner[t], changed[owner[t]])
    BY <2>1 DEF IInv, Closed
  <2>3. QED
    BY <2>2 DEF Settled
<1>2. QED
  BY <1>1, SessionsInvariant, PTL

(* The audit log never names anybody but the author of the request, and *)
(* leaves the author out only when the session was lost meanwhile.       *)
THEOREM AuditNamesTheAuthor == Spec => []AuditNamesAuthor
<1>1. IInv => AuditNamesAuthor
  BY DEF IInv
<1>2. QED
  BY <1>1, SessionsInvariant, PTL

(* A session that a logout or a purge has ended is never back. *)
THEOREM SessionsEndForGood == Spec => EndsForGood
<1> DEFINE Ends == \A t \in Tokens : owner[t] # Null /\ t \notin sessions => t \notin sessions'
<1>1. [Next]_vars => [Ends]_vars
  <2> SUFFICES ASSUME Next PROVE Ends
      OBVIOUS
  <2>1. ASSUME NEW r \in Requests, NEW t \in Tokens, Grant(r, t) PROVE Ends
    BY <2>1 DEF Grant
  <2>2. ASSUME NEW t \in Tokens, Logout(t) \/ Expire(t) PROVE Ends
    BY <2>2 DEF Logout, Expire
  <2>3. ASSUME NEW r \in Requests,
               \/ \E u \in Users : Authenticate(r, u)
               \/ \E t \in Tokens, ok \in BOOLEAN : ReadSession(r, t, ok)
               \/ Touch(r) \/ TouchFails(r) \/ Handle(r) \/ Change(r)
               \/ \E failed \in BOOLEAN : Audit(r, failed)
               \/ Abandon(r)
        PROVE Ends
    <3>1. sessions' \subseteq sessions
      BY <2>3 DEF Authenticate, ReadSession, Touch, TouchFails, Handle, Change,
                  VerifyOld, StoreHash, Purge, PurgeFails, Audit, Abandon
    <3>2. QED
      BY <3>1
  <2>4. QED
    BY <2>1, <2>2, <2>3 DEF Next
<1>2. QED
  BY <1>1, PTL DEF Spec, EndsForGood
=============================================================================
