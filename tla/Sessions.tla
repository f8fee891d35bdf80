------------------------------- MODULE Sessions -------------------------------
(***************************************************************************)
(* Sessions of panel accounts: login, logout, the CurrentUser extractor,   *)
(* change_password and the audit middleware, as requests handled at the    *)
(* same time over two tables, panel_users and sessions.  Every await is a  *)
(* step.  A password is the number of the write that stored its hash, so   *)
(* that an older password is a smaller number.  Nothing in the program     *)
(* deletes or disables an account, or deletes an expired session:          *)
(* SessionRepo::purge_expired has no caller.                               *)
(***************************************************************************)
EXTENDS Integers, FiniteSets

CONSTANTS
    Users,      \* accounts
    Tokens,     \* session tokens that logins may generate, each once
    Requests,   \* requests in flight at the same time
    Null,       \* no user, NULL actor
    MaxChanges  \* bound: password writes per account

ASSUME SessionsAssumption ==
    /\ Null \notin Users \cup Tokens
    /\ MaxChanges \in Nat

VARIABLES
    password,   \* per account: panel_users.pw_hash
    sessions,   \* tokens with a row in the table sessions
    owner,      \* per token: user_id of its row, Null before the login
    expired,    \* tokens whose expires_at has passed
    request,    \* per request: where it is and what it holds
    entry,      \* the last row of audit_logs (by, lost: history)
    (* History, read by no action: *)
    proof,      \* per token: the password its login verified
    changed,    \* per account: newest password whose change was answered, purge and all
    kept,       \* tokens that a purge spared for being the caller's own
    late,       \* tokens of logins that a purge found between check and INSERT
    ended       \* tokens that a logout, or a change from another token, deleted

hist == <<proof, changed, kept, late, ended>>
vars == <<password, sessions, owner, expired, request, entry, hist>>

UserOrNull == Users \cup {Null}

\* "grant": authenticated, row not inserted; "touch": the session row was read;
\* "handle": authorised; "store": old password verified; "audit": answered.
Stages == {"idle", "grant", "touch", "handle", "store", "purge", "audit"}

\* word: the password a login verified or a change wrote. mark: a purge hit
\* this login, or this change's own purge succeeded.
Request == [stage : Stages, user : UserOrNull, token : Tokens \cup {Null},
            word : Nat, mark : BOOLEAN]

Idle == [stage |-> "idle", user |-> Null, token |-> Null, word |-> 0, mark |-> FALSE]

Init ==
    /\ password = [u \in Users |-> 0]
    /\ sessions = {} /\ expired = {}
    /\ owner = [t \in Tokens |-> Null]
    /\ request = [r \in Requests |-> Idle]
    /\ entry = [by |-> Null, actor |-> Null, lost |-> FALSE]
    /\ proof = [t \in Tokens |-> 0]
    /\ changed = [u \in Users |-> 0]
    /\ kept = {} /\ late = {} /\ ended = {}

Live(t) == t \in sessions \ expired
At(r, s) == request[r].stage = s
Goes(r, s) == request' = [request EXCEPT ![r].stage = s]
-----------------------------------------------------------------------------
(* Login and logout. *)

\* authenticate: the hash is read once, then verified.
Authenticate(r, u) ==
    /\ At(r, "idle")
    /\ request' = [request EXCEPT ![r] =
           [stage |-> "grant", user |-> u, token |-> Null,
            word |-> password[u], mark |-> FALSE]]
    /\ UNCHANGED <<password, sessions, owner, expired, entry, hist>>

\* The new session's row; the cookie goes out with the answer. (A failing INSERT
\* ends the login: Abandon.)
Grant(r, t) ==
    /\ At(r, "grant")
    /\ owner[t] = Null
    /\ sessions' = sessions \cup {t}
    /\ owner' = [owner EXCEPT ![t] = request[r].user]
    /\ proof' = [proof EXCEPT ![t] = request[r].word]
    /\ late' = IF request[r].mark THEN late \cup {t} ELSE late
    /\ request' = [request EXCEPT ![r] = Idle]
    /\ UNCHANGED <<password, expired, entry, changed, kept, ended>>

\* logout asks for no valid session: any cookie deletes its row.
Logout(t) ==
    /\ t \in sessions
    /\ sessions' = sessions \ {t}
    /\ ended' = ended \cup {t}
    /\ UNCHANGED <<password, owner, expired, request, entry, proof, changed, kept, late>>

Expire(t) ==
    /\ t \in sessions \ expired
    /\ expired' = expired \cup {t}
    /\ UNCHANGED <<password, sessions, owner, request, entry, hist>>
-----------------------------------------------------------------------------
(* The extractor CurrentUser, in front of every other handler that writes. *)

\* touch reads the row of the cookie's token. Without a valid one, or when the
\* query fails, the request is answered 401 or 500, and audited all the same.
ReadSession(r, t, ok) ==
    /\ At(r, "idle")
    /\ owner[t] # Null
    /\ request' = [request EXCEPT ![r] =
           [stage |-> IF ok /\ Live(t) THEN "touch" ELSE "audit",
            user |-> IF ok /\ Live(t) THEN owner[t] ELSE Null,
            token |-> t, word |-> 0, mark |-> FALSE]]
    /\ UNCHANGED <<password, sessions, owner, expired, entry, hist>>

\* A faulty variant, used by no action: touch writes the row it has read back.
TouchUpserts(r) ==
    /\ At(r, "touch")
    /\ sessions' = sessions \cup {request[r].token}
    /\ Goes(r, "handle")
    /\ UNCHANGED <<password, owner, expired, entry, hist>>

\* touch's UPDATE of last_used_at matches no row if the session is gone by now;
\* the request is authorised by what the SELECT returned.
Touch(r) ==
    /\ At(r, "touch")
    /\ Goes(r, "handle")
    /\ UNCHANGED <<password, sessions, owner, expired, entry, hist>>

\* touch's UPDATE or the read of the account fails.
TouchFails(r) ==
    /\ At(r, "touch")
    /\ request' = [request EXCEPT ![r].stage = "audit", ![r].user = Null]
    /\ UNCHANGED <<password, sessions, owner, expired, entry, hist>>

\* Any handler but change_password, and change_password when it refuses the old
\* or the new password, or fails before it has stored a hash.
Handle(r) ==
    /\ At(r, "handle") \/ At(r, "store")
    /\ Goes(r, "audit")
    /\ UNCHANGED <<password, sessions, owner, expired, entry, hist>>
-----------------------------------------------------------------------------
(* change_password. *)

\* A faulty variant, used by no action: sessions are purged before the new
\* hash is stored.
AfterPurgeFirst(stage) == IF stage = "handle" THEN "purge"
                          ELSE IF stage = "purge" THEN "store" ELSE "audit"

\* The steps of an accepted change, in order.
After(stage) == IF stage = "handle" THEN "store"
                ELSE IF stage = "store" THEN "purge" ELSE "audit"

\* The old password given is the one stored now.
VerifyOld(r) ==
    /\ At(r, "handle")
    /\ Goes(r, After("handle"))
    /\ UNCHANGED <<password, sessions, owner, expired, entry, hist>>

\* The UPDATE is unconditional: another change may have come in between.
StoreHash(r) ==
    /\ At(r, "store")
    /\ LET u == request[r].user IN
       /\ password[u] < MaxChanges
       /\ password' = [password EXCEPT ![u] = @ + 1]
       /\ request' = [request EXCEPT ![r].stage = After("store"),
                                     ![r].word = password[u] + 1]
    /\ UNCHANGED <<sessions, owner, expired, entry, hist>>

\* Faulty variants, used by no action: nobody is spared; only rows that are
\* expired anyway are deleted.
PurgedAll(r) == {t \in sessions : owner[t] = request[r].user}
PurgedExpired(r) == {t \in sessions \cap expired :
                        owner[t] = request[r].user /\ t # request[r].token}

\* The rows purge_for_user_except deletes.
Purged(r) == {t \in sessions : owner[t] = request[r].user /\ t # request[r].token}

Purge(r) ==
    /\ At(r, "purge")
    /\ sessions' = sessions \ Purged(r)
    /\ ended' = ended \cup (Purged(r) \ {request[r].token})
    /\ kept' = kept \cup {request[r].token}
    /\ request' = [q \in Requests |->
           IF q = r THEN [request[r] EXCEPT !.stage = After("purge"), !.mark = TRUE]
           ELSE IF At(q, "grant") /\ request[q].user = request[r].user
                THEN [request[q] EXCEPT !.mark = TRUE]
           ELSE request[q]]
    /\ UNCHANGED <<password, owner, expired, entry, proof, changed, late>>

\* The error of the purge is dropped: the change is answered "ok".
PurgeFails(r) ==
    /\ At(r, "purge")
    /\ Goes(r, After("purge"))
    /\ UNCHANGED <<password, sessions, owner, expired, entry, hist>>
-----------------------------------------------------------------------------
(* The audit middleware, after the handler. *)

Newest(m, n) == IF m > n THEN m ELSE n

\* resolve_actor looks the session up a second time.
Actor(t) == IF Live(t) THEN owner[t] ELSE Null

\* One row for the answered request; a failing lookup leaves the actor NULL. It
\* is lost if the lookup failed or something else ended the session meanwhile.
Audit(r, failed) ==
    /\ At(r, "audit")
    /\ LET q == request[r] IN
       /\ entry' = [by |-> q.user,
                    actor |-> IF failed THEN Null ELSE Actor(q.token),
                    lost |-> failed \/ q.token \in expired \cup ended]
       /\ changed' = IF q.mark /\ q.user # Null
                     THEN [changed EXCEPT ![q.user] = Newest(@, q.word)]
                     ELSE changed
    /\ request' = [request EXCEPT ![r] = Idle]
    /\ UNCHANGED <<password, sessions, owner, expired, proof, kept, late, ended>>

\* A request ends unaudited: a login's INSERT fails, the handler only reads, hyper
\* drops it with its connection, or the process dies. What it has written stays.
Abandon(r) ==
    /\ ~At(r, "idle")
    /\ request' = [request EXCEPT ![r] = Idle]
    /\ UNCHANGED <<password, sessions, owner, expired, entry, hist>>
-----------------------------------------------------------------------------
Change(r) == VerifyOld(r) \/ StoreHash(r) \/ Purge(r) \/ PurgeFails(r)

Next ==
    \/ \E r \in Requests :
          \/ \E u \in Users : Authenticate(r, u)
          \/ \E t \in Tokens : Grant(r, t)
          \/ \E t \in Tokens, ok \in BOOLEAN : ReadSession(r, t, ok)
          \/ Touch(r) \/ TouchFails(r) \/ Handle(r) \/ Change(r)
          \/ \E failed \in BOOLEAN : Audit(r, failed)
          \/ Abandon(r)
    \/ \E t \in Tokens : Logout(t) \/ Expire(t)

Spec == Init /\ [][Next]_vars
-----------------------------------------------------------------------------
TypeOK ==
    /\ password \in [Users -> Nat] /\ changed \in [Users -> Nat]
    /\ owner \in [Tokens -> UserOrNull] /\ proof \in [Tokens -> Nat]
    /\ sessions \subseteq Tokens /\ expired \subseteq Tokens
    /\ request \in [Requests -> Request]
    /\ entry \in [by : UserOrNull, actor : UserOrNull, lost : BOOLEAN]

\* No session older than password n of u is left, nor will a login bring one,
\* but the caller's own and those of logins caught half-way.
Settled(u, n) ==
    /\ \A t \in sessions : owner[t] = u /\ proof[t] < n => t \in kept \cup late
    /\ \A r \in Requests : At(r, "grant") /\ request[r].user = u /\ request[r].word < n
                               => request[r].mark

\* change_password's comment: "other sessions for this user are dropped so a
\* stolen cookie elsewhere stops working". Once a change is answered with its
\* purge done, a session of an older password is the caller's own or comes from
\* a login that had verified that password before the purge and inserted its
\* row after it: the code closes every other window.
OnlyLateSurvive ==
    \A t \in sessions : proof[t] < changed[owner[t]] => t \in kept \cup late

\* A session that has ended, by logout or by a purge, is never back: a request
\* that read its row before, and touches it after, does not revive it.
EndsForGood ==
    [][\A t \in Tokens : owner[t] # Null /\ t \notin sessions => t \notin sessions']_vars

\* The audit middleware looks the session up again after the handler. The row
\* of an authorised request names that request's user, or nobody if by then the
\* session expired or was ended from elsewhere, or the lookup failed. In
\* particular a password change does not lose its own author.
AuditNamesAuthor ==
    entry.by # Null =>
        \/ entry.actor = entry.by
        \/ entry.actor = Null /\ entry.lost
-----------------------------------------------------------------------------
(* What an induction over the steps needs besides. *)

\* What a request holds at each stage; only a purge marks a change.
Held(q) ==
    /\ q.stage = "grant" => q.user \in Users
    /\ q.stage \in {"touch", "handle", "store", "purge"} => q.user # Null /\ ~q.mark
    /\ q.stage \notin {"idle", "grant"} =>
           /\ q.token \in Tokens /\ owner[q.token] # Null
           /\ q.user \in {Null, owner[q.token]}
    /\ q.user # Null => q.word <= password[q.user]

Holding == \A r \in Requests : Held(request[r])

Minted == \A t \in Tokens :
    /\ t \in sessions => owner[t] # Null
    /\ owner[t] # Null => proof[t] <= password[owner[t]]
    /\ owner[t] # Null /\ t \notin sessions => t \in ended

\* An answered change, and one whose purge is done, is settled.
Closed ==
    /\ \A u \in Users : changed[u] <= password[u] /\ Settled(u, changed[u])
    /\ \A r \in Requests : At(r, "audit") /\ request[r].mark /\ request[r].user # Null
                               => Settled(request[r].user, request[r].word)

IInv == TypeOK /\ Holding /\ Minted /\ Closed /\ AuditNamesAuthor
=============================================================================
