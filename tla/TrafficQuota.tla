----------------------------- MODULE TrafficQuota -----------------------------
(***************************************************************************)
(* Traffic accounting and quota enforcement for one proxy user.  The core  *)
(* of each node counts bytes in memory, under the name that its config     *)
(* gives a user; collection passes (the 60-second loop and "collect now"   *)
(* requests, which may overlap) fetch and zero those counters, look up     *)
(* whose they are by name, record a sample, add to used_bytes, read the    *)
(* user back and cut it off if it is over quota.  Meanwhile administrators *)
(* kick, enable, edit, rename and reset the user; an edit reads the whole  *)
(* row and later writes the whole row back.  Names are not unique: other   *)
(* users may have some of them too.                                        *)
(*                                                                         *)
(* Every await is a step of its own.  Bytes are units of traffic.          *)
(***************************************************************************)
EXTENDS Integers, FiniteSets

CONSTANTS
    Nodes,
    NoNode,     \* "no node"
    Silent,     \* nodes with mgmt_port 0: their cores are not asked
    Names,      \* names the user may be given
    NoName,     \* "not listed"
    Twins,      \* the names that some other user has too
    Loop,       \* the background collector
    Requests,   \* concurrent "collect now" requests
    Admins,     \* concurrent edits of the user
    NoRow,      \* "no copy of the row"
    Quotas,     \* quotas an administrator may set; 0 is unlimited
    MaxTraffic, \* bound: bytes sent by the user, and by others in its name
    MaxEdits,   \* bound: edits, and resets, of the user
    MaxFaults   \* bound: failing calls, cancelled requests, crashes

ASSUME TrafficQuotaAssumption ==
    /\ IsFiniteSet(Nodes) /\ IsFiniteSet(Requests) /\ IsFiniteSet(Names)
    /\ NoNode \notin Nodes /\ NoName \notin Names
    /\ Silent \subseteq Nodes /\ Twins \subseteq Names
    /\ Loop \notin Requests
    /\ Quotas \subseteq Nat
    /\ MaxTraffic \in Nat /\ MaxEdits \in Nat /\ MaxFaults \in Nat

Collectors == {Loop} \cup Requests

Row == [enabled: BOOLEAN, quota: Quotas, token: 0..MaxEdits, name: Names]

ASSUME NoRowAssumption == NoRow \notin Row

VARIABLES
    row,        \* the user's row: enabled, quota_gb, subscription_token, name
    used,       \* its used_bytes
    samples,    \* sum of the user's rows in stats_samples
    email,      \* per node: the user's name in the config that its core runs
    own,        \* per node and name: the user's bytes in the counter ...
    foreign,    \* ... and those of other users; the core only has their sum
    stage,      \* per collector: what its pass does next
    todo,       \* per collector: nodes not visited yet in this pass
    at,         \* per collector: the node whose statistics it is fetching
    listed,     \* per collector: its name among that node's users, if it is one
    delta,      \* per collector: bytes fetched for the user
    copy,       \* per edit: the row it read
    edits, faults,
    names,      \* the names that the user has had: those a config may give it
    (* History; its bytes also bound the traffic (MayCount): *)
    traffic,    \* bytes that the user sent
    gained,     \* bytes of others that were booked to the user
    strayed,    \* bytes heard, and booked to another user or to nobody
    dropped,    \* bytes zeroed on a node that no collector heard or asked for
    uncounted,  \* bytes fetched but never added to used_bytes
    unsampled,  \* bytes fetched but never recorded as a sample
    forgiven,   \* used_bytes zeroed by resets
    excused,    \* since the last add: an edit, or a pass that did not finish
    kicked      \* kicked or cut off, and not enabled since

user  == <<row, used, samples>>
core  == <<email, own, foreign>>
pass  == <<stage, todo, at, listed, delta>>
heard == <<gained, strayed>>
gone  == <<uncounted, unsampled, forgiven>>
books == <<traffic, dropped, heard, gone>>
vars  == <<user, core, pass, copy, edits, faults, names, books, excused, kicked>>

Stages == {"idle", "visit", "fetch", "sample", "before", "add", "check", "cut",
           "notify"}

\* The sum of f over S, as a number of bytes: f counts f[i] of them at each i.
Bytes(f, S) == UNION {{i} \X (1 .. f[i]) : i \in S}
Total(f, S) == Cardinality(Bytes(f, S))

\* The counters of one node, of some of its names, and with that node's zeroed.
Named(n, N) == {n} \X N
Zeroed(f, n) == [k \in Nodes \X Names |-> IF k[1] = n THEN 0 ELSE f[k]]

Over == row.quota > 0 /\ used >= row.quota

Fault == faults < MaxFaults /\ faults' = faults + 1

\* A call either succeeds or is a fault.
Call(ok) == IF ok THEN UNCHANGED faults ELSE Fault

Goto(c, s) == stage' = [stage EXCEPT ![c] = s]

Init ==
    /\ row \in [enabled: {TRUE}, quota: Quotas, token: {0}, name: Names]
    /\ used = 0 /\ samples = 0
    /\ email = [n \in Nodes |-> row.name]
    /\ own = [k \in Nodes \X Names |-> 0]
    /\ foreign = [k \in Nodes \X Names |-> 0]
    /\ stage = [c \in Collectors |-> "idle"]
    /\ todo = [c \in Collectors |-> {}]
    /\ at = [c \in Collectors |-> NoNode]
    /\ listed = [c \in Collectors |-> NoName]
    /\ delta = [c \in Collectors |-> 0]
    /\ copy = [a \in Admins |-> NoRow]
    /\ edits = 0 /\ faults = 0
    /\ names = {row.name}
    /\ traffic = 0 /\ gained = 0 /\ strayed = 0 /\ dropped = 0
    /\ uncounted = 0 /\ unsampled = 0 /\ forgiven = 0
    /\ excused = FALSE /\ kicked = FALSE
-----------------------------------------------------------------------------
(* Faulty variants of definitions below, used by no action: what the         *)
(* properties are tested against.                                            *)

\* statsquery without -reset.
FetchWithoutReset(c) ==
    LET bytes == Total(own, Named(at[c], {listed[c]} \ {NoName}))
    IN  /\ stage[c] = "fetch" /\ at[c] \notin Silent
        /\ at' = [at EXCEPT ![c] = NoNode]
        /\ listed' = [listed EXCEPT ![c] = NoName]
        /\ delta' = [delta EXCEPT ![c] = bytes]
        /\ Goto(c, IF bytes > 0 THEN "sample" ELSE "visit")
        /\ UNCHANGED <<user, core, todo, copy, edits, faults, names, books, excused,
                       kicked>>


\* The quota compared with ">".
CheckAboveQuota(c, ok) ==
    /\ stage[c] = "check"
    /\ Call(ok)
    /\ Goto(c, IF ok /\ row.enabled /\ Over /\ used > row.quota THEN "cut" ELSE "visit")
    /\ excused' = (excused \/ ~ok)
    /\ UNCHANGED <<user, core, todo, at, listed, delta, copy, edits, names, books,
                   kicked>>

\* A user who was cut off before is not cut off again.
CheckQuotaOnce(c, ok) ==
    /\ stage[c] = "check"
    /\ Call(ok)
    /\ Goto(c, IF ok /\ row.enabled /\ Over /\ ~kicked THEN "cut" ELSE "visit")
    /\ excused' = (excused \/ ~ok)
    /\ UNCHANGED <<user, core, todo, at, listed, delta, copy, edits, names, books,
                   kicked>>

\* A reset that subtracts what was sampled.
ResetBySamples ==
    /\ edits < MaxEdits
    /\ edits' = edits + 1
    /\ used' = used - samples
    /\ forgiven' = forgiven + used
    /\ UNCHANGED <<row, samples, core, pass, copy, faults, names, traffic, dropped,
                   heard, uncounted, unsampled, excused, kicked>>
-----------------------------------------------------------------------------
(* The nodes. Whether the user may still connect depends on the deployed     *)
(* config (NodeDeploy), not on the row; the counters live in the core.       *)

MayCount == traffic + gained + Total(foreign, Nodes \X Names) < MaxTraffic

Traffic(n) ==
    /\ MayCount
    /\ traffic' = traffic + 1
    /\ own' = [own EXCEPT ![<<n, email[n]>>] = @ + 1]
    /\ UNCHANGED <<user, email, foreign, pass, copy, edits, faults, names, dropped,
                   heard, gone, excused, kicked>>

\* Another user of the name e sends a byte.
TwinTraffic(n, e) ==
    /\ MayCount
    /\ foreign' = [foreign EXCEPT ![<<n, e>>] = @ + 1]
    /\ UNCHANGED <<user, email, own, pass, copy, edits, faults, names, books, excused,
                   kicked>>

\* A restart of the core (apply, restart, a crash) forgets what it counted; its
\* config may be of any time.
CoreRestarts(n) ==
    /\ dropped' = dropped + Total(own, Named(n, Names))
    /\ own' = Zeroed(own, n) /\ foreign' = Zeroed(foreign, n)
    /\ \E e \in names : email' = [email EXCEPT ![n] = e]
    /\ UNCHANGED <<user, pass, copy, edits, faults, names, traffic, heard, gone, excused,
                   kicked>>
-----------------------------------------------------------------------------
(* collect_traffic. *)

\* If the nodes cannot be listed, the pass ends as if it had not started.
StartPass(c) ==
    /\ stage[c] = "idle"
    /\ Goto(c, "visit")
    /\ todo' = [todo EXCEPT ![c] = Nodes]
    /\ UNCHANGED <<user, core, at, listed, delta, copy, edits, faults, names, books,
                   excused, kicked>>

\* list_for_listener returns enabled users only. Without the user (disabled, or
\* the query failed) the node is skipped if it has no other users either.
Visit(c, n, ok) ==
    /\ stage[c] = "visit"
    /\ n \in todo[c]
    /\ Call(ok)
    /\ todo' = [todo EXCEPT ![c] = @ \ {n}]
    /\ listed' = [listed EXCEPT ![c] = IF ok /\ row.enabled THEN row.name ELSE NoName]
    /\ \/ Goto(c, "fetch") /\ at' = [at EXCEPT ![c] = n]
       \/ listed'[c] = NoName /\ UNCHANGED <<stage, at>>
    /\ UNCHANGED <<user, core, delta, copy, edits, names, books, excused, kicked>>

EndPass(c) ==
    /\ stage[c] = "visit"
    /\ todo[c] = {}
    /\ Goto(c, "idle")
    /\ UNCHANGED <<user, core, todo, at, listed, delta, copy, edits, faults, names,
                   books, excused, kicked>>

\* Whose a counter is: find() over the listed users, in the order of a HashMap,
\* by name alone. The names whose counters are taken for the user's:
Claims(e) == IF e = NoName THEN {{}} ELSE IF e \in Twins THEN {{e}, {}} ELSE {{e}}

\* The user's turn among the users of the answer is over: another of them may be
\* cut off, and its notification awaited.
AfterUser == {"visit", "notify"}

\* statsquery -reset returns and zeroes the counters of every user of the node.
\* Those of names that were not listed, or zero, are filtered out.
Fetch(c) ==
    /\ stage[c] = "fetch" /\ at[c] \notin Silent
    /\ at' = [at EXCEPT ![c] = NoNode]
    /\ listed' = [listed EXCEPT ![c] = NoName]
    /\ own' = Zeroed(own, at[c]) /\ foreign' = Zeroed(foreign, at[c])
    /\ \E claimed \in Claims(listed[c]) :
         LET ours   == Total(own, Named(at[c], claimed))
             theirs == Total(foreign, Named(at[c], claimed))
             rest   == Total(own, Named(at[c], Names \ claimed))
         IN  /\ delta' = [delta EXCEPT ![c] = ours + theirs]
             /\ \E s \in IF ours + theirs > 0 THEN {"sample"} ELSE AfterUser : Goto(c, s)
             /\ gained' = gained + theirs
             /\ IF listed[c] = NoName
                THEN dropped' = dropped + rest /\ UNCHANGED strayed
                ELSE strayed' = strayed + rest /\ UNCHANGED dropped
    /\ UNCHANGED <<user, email, todo, copy, edits, faults, names, traffic, gone, excused,
                   kicked>>

\* mgmt_port is 0: nothing is asked, and nothing zeroed.
FetchSilent(c) ==
    /\ stage[c] = "fetch" /\ at[c] \in Silent
    /\ Goto(c, "visit")
    /\ at' = [at EXCEPT ![c] = NoNode]
    /\ listed' = [listed EXCEPT ![c] = NoName]
    /\ UNCHANGED <<user, core, todo, delta, copy, edits, faults, names, books, excused,
                   kicked>>

\* The node was not reached, or its answer was lost after it zeroed them.
FetchFails(c) ==
    /\ stage[c] = "fetch" /\ at[c] \notin Silent
    /\ Fault
    /\ Goto(c, "visit")
    /\ at' = [at EXCEPT ![c] = NoNode]
    /\ listed' = [listed EXCEPT ![c] = NoName]
    /\ \/ UNCHANGED <<own, foreign, dropped>>
       \/ /\ own' = Zeroed(own, at[c]) /\ foreign' = Zeroed(foreign, at[c])
          /\ dropped' = dropped + Total(own, Named(at[c], Names))
    /\ UNCHANGED <<user, email, todo, delta, copy, edits, names, traffic, heard, gone,
                   excused, kicked>>

\* insert_samples; the pass goes on when it fails. Another user of the answer may
\* have its turn, and be cut off, before this one.
Sample(c, ok) ==
    /\ stage[c] = "sample"
    /\ Call(ok)
    /\ \E s \in {"before", "add"} : Goto(c, s)
    /\ IF ok THEN samples' = samples + delta[c] /\ UNCHANGED unsampled
             ELSE unsampled' = unsampled + delta[c] /\ UNCHANGED samples
    /\ UNCHANGED <<row, used, core, todo, at, listed, delta, copy, edits, names,
                   traffic, dropped, heard, uncounted, forgiven, excused, kicked>>

\* let _ = add_used_bytes(..): the pass goes on when it fails.
Add(c, ok) ==
    /\ stage[c] = "add"
    /\ Call(ok)
    /\ Goto(c, "check")
    /\ delta' = [delta EXCEPT ![c] = 0]
    /\ IF ok THEN used' = used + delta[c] /\ excused' = FALSE /\ UNCHANGED uncounted
             ELSE uncounted' = uncounted + delta[c] /\ UNCHANGED <<used, excused>>
    /\ UNCHANGED <<row, samples, core, todo, at, listed, copy, edits, names, traffic,
                   dropped, heard, unsampled, forgiven, kicked>>

\* find, and the decision on what it returned.
CheckQuota(c, ok) ==
    /\ stage[c] = "check"
    /\ Call(ok)
    /\ \E s \in IF ok /\ row.enabled /\ Over THEN {"cut"} ELSE AfterUser : Goto(c, s)
    /\ excused' = (excused \/ ~ok)
    /\ UNCHANGED <<user, core, todo, at, listed, delta, copy, edits, names, books,
                   kicked>>

\* let _ = set_enabled(id, false), whatever the row is by now; notify() is next.
CutOff(c, ok) ==
    /\ stage[c] = "cut"
    /\ Call(ok)
    /\ Goto(c, "notify")
    /\ IF ok THEN row' = [row EXCEPT !.enabled = FALSE] /\ kicked' = TRUE
             ELSE UNCHANGED <<row, kicked>>
    /\ excused' = (excused \/ ~ok)
    /\ UNCHANGED <<used, samples, core, todo, at, listed, delta, copy, edits, names,
                   books>>

\* notify("quota_exceed") returns, which it may never do (Notifications): it was
\* awaited for this user, or for another one of the same answer.
Notified(c) ==
    /\ \/ stage[c] = "before" /\ Goto(c, "add")
       \/ stage[c] = "notify" /\ Goto(c, "visit")
    /\ UNCHANGED <<user, core, todo, at, listed, delta, copy, edits, faults, names,
                   books, excused, kicked>>

\* A pass ends between two awaits: its request is cancelled because the client
\* went away, or (Crash) the process dies.
Abandon(C) ==
    LET LostIn(s) == Total(delta, {c \in C : stage[c] \in s})
    IN  /\ Fault
        /\ stage' = [c \in Collectors |-> IF c \in C THEN "idle" ELSE stage[c]]
        /\ delta' = [c \in Collectors |-> IF c \in C THEN 0 ELSE delta[c]]
        /\ todo' = [c \in Collectors |-> IF c \in C THEN {} ELSE todo[c]]
        /\ at' = [c \in Collectors |-> IF c \in C THEN NoNode ELSE at[c]]
        /\ listed' = [c \in Collectors |-> IF c \in C THEN NoName ELSE listed[c]]
        /\ unsampled' = unsampled + LostIn({"sample"})
        /\ uncounted' = uncounted + LostIn({"sample", "before", "add"})
        /\ excused' = TRUE
        /\ UNCHANGED <<user, core, edits, names, traffic, dropped, heard, forgiven, kicked>>

CancelRequest(c) == stage[c] # "idle" /\ Abandon({c}) /\ UNCHANGED copy

Crash == Abandon(Collectors) /\ copy' = [a \in Admins |-> NoRow]
-----------------------------------------------------------------------------
(* Administrators. kick, enable and PATCH are all ProxyUserRepo::update.     *)

UpdateReads(a) ==
    /\ copy[a] = NoRow
    /\ edits < MaxEdits
    /\ edits' = edits + 1
    /\ copy' = [copy EXCEPT ![a] = row]
    /\ UNCHANGED <<user, core, pass, faults, names, books, excused, kicked>>

\* The rows an update may write for what it read: it was a kick (with a fresh
\* token), an enable, a change of quota or of name, or of a column not modelled.
Kick(r)    == {[r EXCEPT !.enabled = FALSE, !.token = edits]}
Enable(r)  == {[r EXCEPT !.enabled = TRUE]}
Requota(r) == {[r EXCEPT !.quota = q] : q \in Quotas}
Rename(r)  == {[r EXCEPT !.name = e] : e \in Names}

\* UPDATE of every column but used_bytes, from the copy.
UpdateWrites(a, next, out) ==
    /\ row' = next
    /\ kicked' = out
    /\ copy' = [copy EXCEPT ![a] = NoRow]
    /\ names' = names \cup {next.name}
    /\ excused' = TRUE
    /\ UNCHANGED <<used, samples, core, pass, edits, faults, books>>

Update(a) ==
    /\ copy[a] # NoRow
    /\ \/ \E r \in Kick(copy[a]) : UpdateWrites(a, r, TRUE)
       \/ \E r \in Enable(copy[a]) : UpdateWrites(a, r, FALSE)
       \/ \E r \in Requota(copy[a]) \cup Rename(copy[a]) : UpdateWrites(a, r, kicked)

ResetTraffic ==
    /\ edits < MaxEdits
    /\ edits' = edits + 1
    /\ used' = 0
    /\ forgiven' = forgiven + used
    /\ UNCHANGED <<row, samples, core, pass, copy, faults, names, traffic, dropped,
                   heard, uncounted, unsampled, excused, kicked>>
-----------------------------------------------------------------------------
PassStep(c) ==
    \/ \E n \in Nodes : Visit(c, n, TRUE)
    \/ Fetch(c) \/ FetchSilent(c) \/ Sample(c, TRUE) \/ Add(c, TRUE)
    \/ CheckQuota(c, TRUE) \/ CutOff(c, TRUE) \/ EndPass(c)

PassFault(c) ==
    \/ \E n \in Nodes : Visit(c, n, FALSE)
    \/ FetchFails(c) \/ Sample(c, FALSE) \/ Add(c, FALSE) \/ CheckQuota(c, FALSE)
    \/ CutOff(c, FALSE)

Next ==
    \/ \E n \in Nodes : \/ Traffic(n) \/ CoreRestarts(n)
                        \/ \E e \in Twins : TwinTraffic(n, e)
    \/ \E c \in Collectors : StartPass(c) \/ PassStep(c) \/ PassFault(c) \/ Notified(c)
    \/ \E c \in Requests : CancelRequest(c)
    \/ Crash
    \/ \E a \in Admins : UpdateReads(a) \/ Update(a)
    \/ ResetTraffic

Spec == Init /\ [][Next]_vars

\* The loop ticks every 60 seconds, and a started pass is driven on: its calls to
\* nodes and database are under timeouts. Its notifications are not (Notified): a
\* pass that awaits one may wait for good. Nobody has to send requests or traffic.
FairSpec ==
    /\ Spec
    /\ WF_vars(StartPass(Loop))
    /\ \A c \in Collectors : WF_vars(PassStep(c))
-----------------------------------------------------------------------------
UserOK ==
    /\ row \in Row
    /\ used \in Nat /\ samples \in Nat
    /\ excused \in BOOLEAN /\ kicked \in BOOLEAN

PassOK ==
    /\ email \in [Nodes -> Names]
    /\ own \in [Nodes \X Names -> Nat] /\ foreign \in [Nodes \X Names -> Nat]
    /\ stage \in [Collectors -> Stages]
    /\ todo \in [Collectors -> SUBSET Nodes]
    /\ at \in [Collectors -> Nodes \cup {NoNode}]
    /\ listed \in [Collectors -> Names \cup {NoName}]
    /\ delta \in [Collectors -> Nat]
    /\ \A c \in Collectors : stage[c] = "fetch" => at[c] \in Nodes

EditsOK ==
    /\ copy \in [Admins -> Row \cup {NoRow}]
    /\ edits \in 0..MaxEdits /\ faults \in 0..MaxFaults

\* Names in counters, configs, listings and copies are names that the user has
\* had; others are counted under names that they have.
NamesOK ==
    /\ row.name \in names /\ names \subseteq Names
    /\ \A n \in Nodes : email[n] \in names
    /\ \A c \in Collectors : listed[c] \in names \cup {NoName}
    /\ \A a \in Admins : copy[a] # NoRow => copy[a].name \in names
    /\ \A k \in Nodes \X Names : own[k] > 0 => k[2] \in names
    /\ \A k \in Nodes \X Names : foreign[k] > 0 => k[2] \in Twins

TypeOK ==
    /\ UserOK /\ PassOK /\ EditsOK /\ NamesOK
    /\ traffic \in Nat /\ gained \in Nat /\ strayed \in Nat /\ dropped \in Nat
    /\ uncounted \in Nat /\ unsampled \in Nat /\ forgiven \in Nat

\* However passes, resets and failures interleave, no byte of the user is counted
\* twice, and none disappears except where a counter was zeroed unheard or for a
\* user not listed, a call failed, a pass was abandoned, or a reset forgave it;
\* used_bytes and the samples are two ledgers of the same bytes. A counter goes to
\* the wrong account only by its name: bytes of others are booked to the user only
\* if it has had a name that another user has, and bytes of the user to somebody
\* else, or to nobody, only then or after it was renamed.
BytesAccounted ==
    LET waiting == Total(own, Nodes \X Names)
        held(s) == Total(delta, {c \in Collectors : stage[c] \in s})
    IN  /\ traffic + gained = waiting + dropped + strayed
                                + held({"sample", "before", "add"})
                                + uncounted + used + forgiven
        /\ traffic + gained = waiting + dropped + strayed
                                + held({"sample"}) + unsampled + samples
        /\ gained > 0 => Twins \cap names # {}
        /\ strayed > 0 => Twins \cap names # {} \/ \E d, e \in names : d # e
\* A user who is enabled and over quota is about to be checked or cut off by
\* some pass, unless, since bytes were last added, an administrator edited the
\* user or the pass could not finish. Over quota means ">=", never ">".
OverQuotaIsCut ==
    row.enabled /\ Over =>
        excused \/ \E c \in Collectors : stage[c] \in {"check", "cut"}

\* Once added bytes put the user over quota, it is eventually cut off, or reset, or
\* excused as above: nothing that a pass awaits in between can hang, although the
\* notification that follows may.
QuotaEnforced ==
    row.enabled /\ Over /\ ~excused ~> ~(row.enabled /\ Over) \/ excused


\* kick's comment: "Re-enable manually": a user who was kicked or cut off stays
\* out until somebody enables it.
KickSticks == kicked => ~row.enabled
=============================================================================
