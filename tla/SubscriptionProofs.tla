-------------------------- MODULE SubscriptionProofs --------------------------
(***************************************************************************)
(* For any listeners, pools, edits and administrators: an answer lists     *)
(* what was there during the request and leaves nothing out, and the two   *)
(* renderers fit together.                                                 *)
(***************************************************************************)
EXTENDS Subscription, TLAPS

(* A history grows at its end. *)
LEMMA Appended ==
  ASSUME NEW s, s \in Seq({s[j] : j \in DOMAIN s}), NEW e
  PROVE  /\ Append(s, e) \in Seq({Append(s, e)[j] : j \in DOMAIN Append(s, e)})
         /\ Len(s) \in Nat /\ DOMAIN s = 1..Len(s)
         /\ Len(Append(s, e)) = Len(s) + 1
         /\ Append(s, e)[Len(s) + 1] = e
         /\ \A j \in 1..Len(s) : Append(s, e)[j] = s[j]
<1> DEFINE S == {s[j] : j \in DOMAIN s} \cup {e}
           t == Append(s, e)
<1>1. s \in Seq(S) /\ t \in Seq(S)
  <2>1. s \in Seq(S)
    OBVIOUS
  <2>2. QED
    BY <2>1
<1>2. /\ Len(s) \in Nat /\ DOMAIN s = 1..Len(s)
      /\ Len(t) = Len(s) + 1 /\ DOMAIN t = 1..Len(t)
      /\ t[Len(s) + 1] = e
      /\ \A j \in 1..Len(s) : t[j] = s[j]
  BY <1>1
<1>3. t \in Seq({t[j] : j \in DOMAIN t})
  BY <1>1, <1>2
<1>4. QED
  BY <1>2, <1>3

(* What an update writes is a row. *)
LEMMA MergedIsRow ==
  ASSUME NEW patch \in Patches, NEW row \in Row
  PROVE  Merge(patch, row) \in Row
<1>1. \A f \in DOMAIN patch : patch[f] \in FieldType(f)
  BY SubscriptionAssumption
<1>2. /\ Field("core", patch, row) \in Cores
      /\ Field("protocol", patch, row) \in Protocols
      /\ Field("transport", patch, row) \in Transports
      /\ Field("tls_mode", patch, row) \in TlsModes
      /\ Field("params", patch, row) \in SUBSET Params
  BY <1>1 DEF Field, FieldType, Row
<1>3. /\ Field("cdn", patch, row) \in {"off", "top"} \cup CdnEndpoints
      /\ Field("chain", patch, row) \in Chains \cup {None}
      /\ Field("name", patch, row) \in STRING
      /\ Field("node", patch, row) \in BOOLEAN
      /\ Field("enabled", patch, row) \in BOOLEAN
  BY <1>1 DEF Field, FieldType, Row
<1>4. QED
  BY <1>2, <1>3 DEF Merge, Row
-----------------------------------------------------------------------------
(* The combinations that both sides cover are rendered by the adapter ... *)
LEMMA CoveredIsRendered ==
  ASSUME NEW l \in Row, Covered(l)
  PROVE  ~Refuses(l.core, l)
BY DEF Covered, Refuses, XrayRefuses, SingboxRefuses, RealityRefused, Row, Cores

(* ... and their entry, in every format and with every pool, gets a client of   *)
(* the inbound through it.                                                      *)
LEMMA CoveredReaches ==
  ASSUME NEW l \in Row, Covered(l), NEW u, NEW users, u \in users,
         NEW pool, NEW format \in Formats
  PROVE  Reaches(EntryFor(format, l, pool), u, Inbound(l.core, l, users))
<1> DEFINE i == Inbound(l.core, l, users)
<1>1. /\ l.core \in {"xray", "singbox"} /\ l.protocol \in {"vless", "trojan"}
      /\ l.transport \in {"tcp", "ws", "grpc"}
      /\ l.tls_mode \in {"none", "tls", "reality"}
      /\ l.protocol = "trojan" => l.transport # "grpc" /\ l.tls_mode = "tls"
      /\ l.tls_mode = "reality" => {"reality_public_key", "reality_short_id",
                                    "reality_server_name"} \subseteq l.params
  BY DEF Covered, Row, Cores
<1>2. /\ i.protocol = l.protocol /\ i.clients = users
      /\ i.flow = (IF l.protocol = "vless" THEN Opt(l, "flow") ELSE "")
      /\ Network(i) = l.transport /\ Security(i) = l.tls_mode
      /\ i.path = OnWs(l, OrElse(l, "ws_path", "/"))
      /\ i.host = OnWs(l, Opt(l, "ws_host"))
      /\ i.service = OnGrpc(l, Opt(l, "grpc_service_name"))
      /\ i.sni = ServerName(l)
      /\ i.short_id = OnReality(l, Opt(l, "reality_short_id"))
  <2>1. CASE l.core = "xray"
    BY <1>1, <2>1 DEF Inbound, XrayInbound, CommonInbound, InboundClients,
       InboundPath, OnWs, Network, Security
  <2>2. CASE l.core = "singbox"
    BY <1>1, <2>2 DEF Inbound, SingboxInbound, CommonInbound, InboundClients,
       InboundPath, OnWs, Network, Security
  <2>3. QED
    BY <1>1, <2>1, <2>2
<1>3. ASSUME NEW e,
             e.protocol = l.protocol, e.flow = i.flow,
             Network(e) = l.transport, Security(e) = l.tls_mode,
             e.path = i.path, e.host = i.host, e.service = i.service,
             l.tls_mode = "reality" =>
                 /\ e.sni = i.sni /\ e.short_id = i.short_id
                 /\ e.public_key = Opt(l, "reality_public_key")
      PROVE  Reaches(e, u, i)
  BY <1>1, <1>2, <1>3 DEF Reaches, Opt
<1>4. ASSUME NEW host
      PROVE  /\ Reaches(UriEntry(l, host), u, i)
             /\ Reaches(ClashEntry(l, host), u, i)
             /\ Reaches(SingboxEntry(l, host), u, i)
  <2>1. CASE l.protocol = "vless"
    <3>1. Reaches(VlessUri(l, host), u, i)
      BY <1>1, <1>2, <1>3, <2>1 DEF VlessUri, Entry, InboundPath, OnWs, OnReality, Network, Security
    <3>2. Reaches(ClashVless(l, host), u, i)
      BY <1>1, <1>2, <1>3, <2>1 DEF ClashVless, Entry, OnWs, OnReality, Network, Security
    <3>3. Reaches(SingboxEntry(l, host), u, i)
      <4> DEFINE e == SingboxEntry(l, host)
      <4>1. /\ e.protocol = "vless" /\ e.flow = Opt(l, "flow")
            /\ e.network = (IF l.transport \in {"ws", "grpc"}
                             THEN l.transport ELSE "")
            /\ e.security = (IF l.tls_mode = "none" THEN "" ELSE l.tls_mode)
            /\ e.path = i.path /\ e.host = i.host /\ e.service = i.service
            /\ e.sni = ServerName(l)
            /\ e.public_key = OnReality(l, Opt(l, "reality_public_key"))
            /\ e.short_id = OnReality(l, Opt(l, "reality_short_id"))
        BY <1>2, <2>1 DEF SingboxEntry, Entry
      <4>2. Network(e) = l.transport /\ Security(e) = l.tls_mode
        BY <1>1, <4>1 DEF Network, Security
      <4> HIDE DEF e
      <4>3. e.protocol = l.protocol /\ e.flow = i.flow
        BY <1>2, <2>1, <4>1
      <4>4. l.tls_mode = "reality" =>
                /\ e.sni = i.sni /\ e.short_id = i.short_id
                /\ e.public_key = Opt(l, "reality_public_key")
        BY <1>2, <4>1 DEF OnReality
      <4>5. Reaches(e, u, i)
        BY <1>3, <4>1, <4>2, <4>3, <4>4
      <4>6. QED
        BY <4>5 DEF e
    <3>4. QED
      BY <2>1, <3>1, <3>2, <3>3 DEF UriEntry, ClashEntry
  <2>2. CASE l.protocol = "trojan"
    <3>1. Reaches(TrojanUri(l, host), u, i)
      BY <1>1, <1>2, <1>3, <2>2 DEF TrojanUri, Entry, OnWs, OnGrpc, Network, Security
    <3>2. Reaches(ClashTrojan(l, host), u, i)
      BY <1>1, <1>2, <1>3, <2>2 DEF ClashTrojan, Entry, OnWs, OnGrpc, Network, Security
    <3>3. Reaches(SingboxEntry(l, host), u, i)
      BY <1>1, <1>2, <1>3, <2>2 DEF SingboxEntry, Entry, OnWs, OnGrpc, Network, Security
    <3>4. QED
      BY <2>2, <3>1, <3>2, <3>3 DEF UriEntry, ClashEntry
  <2>3. QED
    BY <1>1, <2>1, <2>2
<1>5. QED
  BY <1>4 DEF EntryFor, Formats

(* The host that every format but the URI list shows, and that one without      *)
(* public_host.                                                                 *)
LEMMA DialIsEffectiveHost ==
  ASSUME NEW l \in Row, Emitted(l), NEW pool, NEW format \in Formats,
         format # "base64" \/ "public_host" \notin l.params
  PROVE  EntryFor(format, l, pool).dial = EffectiveHost(l, pool)
<1> DEFINE host == EffectiveHost(l, pool)
<1>1. UriHost(l, pool) = host \/ format # "base64"
  BY DEF UriHost, OrElse
<1>2. UriEntry(l, host).dial = host
  BY DEF Emitted, UriEntry, VlessUri, TrojanUri, PlainShadowsocks, Entry
<1>3. ClashEntry(l, host).dial = host
  BY DEF Emitted, ClashEntry, ClashVless, ClashTrojan, PlainShadowsocks, Entry
<1>4. SingboxEntry(l, host).dial = host
  BY DEF SingboxEntry, Entry
<1>5. QED
  BY <1>1, <1>2, <1>3, <1>4 DEF EntryFor, Formats
-----------------------------------------------------------------------------
(* The initial states satisfy the inductive invariant. *)
LEMMA InitSubscription == Init => IInv
<1> SUFFICES ASSUME Init PROVE IInv
    OBVIOUS
<1> USE SubscriptionAssumption
<1>1. PICK rows \in FirstRows, pool \in Pools, core \in Cores :
          db = [rows |-> rows, next |-> Len(rows) + 1,
                attached |-> DOMAIN rows, enabled |-> TRUE,
                pool |-> pool, chains |-> Chains, core |-> core]
  BY DEF Init
<1>2. log = <<db>> /\ req = Idle /\ deployed = [config |-> <<>>, at |-> 0]
      /\ drafts = [a \in Admins |-> NoDraft]
  BY DEF Init
<1>3. /\ rows \in Seq(Row) /\ Len(rows) \in Nat /\ Len(rows) <= MaxId
      /\ DOMAIN rows = 1..Len(rows) /\ DOMAIN rows \subseteq Ids
      /\ \A i \in DOMAIN rows : rows[i] \in Row
      /\ rows = [i \in DOMAIN rows |-> rows[i]]
  BY DEF Ids
<1>4. Database(db) /\ db.attached \subseteq DOMAIN db.rows
  BY <1>1, <1>3 DEF Database, Table
<1>5. Now = 1 /\ log[1] = db /\ log \in Seq(Stored)
  BY <1>2 DEF Now, Stored
<1>6. Table(<<>>)
  BY DEF Table
<1>7. TypeOK
  BY <1>2, <1>4, <1>5, <1>6 DEF TypeOK, Idle, NoDraft
<1>8. History /\ WellRead /\ AsDeployed
  BY <1>2, <1>4, <1>5 DEF History, WellRead, AsDeployed, Idle
<1>9. QED
  BY <1>7, <1>8 DEF IInv

(* A committed edit keeps it: what a request has read, and what the node runs,  *)
(* is still in the history.                                                     *)
LEMMA CommitKeeps ==
  ASSUME IInv, NEW d, Commit(d), Database(d), d.attached \subseteq DOMAIN d.rows,
         drafts' \in [Admins -> {NoDraft} \cup [id: Ids, row: Row]]
  PROVE  IInv'
<1> USE DEF IInv
<1>1. db' = d /\ log' = Append(log, d) /\ req' = req /\ deployed' = deployed
  BY DEF Commit
<1>2. /\ log' \in Seq(Stored)'
      /\ Now \in Nat /\ Now' = Now + 1 /\ log'[Now + 1] = d
      /\ \A j \in 1..Now : log'[j] = log[j]
  <2>1. log \in Seq({log[j] : j \in DOMAIN log})
    BY DEF TypeOK, Stored
  <2>2. /\ Append(log, d) \in
               Seq({Append(log, d)[j] : j \in DOMAIN Append(log, d)})
        /\ Len(log) \in Nat /\ Len(Append(log, d)) = Len(log) + 1
        /\ Append(log, d)[Len(log) + 1] = d
        /\ \A j \in 1..Len(log) : Append(log, d)[j] = log[j]
    BY <2>1, Appended
  <2>3. QED
    BY <1>1, <2>2 DEF Now, Stored
<1>3. TypeOK'
  <2>1. ASSUME NEW j \in 1..Now' PROVE Database(log'[j])
    <3>1. CASE j = Now + 1
      BY <1>2, <3>1
    <3>2. CASE j # Now + 1
      <4>1. j \in 1..Now /\ log'[j] = log[j]
        BY <1>2, <3>2
      <4>2. QED
        BY <4>1 DEF TypeOK
    <3>3. QED
      BY <3>1, <3>2
  <2>2. deployed' \in [config: {deployed'.config}, at: 0..Now']
    BY <1>1, <1>2 DEF TypeOK
  <2>3. /\ req' = req /\ Table(req'.got)
        /\ req' \in [step: {"idle", "ids", "find", "cdn", "done"},
                     todo: SUBSET Ids, got: {req'.got}, pool: Pools \cup {<<>>},
                     lost: BOOLEAN, start: Nat, end: Nat]
    BY <1>1 DEF TypeOK
  <2>4. QED
    BY <1>2, <2>1, <2>2, <2>3 DEF TypeOK
<1>4. History'
  <2>1. ASSUME NEW j \in 1..Now'
        PROVE  log'[j].attached \subseteq DOMAIN log'[j].rows
    <3>1. CASE j = Now + 1
      BY <1>2, <3>1
    <3>2. CASE j # Now + 1
      <4>1. j \in 1..Now /\ log'[j] = log[j]
        BY <1>2, <3>2
      <4>2. QED
        BY <4>1 DEF History
    <3>3. QED
      BY <3>1, <3>2
  <2>2. Now' >= 1 /\ log'[Now'] = db'
    BY <1>1, <1>2
  <2>3. QED
    BY <2>1, <2>2 DEF History
<1>5. WellRead'
  <2> SUFFICES ASSUME req.step # "idle" PROVE WellRead'
    BY <1>1 DEF WellRead
  <2>1. /\ req.start \in Nat /\ req.end \in Nat
        /\ req.start >= 1 /\ req.start <= Until /\ Until <= Now
    BY DEF TypeOK, WellRead
  <2>2. /\ Answered' = Answered
       /\ Until \in Nat /\ Until' \in Nat /\ Until <= Until' /\ Until' <= Now'
    BY <1>1, <1>2, <2>1 DEF Until, Answered
  <2>3. \A j \in req.start..Until : log'[j] = log[j]
    <3> SUFFICES ASSUME NEW j \in req.start..Until PROVE log'[j] = log[j]
        OBVIOUS
    <3>1. j \in 1..Now
      BY <1>2, <2>1, <2>2
    <3>2. QED
      BY <1>2, <3>1
  <2>4. Seen \subseteq Seen'
    <3> SUFFICES ASSUME NEW j \in req.start..Until
                 PROVE  log[j] \in {log'[k] : k \in req.start..Until'}
        BY <1>1 DEF Seen
    <3>1. j \in req.start..Until'
      BY <2>1, <2>2
    <3>2. QED
      BY <2>3, <3>1
  <2>5. \A i : Attached(i) => Attached(i)'
    BY <2>4 DEF Attached
  <2>6. log'[req.start].enabled
    BY <1>2, <2>1, <2>3 DEF WellRead
  <2>7. \A i \in DOMAIN req.got :
           /\ \E e \in Seen' : /\ i \in DOMAIN e.rows
                               /\ e.rows[i] = req.got[i] /\ e.rows[i].enabled
           /\ Attached(i)'
    BY <2>4, <2>5 DEF WellRead
  <2>8. req.step # "ids" => \A i \in Ids :
           (\A e \in Seen' : Offered(e, i)) => i \in req.todo \cup DOMAIN req.got
    BY <2>4 DEF WellRead
  <2>9. Answered /\ ~req.lost => \E e \in Seen' : e.pool = req.pool
    BY <2>4 DEF WellRead
  <2>10. QED
    BY <1>1, <1>2, <2>1, <2>2, <2>5, <2>6, <2>7, <2>8, <2>9 DEF WellRead
<1>6. AsDeployed'
  <2>1. deployed.at > 0 => log'[deployed.at] = log[deployed.at]
    BY <1>2 DEF TypeOK
  <2>2. QED
    BY <1>1, <2>1 DEF AsDeployed
<1>7. QED
  BY <1>3, <1>4, <1>5, <1>6

(* What the invariant says of the current state of the database. *)
LEMMA CurrentDatabase ==
  ASSUME IInv
  PROVE  /\ Database(db) /\ db.attached \subseteq DOMAIN db.rows
         /\ Now \in Nat /\ Now >= 1 /\ log[Now] = db
<1>1. Now \in Nat
  BY DEF IInv, TypeOK, Now
<1>2. QED
  BY <1>1 DEF IInv, TypeOK, History

(* Adding a row, or replacing one, gives a table of rows. *)
LEMMA WithRow ==
  ASSUME NEW f, Table(f), NEW i \in Ids, NEW row \in Row
  PROVE  /\ Table(With(f, i, row)) /\ DOMAIN With(f, i, row) = DOMAIN f \cup {i}
         /\ \A j \in DOMAIN f \cup {i} :
                With(f, i, row)[j] = IF j = i THEN row ELSE f[j]
BY DEF Table, With

(* What only an administrator holds does not matter to it. *)
LEMMA DraftsKeep ==
  ASSUME IInv, UNCHANGED <<db, req, deployed, log>>,
         drafts' \in [Admins -> {NoDraft} \cup [id: Ids, row: Row]]
  PROVE  IInv'
<1>1. db' = db /\ req' = req /\ deployed' = deployed /\ log' = log
  OBVIOUS
<1>2. TypeOK'
  BY <1>1 DEF IInv, TypeOK, Stored, Now
<1>3. History'
  BY <1>1 DEF IInv, History, Now
<1>4. WellRead'
  BY <1>1 DEF IInv, WellRead, Now, Until, Seen, Answered, Attached
<1>5. AsDeployed'
  BY <1>1 DEF IInv, AsDeployed
<1>6. QED
  BY <1>2, <1>3, <1>4, <1>5 DEF IInv

(* Administrators keep the invariant. *)
LEMMA AdminKeeps == IInv /\ AdminStep => IInv'
<1> SUFFICES ASSUME IInv, AdminStep PROVE IInv'
    OBVIOUS
<1> USE SubscriptionAssumption
<1>1. /\ Database(db) /\ db.attached \subseteq DOMAIN db.rows
      /\ drafts \in [Admins -> {NoDraft} \cup [id: Ids, row: Row]]
  BY CurrentDatabase DEF IInv, TypeOK
<1>a. Table(db.rows) /\ \A i \in DOMAIN db.rows : i < db.next
  BY <1>1 DEF Database
<1>2. ASSUME NEW row \in NewRows, CreateListener(row) PROVE IInv'
  <2> DEFINE d == [db EXCEPT !.rows = With(@, db.next, row), !.next = @ + 1]
  <2>1. Commit(d) /\ drafts' = drafts /\ db.next \in Ids /\ row \in Row
    BY <1>2 DEF CreateListener
  <2>2. /\ Table(With(db.rows, db.next, row))
        /\ DOMAIN With(db.rows, db.next, row) = DOMAIN db.rows \cup {db.next}
    <3>1. db.next \in Ids /\ row \in Row
      BY <2>1
    <3> HIDE DEF d
    <3>2. QED
      BY ONLY <1>a, <3>1, WithRow
  <2>3. d = [db EXCEPT !.rows = With(db.rows, db.next, row), !.next = db.next + 1]
    OBVIOUS
  <2>4. Database(d) /\ d.attached \subseteq DOMAIN d.rows
    <3> HIDE DEF d
    <3>1. /\ d \in [rows: {With(db.rows, db.next, row)}, next: {db.next + 1},
                    attached: {db.attached}, enabled: {db.enabled},
                    pool: {db.pool}, chains: {db.chains}, core: {db.core}]
      BY <1>1, <2>3 DEF Database
    <3>2. \A j \in DOMAIN d.rows : j < d.next
      <4>1. d.rows = With(db.rows, db.next, row) /\ d.next = db.next + 1
        BY <3>1
      <4>2. db.next \in Nat
        BY <1>1 DEF Database
      <4>3. QED
        BY <1>a, <2>2, <4>1, <4>2, SMTT(30)
    <3>3. d.next \in Nat
      BY <2>1, <3>1 DEF Ids
    <3>4. QED
      BY <1>1, <2>2, <3>1, <3>2, <3>3 DEF Database
  <2> HIDE DEF d
  <2>5. QED
    BY <1>1, <2>1, <2>4, CommitKeeps
<1>3. ASSUME NEW a \in Admins, NEW i \in Ids, NEW patch \in Patches,
             UpdateReads(a, i, patch)
      PROVE  IInv'
  <2>1. Merge(patch, db.rows[i]) \in Row
    BY <1>1, <1>3, MergedIsRow DEF UpdateReads, Database, Table
  <2>2. drafts' \in [Admins -> {NoDraft} \cup [id: Ids, row: Row]]
    BY <1>1, <1>3, <2>1 DEF UpdateReads
  <2>3. UNCHANGED <<db, req, deployed, log>>
    BY <1>3 DEF UpdateReads
  <2>4. QED
    BY <2>2, <2>3, DraftsKeep
<1>4. ASSUME NEW a \in Admins, UpdateWrites(a) PROVE IInv'
  <2> DEFINE d == [db EXCEPT !.rows = With(@, drafts[a].id, drafts[a].row)]
  <2>1. drafts[a] \in [id: Ids, row: Row]
    BY <1>1, <1>4 DEF UpdateWrites
  <2>2. drafts' \in [Admins -> {NoDraft} \cup [id: Ids, row: Row]]
    BY <1>1, <1>4 DEF UpdateWrites
  <2>3. CASE drafts[a].id \in DOMAIN db.rows
    <3>1. Commit(d)
      BY <1>4, <2>3 DEF UpdateWrites
    <3>2. /\ Table(With(db.rows, drafts[a].id, drafts[a].row))
          /\ DOMAIN With(db.rows, drafts[a].id, drafts[a].row) = DOMAIN db.rows
      <4>1. /\ Table(db.rows) /\ drafts[a].id \in Ids /\ drafts[a].row \in Row
            /\ DOMAIN db.rows \cup {drafts[a].id} = DOMAIN db.rows
        BY <1>a, <2>1, <2>3
      <4> DEFINE i == drafts[a].id
                 row == drafts[a].row
      <4> HIDE DEF i, row
      <4>2. /\ Table(With(db.rows, i, row))
            /\ DOMAIN With(db.rows, i, row) = DOMAIN db.rows \cup {i}
        <5>1. Table(db.rows) /\ i \in Ids /\ row \in Row
          BY <4>1 DEF i, row
        <5>2. QED
          BY ONLY <5>1, WithRow
      <4>3. QED
        BY ONLY <4>1, <4>2 DEF i, row
    <3>3. Database(d) /\ d.attached \subseteq DOMAIN d.rows
      BY <1>1, <3>2 DEF Database
    <3> HIDE DEF d
    <3>4. QED
      BY <2>2, <3>1, <3>3, CommitKeeps
  <2>4. CASE drafts[a].id \notin DOMAIN db.rows
    <3>1. UNCHANGED <<db, req, deployed, log>>
      BY <1>4, <2>4 DEF UpdateWrites
    <3>2. QED
      BY <2>2, <3>1, DraftsKeep
  <2>5. QED
    BY <2>3, <2>4
<1>5. ASSUME NEW i \in Ids, DeleteListener(i) PROVE IInv'
  <2> DEFINE d == [db EXCEPT !.rows = [j \in DOMAIN @ \ {i} |-> @[j]],
                             !.attached = @ \ {i}]
  <2>1. Commit(d) /\ drafts' = drafts
    BY <1>5 DEF DeleteListener
  <2>2. Database(d) /\ d.attached \subseteq DOMAIN d.rows
    BY <1>1 DEF Database, Table
  <2> HIDE DEF d
  <2>3. QED
    BY <1>1, <2>1, <2>2, CommitKeeps
<1>6. ASSUME NEW i \in Ids, Attach(i) \/ Detach(i) PROVE IInv'
  <2>1. PICK s \in {db.attached \cup {i}, db.attached \ {i}} :
            /\ Commit([db EXCEPT !.attached = s]) /\ drafts' = drafts
            /\ s \subseteq DOMAIN db.rows
    BY <1>1, <1>6 DEF Attach, Detach
  <2> DEFINE d == [db EXCEPT !.attached = s]
  <2>2. Database(d) /\ d.attached \subseteq DOMAIN d.rows
    BY <1>1, <2>1 DEF Database
  <2>3. Commit(d)
    BY <2>1
  <2> HIDE DEF d
  <2>4. QED
    BY <1>1, <2>1, <2>2, <2>3, CommitKeeps
<1>7. ASSUME ToggleUser PROVE IInv'
  <2> DEFINE d == [db EXCEPT !.enabled = ~@]
  <2>1. Commit(d) /\ drafts' = drafts
    BY <1>7 DEF ToggleUser
  <2>2. Database(d) /\ d.attached \subseteq DOMAIN d.rows
    BY <1>1 DEF Database
  <2> HIDE DEF d
  <2>3. QED
    BY <1>1, <2>1, <2>2, CommitKeeps
<1>8. ASSUME NEW pool \in Pools, EditPool(pool) PROVE IInv'
  <2> DEFINE d == [db EXCEPT !.pool = pool]
  <2>1. Commit(d) /\ drafts' = drafts
    BY <1>8 DEF EditPool
  <2>2. Database(d) /\ d.attached \subseteq DOMAIN d.rows
    BY <1>1 DEF Database
  <2> HIDE DEF d
  <2>3. QED
    BY <1>1, <2>1, <2>2, CommitKeeps
<1>9. ASSUME NEW c \in Chains, ToggleChain(c) PROVE IInv'
  <2>1. PICK s \in SUBSET Chains :
            Commit([db EXCEPT !.chains = s]) /\ drafts' = drafts
    <3>1. db.chains \subseteq Chains
      BY <1>1 DEF Database
    <3> DEFINE s == IF c \in db.chains THEN db.chains \ {c} ELSE db.chains \cup {c}
    <3>2. Commit([db EXCEPT !.chains = s]) /\ drafts' = drafts
      BY <1>9 DEF ToggleChain
    <3>3. s \in SUBSET Chains
      BY <3>1
    <3> HIDE DEF s
    <3>4. QED
      BY <3>2, <3>3
  <2> DEFINE d == [db EXCEPT !.chains = s]
  <2>2. Database(d) /\ d.attached \subseteq DOMAIN d.rows
    BY <1>1, <2>1 DEF Database
  <2>3. Commit(d)
    BY <2>1
  <2> HIDE DEF d
  <2>4. QED
    BY <1>1, <2>1, <2>2, <2>3, CommitKeeps
<1>10. QED
  BY <1>2, <1>3, <1>4, <1>5, <1>6, <1>7, <1>8, <1>9 DEF AdminStep

(* The request's queries keep it. *)
LEMMA RequestKeeps == IInv /\ RequestStep => IInv'
<1> SUFFICES ASSUME IInv, RequestStep PROVE IInv'
    OBVIOUS
<1> USE SubscriptionAssumption
<1>1. /\ Database(db) /\ db.attached \subseteq DOMAIN db.rows
      /\ Now \in Nat /\ Now >= 1 /\ log[Now] = db
  BY CurrentDatabase
<1>2. UNCHANGED <<db, drafts, deployed, log>>
  BY DEF RequestStep, Subscribe, ReadIds, FindListener, Find, ReadPool, RequestFails
<1>3. Now' = Now /\ History' /\ AsDeployed'
  BY <1>2 DEF IInv, History, AsDeployed, Now
<1>4. ASSUME req' \in [step: {"idle", "ids", "find", "cdn", "done"},
                       todo: SUBSET Ids, got: {req'.got}, pool: Pools \cup {<<>>},
                       lost: BOOLEAN, start: Nat, end: Nat],
             Table(req'.got), WellRead'
      PROVE  IInv'
  BY <1>2, <1>3, <1>4 DEF IInv, TypeOK, Stored, Now
<1>5. /\ req \in [step: {"idle", "ids", "find", "cdn", "done"},
                  todo: SUBSET Ids, got: {req.got}, pool: Pools \cup {<<>>},
                  lost: BOOLEAN, start: Nat, end: Nat]
      /\ Table(req.got) /\ WellRead
  BY DEF IInv, TypeOK
<1>6. Table(<<>>) /\ DOMAIN <<>> = {}
  BY DEF Table
\* What the queries after the first have in common.
<1>7. ASSUME req.step \in {"ids", "find", "cdn"}, req'.step # "idle",
             req'.start = req.start, req'.step = "done" => req'.end = Now,
             \A i \in DOMAIN req'.got :
                 \/ i \in DOMAIN req.got /\ req'.got[i] = req.got[i]
                 \/ /\ i \in DOMAIN db.rows /\ req'.got[i] = db.rows[i]
                    /\ db.rows[i].enabled /\ Attached(i),
             \A i \in req'.todo : Attached(i),
             req'.step # "find" => req'.todo = {},
             req'.step # "ids",
             \A i \in Ids : (\A d \in Seen : Offered(d, i)) =>
                                i \in req'.todo \cup DOMAIN req'.got,
             req'.step = "done" /\ ~req'.lost => req'.pool = db.pool
      PROVE  WellRead'
  <2>1. Until = Now /\ Until' = Now /\ Seen' = Seen
    BY <1>2, <1>3, <1>7 DEF Until, Answered, Seen
  <2>2. req.start \in Nat /\ req.start >= 1 /\ req.start <= Now /\ log[req.start].enabled
    BY <1>5, <1>7, <2>1 DEF WellRead
  <2>3. db \in Seen
    BY <1>1, <2>1, <2>2 DEF Seen
  <2>4. \A i : Attached(i)' <=> Attached(i)
    BY <2>1 DEF Attached
  <2>5. \A i \in DOMAIN req'.got :
           /\ \E d \in Seen : /\ i \in DOMAIN d.rows
                              /\ d.rows[i] = req'.got[i] /\ d.rows[i].enabled
           /\ Attached(i)
    BY <1>5, <1>7, <2>3 DEF WellRead
  <2>6. Answered' /\ ~req'.lost => \E d \in Seen : d.pool = req'.pool
    BY <1>7, <2>3 DEF Answered
  <2>7. /\ \A i \in DOMAIN req'.got :
              /\ \E d \in Seen' : /\ i \in DOMAIN d.rows
                                  /\ d.rows[i] = req'.got[i] /\ d.rows[i].enabled
              /\ Attached(i)'
        /\ \A i \in req'.todo : Attached(i)'
        /\ \A i \in Ids : (\A d \in Seen' : Offered(d, i)) =>
                               i \in req'.todo \cup DOMAIN req'.got
        /\ Answered' /\ ~req'.lost => \E d \in Seen' : d.pool = req'.pool
    BY <1>7, <2>1, <2>4, <2>5, <2>6
  <2>8. /\ req'.start >= 1 /\ req'.start <= Until' /\ Until' <= Now'
        /\ log'[req'.start].enabled
    BY <1>1, <1>2, <1>3, <1>7, <2>1, <2>2
  <2>9. QED
    BY <1>7, <2>7, <2>8 DEF WellRead
<1>8. ASSUME Subscribe PROVE IInv'
  <2>1. /\ req' = [Idle EXCEPT !.step = "ids", !.start = Now] /\ db.enabled
    BY <1>8 DEF Subscribe
  <2>2. /\ req'.step = "ids" /\ req'.start = Now /\ req'.got = <<>>
        /\ req'.todo = {} /\ req'.lost = FALSE /\ req'.end = 1 /\ req'.pool = <<>>
    BY <2>1 DEF Idle
  <2>3. Until' = Now
    BY <1>3, <2>2 DEF Until, Answered
  <2>4. WellRead'
    BY <1>1, <1>2, <1>3, <1>6, <2>1, <2>2, <2>3 DEF WellRead, Answered
  <2>5. QED
    BY <1>1, <1>4, <1>6, <2>1, <2>2, <2>4 DEF Idle
<1>9. ASSUME ReadIds PROVE IInv'
  <2>1. /\ req.step = "ids"
        /\ req' = [req EXCEPT !.step = AfterIds(db.attached), !.todo = db.attached]
    BY <1>9 DEF ReadIds
  <2>2. /\ req'.step = AfterIds(db.attached) /\ req'.todo = db.attached
        /\ req'.got = req.got /\ req'.start = req.start /\ req'.end = req.end
        /\ req'.pool = req.pool /\ req'.lost = req.lost
    BY <1>5, <2>1
  <2>3. AfterIds(db.attached) \in {"find", "cdn"}
        /\ (AfterIds(db.attached) = "cdn" => db.attached = {})
    BY DEF AfterIds
  <2>4. db \in Seen /\ DOMAIN req.got = {}
    <3>1. Until = Now /\ req.start \in Nat /\ req.start <= Now
      BY <1>5, <2>1 DEF WellRead, Until, Answered
    <3>2. QED
      BY <1>1, <1>5, <2>1, <3>1 DEF Seen, WellRead
  <2>5. \A i \in db.attached : Attached(i)
    BY <2>4 DEF Attached
  <2>6. \A i \in Ids : (\A d \in Seen : Offered(d, i)) => i \in db.attached
    BY <2>4 DEF Offered
  <2>7. WellRead'
    BY <1>7, <2>1, <2>2, <2>3, <2>4, <2>5, <2>6
  <2>8. db.attached \subseteq Ids
    BY <1>1 DEF Database
  <2>9. QED
    BY <1>4, <1>5, <2>1, <2>2, <2>3, <2>7, <2>8
<1>10. ASSUME NEW i \in Ids, FindListener(i) PROVE IInv'
  <2> DEFINE got == IF i \in DOMAIN db.rows /\ db.rows[i].enabled
                    THEN With(req.got, i, db.rows[i]) ELSE req.got
  <2>1. /\ req.step = "find" /\ i \in req.todo
        /\ req' = [req EXCEPT !.todo = @ \ {i}, !.got = got,
                              !.step = AfterIds(req.todo \ {i})]
    BY <1>10 DEF FindListener, Find
  <2>2. /\ Table(got)
        /\ \A j \in DOMAIN got :
              \/ j \in DOMAIN req.got /\ got[j] = req.got[j]
              \/ /\ j = i /\ i \in DOMAIN db.rows /\ got[j] = db.rows[i]
                 /\ db.rows[i].enabled
        /\ DOMAIN req.got \subseteq DOMAIN got
        /\ i \in DOMAIN db.rows /\ db.rows[i].enabled => i \in DOMAIN got
    <3>1. CASE i \in DOMAIN db.rows /\ db.rows[i].enabled
      <4> DEFINE row == db.rows[i]
      <4>1. row \in Row /\ Table(req.got) /\ i \in Ids
        BY <1>1, <1>5, <3>1 DEF Database, Table
      <4> HIDE DEF row
      <4>2. /\ Table(With(req.got, i, row))
            /\ DOMAIN With(req.got, i, row) = DOMAIN req.got \cup {i}
            /\ \A j \in DOMAIN req.got \cup {i} :
                   With(req.got, i, row)[j] = IF j = i THEN row ELSE req.got[j]
        BY ONLY <4>1, WithRow
      <4>3. got = With(req.got, i, row)
        BY <3>1 DEF row
      <4>4. QED
        BY <3>1, <4>2, <4>3 DEF row
    <3>2. CASE ~(i \in DOMAIN db.rows /\ db.rows[i].enabled)
      BY <1>5, <3>2
    <3>3. QED
      BY <3>1, <3>2
  <2> HIDE DEF got
  <2>3. /\ req'.step = AfterIds(req.todo \ {i}) /\ req'.todo = req.todo \ {i}
        /\ req'.got = got /\ req'.start = req.start /\ req'.end = req.end
        /\ req'.pool = req.pool /\ req'.lost = req.lost
    BY <1>5, <2>1
  <2>4. AfterIds(req.todo \ {i}) \in {"find", "cdn"}
        /\ (AfterIds(req.todo \ {i}) = "cdn" => req.todo \ {i} = {})
    BY DEF AfterIds
  <2>5. /\ \A j \in req.todo : Attached(j)
        /\ \A j \in Ids : (\A d \in Seen : Offered(d, j)) =>
                              j \in req.todo \cup DOMAIN req.got
    BY <1>5, <2>1 DEF WellRead
  <2>6. db \in Seen
    <3>1. Until = Now /\ req.start \in Nat /\ req.start <= Now
      BY <1>5, <2>1 DEF WellRead, Until, Answered
    <3>2. QED
      BY <1>1, <3>1 DEF Seen
  <2>7. \A j \in Ids : (\A d \in Seen : Offered(d, j)) =>
                           j \in (req.todo \ {i}) \cup DOMAIN got
    BY <2>2, <2>5, <2>6 DEF Offered
  <2>8. WellRead'
    BY <1>7, <2>1, <2>2, <2>3, <2>4, <2>5, <2>7
  <2>9. QED
    BY <1>4, <1>5, <2>1, <2>2, <2>3, <2>4, <2>8
<1>11. ASSUME NEW ok \in BOOLEAN, ReadPool(ok) PROVE IInv'
  <2>1. /\ req.step = "cdn"
        /\ req' = [req EXCEPT !.pool = IF ok THEN db.pool ELSE <<>>,
                              !.lost = ~ok, !.step = "done", !.end = Now]
    BY <1>11 DEF ReadPool
  <2>2. /\ req'.step = "done" /\ req'.todo = req.todo /\ req'.got = req.got
        /\ req'.start = req.start /\ req'.end = Now /\ req'.lost = ~ok
        /\ req'.pool = (IF ok THEN db.pool ELSE <<>>)
    BY <1>5, <2>1
  <2>3. /\ req.todo = {}
        /\ \A j \in Ids : (\A d \in Seen : Offered(d, j)) =>
                              j \in req.todo \cup DOMAIN req.got
    BY <1>5, <2>1 DEF WellRead
  <2>4. WellRead'
    BY <1>7, <2>1, <2>2, <2>3
  <2>5. db.pool \in Pools
    BY <1>1 DEF Database
  <2>6. QED
    BY <1>1, <1>4, <1>5, <2>1, <2>2, <2>4, <2>5
<1>12. ASSUME RequestFails PROVE IInv'
  <2>1. req' = Idle
    BY <1>12 DEF RequestFails
  <2>2. WellRead'
    BY <2>1 DEF WellRead, Idle
  <2>3. QED
    BY <1>4, <1>6, <2>1, <2>2 DEF Idle
<1>13. QED
  BY <1>8, <1>9, <1>10, <1>11, <1>12 DEF RequestStep

(* And so does a deployment. *)
LEMMA DeployKeeps == IInv /\ Deploy => IInv'
<1> SUFFICES ASSUME IInv, Deploy PROVE IInv'
    OBVIOUS
<1>1. Now \in Nat /\ Now >= 1 /\ log[Now] = db
  BY CurrentDatabase
<1>2. /\ UNCHANGED <<db, drafts, req, log>>
      /\ deployed' = [config |-> NodeConfig(db), at |-> Now]
      /\ \A i \in OnNode(db) : ~Refuses(db.core, db.rows[i])
  BY DEF Deploy
<1>3. TypeOK'
  BY <1>1, <1>2 DEF IInv, TypeOK, Stored, Now
<1>4. History'
  BY <1>2 DEF IInv, History, Now
<1>5. WellRead'
  BY <1>2 DEF IInv, WellRead, Now, Until, Seen, Answered, Attached
<1>6. AsDeployed'
  BY <1>1, <1>2 DEF AsDeployed
<1>7. QED
  BY <1>3, <1>4, <1>5, <1>6 DEF IInv

(* The inductive invariant. *)
THEOREM SubscriptionInvariant == Spec => []IInv
<1>1. IInv /\ UNCHANGED vars => IInv'
  BY DraftsKeep DEF vars, IInv, TypeOK
<1>2. IInv /\ [Next]_vars => IInv'
  BY <1>1, AdminKeeps, RequestKeeps, DeployKeeps DEF Next
<1>3. QED
  BY <1>2, InitSubscription, PTL DEF Spec
-----------------------------------------------------------------------------
(* Whatever an answer lists was enabled in that version, and attached, at some  *)
(* moment of the request, whatever edits went on between its queries.           *)
THEOREM AnswersAreNotStale == Spec => []NothingStale
<1>1. IInv => NothingStale
  BY DEF IInv, WellRead, NothingStale, Answered, Attached, Listed
<1>2. QED
  BY <1>1, SubscriptionInvariant, PTL

(* What was attached and enabled during the whole request is in the answer. *)
THEOREM AnswersAreComplete == Spec => []NothingMissing
<1>1. ASSUME IInv PROVE NothingMissing
  <2> SUFFICES ASSUME Answered, NEW i \in Ids, \A d \in Seen : Offered(d, i)
               PROVE  i \in Listed
      BY DEF NothingMissing
  <2>1. i \in DOMAIN req.got
    BY <1>1 DEF IInv, WellRead, Answered
  <2>2. PICK d \in Seen : d.rows[i] = req.got[i]
    BY <1>1, <2>1 DEF IInv, WellRead, Answered
  <2>3. Emitted(d.rows[i])
    BY <2>2 DEF Offered
  <2>4. QED
    BY <2>1, <2>2, <2>3 DEF Listed
<1>2. QED
  BY <1>1, SubscriptionInvariant, PTL

(* When the pool was read, a CDN listener without public_host is dialled at an  *)
(* endpoint enabled during the request, its own if that stayed enabled.         *)
THEOREM CdnListenersDialLiveEdges == Spec => []DialsLiveEdge
<1>1. ASSUME IInv PROVE DialsLiveEdge
  <2> SUFFICES ASSUME Answered, ~req.lost, NEW i \in Listed, NEW format \in Formats,
                      req.got[i].cdn # "off",
                      format # "base64" \/ "public_host" \notin req.got[i].params
               PROVE  LET l == req.got[i]  dial == Answer(format, i).dial
                      IN  /\ \E d \in Seen : d.pool = <<>> \/ InPool(dial, d)
                          /\ (\A d \in Seen : InPool(l.cdn, d)) => dial = l.cdn
      BY DEF DialsLiveEdge
  <2> DEFINE l == req.got[i]
             dial == Answer(format, i).dial
  <2>1. l \in Row /\ Emitted(l)
    BY <1>1 DEF IInv, TypeOK, Table, Listed
  <2>2. dial = EffectiveHost(l, req.pool)
    BY <2>1, DialIsEffectiveHost DEF Answer
  <2>3. PICK d \in Seen : d.pool = req.pool
    BY <1>1 DEF IInv, WellRead, Answered
  <2>4. req.pool \in Seq(CdnEndpoints)
    <3>1. req.pool \in Pools \/ req.pool = <<>>
      BY <1>1 DEF IInv, TypeOK
    <3>2. <<>> \in Seq(CdnEndpoints)
      OBVIOUS
    <3>3. Pools \subseteq Seq(CdnEndpoints)
      BY SubscriptionAssumption
    <3>4. CASE req.pool \in Pools
      BY <3>3, <3>4
    <3>5. CASE req.pool = <<>>
      BY <3>2, <3>5
    <3>6. QED
      BY <3>1, <3>4, <3>5
  <2>5. req.pool # <<>> => 1 \in DOMAIN req.pool
    BY <2>4
  <2>6. d.pool = <<>> \/ InPool(dial, d)
    BY <2>2, <2>3, <2>5 DEF EffectiveHost, InPool
  <2>7. InPool(l.cdn, d) => dial = l.cdn
    <3> HAVE InPool(l.cdn, d)
    <3>1. PICK j \in DOMAIN req.pool : req.pool[j] = l.cdn
      BY <2>3 DEF InPool
    <3>2. req.pool # <<>>
      BY <3>1
    <3>3. QED
      BY <2>2, <3>1, <3>2 DEF EffectiveHost
  <2>8. QED
    BY <2>6, <2>7
<1>2. QED
  BY <1>1, SubscriptionInvariant, PTL

(* In a quiet period, every entry of a covered combination gets the user        *)
(* through the inbound that the node runs.                                      *)
THEOREM EntriesReachTheNode == Spec => []EntriesReachNode
<1>1. ASSUME IInv PROVE EntriesReachNode
  <2> SUFFICES ASSUME Answered, Quiet, NEW i \in Listed, NEW format \in Formats,
                      req.got[i].node, Covered(req.got[i])
               PROVE  /\ i \in DOMAIN deployed.config
                      /\ Reaches(Answer(format, i), User, deployed.config[i].inbound)
      BY DEF EntriesReachNode
  <2> DEFINE d == log[deployed.at]
             l == d.rows[i]
  <2>1. req.start \in Nat /\ req.start >= 1 /\ Seen = {d} /\ d.enabled
    BY <1>1 DEF IInv, TypeOK, WellRead, Quiet, Until, Seen, Answered
  <2>2. /\ i \in DOMAIN d.rows /\ l = req.got[i] /\ l.enabled /\ i \in d.attached
    BY <1>1, <2>1 DEF IInv, WellRead, Answered, Attached, Listed
  <2>3. deployed.at > 0
    BY <2>1 DEF Quiet
  <2>4. i \in OnNode(d)
    BY <2>2 DEF OnNode
  <2>5. deployed.config = NodeConfig(d) /\ ~Refuses(d.core, l)
    BY <1>1, <2>3, <2>4 DEF IInv, AsDeployed
  <2>6. l.core = d.core
    BY <2>5 DEF Refuses
  <2>7. /\ i \in DOMAIN deployed.config
        /\ deployed.config[i].inbound = Inbound(l.core, l, Clients(d, i))
    BY <2>4, <2>5, <2>6 DEF NodeConfig
  <2>8. User \in Clients(d, i)
    BY <2>1, <2>2 DEF Clients
  <2>9. l \in Row /\ Covered(l)
    BY <1>1, <2>2 DEF IInv, TypeOK, Table, Listed
  <2>10. Reaches(EntryFor(format, l, req.pool), User, Inbound(l.core, l, Clients(d, i)))
    BY <2>8, <2>9, CoveredReaches
  <2>11. QED
    BY <2>2, <2>7, <2>10 DEF Answer
<1>2. QED
  BY <1>1, SubscriptionInvariant, PTL

(* Every inbound deployed leaves through the enabled chain proxy its listener   *)
(* names, or directly, if its name is its own and not "api".                    *)
THEOREM InboundsLeaveAsConfigured == Spec => []RoutedAsConfigured
<1>1. ASSUME IInv PROVE RoutedAsConfigured
  <2> DEFINE d == log[deployed.at]
             rows == [i \in OnNode(d) |-> d.rows[i]]
  <2> SUFFICES ASSUME deployed.at > 0, NEW i \in OnNode(d),
                      \A j \in OnNode(d) \ {i} : d.rows[j].name # d.rows[i].name,
                      d.rows[i].name # "api"
               PROVE  deployed.config[i].exit =
                         IF d.rows[i].chain \in d.chains THEN d.rows[i].chain
                                                         ELSE "direct"
      BY DEF RoutedAsConfigured
  <2>1. deployed.config[i].exit = Exit(d.core, rows, d.chains, i)
    BY <1>1 DEF IInv, AsDeployed, NodeConfig
  <2>2. Database(d)
    BY <1>1 DEF IInv, TypeOK
  <2>3. None \notin d.chains /\ OnNode(d) \subseteq Ids
    BY <2>2, SubscriptionAssumption DEF Database, Table, OnNode
  <2> DEFINE same == {j \in Rules(rows, d.chains) : rows[j].name = rows[i].name}
  <2>4. Exit(d.core, rows, d.chains, i) =
            IF same = {} THEN "direct"
            ELSE rows[CHOOSE j \in same : \A k \in same : j <= k].chain
    BY DEF Exit
  <2>5. CASE d.rows[i].chain \in d.chains
    <3>1. same = {i}
      BY <2>3, <2>5 DEF Rules, ChainOf
    <3> HIDE DEF same, rows
    <3>2. \A j \in same : j = i /\ i \in Int
      BY <2>3, <3>1 DEF Ids
    <3>3. \E j \in same : \A k \in same : j <= k
      BY <3>1, <3>2
    <3>4. (CHOOSE j \in same : \A k \in same : j <= k) \in same
      BY <3>3
    <3>5. (CHOOSE j \in same : \A k \in same : j <= k) = i
      BY <3>2, <3>4
    <3>6. QED
      BY <2>1, <2>4, <2>5, <3>1, <3>5 DEF rows
  <2>6. CASE d.rows[i].chain \notin d.chains
    <3>1. same = {}
      BY <2>3, <2>6 DEF Rules, ChainOf
    <3>2. QED
      BY <2>1, <2>4, <2>6, <3>1
  <2>7. QED
    BY <2>5, <2>6
<1>2. QED
  BY <1>1, SubscriptionInvariant, PTL

(* No update brings a deleted listener back, and nobody is attached to one. *)
THEOREM DeletedListenersStayDeleted == Spec => DeletedStaysDeleted
<1> DEFINE A == /\ \A i \in Ids : i < db.next /\ i \in DOMAIN db'.rows =>
                       i \in DOMAIN db.rows
                /\ db'.attached \subseteq DOMAIN db'.rows
<1>1. ASSUME IInv, IInv', [Next]_vars PROVE [A]_vars
  <2> SUFFICES ASSUME Next PROVE A
      BY <1>1
  <2>1. db'.attached \subseteq DOMAIN db'.rows
    <3>1. \A j \in (1..Now)' : log'[j].attached \subseteq DOMAIN log'[j].rows
      BY <1>1 DEF IInv, History
    <3>2. Now' \in Nat /\ Now' >= 1 /\ log'[Now'] = db'
      BY <1>1 DEF IInv, TypeOK, History, Now
    <3>3. QED
      BY <3>1, <3>2
  <2>2. Database(db)
    BY <1>1, CurrentDatabase
  <2>3. CASE AdminStep
    <3> USE <2>1, <2>2 DEF Database, Commit
    <3>1. ASSUME NEW row \in NewRows, CreateListener(row) PROVE A
      <4>1. db'.rows = With(db.rows, db.next, row) /\ db.next \in Nat
        BY <3>1 DEF CreateListener
      <4>2. DOMAIN db'.rows = DOMAIN db.rows \cup {db.next}
        BY <4>1 DEF With
      <4>3. QED
        BY <4>1, <4>2 DEF Ids
    <3>2. ASSUME NEW a \in Admins, UpdateWrites(a) PROVE A
      <4>1. CASE drafts[a].id \in DOMAIN db.rows
        <5>1. db'.rows = With(db.rows, drafts[a].id, drafts[a].row)
          BY <3>2, <4>1 DEF UpdateWrites
        <5>2. DOMAIN db'.rows = DOMAIN db.rows
          BY <4>1, <5>1 DEF With
        <5>3. QED
          BY <5>2
      <4>2. CASE drafts[a].id \notin DOMAIN db.rows
        BY <3>2, <4>2 DEF UpdateWrites
      <4>3. QED
        BY <4>1, <4>2
    <3>3. ASSUME NEW i \in Ids, DeleteListener(i) PROVE A
      BY <3>3 DEF DeleteListener
    <3>4. CASE \/ \E a \in Admins, i \in Ids, patch \in Patches :
                     UpdateReads(a, i, patch)
               \/ \E i \in Ids : Attach(i) \/ Detach(i)
               \/ ToggleUser
               \/ \E pool \in Pools : EditPool(pool)
               \/ \E c \in Chains : ToggleChain(c)
      <4>1. db'.rows = db.rows
        BY <3>4 DEF UpdateReads, Attach, Detach, ToggleUser, EditPool, ToggleChain
      <4>2. QED
        BY <4>1
    <3>5. QED
      BY <2>3, <3>1, <3>2, <3>3, <3>4 DEF AdminStep
  <2>4. CASE RequestStep \/ Deploy
    BY <2>1, <2>4 DEF RequestStep, Subscribe, ReadIds, FindListener, Find, ReadPool,
       RequestFails, Deploy
  <2>5. QED
    BY <2>3, <2>4 DEF Next
<1>2. QED
  BY <1>1, SubscriptionInvariant, PTL DEF Spec, DeletedStaysDeleted
=============================================================================
