----------------------------- MODULE Subscription -----------------------------
(***************************************************************************)
(* What a user's client is told, against what the node runs: the handler   *)
(* of GET /sub/{token}, which assembles its answer from several queries    *)
(* while administrators edit listeners, attachments, the user, the CDN     *)
(* pool and the chain proxies; and the config of the node, rendered from   *)
(* the same rows. One user and one node. Requests only read, so one at a   *)
(* time shows every answer. A deployment is one step: NodeDeploy shows     *)
(* that one during which nobody edits is as good as that.                  *)
(***************************************************************************)
EXTENDS Render, Sequences

CONSTANTS
    MaxId,       \* bound: listeners ever created
    Admins,      \* administrators editing listeners at the same time
    FirstRows,   \* the listener tables to start from, as sequences of rows
    NewRows,     \* inputs of POST /api/listeners
    Patches,     \* inputs of PUT /api/listeners/:id: the fields given
    Pools,       \* what edits may leave as CDN pool: sequences of endpoints
    MaxEdits     \* bound: committed edits

Ids  == 1..MaxId
User == "user"

\* A row: the fields that rendering reads of it (cdn: cdn_enabled and
\* cdn_endpoint_id, "top" without an id; chain: params.chain_proxy_id), its
\* name, is it assigned to the node, is it enabled.
Row == [core: Cores, protocol: Protocols, transport: Transports,
        tls_mode: TlsModes, params: SUBSET Params,
        cdn: {"off", "top"} \cup CdnEndpoints, chain: Chains \cup {None},
        name: STRING, node: BOOLEAN, enabled: BOOLEAN]

\* UpdateListener: the fields given override those of the row.
Field(f, patch, row) == IF f \in DOMAIN patch THEN patch[f] ELSE row[f]

Merge(patch, row) ==
    [core      |-> Field("core", patch, row),
     protocol  |-> Field("protocol", patch, row),
     transport |-> Field("transport", patch, row),
     tls_mode  |-> Field("tls_mode", patch, row),
     params    |-> Field("params", patch, row),
     cdn       |-> Field("cdn", patch, row),
     chain     |-> Field("chain", patch, row),
     name      |-> Field("name", patch, row),
     node      |-> Field("node", patch, row),
     enabled   |-> Field("enabled", patch, row)]

FieldType(f) ==
    CASE f = "core"      -> Cores
      [] f = "protocol"  -> Protocols
      [] f = "transport" -> Transports
      [] f = "tls_mode"  -> TlsModes
      [] f = "params"    -> SUBSET Params
      [] f = "cdn"       -> {"off", "top"} \cup CdnEndpoints
      [] f = "chain"     -> Chains \cup {None}
      [] f = "name"      -> STRING
      [] f \in {"node", "enabled"} -> BOOLEAN

ASSUME SubscriptionAssumption ==
    /\ MaxId \in Nat /\ MaxEdits \in Nat
    /\ None \notin Chains
    /\ FirstRows \subseteq Seq(Row)
    /\ \A rows \in FirstRows : Len(rows) <= MaxId
    /\ NewRows \subseteq Row
    /\ \A patch \in Patches : \A f \in DOMAIN patch : patch[f] \in FieldType(f)
    /\ Pools \subseteq Seq(CdnEndpoints)

VARIABLES
    db,       \* [rows, next, attached, enabled, pool, chains, core]
    drafts,   \* of each administrator: the update that has read a row (id 0: none)
    req,      \* the subscription request
    deployed, \* [config, at]: the node's inbounds and exits; when deployed
    log       \* every database state so far (history, read by no action)

vars == <<db, drafts, req, deployed, log>>

Now == Len(log)

NoDraft == [id |-> 0, row |-> <<>>]

Idle == [step |-> "idle", todo |-> {}, got |-> <<>>, pool |-> <<>>,
         lost |-> FALSE, start |-> 1, end |-> 1]

Init ==
    /\ \E rows \in FirstRows, pool \in Pools, core \in Cores :
           db = [rows |-> rows, next |-> Len(rows) + 1,
                 attached |-> DOMAIN rows, enabled |-> TRUE,
                 pool |-> pool, chains |-> Chains, core |-> core]
    /\ drafts = [a \in Admins |-> NoDraft]
    /\ req = Idle
    /\ deployed = [config |-> <<>>, at |-> 0]
    /\ log = <<db>>

\* f with x mapped to y.
With(f, x, y) == [z \in DOMAIN f \cup {x} |-> IF z = x THEN y ELSE f[z]]
-----------------------------------------------------------------------------
(* Administrators. *)

Commit(d) ==
    /\ Now <= MaxEdits
    /\ db' = d
    /\ log' = Append(log, d)
    /\ UNCHANGED <<req, deployed>>

\* INSERT with a fresh AUTOINCREMENT id.
CreateListener(row) ==
    /\ db.next \in Ids
    /\ Commit([db EXCEPT !.rows = With(@, db.next, row), !.next = @ + 1])
    /\ UNCHANGED drafts

\* ListenerRepo::update reads the row and merges the patch into its copy ...
UpdateReads(a, i, patch) ==
    /\ drafts[a] = NoDraft
    /\ i \in DOMAIN db.rows
    /\ drafts' = [drafts EXCEPT ![a] =
                     [id |-> i, row |-> Merge(patch, db.rows[i])]]
    /\ UNCHANGED <<db, req, deployed, log>>

\* Faulty variant, used by no action: INSERT OR REPLACE instead of UPDATE.
UpdateReplaces(a) ==
    /\ drafts[a] # NoDraft
    /\ drafts' = [drafts EXCEPT ![a] = NoDraft]
    /\ Commit([db EXCEPT !.rows = With(@, drafts[a].id, drafts[a].row)])

\* ... and writes every column of it; a row deleted since is answered 404.
UpdateWrites(a) ==
    /\ drafts[a] # NoDraft
    /\ drafts' = [drafts EXCEPT ![a] = NoDraft]
    /\ IF drafts[a].id \in DOMAIN db.rows
       THEN Commit([db EXCEPT !.rows = With(@, drafts[a].id, drafts[a].row)])
       ELSE UNCHANGED <<db, req, deployed, log>>

\* Faulty variant, used by no action: foreign keys are off, as SQLite has them
\* unless a connection asks for them.
DeleteRowOnly(i) ==
    /\ i \in DOMAIN db.rows
    /\ Commit([db EXCEPT !.rows = [j \in DOMAIN @ \ {i} |-> @[j]]])
    /\ UNCHANGED drafts

\* The row's attachments are deleted with it (ON DELETE CASCADE).
DeleteListener(i) ==
    /\ i \in DOMAIN db.rows
    /\ Commit([db EXCEPT !.rows = [j \in DOMAIN @ \ {i} |-> @[j]],
                         !.attached = @ \ {i}])
    /\ UNCHANGED drafts

\* attach answers 404, or fails on the foreign key, without the row.
Attach(i) ==
    /\ i \in DOMAIN db.rows \ db.attached
    /\ Commit([db EXCEPT !.attached = @ \cup {i}])
    /\ UNCHANGED drafts

Detach(i) ==
    /\ i \in db.attached
    /\ Commit([db EXCEPT !.attached = @ \ {i}])
    /\ UNCHANGED drafts

\* kick, enable and the collector's cut-off. (That a kick also replaces the
\* token, and how updates race over both, is in TrafficQuota.)
ToggleUser ==
    /\ Commit([db EXCEPT !.enabled = ~@])
    /\ UNCHANGED drafts

EditPool(pool) ==
    /\ pool # db.pool
    /\ Commit([db EXCEPT !.pool = pool])
    /\ UNCHANGED drafts

ToggleChain(c) ==
    /\ Commit([db EXCEPT !.chains = IF c \in @ THEN @ \ {c} ELSE @ \cup {c}])
    /\ UNCHANGED drafts
-----------------------------------------------------------------------------
(* The handler: one action per query. *)

\* A request with the current token of an enabled user is let in; any other is
\* answered 404 or 403, which changes nothing here.
Subscribe ==
    /\ req.step \in {"idle", "done"}
    /\ db.enabled
    /\ req' = [Idle EXCEPT !.step = "ids", !.start = Now]
    /\ UNCHANGED <<db, drafts, deployed, log>>

AfterIds(todo) == IF todo = {} THEN "cdn" ELSE "find"

ReadIds ==
    /\ req.step = "ids"
    /\ req' = [req EXCEPT !.step = AfterIds(db.attached), !.todo = db.attached]
    /\ UNCHANGED <<db, drafts, deployed, log>>

\* The listeners are read one by one, in the order of their ids.
Find(i, got) ==
    /\ req.step = "find"
    /\ i \in req.todo
    /\ \A j \in req.todo : i <= j
    /\ req' = [req EXCEPT !.todo = @ \ {i}, !.got = got,
                          !.step = AfterIds(req.todo \ {i})]
    /\ UNCHANGED <<db, drafts, deployed, log>>

\* Faulty variants, used by no action: disabled listeners are kept; the loop ends
\* at the first listener that is not kept.
FindAnyListener(i) ==
    Find(i, IF i \in DOMAIN db.rows THEN With(req.got, i, db.rows[i])
                                     ELSE req.got)

FindUntilDisabled(i) ==
    IF i \in DOMAIN db.rows /\ db.rows[i].enabled
    THEN Find(i, With(req.got, i, db.rows[i]))
    ELSE /\ req.step = "find"
         /\ i \in req.todo /\ \A j \in req.todo : i <= j
         /\ req' = [req EXCEPT !.todo = {}, !.step = "cdn"]
         /\ UNCHANGED <<db, drafts, deployed, log>>

\* listeners.find; a row that is there and enabled is kept.
FindListener(i) ==
    Find(i, IF i \in DOMAIN db.rows /\ db.rows[i].enabled
            THEN With(req.got, i, db.rows[i]) ELSE req.got)

\* cdn_endpoints.list() ... unwrap_or_default(); then the answer is rendered.
ReadPool(ok) ==
    /\ req.step = "cdn"
    /\ req' = [req EXCEPT !.pool = IF ok THEN db.pool ELSE <<>>,
                          !.lost = ~ok, !.step = "done", !.end = Now]
    /\ UNCHANGED <<db, drafts, deployed, log>>

\* Any other failing query is an error for the client.
RequestFails ==
    /\ req.step \in {"ids", "find"}
    /\ req' = Idle
    /\ UNCHANGED <<db, drafts, deployed, log>>

\* The listeners of the answer, and the entry of each in a given format: the
\* query parameter only decides how the rows read are rendered.
Listed == {i \in DOMAIN req.got : Emitted(req.got[i])}
Answer(format, i) == EntryFor(format, req.got[i], req.pool)
-----------------------------------------------------------------------------
(* The node. *)

\* list_for_node, and list_for_listener.
OnNode(d) == {i \in DOMAIN d.rows : d.rows[i].node /\ d.rows[i].enabled}
Clients(d, i) == IF d.enabled /\ i \in d.attached THEN {User} ELSE {}

\* render_node_config.
NodeConfig(d) ==
    LET rows == [i \in OnNode(d) |-> d.rows[i]]
    IN  [i \in OnNode(d) |->
            [inbound |-> Inbound(d.core, d.rows[i], Clients(d, i)),
             exit    |-> Exit(d.core, rows, d.chains, i)]]

\* apply_config: one listener the adapter refuses fails the whole config.
Deploy ==
    /\ \A i \in OnNode(db) : ~Refuses(db.core, db.rows[i])
    /\ deployed' = [config |-> NodeConfig(db), at |-> Now]
    /\ UNCHANGED <<db, drafts, req, log>>
-----------------------------------------------------------------------------
AdminStep ==
    \/ \E row \in NewRows : CreateListener(row)
    \/ \E a \in Admins :
          \/ \E i \in Ids, patch \in Patches : UpdateReads(a, i, patch)
          \/ UpdateWrites(a)
    \/ \E i \in Ids : DeleteListener(i) \/ Attach(i) \/ Detach(i)
    \/ ToggleUser
    \/ \E pool \in Pools : EditPool(pool)
    \/ \E c \in Chains : ToggleChain(c)

RequestStep ==
    \/ Subscribe \/ ReadIds
    \/ \E i \in Ids : FindListener(i)
    \/ \E ok \in BOOLEAN : ReadPool(ok)
    \/ RequestFails

Next == AdminStep \/ RequestStep \/ Deploy

Spec == Init /\ [][Next]_vars
-----------------------------------------------------------------------------
Table(f) ==
    /\ f = [i \in DOMAIN f |-> f[i]]
    /\ DOMAIN f \subseteq Ids /\ \A i \in DOMAIN f : f[i] \in Row

Database(d) ==
    /\ d \in [rows: {d.rows}, next: Nat, attached: SUBSET Ids, enabled: BOOLEAN,
              pool: Pools, chains: SUBSET Chains, core: Cores]
    /\ Table(d.rows) /\ \A i \in DOMAIN d.rows : i < d.next

Stored == {log[j] : j \in DOMAIN log}

TypeOK ==
    /\ log \in Seq(Stored)
    /\ \A j \in 1..Now : Database(log[j])
    /\ drafts \in [Admins -> {NoDraft} \cup [id: Ids, row: Row]]
    /\ req \in [step: {"idle", "ids", "find", "cdn", "done"}, todo: SUBSET Ids,
                got: {req.got}, pool: Pools \cup {<<>>}, lost: BOOLEAN,
                start: Nat, end: Nat]
    /\ Table(req.got)
    /\ deployed \in [config: {deployed.config}, at: 0..Now]

Answered == req.step = "done"

\* The database states between the first and the last query of the request.
Until == IF Answered THEN req.end ELSE Now
Seen  == {log[j] : j \in req.start..Until}

\* Nobody edited the database between the request and the last deployment.
Quiet == req.start = req.end /\ deployed.at = req.end

\* An answer lists nothing that was not there: every listener in it was enabled
\* in the version shown, and attached, at some moment of the request - although
\* subscribe() reads these in separate queries.
NothingStale ==
    Answered => \A i \in Listed :
        /\ \E d \in Seen : /\ i \in DOMAIN d.rows
                           /\ d.rows[i] = req.got[i] /\ d.rows[i].enabled
        /\ \E d \in Seen : i \in d.attached

\* And it leaves nothing out: a listener attached and enabled during the whole
\* request is in it, unless there is no builder for its protocol.
Offered(d, i) ==
    /\ i \in d.attached \cap DOMAIN d.rows
    /\ d.rows[i].enabled /\ Emitted(d.rows[i])

NothingMissing ==
    Answered => \A i \in Ids : (\A d \in Seen : Offered(d, i)) => i \in Listed

\* What the handler holds between its queries, and the node after a deployment,
\* is what some state of the log had: the inductive invariant.
History ==
    /\ Now >= 1 /\ log[Now] = db
    /\ \A j \in 1..Now : log[j].attached \subseteq DOMAIN log[j].rows

Attached(i) == \E d \in Seen : i \in d.attached

WellRead ==
    req.step # "idle" =>
        /\ req.start >= 1 /\ req.start <= Until /\ Until <= Now
        /\ log[req.start].enabled
        /\ req.step # "find" => req.todo = {}
        /\ req.step = "ids" => DOMAIN req.got = {}
        /\ \A i \in DOMAIN req.got :
              /\ \E d \in Seen : /\ i \in DOMAIN d.rows
                                 /\ d.rows[i] = req.got[i] /\ d.rows[i].enabled
              /\ Attached(i)
        /\ \A i \in req.todo : Attached(i)
        /\ req.step # "ids" => \A i \in Ids :
              (\A d \in Seen : Offered(d, i)) => i \in req.todo \cup DOMAIN req.got
        /\ Answered /\ ~req.lost => \E d \in Seen : d.pool = req.pool

AsDeployed ==
    deployed.at > 0 =>
        LET d == log[deployed.at]
        IN  /\ \A i \in OnNode(d) : ~Refuses(d.core, d.rows[i])
            /\ deployed.config = NodeConfig(d)

IInv == TypeOK /\ History /\ WellRead /\ AsDeployed

InPool(host, d) == \E j \in DOMAIN d.pool : d.pool[j] = host

\* subscribe()'s comment on the pool, for the answers where build_uri does not
\* override the host: a CDN listener is dialled at an endpoint that was enabled
\* during the request, the pinned one if that stayed enabled; the listener's
\* own host only if the pool was empty at some moment.
DialsLiveEdge ==
    Answered /\ ~req.lost => \A i \in Listed, format \in Formats :
        LET l == req.got[i]  dial == Answer(format, i).dial
        IN  /\ l.cdn # "off"
            /\ format # "base64" \/ "public_host" \notin l.params
            => /\ \E d \in Seen : d.pool = <<>> \/ InPool(dial, d)
               /\ (\A d \in Seen : InPool(l.cdn, d)) => dial = l.cdn

\* The two renderers fit together: in a quiet period, whatever an answer of any
\* format says of a listener on the node - within the combinations that the
\* adapters list as covered - gets this user through the inbound deployed.
EntriesReachNode ==
    Answered /\ Quiet => \A i \in Listed, format \in Formats :
        req.got[i].node /\ Covered(req.got[i]) =>
            /\ i \in DOMAIN deployed.config
            /\ Reaches(Answer(format, i), User, deployed.config[i].inbound)

\* wrap_config: every inbound deployed leaves through the chain proxy its
\* listener names, if that is enabled, and directly otherwise - provided that
\* its name is not shared on the node and is not xray's "api".
RoutedAsConfigured ==
    deployed.at > 0 =>
        LET d == log[deployed.at]
        IN  \A i \in OnNode(d) :
                /\ \A j \in OnNode(d) \ {i} : d.rows[j].name # d.rows[i].name
                /\ d.rows[i].name # "api"
                => deployed.config[i].exit =
                       (IF d.rows[i].chain \in d.chains THEN d.rows[i].chain
                                                        ELSE "direct")

\* Listeners that are deleted do not come back, whatever updates had read their
\* rows, and nobody stays attached to one.
DeletedStaysDeleted ==
    [][/\ \A i \in Ids : i < db.next /\ i \in DOMAIN db'.rows => i \in DOMAIN db.rows
       /\ db'.attached \subseteq DOMAIN db'.rows]_vars

\* subscribe()'s comment: "Listeners flagged `cdn_enabled` get their connect host
\* swapped to one of these"; here in every format, whatever the listener's params,
\* whenever the pool was read and had an endpoint.
CdnListenersDialThePool ==
    Answered /\ ~req.lost => \A i \in Listed, format \in Formats :
        req.got[i].cdn # "off" /\ (\A d \in Seen : d.pool # <<>>) =>
            \E d \in Seen : InPool(Answer(format, i).dial, d)
=============================================================================
