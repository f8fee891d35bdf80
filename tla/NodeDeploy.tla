------------------------------ MODULE NodeDeploy ------------------------------
(***************************************************************************)
(* What executing tasks does to one node: the executor's four scripts      *)
(* (apply_config, provision, restart, check_health) against the panel's    *)
(* database, which administrators keep editing, and against the node's     *)
(* config file and service, reached over SSH commands that may fail, lose  *)
(* their answer, or time out while the node still executes them.           *)
(*                                                                         *)
(* One task runs at a time (TaskQueue); every await of the executor is a   *)
(* step of its own here.                                                   *)
(***************************************************************************)
EXTENDS Integers, Sequences, FiniteSets

CONSTANTS
    Listeners,      \* the listeners of the node that may exist
    Users,          \* proxy users
    Chained,        \* listeners whose params name a chain proxy
    Rejected,       \* listeners the core refuses to start with
    FirstDatabases, \* the databases to start from
    NoConfig,       \* no config file; a service that is not running
    LateCommands,   \* may a command that timed out still take effect?
    MaxWrites,      \* bound: edits of the database
    MaxTasks        \* bound: tasks claimed

ASSUME NodeDeployAssumption ==
    /\ Chained \subseteq Listeners
    /\ Rejected \subseteq Listeners
    /\ LateCommands \in BOOLEAN
    /\ MaxWrites \in Nat /\ MaxTasks \in Nat

VARIABLES
    db,         \* [rows: enabled listeners, clients: attached users of each,
                \*  enabled: enabled users, chain: is the chain proxy enabled]
    kind, step, \* the task's kind and how far its script is (0: no task)
    result,     \* "none", "success" or "failed": the last task's
    snap,       \* what the task has read from the database so far
    file,       \* the config file on the node
    proc,       \* the config the node's service runs with
    late,       \* timed-out commands the node may still execute
    writes, tasks,
    (* History, read by no action: *)
    seen,       \* every database state since the last task was claimed
    clean,      \* no late command was outstanding since then
    chainLost   \* the last task's read of the chain proxies failed

taskVars == <<kind, step, result, snap>>
nodeVars == <<file, proc, late>>
hist     == <<seen, clean, chainLost>>
vars     == <<db, taskVars, nodeVars, writes, tasks, hist>>

\* A faulty variant of Script, used by no action: what a property is tested
\* against. apply_config reloads before it writes.
ScriptLoadsFirst ==
    [apply_config |-> <<"find", "rows", "clients", "chain", "render",
                        "ping", "load", "write">>,
     provision    |-> <<"find", "ping", "preflight", "install", "service",
                        "rows", "clients", "chain", "render", "write",
                        "validate", "load">>,
     restart      |-> <<"find", "load">>,
     check_health |-> <<"find", "ping", "is_active">>]

\* The executor's functions, one phase per await that can fail or be
\* interleaved with; provision's preflight, install and service phases touch
\* neither the config file nor the running config.
Script ==
    [apply_config |-> <<"find", "rows", "clients", "chain", "render",
                        "ping", "write", "load">>,
     provision    |-> <<"find", "ping", "preflight", "install", "service",
                        "rows", "clients", "chain", "render", "write",
                        "validate", "load">>,
     restart      |-> <<"find", "load">>,
     check_health |-> <<"find", "ping", "is_active">>]

Kinds == DOMAIN Script
Phase == IF step = 0 THEN "idle" ELSE Script[kind][step]

Database == [rows: SUBSET Listeners, clients: [Listeners -> SUBSET Users],
             enabled: SUBSET Users, chain: BOOLEAN]

ASSUME FirstDatabasesAssumption == FirstDatabases \subseteq Database

\* One inbound of a config: its clients and where its traffic leaves. Around the
\* inbounds an adapter's wrap_config puts what the node is run with (wrapped): the
\* api inbound and rule, the users' counters, the policy of levels, the dns rule.
Off  == [on |-> FALSE, users |-> {}, via |-> "direct"]
Part == [on: BOOLEAN, users: SUBSET Users, via: {"direct", "chain"}]
Config == [inbounds: [Listeners -> Part], wrapped: BOOLEAN]

EmptySnap == [rows |-> {}, todo |-> {}, clients |-> [l \in Listeners |-> {}],
              chain |-> FALSE]

\* list_for_listener: the enabled ones of the attached users.
ClientsOf(d, l) == d.clients[l] \cap d.enabled

\* The config for given listener rows, clients and chain pool.
Rendered(rows, clients, chain) ==
    [inbounds |->
        [l \in Listeners |->
            IF l \notin rows THEN Off
            ELSE [on    |-> TRUE,
                  users |-> clients[l],
                  via   |-> IF l \in Chained /\ chain THEN "chain" ELSE "direct"]],
     wrapped |-> TRUE]

\* What GET /api/nodes/:id/config shows when its reads succeed undisturbed.
AllClients(d) == [l \in Listeners |-> ClientsOf(d, l)]
Preview(d)    == Rendered(d.rows, AllClients(d), d.chain)

\* The text provision has for a node without listeners; no adapter is asked.
Skeleton == [inbounds |-> [l \in Listeners |-> Off], wrapped |-> FALSE]

Bare(k, rows) == k = "provision" /\ rows = {}

Upload == IF Bare(kind, snap.rows) THEN Skeleton
          ELSE Rendered(snap.rows, snap.clients, snap.chain)

Accepts(c) == c # NoConfig /\ \A l \in Rejected : ~c.inbounds[l].on

\* The service after a start with the present file; a reload the core refuses
\* may also keep the old config.
Started  == IF Accepts(file) THEN file ELSE NoConfig
Reloaded == IF Accepts(file) THEN {file} ELSE {NoConfig, proc}

Init ==
    /\ db \in FirstDatabases
    /\ kind = "check_health" /\ step = 0 /\ result = "none" /\ snap = EmptySnap
    /\ file = NoConfig /\ proc = NoConfig /\ late = {}
    /\ writes = 0 /\ tasks = 0
    /\ seen = {db} /\ clean = TRUE /\ chainLost = FALSE
-----------------------------------------------------------------------------
(* Administrators, and the traffic collector's cut-off, edit the database. *)

Edit(d) ==
    /\ writes < MaxWrites
    /\ writes' = writes + 1
    /\ db' = d
    /\ seen' = seen \cup {d}
    /\ UNCHANGED <<taskVars, nodeVars, tasks, clean, chainLost>>

ToggleIn(x, S) == IF x \in S THEN S \ {x} ELSE S \cup {x}

ToggleListener(l)     == Edit([db EXCEPT !.rows = ToggleIn(l, @)])
ToggleClient(l, u)    == Edit([db EXCEPT !.clients[l] = ToggleIn(u, @)])
SetUserEnabled(u)     == Edit([db EXCEPT !.enabled = ToggleIn(u, @)])
ToggleChainProxy      == Edit([db EXCEPT !.chain = ~@])
-----------------------------------------------------------------------------
(* The executor. *)

Claim(k) ==
    /\ step = 0
    /\ tasks < MaxTasks
    /\ tasks' = tasks + 1
    /\ kind' = k /\ step' = 1 /\ result' = "none" /\ snap' = EmptySnap
    /\ seen' = {db} /\ clean' = (late = {}) /\ chainLost' = FALSE
    /\ UNCHANGED <<db, nodeVars, writes>>

Advance ==
    /\ UNCHANGED kind
    /\ IF step = Len(Script[kind])
       THEN step' = 0 /\ result' = "success"
       ELSE step' = step + 1 /\ UNCHANGED result

Fail == step' = 0 /\ result' = "failed" /\ UNCHANGED kind

\* Faulty variants, used by no action: the clients query without
\* "u.enabled = 1"; a core that is started only if it was not running; a late
\* write whose temporary file is gone.
ReadAllClients(l) ==
    /\ Phase = "clients"
    /\ l \in snap.todo
    /\ snap' = [snap EXCEPT !.clients[l] = db.clients[l], !.todo = @ \ {l}]
    /\ UNCHANGED <<db, kind, step, result, nodeVars, writes, tasks, hist>>

StartIfStopped ==
    /\ Phase = "load"
    /\ proc' \in IF kind = "apply_config" THEN Reloaded
                 ELSE IF proc = NoConfig THEN {Started} ELSE {proc}
    /\ kind = "provision" => proc' # NoConfig
    /\ Advance
    /\ UNCHANGED <<db, snap, file, late, writes, tasks, hist>>

\* Phases that change nothing here when they succeed; validation does only if
\* the core accepts the uploaded file.
Check ==
    /\ Phase \in {"find", "render", "ping", "preflight", "install", "service",
                  "validate", "is_active"}
    /\ Phase = "validate" => Accepts(file)
    /\ Advance
    /\ UNCHANGED <<db, snap, nodeVars, writes, tasks, hist>>

ReadRows ==
    /\ Phase = "rows"
    /\ snap' = [snap EXCEPT !.rows = db.rows, !.todo = db.rows]
    /\ Advance
    /\ UNCHANGED <<db, nodeVars, writes, tasks, hist>>

\* One query per listener row, each at a time of its own.
ReadClients(l) ==
    /\ Phase = "clients"
    /\ l \in snap.todo
    /\ snap' = [snap EXCEPT !.clients[l] = ClientsOf(db, l), !.todo = @ \ {l}]
    /\ UNCHANGED <<db, kind, step, result, nodeVars, writes, tasks, hist>>

ClientsRead ==
    /\ Phase = "clients"
    /\ snap.todo = {}
    /\ Advance
    /\ UNCHANGED <<db, snap, nodeVars, writes, tasks, hist>>

\* list_enabled().await.unwrap_or_default(): an error is an empty pool.
ReadChain(ok) ==
    /\ Phase = "chain"
    /\ snap' = [snap EXCEPT !.chain = ok /\ db.chain]
    /\ chainLost' = ~ok
    /\ Advance
    /\ UNCHANGED <<db, nodeVars, writes, tasks, seen, clean>>

\* A database error, a listener the core's adapter cannot render, a failed
\* connection or a command that exits non-zero without having changed anything
\* ends the task.
PhaseFails ==
    /\ Phase \notin {"idle", "chain"}
    /\ Phase = "render" => ~Bare(kind, snap.rows)
    /\ Fail
    /\ UNCHANGED <<db, snap, nodeVars, writes, tasks, hist>>

\* write_file renames into place. Its answer may be lost (answered = FALSE).
WriteFile(answered) ==
    /\ Phase = "write"
    /\ file' = Upload
    /\ IF answered THEN Advance ELSE Fail
    /\ UNCHANGED <<db, snap, proc, late, writes, tasks, hist>>

\* systemctl reload || restart, or restart. For a unit of type simple both
\* exit 0 even if the core then refuses the file; only provision asks is-active.
LoadConfig ==
    /\ Phase = "load"
    /\ proc' \in IF kind = "apply_config" THEN Reloaded ELSE {Started}
    /\ kind = "provision" => proc' # NoConfig
    /\ Advance
    /\ UNCHANGED <<db, snap, file, late, writes, tasks, hist>>

\* The command took effect but failed or was not answered.
LoadFails ==
    /\ Phase = "load"
    /\ proc' \in Reloaded \cup {NoConfig}
    /\ Fail
    /\ UNCHANGED <<db, snap, file, late, writes, tasks, hist>>

\* The panel stops waiting (command_timeout, or it dies) before the node has
\* executed the command of the current phase.
LeaveBehind ==
    /\ LateCommands
    /\ Phase \in {"write", "load"}
    /\ late' = late \cup {[task |-> tasks, op |-> Phase, cfg |-> Upload]}
    /\ clean' = FALSE
    /\ Fail
    /\ UNCHANGED <<db, snap, file, proc, writes, tasks, seen, chainLost>>

\* The panel process dies; the queue will have the task claimed again.
Crash ==
    /\ step # 0
    /\ step' = 0 /\ result' = "none"
    /\ UNCHANGED <<db, kind, snap, nodeVars, writes, tasks, hist>>
-----------------------------------------------------------------------------
(* The node. *)

LateEffect(c) ==
    /\ late' = late \ {c}
    /\ IF c.op = "write"
       THEN file' = c.cfg /\ UNCHANGED proc
       ELSE proc' \in Reloaded /\ UNCHANGED file
    /\ UNCHANGED <<db, taskVars, writes, tasks, hist>>

\* The service is started again by systemd or with the machine.
ServiceRestarts ==
    /\ proc' = Started
    /\ UNCHANGED <<db, taskVars, file, late, writes, tasks, hist>>
-----------------------------------------------------------------------------
ExecutorStep ==
    \/ Check \/ ReadRows \/ ClientsRead
    \/ WriteFile(TRUE) \/ LoadConfig
    \/ ReadChain(TRUE)
    \/ \E l \in Listeners : ReadClients(l)

FailureStep ==
    \/ PhaseFails \/ ReadChain(FALSE) \/ WriteFile(FALSE) \/ LoadFails
    \/ LeaveBehind \/ Crash

AdminStep ==
    \/ \E l \in Listeners : ToggleListener(l)
    \/ \E l \in Listeners, u \in Users : ToggleClient(l, u)
    \/ \E u \in Users : SetUserEnabled(u)
    \/ ToggleChainProxy

Next ==
    \/ \E k \in Kinds : Claim(k)
    \/ ExecutorStep
    \/ FailureStep
    \/ AdminStep
    \/ \E c \in late : LateEffect(c)
    \/ ServiceRestarts

Spec == Init /\ [][Next]_vars
-----------------------------------------------------------------------------
TypeOK ==
    /\ db \in Database
    /\ kind \in Kinds /\ step \in 0..Len(Script[kind])
    /\ result \in {"none", "success", "failed"}
    /\ snap \in [rows: SUBSET Listeners, todo: SUBSET Listeners,
                 clients: [Listeners -> SUBSET Users], chain: BOOLEAN]
    /\ file \in Config \cup {NoConfig}
    /\ proc \in Config \cup {NoConfig}
    /\ \A c \in late : c \in [task: 1..MaxTasks, op: {"write", "load"}, cfg: Config]
    /\ writes \in 0..MaxWrites /\ tasks \in 0..MaxTasks
    /\ db \in seen /\ clean \in BOOLEAN /\ chainLost \in BOOLEAN

\* How far a deployment has come, its success included: past which phase it is.
Progress ==
    IF step # 0 THEN step
    ELSE IF result = "success" THEN Len(Script[kind]) + 1 ELSE 0

Past(a, p) == \/ kind = "apply_config" /\ Progress > a
              \/ kind = "provision" /\ Progress > p

RowsRead   == Past(2, 6)
AllRead    == Past(3, 7)
ChainRead  == Past(4, 8)
Written    == Past(7, 10)
Validated  == kind = "provision" /\ Progress > 11
Loaded     == Past(8, 12)

\* What a task has read, was so at some moment since its claim.
SnapFresh ==
    /\ RowsRead =>
          /\ \E d \in seen : snap.rows = d.rows
          /\ snap.todo \subseteq snap.rows
          /\ \A l \in snap.rows \ snap.todo :
                \E d \in seen : snap.clients[l] = ClientsOf(d, l)
    /\ AllRead => snap.todo = {}
    /\ ChainRead => IF chainLost THEN ~snap.chain
                    ELSE \E d \in seen : snap.chain = d.chain

\* And the node is what the task has made of it, if nobody else did anything.
NodeFollows ==
    /\ clean => late = {}
    /\ Written /\ clean => file = Upload
    /\ Validated /\ clean => Accepts(file)
    /\ Loaded /\ clean /\ Accepts(file) => proc = file

\* The inductive invariant.
IInv ==
    /\ TypeOK
    /\ step # 0 => tasks > 0 /\ result = "none"
    /\ SnapFresh /\ NodeFollows

\* The last task deployed a config, and says so.
Deployed == result = "success" /\ kind \in {"apply_config", "provision"}

\* Each inbound of config c is as some database state since the claim had it.
Fresh(c) ==
    \A l \in Listeners :
        /\ \E d \in seen : c.inbounds[l].on = (l \in d.rows)
        /\ c.inbounds[l].on =>
              \E d \in seen : c.inbounds[l].users = ClientsOf(d, l)

\* After a successful deployment the service runs nothing older than the claim:
\* a listener removed, or a user detached, disabled or kicked, before the task
\* was claimed is out. Commands left over from earlier tasks excepted.
SuccessIsFresh ==
    Deployed /\ clean /\ Accepts(file) => proc # NoConfig /\ Fresh(proc)

\* What a deployment of kind k of database state d should leave in the file: the
\* preview, with two exceptions the code makes. A provision that finds no listener
\* writes the skeleton (no statistics until the next apply_config); a lost read of
\* the chain proxies renders chained listeners with a direct exit.
Intended(k, d, lost) ==
    IF Bare(k, d.rows) THEN Skeleton
    ELSE IF lost THEN Rendered(d.rows, AllClients(d), FALSE)
    ELSE Preview(d)

\* If nobody edited the database since the claim, a successful deployment leaves
\* exactly the intended config in the file, even though it was read in several
\* queries; the service runs it if the core accepts it, and only apply_config can
\* succeed with one it does not.
QuietApplyConverges ==
    Deployed /\ clean /\ seen = {db} =>
        /\ file = Intended(kind, db, chainLost)
        /\ IF Accepts(file) THEN proc = file ELSE kind = "apply_config"

\* A successful provision leaves a config on the node that the core accepts;
\* a service restart then brings up the same config.
ProvisionSurvivesRestart ==
    result = "success" /\ kind = "provision" /\ clean =>
        Accepts(file) /\ proc = file
=============================================================================
