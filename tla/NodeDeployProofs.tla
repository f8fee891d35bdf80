--------------------------- MODULE NodeDeployProofs ---------------------------
(***************************************************************************)
(* What a successful deployment says about the node, for any listeners,    *)
(* users, edits and tasks, with every failure of NodeDeploy.               *)
(***************************************************************************)
EXTENDS NodeDeploy, TLAPS

USE NodeDeployAssumption

(* The scripts phase by phase: where the phases that matter stand. *)
LEMMA ScriptTable ==
    /\ Kinds = {"apply_config", "provision", "restart", "check_health"}
    /\ Len(Script["apply_config"]) = 8 /\ Len(Script["provision"]) = 12
    /\ Len(Script["restart"]) = 2 /\ Len(Script["check_health"]) = 3
  BY DEF Kinds, Script

LEMMA PhaseTable ==
    ASSUME kind \in Kinds, step \in 0..Len(Script[kind])
    PROVE  /\ Phase = "idle" <=> step = 0
           /\ Phase = "rows" => \/ kind = "apply_config" /\ step = 2
                                \/ kind = "provision" /\ step = 6
           /\ Phase = "clients" => \/ kind = "apply_config" /\ step = 3
                                   \/ kind = "provision" /\ step = 7
           /\ Phase = "chain" => \/ kind = "apply_config" /\ step = 4
                                 \/ kind = "provision" /\ step = 8
           /\ Phase = "write" => \/ kind = "apply_config" /\ step = 7
                                 \/ kind = "provision" /\ step = 10
           /\ Phase = "load" => \/ kind = "apply_config" /\ step = 8
                                \/ kind = "provision" /\ step = 12
                                \/ kind = "restart" /\ step = 2
           /\ Phase \in {"find", "render", "ping", "preflight", "install",
                         "service", "validate", "is_active"} =>
                 /\ kind = "apply_config" => step \in {1, 5, 6}
                 /\ kind = "provision" => step \in {1, 2, 3, 4, 5, 9, 11}
                 /\ kind = "provision" /\ step = 11 => Phase = "validate"
<1>1. CASE step = 0
  BY <1>1 DEF Phase
<1>2. CASE kind = "apply_config" /\ step # 0
  <2>1. step \in {1, 2, 3, 4, 5, 6, 7, 8}
    BY <1>2, ScriptTable
  <2>2. QED
    BY <1>2, <2>1 DEF Phase, Script
<1>3. CASE kind = "provision" /\ step # 0
  <2>1. step \in {1, 2, 3, 4, 5, 6, 7, 8, 9, 10, 11, 12}
    BY <1>3, ScriptTable
  <2>2. QED
    BY <1>3, <2>1 DEF Phase, Script
<1>4. CASE kind = "restart" /\ step # 0
  <2>1. step \in {1, 2}
    BY <1>4, ScriptTable
  <2>2. QED
    BY <1>4, <2>1 DEF Phase, Script
<1>5. CASE kind = "check_health" /\ step # 0
  <2>1. step \in {1, 2, 3}
    BY <1>5, ScriptTable
  <2>2. QED
    BY <1>5, <2>1 DEF Phase, Script
<1>6. QED
  BY <1>1, <1>2, <1>3, <1>4, <1>5, ScriptTable

LEMMA PhaseNames ==
    ASSUME kind \in Kinds, step \in 1..Len(Script[kind])
    PROVE  Phase \in {"rows", "clients", "chain", "write", "load", "find", "render",
                     "ping", "preflight", "install", "service", "validate",
                     "is_active"}
<1>1. CASE kind = "apply_config"
  <2>1. step \in {1, 2, 3, 4, 5, 6, 7, 8}
    BY <1>1, ScriptTable
  <2>2. QED
    BY <1>1, <2>1 DEF Phase, Script
<1>2. CASE kind = "provision"
  <2>1. step \in {1, 2, 3, 4, 5, 6, 7, 8, 9, 10, 11, 12}
    BY <1>2, ScriptTable
  <2>2. QED
    BY <1>2, <2>1 DEF Phase, Script
<1>3. CASE kind = "restart"
  <2>1. step \in {1, 2}
    BY <1>3, ScriptTable
  <2>2. QED
    BY <1>3, <2>1 DEF Phase, Script
<1>4. CASE kind = "check_health"
  <2>1. step \in {1, 2, 3}
    BY <1>4, ScriptTable
  <2>2. QED
    BY <1>4, <2>1 DEF Phase, Script
<1>5. QED
  BY <1>1, <1>2, <1>3, <1>4, ScriptTable

(* A phase that succeeds takes a task one phase on, the last one to success; a
   task that fails has come nowhere. *)
LEMMA AdvanceMoves ==
    ASSUME kind \in Kinds, step \in 1..Len(Script[kind]), result = "none", Advance
    PROVE  /\ kind' = kind /\ step' \in 0..Len(Script[kind])
           /\ result' \in {"none", "success"} /\ (step' # 0 => result' = "none")
           /\ Progress = step /\ Progress' = step + 1
  BY ScriptTable DEF Advance, Progress

LEMMA FailStops ==
    ASSUME Fail
    PROVE  kind' = kind /\ step' = 0 /\ result' = "failed" /\ Progress' = 0
  BY DEF Fail, Progress

(* What is uploaded is a config, with or without the adapter. *)
LEMMA RenderedIsConfig ==
    ASSUME NEW rows, NEW clients \in [Listeners -> SUBSET Users], NEW chain
    PROVE  Rendered(rows, clients, chain) \in Config
  BY DEF Rendered, Config, Part, Off

LEMMA SkeletonIsConfig == Skeleton \in Config
  BY DEF Skeleton, Config, Part, Off

LEMMA UploadIsConfig == TypeOK => Upload \in Config
  BY RenderedIsConfig, SkeletonIsConfig DEF TypeOK, Upload

(* Which listeners it has, and with which clients. *)
LEMMA UploadParts ==
    ASSUME NEW l \in Listeners
    PROVE  /\ Upload.inbounds[l].on = (l \in snap.rows)
           /\ l \in snap.rows => Upload.inbounds[l].users = snap.clients[l]
<1>1. CASE Bare(kind, snap.rows)
  <2>1. Upload.inbounds[l].on = FALSE
    BY <1>1 DEF Upload, Skeleton, Off
  <2>2. (l \in snap.rows) = FALSE
    BY <1>1 DEF Bare
  <2>3. QED
    BY <2>1, <2>2, Zenon
<1>2. CASE ~Bare(kind, snap.rows) /\ l \in snap.rows
  <2>1. Upload.inbounds[l].on = TRUE /\ Upload.inbounds[l].users = snap.clients[l]
    BY <1>2 DEF Upload, Rendered
  <2>2. QED
    BY <1>2, <2>1, Zenon
<1>3. CASE ~Bare(kind, snap.rows) /\ l \notin snap.rows
  <2>1. Upload.inbounds[l].on = FALSE
    BY <1>3 DEF Upload, Rendered, Off
  <2>2. (l \in snap.rows) = FALSE
    BY <1>3
  <2>3. QED
    BY <1>3, <2>1, <2>2, Zenon
<1>4. QED
  BY <1>1, <1>2, <1>3

(* A service that is started runs a config of the node, or nothing. *)
LEMMA ServiceType ==
    ASSUME TypeOK
    PROVE  /\ Started \in Config \cup {NoConfig}
           /\ Reloaded \subseteq Config \cup {NoConfig}
           /\ Accepts(file) => Started = file /\ Reloaded = {file}
           /\ Started # NoConfig => Accepts(file)
  BY DEF TypeOK, Started, Reloaded

LEMMA EditIsDatabase ==
    ASSUME db \in Database, NEW d,
           \/ \E l \in Listeners : d = [db EXCEPT !.rows = ToggleIn(l, @)]
           \/ \E l \in Listeners, u \in Users :
                  d = [db EXCEPT !.clients[l] = ToggleIn(u, @)]
           \/ \E u \in Users : d = [db EXCEPT !.enabled = ToggleIn(u, @)]
           \/ d = [db EXCEPT !.chain = ~@]
    PROVE  d \in Database
<1> USE DEF Database, ToggleIn
<1>1. ASSUME NEW l \in Listeners, d = [db EXCEPT !.rows = ToggleIn(l, @)]
      PROVE  d \in Database
  BY <1>1
<1>2. ASSUME NEW l \in Listeners, NEW u \in Users,
             d = [db EXCEPT !.clients[l] = ToggleIn(u, @)]
      PROVE  d \in Database
  <2>1. ToggleIn(u, db.clients[l]) \in SUBSET Users
    OBVIOUS
  <2>2. d.clients \in [Listeners -> SUBSET Users]
    BY <1>2, <2>1
  <2>3. QED
    BY <1>2, <2>2
<1>3. ASSUME NEW u \in Users, d = [db EXCEPT !.enabled = ToggleIn(u, @)]
      PROVE  d \in Database
  BY <1>3
<1>4. CASE d = [db EXCEPT !.chain = ~@]
  BY <1>4
<1>5. QED
  BY <1>1, <1>2, <1>3, <1>4

LEMMA AdminEdits ==
    ASSUME db \in Database, AdminStep
    PROVE  \E d \in Database : Edit(d)
  BY EditIsDatabase DEF AdminStep, ToggleListener, ToggleClient, SetUserEnabled,
                        ToggleChainProxy

LEMMA InitDeploy == Init => IInv
<1> SUFFICES ASSUME Init PROVE IInv
  OBVIOUS
<1>1. TypeOK
  <2>1. EmptySnap \in [rows: SUBSET Listeners, todo: SUBSET Listeners,
                       clients: [Listeners -> SUBSET Users], chain: BOOLEAN]
    BY DEF EmptySnap
  <2>2. kind \in Kinds /\ step \in 0..Len(Script[kind])
    BY ScriptTable DEF Init
  <2>3. snap = EmptySnap /\ file = NoConfig /\ proc = NoConfig /\ late = {}
        /\ result = "none" /\ clean = TRUE /\ chainLost = FALSE
        /\ db \in Database /\ db \in seen /\ writes = 0 /\ tasks = 0
    BY FirstDatabasesAssumption DEF Init
  <2>4. writes \in 0..MaxWrites /\ tasks \in 0..MaxTasks
    BY <2>3
  <2>5. QED
    BY <2>1, <2>2, <2>3, <2>4 DEF TypeOK
<1>2. Progress = 0
  BY DEF Init, Progress
<1>3. QED
  BY <1>1, <1>2 DEF Init, IInv, SnapFresh, NodeFollows, Past, RowsRead, AllRead,
                    ChainRead, Written, Validated, Loaded

(* The steps of the executor, each with where it leaves the script. *)
LEMMA Moved ==
    ASSUME IInv, ExecutorStep \/ FailureStep
    PROVE  /\ kind' = kind /\ step # 0 /\ step \in 1..Len(Script[kind])
           /\ step' \in 0..Len(Script[kind])
           /\ result' \in {"none", "success", "failed"}
           /\ step' # 0 => result' = "none"
           /\ result = "none" /\ tasks > 0 /\ tasks' = tasks
           /\ db' = db /\ seen' = seen /\ writes' = writes
<1> USE DEF IInv, TypeOK
<1>1. step # 0
  BY PhaseTable DEF ExecutorStep, FailureStep, Check, ReadRows, ReadClients,
     ClientsRead, ReadChain, PhaseFails, WriteFile, LoadConfig, LoadFails,
     LeaveBehind, Crash
<1>2. step \in 1..Len(Script[kind])
  BY <1>1, ScriptTable
<1>3. \/ Advance \/ Fail
      \/ UNCHANGED <<kind, step, result>>
      \/ step' = 0 /\ result' = "none" /\ UNCHANGED kind
  BY DEF ExecutorStep, FailureStep, Check, ReadRows, ReadClients,
     ClientsRead, ReadChain, PhaseFails, WriteFile, LoadConfig, LoadFails,
     LeaveBehind, Crash
<1>4. db' = db /\ seen' = seen /\ writes' = writes /\ tasks' = tasks
  BY DEF ExecutorStep, FailureStep, Check, ReadRows, ReadClients,
     ClientsRead, ReadChain, PhaseFails, WriteFile, LoadConfig, LoadFails,
     LeaveBehind, Crash, hist
<1>5. QED
  BY <1>1, <1>2, <1>3, <1>4, ScriptTable, AdvanceMoves, FailStops

(* Types. *)
LEMMA ScriptStepTypes ==
    ASSUME IInv, ExecutorStep \/ FailureStep
    PROVE  TypeOK'
<1>1. /\ kind' \in Kinds /\ step' \in 0..Len(Script[kind'])
      /\ result' \in {"none", "success", "failed"}
      /\ db' \in Database /\ db' \in seen'
      /\ writes' \in 0..MaxWrites /\ tasks' \in 0..MaxTasks
  BY Moved DEF IInv, TypeOK
<1>2. snap' \in [rows: SUBSET Listeners, todo: SUBSET Listeners,
                clients: [Listeners -> SUBSET Users], chain: BOOLEAN]
  <2> USE DEF IInv, TypeOK, Database
  <2>1. CASE UNCHANGED snap
    BY <2>1
  <2>2. CASE ReadRows
    BY <2>2 DEF ReadRows
  <2>3. ASSUME NEW l \in Listeners, ReadClients(l)
        PROVE  snap' \in [rows: SUBSET Listeners, todo: SUBSET Listeners,
                         clients: [Listeners -> SUBSET Users], chain: BOOLEAN]
    BY <2>3 DEF ReadClients, ClientsOf
  <2>4. ASSUME NEW ok \in BOOLEAN, ReadChain(ok)
        PROVE  snap' \in [rows: SUBSET Listeners, todo: SUBSET Listeners,
                         clients: [Listeners -> SUBSET Users], chain: BOOLEAN]
    BY <2>4 DEF ReadChain
  <2>5. QED
    BY <2>1, <2>2, <2>3, <2>4 DEF ExecutorStep, FailureStep, Check, ClientsRead,
       PhaseFails, WriteFile, LoadConfig, LoadFails, LeaveBehind, Crash
<1>3. file' \in Config \cup {NoConfig} /\ proc' \in Config \cup {NoConfig}
  <2>1. Upload \in Config /\ Started \in Config \cup {NoConfig}
        /\ Reloaded \subseteq Config \cup {NoConfig}
    BY UploadIsConfig, ServiceType DEF IInv
  <2>2. file' \in {file, Upload}
        /\ proc' \in {proc, Started, NoConfig} \cup Reloaded
    BY DEF ExecutorStep, FailureStep, Check, ReadRows, ReadClients, ClientsRead,
       ReadChain, PhaseFails, WriteFile, LoadConfig, LoadFails, LeaveBehind,
       Crash, nodeVars
  <2>3. QED
    BY <2>1, <2>2 DEF IInv, TypeOK
<1>4. \A c \in late' : c \in [task: 1..MaxTasks, op: {"write", "load"}, cfg: Config]
  <2>1. CASE UNCHANGED late
    BY <2>1 DEF IInv, TypeOK
  <2>2. CASE LeaveBehind
    <3>1. tasks \in 1..MaxTasks /\ Upload \in Config
      BY Moved, UploadIsConfig DEF IInv, TypeOK
    <3>2. QED
      BY <2>2, <3>1 DEF LeaveBehind, IInv, TypeOK
  <2>3. QED
    BY <2>1, <2>2 DEF ExecutorStep, FailureStep, Check, ReadRows, ReadClients,
       ClientsRead, ReadChain, PhaseFails, WriteFile, LoadConfig, LoadFails,
       Crash, nodeVars
<1>5. clean' \in BOOLEAN /\ chainLost' \in BOOLEAN
  BY DEF ExecutorStep, FailureStep, Check, ReadRows, ReadClients, ClientsRead,
     ReadChain, PhaseFails, WriteFile, LoadConfig, LoadFails, LeaveBehind,
     Crash, hist, IInv, TypeOK
<1>6. QED
  BY <1>1, <1>2, <1>3, <1>4, <1>5 DEF TypeOK

LEMMA OtherStepTypes ==
    ASSUME IInv,
           \/ \E k \in Kinds : Claim(k)
           \/ AdminStep \/ ServiceRestarts
           \/ \E c \in late : LateEffect(c)
    PROVE  TypeOK'
<1>1. ASSUME NEW k \in Kinds, Claim(k) PROVE TypeOK'
  <2>1. EmptySnap \in [rows: SUBSET Listeners, todo: SUBSET Listeners,
                       clients: [Listeners -> SUBSET Users], chain: BOOLEAN]
    BY DEF EmptySnap
  <2>2. kind' \in Kinds /\ step' \in 0..Len(Script[kind'])
    <3>1. PICK n \in 2..12 : Len(Script[k]) = n
      BY ScriptTable
    <3>2. kind' = k /\ step' = 1
      BY <1>1 DEF Claim
    <3>3. 1 \in 0..Len(Script[k])
      BY <3>1
    <3>4. QED
      BY <3>2, <3>3, Zenon
  <2>3. tasks' \in 0..MaxTasks
    BY <1>1 DEF Claim, IInv, TypeOK
  <2>4. QED
    BY <1>1, <2>1, <2>2, <2>3 DEF Claim, nodeVars, IInv, TypeOK
<1>2. CASE AdminStep
  <2>1. PICK d \in Database : Edit(d)
    BY <1>2, AdminEdits DEF IInv, TypeOK
  <2>2. writes' \in 0..MaxWrites
    BY <2>1 DEF Edit, IInv, TypeOK
  <2>3. QED
    BY <2>1, <2>2 DEF Edit, taskVars, nodeVars, IInv, TypeOK
<1>3. CASE ServiceRestarts
  BY <1>3, ServiceType DEF ServiceRestarts, taskVars, hist, IInv, TypeOK
<1>4. ASSUME NEW c \in late, LateEffect(c) PROVE TypeOK'
  <2>1. c.cfg \in Config /\ Reloaded \subseteq Config \cup {NoConfig}
    BY ServiceType DEF IInv, TypeOK
  <2>2. QED
    BY <1>4, <2>1 DEF LateEffect, taskVars, hist, IInv, TypeOK
<1>5. QED
  BY <1>1, <1>2, <1>3, <1>4

(* What the task has read stays what it has read while it does other things, and
   was once so however the database moves on. *)
LEMMA ReadsKept ==
    ASSUME SnapFresh, UNCHANGED <<kind, snap, chainLost>>, seen \subseteq seen',
           \/ Progress' = Progress
           \/ Progress' \in {0, 1}
           \/ Progress' = Progress + 1 /\ Progress \in Int
              /\ (kind = "apply_config" => Progress \notin {2, 3, 4})
              /\ (kind = "provision" => Progress \notin {6, 7, 8})
    PROVE  SnapFresh'
<1>1. (RowsRead' => RowsRead) /\ (AllRead' => AllRead) /\ (ChainRead' => ChainRead)
  BY DEF RowsRead, AllRead, ChainRead, Past
<1>2. QED
  BY <1>1 DEF SnapFresh, ClientsOf

(* No step of the executor, failing or not, spoils what the task has read. *)
LEMMA ScriptStepReads ==
    ASSUME IInv, ExecutorStep \/ FailureStep
    PROVE  SnapFresh'
<1> USE DEF IInv
<1>1. /\ kind' = kind /\ kind \in Kinds /\ seen' = seen
      /\ step \in 1..Len(Script[kind]) /\ step \in 0..Len(Script[kind])
      /\ step \in Int /\ step # 0 /\ result = "none" /\ Progress = step
      /\ SnapFresh /\ db \in seen
  BY Moved, ScriptTable DEF TypeOK, Progress
<1>2. CASE Fail /\ UNCHANGED <<snap, chainLost>>
  BY <1>1, <1>2, FailStops, ReadsKept
<1>3. CASE Crash
  <2>1. Progress' = 0 /\ UNCHANGED <<snap, chainLost>>
    BY <1>3 DEF Crash, Progress, hist
  <2>2. QED
    BY <1>1, <2>1, ReadsKept
<1>4. CASE /\ Advance /\ UNCHANGED <<snap, chainLost>>
           /\ Phase \notin {"rows", "clients", "chain", "idle"}
  <2>1. Progress' = Progress + 1
    BY <1>1, <1>4, AdvanceMoves
  <2>2. /\ kind = "apply_config" => Progress \notin {2, 3, 4}
        /\ kind = "provision" => Progress \notin {6, 7, 8}
    <3>1. Phase \in {"find", "render", "ping", "preflight", "install", "service",
                     "validate", "is_active", "write", "load"}
      BY <1>1, <1>4, PhaseNames
    <3>2. QED
      BY <1>1, <3>1, PhaseTable
  <2>3. QED
    BY <1>1, <1>4, <2>1, <2>2, ReadsKept
<1>5. CASE ReadRows
  <2>1. Progress' = Progress + 1 /\ Phase = "rows"
    BY <1>1, <1>5, AdvanceMoves DEF ReadRows
  <2>2. ~AllRead' /\ ~ChainRead'
    BY <1>1, <2>1, PhaseTable DEF AllRead, ChainRead, Past
  <2>3. snap'.rows = db.rows /\ snap'.todo = db.rows
    BY <1>5 DEF ReadRows, TypeOK
  <2>4. QED
    BY <1>1, <2>2, <2>3 DEF SnapFresh
<1>6. ASSUME NEW l \in Listeners, ReadClients(l) PROVE SnapFresh'
  <2>1. /\ Progress' = Progress /\ chainLost' = chainLost /\ Phase = "clients"
        /\ snap'.rows = snap.rows /\ snap'.todo = snap.todo \ {l}
        /\ snap'.clients = [snap.clients EXCEPT ![l] = ClientsOf(db, l)]
        /\ snap'.chain = snap.chain
    BY <1>6 DEF ReadClients, Progress, hist, TypeOK
  <2>2. RowsRead /\ ~AllRead' /\ ~ChainRead'
    BY <1>1, <2>1, PhaseTable DEF RowsRead, AllRead, ChainRead, Past
  <2>3. \A m \in snap'.rows \ snap'.todo :
            \E d \in seen' : snap'.clients[m] = ClientsOf(d, m)
    <3> SUFFICES ASSUME NEW m \in snap'.rows \ snap'.todo
                 PROVE  \E d \in seen' : snap'.clients[m] = ClientsOf(d, m)
      OBVIOUS
    <3>1. snap.rows \subseteq Listeners /\ snap.clients \in [Listeners -> SUBSET Users]
      BY DEF TypeOK
    <3>2. CASE m = l
      BY <1>1, <2>1, <3>1, <3>2
    <3>3. CASE m # l
      BY <1>1, <2>1, <2>2, <3>1, <3>3 DEF SnapFresh
    <3>4. QED
      BY <3>2, <3>3
  <2>4. QED
    BY <1>1, <2>1, <2>2, <2>3 DEF SnapFresh
<1>7. CASE ClientsRead
  <2>1. /\ Progress' = Progress + 1 /\ Phase = "clients" /\ snap' = snap
        /\ snap.todo = {}
    BY <1>1, <1>7, AdvanceMoves DEF ClientsRead
  <2>2. RowsRead /\ ~ChainRead'
    BY <1>1, <2>1, PhaseTable DEF RowsRead, ChainRead, Past
  <2>3. QED
    BY <1>1, <2>1, <2>2 DEF SnapFresh, ClientsOf
<1>8. ASSUME NEW ok \in BOOLEAN, ReadChain(ok) PROVE SnapFresh'
  <2>1. /\ Progress' = Progress + 1 /\ Phase = "chain" /\ chainLost' = ~ok
        /\ snap'.rows = snap.rows /\ snap'.todo = snap.todo
        /\ snap'.clients = snap.clients /\ snap'.chain = (ok /\ db.chain)
    BY <1>1, <1>8, AdvanceMoves DEF ReadChain, TypeOK
  <2>2. RowsRead /\ AllRead
    BY <1>1, <2>1, PhaseTable DEF RowsRead, AllRead, Past
  <2>3. IF chainLost' THEN ~snap'.chain ELSE \E d \in seen' : snap'.chain = d.chain
    BY <1>1, <2>1 DEF TypeOK, Database
  <2>4. QED
    BY <1>1, <2>1, <2>2, <2>3 DEF SnapFresh, ClientsOf
<1>9. QED
  BY <1>1, <1>2, <1>3, <1>4, <1>5, <1>6, <1>7, <1>8 DEF ExecutorStep, FailureStep,
     Check, PhaseFails, WriteFile, LoadConfig, LoadFails, LeaveBehind, hist

(* The node follows the task that deploys, phase by phase. *)
LEMMA NodeBefore ==
    ASSUME clean' => late' = {}, ~Written', ~Validated', ~Loaded'
    PROVE  NodeFollows'
  BY DEF NodeFollows

LEMMA ScriptStepNode ==
    ASSUME IInv, ExecutorStep \/ FailureStep
    PROVE  NodeFollows'
<1> USE DEF IInv
<1>1. /\ kind' = kind /\ kind \in Kinds
      /\ step \in 1..Len(Script[kind]) /\ step \in 0..Len(Script[kind])
      /\ step \in Int /\ step # 0 /\ result = "none" /\ Progress = step
      /\ NodeFollows
  BY Moved, ScriptTable DEF TypeOK, Progress
<1>2. clean' => late' = {}
  BY <1>1 DEF ExecutorStep, FailureStep, Check, ReadRows, ReadClients, ClientsRead,
     ReadChain, PhaseFails, WriteFile, LoadConfig, LoadFails, LeaveBehind, Crash,
     hist, nodeVars, NodeFollows
<1>3. CASE Progress' = 0
  BY <1>2, <1>3, NodeBefore DEF Written, Validated, Loaded, Past
<1>4. CASE FailureStep /\ ~ReadChain(FALSE)
  BY <1>3, <1>4, FailStops DEF FailureStep, PhaseFails, WriteFile, LoadFails,
     LeaveBehind, Crash, Progress
<1>5. CASE Check
  <2>1. /\ Progress' = Progress + 1 /\ UNCHANGED <<snap, file, proc, clean, late>>
        /\ Phase \in {"find", "render", "ping", "preflight", "install",
                      "service", "validate", "is_active"}
        /\ Phase = "validate" => Accepts(file)
    BY <1>1, <1>5, AdvanceMoves DEF Check, nodeVars, hist
  <2>2. /\ kind = "apply_config" => step \in {1, 5, 6}
        /\ kind = "provision" => step \in {1, 2, 3, 4, 5, 9, 11}
        /\ kind = "provision" /\ step = 11 => Accepts(file)
    BY <1>1, <2>1, PhaseTable
  <2>3. (Written' => Written) /\ (Validated' => Validated \/ Accepts(file)) /\ ~Loaded'
    BY <1>1, <2>1, <2>2 DEF Written, Validated, Loaded, Past
  <2>4. Upload' = Upload /\ Accepts(file)' = Accepts(file)
    BY <1>1, <2>1 DEF Upload, Bare, Accepts
  <2>5. QED
    BY <1>1, <1>2, <2>1, <2>3, <2>4 DEF NodeFollows
<1>6. CASE ReadRows \/ ClientsRead \/ (\E ok \in BOOLEAN : ReadChain(ok))
  <2>1. Progress' = Progress + 1 /\ Phase \in {"rows", "clients", "chain"}
    BY <1>1, <1>6, AdvanceMoves DEF ReadRows, ClientsRead, ReadChain
  <2>2. ~Written' /\ ~Validated' /\ ~Loaded'
    BY <1>1, <2>1, PhaseTable DEF Written, Validated, Loaded, Past
  <2>3. QED
    BY <1>2, <2>2, NodeBefore
<1>7. ASSUME NEW l \in Listeners, ReadClients(l) PROVE NodeFollows'
  <2>1. Progress' = Progress /\ Phase = "clients"
    BY <1>7 DEF ReadClients, Progress
  <2>2. ~Written' /\ ~Validated' /\ ~Loaded'
    BY <1>1, <2>1, PhaseTable DEF Written, Validated, Loaded, Past
  <2>3. QED
    BY <1>2, <2>2, NodeBefore
<1>8. CASE WriteFile(TRUE)
  <2>1. /\ Progress' = Progress + 1 /\ Phase = "write" /\ snap' = snap
        /\ file' = Upload
    BY <1>1, <1>8, AdvanceMoves DEF WriteFile
  <2>2. ~Validated' /\ ~Loaded'
    BY <1>1, <2>1, PhaseTable DEF Validated, Loaded, Past
  <2>3. Upload' = Upload
    BY <1>1, <2>1 DEF Upload, Bare
  <2>4. QED
    BY <1>2, <2>1, <2>2, <2>3 DEF NodeFollows
<1>9. CASE LoadConfig
  <2>1. /\ Progress' = Progress + 1 /\ Phase = "load"
        /\ UNCHANGED <<snap, file, clean, late>>
        /\ Accepts(file) => proc' = file
    BY <1>1, <1>9, AdvanceMoves, ServiceType DEF LoadConfig, hist
  <2>2. (Written' => Written) /\ (Validated' => Validated)
    BY <1>1, <2>1, PhaseTable DEF Written, Validated, Past
  <2>3. Upload' = Upload /\ Accepts(file)' = Accepts(file)
    BY <1>1, <2>1 DEF Upload, Bare, Accepts
  <2>4. QED
    BY <1>1, <1>2, <2>1, <2>2, <2>3 DEF NodeFollows
<1>10. QED
  BY <1>4, <1>5, <1>6, <1>7, <1>8, <1>9 DEF ExecutorStep, FailureStep

(* Editing, restarts of the service, late commands and the next claim. *)
LEMMA OtherStepKeeps ==
    ASSUME IInv,
           \/ \E k \in Kinds : Claim(k)
           \/ AdminStep \/ ServiceRestarts
           \/ \E c \in late : LateEffect(c)
    PROVE  SnapFresh' /\ NodeFollows' /\ (step' # 0 => tasks' > 0 /\ result' = "none")
<1> USE DEF IInv
<1>1. ASSUME NEW k \in Kinds, Claim(k)
      PROVE  /\ SnapFresh' /\ NodeFollows'
             /\ step' # 0 => tasks' > 0 /\ result' = "none"
  <2>1. Progress' = 1 /\ (clean' => late' = {})
    BY <1>1 DEF Claim, Progress, nodeVars
  <2>2. ~RowsRead' /\ ~AllRead' /\ ~ChainRead' /\ ~Written' /\ ~Validated' /\ ~Loaded'
    BY <2>1 DEF RowsRead, AllRead, ChainRead, Written, Validated, Loaded, Past
  <2>3. SnapFresh' /\ NodeFollows'
    BY <2>1, <2>2, NodeBefore DEF SnapFresh
  <2>4. QED
    BY <1>1, <2>3 DEF Claim, TypeOK
<1>2. ASSUME UNCHANGED <<kind, step, result, snap, tasks, clean, chainLost>>,
             seen \subseteq seen'
      PROVE  /\ SnapFresh' /\ (step' # 0 => tasks' > 0 /\ result' = "none")
             /\ Progress' = Progress /\ Upload' = Upload
             /\ (Written' = Written) /\ (Validated' = Validated) /\ (Loaded' = Loaded)
  <2>1. Progress' = Progress
    BY <1>2 DEF Progress
  <2>2. SnapFresh'
    BY <1>2, <2>1, ReadsKept
  <2>3. QED
    BY <1>2, <2>1, <2>2 DEF Upload, Bare, Written, Validated, Loaded, Past
<1>3. CASE AdminStep
  <2>1. PICK d \in Database : Edit(d)
    BY <1>3, AdminEdits DEF TypeOK
  <2>2. /\ UNCHANGED <<kind, step, result, snap, tasks, clean, chainLost>>
        /\ UNCHANGED <<file, proc, late>> /\ seen \subseteq seen'
    BY <2>1 DEF Edit, taskVars, nodeVars
  <2>3. Accepts(file)' = Accepts(file)
    BY <2>2 DEF Accepts
  <2>4. QED
    BY <1>2, <2>2, <2>3 DEF NodeFollows
<1>4. CASE ServiceRestarts
  <2>1. /\ UNCHANGED <<kind, step, result, snap, tasks, clean, chainLost>>
        /\ UNCHANGED <<file, late, seen>>
        /\ Accepts(file) => proc' = file
    BY <1>4, ServiceType DEF ServiceRestarts, taskVars, hist
  <2>2. Accepts(file)' = Accepts(file)
    BY <2>1 DEF Accepts
  <2>3. QED
    BY <1>2, <2>1, <2>2 DEF NodeFollows
<1>5. ASSUME NEW c \in late, LateEffect(c)
      PROVE  /\ SnapFresh' /\ NodeFollows'
             /\ step' # 0 => tasks' > 0 /\ result' = "none"
  <2>1. UNCHANGED <<kind, step, result, snap, tasks, clean, chainLost, seen>>
    BY <1>5 DEF LateEffect, taskVars, hist
  <2>2. ~clean'
    BY <2>1 DEF NodeFollows
  <2>3. QED
    BY <1>2, <2>1, <2>2 DEF NodeFollows
<1>6. QED
  BY <1>1, <1>3, <1>4, <1>5

LEMMA StepKeeps == IInv /\ [Next]_vars => IInv'
<1> SUFFICES ASSUME IInv, [Next]_vars PROVE IInv'
  OBVIOUS
<1>1. CASE ExecutorStep \/ FailureStep
  BY <1>1, Moved, ScriptStepTypes, ScriptStepReads, ScriptStepNode DEF IInv
<1>2. CASE \/ \E k \in Kinds : Claim(k)
           \/ AdminStep \/ ServiceRestarts
           \/ \E c \in late : LateEffect(c)
  BY <1>2, OtherStepTypes, OtherStepKeeps DEF IInv
<1>3. CASE UNCHANGED vars
  BY <1>3 DEF vars, taskVars, nodeVars, hist, IInv, TypeOK, SnapFresh, NodeFollows,
     RowsRead, AllRead, ChainRead, Written, Validated, Loaded, Past, Progress,
     Upload, Bare, Accepts
<1>4. QED
  BY <1>1, <1>2, <1>3 DEF Next
-----------------------------------------------------------------------------
(* The inductive invariant: what the running or the last deployment has read was
   so at some moment since its claim, and, if no command of an earlier task was
   outstanding, file and service are what it made of them. *)
THEOREM DeployInvariant == Spec => []IInv
<1>1. IInv /\ [Next]_vars => IInv'
  BY StepKeeps
<1>2. QED
  BY InitDeploy, <1>1, PTL DEF Spec

(* A deployment that says it succeeded has come to the end of its script. *)
LEMMA DeployedIsDone ==
    ASSUME IInv, Deployed
    PROVE  /\ RowsRead /\ AllRead /\ ChainRead /\ Written /\ Loaded
           /\ kind = "provision" => Validated
           /\ SnapFresh /\ NodeFollows /\ TypeOK
<1>1. step = 0
  BY DEF IInv, Deployed, TypeOK
<1>2. Progress = Len(Script[kind]) + 1
  BY <1>1 DEF Progress, Deployed
<1>3. \/ kind = "apply_config" /\ Progress = 9
      \/ kind = "provision" /\ Progress = 13
  <2>1. kind \in {"apply_config", "provision"}
    BY DEF Deployed
  <2>2. CASE kind = "apply_config"
    <3>1. Len(Script[kind]) = 8
      BY <2>2, ScriptTable, Zenon
    <3>2. QED
      BY <1>2, <2>2, <3>1
  <2>3. CASE kind = "provision"
    <3>1. Len(Script[kind]) = 12
      BY <2>3, ScriptTable, Zenon
    <3>2. QED
      BY <1>2, <2>3, <3>1
  <2>4. QED
    BY <2>1, <2>2, <2>3
<1>4. QED
  BY <1>3 DEF IInv, RowsRead, AllRead, ChainRead, Written, Loaded, Validated, Past

LEMMA FreshFollows == IInv => SuccessIsFresh
<1> SUFFICES ASSUME IInv, Deployed, clean, Accepts(file)
             PROVE  proc # NoConfig /\ Fresh(proc)
  BY DEF SuccessIsFresh
<1>1. proc = Upload /\ proc = file
  BY DeployedIsDone DEF NodeFollows
<1>2. ASSUME NEW l \in Listeners
      PROVE  /\ \E d \in seen : Upload.inbounds[l].on = (l \in d.rows)
             /\ Upload.inbounds[l].on =>
                   \E d \in seen : Upload.inbounds[l].users = ClientsOf(d, l)
  <2>1. /\ \E d \in seen : snap.rows = d.rows
        /\ l \in snap.rows => \E d \in seen : snap.clients[l] = ClientsOf(d, l)
    BY DeployedIsDone DEF SnapFresh
  <2>2. QED
    BY <2>1, UploadParts
<1>3. QED
  BY <1>1, <1>2 DEF Fresh, Accepts

LEMMA QuietFollows == IInv => QuietApplyConverges
<1> SUFFICES ASSUME IInv, Deployed, clean, seen = {db}
             PROVE  /\ file = Intended(kind, db, chainLost)
                    /\ IF Accepts(file) THEN proc = file ELSE kind = "apply_config"
  BY DEF QuietApplyConverges
<1>1. /\ file = Upload
      /\ Accepts(file) => proc = file
      /\ kind = "provision" => Accepts(file)
  BY DeployedIsDone DEF NodeFollows
<1>2. /\ snap.rows = db.rows
      /\ IF chainLost THEN ~snap.chain ELSE snap.chain = db.chain
      /\ \A l \in snap.rows : snap.clients[l] = ClientsOf(db, l)
  BY DeployedIsDone DEF SnapFresh
<1>3. chainLost => snap.chain = FALSE
  BY <1>2, DeployedIsDone DEF TypeOK
<1>4. Upload = Intended(kind, db, chainLost)
  <2>1. CASE Bare(kind, db.rows)
    BY <1>2, <2>1 DEF Upload, Intended
  <2>2. CASE ~Bare(kind, db.rows)
    <3>1. Upload = Rendered(db.rows, snap.clients, snap.chain)
      BY <1>2, <2>2 DEF Upload
    <3>2. \A chain : Rendered(db.rows, snap.clients, chain)
                        = Rendered(db.rows, AllClients(db), chain)
      BY <1>2 DEF Rendered, AllClients
    <3>3. CASE chainLost
      BY <1>3, <2>2, <3>1, <3>2, <3>3 DEF Intended
    <3>4. CASE ~chainLost
      BY <1>2, <2>2, <3>1, <3>2, <3>4 DEF Intended, Preview
    <3>5. QED
      BY <3>3, <3>4
  <2>3. QED
    BY <2>1, <2>2
<1>5. QED
  BY <1>1, <1>4 DEF Deployed

LEMMA ProvisionFollows == IInv => ProvisionSurvivesRestart
<1> SUFFICES ASSUME IInv, result = "success", kind = "provision", clean
             PROVE  Accepts(file) /\ proc = file
  BY DEF ProvisionSurvivesRestart
<1>1. QED
  BY DeployedIsDone DEF Deployed, NodeFollows

(* After a successful deployment the service runs nothing older than the claim:
   what was removed, detached, disabled or kicked before is out, although the
   config was read in several queries and any of the commands may have failed
   before (SuccessIsFresh), for any number of listeners, users and edits. *)
THEOREM SuccessRunsFreshConfig == Spec => []SuccessIsFresh
BY DeployInvariant, FreshFollows, PTL

(* Without edits since the claim, a successful deployment leaves the previewed
   config in the file, but for the skeleton of a provision without listeners and
   for direct exits when the chain proxies could not be read; the service runs it,
   unless the core refuses what apply_config wrote (QuietApplyConverges). *)
THEOREM QuietDeploymentConverges == Spec => []QuietApplyConverges
BY DeployInvariant, QuietFollows, PTL

(* A provision that succeeds leaves a config that the core accepts, and that a
   restart of the service brings up again (ProvisionSurvivesRestart). *)
THEOREM ProvisionedNodeRestarts == Spec => []ProvisionSurvivesRestart
BY DeployInvariant, ProvisionFollows, PTL
=============================================================================
