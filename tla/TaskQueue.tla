------------------------------ MODULE TaskQueue ------------------------------
(***************************************************************************)
(* The durable task queue of the panel: the table node_operation_tasks,    *)
(* the HTTP handlers that enqueue into it, the single background worker    *)
(* that drains it, and what interferes with them: a failing database call, *)
(* the deletion of a node (which cascades to its rows), and the panel      *)
(* process dying and being started again.                                  *)
(*                                                                         *)
(* The table survives a crash; the worker's and the handlers' local state  *)
(* does not.                                                               *)
(***************************************************************************)
EXTENDS Integers, FiniteSets

CONSTANTS
    Nodes,      \* the nodes that exist at the start
    Handlers,   \* HTTP requests that can be in flight at the same time
    NoNode,     \* "no value" for a node
    MaxTasks,   \* bound: rows ever inserted
    MaxBoots,   \* bound: starts of the panel process
    MaxFaults   \* bound: failing database calls

ASSUME TaskQueueAssumption ==
    /\ NoNode \notin Nodes
    /\ MaxTasks \in Nat
    /\ MaxBoots \in Nat
    /\ MaxFaults \in Nat

VARIABLES
    nodes,      \* rows of the table nodes
    status,     \* status column, per task id ("none": there is no such row)
    nodeOf,     \* node_id column, per task id
    nextId,     \* the AUTOINCREMENT counter: ids are never reused
    pc,         \* where the worker is in its loop ("down": no process)
    cur,        \* the task the worker holds in memory, 0 if none
    outcome,    \* what run_task returned for cur
    req,        \* per handler: the node it found, before its INSERT
    boots,      \* process starts so far
    faults,     \* database calls that failed so far
    (* History, read by no action: *)
    runs,       \* per task id: how often run_task was entered
    last,       \* the newest id claimed since the process started
    lost        \* rows left in running by a failed database call

table  == <<nodes, status, nodeOf, nextId>>
worker == <<pc, cur, outcome>>
hist   == <<runs, last, lost>>
vars   == <<table, worker, req, boots, faults, hist>>

TaskId      == 1..MaxTasks
Status      == {"none", "pending", "running", "success", "failed"}
Terminal    == {"success", "failed"}
WorkerState == {"down", "boot", "poll", "claimed", "exec", "finish"}

Pending == {t \in TaskId : status[t] = "pending"}
Running == {t \in TaskId : status[t] = "running"}

Fault == faults < MaxFaults /\ faults' = faults + 1

Init ==
    /\ nodes = Nodes
    /\ status = [t \in TaskId |-> "none"]
    /\ nodeOf = [t \in TaskId |-> NoNode]
    /\ nextId = 1
    /\ pc = "down" /\ cur = 0 /\ outcome = "failed"
    /\ req = [h \in Handlers |-> NoNode]
    /\ boots = 0 /\ faults = 0
    /\ runs = [t \in TaskId |-> 0] /\ last = 0 /\ lost = {}
-----------------------------------------------------------------------------
(* Faulty variants of definitions below, used by no action: what the         *)
(* properties are tested against.                                            *)

\* Without AUTOINCREMENT, SQLite hands out the largest remaining id plus one.
DeleteNodeFreeingIds(n) ==
    LET left == {t \in TaskId : status[t] # "none" /\ nodeOf[t] # n}
    IN  /\ pc # "down"
        /\ n \in nodes
        /\ nodes' = nodes \ {n}
        /\ status' = [t \in TaskId |-> IF t \in left THEN status[t] ELSE "none"]
        /\ nextId' = IF left = {} THEN 1 ELSE 1 + CHOOSE t \in left : \A u \in left : u <= t
        /\ lost' = {t \in lost : nodeOf[t] # n}
        /\ UNCHANGED <<nodeOf, worker, req, boots, faults, runs, last>>

\* Startup recovery is skipped.
RecoverNothing ==
    /\ pc = "boot"
    /\ pc' = "poll"
    /\ UNCHANGED <<table, cur, outcome, req, boots, faults, hist>>

\* Recovery without WHERE status = 'running'.
RecoverEverything ==
    /\ pc = "boot"
    /\ pc' = "poll"
    /\ status' = [t \in TaskId |-> IF status[t] = "none" THEN "none" ELSE "pending"]
    /\ lost' = {}
    /\ UNCHANGED <<nodes, nodeOf, nextId, cur, outcome, req, boots, faults, runs, last>>

\* ORDER BY id DESC.
ClaimNewest ==
    /\ pc = "poll"
    /\ \E t \in Pending :
         /\ \A u \in Pending : t >= u
         /\ status' = [status EXCEPT ![t] = "running"]
         /\ cur' = t
         /\ last' = t
    /\ pc' = "claimed"
    /\ UNCHANGED <<nodes, nodeOf, nextId, outcome, req, boots, faults, runs, lost>>

\* A result that cannot be recorded puts the task back in the queue.
FinishRequeues ==
    /\ pc = "finish"
    /\ Fault
    /\ pc' = "poll"
    /\ cur' = 0
    /\ status' = [t \in TaskId |->
                    IF t = cur /\ status[t] # "none" THEN "pending" ELSE status[t]]
    /\ UNCHANGED <<nodes, nodeOf, nextId, outcome, req, boots, hist>>

\* claim_next goes on to the next pending row without finishing its own.
ReadClaimedForgets ==
    /\ pc = "claimed"
    /\ pc' = "poll"
    /\ cur' = 0
    /\ UNCHANGED <<table, outcome, req, boots, faults, hist>>
-----------------------------------------------------------------------------
(* The HTTP handlers: look the node up, then insert. The two calls are     *)
(* separate statements, so the node may be deleted between them.           *)

HandlerFindsNode(h, n) ==
    /\ pc # "down"
    /\ req[h] = NoNode
    /\ n \in nodes
    /\ req' = [req EXCEPT ![h] = n]
    /\ UNCHANGED <<table, worker, boots, faults, hist>>

\* INSERT with status 'pending'; the foreign key on node_id rejects a node
\* that is gone by now, and the client gets an error.
Enqueue(h) ==
    /\ req[h] # NoNode
    /\ req' = [req EXCEPT ![h] = NoNode]
    /\ \/ /\ req[h] \in nodes
          /\ nextId <= MaxTasks
          /\ status' = [status EXCEPT ![nextId] = "pending"]
          /\ nodeOf' = [nodeOf EXCEPT ![nextId] = req[h]]
          /\ nextId' = nextId + 1
       \/ /\ req[h] \notin nodes
          /\ UNCHANGED <<status, nodeOf, nextId>>
    /\ UNCHANGED <<nodes, worker, boots, faults, hist>>

\* DELETE of a node: its task rows go with it, whatever the worker is doing.
DeleteNode(n) ==
    /\ pc # "down"
    /\ n \in nodes
    /\ nodes' = nodes \ {n}
    /\ status' = [t \in TaskId |-> IF nodeOf[t] = n THEN "none" ELSE status[t]]
    /\ lost' = {t \in lost : nodeOf[t] # n}
    /\ UNCHANGED <<nodeOf, nextId, worker, req, boots, faults, runs, last>>
-----------------------------------------------------------------------------
(* The worker. *)

StartProcess ==
    /\ pc = "down"
    /\ boots < MaxBoots
    /\ boots' = boots + 1
    /\ pc' = "boot"
    /\ last' = 0
    /\ UNCHANGED <<table, cur, outcome, req, faults, runs, lost>>

RecoverOrphans ==
    /\ pc = "boot"
    /\ pc' = "poll"
    /\ status' = [t \in TaskId |->
                    IF status[t] = "running" THEN "pending" ELSE status[t]]
    /\ lost' = {}
    /\ UNCHANGED <<nodes, nodeOf, nextId, cur, outcome, req, boots, faults, runs, last>>

\* The error is logged and the loop entered all the same.
RecoverOrphansFails ==
    /\ pc = "boot"
    /\ Fault
    /\ pc' = "poll"
    /\ lost' = Running
    /\ UNCHANGED <<table, cur, outcome, req, boots, runs, last>>

\* The claim's transaction: oldest pending row to running. Its failure, or an
\* empty queue, leaves everything as it was until the next poll.
ClaimNext ==
    /\ pc = "poll"
    /\ \E t \in Pending :
         /\ \A u \in Pending : t <= u
         /\ status' = [status EXCEPT ![t] = "running"]
         /\ cur' = t
         /\ last' = t
    /\ pc' = "claimed"
    /\ UNCHANGED <<nodes, nodeOf, nextId, outcome, req, boots, faults, runs, lost>>

PollsEmptyQueue ==
    /\ pc = "poll"
    /\ Pending = {}
    /\ UNCHANGED vars

\* claim_next reads the row back after its commit. A row that was deleted in
\* between is no task; otherwise run_task is entered.
ReadClaimed ==
    /\ pc = "claimed"
    /\ IF status[cur] = "none"
       THEN /\ pc' = "poll"
            /\ cur' = 0
            /\ UNCHANGED runs
       ELSE /\ pc' = "exec"
            /\ runs' = [runs EXCEPT ![cur] = @ + 1]
            /\ UNCHANGED cur
    /\ UNCHANGED <<table, outcome, req, boots, faults, last, lost>>

\* If reading it back fails, the loop continues and nobody holds the row.
ReadClaimedFails ==
    /\ pc = "claimed"
    /\ Fault
    /\ pc' = "poll"
    /\ cur' = 0
    /\ lost' = IF status[cur] = "running" THEN lost \cup {cur} ELSE lost
    /\ UNCHANGED <<table, outcome, req, boots, runs, last>>

RunTask(o) ==
    /\ pc = "exec"
    /\ outcome' = o
    /\ pc' = "finish"
    /\ UNCHANGED <<table, cur, req, boots, faults, hist>>

\* UPDATE ... WHERE id: no row, nothing written.
Finish ==
    /\ pc = "finish"
    /\ status' = [t \in TaskId |->
                    IF t = cur /\ status[t] # "none" THEN outcome ELSE status[t]]
    /\ pc' = "poll"
    /\ cur' = 0
    /\ UNCHANGED <<nodes, nodeOf, nextId, outcome, req, boots, faults, hist>>

\* let _ = finish(..): the error is dropped, the row stays running.
FinishFails ==
    /\ pc = "finish"
    /\ Fault
    /\ pc' = "poll"
    /\ cur' = 0
    /\ lost' = IF status[cur] = "running" THEN lost \cup {cur} ELSE lost
    /\ UNCHANGED <<table, outcome, req, boots, runs, last>>

\* The process dies anywhere; a further start is always left for it.
Crash ==
    /\ pc # "down"
    /\ boots < MaxBoots
    /\ pc' = "down"
    /\ cur' = 0
    /\ req' = [h \in Handlers |-> NoNode]
    /\ UNCHANGED <<table, outcome, boots, faults, hist>>
-----------------------------------------------------------------------------
WorkerStep ==
    \/ RecoverOrphans \/ ClaimNext \/ ReadClaimed \/ Finish
    \/ \E o \in Terminal : RunTask(o)

FaultStep == RecoverOrphansFails \/ ReadClaimedFails \/ FinishFails

HandlerStep ==
    \/ \E h \in Handlers, n \in Nodes : HandlerFindsNode(h, n)
    \/ \E h \in Handlers : Enqueue(h)

Next ==
    \/ WorkerStep
    \/ FaultStep
    \/ HandlerStep
    \/ PollsEmptyQueue
    \/ \E n \in Nodes : DeleteNode(n)
    \/ StartProcess
    \/ Crash

Spec == Init /\ [][Next]_vars

\* The worker's calls return (SSH and the database have timeouts) and the
\* service manager starts the process again; nobody has to send requests.
FairSpec == Spec /\ WF_vars(WorkerStep) /\ WF_vars(StartProcess)
-----------------------------------------------------------------------------
TypeOK ==
    /\ nodes \subseteq Nodes
    /\ status \in [TaskId -> Status]
    /\ nodeOf \in [TaskId -> Nodes \cup {NoNode}]
    /\ nextId \in 1..(MaxTasks + 1)
    /\ pc \in WorkerState
    /\ cur \in TaskId \cup {0}
    /\ outcome \in Terminal
    /\ req \in [Handlers -> Nodes \cup {NoNode}]
    /\ boots \in Nat
    /\ faults \in Nat
    /\ runs \in [TaskId -> Nat]
    /\ last \in Nat
    /\ lost \subseteq TaskId

\* Every running row is the one task the worker holds, or one that a failed
\* database call left behind: two tasks are never executed at the same time,
\* and nothing but a failed call strands a row.
RunningAccounted ==
    pc \notin {"down", "boot"} => Running \subseteq lost \cup {cur}

\* Every task still waiting is newer than every task claimed since the process
\* started: recovery, restarts and late inserts never make the worker overtake
\* or go back to an older task of the same process lifetime.
NoOvertaking ==
    pc \notin {"down", "boot"} => \A t \in Pending : t > last

\* A task is executed at most once per start of the process, whatever fails:
\* re-execution needs a restart.
OncePerBoot == \A t \in TaskId : runs[t] <= boots

\* A recorded result is final: finish never overwrites one, recovery never
\* reopens one; such a row only ever disappears, with its node.
ResultIsFinal ==
    [][\A t \in TaskId :
          status[t] \in Terminal =>
              \/ status'[t] = status[t]
              \/ status'[t] = "none" /\ nodeOf[t] \notin nodes']_vars

\* Every accepted task is eventually recorded as success or failed, over any
\* number of crashes, unless its node is deleted or a failed database call
\* strands its row.
EventuallySettled ==
    \A t \in TaskId :
        status[t] = "pending" ~> status[t] \in Terminal \cup {"none"} \/ t \in lost

-----------------------------------------------------------------------------
(* What an induction over the steps needs besides the invariants above. *)

\* The worker holds a task exactly between its claim and its finish, and that
\* task's row is running unless it was deleted.
HeldTask ==
    /\ cur # 0 <=> pc \in {"claimed", "exec", "finish"}
    /\ cur # 0 => status[cur] \in {"running", "none"}

\* Ids from nextId on were never inserted, claimed or executed.
FreshIds ==
    /\ last < nextId /\ cur < nextId
    /\ pc = "boot" => last = 0
    /\ \A t \in TaskId : t >= nextId => status[t] = "none" /\ runs[t] = 0

\* Who may still be executed in this process lifetime has not been so far.
RunBudget ==
    /\ pc # "down" => boots > 0
    /\ pc = "boot" => \A t \in TaskId : runs[t] < boots
    /\ pc # "down" => \A t \in Pending : runs[t] < boots
    /\ pc = "claimed" => runs[cur] < boots

\* The inductive invariant: together with TypeOK these parts imply each other's
\* preservation by every step of Next.
IInv ==
    /\ TypeOK
    /\ HeldTask
    /\ FreshIds
    /\ RunBudget
    /\ RunningAccounted
    /\ NoOvertaking
    /\ OncePerBoot
-----------------------------------------------------------------------------
(* The promise of the queue: ids are accepted in order, one at a time is     *)
(* being executed, and so on (see DurableQueue).                             *)

life == [t \in TaskId |->
           IF status[t] = "none"
           THEN IF t < nextId THEN "gone" ELSE "new"
           ELSE status[t]]

Abstract == INSTANCE DurableQueue
              WITH Ids <- TaskId, state <- life, active <- cur

\* The worker, the table and the handlers together implement the durable queue
\* of DurableQueue: each of their steps is one of its steps or changes nothing
\* of it.
ImplementsDurableQueue == Abstract!Spec
=============================================================================
