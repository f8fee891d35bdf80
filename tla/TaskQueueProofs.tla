--------------------------- MODULE TaskQueueProofs ---------------------------
(***************************************************************************)
(* The safety properties of TaskQueue for every number of nodes, requests, *)
(* tasks, restarts and failing database calls, and that TaskQueue          *)
(* implements DurableQueue.                                                *)
(***************************************************************************)
EXTENDS TaskQueue, TLAPS

(* The initial state satisfies the inductive invariant. *)
LEMMA InitIInv == Init => IInv
  BY TaskQueueAssumption
     DEF Init, IInv, TypeOK, TaskId, Status, Terminal, WorkerState, HeldTask,
         FreshIds, RunBudget, RunningAccounted, NoOvertaking, OncePerBoot,
         Pending, Running

(* Every step keeps the types: ids, states and counters stay in their ranges
   (worker.rs, repo.rs). *)
LEMMA TypeStep == IInv /\ [Next]_vars => TypeOK'
<1> SUFFICES ASSUME IInv, [Next]_vars PROVE TypeOK'
    OBVIOUS
<1> USE TaskQueueAssumption DEF IInv, TypeOK, TaskId, Status, Terminal, WorkerState
<1>1. CASE UNCHANGED vars
  BY <1>1 DEF vars, table, worker, hist
<1>2. ASSUME NEW h \in Handlers, NEW n \in Nodes, HandlerFindsNode(h, n) PROVE TypeOK'
  BY <1>2 DEF HandlerFindsNode, table, worker, hist
<1>3. ASSUME NEW h \in Handlers, Enqueue(h) PROVE TypeOK'
  <2>1. CASE req[h] \in nodes
    <3>1. nextId \in TaskId
      BY <1>3, <2>1 DEF Enqueue
    <3>2. status' \in [TaskId -> Status]
      BY <1>3, <2>1, <3>1 DEF Enqueue
    <3>3. nodeOf' \in [TaskId -> Nodes \cup {NoNode}]
      BY <1>3, <2>1, <3>1 DEF Enqueue
    <3>4. nextId' \in 1..(MaxTasks + 1)
      BY <1>3, <2>1, <3>1 DEF Enqueue
    <3>5. req' \in [Handlers -> Nodes \cup {NoNode}]
      BY <1>3 DEF Enqueue
    <3>6. UNCHANGED <<nodes, pc, cur, outcome, boots, faults, runs, last, lost>>
      BY <1>3 DEF Enqueue, worker, hist
    <3>7. QED
      BY <3>2, <3>3, <3>4, <3>5, <3>6
  <2>2. CASE req[h] \notin nodes
    BY <1>3, <2>2 DEF Enqueue, worker, hist
  <2>3. QED
    BY <2>1, <2>2
<1>4. ASSUME NEW n \in Nodes, DeleteNode(n) PROVE TypeOK'
  BY <1>4 DEF DeleteNode, worker
<1>5. CASE StartProcess
  BY <1>5 DEF StartProcess, table
<1>6. CASE RecoverOrphans
  BY <1>6 DEF RecoverOrphans
<1>7. CASE RecoverOrphansFails
  BY <1>7 DEF RecoverOrphansFails, Fault, Running, table
<1>8. CASE ClaimNext
  BY <1>8 DEF ClaimNext, Pending
<1>9. CASE PollsEmptyQueue
  BY <1>9 DEF PollsEmptyQueue, vars, table, worker, hist
<1>10. CASE ReadClaimed
  BY <1>10 DEF ReadClaimed, table
<1>11. CASE ReadClaimedFails
  BY <1>11 DEF ReadClaimedFails, HeldTask, Fault, table
<1>12. ASSUME NEW o \in Terminal, RunTask(o) PROVE TypeOK'
  BY <1>12 DEF RunTask, table, hist
<1>13. CASE Finish
  BY <1>13 DEF Finish, hist
<1>14. CASE FinishFails
  BY <1>14 DEF FinishFails, HeldTask, Fault, table
<1>15. CASE Crash
  BY <1>15 DEF Crash, table, hist
<1>16. QED
  BY <1>1, <1>2, <1>3, <1>4, <1>5, <1>6, <1>7, <1>8, <1>9, <1>10, <1>11,
     <1>12, <1>13, <1>14, <1>15
     DEF Next, WorkerStep, FaultStep, HandlerStep

(* The worker's grip on its task, and the three invariants, through every
   step. *)
LEMMA InvStep ==
  IInv /\ [Next]_vars =>
    /\ HeldTask' /\ FreshIds' /\ RunBudget'
    /\ RunningAccounted' /\ NoOvertaking' /\ OncePerBoot'
<1> DEFINE Goal == /\ HeldTask /\ FreshIds /\ RunBudget
                   /\ RunningAccounted /\ NoOvertaking /\ OncePerBoot
<1> SUFFICES ASSUME IInv, [Next]_vars PROVE Goal'
    OBVIOUS
<1> USE TaskQueueAssumption
    DEF IInv, TypeOK, TaskId, Status, Terminal, WorkerState, HeldTask, FreshIds,
        RunBudget, RunningAccounted, NoOvertaking, OncePerBoot, Pending, Running
<1>1. CASE UNCHANGED vars
  BY <1>1 DEF vars, table, worker, hist
<1>2. ASSUME NEW h \in Handlers, NEW n \in Nodes, HandlerFindsNode(h, n) PROVE Goal'
  BY <1>2 DEF HandlerFindsNode, table, worker, hist
<1>3. ASSUME NEW h \in Handlers, Enqueue(h) PROVE Goal'
  <2>1. CASE req[h] \in nodes
    <3>1. /\ nextId \in TaskId
          /\ status' = [status EXCEPT ![nextId] = "pending"]
          /\ nextId' = nextId + 1
          /\ UNCHANGED <<pc, cur, boots, runs, last, lost>>
      BY <1>3, <2>1 DEF Enqueue, worker, hist
    <3>2. \A t \in TaskId : t # nextId => status'[t] = status[t]
      BY <3>1
    <3>3. status'[nextId] = "pending"
      BY <3>1
    <3>4. HeldTask'
      BY <3>1, <3>2, <3>3
    <3>5. FreshIds'
      <4>1. last' < nextId' /\ cur' < nextId' /\ (pc' = "boot" => last' = 0)
        BY <3>1
      <4>2. ASSUME NEW t \in TaskId, t >= nextId'
            PROVE  status'[t] = "none" /\ runs'[t] = 0
        <5>1. t \in TaskId /\ t # nextId /\ t >= nextId
          BY <3>1, <4>2
        <5>2. status'[t] = status[t] /\ runs'[t] = runs[t]
          BY <3>1, <3>2, <5>1
        <5>3. QED
          BY <5>1, <5>2
      <4>3. QED
        BY <4>1, <4>2
    <3>6. RunBudget'
      BY <3>1, <3>2, <3>3
    <3>7. RunningAccounted' /\ NoOvertaking' /\ OncePerBoot'
      BY <3>1, <3>2, <3>3
    <3>8. QED
      BY <3>4, <3>5, <3>6, <3>7
  <2>2. CASE req[h] \notin nodes
    BY <1>3, <2>2 DEF Enqueue, worker, hist
  <2>3. QED
    BY <2>1, <2>2
<1>4. ASSUME NEW n \in Nodes, DeleteNode(n) PROVE Goal'
  BY <1>4 DEF DeleteNode, worker
<1>5. CASE StartProcess
  BY <1>5 DEF StartProcess, table
<1>6. CASE RecoverOrphans
  BY <1>6 DEF RecoverOrphans
<1>7. CASE RecoverOrphansFails
  BY <1>7 DEF RecoverOrphansFails, Fault, table
<1>8. CASE ClaimNext
  BY <1>8 DEF ClaimNext
<1>9. CASE PollsEmptyQueue
  BY <1>9 DEF PollsEmptyQueue, vars, table, worker, hist
<1>10. CASE ReadClaimed
  <2>1. CASE status[cur] = "none"
    BY <1>10, <2>1 DEF ReadClaimed, table
  <2>2. CASE status[cur] # "none"
    <3>1. /\ pc = "claimed" /\ pc' = "exec"
          /\ cur \in TaskId
          /\ runs' = [runs EXCEPT ![cur] = @ + 1]
          /\ UNCHANGED <<status, nextId, cur, boots, last, lost>>
      BY <1>10, <2>2 DEF ReadClaimed, table
    <3>2. status[cur] = "running"
      BY <2>2, <3>1
    <3>3. \A t \in TaskId : t # cur => runs'[t] = runs[t]
      BY <3>1
    <3>4. runs'[cur] = runs[cur] + 1 /\ runs[cur] < boots
      BY <3>1
    <3>5. HeldTask' /\ RunningAccounted' /\ NoOvertaking'
      BY <3>1, <3>2
    <3>6. FreshIds'
      BY <3>1, <3>2, <3>3
    <3>7. RunBudget' /\ OncePerBoot'
      BY <3>1, <3>2, <3>3, <3>4
    <3>8. QED
      BY <3>5, <3>6, <3>7
  <2>3. QED
    BY <2>1, <2>2
<1>11. CASE ReadClaimedFails
  BY <1>11 DEF ReadClaimedFails, Fault, table
<1>12. ASSUME NEW o \in Terminal, RunTask(o) PROVE Goal'
  BY <1>12 DEF RunTask, table, hist
<1>13. CASE Finish
  BY <1>13 DEF Finish, hist
<1>14. CASE FinishFails
  BY <1>14 DEF FinishFails, Fault, table
<1>15. CASE Crash
  BY <1>15 DEF Crash, table, hist
<1>16. QED
  BY <1>1, <1>2, <1>3, <1>4, <1>5, <1>6, <1>7, <1>8, <1>9, <1>10, <1>11,
     <1>12, <1>13, <1>14, <1>15
     DEF Next, WorkerStep, FaultStep, HandlerStep

(* The inductive invariant holds in every reachable state: worker.rs and
   repo.rs keep the table and the worker's memory consistent over crashes,
   failing calls and deletions. *)
THEOREM QueueInvariant == Spec => []IInv
<1>1. IInv /\ [Next]_vars => IInv'
  BY TypeStep, InvStep DEF IInv
<1>2. QED
  BY InitIInv, <1>1, PTL DEF Spec

(* Two tasks are never executed at once, and only a failed call strands a row. *)
THEOREM SingleExecution == Spec => []RunningAccounted
<1>1. IInv => RunningAccounted
  BY DEF IInv
<1>2. QED
  BY QueueInvariant, <1>1, PTL

(* Within one process lifetime tasks are claimed in the order of their ids. *)
THEOREM FifoPerBoot == Spec => []NoOvertaking
<1>1. IInv => NoOvertaking
  BY DEF IInv
<1>2. QED
  BY QueueInvariant, <1>1, PTL

(* A task is executed at most once per start of the process. *)
THEOREM AtMostOncePerBoot == Spec => []OncePerBoot
<1>1. IInv => OncePerBoot
  BY DEF IInv
<1>2. QED
  BY QueueInvariant, <1>1, PTL
-----------------------------------------------------------------------------
(* A recorded result is never overwritten or reopened; it only disappears with
   its node: finish writes the row of the task the worker holds, which is not
   terminal, and recover_orphans selects running rows only. *)
THEOREM ResultsAreFinal == Spec => ResultIsFinal
<1> DEFINE Final == \A t \in TaskId :
                      status[t] \in Terminal =>
                        \/ status'[t] = status[t]
                        \/ status'[t] = "none" /\ nodeOf[t] \notin nodes'
<1>1. IInv /\ [Next]_vars => [Final]_vars
  <2> SUFFICES ASSUME IInv, Next, NEW t \in TaskId, status[t] \in Terminal
               PROVE  \/ status'[t] = status[t]
                      \/ status'[t] = "none" /\ nodeOf[t] \notin nodes'
      OBVIOUS
  <2> USE DEF IInv, TypeOK, Terminal
  <2>1. CASE UNCHANGED status
    BY <2>1
  <2>2. ASSUME NEW h \in Handlers, Enqueue(h) PROVE status'[t] = status[t]
    <3>1. status[nextId] = "none" \/ nextId \notin TaskId
      BY DEF FreshIds
    <3>2. QED
      BY <2>2, <3>1 DEF Enqueue
  <2>3. ASSUME NEW n \in Nodes, DeleteNode(n)
        PROVE  \/ status'[t] = status[t]
               \/ status'[t] = "none" /\ nodeOf[t] \notin nodes'
    BY <2>3 DEF DeleteNode
  <2>4. CASE RecoverOrphans
    BY <2>4 DEF RecoverOrphans
  <2>5. CASE ClaimNext
    BY <2>5 DEF ClaimNext, Pending
  <2>6. CASE Finish
    BY <2>6 DEF Finish, HeldTask
  <2>7. QED
    BY <2>1, <2>2, <2>3, <2>4, <2>5, <2>6
       DEF Next, WorkerStep, FaultStep, HandlerStep, HandlerFindsNode, StartProcess,
           RecoverOrphansFails, PollsEmptyQueue, ReadClaimed, ReadClaimedFails,
           RunTask, FinishFails, Crash, vars, table
<1>2. QED
  BY QueueInvariant, <1>1, PTL DEF Spec, ResultIsFinal
-----------------------------------------------------------------------------
(* A step that leaves the rows, the id counter and the worker's task alone
   leaves the durable queue alone. *)
LEMMA LifeUnchanged == UNCHANGED <<status, nextId>> => life' = life
  BY DEF life

(* Every step of the queue is a step of the durable queue or changes nothing
   of it. *)
LEMMA StepMaps == IInv /\ [Next]_vars => [Abstract!Next]_<<life, cur>>
<1> SUFFICES ASSUME IInv, [Next]_vars
             PROVE  Abstract!Next \/ UNCHANGED <<life, cur>>
    OBVIOUS
<1> USE TaskQueueAssumption DEF IInv, TypeOK
<1>1. CASE UNCHANGED <<status, nextId, cur>>
  BY <1>1, LifeUnchanged
<1>2. ASSUME NEW h \in Handlers, Enqueue(h), req[h] \in nodes
      PROVE  Abstract!Accept(nextId) /\ nextId \in TaskId
  <2>1. /\ nextId \in TaskId /\ nextId' = nextId + 1 /\ cur' = cur
        /\ status' = [status EXCEPT ![nextId] = "pending"]
    BY <1>2 DEF Enqueue, worker, TaskId
  <2>2. status[nextId] = "none"
    BY <2>1 DEF FreshIds, TaskId
  <2>3. life[nextId] = "new"
    BY <2>1, <2>2 DEF life, TaskId
  <2>4. \A u \in TaskId : u < nextId => life[u] # "new"
    BY DEF life, TaskId, Status
  <2>5. \A t \in TaskId : t # nextId => status'[t] = status[t]
    BY <2>1
  <2>6. \A t \in TaskId : t # nextId => (t < nextId' <=> t < nextId)
    BY <2>1 DEF TaskId
  <2>7. life' = [life EXCEPT ![nextId] = "pending"]
    BY <2>1, <2>5, <2>6 DEF life
  <2>8. QED
    BY <2>1, <2>3, <2>4, <2>7 DEF Abstract!Accept
<1>3. ASSUME NEW n \in Nodes, DeleteNode(n)
      PROVE  \E S \in SUBSET TaskId : Abstract!Withdraw(S)
  <2> DEFINE S == {t \in TaskId : nodeOf[t] = n /\ t < nextId}
  <2>1. \A t \in S : life[t] # "new"
    BY DEF life, Status
  <2>2. /\ UNCHANGED <<nextId, cur>>
        /\ status' = [t \in TaskId |-> IF nodeOf[t] = n THEN "none" ELSE status[t]]
    BY <1>3 DEF DeleteNode, worker
  <2>3. \A t \in TaskId : t \notin S => status'[t] = status[t]
    BY <2>2 DEF FreshIds, TaskId
  <2>4. life' = [t \in TaskId |-> IF t \in S THEN "gone" ELSE life[t]]
    BY <2>2, <2>3 DEF life
  <2>5. Abstract!Withdraw(S)
    BY <2>1, <2>2, <2>4 DEF Abstract!Withdraw
  <2>6. QED
    BY <2>5
<1>4. CASE RecoverOrphans
  <2>1. cur = 0 /\ cur' = cur /\ nextId' = nextId
    BY <1>4 DEF RecoverOrphans, HeldTask
  <2>2. \A t \in TaskId :
          status'[t] = IF status[t] = "running" THEN "pending" ELSE status[t]
    BY <1>4 DEF RecoverOrphans
  <2>3. life' = [t \in TaskId |-> IF life[t] = "running" THEN "pending" ELSE life[t]]
    BY <2>1, <2>2 DEF life, Status
  <2>4. Abstract!Reopen
    BY <2>1, <2>3 DEF Abstract!Reopen
  <2>5. QED
    BY <2>4 DEF Abstract!Next
<1>5. CASE ClaimNext
  <2>1. PICK t \in Pending : /\ \A u \in Pending : t <= u
                             /\ status' = [status EXCEPT ![t] = "running"]
                             /\ cur' = t
    BY <1>5 DEF ClaimNext
  <2>2. cur = 0 /\ nextId' = nextId
    BY <1>5 DEF ClaimNext, HeldTask
  <2>3. Abstract!Queued = Pending
    BY DEF Abstract!Queued, Pending, life
  <2>4. life' = [life EXCEPT ![t] = "running"]
    BY <2>1, <2>2 DEF life, Pending
  <2>5. Abstract!Begin(t)
    BY <2>1, <2>2, <2>3, <2>4 DEF Abstract!Begin
  <2>6. QED
    BY <2>5 DEF Abstract!Next, Pending
<1>6. ASSUME cur # 0, cur' = 0, UNCHANGED <<status, nextId>>
      PROVE  Abstract!GiveUp
  BY <1>6, LifeUnchanged DEF Abstract!GiveUp
<1>7. CASE Finish
  <2>1. cur \in TaskId /\ cur' = 0 /\ nextId' = nextId
    BY <1>7 DEF Finish, HeldTask
  <2>2. CASE status[cur] = "none"
    <3>1. status' = status
      BY <1>7, <2>2 DEF Finish
    <3>2. QED
      BY <1>6, <2>1, <3>1 DEF Abstract!Next, TaskId
  <2>3. CASE status[cur] # "none"
    <3>1. status' = [status EXCEPT ![cur] = outcome]
      BY <1>7, <2>3 DEF Finish
    <3>2. life[cur] = "running"
      BY <2>1, <2>3 DEF life, HeldTask, TaskId
    <3>3. life' = [life EXCEPT ![cur] = outcome]
      BY <2>1, <3>1 DEF life, Terminal
    <3>4. Abstract!End(cur, outcome)
      BY <2>1, <3>2, <3>3 DEF Abstract!End
    <3>5. QED
      BY <2>1, <3>4 DEF Abstract!Next, Terminal
  <2>4. QED
    BY <2>2, <2>3
<1>8. CASE ReadClaimed \/ ReadClaimedFails \/ FinishFails \/ Crash
  <2>1. UNCHANGED <<status, nextId>> /\ (cur' = cur \/ cur' = 0)
    BY <1>8 DEF ReadClaimed, ReadClaimedFails, FinishFails, Crash, table
  <2>2. QED
    BY <1>1, <1>6, <2>1 DEF Abstract!Next
<1>9. ASSUME NEW h \in Handlers, Enqueue(h), req[h] \notin nodes
      PROVE  UNCHANGED <<status, nextId, cur>>
  BY <1>9 DEF Enqueue, worker
<1>10. QED
  BY <1>1, <1>2, <1>3, <1>4, <1>5, <1>7, <1>8, <1>9
     DEF Next, WorkerStep, FaultStep, HandlerStep, HandlerFindsNode, StartProcess,
         RecoverOrphansFails, PollsEmptyQueue, RunTask, vars, table, worker,
         Abstract!Next

(* The task queue implements the durable queue: tasks start oldest first, one
   at a time, end once, and start again only after everything was put back. *)
THEOREM QueueImplementsDurableQueue == Spec => ImplementsDurableQueue
<1>1. Init => Abstract!Init
  BY DEF Init, Abstract!Init, life, TaskId
<1>2. QED
  BY <1>1, StepMaps, QueueInvariant, PTL DEF Spec, ImplementsDurableQueue, Abstract!Spec
=============================================================================
