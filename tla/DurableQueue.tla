----------------------------- MODULE DurableQueue -----------------------------
(***************************************************************************)
(* What the task queue promises, without the worker, the requests and the  *)
(* failures: numbered tasks are accepted in order, started oldest first,   *)
(* one at a time, end once, and may be started again only after the        *)
(* executor gave up on them and everything given up was put back.          *)
(***************************************************************************)
EXTENDS Integers

CONSTANT Ids        \* the numbers a task can have

VARIABLES
    state,          \* per number, where its task is in its life
    active          \* the task being executed, 0 if none

Life == {"new", "pending", "running", "success", "failed", "gone"}

Queued == {t \in Ids : state[t] = "pending"}

Init ==
    /\ state = [t \in Ids |-> "new"]
    /\ active = 0

\* Numbers are given out in order and never twice.
Accept(t) ==
    /\ state[t] = "new"
    /\ \A u \in Ids : u < t => state[u] # "new"
    /\ state' = [state EXCEPT ![t] = "pending"]
    /\ UNCHANGED active

Begin(t) ==
    /\ active = 0
    /\ t \in Queued
    /\ \A u \in Queued : t <= u
    /\ state' = [state EXCEPT ![t] = "running"]
    /\ active' = t

End(t, result) ==
    /\ active = t
    /\ state[t] = "running"
    /\ state' = [state EXCEPT ![t] = result]
    /\ active' = 0

\* The executor lets go of its task without a result.
GiveUp ==
    /\ active # 0
    /\ active' = 0
    /\ UNCHANGED state

\* Everything given up is put back, in its old place.
Reopen ==
    /\ active = 0
    /\ state' = [t \in Ids |-> IF state[t] = "running" THEN "pending" ELSE state[t]]
    /\ UNCHANGED active

\* Accepted tasks are withdrawn, the active one possibly among them.
Withdraw(S) ==
    /\ \A t \in S : state[t] # "new"
    /\ state' = [t \in Ids |-> IF t \in S THEN "gone" ELSE state[t]]
    /\ UNCHANGED active

Next ==
    \/ \E t \in Ids : Accept(t) \/ Begin(t)
    \/ \E t \in Ids, r \in {"success", "failed"} : End(t, r)
    \/ GiveUp
    \/ Reopen
    \/ \E S \in SUBSET Ids : Withdraw(S)

Spec == Init /\ [][Next]_<<state, active>>
=============================================================================
