------------------------------ MODULE HostKeyPin ------------------------------
(***************************************************************************)
(* Trust-on-first-use pinning of one node's SSH host key.  The task worker *)
(* and any number of probes (test_connection requests, traffic collector   *)
(* passes) connect to the node at the same time, each with the copy of the *)
(* node row it read first.  All of them report the key they saw into one   *)
(* in-memory map; only the worker persists a key from it.  The key the     *)
(* node presents may change under them (reinstall, other machine).         *)
(***************************************************************************)
EXTENDS Integers, FiniteSets

CONSTANTS
    Keys,       \* host key fingerprints
    NoKey,      \* NULL
    Worker,     \* the task worker
    Probes,     \* concurrent test_connection requests and collector passes
    MaxTasks,   \* bound: tasks started
    MaxChanges  \* bound: changes of the presented key

ASSUME HostKeyAssumption ==
    /\ NoKey \notin Keys
    /\ Worker \notin Probes
    /\ MaxTasks \in Nat /\ MaxChanges \in Nat

Actors == {Worker} \cup Probes

VARIABLES
    pin,        \* nodes.ssh_host_fingerprint
    observed,   \* SshRemote.observed for this node
    hostKey,    \* the key the node presents now
    stage,      \* per actor: "idle", "ping", "observe", "pin" or "work"
    expected,   \* per actor: the pin in its copy of the node row
    slot,       \* per actor: the key of a handshake not yet recorded
    pins,       \* does the worker's task kind pin (apply_config, provision)?
    fp,         \* what the worker read from observed
    tasks, changes,
    (* History, read by no action: *)
    pinner,     \* number of the task that wrote the pin, 0 if none
    stray       \* tasks (0: probes) that accepted another key than the pin

panel  == <<stage, expected, slot, pins, fp, observed, tasks>>
hist   == <<pinner, stray>>
vars   == <<pin, hostKey, changes, panel, hist>>

Stages == {"idle", "ping", "observe", "pin", "work"}
KeyOrNull == Keys \cup {NoKey}

Init ==
    /\ pin = NoKey /\ observed = NoKey
    /\ hostKey \in Keys
    /\ stage = [a \in Actors |-> "idle"]
    /\ expected = [a \in Actors |-> NoKey]
    /\ slot = [a \in Actors |-> NoKey]
    /\ pins = FALSE /\ fp = NoKey
    /\ tasks = 0 /\ changes = 0
    /\ pinner = 0 /\ stray = {}

\* Number under which an actor's acceptances are remembered.
Number(a) == IF a = Worker THEN tasks ELSE 0
-----------------------------------------------------------------------------
\* A task or a probe reads the node row. Every task connects first with a ping
\* or, for a restart, with its command.
Begin(a) ==
    /\ stage[a] = "idle"
    /\ expected' = [expected EXCEPT ![a] = pin]
    /\ IF a = Worker
       THEN /\ tasks < MaxTasks
            /\ tasks' = tasks + 1
            /\ \/ pins' = TRUE  /\ stage' = [stage EXCEPT ![a] = "ping"]
               \/ pins' = FALSE /\ stage' = [stage EXCEPT ![a] = "work"]
       ELSE /\ stage' = [stage EXCEPT ![a] = "ping"]
            /\ UNCHANGED <<tasks, pins>>
    /\ UNCHANGED <<pin, hostKey, changes, slot, fp, observed, pinner, stray>>

\* check_server_key: the presented key goes into the connection's slot.
Handshake(a) ==
    /\ stage[a] \in {"ping", "work"}
    /\ slot[a] = NoKey
    /\ slot' = [slot EXCEPT ![a] = hostKey]
    /\ UNCHANGED <<pin, hostKey, changes, stage, expected, pins, fp, observed,
                   tasks, hist>>

\* A faulty variant, used by no action: every apply pins the key it finds.
AlwaysPin(a) ==
    IF a # Worker THEN "idle"
    ELSE IF stage[a] = "ping" /\ pins THEN "observe"
    ELSE "work"

\* Where an accepted connection leads: only a ping of a task that pins and knew
\* of no pin has the key persisted; a probe is done.
After(a) ==
    IF a # Worker THEN "idle"
    ELSE IF stage[a] = "ping" /\ pins /\ expected[a] = NoKey THEN "observe"
    ELSE "work"

\* A faulty variant, used by no action: keys are recorded but never compared.
ConnectedUnchecked(a) ==
    /\ slot[a] # NoKey
    /\ observed' = slot[a]
    /\ slot' = [slot EXCEPT ![a] = NoKey]
    /\ stage' = [stage EXCEPT ![a] = After(a)]
    /\ stray' = IF pin \in {NoKey, slot[a]} THEN stray ELSE stray \cup {Number(a)}
    /\ UNCHANGED <<pin, hostKey, changes, expected, pins, fp, tasks, pinner>>

\* Back from client::connect: the key is recorded whether it was accepted or
\* not, then an unexpected key ends the operation.
Connected(a) ==
    /\ slot[a] # NoKey
    /\ observed' = slot[a]
    /\ slot' = [slot EXCEPT ![a] = NoKey]
    /\ IF expected[a] \in {NoKey, slot[a]}
       THEN /\ stage' = [stage EXCEPT ![a] = After(a)]
            /\ stray' = IF pin \in {NoKey, slot[a]} THEN stray
                        ELSE stray \cup {Number(a)}
       ELSE /\ stage' = [stage EXCEPT ![a] = "idle"]
            /\ UNCHANGED stray
    /\ UNCHANGED <<pin, hostKey, changes, expected, pins, fp, tasks, pinner>>

\* The connection cannot be made or times out (nothing recorded), or the
\* authentication or the command over it fails.
ConnectionFails(a) ==
    /\ stage[a] \in {"ping", "work"}
    /\ stage' = [stage EXCEPT ![a] = "idle"]
    /\ slot' = [slot EXCEPT ![a] = NoKey]
    /\ \/ UNCHANGED observed
       \/ slot[a] # NoKey /\ observed' = slot[a]
    /\ UNCHANGED <<pin, hostKey, changes, expected, pins, fp, tasks, hist>>

\* observed_host_key: whatever connection of whichever actor was recorded last.
ReadObserved ==
    /\ stage[Worker] = "observe"
    /\ fp' = observed
    /\ stage' = [stage EXCEPT ![Worker] = "pin"]
    /\ UNCHANGED <<pin, hostKey, changes, expected, slot, pins, observed, tasks, hist>>

\* set_host_fingerprint; the task goes on with its old copy of the row.
WritePin(ok) ==
    /\ stage[Worker] = "pin"
    /\ stage' = [stage EXCEPT ![Worker] = "work"]
    /\ IF ok /\ fp # NoKey
       THEN pin' = fp /\ pinner' = tasks
       ELSE UNCHANGED <<pin, pinner>>
    /\ UNCHANGED <<hostKey, changes, expected, slot, pins, fp, observed, tasks, stray>>

EndTask ==
    /\ stage[Worker] = "work"
    /\ slot[Worker] = NoKey
    /\ stage' = [stage EXCEPT ![Worker] = "idle"]
    /\ UNCHANGED <<pin, hostKey, changes, expected, slot, pins, fp, observed, tasks, hist>>

HostKeyChanges(k) ==
    /\ changes < MaxChanges
    /\ k # hostKey
    /\ hostKey' = k
    /\ changes' = changes + 1
    /\ UNCHANGED <<pin, panel, hist>>

\* The panel process dies: everything in memory is gone, the pin is not.
Crash ==
    /\ stage' = [a \in Actors |-> "idle"]
    /\ slot' = [a \in Actors |-> NoKey]
    /\ observed' = NoKey
    /\ UNCHANGED <<pin, hostKey, changes, expected, pins, fp, tasks, hist>>

Next ==
    \/ \E a \in Actors : Begin(a) \/ Handshake(a) \/ Connected(a) \/ ConnectionFails(a)
    \/ ReadObserved
    \/ \E ok \in BOOLEAN : WritePin(ok)
    \/ EndTask
    \/ \E k \in Keys : HostKeyChanges(k)
    \/ Crash

Spec == Init /\ [][Next]_vars
-----------------------------------------------------------------------------
TypeOK ==
    /\ pin \in KeyOrNull /\ observed \in KeyOrNull /\ fp \in KeyOrNull
    /\ hostKey \in Keys
    /\ stage \in [Actors -> Stages]
    /\ expected \in [Actors -> KeyOrNull]
    /\ slot \in [Actors -> KeyOrNull]
    /\ pins \in BOOLEAN
    /\ tasks \in Nat /\ changes \in Nat
    /\ pinner \in Nat
    /\ stray \subseteq Nat

\* set_host_fingerprint's comment: "it never silently overwrites an established
\* pin", although its UPDATE is unconditional and the check for NULL was made
\* on a copy of the row, several awaits earlier.
PinIsStable == [][pin # NoKey => pin' = pin]_pin

\* Once a key is pinned, every operation still trusting any key is one that
\* read the row before; the only task among them is the one that pinned.
TrustWindow ==
    /\ pin # NoKey => stray \subseteq {0, pinner}
    /\ pin # NoKey /\ stage[Worker] # "idle" /\ expected[Worker] = NoKey => pinner = tasks
    /\ \A a \in Actors : expected[a] \in {NoKey, pin}
-----------------------------------------------------------------------------
(* What an induction over the steps needs besides TypeOK and TrustWindow. *)

\* A task that may still write the pin knew of none and has not written one:
\* it is the only writer, so there is none. A task number is used once.
SoleWriter ==
    /\ pinner <= tasks
    /\ stage[Worker] \in {"ping", "observe", "pin"} => pinner < tasks
    /\ stage[Worker] \in {"observe", "pin"} => expected[Worker] = NoKey
    /\ pin = NoKey => stray = {} /\ pinner = 0
    /\ \A a \in Actors : slot[a] # NoKey => stage[a] \in {"ping", "work"}

IInv == TypeOK /\ TrustWindow /\ SoleWriter
=============================================================================
