--------------------------- MODULE HostKeyPinProofs ---------------------------
(***************************************************************************)
(* For every number of keys, probes, tasks and key changes: an established *)
(* pin is never overwritten, and only the task that wrote it goes on       *)
(* trusting other keys.                                                    *)
(***************************************************************************)
EXTENDS HostKeyPin, TLAPS

(* The initial state satisfies the inductive invariant. *)
LEMMA InitPin == Init => IInv
<1> SUFFICES ASSUME Init PROVE IInv
    OBVIOUS
<1> USE DEF Init, KeyOrNull, Stages
<1>1. TypeOK
  BY DEF TypeOK
<1>2. TrustWindow
  BY DEF TrustWindow
<1>3. SoleWriter
  BY DEF SoleWriter, Actors
<1>4. QED
  BY <1>1, <1>2, <1>3 DEF IInv

(* Every connection, pin write, key change and crash keeps it. *)
LEMMA PinStep == IInv /\ [Next]_vars => IInv'
<1> SUFFICES ASSUME IInv, [Next]_vars PROVE IInv'
    OBVIOUS
<1> USE HostKeyAssumption
    DEF IInv, TypeOK, TrustWindow, SoleWriter, KeyOrNull, Stages, Actors
<1>1. CASE UNCHANGED vars
  BY <1>1 DEF vars, panel, hist
<1>2. ASSUME NEW a \in Actors, Begin(a) PROVE IInv'
  <2>1. CASE a = Worker
    <3>1. /\ tasks' = tasks + 1
          /\ expected' = [expected EXCEPT ![a] = pin]
          /\ pins' \in BOOLEAN
          /\ \E s \in {"ping", "work"} : stage' = [stage EXCEPT ![a] = s]
          /\ UNCHANGED <<pin, hostKey, changes, slot, fp, observed, pinner,
                         stray>>
      BY <1>2, <2>1 DEF Begin
    <3>2. TypeOK'
      BY <3>1
    <3>3. TrustWindow'
      BY <2>1, <3>1
    <3>4. SoleWriter'
      BY <2>1, <3>1
    <3>5. QED
      BY <3>2, <3>3, <3>4
  <2>2. CASE a # Worker
    BY <1>2, <2>2 DEF Begin
  <2>3. QED
    BY <2>1, <2>2
<1>3. ASSUME NEW a \in Actors, Handshake(a) PROVE IInv'
  BY <1>3 DEF Handshake, hist
<1>4. ASSUME NEW a \in Actors, Connected(a) PROVE IInv'
  <2>1. /\ observed' = slot[a] /\ slot[a] \in Keys
        /\ slot' = [slot EXCEPT ![a] = NoKey]
        /\ UNCHANGED <<pin, hostKey, changes, expected, pins, fp, tasks, pinner>>
    BY <1>4 DEF Connected
  <2>2. CASE expected[a] \notin {NoKey, slot[a]}
    <3>1. stage' = [stage EXCEPT ![a] = "idle"]
          /\ UNCHANGED stray
      BY <1>4, <2>2 DEF Connected
    <3>2. TypeOK'
      BY <2>1, <3>1
    <3>3. TrustWindow' /\ SoleWriter'
      BY <2>1, <3>1
    <3>4. QED
      BY <3>2, <3>3
  <2>3. CASE expected[a] \in {NoKey, slot[a]}
    <3>1. /\ stage' = [stage EXCEPT ![a] = After(a)]
          /\ stray' = IF pin \in {NoKey, slot[a]} THEN stray ELSE stray \cup {Number(a)}
      BY <1>4, <2>3 DEF Connected
    <3>2. /\ After(a) \in {"idle", "observe", "work"}
          /\ After(a) = "observe" => a = Worker /\ expected[a] = NoKey /\ stage[a] = "ping"
          /\ a # Worker => After(a) = "idle"
      BY DEF After
    <3>3. Number(a) \in Nat
      BY DEF Number
    <3>4. TypeOK'
      BY <2>1, <3>1, <3>2, <3>3
    <3>5. pin \notin {NoKey, slot[a]} => Number(a) \in {0, pinner}
      BY <1>4, <2>3 DEF Connected, Number
    <3>6. TrustWindow'
      BY <2>1, <3>1, <3>2, <3>5
    <3>7. SoleWriter'
      BY <2>1, <3>1, <3>2
    <3>8. QED
      BY <3>4, <3>6, <3>7
  <2>4. QED
    BY <2>2, <2>3
<1>5. ASSUME NEW a \in Actors, ConnectionFails(a) PROVE IInv'
  BY <1>5 DEF ConnectionFails, hist
<1>6. CASE ReadObserved
  BY <1>6 DEF ReadObserved, hist
<1>7. ASSUME NEW ok \in BOOLEAN, WritePin(ok) PROVE IInv'
  <2>1. pin = NoKey /\ pinner < tasks /\ stray = {}
    BY <1>7 DEF WritePin
  <2>2. TypeOK'
    BY <1>7 DEF WritePin
  <2>3. TrustWindow'
    BY <1>7, <2>1 DEF WritePin
  <2>4. SoleWriter'
    BY <1>7, <2>1 DEF WritePin
  <2>5. QED
    BY <2>2, <2>3, <2>4
<1>8. CASE EndTask
  BY <1>8 DEF EndTask, hist
<1>9. ASSUME NEW k \in Keys, HostKeyChanges(k) PROVE IInv'
  BY <1>9 DEF HostKeyChanges, panel, hist
<1>10. CASE Crash
  BY <1>10 DEF Crash, hist
<1>11. QED
  BY <1>1, <1>2, <1>3, <1>4, <1>5, <1>6, <1>7, <1>8, <1>9, <1>10 DEF Next

(* The inductive invariant holds in every reachable state. *)
THEOREM PinInvariant == Spec => []IInv
  BY InitPin, PinStep, PTL DEF Spec

(* After the pin is written (executor.rs: the TOFU blocks of apply_config and
   provision), only the task that wrote it and probes begun before still accept
   another key. *)
THEOREM OnlyThePinnerTrusts == Spec => []TrustWindow
<1>1. IInv => TrustWindow
  BY DEF IInv
<1>2. QED
  BY PinInvariant, <1>1, PTL

(* set_host_fingerprint never overwrites a pin: its single caller found none
   when it read the row and nobody else writes it. *)
THEOREM PinNeverOverwritten == Spec => PinIsStable
<1>1. IInv /\ [Next]_vars => [pin # NoKey => pin' = pin]_pin
  <2> SUFFICES ASSUME IInv, [Next]_vars, pin' # pin PROVE pin = NoKey
      OBVIOUS
  <2>1. PICK ok \in BOOLEAN : WritePin(ok)
    BY DEF Next, Begin, Handshake, Connected, ConnectionFails, ReadObserved,
           EndTask, HostKeyChanges, Crash, vars
  <2>2. pinner < tasks /\ expected[Worker] = NoKey /\ stage[Worker] # "idle"
    BY <2>1 DEF IInv, SoleWriter, WritePin
  <2>3. QED
    BY <2>2 DEF IInv, TypeOK, TrustWindow
<1>2. QED
  BY PinInvariant, <1>1, PTL DEF Spec, PinIsStable
=============================================================================
