----------------------------- MODULE BackupsProofs -----------------------------
(***************************************************************************)
(* Theorems of Backups, for any requests, bounds, channels and rules.      *)
(* IInv is inductive: EverIntact speaks of deleted backups too, because a  *)
(* request that still holds one must not be able to spoil another;         *)
(* InFlight says what each request may rely on between its awaits; and     *)
(* OneCopy tells the file of a request from that of an older backup of the *)
(* same name, whose file a delete must have removed.                       *)
(***************************************************************************)
EXTENDS Backups, NotificationsProofs

Requests == [step: {"idle", "vacuum", "insert", "notify", "remove",
                    "row", "read", "sent"},
             id: Nat, name: Nat, copy: Nat]

Inserted == [name: Nat, copy: Nat]

(* The types, part by part. *)
LEMMA Typed ==
    ASSUME IInv
    PROVE  /\ now \in Nat /\ nextId \in Nat /\ nextId >= 1 /\ copies \in Nat /\ faults \in Nat
           /\ DOMAIN files \subseteq Nat /\ \A n \in DOMAIN files : files[n] \in Nat
           /\ DOMAIN rows \subseteq DOMAIN ever /\ DOMAIN ever = 1 .. nextId - 1
           /\ \A i \in DOMAIN ever : i \in Nat /\ ever[i] \in Inserted
                                     /\ ever[i].name \in Nat /\ ever[i].copy \in Nat
           /\ \A i \in DOMAIN rows : i \in DOMAIN ever /\ rows[i] \in Nat
           /\ req \in [Callers -> Requests]
           /\ doomed \subseteq DOMAIN ever /\ spilled \subseteq Nat /\ clashed \subseteq Nat
<1>1. TypeOK /\ Catalogued
  BY DEF IInv
<1>2. /\ now \in Nat /\ nextId \in Nat /\ nextId >= 1 /\ copies \in Nat /\ faults \in Nat
      /\ DOMAIN files \subseteq Nat /\ \A n \in DOMAIN files : files[n] \in Nat
      /\ DOMAIN rows \subseteq DOMAIN ever /\ DOMAIN ever = 1 .. nextId - 1
      /\ req \in [Callers -> Requests]
      /\ doomed \subseteq DOMAIN ever /\ spilled \subseteq Nat /\ clashed \subseteq Nat
  BY <1>1 DEF TypeOK, Requests
<1>3. \A i \in DOMAIN ever : i \in Nat /\ ever[i] \in Inserted
                             /\ ever[i].name \in Nat /\ ever[i].copy \in Nat
  BY <1>1 DEF TypeOK, Inserted
<1>4. \A i \in DOMAIN rows : i \in DOMAIN ever /\ rows[i] \in Nat
  BY <1>1, <1>2, <1>3 DEF Catalogued
<1>5. QED
  BY <1>2, <1>3, <1>4

LEMMA OfRequest ==
    ASSUME IInv, NEW r \in Callers
    PROVE  /\ req[r] \in Requests /\ req[r].id \in Nat /\ req[r].name \in Nat
           /\ req[r].copy \in Nat /\ InFlight(r)
           /\ req[r].step \in {"idle", "vacuum", "insert", "notify", "remove",
                               "row", "read", "sent"}
<1>1. req[r] \in Requests
  BY Typed
<1>2. InFlight(r)
  BY DEF IInv
<1>3. QED
  BY <1>1, <1>2 DEF Requests

(* No request has come to hold a copy, and none is behind a new row. *)
LEMMA OneCopyStays ==
    ASSUME IInv, UNCHANGED <<copies, ever>>,
           \A o \in Callers : req'[o].step = "insert" => req'[o] = req[o]
    PROVE  OneCopy'
BY DEF IInv, OneCopy

(* A file appears. *)
LEMMA FileAppears ==
    ASSUME NEW name, NEW copy, name \notin DOMAIN files, files' = With(files, name, copy)
    PROVE  /\ DOMAIN files' = DOMAIN files \cup {name} /\ files'[name] = copy
           /\ \A n \in DOMAIN files : n # name /\ files'[n] = files[n]
           /\ files' = [n \in DOMAIN files' |-> files'[n]]
           /\ \A n, k : Intact(n, k) => Intact(n, k)'
<1>1. /\ DOMAIN files' = DOMAIN files \cup {name} /\ files'[name] = copy
      /\ \A n \in DOMAIN files : n # name => files'[n] = files[n]
  BY DEF With
<1>2. files' = [n \in DOMAIN files' |-> files'[n]]
  BY DEF With
<1>3. \A n, k : Intact(n, k) => Intact(n, k)'
  BY <1>1 DEF Intact
<1>4. QED
  BY <1>1, <1>2, <1>3

LEMMA Start == Init => IInv
<1> SUFFICES ASSUME Init PROVE IInv
  OBVIOUS
<1>1. /\ now = 1 /\ files = <<>> /\ rows = <<>> /\ nextId = 1 /\ copies = 0
      /\ ever = <<>> /\ doomed = {} /\ spilled = {} /\ clashed = {} /\ faults = 0
      /\ req = [r \in Callers |-> Idle]
  BY DEF Init
<1>2. NoteInv
  BY InitNotify DEF Init
<1>3. DOMAIN files = {} /\ DOMAIN rows = {} /\ DOMAIN ever = {}
  BY <1>1
<1>4. /\ files = [n \in DOMAIN files |-> files[n]]
      /\ rows = [i \in DOMAIN rows |-> rows[i]]
      /\ ever = [i \in DOMAIN ever |-> ever[i]]
  BY <1>1
<1>5. Idle \in Requests
  BY DEF Idle, Requests
<1>6. TypeOK
  <2>1. DOMAIN ever = 1 .. nextId - 1 /\ NoteTypeOK
    BY <1>1, <1>2, <1>3 DEF NoteInv
  <2>2. req \in [Callers -> Requests]
    BY <1>1, <1>5
  <2>3. QED
    BY <1>1, <1>3, <1>4, <2>1, <2>2 DEF TypeOK, Requests
<1>7. \A r \in Callers : InFlight(r)
  BY <1>1 DEF Idle, InFlight
<1>8. QED
  <2>1. OneCopy
    BY <1>1, <1>3 DEF OneCopy, Idle
  <2>2. Catalogued /\ EverIntact /\ OrphansExplained
    BY <1>1, <1>3 DEF Catalogued, EverIntact, OrphansExplained
  <2>3. QED
    BY <1>2, <1>6, <1>7, <2>1, <2>2 DEF IInv

(* A request goes from one await to the next and leaves table and files alone; *)
(* if it was to insert a row for its file, it gives that file up. *)
LEMMA RequestMoves ==
    ASSUME IInv, NEW r \in Callers, NEW q \in Requests,
           req' = [req EXCEPT ![r] = q],
           UNCHANGED <<files, rows, nextId, copies, ever>>,
           now' \in Nat, faults' \in Nat,
           doomed \subseteq doomed', doomed' \subseteq DOMAIN ever,
           spilled \subseteq spilled', spilled' \subseteq Nat,
           clashed \subseteq clashed', clashed' \subseteq Nat,
           \A n \in clashed' \ clashed : \E j \in doomed : ever[j].name = n,
           q.step # "insert",
           req[r].step = "insert" => req[r].name \in spilled' \cup clashed',
           InFlight(r)', NoteInv'
    PROVE  IInv'
<1>1. /\ req'[r] = q /\ \A o \in Callers \ {r} : req'[o] = req[o]
      /\ req' \in [Callers -> Requests]
  BY Typed
<1>2. TypeOK'
  BY <1>1 DEF IInv, TypeOK, NoteInv, Requests
<1>3. Catalogued'
  BY DEF IInv, Catalogued
<1>4. \A i : Untouched(i)' => Untouched(i)
  BY DEF Untouched
<1>5. EverIntact'
  BY <1>4 DEF IInv, EverIntact, Intact
<1>6. ASSUME NEW n,
             \E o \in Callers : req[o].step = "insert" /\ req[o].name = n
      PROVE  \/ n \in spilled' \cup clashed'
             \/ \E o \in Callers : req'[o].step = "insert" /\ req'[o].name = n
  BY <1>1, <1>6
<1>7. OrphansExplained'
  BY <1>6 DEF IInv, OrphansExplained
<1>8. ASSUME NEW o \in Callers, o # r PROVE InFlight(o)'
  <2>1. InFlight(o) /\ req'[o] = req[o]
    BY <1>1, <1>8, OfRequest
  <2>2. req[o].step = "insert" =>
            \/ Intact(req[o].name, req[o].copy)'
            \/ \E j \in doomed' : ever'[j].name = req[o].name
    BY <2>1 DEF InFlight, Intact
  <2>3. req[o].step = "row" /\ req[o].name \in DOMAIN files =>
              \/ req[o].name \in spilled' \cup clashed'
              \/ \E p \in Callers : req'[p].step = "insert" /\ req'[p].name = req[o].name
              \/ \E k \in DOMAIN rows \ {req[o].id} : rows[k] = req[o].name
    BY <1>6, <2>1 DEF InFlight
  <2>4. QED
    BY <1>4, <2>1, <2>2, <2>3 DEF InFlight, Intact
<1>9. \A o \in Callers : InFlight(o)'
  BY <1>8
<1>10. OneCopy'
  BY <1>1, OneCopyStays
<1>11. QED
  BY <1>2, <1>3, <1>5, <1>7, <1>9, <1>10 DEF IInv

(* A request that is over relies on nothing. *)
LEMMA DoneKeeps ==
    ASSUME IInv, NEW r \in Callers, Done(r),
           UNCHANGED <<files, rows, nextId, copies, ever, doomed>>,
           now' \in Nat, faults' \in Nat,
           spilled \subseteq spilled', spilled' \subseteq Nat,
           clashed \subseteq clashed', clashed' \subseteq Nat,
           \A n \in clashed' \ clashed : \E j \in doomed : ever[j].name = n,
           req[r].step = "insert" => req[r].name \in spilled' \cup clashed',
           NoteInv'
    PROVE  IInv'
<1>1. /\ Idle \in Requests /\ req' = [req EXCEPT ![r] = Idle]
      /\ doomed \subseteq doomed' /\ doomed' \subseteq DOMAIN ever
  BY Typed DEF Done, Idle, Requests
<1>2. req'[r] = Idle /\ Idle.step # "insert"
  BY <1>1, Typed DEF Idle
<1>3. InFlight(r)'
  BY <1>2 DEF InFlight, Idle
<1>4. QED
  BY <1>1, <1>2, <1>3, RequestMoves

LEMMA CreateKeeps ==
    ASSUME IInv, NEW r \in Callers, Create(r)
    PROVE  IInv'
<1> DEFINE q == [Idle EXCEPT !.step = "vacuum", !.name = now]
<1>1. /\ req[r] = Idle /\ req' = [req EXCEPT ![r] = q]
      /\ UNCHANGED <<now, files, rows, nextId, copies, ever, doomed, spilled, clashed,
                     faults>>
      /\ UNCHANGED noteVars
  BY DEF Create, fileVars, history
<1>2. q \in Requests /\ q.step = "vacuum"
  BY Typed DEF Idle, Requests
<1>3. req[r].step # "insert"
  BY <1>1 DEF Idle
<1>4. req'[r] = q
  BY <1>1, Typed
<1> HIDE DEF q
<1>5. InFlight(r)'
  BY <1>2, <1>4 DEF InFlight
<1>6. NoteInv'
  BY <1>1, NoteUnchanged DEF IInv
<1>7. now' \in Nat /\ faults' \in Nat /\ doomed' \subseteq DOMAIN ever
      /\ spilled' \subseteq Nat /\ clashed' \subseteq Nat
  BY <1>1, Typed
<1>8. QED
  BY <1>1, <1>2, <1>3, <1>5, <1>6, <1>7, RequestMoves

LEMMA DeleteKeeps ==
    ASSUME IInv, NEW r \in Callers, NEW i \in BackupIds, Delete(r, i)
    PROVE  IInv'
<1> DEFINE q == [Idle EXCEPT !.step = "remove", !.id = i, !.name = rows[i]]
<1>1. /\ req[r] = Idle /\ i \in DOMAIN rows /\ req' = [req EXCEPT ![r] = q]
      /\ doomed' = doomed \cup {i}
      /\ UNCHANGED <<now, files, rows, nextId, copies, ever, spilled, clashed, faults>>
      /\ UNCHANGED noteVars
  BY DEF Delete, Select
<1>2. /\ q \in Requests /\ q.step = "remove" /\ q.id = i /\ q.name = rows[i]
  BY <1>1, Typed DEF Idle, Requests
<1>3. req[r].step # "insert"
  BY <1>1 DEF Idle
<1>4. req'[r] = q
  BY <1>1, Typed
<1>5. i \in DOMAIN ever /\ rows[i] = ever[i].name
  BY <1>1, Typed DEF IInv, Catalogued
<1> HIDE DEF q
<1>6. InFlight(r)'
  BY <1>1, <1>2, <1>4, <1>5 DEF InFlight
<1>7. NoteInv'
  BY <1>1, NoteUnchanged DEF IInv
<1>8. now' \in Nat /\ faults' \in Nat /\ doomed' \subseteq DOMAIN ever
      /\ spilled' \subseteq Nat /\ clashed' \subseteq Nat
  BY <1>1, <1>5, Typed
<1>9. QED
  BY <1>1, <1>2, <1>3, <1>6, <1>7, <1>8, RequestMoves

LEMMA DownloadKeeps ==
    ASSUME IInv, NEW r \in Callers, NEW i \in BackupIds, Download(r, i)
    PROVE  IInv'
<1> DEFINE q == [Idle EXCEPT !.step = "read", !.id = i, !.name = rows[i]]
<1>1. /\ req[r] = Idle /\ i \in DOMAIN rows /\ req' = [req EXCEPT ![r] = q]
      /\ UNCHANGED <<now, files, rows, nextId, copies, ever, doomed, spilled, clashed,
                     faults>>
      /\ UNCHANGED noteVars
  BY DEF Download, Select, fileVars, history
<1>2. /\ q \in Requests /\ q.step = "read" /\ q.id = i /\ q.name = rows[i]
  BY <1>1, Typed DEF Idle, Requests
<1>3. req[r].step # "insert"
  BY <1>1 DEF Idle
<1>4. req'[r] = q
  BY <1>1, Typed
<1>5. i \in DOMAIN ever /\ rows[i] = ever[i].name
  BY <1>1, Typed DEF IInv, Catalogued
<1> HIDE DEF q
<1>6. InFlight(r)'
  BY <1>1, <1>2, <1>4, <1>5 DEF InFlight
<1>7. NoteInv'
  BY <1>1, NoteUnchanged DEF IInv
<1>8. now' \in Nat /\ faults' \in Nat /\ doomed' \subseteq DOMAIN ever
      /\ spilled' \subseteq Nat /\ clashed' \subseteq Nat
  BY <1>1, Typed
<1>9. QED
  BY <1>1, <1>2, <1>3, <1>6, <1>7, <1>8, RequestMoves

(* A write: the name was free, so no other backup's file changes. *)
LEMMA VacuumKeeps ==
    ASSUME IInv, NEW r \in Callers, Vacuum(r)
    PROVE  IInv'
<1>1. /\ req[r].step = "vacuum"
      /\ UNCHANGED <<now, rows, nextId, ever, doomed, spilled, clashed, faults>>
      /\ UNCHANGED noteVars
  BY DEF Vacuum
<1>2. NoteInv'
  BY <1>1, NoteUnchanged DEF IInv
<1>3. CASE req[r].name \in DOMAIN files
  <2>1. Done(r) /\ UNCHANGED <<files, copies>>
    BY <1>3 DEF Vacuum
  <2>2. now' \in Nat /\ faults' \in Nat /\ spilled' \subseteq Nat /\ clashed' \subseteq Nat
    BY <1>1, Typed
  <2>3. QED
    BY <1>1, <1>2, <2>1, <2>2, DoneKeeps
<1>4. CASE req[r].name \notin DOMAIN files
  <2> DEFINE name == req[r].name
             copy == copies + 1
             q == [req[r] EXCEPT !.step = "insert", !.copy = copy]
  <2>1. /\ copies' = copy /\ files' = With(files, name, copy)
        /\ req' = [req EXCEPT ![r].step = "insert", ![r].copy = copy]
    BY <1>4 DEF Vacuum
  <2>2. req[r] \in Requests /\ req \in [Callers -> Requests] /\ name \in Nat /\ copy \in Nat
    BY Typed, OfRequest
  <2>3. /\ q \in Requests /\ q.step = "insert" /\ q.name = name /\ q.copy = copy
    BY <2>2 DEF Requests
  <2>4. req' = [req EXCEPT ![r] = q]
    BY <2>1, <2>2 DEF Requests
  <2> HIDE DEF q
  <2>5. /\ req'[r] = q /\ \A o \in Callers \ {r} : req'[o] = req[o]
        /\ req' \in [Callers -> Requests]
    BY <2>2, <2>3, <2>4
  <2>6. /\ DOMAIN files' = DOMAIN files \cup {name} /\ files'[name] = copy
        /\ \A n \in DOMAIN files : n # name /\ files'[n] = files[n]
        /\ files' = [n \in DOMAIN files' |-> files'[n]]
    BY <1>4, <2>1, FileAppears
  <2>7. \A n, k : Intact(n, k) => Intact(n, k)'
    BY <1>4, <2>1, FileAppears
  <2>8. \A i : Untouched(i)' => Untouched(i)
    BY <1>1 DEF Untouched
  <2>9. TypeOK'
    <3>1. DOMAIN files' \subseteq Nat /\ \A n \in DOMAIN files' : files'[n] \in Nat
      BY <2>2, <2>6, Typed
    <3>2. QED
      BY <1>1, <1>2, <2>1, <2>2, <2>5, <2>6, <3>1 DEF IInv, TypeOK, NoteInv, Requests
  <2>10. Catalogued'
    BY <1>1 DEF IInv, Catalogued
  <2>11. EverIntact'
    BY <1>1, <2>7, <2>8 DEF IInv, EverIntact
  <2>12. \A o \in Callers : req[o].step = "insert" =>
             req'[o].step = "insert" /\ req'[o].name = req[o].name
    BY <1>1, <2>5
  <2>13. OrphansExplained'
    BY <1>1, <2>3, <2>5, <2>6, <2>12 DEF IInv, OrphansExplained
  <2>14. InFlight(r)'
    <3>1. req'[r].name \in DOMAIN files' /\ files'[req'[r].name] = req'[r].copy
      BY <2>3, <2>5, <2>6
    <3>2. QED
      BY <2>3, <2>5, <2>6 DEF InFlight, Intact
  <2>15. ASSUME NEW o \in Callers, o # r PROVE InFlight(o)'
    <3>1. InFlight(o) /\ req'[o] = req[o]
      BY <2>5, <2>15, OfRequest
    <3>2. req[o].step = "insert" =>
              \/ req[o].name \in DOMAIN files' /\ files'[req[o].name] = req[o].copy
              \/ \E j \in doomed : ever[j].name = req[o].name
      BY <2>6, <3>1 DEF InFlight, Intact
    <3>3. req[o].step = "row" /\ req[o].name \in DOMAIN files' =>
              \/ req[o].name \in spilled \cup clashed
              \/ \E p \in Callers : req'[p].step = "insert" /\ req'[p].name = req[o].name
              \/ \E k \in DOMAIN rows \ {req[o].id} : rows[k] = req[o].name
      <4>1. CASE req[o].name = name
        BY <2>3, <2>5, <4>1
      <4>2. CASE req[o].name # name
        BY <2>6, <2>12, <3>1, <4>2 DEF InFlight
      <4>3. QED
        BY <4>1, <4>2
    <3>4. QED
      BY <1>1, <2>8, <3>1, <3>2, <3>3 DEF InFlight, Intact
  <2>16. \A o \in Callers : InFlight(o)'
    BY <2>14, <2>15
  <2>17. OneCopy'
    <3>1. /\ \A i \in DOMAIN ever : ever[i].copy \in Nat /\ ever[i].copy <= copies
          /\ \A o \in Callers : req[o].copy \in Nat
          /\ copies \in Nat
      BY Typed, OfRequest DEF IInv, OneCopy
    <3>2. \A i \in DOMAIN ever : ever[i].copy <= copy /\ ever[i].copy # copy
      BY <3>1
    <3>3. \A o \in Callers : req[o].step = "insert" => req[o].copy <= copy /\ req[o].copy # copy
      BY <3>1 DEF IInv, OneCopy
    <3>4. copies' = copy /\ ever' = ever /\ copy <= copy
      BY <1>1, <2>1, <3>1
    <3> HIDE DEF copy
    <3>5. QED
      BY <2>3, <2>5, <3>2, <3>3, <3>4 DEF IInv, OneCopy
  <2>18. QED
    BY <1>2, <2>9, <2>10, <2>11, <2>13, <2>16, <2>17 DEF IInv
<1>5. QED
  BY <1>3, <1>4

(* It fails, and may leave a part of a file under a name that was free. *)
LEMMA VacuumFailsKeeps ==
    ASSUME IInv, NEW r \in Callers, VacuumFails(r)
    PROVE  IInv'
<1> DEFINE name == req[r].name
<1>1. /\ req[r].step = "vacuum" /\ faults' = faults + 1 /\ Done(r)
      /\ UNCHANGED <<now, rows, nextId, copies, ever, doomed, clashed>>
      /\ UNCHANGED noteVars
  BY DEF VacuumFails, Fault
<1>2. NoteInv'
  BY <1>1, NoteUnchanged DEF IInv
<1>3. /\ now' \in Nat /\ faults' \in Nat /\ name \in Nat /\ Idle \in Requests
      /\ req \in [Callers -> Requests] /\ clashed \subseteq Nat
  BY <1>1, Typed, OfRequest DEF Idle, Requests
<1>4. CASE UNCHANGED <<files, spilled>>
  BY <1>1, <1>2, <1>3, <1>4, Typed, DoneKeeps
<1>5. CASE /\ name \notin DOMAIN files /\ files' = With(files, name, 0)
           /\ spilled' = spilled \cup {name}
  <2> HIDE DEF name
  <2>1. /\ DOMAIN files' = DOMAIN files \cup {name} /\ files'[name] = 0
        /\ \A n \in DOMAIN files : n # name /\ files'[n] = files[n]
        /\ files' = [n \in DOMAIN files' |-> files'[n]]
    BY <1>5, FileAppears
  <2>2. \A n, k : Intact(n, k) => Intact(n, k)'
    BY <1>5, FileAppears
  <2>3. /\ req'[r] = Idle /\ \A o \in Callers \ {r} : req'[o] = req[o]
        /\ req' \in [Callers -> Requests] /\ Idle.step = "idle"
    BY <1>1, <1>3 DEF Done, Idle
  <2>4. \A i : Untouched(i)' => Untouched(i)
    BY <1>1 DEF Untouched
  <2>5. TypeOK'
    <3>1. /\ DOMAIN files' \subseteq Nat /\ \A n \in DOMAIN files' : files'[n] \in Nat
          /\ spilled' \subseteq Nat
      BY <1>3, <1>5, <2>1, Typed
    <3>2. QED
      BY <1>1, <1>2, <1>3, <2>1, <2>3, <3>1 DEF IInv, TypeOK, NoteInv, Requests
  <2>6. Catalogued' /\ EverIntact'
    <3>1. Catalogued'
      BY <1>1 DEF IInv, Catalogued
    <3>2. EverIntact'
      BY <1>1, <2>2, <2>4 DEF IInv, EverIntact
    <3>3. QED
      BY <3>1, <3>2
  <2>7. \A o \in Callers : req[o].step = "insert" =>
             req'[o].step = "insert" /\ req'[o].name = req[o].name
    BY <1>1, <2>3
  <2>8. OrphansExplained'
    BY <1>1, <1>5, <2>1, <2>7 DEF IInv, OrphansExplained
  <2>9. OneCopy'
    BY <1>1, <2>3, OneCopyStays
  <2>10. InFlight(r)'
    BY <2>3 DEF InFlight
  <2>11. ASSUME NEW o \in Callers, o # r PROVE InFlight(o)'
    <3>1. InFlight(o) /\ req'[o] = req[o]
      BY <2>3, <2>11, OfRequest
    <3>2. req[o].step = "insert" =>
              \/ req[o].name \in DOMAIN files' /\ files'[req[o].name] = req[o].copy
              \/ \E j \in doomed : ever[j].name = req[o].name
      BY <2>1, <3>1 DEF InFlight, Intact
    <3>3. req[o].step = "row" /\ req[o].name \in DOMAIN files' =>
              \/ req[o].name \in spilled' \cup clashed
              \/ \E p \in Callers : req'[p].step = "insert" /\ req'[p].name = req[o].name
              \/ \E k \in DOMAIN rows \ {req[o].id} : rows[k] = req[o].name
      BY <1>5, <2>1, <2>7, <3>1 DEF InFlight
    <3>4. QED
      BY <1>1, <2>4, <3>1, <3>2, <3>3 DEF InFlight, Intact
  <2>12. \A o \in Callers : InFlight(o)'
    BY <2>10, <2>11
  <2>13. QED
    BY <1>2, <2>5, <2>6, <2>8, <2>9, <2>12 DEF IInv
<1>6. QED
  BY <1>4, <1>5 DEF VacuumFails

LEMMA InsertKeeps ==
    ASSUME IInv, NEW r \in Callers, Insert(r)
    PROVE  IInv'
<1> DEFINE name == req[r].name
<1>1. /\ req[r].step = "insert"
      /\ UNCHANGED <<now, files, copies, doomed, spilled, faults>>
  BY DEF Insert
<1>2. now' \in Nat /\ faults' \in Nat /\ name \in Nat
  BY <1>1, Typed, OfRequest
<1>3. CASE \E i \in DOMAIN rows : rows[i] = name
  <2>1. /\ clashed' = clashed \cup {name} /\ Done(r)
        /\ UNCHANGED <<rows, nextId, ever>> /\ UNCHANGED noteVars
    BY <1>3 DEF Insert
  <2>2. NoteInv'
    BY <2>1, NoteUnchanged DEF IInv
  <2>3. /\ spilled \subseteq spilled' /\ spilled' \subseteq Nat
        /\ clashed \subseteq clashed' /\ clashed' \subseteq Nat /\ name \in clashed'
    BY <1>1, <1>2, <2>1, Typed
  <2>4. \E j \in doomed : ever[j].name = name
    <3> SUFFICES ASSUME ~(\E j \in doomed : ever[j].name = name) PROVE FALSE
      OBVIOUS
    <3>1. PICK i \in DOMAIN rows : rows[i] = name
      BY <1>3
    <3>2. i \in DOMAIN ever /\ ever[i].name = name
      BY <3>1, Typed DEF IInv, Catalogued
    <3>3. Intact(name, ever[i].copy)
      BY <3>2 DEF IInv, EverIntact, Untouched
    <3>4. Intact(name, req[r].copy)
      BY <1>1, OfRequest DEF InFlight
    <3>5. ever[i].copy # req[r].copy
      BY <1>1, <3>2 DEF IInv, OneCopy
    <3>6. QED
      BY <3>3, <3>4, <3>5 DEF Intact
  <2>5. \A n \in clashed' \ clashed : \E j \in doomed : ever[j].name = n
    BY <2>1, <2>4
  <2>6. QED
    BY <1>1, <1>2, <2>1, <2>2, <2>3, <2>5, DoneKeeps
<1>4. CASE ~(\E i \in DOMAIN rows : rows[i] = name)
  <2> DEFINE new == nextId
             entry == [name |-> name, copy |-> req[r].copy]
             q == [req[r] EXCEPT !.step = "notify"]
  <2>1. /\ rows' = With(rows, new, name) /\ ever' = With(ever, new, entry)
        /\ nextId' = new + 1 /\ req' = [req EXCEPT ![r].step = "notify"]
        /\ Notify(r) /\ UNCHANGED <<clashed, book, edit, past>>
    BY <1>4 DEF Insert, Goto
  <2>2. NoteInv'
    BY <2>1, NotifyKeeps DEF IInv
  <2>3. /\ req[r] \in Requests /\ req \in [Callers -> Requests] /\ req[r].copy \in Nat
        /\ new \in Nat /\ new >= 1 /\ DOMAIN ever = 1 .. new - 1
        /\ DOMAIN rows \subseteq DOMAIN ever /\ doomed \subseteq DOMAIN ever
    BY Typed, OfRequest
  <2>4. q \in Requests /\ q.step = "notify"
    BY <2>3 DEF Requests
  <2>5. req' = [req EXCEPT ![r] = q]
    BY <2>1, <2>3 DEF Requests
  <2>6. entry \in Inserted /\ entry.name = name /\ entry.copy = req[r].copy
    BY <1>2, <2>3 DEF Inserted
  <2> HIDE DEF q, entry
  <2>7. /\ req'[r] = q /\ \A o \in Callers \ {r} : req'[o] = req[o]
        /\ req' \in [Callers -> Requests]
    BY <2>3, <2>4, <2>5
  <2>8. new \notin DOMAIN ever /\ DOMAIN ever \cup {new} = 1 .. nextId' - 1
    BY <2>1, <2>3
  <2>9. /\ DOMAIN ever' = DOMAIN ever \cup {new} /\ ever'[new] = entry
        /\ \A i \in DOMAIN ever : i # new /\ ever'[i] = ever[i]
        /\ ever' = [i \in DOMAIN ever' |-> ever'[i]]
    <3> HIDE DEF new
    <3>1. ever' = With(ever, new, entry)
      BY <2>1
    <3>2. /\ DOMAIN ever' = DOMAIN ever \cup {new} /\ ever'[new] = entry
          /\ \A i \in DOMAIN ever : i # new => ever'[i] = ever[i]
      BY <3>1 DEF With
    <3>3. ever' = [i \in DOMAIN ever' |-> ever'[i]]
      BY <3>1 DEF With
    <3>4. QED
      BY <2>8, <3>2, <3>3
  <2>10. /\ DOMAIN rows' = DOMAIN rows \cup {new} /\ rows'[new] = name
         /\ \A i \in DOMAIN rows : i # new /\ rows'[i] = rows[i]
         /\ rows' = [i \in DOMAIN rows' |-> rows'[i]]
    <3> HIDE DEF new, name
    <3>1. rows' = With(rows, new, name)
      BY <2>1
    <3>2. /\ DOMAIN rows' = DOMAIN rows \cup {new} /\ rows'[new] = name
          /\ \A i \in DOMAIN rows : i # new => rows'[i] = rows[i]
      BY <3>1 DEF With
    <3>3. rows' = [i \in DOMAIN rows' |-> rows'[i]]
      BY <3>1 DEF With
    <3>4. QED
      BY <2>3, <2>8, <3>2, <3>3
  <2> HIDE DEF new
  <2>11. \A i \in DOMAIN ever : Untouched(i)' <=> Untouched(i)
    BY <1>1, <2>3, <2>9 DEF Untouched
  <2>12. TypeOK'
    <3>1. \A i \in DOMAIN ever' : ever'[i] \in Inserted
      BY <2>6, <2>9, Typed
    <3>2. DOMAIN rows' \subseteq DOMAIN ever' /\ doomed' \subseteq DOMAIN ever'
      BY <1>1, <2>3, <2>9, <2>10
    <3>3. nextId' \in Nat \ {0}
      BY <2>1, <2>3
    <3>4. DOMAIN ever' = 1 .. nextId' - 1
      BY <2>8, <2>9
    <3>5. /\ NoteTypeOK' /\ now' \in Nat /\ copies' \in Nat /\ faults' \in Nat
          /\ files' = [n \in DOMAIN files' |-> files'[n]] /\ DOMAIN files' \subseteq Nat
          /\ \A n \in DOMAIN files' : files'[n] \in Nat
          /\ spilled' \subseteq Nat /\ clashed' \subseteq Nat
      BY <1>1, <2>1, <2>2 DEF NoteInv, IInv, TypeOK
    <3>6. QED
      BY <2>7, <2>9, <2>10, <3>1, <3>2, <3>3, <3>4, <3>5
         DEF TypeOK, Requests, Inserted
  <2>13. Catalogued'
    BY <1>4, <2>6, <2>9, <2>10, Typed DEF IInv, Catalogued
  <2>14. EverIntact'
    <3>1. ASSUME NEW i \in DOMAIN ever, Untouched(i)'
          PROVE  Intact(ever[i].name, ever[i].copy)
      BY <2>11, <3>1 DEF IInv, EverIntact
    <3>2. ASSUME NEW i, i = new, Untouched(i)' PROVE Intact(entry.name, entry.copy)
      <4>1. ~(\E j \in doomed : ever[j].name = name)
        BY <1>1, <2>3, <2>6, <2>9, <3>2 DEF Untouched
      <4>2. QED
        BY <1>1, <2>6, <4>1, OfRequest DEF InFlight
    <3>3. ASSUME NEW i \in DOMAIN ever', Untouched(i)'
          PROVE  ever'[i].name \in DOMAIN files /\ files[ever'[i].name] = ever'[i].copy
      BY <2>9, <3>1, <3>2, <3>3 DEF Intact
    <3>4. QED
      BY <1>1, <3>3 DEF EverIntact, Intact
  <2>15. OrphansExplained'
    <3>1. \A n : (\E i \in DOMAIN rows : rows[i] = n) =>
                     \E i \in DOMAIN rows' : rows'[i] = n
      BY <2>10
    <3>2. \A n : (\E o \in Callers : req[o].step = "insert" /\ req[o].name = n) =>
                     \/ \E i \in DOMAIN rows' : rows'[i] = n
                     \/ \E o \in Callers : req'[o].step = "insert" /\ req'[o].name = n
      BY <2>7, <2>10
    <3>3. \A n : (\E j \in doomed : ever[j].name = n) => \E j \in doomed : ever'[j].name = n
      BY <2>3, <2>9
    <3>4. QED
      BY <1>1, <2>1, <3>1, <3>2, <3>3 DEF IInv, OrphansExplained
  <2>16. InFlight(r)'
    BY <2>4, <2>7 DEF InFlight
  <2>17. ASSUME NEW o \in Callers, o # r PROVE InFlight(o)'
    <3>1. InFlight(o) /\ req'[o] = req[o]
      BY <2>7, <2>17, OfRequest
    <3>2. req[o].step = "insert" =>
              \/ Intact(req[o].name, req[o].copy)
              \/ \E j \in doomed : ever'[j].name = req[o].name
      BY <2>3, <2>9, <3>1 DEF InFlight
    <3>3. req[o].step = "row" /\ req[o].name \in DOMAIN files =>
              \/ req[o].name \in spilled \cup clashed
              \/ \E p \in Callers : req'[p].step = "insert" /\ req'[p].name = req[o].name
              \/ \E k \in DOMAIN rows' \ {req[o].id} : rows'[k] = req[o].name
      <4> SUFFICES ASSUME req[o].step = "row", req[o].name \in DOMAIN files,
                          req[o].name \notin spilled \cup clashed
                   PROVE  \/ \E p \in Callers : req'[p].step = "insert" /\ req'[p].name = req[o].name
                          \/ \E k \in DOMAIN rows' \ {req[o].id} : rows'[k] = req[o].name
        OBVIOUS
      <4>1. CASE \E k \in DOMAIN rows \ {req[o].id} : rows[k] = req[o].name
        BY <2>10, <4>1
      <4>2. CASE req[r].name = req[o].name
        <5>1. req[o].id \in DOMAIN ever
          BY <3>1 DEF InFlight
        <5>2. new \in DOMAIN rows' \ {req[o].id}
          BY <2>8, <2>10, <5>1
        <5>3. QED
          BY <2>10, <4>2, <5>2
      <4>3. CASE \E p \in Callers : p # r /\ req[p].step = "insert" /\ req[p].name = req[o].name
        BY <2>7, <4>3
      <4>4. QED
        BY <3>1, <4>1, <4>2, <4>3 DEF InFlight
    <3>4. /\ req[o].step \in {"remove", "row", "read", "sent"} =>
                 req[o].id \in DOMAIN ever /\ req[o].id \in DOMAIN ever'
                 /\ ever'[req[o].id] = ever[req[o].id]
      BY <2>9, <3>1 DEF InFlight
    <3>5. req[o].step = "sent" /\ Untouched(req[o].id)' =>
              req[o].copy = ever'[req[o].id].copy
      BY <2>11, <3>1, <3>4 DEF InFlight
    <3>6. /\ req[o].step \in {"remove", "row", "read"} =>
                 req[o].name = ever'[req[o].id].name
          /\ req[o].step \in {"remove", "row"} => req[o].id \in doomed
      BY <3>1, <3>4 DEF InFlight
    <3>7. QED
      BY <1>1, <2>1, <3>1, <3>2, <3>3, <3>4, <3>5, <3>6 DEF InFlight, Intact
  <2>18. \A o \in Callers : InFlight(o)'
    BY <2>16, <2>17
  <2>19. OneCopy'
    <3>1. /\ \A o \in Callers : req'[o].step = "insert" => o # r /\ req'[o] = req[o]
          /\ copies' = copies
      BY <1>1, <2>4, <2>7
    <3>2. entry.copy <= copies /\ \A o \in Callers : req'[o].step = "insert" =>
              entry.copy # req[o].copy
      BY <1>1, <2>6, <3>1 DEF IInv, OneCopy
    <3>3. \A i \in DOMAIN ever' : \/ i \in DOMAIN ever /\ ever'[i] = ever[i]
                                  \/ ever'[i] = entry
      BY <2>9
    <3>4. QED
      BY <3>1, <3>2, <3>3 DEF IInv, OneCopy
  <2>20. QED
    BY <2>2, <2>12, <2>13, <2>14, <2>15, <2>18, <2>19 DEF IInv
<1>5. QED
  BY <1>3, <1>4

LEMMA RemoveFileKeeps ==
    ASSUME IInv, NEW r \in Callers, RemoveFile(r)
    PROVE  IInv'
<1> DEFINE name == req[r].name
           q == [req[r] EXCEPT !.step = "row"]
<1>1. /\ req[r].step = "remove" /\ files' = Without(files, name)
      /\ req' = [req EXCEPT ![r].step = "row"]
      /\ UNCHANGED <<now, rows, nextId, copies, ever, doomed, spilled, clashed, faults>>
      /\ UNCHANGED noteVars
  BY DEF RemoveFile, Goto, history
<1>2. NoteInv'
  BY <1>1, NoteUnchanged DEF IInv
<1>3. /\ req[r] \in Requests /\ req \in [Callers -> Requests] /\ InFlight(r)
  BY Typed, OfRequest
<1>4. /\ q \in Requests /\ q.step = "row" /\ q.name = name /\ q.id = req[r].id
  BY <1>3 DEF Requests
<1>5. req' = [req EXCEPT ![r] = q]
  BY <1>1, <1>3 DEF Requests
<1> HIDE DEF q
<1>6. /\ req'[r] = q /\ \A o \in Callers \ {r} : req'[o] = req[o]
      /\ req' \in [Callers -> Requests]
  BY <1>3, <1>4, <1>5
<1>7. q.id \in doomed /\ q.id \in DOMAIN ever /\ ever[q.id].name = name
  BY <1>1, <1>3, <1>4 DEF InFlight
<1>8. /\ DOMAIN files' = DOMAIN files \ {name}
      /\ \A n \in DOMAIN files : n # name => files'[n] = files[n]
      /\ files' = [n \in DOMAIN files' |-> files'[n]]
  <2> HIDE DEF name
  <2>1. files' = Without(files, name)
    BY <1>1
  <2>2. /\ DOMAIN files' = DOMAIN files \ {name}
        /\ \A n \in DOMAIN files : n # name => files'[n] = files[n]
    BY <2>1 DEF Without
  <2>3. files' = [n \in DOMAIN files' |-> files'[n]]
    BY <2>1 DEF Without
  <2>4. QED
    BY <2>2, <2>3
<1> HIDE DEF name
<1>9. \A i : Untouched(i)' <=> Untouched(i)
  BY <1>1 DEF Untouched
<1>10. \A n, k : Intact(n, k) /\ n # name => n \in DOMAIN files' /\ files'[n] = k
  BY <1>8 DEF Intact
<1>11. TypeOK'
  <2>1. DOMAIN files' \subseteq Nat /\ \A n \in DOMAIN files' : files'[n] \in Nat
    BY <1>8, Typed
  <2>2. /\ now' \in Nat /\ nextId' \in Nat \ {0} /\ copies' \in Nat /\ faults' \in Nat
        /\ rows' = [i \in DOMAIN rows' |-> rows'[i]] /\ DOMAIN rows' \subseteq DOMAIN ever'
        /\ ever' = [i \in DOMAIN ever' |-> ever'[i]] /\ DOMAIN ever' = 1 .. nextId' - 1
        /\ \A i \in DOMAIN ever' : ever'[i] \in Inserted
        /\ doomed' \subseteq DOMAIN ever' /\ spilled' \subseteq Nat /\ clashed' \subseteq Nat
    BY <1>1 DEF IInv, TypeOK, Inserted
  <2>3. NoteTypeOK'
    BY <1>2 DEF NoteInv
  <2>4. QED
    BY <1>6, <1>8, <2>1, <2>2, <2>3 DEF TypeOK, Requests, Inserted
<1>12. Catalogued'
  BY <1>1 DEF IInv, Catalogued
<1>13. EverIntact'
  <2>1. ASSUME NEW i \in DOMAIN ever, Untouched(i)
        PROVE  ever[i].name \in DOMAIN files' /\ files'[ever[i].name] = ever[i].copy
    <3>1. ever[i].name # name
      BY <1>7, <2>1 DEF Untouched
    <3>2. QED
      BY <1>10, <2>1, <3>1 DEF IInv, EverIntact
  <2>2. QED
    BY <1>1, <1>9, <2>1 DEF EverIntact, Intact
<1>14. \A o \in Callers : req[o].step = "insert" =>
           req'[o].step = "insert" /\ req'[o].name = req[o].name
  BY <1>1, <1>6
<1>15. OrphansExplained'
  BY <1>1, <1>8, <1>14 DEF IInv, OrphansExplained
<1>16. InFlight(r)'
  BY <1>1, <1>4, <1>6, <1>7, <1>8 DEF InFlight
<1>17. ASSUME NEW o \in Callers, o # r PROVE InFlight(o)'
  <2>1. InFlight(o) /\ req'[o] = req[o]
    BY <1>6, <1>17, OfRequest
  <2>2. req[o].step = "insert" =>
            \/ req[o].name \in DOMAIN files' /\ files'[req[o].name] = req[o].copy
            \/ \E j \in doomed : ever[j].name = req[o].name
    BY <1>7, <1>10, <2>1 DEF InFlight
  <2>3. req[o].step = "row" /\ req[o].name \in DOMAIN files' =>
            \/ req[o].name \in spilled \cup clashed
            \/ \E p \in Callers : req'[p].step = "insert" /\ req'[p].name = req[o].name
            \/ \E k \in DOMAIN rows \ {req[o].id} : rows[k] = req[o].name
    BY <1>8, <1>14, <2>1 DEF InFlight
  <2>4. /\ req[o].step \in {"remove", "row", "read", "sent"} => req[o].id \in DOMAIN ever
        /\ req[o].step \in {"remove", "row", "read"} => req[o].name = ever[req[o].id].name
        /\ req[o].step \in {"remove", "row"} => req[o].id \in doomed
        /\ req[o].step = "sent" /\ Untouched(req[o].id)' =>
               req[o].copy = ever[req[o].id].copy
    BY <1>9, <2>1 DEF InFlight
  <2>5. /\ doomed' = doomed /\ ever' = ever /\ spilled' = spilled /\ rows' = rows
        /\ clashed' = clashed /\ req'[o] = req[o]
    BY <1>1, <2>1
  <2>6. QED
    BY <2>2, <2>3, <2>4, <2>5 DEF InFlight, Intact
<1>18. \A o \in Callers : InFlight(o)'
  BY <1>16, <1>17
<1>19. OneCopy'
  BY <1>1, <1>4, <1>6, OneCopyStays
<1>20. QED
  BY <1>2, <1>11, <1>12, <1>13, <1>15, <1>18, <1>19 DEF IInv

LEMMA RemoveFailsKeeps ==
    ASSUME IInv, NEW r \in Callers, RemoveFails(r)
    PROVE  IInv'
<1> DEFINE name == req[r].name
           q == [req[r] EXCEPT !.step = "row"]
<1>1. /\ req[r].step = "remove" /\ spilled' = spilled \cup {name} /\ faults' = faults + 1
      /\ req' = [req EXCEPT ![r].step = "row"]
      /\ UNCHANGED <<now, files, rows, nextId, copies, ever, doomed, clashed>>
      /\ UNCHANGED noteVars
  BY DEF RemoveFails, Goto, Fault
<1>2. NoteInv'
  BY <1>1, NoteUnchanged DEF IInv
<1>3. /\ req[r] \in Requests /\ req \in [Callers -> Requests] /\ InFlight(r) /\ name \in Nat
  BY Typed, OfRequest
<1>4. /\ q \in Requests /\ q.step = "row" /\ q.name = name /\ q.id = req[r].id
  BY <1>3 DEF Requests
<1>5. req' = [req EXCEPT ![r] = q]
  BY <1>1, <1>3 DEF Requests
<1> HIDE DEF q
<1>6. req'[r] = q
  BY <1>3, <1>5
<1>7. q.id \in doomed /\ q.id \in DOMAIN ever /\ ever[q.id].name = name
  BY <1>1, <1>3, <1>4 DEF InFlight
<1>8. InFlight(r)'
  BY <1>1, <1>4, <1>6, <1>7 DEF InFlight
<1>9. now' \in Nat /\ faults' \in Nat /\ doomed' \subseteq DOMAIN ever
      /\ spilled' \subseteq Nat /\ clashed' \subseteq Nat
  BY <1>1, <1>3, Typed
<1>10. QED
  BY <1>1, <1>2, <1>4, <1>5, <1>8, <1>9, RequestMoves

LEMMA ReadFileKeeps ==
    ASSUME IInv, NEW r \in Callers, ReadFile(r)
    PROVE  IInv'
<1> DEFINE name == req[r].name
           copy == files[name]
           q == [req[r] EXCEPT !.step = "sent", !.copy = copy]
<1>1. /\ req[r].step = "read"
      /\ UNCHANGED <<now, files, rows, nextId, copies, ever, doomed, spilled, clashed,
                     faults>>
      /\ UNCHANGED noteVars
  BY DEF ReadFile, fileVars, history
<1>2. NoteInv'
  BY <1>1, NoteUnchanged DEF IInv
<1>3. now' \in Nat /\ faults' \in Nat /\ doomed' \subseteq DOMAIN ever
      /\ spilled' \subseteq Nat /\ clashed' \subseteq Nat
  BY <1>1, Typed
<1>4. CASE name \in DOMAIN files
  <2>1. req' = [req EXCEPT ![r].step = "sent", ![r].copy = copy]
    BY <1>4 DEF ReadFile
  <2>2. /\ req[r] \in Requests /\ req \in [Callers -> Requests] /\ InFlight(r) /\ copy \in Nat
    BY <1>4, Typed, OfRequest
  <2> HIDE DEF copy
  <2>3. /\ q \in Requests /\ q.step = "sent" /\ q.copy = copy /\ q.id = req[r].id
    BY <2>2 DEF Requests
  <2>4. req' = [req EXCEPT ![r] = q]
    BY <2>1, <2>2 DEF Requests
  <2> HIDE DEF q
  <2>5. req'[r] = q
    BY <2>2, <2>4
  <2>6. q.id \in DOMAIN ever /\ ever[q.id].name = name
    BY <1>1, <2>2, <2>3 DEF InFlight
  <2>7. Untouched(q.id) => q.copy = ever[q.id].copy
    BY <2>3, <2>6 DEF IInv, EverIntact, Intact, copy
  <2>8. \A i : Untouched(i)' => Untouched(i)
    BY <1>1 DEF Untouched
  <2>9. InFlight(r)'
    BY <1>1, <2>3, <2>5, <2>6, <2>7, <2>8 DEF InFlight
  <2>10. QED
    BY <1>1, <1>2, <1>3, <2>3, <2>4, <2>9, RequestMoves
<1>5. CASE name \notin DOMAIN files
  <2>1. Done(r)
    BY <1>5 DEF ReadFile
  <2>2. QED
    BY <1>1, <1>2, <1>3, <2>1, DoneKeeps
<1>6. QED
  BY <1>4, <1>5

(* The row goes; the file, if it is still there, was explained without it. *)
LEMMA DeleteRowKeeps ==
    ASSUME IInv, NEW r \in Callers, DeleteRow(r)
    PROVE  IInv'
<1> DEFINE id == req[r].id
           name == req[r].name
<1>1. /\ req[r].step = "row" /\ rows' = Without(rows, id)
      /\ req' = [req EXCEPT ![r] = Idle]
      /\ UNCHANGED <<now, files, nextId, copies, ever, doomed, spilled, clashed, faults>>
      /\ UNCHANGED noteVars
  BY DEF DeleteRow, Done, history
<1>2. NoteInv'
  BY <1>1, NoteUnchanged DEF IInv
<1>3. /\ req \in [Callers -> Requests] /\ InFlight(r) /\ Idle \in Requests
      /\ DOMAIN rows \subseteq DOMAIN ever
  BY Typed, OfRequest DEF Idle, Requests
<1>4. /\ req'[r] = Idle /\ \A o \in Callers \ {r} : req'[o] = req[o]
      /\ req' \in [Callers -> Requests]
  BY <1>1, <1>3
<1>5. /\ name = ever[id].name
      /\ name \in DOMAIN files =>
            \/ name \in spilled \cup clashed
            \/ \E o \in Callers : req[o].step = "insert" /\ req[o].name = name
            \/ \E k \in DOMAIN rows \ {id} : rows[k] = name
  BY <1>1, <1>3 DEF InFlight
<1>6. /\ DOMAIN rows' = DOMAIN rows \ {id}
      /\ \A i \in DOMAIN rows : i # id => rows'[i] = rows[i]
      /\ rows' = [i \in DOMAIN rows' |-> rows'[i]]
  <2> HIDE DEF id
  <2>1. rows' = Without(rows, id)
    BY <1>1
  <2>2. /\ DOMAIN rows' = DOMAIN rows \ {id}
        /\ \A i \in DOMAIN rows : i # id => rows'[i] = rows[i]
    BY <2>1 DEF Without
  <2>3. rows' = [i \in DOMAIN rows' |-> rows'[i]]
    BY <2>1 DEF Without
  <2>4. QED
    BY <2>2, <2>3
<1> HIDE DEF id, name
<1>7. \A i : Untouched(i)' <=> Untouched(i)
  BY <1>1 DEF Untouched
<1>8. TypeOK'
  BY <1>1, <1>2, <1>3, <1>4, <1>6 DEF IInv, TypeOK, NoteInv, Requests
<1>9. Catalogued'
  BY <1>1, <1>6 DEF IInv, Catalogued
<1>10. EverIntact'
  BY <1>1, <1>7 DEF IInv, EverIntact, Intact
<1>11. \A o \in Callers : req[o].step = "insert" => req'[o] = req[o]
  BY <1>1, <1>4
<1>12. id \in DOMAIN rows => rows[id] = name
  BY <1>5 DEF IInv, Catalogued
<1>13. OrphansExplained'
  <2> SUFFICES ASSUME NEW n \in DOMAIN files
               PROVE  \/ \E i \in DOMAIN rows' : rows'[i] = n
                      \/ \E o \in Callers : req'[o].step = "insert" /\ req'[o].name = n
                      \/ n \in spilled \cup clashed
    BY <1>1 DEF IInv, OrphansExplained
  <2>1. CASE n = name
    BY <1>5, <1>6, <1>11, <2>1
  <2>2. CASE n # name
    <3>1. \/ \E i \in DOMAIN rows : rows[i] = n
          \/ \E o \in Callers : req[o].step = "insert" /\ req[o].name = n
          \/ n \in spilled \cup clashed
      BY DEF IInv, OrphansExplained
    <3>2. QED
      BY <1>6, <1>11, <1>12, <2>2, <3>1
  <2>3. QED
    BY <2>1, <2>2
<1>14. InFlight(r)'
  BY <1>4 DEF InFlight, Idle
<1>15. ASSUME NEW o \in Callers, o # r PROVE InFlight(o)'
  <2>1. InFlight(o) /\ req'[o] = req[o]
    BY <1>4, <1>15, OfRequest
  <2>2. ASSUME req[o].step = "row", req[o].name \in DOMAIN files
        PROVE  \/ req[o].name \in spilled \cup clashed
               \/ \E p \in Callers : req'[p].step = "insert" /\ req'[p].name = req[o].name
               \/ \E k \in DOMAIN rows' \ {req[o].id} : rows'[k] = req[o].name
    <3>1. \/ req[o].name \in spilled \cup clashed
          \/ \E p \in Callers : req[p].step = "insert" /\ req[p].name = req[o].name
          \/ \E k \in DOMAIN rows \ {req[o].id} : rows[k] = req[o].name
      BY <2>1, <2>2 DEF InFlight
    <3>2. ASSUME NEW k \in DOMAIN rows \ {req[o].id}, rows[k] = req[o].name
          PROVE  \/ req[o].name \in spilled \cup clashed
                 \/ \E p \in Callers : req'[p].step = "insert" /\ req'[p].name = req[o].name
                 \/ \E j \in DOMAIN rows' \ {req[o].id} : rows'[j] = req[o].name
      <4>1. CASE k # id
        BY <1>6, <3>2, <4>1
      <4>2. CASE k = id
        <5>1. req[o].name = name
          BY <1>12, <3>2, <4>2
        <5>2. ~(\E j \in DOMAIN rows \ {id} : rows[j] = name)
          BY <3>2, <4>2, <5>1 DEF IInv, Catalogued
        <5>3. QED
          BY <1>5, <1>11, <2>2, <5>1, <5>2
      <4>3. QED
        BY <4>1, <4>2
    <3>3. QED
      BY <1>11, <3>1, <3>2
  <2>3. QED
    BY <1>1, <1>7, <2>1, <2>2 DEF InFlight, Intact
<1>16. \A o \in Callers : InFlight(o)'
  BY <1>14, <1>15
<1>17. OneCopy'
  BY <1>1, <1>4, OneCopyStays DEF Idle
<1>18. QED
  BY <1>2, <1>8, <1>9, <1>10, <1>13, <1>16, <1>17 DEF IInv

(* A request that ends early, whatever its notify() was doing. *)
LEMMA EndKeeps ==
    ASSUME IInv, NEW r \in Callers,
           \/ InsertFails(r) \/ DeleteRowFails(r)
           \/ Sent(r) \/ Created(r) \/ Abandon(r)
    PROVE  IInv'
<1>1. NoteInv'
  <2>1. UNCHANGED noteVars
        \/ (notice' = [notice EXCEPT ![r] = Off] /\ UNCHANGED <<book, edit, past>>)
    BY DEF InsertFails, DeleteRowFails, Sent, Created, Abandon
  <2>2. QED
    BY <2>1, NoteUnchanged, NotifyKeeps DEF IInv
<1>2. /\ Done(r) /\ UNCHANGED <<now, files, rows, nextId, copies, ever, doomed, clashed>>
      /\ faults' = faults \/ faults' = faults + 1
      /\ \/ spilled' = spilled /\ req[r].step # "insert"
         \/ spilled' = spilled \cup {req[r].name}
  BY DEF InsertFails, DeleteRowFails, Sent, Created, Abandon, Fault, fileVars, history
<1>3. /\ now' \in Nat /\ faults' \in Nat /\ spilled \subseteq spilled'
      /\ spilled' \subseteq Nat /\ clashed' \subseteq Nat
      /\ req[r].step = "insert" => req[r].name \in spilled'
  BY <1>2, Typed, OfRequest
<1>4. QED
  BY <1>1, <1>2, <1>3, DoneKeeps

(* Steps that concern no request's files. *)
LEMMA FilesUnchanged ==
    ASSUME IInv, NoteInv', now' \in Nat,
           UNCHANGED <<files, rows, nextId, copies, ever, doomed, spilled, clashed,
                       faults, req>>
    PROVE  IInv'
<1>1. TypeOK'
  BY DEF IInv, TypeOK, NoteInv
<1>2. \A i : Untouched(i)' <=> Untouched(i)
  BY DEF Untouched
<1>3. Catalogued' /\ OrphansExplained'
  BY DEF IInv, Catalogued, OrphansExplained
<1>4. EverIntact'
  BY <1>2 DEF IInv, EverIntact, Intact
<1>5. \A r \in Callers : InFlight(r)'
  BY <1>2 DEF IInv, InFlight, Intact
<1>6. OneCopy'
  BY OneCopyStays
<1>7. QED
  BY <1>1, <1>3, <1>4, <1>5, <1>6 DEF IInv

LEMMA StepKeeps == IInv /\ [Next]_vars => IInv'
<1> SUFFICES ASSUME IInv, [Next]_vars PROVE IInv'
  OBVIOUS
<1>1. CASE Tick
  <2>1. /\ now' = now + 1 /\ UNCHANGED noteVars
        /\ UNCHANGED <<files, rows, nextId, copies, ever, doomed, spilled, clashed,
                       faults, req>>
    BY <1>1 DEF Tick, history
  <2>2. NoteInv' /\ now' \in Nat
    BY <2>1, NoteUnchanged, Typed DEF IInv
  <2>3. QED
    BY <2>1, <2>2, FilesUnchanged
<1>2. CASE EditStep /\ UNCHANGED <<fileVars, req>>
  <2>1. NoteInv'
    BY <1>2, EditStepKeeps DEF IInv
  <2>2. now' \in Nat
        /\ UNCHANGED <<files, rows, nextId, copies, ever, doomed, spilled, clashed,
                       faults, req>>
    BY <1>2, Typed DEF fileVars, history
  <2>3. QED
    BY <2>1, <2>2, FilesUnchanged
<1>3. ASSUME NEW r \in Callers, Announce(r) PROVE IInv'
  <2>1. NoteInv'
    BY <1>3, NotifyStepKeeps DEF IInv, Announce
  <2>2. now' \in Nat
        /\ UNCHANGED <<files, rows, nextId, copies, ever, doomed, spilled, clashed,
                       faults, req>>
    BY <1>3, Typed DEF Announce, fileVars, history
  <2>3. QED
    BY <2>1, <2>2, FilesUnchanged
<1>4. ASSUME NEW r \in Callers, RequestStep(r) PROVE IInv'
  BY <1>3, <1>4, VacuumKeeps, InsertKeeps, EndKeeps, RemoveFileKeeps,
     DeleteRowKeeps, ReadFileKeeps DEF RequestStep
<1>5. ASSUME NEW r \in Callers, FaultStep(r) PROVE IInv'
  BY <1>5, EndKeeps, VacuumFailsKeeps, RemoveFailsKeeps DEF FaultStep
<1>6. ASSUME NEW r \in Callers, NEW i \in BackupIds, Delete(r, i) \/ Download(r, i)
      PROVE  IInv'
  BY <1>6, DeleteKeeps, DownloadKeeps
<1>7. ASSUME NEW r \in Callers, Create(r) PROVE IInv'
  BY <1>7, CreateKeeps
<1>8. CASE UNCHANGED vars
  <2>1. now' \in Nat /\ UNCHANGED noteVars
        /\ UNCHANGED <<files, rows, nextId, copies, ever, doomed, spilled, clashed,
                       faults, req>>
    BY <1>8, Typed DEF vars, fileVars, history
  <2>2. NoteInv'
    BY <2>1, NoteUnchanged DEF IInv
  <2>3. QED
    BY <2>1, <2>2, FilesUnchanged
<1>9. QED
  BY <1>1, <1>2, <1>4, <1>5, <1>6, <1>7, <1>8 DEF Next

(* What the invariant is for. *)
LEMMA IInvMeans ==
    IInv => BackupsIntact /\ OrphansExplained /\ ActsOnWhatItNamed
<1> SUFFICES ASSUME IInv
             PROVE  BackupsIntact /\ OrphansExplained /\ ActsOnWhatItNamed
  OBVIOUS
<1>1. \A i \in DOMAIN rows : i \in DOMAIN ever /\ rows[i] = ever[i].name
  BY Typed DEF IInv, Catalogued
<1>2. \A r \in Callers : InFlight(r)
  BY DEF IInv
<1>3. BackupsIntact
  BY <1>1, <1>2 DEF IInv, EverIntact, Intact, BackupsIntact, InFlight
<1>4. ActsOnWhatItNamed
  BY <1>1, <1>2 DEF ActsOnWhatItNamed, InFlight
<1>5. QED
  BY <1>3, <1>4 DEF IInv

\* Whatever the interleaving of requests, failing statements and abandoned
\* connections in backup_api, the types, the catalogue and what each request
\* relies on between its awaits hold.
THEOREM BackupInvariant == Spec => []IInv
<1>1. Init => IInv
  BY Start
<1>2. IInv /\ [Next]_vars => IInv'
  BY StepKeeps
<1>3. QED
  BY <1>1, <1>2, PTL DEF Spec

\* A backup that nobody has set out to delete keeps its file with the copy made
\* for it, and a download of it sends that copy.
THEOREM UntouchedBackupsAreIntact == Spec => []BackupsIntact
<1>1. IInv => BackupsIntact
  BY IInvMeans
<1>2. QED
  BY <1>1, BackupInvariant, PTL

\* A file stays in data/backups without its row only when the request that wrote
\* or removed it failed or was abandoned, or when it was created in the second of
\* a backup that a delete was half done with.
THEOREM FilesAreExplained == Spec => []OrphansExplained
<1>1. IInv => OrphansExplained
  BY IInvMeans
<1>2. QED
  BY <1>1, BackupInvariant, PTL

\* Between SELECT filename and the statement after it, the id that a delete or
\* a download was asked for does not come to mean another backup.
THEOREM RequestsKeepTheirBackup == Spec => []ActsOnWhatItNamed
<1>1. IInv => ActsOnWhatItNamed
  BY IInvMeans
<1>2. QED
  BY <1>1, BackupInvariant, PTL

\* What notify() of AppState knows at each await was so during its event, for
\* any edits of channels and rule in between.
THEOREM NotificationInvariant == Spec => []NoteInv
<1>1. IInv => NoteInv
  BY DEF IInv
<1>2. QED
  BY <1>1, BackupInvariant, PTL

\* Every message goes where an enabled channel led during the event, and to a
\* channel that a rule then in force meant.
THEOREM MessagesAreMeant == Spec => []AskedAsConfigured
<1>1. NoteInv => AskedAsConfigured
  BY NoteInvMeans
<1>2. QED
  BY <1>1, NotificationInvariant, PTL

\* When dispatch of panel-notify is through, each channel enabled and named all
\* the time was asked, and none twice.
THEOREM EveryChannelIsAsked == Spec => []NobodyLeftOut
<1>1. NoteInv => NobodyLeftOut
  BY NoteInvMeans
<1>2. QED
  BY <1>1, NotificationInvariant, PTL
=============================================================================
