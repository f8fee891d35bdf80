-------------------------------- MODULE Backups --------------------------------
(***************************************************************************)
(* Backups: a file per backup, written by VACUUM INTO and named by the     *)
(* second, and a row in the table backups; created, downloaded and deleted *)
(* by concurrent requests, each of which may end at any await. list only   *)
(* reads the table, and nothing puts a file without a row back into it.    *)
(* A created backup is announced before it is answered: Notifications.     *)
(***************************************************************************)
EXTENDS Notifications

CONSTANTS
    MaxId,     \* bound: rows ever inserted
    MaxTime,   \* bound: seconds
    MaxCopies, \* bound: files ever written
    MaxFaults  \* bound: failing statements and file operations

BackupIds == 1..MaxId
Times     == 1..MaxTime

ASSUME BackupsAssumption ==
    MaxId \in Nat /\ MaxTime \in Nat /\ MaxCopies \in Nat /\ MaxFaults \in Nat

VARIABLES
    now,     \* the second that the next file is named by
    files,   \* data/backups: name -> which copy of the database it is
    rows,    \* table backups: id -> filename
    nextId,  \* AUTOINCREMENT
    req,     \* the requests
    \* History.
    copies,  \* copies of the database ever written
    ever,    \* of each id ever inserted: its filename and the copy it stands for
    doomed,  \* ids whose file some request has set out to remove
    spilled, \* files given up: written in part, their INSERT failed or never
             \* came, or they could not be removed
    clashed, \* files whose INSERT met the row of an older backup of their name
    faults

history == <<copies, ever, doomed, spilled, clashed>>
fileVars == <<now, files, rows, nextId, history, faults>>
vars == <<fileVars, req, noteVars>>

Idle == [step |-> "idle", id |-> 0, name |-> 0, copy |-> 0]

Init ==
    /\ now = 1 /\ files = <<>> /\ rows = <<>> /\ nextId = 1
    /\ req = [r \in Callers |-> Idle]
    /\ copies = 0 /\ ever = <<>> /\ doomed = {} /\ spilled = {}
    /\ clashed = {} /\ faults = 0
    /\ NotifyInit

With(f, x, y)  == [z \in DOMAIN f \cup {x} |-> IF z = x THEN y ELSE f[z]]
Without(f, x)  == [z \in DOMAIN f \ {x} |-> f[z]]

Goto(r, step)  == req' = [req EXCEPT ![r].step = step]
Done(r)        == req' = [req EXCEPT ![r] = Idle]
Fault          == faults < MaxFaults /\ faults' = faults + 1

Tick ==
    /\ now < MaxTime
    /\ now' = now + 1
    /\ UNCHANGED <<files, rows, nextId, history, faults, req, noteVars>>
-----------------------------------------------------------------------------
(* create *)

\* The name is made of the time, before the file is written.
Create(r) ==
    /\ req[r] = Idle
    /\ req' = [req EXCEPT ![r] = [Idle EXCEPT !.step = "vacuum", !.name = now]]
    /\ UNCHANGED <<fileVars, noteVars>>

\* Faulty variant, used by no action: a file of that name is overwritten.
VacuumOverwrites(r) ==
    /\ req[r].step = "vacuum" /\ copies < MaxCopies
    /\ copies' = copies + 1
    /\ files' = With(files, req[r].name, copies')
    /\ req' = [req EXCEPT ![r].step = "insert", ![r].copy = copies']
    /\ UNCHANGED <<now, rows, nextId, ever, doomed, spilled, clashed, faults, noteVars>>

\* VACUUM INTO: an error if the file is there.
Vacuum(r) ==
    /\ req[r].step = "vacuum"
    /\ IF req[r].name \in DOMAIN files
       THEN Done(r) /\ UNCHANGED <<files, copies>>
       ELSE /\ copies < MaxCopies
            /\ copies' = copies + 1
            /\ files' = With(files, req[r].name, copies')
            /\ req' = [req EXCEPT ![r].step = "insert", ![r].copy = copies']
    /\ UNCHANGED <<now, rows, nextId, ever, doomed, spilled, clashed, faults, noteVars>>

\* It fails, or the process dies in it: a part of a file may be left (copy 0).
VacuumFails(r) ==
    /\ req[r].step = "vacuum"
    /\ Fault /\ Done(r)
    /\ \/ UNCHANGED <<files, spilled>>
       \/ /\ req[r].name \notin DOMAIN files
          /\ files' = With(files, req[r].name, 0)
          /\ spilled' = spilled \cup {req[r].name}
    /\ UNCHANGED <<now, rows, nextId, copies, ever, doomed, clashed, noteVars>>

\* Faulty variant, used by no action: without AUTOINCREMENT.
InsertReusesId(r) ==
    LET id == CHOOSE i \in 1..(nextId + 1) :
                  /\ \A j \in DOMAIN rows : j < i
                  /\ i = 1 \/ i - 1 \in DOMAIN rows
    IN  /\ req[r].step = "insert" /\ nextId \in BackupIds
        /\ \A i \in DOMAIN rows : rows[i] # req[r].name
        /\ rows' = With(rows, id, req[r].name)
        /\ ever' = With(ever, id, [name |-> req[r].name, copy |-> req[r].copy])
        /\ nextId' = nextId + 1
        /\ Goto(r, "notify") /\ Notify(r)
        /\ UNCHANGED <<now, files, copies, doomed, spilled, clashed, faults,
                       book, edit, past>>

\* filename is UNIQUE: an older backup of the same second is in the way when a
\* delete has removed its file, but not its row yet. The rest of the answer waits
\* for notify().
Insert(r) ==
    /\ req[r].step = "insert"
    /\ IF \E i \in DOMAIN rows : rows[i] = req[r].name
       THEN /\ clashed' = clashed \cup {req[r].name}
            /\ Done(r)
            /\ UNCHANGED <<rows, nextId, ever, noteVars>>
       ELSE /\ nextId \in BackupIds
            /\ rows' = With(rows, nextId, req[r].name)
            /\ ever' = With(ever, nextId, [name |-> req[r].name, copy |-> req[r].copy])
            /\ nextId' = nextId + 1
            /\ Goto(r, "notify") /\ Notify(r)
            /\ UNCHANGED <<clashed, book, edit, past>>
    /\ UNCHANGED <<now, files, copies, doomed, spilled, faults>>

InsertFails(r) ==
    /\ req[r].step = "insert"
    /\ Fault /\ Done(r)
    /\ spilled' = spilled \cup {req[r].name}
    /\ UNCHANGED <<now, files, rows, nextId, copies, ever, doomed, clashed, noteVars>>

Announce(r) ==
    /\ req[r].step = "notify"
    /\ NotifyStep(r)
    /\ UNCHANGED <<fileVars, req>>

Created(r) ==
    /\ req[r].step = "notify" /\ notice[r].step = "over"
    /\ Done(r)
    /\ notice' = [notice EXCEPT ![r] = Off]
    /\ UNCHANGED <<fileVars, book, edit, past>>
-----------------------------------------------------------------------------
(* delete and download: SELECT filename, which answers 404 without the row *)

Select(r, i, step) ==
    /\ req[r] = Idle
    /\ i \in DOMAIN rows
    /\ req' = [req EXCEPT ![r] = [Idle EXCEPT !.step = step, !.id = i,
                                              !.name = rows[i]]]

Delete(r, i) ==
    /\ Select(r, i, "remove")
    /\ doomed' = doomed \cup {i}
    /\ UNCHANGED <<now, files, rows, nextId, copies, ever, spilled, clashed, faults,
                   noteVars>>

\* Faulty variant, used by no action: the file is left where it is.
RemoveNothing(r) ==
    /\ req[r].step = "remove"
    /\ Goto(r, "row")
    /\ UNCHANGED <<fileVars, noteVars>>

\* The outcome of remove_file is dropped.
RemoveFile(r) ==
    /\ req[r].step = "remove"
    /\ files' = Without(files, req[r].name)
    /\ Goto(r, "row")
    /\ UNCHANGED <<now, rows, nextId, history, faults, noteVars>>

RemoveFails(r) ==
    /\ req[r].step = "remove"
    /\ Fault /\ Goto(r, "row")
    /\ spilled' = spilled \cup {req[r].name}
    /\ UNCHANGED <<now, files, rows, nextId, copies, ever, doomed, clashed, noteVars>>

DeleteRow(r) ==
    /\ req[r].step = "row"
    /\ rows' = Without(rows, req[r].id)
    /\ Done(r)
    /\ UNCHANGED <<now, files, nextId, history, faults, noteVars>>

DeleteRowFails(r) ==
    /\ req[r].step = "row"
    /\ Fault /\ Done(r)
    /\ UNCHANGED <<now, files, rows, nextId, history, noteVars>>

Download(r, i) ==
    /\ Select(r, i, "read")
    /\ UNCHANGED <<fileVars, noteVars>>

\* fs::read of the name, whatever has happened to it; 404 if it is gone.
ReadFile(r) ==
    /\ req[r].step = "read"
    /\ IF req[r].name \in DOMAIN files
       THEN req' = [req EXCEPT ![r].step = "sent", ![r].copy = files[req[r].name]]
       ELSE Done(r)
    /\ UNCHANGED <<fileVars, noteVars>>

Sent(r) ==
    /\ req[r].step = "sent"
    /\ Done(r)
    /\ UNCHANGED <<fileVars, noteVars>>

\* The connection closes, or the process dies, at an await: nothing is in memory
\* that a later request would miss. A statement in flight is still executed: that
\* is the statement's own step, and the request is abandoned after it.
Abandon(r) ==
    /\ req[r] # Idle
    /\ Done(r)
    /\ spilled' = IF req[r].step = "insert" THEN spilled \cup {req[r].name}
                                            ELSE spilled
    /\ notice' = [notice EXCEPT ![r] = Off]
    /\ UNCHANGED <<now, files, rows, nextId, copies, ever, doomed, clashed, faults,
                   book, edit, past>>
-----------------------------------------------------------------------------
RequestStep(r) ==
    \/ Vacuum(r) \/ Insert(r) \/ Announce(r) \/ Created(r)
    \/ RemoveFile(r) \/ DeleteRow(r) \/ ReadFile(r) \/ Sent(r)

FaultStep(r) ==
    \/ VacuumFails(r) \/ InsertFails(r) \/ RemoveFails(r) \/ DeleteRowFails(r)
    \/ Abandon(r)

Next ==
    \/ Tick
    \/ EditStep /\ UNCHANGED <<fileVars, req>>
    \/ \E r \in Callers :
          \/ Create(r)
          \/ \E i \in BackupIds : Delete(r, i) \/ Download(r, i)
          \/ RequestStep(r) \/ FaultStep(r)

Spec == Init /\ [][Next]_vars

\* A request that nobody abandons goes on: its statements return. Nothing is
\* assumed of clients, faults, administrators, or of an address that is Dead.
FairSpec == Spec /\ \A r \in Callers : WF_vars(RequestStep(r))
-----------------------------------------------------------------------------
TypeOK ==
    /\ NoteTypeOK
    /\ now \in Nat /\ nextId \in Nat \ {0} /\ copies \in Nat /\ faults \in Nat
    /\ files = [n \in DOMAIN files |-> files[n]] /\ DOMAIN files \subseteq Nat
    /\ \A n \in DOMAIN files : files[n] \in Nat
    /\ rows = [i \in DOMAIN rows |-> rows[i]] /\ DOMAIN rows \subseteq DOMAIN ever
    /\ ever = [i \in DOMAIN ever |-> ever[i]] /\ DOMAIN ever = 1 .. nextId - 1
    /\ \A i \in DOMAIN ever : ever[i] \in [name: Nat, copy: Nat]
    /\ req \in [Callers -> [step: {"idle", "vacuum", "insert", "notify", "remove",
                                   "row", "read", "sent"},
                            id: Nat, name: Nat, copy: Nat]]
    /\ doomed \subseteq DOMAIN ever /\ spilled \subseteq Nat /\ clashed \subseteq Nat

\* Nobody has set out to remove the file that this backup is named after, for
\* this backup or for an older one made in the same second.
Untouched(i) == \A j \in doomed : ever[j].name # ever[i].name

\* An untouched backup has its file, with the copy made for it, and whoever
\* downloads it gets that copy - although name, file and row are made at
\* different moments by requests that may run in the same second.
BackupsIntact ==
    /\ \A i \in DOMAIN rows : Untouched(i) =>
           rows[i] \in DOMAIN files /\ files[rows[i]] = ever[i].copy
    /\ \A r \in Callers : req[r].step = "sent" /\ Untouched(req[r].id) =>
           req[r].copy = ever[req[r].id].copy

\* A file is in the table, or about to be, or was given up by a request that
\* failed or was abandoned. The one interleaving that leaves a file behind without
\* a fault is a create in the second of a backup that is being deleted, whose file
\* is gone and whose row is not; two creates of one second do not.
OrphansExplained ==
    /\ \A n \in DOMAIN files :
          \/ \E i \in DOMAIN rows : rows[i] = n
          \/ \E r \in Callers : req[r].step = "insert" /\ req[r].name = n
          \/ n \in spilled \cup clashed
    /\ \A n \in clashed : \E j \in doomed : ever[j].name = n

\* A request goes on with the backup that its caller named: while it is between
\* its statements, the id cannot come to mean another backup.
ActsOnWhatItNamed ==
    \A r \in Callers :
        req[r].step \in {"remove", "row", "read"} /\ req[r].id \in DOMAIN rows =>
            rows[req[r].id] = req[r].name

\* The table says what was inserted, and every name once.
Catalogued ==
    /\ \A i \in DOMAIN rows : rows[i] = ever[i].name
    /\ \A i \in DOMAIN rows, k \in DOMAIN rows : rows[i] = rows[k] => i = k

\* BackupsIntact for every backup there has ever been, in the table or not.
Intact(name, copy) == name \in DOMAIN files /\ files[name] = copy

EverIntact ==
    \A i \in DOMAIN ever : Untouched(i) => Intact(ever[i].name, ever[i].copy)

\* What a request may rely on between its awaits: the file that it is about to
\* insert a row for is there, unless some delete is after that name; the file it
\* has tried to remove is gone, or explained without its row.
InFlight(r) ==
    LET q == req[r]
    IN  /\ q.step \in {"remove", "row", "read", "sent"} => q.id \in DOMAIN ever
        /\ q.step \in {"remove", "row", "read"} => q.name = ever[q.id].name
        /\ q.step \in {"remove", "row"} => q.id \in doomed
        /\ q.step = "insert" => \/ Intact(q.name, q.copy)
                               \/ \E j \in doomed : ever[j].name = q.name
        /\ q.step = "row" /\ q.name \in DOMAIN files =>
              \/ q.name \in spilled \cup clashed
              \/ \E o \in Callers : req[o].step = "insert" /\ req[o].name = q.name
              \/ \E k \in DOMAIN rows \ {q.id} : rows[k] = q.name
        /\ q.step = "sent" /\ Untouched(q.id) => q.copy = ever[q.id].copy

\* Each copy was made for one request, and stands behind at most one id.
OneCopy ==
    /\ \A i \in DOMAIN ever : ever[i].copy <= copies
    /\ \A r \in Callers : req[r].step = "insert" =>
          /\ req[r].copy <= copies
          /\ \A i \in DOMAIN ever : ever[i].copy # req[r].copy
          /\ \A o \in Callers : o # r /\ req[o].step = "insert" =>
                req[o].copy # req[r].copy

\* The inductive invariant.
IInv ==
    /\ TypeOK /\ NoteInv
    /\ Catalogued /\ EverIntact /\ OrphansExplained /\ OneCopy
    /\ \A r \in Callers : InFlight(r)

\* panel-notify: "All sends are best-effort and independent: one channel failing
\* never blocks the others". A channel that is to be asked is asked, unless the
\* request is abandoned.
OthersNotBlocked ==
    \A r \in Callers, t \in [id: ChannelIds, address: Addresses] :
        t \in notice[r].todo ~> t \notin notice[r].todo
=============================================================================
