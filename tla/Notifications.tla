----------------------------- MODULE Notifications -----------------------------
(***************************************************************************)
(* AppState::notify: look up the rule of an event, resolve its channels,   *)
(* send to one after the other; while administrators edit channels and the *)
(* rule. One event type (the rules of different types are independent      *)
(* rows). This module has the steps; the module of an operation that fires *)
(* the event says when they happen.                                        *)
(***************************************************************************)
EXTENDS Integers, Sequences, FiniteSets

CONSTANTS
    Callers,       \* operations that fire the event
    Addresses,     \* where channels lead: a chat, a URL, a mailbox
    Dead,          \* addresses that take a message and never answer
    FirstChannels, \* the channels to start from: a sequence of [address, enabled]
    FirstRule,     \* the ids its rule names
    MaxChannels,   \* bound: channels ever created
    MaxEdits       \* bound: committed edits of channels and rule

ChannelIds == 1..MaxChannels

ASSUME NotificationsAssumption ==
    /\ MaxChannels \in Nat /\ MaxEdits \in Nat
    /\ FirstChannels \in Seq([address: Addresses, enabled: BOOLEAN])
    /\ Len(FirstChannels) <= MaxChannels
    /\ FirstRule \subseteq ChannelIds
    /\ Dead \subseteq Addresses

VARIABLES
    book,    \* [channels, next, rule]: notification_channels, notification_rules
    edit,    \* the PUT of a channel that has read its row (id 0: none)
    notice,  \* of each caller: what notify() is doing for it
    past     \* every state of book so far (history, read by no action)

noteVars == <<book, edit, notice, past>>

Today == Len(past)

NoEdit == [id |-> 0, address |-> "", enabled |-> FALSE]

Off == [step |-> "off", ids |-> {}, todo |-> {}, asked |-> <<>>,
        start |-> 1, end |-> 1, lost |-> FALSE]

\* born of a channel and put, next of the rule are history: the edit that made
\* them, and the ids that had been given out when the rule was stored.
NotifyInit ==
    /\ book = [channels |-> [i \in DOMAIN FirstChannels |->
                                [address |-> FirstChannels[i].address,
                                 enabled |-> FirstChannels[i].enabled, born |-> 1]],
               next     |-> Len(FirstChannels) + 1,
               rule     |-> [ids |-> FirstRule, enabled |-> TRUE, put |-> 1,
                             next |-> Len(FirstChannels) + 1]]
    /\ edit = NoEdit
    /\ notice = [c \in Callers |-> Off]
    /\ past = <<book>>
-----------------------------------------------------------------------------
(* Administrators. *)

Store(b) ==
    /\ Today <= MaxEdits
    /\ book' = b
    /\ past' = Append(past, b)
    /\ UNCHANGED notice

\* Faulty variant, used by no action: without AUTOINCREMENT, SQLite gives out the
\* id after the highest that is left.
CreateReusesId(address, enabled) ==
    LET id == CHOOSE i \in ChannelIds :
                  /\ \A j \in DOMAIN book.channels : j < i
                  /\ i = 1 \/ i - 1 \in DOMAIN book.channels
    IN  /\ Cardinality(DOMAIN book.channels) < MaxChannels
        /\ Store([book EXCEPT
               !.channels = [i \in DOMAIN @ \cup {id} |->
                   IF i = id THEN [address |-> address, enabled |-> enabled,
                                   born |-> Today + 1]
                             ELSE @[i]]])
        /\ UNCHANGED edit

\* NotificationChannelRepo::create.
CreateChannel(address, enabled) ==
    /\ book.next \in ChannelIds
    /\ Store([book EXCEPT
           !.channels = [i \in DOMAIN @ \cup {book.next} |->
               IF i = book.next THEN [address |-> address, enabled |-> enabled,
                                      born |-> Today + 1]
                                ELSE @[i]],
           !.next = @ + 1])
    /\ UNCHANGED edit

\* update(): find, merge, and later one UPDATE of all columns, which changes
\* nothing when the row was deleted meanwhile. What is not given is the row's;
\* with both given, any pair can be merged.
EditReads(i, address, enabled) ==
    /\ edit = NoEdit
    /\ i \in DOMAIN book.channels
    /\ edit' = [id |-> i, address |-> address, enabled |-> enabled]
    /\ UNCHANGED <<book, notice, past>>

EditWrites ==
    /\ edit # NoEdit
    /\ edit' = NoEdit
    /\ IF edit.id \in DOMAIN book.channels
       THEN Store([book EXCEPT !.channels[edit.id] =
                       [@ EXCEPT !.address = edit.address,
                                 !.enabled = edit.enabled]])
       ELSE UNCHANGED <<book, notice, past>>

\* The rules that name the id are not touched.
DeleteChannel(i) ==
    /\ i \in DOMAIN book.channels
    /\ Store([book EXCEPT !.channels = [j \in DOMAIN @ \ {i} |-> @[j]]])
    /\ UNCHANGED edit

\* upsert: the ids are not checked.
PutRule(ids, enabled) ==
    /\ Store([book EXCEPT !.rule = [ids |-> ids, enabled |-> enabled,
                                    put |-> Today + 1, next |-> book.next]])
    /\ UNCHANGED edit

EditStep ==
    \/ \E a \in Addresses, on \in BOOLEAN : CreateChannel(a, on)
    \/ \E i \in ChannelIds, a \in Addresses, on \in BOOLEAN : EditReads(i, a, on)
    \/ EditWrites
    \/ \E i \in ChannelIds : DeleteChannel(i)
    \/ \E ids \in SUBSET ChannelIds, on \in BOOLEAN : PutRule(ids, on)
-----------------------------------------------------------------------------
(* notify(), one action per await. *)

Notify(c) == notice' = [notice EXCEPT ![c] =
                           [Off EXCEPT !.step = "rule", !.start = Today]]

Proceed(c, n) ==
    /\ notice' = [notice EXCEPT ![c] = n]
    /\ UNCHANGED <<book, edit, past>>

\* notification_rules.get: no rule, a disabled or an empty one ends it.
ReadRule(c) ==
    /\ notice[c].step = "rule"
    /\ Proceed(c, IF book.rule.enabled /\ book.rule.ids # {}
                  THEN [notice[c] EXCEPT !.step = "channels", !.ids = book.rule.ids]
                  ELSE [notice[c] EXCEPT !.step = "over", !.end = Today])

\* find_enabled_by_ids; ids of deleted channels find nothing.
ReadChannels(c) ==
    /\ notice[c].step = "channels"
    /\ LET todo == {[id |-> i, address |-> book.channels[i].address] :
                       i \in {j \in notice[c].ids \cap DOMAIN book.channels :
                                 book.channels[j].enabled}}
       IN  Proceed(c, [notice[c] EXCEPT !.todo = todo, !.end = Today,
                           !.step = IF todo = {} THEN "over" ELSE "ask"])

\* A failing query ends notify() without a word to its caller.
LookupFails(c) ==
    /\ notice[c].step \in {"rule", "channels"}
    /\ Proceed(c, [notice[c] EXCEPT !.step = "over", !.end = Today, !.lost = TRUE])

\* dispatch: send_one to the next channel, in the order of the ids ...
Ask(c, t) ==
    /\ notice[c].step = "ask"
    /\ t \in notice[c].todo
    /\ \A u \in notice[c].todo : t.id <= u.id
    /\ Proceed(c, [notice[c] EXCEPT !.step = "wait", !.todo = @ \ {t},
                                    !.asked = Append(@, t)])

Asked(c) == notice[c].asked[Len(notice[c].asked)]

\* Faulty variant, used by no action: `?` instead of collecting the outcome.
ReplyOrStop(c, ok) ==
    /\ notice[c].step = "wait"
    /\ Asked(c).address \notin Dead
    /\ Proceed(c, [notice[c] EXCEPT !.step =
                      IF ok /\ notice[c].todo # {} THEN "ask" ELSE "over"])

\* ... and the one after it when that is answered, well or not: the outcome is
\* only collected. The HTTP clients are built without a timeout.
Reply(c, ok) ==
    /\ notice[c].step = "wait"
    /\ Asked(c).address \notin Dead
    /\ Proceed(c, [notice[c] EXCEPT !.step =
                      IF notice[c].todo # {} THEN "ask" ELSE "over"])

NotifyStep(c) ==
    \/ ReadRule(c) \/ ReadChannels(c) \/ LookupFails(c)
    \/ \E t \in notice[c].todo : Ask(c, t)
    \/ \E ok \in BOOLEAN : Reply(c, ok)
-----------------------------------------------------------------------------
Book(b) ==
    /\ b \in [channels: {b.channels}, next: Nat,
              rule: [ids: SUBSET ChannelIds, enabled: BOOLEAN, put: Nat, next: Nat]]
    /\ b.channels = [i \in DOMAIN b.channels |-> b.channels[i]]
    /\ DOMAIN b.channels \subseteq ChannelIds
    /\ \A i \in DOMAIN b.channels :
          b.channels[i] \in [address: Addresses, enabled: BOOLEAN, born: Nat]

Target == [id: ChannelIds, address: Addresses]

Kept == {past[j] : j \in DOMAIN past}

NoteTypeOK ==
    /\ past \in Seq(Kept)
    /\ \A j \in 1..Today : Book(past[j])
    /\ edit \in {NoEdit} \cup [id: ChannelIds, address: Addresses, enabled: BOOLEAN]
    /\ notice \in [Callers ->
           [step: {"off", "rule", "channels", "ask", "wait", "over"},
            ids: SUBSET ChannelIds, todo: SUBSET Target, asked: Seq(Target),
            start: Nat, end: Nat, lost: BOOLEAN]]

\* The tables between the two queries of notify(), and its rule.
During(c) ==
    {past[j] : j \in notice[c].start ..
                   (IF notice[c].step \in {"rule", "channels"} THEN Today
                                                               ELSE notice[c].end)}

Names(b, i) == b.rule.enabled /\ i \in b.rule.ids

Enabled(b, i) == i \in DOMAIN b.channels /\ b.channels[i].enabled

\* During the event the channel led there and a rule named it.
Meant(c, t) ==
    \E b \in During(c), d \in During(c) :
        /\ Names(d, t.id)
        /\ Enabled(b, t.id) /\ b.channels[t.id].address = t.address
        /\ b.channels[t.id].born <= d.rule.put \/ t.id >= d.rule.next

\* Every message goes where an enabled channel led at some moment of the event;
\* a rule then in force names its id and means this very channel - not one that
\* got the id of a deleted channel which the rule was stored for.
AskedAsConfigured ==
    \A c \in Callers : \A k \in DOMAIN notice[c].asked :
        Meant(c, notice[c].asked[k])

\* lib.rs of panel-notify: "one channel failing never blocks the others". When an
\* event is through and its queries worked, every channel that was enabled and
\* named all the time was asked, and none twice.
NobodyLeftOut ==
    \A c \in Callers : notice[c].step = "over" /\ ~notice[c].lost =>
        LET asked == notice[c].asked
        IN  /\ \A i \in ChannelIds :
                  (\A b \in During(c) : Names(b, i) /\ Enabled(b, i)) =>
                      \E k \in DOMAIN asked : asked[k].id = i
            /\ \A k \in DOMAIN asked, l \in DOMAIN asked :
                  k < l => asked[k].id < asked[l].id

\* The past ends in the present, and an id that had been given out when a rule
\* was stored means a channel that had been created by then.
BookHistory ==
    /\ Today >= 1 /\ past[Today] = book
    /\ \A j \in 1..Today :
          /\ past[j].rule.next <= book.next
          /\ \A i \in DOMAIN past[j].channels :
                /\ i < book.next /\ past[j].channels[i].born <= Today
                /\ \A k \in 1..Today : i < past[k].rule.next =>
                       past[j].channels[i].born <= past[k].rule.put

\* What notify() knows at each await was so during the event; channels still to
\* be asked come after those asked; and none is forgotten.
Knows(c) ==
    LET n == notice[c]
    IN  /\ n.start \in 1..Today
        /\ n.step \notin {"rule", "channels"} => n.end \in n.start..Today
        /\ n.step \in {"off", "rule", "channels"} => n.todo = {} /\ n.asked = <<>>
        /\ n.step = "channels" =>
              \E d \in During(c) : d.rule.enabled /\ d.rule.ids = n.ids
        /\ n.step = "over" => n.todo = {}
        /\ \A t \in n.todo : Meant(c, t)
        /\ \A k \in DOMAIN n.asked : Meant(c, n.asked[k])

InOrder(c) ==
    LET n == notice[c]
    IN  /\ \A t \in n.todo, u \in n.todo : t.id = u.id => t = u
        /\ \A k \in DOMAIN n.asked, t \in n.todo : n.asked[k].id < t.id
        /\ \A k \in DOMAIN n.asked, l \in DOMAIN n.asked :
              k < l => n.asked[k].id < n.asked[l].id

Complete(c) ==
    LET n == notice[c]
    IN  n.step \in {"ask", "wait", "over"} /\ ~n.lost =>
            \A i \in ChannelIds :
                (\A b \in During(c) : Names(b, i) /\ Enabled(b, i)) =>
                    \/ \E t \in n.todo : t.id = i
                    \/ \E k \in DOMAIN n.asked : n.asked[k].id = i

\* The inductive invariant of the steps of this module.
NoteInv ==
    /\ NoteTypeOK /\ BookHistory
    /\ \A c \in Callers : Knows(c) /\ InOrder(c) /\ Complete(c)
=============================================================================
