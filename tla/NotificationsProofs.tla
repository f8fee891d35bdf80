-------------------------- MODULE NotificationsProofs --------------------------
(***************************************************************************)
(* The steps of Notifications keep NoteInv, for any channels, rules, edits *)
(* and callers.  A module that composes these steps with the operation     *)
(* that fires the event concludes from these lemmas.                       *)
(***************************************************************************)
EXTENDS Notifications, TLAPS

USE NotificationsAssumption DEF ChannelIds

Entries(s) == {s[j] : j \in DOMAIN s}

(* A history grows at its end. *)
LEMMA PastGrows ==
    ASSUME NEW s, s \in Seq(Entries(s)), NEW e
    PROVE  /\ Append(s, e) \in Seq(Entries(Append(s, e)))
           /\ Len(s) \in Nat /\ DOMAIN s = 1..Len(s)
           /\ Len(Append(s, e)) = Len(s) + 1
           /\ Append(s, e)[Len(s) + 1] = e
           /\ \A j \in 1..Len(s) : Append(s, e)[j] = s[j]
<1> DEFINE t == Append(s, e)
           S == Entries(s) \cup {e}
<1>1. s \in Seq(S)
  OBVIOUS
<1>2. t \in Seq(S)
  BY <1>1
<1>3. /\ Len(s) \in Nat /\ DOMAIN s = 1..Len(s)
      /\ Len(t) = Len(s) + 1 /\ DOMAIN t = 1..Len(t)
      /\ t[Len(s) + 1] = e /\ \A j \in 1..Len(s) : t[j] = s[j]
  BY <1>1
<1>4. t \in Seq(Entries(t))
  BY <1>2, <1>3 DEF Entries
<1>5. QED
  BY <1>3, <1>4

LEMMA SeqElements ==
    ASSUME NEW S, NEW s \in Seq(S)
    PROVE  /\ Len(s) \in Nat /\ DOMAIN s = 1..Len(s)
           /\ \A j \in DOMAIN s : s[j] \in S
  OBVIOUS

(* What the invariant says of the present tables and of a caller. *)
LEMMA Present ==
    ASSUME NoteInv
    PROVE  /\ Today \in Nat /\ Today >= 1 /\ past[Today] = book
           /\ Book(book) /\ book.next \in Nat /\ book.rule.next \in Nat
           /\ book.rule.next <= book.next
           /\ \A j \in 1..Today : past[j].next \in Nat /\ past[j].rule.next \in Nat
<1>1. Today \in Nat /\ Today >= 1 /\ past[Today] = book
  BY DEF NoteInv, NoteTypeOK, BookHistory, Today
<1>2. \A j \in 1..Today : Book(past[j])
  BY DEF NoteInv, NoteTypeOK
<1>3. Today \in 1..Today
  BY <1>1
<1>4. Book(book)
  BY <1>1, <1>2, <1>3
<1>5. book.rule.next <= book.next
  BY <1>1, <1>3 DEF NoteInv, BookHistory
<1>6. QED
  BY <1>1, <1>2, <1>4, <1>5 DEF Book

LEMMA OfCaller ==
    ASSUME NoteInv, NEW c \in Callers
    PROVE  /\ notice[c].step \in {"off", "rule", "channels", "ask", "wait", "over"}
           /\ notice[c].ids \subseteq ChannelIds /\ notice[c].todo \subseteq Target
           /\ notice[c].asked \in Seq(Target) /\ notice[c].lost \in BOOLEAN
           /\ notice[c].start \in Nat /\ notice[c].end \in Nat
           /\ Knows(c) /\ InOrder(c) /\ Complete(c)
           /\ notice[c].step \in {"rule", "channels"} => book \in During(c)
<1>1. /\ notice[c].step \in {"off", "rule", "channels", "ask", "wait", "over"}
      /\ notice[c].ids \subseteq ChannelIds /\ notice[c].todo \subseteq Target
      /\ notice[c].asked \in Seq(Target) /\ notice[c].lost \in BOOLEAN
      /\ notice[c].start \in Nat /\ notice[c].end \in Nat
      /\ Knows(c) /\ InOrder(c) /\ Complete(c)
  BY DEF NoteInv, NoteTypeOK
<1>2. notice[c].step \in {"rule", "channels"} => book \in During(c)
  <2>1. notice[c].start \in 1..Today
    BY <1>1 DEF Knows
  <2>2. Today \in notice[c].start..Today
    BY <2>1, Present
  <2>3. QED
    BY <2>2, Present DEF During
<1>3. QED
  BY <1>1, <1>2

LEMMA InitNotify == NotifyInit => NoteInv
<1> SUFFICES ASSUME NotifyInit PROVE NoteInv
  OBVIOUS
<1>1. /\ book.next = Len(FirstChannels) + 1
      /\ book.rule = [ids |-> FirstRule, enabled |-> TRUE, put |-> 1,
                      next |-> Len(FirstChannels) + 1]
      /\ book.channels = [i \in DOMAIN FirstChannels |->
                                [address |-> FirstChannels[i].address,
                                 enabled |-> FirstChannels[i].enabled, born |-> 1]]
      /\ past = <<book>> /\ edit = NoEdit /\ notice = [c \in Callers |-> Off]
  BY DEF NotifyInit
<1>2. /\ Len(FirstChannels) \in Nat /\ DOMAIN FirstChannels = 1..Len(FirstChannels)
      /\ \A i \in DOMAIN FirstChannels :
            FirstChannels[i] \in [address: Addresses, enabled: BOOLEAN]
  BY SeqElements
<1>3. Today = 1 /\ past[1] = book /\ past \in Seq(Kept)
  <2>1. Today = 1 /\ past[1] = book /\ DOMAIN past = 1..1
    BY <1>1 DEF Today
  <2>2. book \in Kept
    BY <2>1 DEF Kept
  <2>3. QED
    BY <1>1, <2>1, <2>2
<1>4. Book(book)
  <2>1. \A i \in DOMAIN book.channels :
            book.channels[i] \in [address: Addresses, enabled: BOOLEAN, born: Nat]
    BY <1>1, <1>2
  <2>2. DOMAIN book.channels \subseteq ChannelIds
    BY <1>1, <1>2
  <2>3. book = [channels |-> book.channels, next |-> book.next, rule |-> book.rule]
    BY DEF NotifyInit
  <2>4. book.channels = [i \in DOMAIN book.channels |-> book.channels[i]]
    BY <1>1
  <2>5. book.next \in Nat
        /\ book.rule \in [ids: SUBSET ChannelIds, enabled: BOOLEAN, put: Nat, next: Nat]
    BY <1>1, <1>2
  <2>6. QED
    BY <2>1, <2>2, <2>3, <2>4, <2>5 DEF Book
<1>5. NoteTypeOK
  <2>1. Off \in [step: {"off", "rule", "channels", "ask", "wait", "over"},
                 ids: SUBSET ChannelIds, todo: SUBSET Target, asked: Seq(Target),
                 start: Nat, end: Nat, lost: BOOLEAN]
    BY DEF Off
  <2>2. QED
    BY <1>1, <1>3, <1>4, <2>1 DEF NoteTypeOK
<1>6. BookHistory
  <2>1. book.rule.next = Len(FirstChannels) + 1 /\ book.rule.put = 1
    BY <1>1
  <2>2. DOMAIN book.channels = 1..Len(FirstChannels)
    BY <1>1, <1>2
  <2>3. \A i \in DOMAIN book.channels : book.channels[i].born = 1
    BY <1>1
  <2>4. \A j \in 1..Today : past[j] = book
    BY <1>3
  <2>5. \A i \in DOMAIN book.channels : i < book.next /\ book.channels[i].born <= 1
    BY <1>1, <1>2, <2>2, <2>3
  <2>6. book.rule.next <= book.next
    BY <1>1, <1>2
  <2>7. Today >= 1 /\ past[Today] = book /\ 1 <= Today
    BY <1>3
  <2>8. QED
    BY <2>1, <2>3, <2>4, <2>5, <2>6, <2>7, <1>3 DEF BookHistory
<1>7. ASSUME NEW c \in Callers PROVE Knows(c) /\ InOrder(c) /\ Complete(c)
  <2>1. notice[c] = Off
    BY <1>1
  <2>2. QED
    BY <1>3, <2>1 DEF Off, Knows, InOrder, Complete
<1>8. QED
  BY <1>5, <1>6, <1>7 DEF NoteInv

(* What is true during an event stays true of it when the tables change. *)
LEMMA DuringGrows ==
    ASSUME NoteInv, NEW c \in Callers, UNCHANGED notice,
           Today' = Today + 1, \A j \in 1..Today : past'[j] = past[j]
    PROVE  /\ During(c) \subseteq During(c)'
           /\ notice[c].step \notin {"off", "rule", "channels"} => During(c)' = During(c)
           /\ notice[c].start \in 1..Today'
           /\ notice[c].step \notin {"rule", "channels"} => notice[c].end \in notice[c].start..Today'
<1> DEFINE from == notice[c].start
           until == IF notice[c].step \in {"rule", "channels"} THEN Today
                                                               ELSE notice[c].end
<1>1. /\ Today \in Nat /\ from \in 1..Today
      /\ notice[c].step \notin {"rule", "channels"} => notice[c].end \in from..Today
  BY Present, OfCaller DEF Knows
<1>2. \A j \in from..until : j \in 1..Today /\ past'[j] = past[j]
  BY <1>1
<1>3. During(c) = {past'[j] : j \in from..until}
  BY <1>2 DEF During
<1>4. CASE notice[c].step \in {"rule", "channels"}
  <2>1. During(c)' = {past'[j] : j \in from..(Today + 1)}
    BY <1>4 DEF During
  <2>2. from..until \subseteq from..(Today + 1)
    BY <1>1, <1>4
  <2>3. QED
    BY <1>1, <1>3, <1>4, <2>1, <2>2
<1>5. CASE notice[c].step \notin {"rule", "channels"}
  <2>1. During(c)' = {past'[j] : j \in from..until}
    BY <1>5 DEF During
  <2>2. QED
    BY <1>1, <1>3, <1>5, <2>1
<1>6. QED
  BY <1>4, <1>5

(* The tables after an edit: ids and moments only grow. *)
Grown(b) ==
    /\ Book(b) /\ b.next >= book.next
    /\ \A i \in DOMAIN b.channels :
          \/ /\ i \in DOMAIN book.channels
             /\ b.channels[i].born = book.channels[i].born
          \/ i = book.next /\ i < b.next /\ b.channels[i].born = Today + 1
    /\ \/ b.rule.next = book.rule.next /\ b.rule.put = book.rule.put
       \/ b.rule.next = book.next /\ b.rule.put = Today + 1

LEMMA GrownHistory ==
    ASSUME NoteInv, NEW b, Grown(b), Store(b)
    PROVE  /\ BookHistory' /\ Today' = Today + 1
           /\ past' \in Seq(Kept') /\ \A j \in 1..Today' : Book(past'[j])
           /\ \A j \in 1..Today : past'[j] = past[j]
           /\ UNCHANGED notice
<1>1. /\ past' = Append(past, b) /\ book' = b /\ notice' = notice
      /\ Book(b) /\ b.next \in Nat /\ b.rule.next \in Nat /\ b.next >= book.next
  BY DEF Store, Grown, Book
<1>2. /\ past' \in Seq(Kept') /\ Today' = Today + 1 /\ past'[Today + 1] = b
      /\ \A j \in 1..Today : past'[j] = past[j]
  <2>1. past \in Seq(Entries(past))
    BY DEF NoteInv, NoteTypeOK, Kept, Entries
  <2>2. /\ Append(past, b) \in Seq(Entries(Append(past, b)))
        /\ Len(Append(past, b)) = Len(past) + 1
        /\ Append(past, b)[Len(past) + 1] = b
        /\ \A j \in 1..Len(past) : Append(past, b)[j] = past[j]
    BY <2>1, PastGrows
  <2>3. QED
    BY <1>1, <2>2 DEF Today, Kept, Entries
<1>3. \A j \in 1..Today' : j = Today + 1 \/ j \in 1..Today
  BY <1>2, Present
<1>4. \A j \in 1..Today' : Book(past'[j])
  BY <1>1, <1>2, <1>3 DEF NoteInv, NoteTypeOK
<1>5. \A j \in 1..Today' : past'[j].rule.next <= book'.next
  <2>1. b.rule.next <= b.next
    BY <1>1, Present DEF Grown
  <2>2. \A j \in 1..Today : past[j].rule.next <= b.next
    BY <1>1, Present DEF NoteInv, BookHistory
  <2>3. QED
    BY <1>1, <1>2, <1>3, <2>1, <2>2
<1>6. ASSUME NEW j \in 1..Today', NEW i \in DOMAIN past'[j].channels
      PROVE  /\ i < book'.next /\ past'[j].channels[i].born <= Today'
             /\ \A k \in 1..Today' : i < past'[k].rule.next =>
                    past'[j].channels[i].born <= past'[k].rule.put
  <2> DEFINE born == past'[j].channels[i].born
  <2>1. \/ /\ \E m \in 1..Today : /\ i \in DOMAIN past[m].channels
                                 /\ born = past[m].channels[i].born
        \/ i = book.next /\ i < b.next /\ born = Today + 1
    <3>1. CASE j \in 1..Today
      BY <1>2, <3>1
    <3>2. CASE j = Today + 1
      <4>1. past'[j] = b /\ Today \in 1..Today /\ past[Today] = book
        BY <1>2, <3>2, Present
      <4>2. QED
        BY <4>1 DEF Grown
    <3>3. QED
      BY <1>3, <3>1, <3>2
  <2>2. i \in Nat /\ born \in Nat
    <3>1. Book(past'[j])
      BY <1>4
    <3>2. i \in ChannelIds /\ past'[j].channels[i] \in [address: Addresses, enabled: BOOLEAN, born: Nat]
      BY <3>1, Zenon DEF Book
    <3>3. QED
      BY <3>2
  <2>3. CASE i = book.next /\ i < b.next /\ born = Today + 1
    <3>1. ASSUME NEW k \in 1..Today', i < past'[k].rule.next
          PROVE  born <= past'[k].rule.put
      <4>1. \A m \in 1..Today : past[m].rule.next \in Nat /\ past[m].rule.next <= book.next
        BY Present DEF NoteInv, BookHistory
      <4>2. ~(k \in 1..Today)
        <5>1. SUFFICES ASSUME k \in 1..Today PROVE FALSE
          OBVIOUS
        <5>2. past'[k] = past[k]
          BY <1>2, <5>1
        <5>3. i < past[k].rule.next
          BY <3>1, <5>2
        <5>4. past[k].rule.next \in Nat /\ past[k].rule.next <= book.next
          BY <4>1, <5>1
        <5>5. i = book.next /\ book.next \in Nat
          BY <2>3, Present
        <5>6. QED
          BY <5>3, <5>4, <5>5
      <4>3. past'[k] = b
        BY <1>2, <1>3, <4>2
      <4>4. b.rule.next <= book.next
        BY Present DEF Grown
      <4>5. QED
        BY <1>1, <2>2, <2>3, <3>1, <4>3, <4>4, Present
    <3>2. i < book'.next /\ born <= Today'
      BY <1>1, <1>2, <2>3, Present
    <3>3. QED
      BY <3>1, <3>2
  <2>4. ASSUME NEW m \in 1..Today, i \in DOMAIN past[m].channels,
               born = past[m].channels[i].born
        PROVE  /\ i < book'.next /\ born <= Today'
               /\ \A k \in 1..Today' : i < past'[k].rule.next => born <= past'[k].rule.put
    <3>1. /\ i < book.next /\ born <= Today
          /\ \A k \in 1..Today : i < past[k].rule.next => born <= past[k].rule.put
      BY <2>4 DEF NoteInv, BookHistory
    <3>2. i < book'.next /\ born <= Today'
      <4>1. book'.next \in Nat /\ book'.next >= book.next /\ book.next \in Nat
        BY <1>1, Present
      <4>2. Today \in Nat /\ Today' = Today + 1
        BY <1>2, Present
      <4>3. QED
        BY <2>2, <3>1, <4>1, <4>2
    <3>3. ASSUME NEW k \in 1..Today', i < past'[k].rule.next
          PROVE  born <= past'[k].rule.put
      <4>1. CASE k \in 1..Today
        BY <1>2, <3>1, <3>3, <4>1
      <4>2. CASE k = Today + 1
        <5>1. past'[k] = b /\ Today \in 1..Today /\ past[Today] = book
          BY <1>2, <4>2, Present
        <5>2. CASE b.rule.next = book.rule.next /\ b.rule.put = book.rule.put
          BY <3>1, <3>3, <5>1, <5>2
        <5>3. CASE b.rule.next = book.next /\ b.rule.put = Today + 1
          BY <2>2, <3>1, <5>1, <5>3, Present
        <5>4. QED
          BY <5>2, <5>3 DEF Grown
      <4>3. QED
        BY <1>3, <4>1, <4>2
    <3>4. QED
      BY <3>2, <3>3
  <2>5. QED
    BY <2>1, <2>3, <2>4
<1>7. Today' >= 1 /\ past'[Today'] = book'
  BY <1>1, <1>2, Present
<1>8. QED
  BY <1>1, <1>2, <1>4, <1>5, <1>6, <1>7 DEF BookHistory

LEMMA MeantGrows ==
    ASSUME NEW c, NEW t, During(c) \subseteq During(c)', Meant(c, t)
    PROVE  Meant(c, t)'
  BY DEF Meant

(* An edit keeps the invariant. *)
LEMMA StoreKeeps ==
    ASSUME NoteInv, NEW b, Grown(b), Store(b),
           edit' \in {NoEdit} \cup [id: ChannelIds, address: Addresses, enabled: BOOLEAN]
    PROVE  NoteInv'
<1>1. /\ BookHistory' /\ Today' = Today + 1 /\ notice' = notice
      /\ past' \in Seq(Kept') /\ \A j \in 1..Today' : Book(past'[j])
      /\ \A j \in 1..Today : past'[j] = past[j]
  BY GrownHistory
<1>2. NoteTypeOK'
  BY <1>1 DEF NoteTypeOK, NoteInv
<1>3. ASSUME NEW c \in Callers PROVE Knows(c)' /\ InOrder(c)' /\ Complete(c)'
  <2>1. /\ Knows(c) /\ InOrder(c) /\ Complete(c)
        /\ notice[c].step \in {"off", "rule", "channels", "ask", "wait", "over"}
    BY OfCaller
  <2>2. /\ During(c) \subseteq During(c)'
        /\ notice[c].step \notin {"off", "rule", "channels"} => During(c)' = During(c)
        /\ notice[c].start \in 1..Today'
        /\ notice[c].step \notin {"rule", "channels"} =>
               notice[c].end \in notice[c].start..Today'
    BY <1>1, DuringGrows
  <2>3. \A t : Meant(c, t) => Meant(c, t)'
    BY <2>2, MeantGrows
  <2>4. Knows(c)'
    BY <1>1, <2>1, <2>2, <2>3 DEF Knows
  <2>5. InOrder(c)'
    BY <1>1, <2>1 DEF InOrder
  <2>6. Complete(c)'
    BY <1>1, <2>1, <2>2 DEF Complete
  <2>7. QED
    BY <2>4, <2>5, <2>6
<1>4. QED
  BY <1>1, <1>2, <1>3 DEF NoteInv

(* What stays when nothing but the PUT of a channel changes. *)
LEMMA EditKeeps ==
    ASSUME NoteInv, UNCHANGED <<book, notice, past>>,
           edit' \in {NoEdit} \cup [id: ChannelIds, address: Addresses, enabled: BOOLEAN]
    PROVE  NoteInv'
<1>1. NoteTypeOK'
  BY DEF NoteInv, NoteTypeOK, Kept, Today
<1>2. BookHistory'
  BY DEF NoteInv, BookHistory, Today
<1>3. ASSUME NEW c \in Callers PROVE Knows(c)' /\ InOrder(c)' /\ Complete(c)'
  <2>1. Knows(c) /\ InOrder(c) /\ Complete(c)
    BY OfCaller
  <2>2. During(c)' = During(c) /\ Today' = Today
    BY DEF During, Today
  <2>3. \A t : Meant(c, t) => Meant(c, t)'
    BY <2>2, MeantGrows
  <2>4. QED
    BY <2>1, <2>2, <2>3 DEF Knows, InOrder, Complete
<1>4. QED
  BY <1>1, <1>2, <1>3 DEF NoteInv

LEMMA BookOf ==
    ASSUME NoteInv, NEW ch, NEW n \in Nat
    PROVE  /\ [book EXCEPT !.channels = ch] =
                 [channels |-> ch, next |-> book.next, rule |-> book.rule]
           /\ [book EXCEPT !.channels = ch, !.next = n] =
                 [channels |-> ch, next |-> n, rule |-> book.rule]
           /\ [channels |-> ch, next |-> n, rule |-> book.rule] \in
                 [channels: {ch}, next: Nat,
                  rule: [ids: SUBSET ChannelIds, enabled: BOOLEAN, put: Nat, next: Nat]]
<1> DEFINE Rules == [ids: SUBSET ChannelIds, enabled: BOOLEAN, put: Nat, next: Nat]
           c == book.channels
<1>1. book \in [channels: {c}, next: Nat, rule: Rules]
  BY Present DEF Book
<1> HIDE DEF Rules, c
<1>2. [book EXCEPT !.channels = ch] =
          [channels |-> ch, next |-> book.next, rule |-> book.rule]
  BY <1>1
<1>3. [book EXCEPT !.channels = ch, !.next = n] =
          [channels |-> ch, next |-> n, rule |-> book.rule]
  <2> DEFINE x == [book EXCEPT !.channels = ch, !.next = n]
  <2>1. x = [f \in DOMAIN book |-> IF f = "next" THEN n ELSE IF f = "channels" THEN ch
                                                                       ELSE book[f]]
    BY <1>1
  <2>2. DOMAIN book = {"channels", "next", "rule"}
    BY <1>1
  <2>3. QED
    BY <2>1, <2>2
<1>4. [channels |-> ch, next |-> n, rule |-> book.rule] \in
          [channels: {ch}, next: Nat, rule: Rules]
  BY <1>1
<1>5. QED
  BY <1>2, <1>3, <1>4 DEF Rules

LEMMA CreateChannelKeeps ==
    ASSUME NoteInv, NEW address \in Addresses, NEW on \in BOOLEAN,
           CreateChannel(address, on)
    PROVE  NoteInv'
<1> DEFINE new == [address |-> address, enabled |-> on, born |-> Today + 1]
           channels == [i \in DOMAIN book.channels \cup {book.next} |->
                          IF i = book.next THEN new ELSE book.channels[i]]
           b == [book EXCEPT !.channels = channels, !.next = book.next + 1]
<1>1. Store(b) /\ edit' = edit /\ book.next \in ChannelIds
  BY DEF CreateChannel
<1>2. Book(book) /\ book.next \in Nat /\ Today \in Nat
  BY Present
<1>3. /\ b = [channels |-> channels, next |-> book.next + 1, rule |-> book.rule]
      /\ b.channels = channels /\ b.next = book.next + 1 /\ b.rule = book.rule
  <2> HIDE DEF channels
  <2>1. book.next + 1 \in Nat
    BY <1>2
  <2>2. b = [channels |-> channels, next |-> book.next + 1, rule |-> book.rule]
    BY <2>1, BookOf
  <2>3. QED
    BY <2>2
<1>4. new \in [address: Addresses, enabled: BOOLEAN, born: Nat]
  BY <1>2
<1>5. /\ DOMAIN channels = DOMAIN book.channels \cup {book.next}
      /\ channels[book.next] = new
      /\ \A i \in DOMAIN book.channels :
            channels[i] = new \/ channels[i] = book.channels[i]
      /\ \A i \in DOMAIN channels : channels[i] \in [address: Addresses, enabled: BOOLEAN, born: Nat]
  BY <1>2, <1>4 DEF Book
<1>6. Book(b)
  <2>1. DOMAIN channels \subseteq ChannelIds
    BY <1>1, <1>2, <1>5 DEF Book
  <2>2. channels = [i \in DOMAIN channels |-> channels[i]]
    OBVIOUS
  <2> HIDE DEF channels, b
  <2>3. book.next + 1 \in Nat
    BY <1>2
  <2>4. b \in [channels: {channels}, next: Nat,
              rule: [ids: SUBSET ChannelIds, enabled: BOOLEAN, put: Nat, next: Nat]]
    BY <1>3, <2>3, BookOf
  <2>5. QED
    BY <1>3, <1>5, <2>1, <2>2, <2>4 DEF Book
<1>7. \A i \in DOMAIN book.channels : i # book.next => channels[i] = book.channels[i]
  OBVIOUS
<1>8. new.born = Today + 1
  OBVIOUS
<1> HIDE DEF channels, b, new
<1>9. Grown(b)
  BY <1>2, <1>3, <1>5, <1>6, <1>7, <1>8 DEF Grown
<1>10. QED
  BY <1>1, <1>9, StoreKeeps DEF NoteInv, NoteTypeOK

LEMMA EditWritesKeeps ==
    ASSUME NoteInv, EditWrites
    PROVE  NoteInv'
<1>1. edit # NoEdit /\ edit' = NoEdit
      /\ edit \in [id: ChannelIds, address: Addresses, enabled: BOOLEAN]
  BY DEF EditWrites, NoteInv, NoteTypeOK
<1>2. CASE edit.id \in DOMAIN book.channels
  <2> DEFINE row == [book.channels[edit.id] EXCEPT !.address = edit.address,
                                                  !.enabled = edit.enabled]
             channels == [book.channels EXCEPT ![edit.id] = row]
             b == [book EXCEPT !.channels = channels]
  <2>1. Store(b)
    BY <1>2 DEF EditWrites
  <2>2. Book(book) /\ book.next \in Nat
    BY Present
  <2>3. /\ b = [channels |-> channels, next |-> book.next, rule |-> book.rule]
        /\ b.channels = channels /\ b.next = book.next /\ b.rule = book.rule
    <3> HIDE DEF channels
    <3>1. b = [channels |-> channels, next |-> book.next, rule |-> book.rule]
      BY <2>2, BookOf
    <3>2. QED
      BY <3>1
  <2>4. book.channels[edit.id] \in [address: Addresses, enabled: BOOLEAN, born: Nat]
    BY <1>2, <2>2 DEF Book
  <2>5. /\ row \in [address: Addresses, enabled: BOOLEAN, born: Nat]
        /\ row.born = book.channels[edit.id].born
    BY <1>1, <2>4
  <2>6. /\ DOMAIN channels = DOMAIN book.channels
        /\ channels = [i \in DOMAIN channels |-> channels[i]]
        /\ channels[edit.id] = row
        /\ \A i \in DOMAIN book.channels : i # edit.id => channels[i] = book.channels[i]
    BY <1>2
  <2> HIDE DEF row
  <2>7. \A i \in DOMAIN channels :
            /\ channels[i] \in [address: Addresses, enabled: BOOLEAN, born: Nat]
            /\ channels[i].born = book.channels[i].born
    BY <2>2, <2>5, <2>6 DEF Book
  <2>8. book.rule \in [ids: SUBSET ChannelIds, enabled: BOOLEAN, put: Nat, next: Nat]
        /\ DOMAIN book.channels \subseteq ChannelIds
    BY <2>2 DEF Book
  <2> HIDE DEF channels
  <2>9. b \in [channels: {channels}, next: Nat,
              rule: [ids: SUBSET ChannelIds, enabled: BOOLEAN, put: Nat, next: Nat]]
    BY <2>2, <2>3, <2>8
  <2> HIDE DEF b
  <2>10. Book(b)
    BY <2>3, <2>6, <2>7, <2>8, <2>9 DEF Book
  <2>11. Grown(b)
    BY <2>2, <2>3, <2>6, <2>7, <2>10 DEF Grown
  <2>12. QED
    BY <1>1, <2>1, <2>11, StoreKeeps
<1>3. CASE edit.id \notin DOMAIN book.channels
  <2>1. UNCHANGED <<book, notice, past>>
    BY <1>3 DEF EditWrites
  <2>2. QED
    BY <1>1, <2>1, EditKeeps
<1>4. QED
  BY <1>2, <1>3

LEMMA DeleteChannelKeeps ==
    ASSUME NoteInv, NEW d, DeleteChannel(d)
    PROVE  NoteInv'
<1> DEFINE channels == [j \in DOMAIN book.channels \ {d} |-> book.channels[j]]
           b == [book EXCEPT !.channels = channels]
<1>1. Store(b) /\ edit' = edit
  BY DEF DeleteChannel
<1>2. Book(book) /\ book.next \in Nat
  BY Present
<1>3. /\ b = [channels |-> channels, next |-> book.next, rule |-> book.rule]
      /\ b.channels = channels /\ b.next = book.next /\ b.rule = book.rule
  <2> HIDE DEF channels
  <2>1. b = [channels |-> channels, next |-> book.next, rule |-> book.rule]
    BY <1>2, BookOf
  <2>2. QED
    BY <2>1
<1>4. /\ DOMAIN channels \subseteq DOMAIN book.channels
      /\ channels = [i \in DOMAIN channels |-> channels[i]]
      /\ \A i \in DOMAIN channels : channels[i] = book.channels[i]
  OBVIOUS
<1>5. /\ book.rule \in [ids: SUBSET ChannelIds, enabled: BOOLEAN, put: Nat, next: Nat]
      /\ DOMAIN book.channels \subseteq ChannelIds
      /\ \A i \in DOMAIN book.channels :
            book.channels[i] \in [address: Addresses, enabled: BOOLEAN, born: Nat]
  BY <1>2 DEF Book
<1> HIDE DEF channels
<1>6. b \in [channels: {channels}, next: Nat,
             rule: [ids: SUBSET ChannelIds, enabled: BOOLEAN, put: Nat, next: Nat]]
  BY <1>2, <1>3, <1>5
<1> HIDE DEF b
<1>7. Book(b)
  BY <1>3, <1>4, <1>5, <1>6 DEF Book
<1>8. Grown(b)
  BY <1>2, <1>3, <1>4, <1>7 DEF Grown
<1>9. QED
  BY <1>1, <1>8, StoreKeeps DEF NoteInv, NoteTypeOK

LEMMA PutRuleKeeps ==
    ASSUME NoteInv, NEW ids \in SUBSET ChannelIds, NEW enabled \in BOOLEAN,
           PutRule(ids, enabled)
    PROVE  NoteInv'
<1> DEFINE rule == [ids |-> ids, enabled |-> enabled, put |-> Today + 1,
                    next |-> book.next]
           b == [book EXCEPT !.rule = rule]
<1>1. Store(b) /\ edit' = edit
  BY DEF PutRule
<1>2. Book(book) /\ book.next \in Nat /\ Today \in Nat
  BY Present
<1>3. /\ b = [channels |-> book.channels, next |-> book.next, rule |-> rule]
      /\ b.channels = book.channels /\ b.next = book.next /\ b.rule = rule
  BY <1>2 DEF Book
<1>4. /\ rule \in [ids: SUBSET ChannelIds, enabled: BOOLEAN, put: Nat, next: Nat]
      /\ rule.next = book.next /\ rule.put = Today + 1
  BY <1>2
<1> HIDE DEF rule
<1>5. b \in [channels: {book.channels}, next: Nat,
             rule: [ids: SUBSET ChannelIds, enabled: BOOLEAN, put: Nat, next: Nat]]
  BY <1>2, <1>3, <1>4
<1> HIDE DEF b
<1>6. Book(b)
  BY <1>2, <1>3, <1>5 DEF Book
<1>7. Grown(b)
  BY <1>2, <1>3, <1>4, <1>6 DEF Grown
<1>8. QED
  BY <1>1, <1>7, StoreKeeps DEF NoteInv, NoteTypeOK

LEMMA EditStepKeeps == NoteInv /\ EditStep => NoteInv'
<1> SUFFICES ASSUME NoteInv, EditStep PROVE NoteInv'
  OBVIOUS
<1>1. ASSUME NEW a \in Addresses, NEW on \in BOOLEAN, CreateChannel(a, on) PROVE NoteInv'
  BY <1>1, CreateChannelKeeps
<1>2. ASSUME NEW i \in ChannelIds, NEW a \in Addresses, NEW on \in BOOLEAN,
             EditReads(i, a, on)
      PROVE  NoteInv'
  <2>1. /\ edit' = [id |-> i, address |-> a, enabled |-> on]
        /\ UNCHANGED <<book, notice, past>>
    BY <1>2 DEF EditReads
  <2>2. edit' \in [id: ChannelIds, address: Addresses, enabled: BOOLEAN]
    BY <2>1
  <2>3. QED
    BY <2>1, <2>2, EditKeeps
<1>3. CASE EditWrites
  BY <1>3, EditWritesKeeps
<1>4. ASSUME NEW i \in ChannelIds, DeleteChannel(i) PROVE NoteInv'
  BY <1>4, DeleteChannelKeeps
<1>5. ASSUME NEW ids \in SUBSET ChannelIds, NEW on \in BOOLEAN, PutRule(ids, on)
      PROVE  NoteInv'
  BY <1>5, PutRuleKeeps
<1>6. QED
  BY <1>1, <1>2, <1>3, <1>4, <1>5 DEF EditStep

(* One caller's notify() moves on; the others are where they were. *)
Notices == [step: {"off", "rule", "channels", "ask", "wait", "over"},
            ids: SUBSET ChannelIds, todo: SUBSET Target, asked: Seq(Target),
            start: Nat, end: Nat, lost: BOOLEAN]

LEMMA OneMoves ==
    ASSUME NoteInv, NEW r \in Callers, NEW n \in Notices,
           notice' = [notice EXCEPT ![r] = n], UNCHANGED <<book, edit, past>>,
           Knows(r)', InOrder(r)', Complete(r)'
    PROVE  NoteInv'
<1>1. notice \in [Callers -> Notices]
  BY DEF NoteInv, NoteTypeOK, Notices
<1>2. notice' \in [Callers -> Notices]
  BY <1>1
<1>3. NoteTypeOK'
  BY <1>2 DEF NoteInv, NoteTypeOK, Notices, Kept, Today
<1>4. BookHistory'
  BY DEF NoteInv, BookHistory, Today
<1>5. ASSUME NEW c \in Callers PROVE Knows(c)' /\ InOrder(c)' /\ Complete(c)'
  <2>1. CASE c = r
    BY <2>1
  <2>2. CASE c # r
    <3>1. notice'[c] = notice[c]
      BY <1>1, <2>2
    <3>2. During(c)' = During(c) /\ Today' = Today
      BY <3>1 DEF During, Today
    <3>3. \A t : Meant(c, t) => Meant(c, t)'
      BY <3>2, MeantGrows
    <3>4. Knows(c) /\ InOrder(c) /\ Complete(c)
      BY OfCaller
    <3>5. Knows(c)'
      BY <3>1, <3>2, <3>3, <3>4 DEF Knows
    <3>6. InOrder(c)' /\ Complete(c)'
      BY <3>1, <3>2, <3>4 DEF InOrder, Complete
    <3>7. QED
      BY <3>5, <3>6
  <2>3. QED
    BY <2>1, <2>2
<1>6. QED
  BY <1>3, <1>4, <1>5 DEF NoteInv

(* A step that does not begin the event, and ends its queries only now, leaves *)
(* the tables that it has seen what they were. *)
LEMMA SameDuring ==
    ASSUME NEW r, UNCHANGED past, notice'[r].start = notice[r].start,
           \/ /\ notice[r].step \in {"rule", "channels"}
              /\ notice'[r].step \in {"rule", "channels"}
           \/ /\ notice[r].step \in {"rule", "channels"}
              /\ notice'[r].step \notin {"rule", "channels"}
              /\ notice'[r].end = Today
           \/ /\ notice[r].step \notin {"rule", "channels"}
              /\ notice'[r].step \notin {"rule", "channels"}
              /\ notice'[r].end = notice[r].end
    PROVE  /\ During(r)' = During(r) /\ Today' = Today
           /\ \A t : Meant(r, t) => Meant(r, t)'
<1>1. Today' = Today
  BY DEF Today
<1>2. During(r)' = During(r)
  BY <1>1 DEF During
<1>3. QED
  BY <1>1, <1>2, MeantGrows

LEMMA ReadRuleKeeps ==
    ASSUME NoteInv, NEW c \in Callers, ReadRule(c)
    PROVE  NoteInv'
<1> DEFINE old == notice[c]
           n == IF book.rule.enabled /\ book.rule.ids # {}
                THEN [old EXCEPT !.step = "channels", !.ids = book.rule.ids]
                ELSE [old EXCEPT !.step = "over", !.end = Today]
<1>1. /\ old.step = "rule" /\ notice' = [notice EXCEPT ![c] = n]
      /\ UNCHANGED <<book, edit, past>>
  BY DEF ReadRule, Proceed
<1>2. notice \in [Callers -> Notices] /\ old \in Notices
  BY DEF NoteInv, NoteTypeOK, Notices
<1>3. Today \in Nat /\ book.rule.ids \subseteq ChannelIds
  BY Present DEF Book
<1>4. /\ n.start = old.start /\ n.todo = old.todo /\ n.asked = old.asked
      /\ \/ n.step = "channels" /\ n.ids = book.rule.ids /\ book.rule.enabled
         \/ /\ n.step = "over" /\ n.end = Today
            /\ ~(book.rule.enabled /\ book.rule.ids # {})
      /\ n \in Notices
  <2>1. CASE book.rule.enabled /\ book.rule.ids # {}
    <3>1. n = [old EXCEPT !.step = "channels", !.ids = book.rule.ids]
      BY <2>1
    <3>2. QED
      BY <1>2, <1>3, <2>1, <3>1 DEF Notices
  <2>2. CASE ~(book.rule.enabled /\ book.rule.ids # {})
    <3>1. n = [old EXCEPT !.step = "over", !.end = Today]
      BY <2>2
    <3>2. QED
      BY <1>2, <1>3, <2>2, <3>1 DEF Notices
  <2>3. QED
    BY <2>1, <2>2
<1>5. notice'[c] = n
  BY <1>1, <1>2
<1> HIDE DEF n
<1>6. /\ During(c)' = During(c) /\ Today' = Today
  BY <1>1, <1>4, <1>5, SameDuring
<1>7. /\ Knows(c) /\ book \in During(c) /\ old.start \in 1..Today
      /\ old.todo = {} /\ old.asked = <<>>
  BY <1>1, OfCaller DEF Knows
<1>8. Knows(c)'
  BY <1>3, <1>4, <1>5, <1>6, <1>7 DEF Knows
<1>9. InOrder(c)'
  BY <1>4, <1>5, <1>7 DEF InOrder
<1>10. Complete(c)'
  <2>1. CASE n.step = "channels"
    BY <1>5, <2>1 DEF Complete
  <2>2. CASE ~(book.rule.enabled /\ book.rule.ids # {})
    <3>1. \A i : ~Names(book, i)
      BY <2>2 DEF Names
    <3>2. QED
      BY <1>6, <1>7, <3>1 DEF Complete
  <2>3. QED
    BY <1>4, <2>1, <2>2
<1>11. QED
  BY <1>1, <1>4, <1>8, <1>9, <1>10, OneMoves

LEMMA ReadChannelsKeeps ==
    ASSUME NoteInv, NEW c \in Callers, ReadChannels(c)
    PROVE  NoteInv'
<1> DEFINE old == notice[c]
           found == {j \in old.ids \cap DOMAIN book.channels : book.channels[j].enabled}
           todo == {[id |-> i, address |-> book.channels[i].address] : i \in found}
           n == [old EXCEPT !.todo = todo, !.end = Today,
                            !.step = IF todo = {} THEN "over" ELSE "ask"]
<1>1. /\ old.step = "channels" /\ notice' = [notice EXCEPT ![c] = n]
      /\ UNCHANGED <<book, edit, past>>
  BY DEF ReadChannels, Proceed
<1>2. notice \in [Callers -> Notices] /\ old \in Notices
  BY DEF NoteInv, NoteTypeOK, Notices
<1>3. /\ Today \in Nat /\ Book(book)
      /\ Knows(c) /\ book \in During(c) /\ old.start \in 1..Today /\ old.asked = <<>>
  BY <1>1, Present, OfCaller DEF Knows
<1>4. todo \subseteq Target
  BY <1>3 DEF Book, Target
<1>5. ASSUME NEW t \in todo
      PROVE  /\ t.id \in old.ids /\ Enabled(book, t.id)
             /\ book.channels[t.id].address = t.address
             /\ t = [id |-> t.id, address |-> book.channels[t.id].address]
  BY DEF Enabled
<1>6. \A i \in old.ids : Enabled(book, i) => \E t \in todo : t.id = i
  <2> SUFFICES ASSUME NEW i \in old.ids, Enabled(book, i)
               PROVE  \E t \in todo : t.id = i
    OBVIOUS
  <2>1. [id |-> i, address |-> book.channels[i].address] \in todo
    BY DEF Enabled
  <2>2. QED
    BY <2>1
<1> HIDE DEF todo
<1>7. /\ n.start = old.start /\ n.todo = todo /\ n.asked = old.asked /\ n.end = Today
      /\ n.step = IF todo = {} THEN "over" ELSE "ask"
      /\ n \in Notices
  BY <1>2, <1>3, <1>4 DEF Notices
<1>8. notice'[c] = n
  BY <1>1, <1>2
<1> HIDE DEF n
<1>9. /\ During(c)' = During(c) /\ Today' = Today
      /\ \A t : Meant(c, t) => Meant(c, t)'
  BY <1>1, <1>7, <1>8, SameDuring
<1>10. PICK d \in During(c) : d.rule.enabled /\ d.rule.ids = old.ids
  BY <1>1, <1>3 DEF Knows
<1>11. PICK k \in 1..Today : past[k] = d
  BY <1>1, <1>3, <1>10 DEF During
<1>12. ASSUME NEW t \in todo PROVE Meant(c, t)
  <2>1. t.id \in old.ids /\ Enabled(book, t.id) /\ book.channels[t.id].address = t.address
    BY <1>5
  <2>2. Names(d, t.id)
    BY <1>10, <2>1 DEF Names
  <2>3. Today \in 1..Today /\ past[Today] = book /\ t.id \in DOMAIN book.channels
    BY Present, <2>1 DEF Enabled
  <2>4. t.id < d.rule.next => book.channels[t.id].born <= d.rule.put
    BY <1>11, <2>3 DEF NoteInv, BookHistory
  <2>5. t.id \in Nat /\ d.rule.next \in Nat
    BY <1>4, <1>11, Present DEF Target
  <2>6. t.id < d.rule.next \/ t.id >= d.rule.next
    BY <2>5
  <2>7. QED
    BY <1>3, <2>1, <2>2, <2>4, <2>6 DEF Meant
<1>13. Knows(c)'
  BY <1>3, <1>7, <1>8, <1>9, <1>12 DEF Knows
<1>14. InOrder(c)'
  <2>1. \A t \in todo, u \in todo : t.id = u.id => t = u
    BY <1>5
  <2>2. QED
    BY <1>3, <1>7, <1>8, <2>1 DEF InOrder
<1>15. Complete(c)'
  <2> SUFFICES ASSUME NEW i \in ChannelIds,
                      \A b \in During(c) : Names(b, i) /\ Enabled(b, i)
               PROVE  \E t \in todo : t.id = i
    BY <1>7, <1>8, <1>9 DEF Complete
  <2>1. Names(d, i) /\ Enabled(book, i)
    BY <1>3
  <2>2. QED
    BY <1>6, <1>10, <2>1 DEF Names
<1>16. QED
  BY <1>1, <1>7, <1>13, <1>14, <1>15, OneMoves

LEMMA LookupFailsKeeps ==
    ASSUME NoteInv, NEW c \in Callers, LookupFails(c)
    PROVE  NoteInv'
<1> DEFINE old == notice[c]
           n == [old EXCEPT !.step = "over", !.end = Today, !.lost = TRUE]
<1>1. /\ old.step \in {"rule", "channels"} /\ notice' = [notice EXCEPT ![c] = n]
      /\ UNCHANGED <<book, edit, past>>
  BY DEF LookupFails, Proceed
<1>2. notice \in [Callers -> Notices] /\ old \in Notices
  BY DEF NoteInv, NoteTypeOK, Notices
<1>3. /\ Today \in Nat /\ Knows(c) /\ old.start \in 1..Today
      /\ old.todo = {} /\ old.asked = <<>>
  BY <1>1, Present, OfCaller DEF Knows
<1>4. /\ n.start = old.start /\ n.todo = {} /\ n.asked = <<>> /\ n.end = Today
      /\ n.step = "over" /\ n.lost /\ n \in Notices
  BY <1>2, <1>3 DEF Notices
<1>5. notice'[c] = n
  BY <1>1, <1>2
<1> HIDE DEF n
<1>6. Today' = Today
  BY <1>1 DEF Today
<1>7. Knows(c)'
  BY <1>3, <1>4, <1>5, <1>6 DEF Knows
<1>8. InOrder(c)' /\ Complete(c)'
  BY <1>4, <1>5 DEF InOrder, Complete
<1>9. QED
  BY <1>1, <1>4, <1>7, <1>8, OneMoves

LEMMA Appended ==
    ASSUME NEW S, NEW s \in Seq(S), NEW e \in S
    PROVE  /\ Append(s, e) \in Seq(S) /\ Len(s) \in Nat /\ DOMAIN s = 1..Len(s)
           /\ DOMAIN Append(s, e) = 1..(Len(s) + 1)
           /\ Append(s, e)[Len(s) + 1] = e
           /\ \A k \in DOMAIN s : Append(s, e)[k] = s[k]
  OBVIOUS

LEMMA AskKeeps ==
    ASSUME NoteInv, NEW c \in Callers, NEW t \in notice[c].todo, Ask(c, t)
    PROVE  NoteInv'
<1> DEFINE old == notice[c]
           n == [old EXCEPT !.step = "wait", !.todo = old.todo \ {t},
                            !.asked = Append(old.asked, t)]
<1>1. /\ old.step = "ask" /\ notice' = [notice EXCEPT ![c] = n]
      /\ UNCHANGED <<book, edit, past>> /\ \A u \in old.todo : t.id <= u.id
  BY DEF Ask, Proceed
<1>2. notice \in [Callers -> Notices] /\ old \in Notices
  BY DEF NoteInv, NoteTypeOK, Notices
<1>3. /\ Knows(c) /\ InOrder(c) /\ Complete(c)
      /\ old.todo \subseteq Target /\ old.asked \in Seq(Target)
  BY OfCaller
<1> DEFINE l == Len(old.asked)
<1>4. /\ Append(old.asked, t) \in Seq(Target) /\ l \in Nat /\ DOMAIN old.asked = 1..l
      /\ DOMAIN Append(old.asked, t) = 1..(l + 1)
      /\ Append(old.asked, t)[l + 1] = t
      /\ \A k \in DOMAIN old.asked : Append(old.asked, t)[k] = old.asked[k]
  BY <1>3, Appended
<1>5. /\ n.start = old.start /\ n.end = old.end /\ n.step = "wait" /\ n.lost = old.lost
      /\ n.todo = old.todo \ {t} /\ n.asked = Append(old.asked, t) /\ n \in Notices
  BY <1>2, <1>3, <1>4 DEF Notices
<1>6. notice'[c] = n
  BY <1>1, <1>2
<1> HIDE DEF n
<1>7. \A k \in DOMAIN n.asked : k \in DOMAIN old.asked \/ k = l + 1
  BY <1>4, <1>5
<1> DEFINE asked == n.asked
<1>8. /\ DOMAIN asked = 1..(l + 1) /\ asked[l + 1] = t
      /\ \A k \in DOMAIN old.asked : asked[k] = old.asked[k] /\ k \in DOMAIN asked
      /\ \A k \in DOMAIN asked : k \in DOMAIN old.asked \/ k = l + 1
  BY <1>4, <1>5, <1>7
<1>9. \A k \in DOMAIN old.asked : old.asked[k] \in Target /\ k \in 1..l
  BY <1>3, <1>4, SeqElements
<1> HIDE DEF l, asked
<1>10. /\ During(c)' = During(c) /\ Today' = Today
       /\ \A u : Meant(c, u) => Meant(c, u)'
  BY <1>1, <1>5, <1>6, SameDuring
<1>11. Knows(c)'
  <2>1. ASSUME NEW k \in DOMAIN asked, NEW u, u = asked[k] PROVE Meant(c, u)'
    <3>1. \A j \in DOMAIN old.asked : Meant(c, old.asked[j])
      BY <1>3 DEF Knows
    <3>2. Meant(c, t)
      BY <1>3 DEF Knows
    <3>3. Meant(c, u)
      BY <1>8, <2>1, <3>1, <3>2
    <3>4. QED
      BY <1>10, <3>3
  <2>2. \A u \in n.todo : Meant(c, u)'
    BY <1>3, <1>5, <1>10 DEF Knows
  <2>3. n.start \in 1..Today' /\ n.end \in n.start..Today'
    BY <1>1, <1>3, <1>5, <1>10 DEF Knows
  <2>4. QED
    BY <1>5, <1>6, <2>1, <2>2, <2>3 DEF Knows, asked
<1>12. InOrder(c)'
  <2>1. \A u \in n.todo, v \in n.todo : u.id = v.id => u = v
    BY <1>3, <1>5 DEF InOrder
  <2>2. \A k \in DOMAIN asked, u \in n.todo : asked[k].id < u.id
    <3> SUFFICES ASSUME NEW k \in DOMAIN asked, NEW u \in n.todo
                 PROVE  asked[k].id < u.id
      OBVIOUS
    <3>1. u \in old.todo /\ u # t /\ u.id \in Nat /\ t.id \in Nat
      BY <1>3, <1>5 DEF Target
    <3>2. CASE k \in DOMAIN old.asked
      BY <1>3, <1>8, <3>1, <3>2 DEF InOrder
    <3>3. CASE k = l + 1
      <4>1. asked[k] = t /\ t.id <= u.id
        BY <1>1, <1>8, <3>1, <3>3
      <4>2. t.id # u.id
        BY <1>3, <3>1 DEF InOrder
      <4>3. QED
        BY <3>1, <4>1, <4>2
    <3>4. QED
      BY <1>8, <3>2, <3>3
  <2>3. \A k \in DOMAIN asked, m \in DOMAIN asked :
            k < m => asked[k].id < asked[m].id
    <3> SUFFICES ASSUME NEW k \in DOMAIN asked, NEW m \in DOMAIN asked, k < m
                 PROVE  asked[k].id < asked[m].id
      OBVIOUS
    <3>1. k \in DOMAIN old.asked
      BY <1>4, <1>8, <1>9
    <3>2. CASE m \in DOMAIN old.asked
      BY <1>3, <1>8, <3>1, <3>2 DEF InOrder
    <3>3. CASE m = l + 1
      BY <1>3, <1>8, <3>1, <3>3 DEF InOrder
    <3>4. QED
      BY <1>8, <3>2, <3>3
  <2>4. QED
    BY <1>6, <2>1, <2>2, <2>3 DEF InOrder, asked
<1>13. Complete(c)'
  <2> SUFFICES ASSUME ~old.lost, NEW i \in ChannelIds,
                      \A b \in During(c) : Names(b, i) /\ Enabled(b, i)
               PROVE  \/ \E u \in n.todo : u.id = i
                      \/ \E k \in DOMAIN asked : asked[k].id = i
    BY <1>5, <1>6, <1>10 DEF Complete, asked
  <2>1. \/ \E u \in old.todo : u.id = i
        \/ \E k \in DOMAIN old.asked : old.asked[k].id = i
    BY <1>1, <1>3 DEF Complete
  <2>2. l + 1 \in DOMAIN asked
    BY <1>4, <1>8
  <2>3. \A u \in old.todo : u = t \/ u \in n.todo
    BY <1>5
  <2>4. QED
    BY <1>8, <2>1, <2>2, <2>3
<1>14. QED
  BY <1>1, <1>5, <1>11, <1>12, <1>13, OneMoves

LEMMA ReplyKeeps ==
    ASSUME NoteInv, NEW c \in Callers, NEW ok, Reply(c, ok)
    PROVE  NoteInv'
<1> DEFINE old == notice[c]
           n == [old EXCEPT !.step = IF old.todo # {} THEN "ask" ELSE "over"]
<1>1. /\ old.step = "wait" /\ notice' = [notice EXCEPT ![c] = n]
      /\ UNCHANGED <<book, edit, past>>
  BY DEF Reply, Proceed
<1>2. notice \in [Callers -> Notices] /\ old \in Notices
  BY DEF NoteInv, NoteTypeOK, Notices
<1>3. /\ n.start = old.start /\ n.end = old.end /\ n.lost = old.lost
      /\ n.todo = old.todo /\ n.asked = old.asked /\ n \in Notices
      /\ n.step = IF old.todo # {} THEN "ask" ELSE "over"
  BY <1>2 DEF Notices
<1>4. notice'[c] = n
  BY <1>1, <1>2
<1> HIDE DEF n
<1>5. /\ During(c)' = During(c) /\ Today' = Today
      /\ \A u : Meant(c, u) => Meant(c, u)'
  BY <1>1, <1>3, <1>4, SameDuring
<1>6. Knows(c) /\ InOrder(c) /\ Complete(c)
  BY OfCaller
<1>7. Knows(c)'
  BY <1>1, <1>3, <1>4, <1>5, <1>6 DEF Knows
<1>8. InOrder(c)'
  BY <1>3, <1>4, <1>6 DEF InOrder
<1>9. Complete(c)'
  <2> SUFFICES ASSUME ~old.lost, NEW i \in ChannelIds,
                      \A b \in During(c) : Names(b, i) /\ Enabled(b, i)
               PROVE  \/ \E u \in n.todo : u.id = i
                      \/ \E k \in DOMAIN n.asked : n.asked[k].id = i
    BY <1>3, <1>4, <1>5 DEF Complete
  <2>1. QED
    BY <1>1, <1>3, <1>6 DEF Complete
<1>10. QED
  BY <1>1, <1>3, <1>7, <1>8, <1>9, OneMoves

LEMMA NotifyStepKeeps ==
    ASSUME NoteInv, NEW c \in Callers, NotifyStep(c)
    PROVE  NoteInv'
  BY ReadRuleKeeps, ReadChannelsKeeps, LookupFailsKeeps, AskKeeps, ReplyKeeps
     DEF NotifyStep

(* notify() begins, or its caller forgets it. *)
LEMMA NotifyKeeps ==
    ASSUME NoteInv, NEW c \in Callers, UNCHANGED <<book, edit, past>>,
           Notify(c) \/ notice' = [notice EXCEPT ![c] = Off]
    PROVE  NoteInv'
<1> DEFINE n == notice'[c]
<1>1. notice \in [Callers -> Notices]
  BY DEF NoteInv, NoteTypeOK, Notices
<1>2. Today \in Nat /\ Today >= 1 /\ Today' = Today
  BY Present DEF Today
<1>3. Off \in Notices
  BY DEF Off, Notices
<1>4. /\ n.step \in {"off", "rule"} /\ n.todo = {} /\ n.asked = <<>>
      /\ n.start \in 1..Today
      /\ n.step = "off" => n.end \in n.start..Today
      /\ n \in Notices /\ notice' = [notice EXCEPT ![c] = n]
  <2>1. CASE Notify(c)
    <3>1. notice' = [notice EXCEPT ![c] = [Off EXCEPT !.step = "rule", !.start = Today]]
      BY <2>1 DEF Notify
    <3>2. n = [Off EXCEPT !.step = "rule", !.start = Today]
      BY <1>1, <3>1
    <3>3. /\ n.step = "rule" /\ n.todo = {} /\ n.asked = <<>> /\ n.start = Today
          /\ n \in Notices
      BY <1>2, <1>3, <3>2 DEF Off, Notices
    <3>4. notice' = [notice EXCEPT ![c] = n]
      BY <3>1, <3>2, Zenon
    <3> HIDE DEF n
    <3>5. QED
      BY <1>2, <3>3, <3>4
  <2>2. CASE notice' = [notice EXCEPT ![c] = Off]
    <3>1. n = Off
      BY <1>1, <2>2
    <3>2. /\ n.step = "off" /\ n.todo = {} /\ n.asked = <<>> /\ n.start = 1 /\ n.end = 1
          /\ n \in Notices
      BY <1>3, <3>1 DEF Off
    <3>3. notice' = [notice EXCEPT ![c] = n]
      BY <2>2, <3>1, Zenon
    <3> HIDE DEF n
    <3>4. QED
      BY <1>2, <3>2, <3>3
  <2>3. QED
    BY <2>1, <2>2
<1>5. Knows(c)' /\ InOrder(c)' /\ Complete(c)'
  <2> HIDE DEF n
  <2>1. notice'[c] = n
    BY DEF n
  <2>2. Knows(c)'
    BY <1>2, <1>4, <2>1 DEF Knows
  <2>3. InOrder(c)' /\ Complete(c)'
    BY <1>4, <2>1 DEF InOrder, Complete
  <2>4. QED
    BY <2>2, <2>3
<1>6. QED
  BY <1>4, <1>5, OneMoves

LEMMA NoteUnchanged ==
    ASSUME NoteInv, UNCHANGED noteVars
    PROVE  NoteInv'
<1>1. UNCHANGED <<book, notice, past>> /\ edit' = edit
  BY DEF noteVars
<1>2. QED
  BY <1>1, EditKeeps DEF NoteInv, NoteTypeOK

(* What the invariant is for. *)
LEMMA NoteInvMeans == NoteInv => AskedAsConfigured /\ NobodyLeftOut
<1> SUFFICES ASSUME NoteInv PROVE AskedAsConfigured /\ NobodyLeftOut
  OBVIOUS
<1>1. AskedAsConfigured
  BY OfCaller DEF AskedAsConfigured, Knows
<1>2. NobodyLeftOut
  <2> SUFFICES ASSUME NEW c \in Callers, notice[c].step = "over", ~notice[c].lost
               PROVE  LET asked == notice[c].asked
                      IN  /\ \A i \in ChannelIds :
                                (\A b \in During(c) : Names(b, i) /\ Enabled(b, i)) =>
                                    \E k \in DOMAIN asked : asked[k].id = i
                          /\ \A k \in DOMAIN asked, l \in DOMAIN asked :
                                k < l => asked[k].id < asked[l].id
    BY DEF NobodyLeftOut
  <2>1. Knows(c) /\ InOrder(c) /\ Complete(c)
    BY OfCaller
  <2>2. notice[c].todo = {}
    BY <2>1 DEF Knows
  <2>3. QED
    BY <2>1, <2>2 DEF InOrder, Complete
<1>3. QED
  BY <1>1, <1>2
=============================================================================
