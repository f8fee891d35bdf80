-------------------------- MODULE TrafficQuotaProofs --------------------------
(***************************************************************************)
(* Quota enforcement and byte accounting of TrafficQuota for any finite    *)
(* sets of nodes, of names and of overlapping passes, any other users with *)
(* some of the names, any edits and faults, and any quotas.                *)
(***************************************************************************)
EXTENDS TrafficQuota, FiniteSetTheorems, TLAPS

(* The types that the decision to cut a user off depends on. *)
QuotaTypes == UserOK /\ PassOK /\ EditsOK /\ NamesOK

Counters == [Nodes \X Names -> Nat]

-----------------------------------------------------------------------------
(* Sums. *)

LEMMA UpTo == \A n \in Nat : IsFiniteSet(1 .. n) /\ Cardinality(1 .. n) = n
<1> TAKE n \in Nat
<1>1. /\ IsFiniteSet(1 .. n)
      /\ Cardinality(1 .. n) = IF 1 > n THEN 0 ELSE n - 1 + 1
  BY FS_Interval
<1>2. QED
  BY <1>1

LEMMA BytesFinite ==
    ASSUME NEW S, IsFiniteSet(S), NEW f, \A i \in S : f[i] \in Nat
    PROVE  IsFiniteSet(Bytes(f, S)) /\ Total(f, S) \in Nat
<1> DEFINE at_(i) == {i} \X (1 .. f[i])
           parts == {at_(i) : i \in S}
           g == [i \in S |-> at_(i)]
<1>1. g \in Surjection(S, parts)
  BY DEF Surjection
<1>2. IsFiniteSet(parts)
  BY <1>1, FS_Surjection
<1>3. \A i \in S : IsFiniteSet(at_(i))
  <2> SUFFICES ASSUME NEW i \in S PROVE IsFiniteSet({i} \X (1 .. f[i]))
    OBVIOUS
  <2>1. IsFiniteSet({i}) /\ IsFiniteSet(1 .. f[i])
    BY FS_Singleton, UpTo
  <2>2. QED
    BY <2>1, FS_Product
<1>4. \A T \in parts : IsFiniteSet(T)
  BY <1>3
<1> HIDE DEF parts
<1>5. IsFiniteSet(UNION parts)
  BY <1>2, <1>4, FS_UNION
<1>6. QED
  BY <1>5, FS_CardinalityType DEF Bytes, Total, parts

LEMMA TotalOfOne == ASSUME NEW f, NEW x, f[x] \in Nat PROVE Total(f, {x}) = f[x]
<1>1. Bytes(f, {x}) = {x} \X (1 .. f[x])
  BY DEF Bytes
<1>2. IsFiniteSet({x}) /\ Cardinality({x}) = 1
  BY FS_Singleton
<1>3. IsFiniteSet(1 .. f[x]) /\ Cardinality(1 .. f[x]) = f[x]
  BY UpTo
<1>4. Cardinality({x} \X (1 .. f[x])) = Cardinality({x}) * Cardinality(1 .. f[x])
  BY <1>2, <1>3, FS_Product
<1>5. Total(f, {x}) = Cardinality({x} \X (1 .. f[x]))
  BY <1>1 DEF Total
<1>6. Cardinality({x}) * Cardinality(1 .. f[x]) = f[x]
  BY <1>2, <1>3
<1>7. QED
  BY <1>4, <1>5, <1>6

(* The sum over two disjoint sets. *)
LEMMA TotalSplit ==
    ASSUME NEW S, IsFiniteSet(S), NEW R, IsFiniteSet(R), S \cap R = {}, NEW f,
           \A i \in S \cup R : f[i] \in Nat
    PROVE  Total(f, S \cup R) = Total(f, S) + Total(f, R)
<1> DEFINE A == Bytes(f, S)
           B == Bytes(f, R)
<1>1. IsFiniteSet(A) /\ IsFiniteSet(B)
  BY BytesFinite
<1>2. Bytes(f, S \cup R) = A \cup B
  BY DEF Bytes
<1>3. A \cap B = {}
  BY DEF Bytes
<1>4. Total(f, S \cup R) = Cardinality(A \cup B)
  BY <1>2 DEF Total
<1>5. Total(f, S) = Cardinality(A) /\ Total(f, R) = Cardinality(B)
  BY DEF Total
<1> HIDE DEF A, B
<1>6. Cardinality(A \cup B) = Cardinality(A) + Cardinality(B) - Cardinality(A \cap B)
  BY <1>1, FS_Union
<1>7. /\ Cardinality(A) \in Nat /\ Cardinality(B) \in Nat
      /\ Cardinality(A \cap B) = 0
  BY <1>1, <1>3, FS_CardinalityType, FS_EmptySet
<1>8. QED
  BY <1>4, <1>5, <1>6, <1>7

LEMMA TotalOfNone == \A f : Total(f, {}) = 0
  BY FS_EmptySet DEF Total, Bytes

LEMMA TotalAgrees ==
    ASSUME NEW S, NEW f, NEW g, \A i \in S : f[i] = g[i]
    PROVE  Total(f, S) = Total(g, S)
<1>1. Bytes(f, S) = Bytes(g, S)
  BY DEF Bytes
<1>2. QED
  BY <1>1 DEF Total

LEMMA TotalOfZeros ==
    ASSUME NEW S, IsFiniteSet(S), NEW f, \A i \in S : f[i] = 0
    PROVE  Total(f, S) = 0
<1>1. Bytes(f, S) = {}
  BY DEF Bytes
<1>2. QED
  BY <1>1, FS_EmptySet DEF Total

(* Leaving one member out leaves out what is counted there. *)
LEMMA TotalWithout ==
    ASSUME NEW S, IsFiniteSet(S), NEW f, NEW x \in S, \A i \in S : f[i] \in Nat
    PROVE  /\ Total(f, S) = Total(f, S \ {x}) + f[x]
           /\ Total(f, S \ {x}) \in Nat
<1> DEFINE R == S \ {x}
<1>1. IsFiniteSet(R) /\ IsFiniteSet({x}) /\ R \cap {x} = {} /\ R \cup {x} = S
  <2>1. IsFiniteSet(R)
    BY FS_RemoveElement
  <2>2. IsFiniteSet({x})
    BY FS_Singleton
  <2>3. R \cap {x} = {} /\ R \cup {x} = S
    OBVIOUS
  <2>4. QED
    BY <2>1, <2>2, <2>3
<1> HIDE DEF R
<1>2. Total(f, R \cup {x}) = Total(f, R) + Total(f, {x})
  BY <1>1, TotalSplit
<1>3. Total(f, R) \in Nat
  BY <1>1, BytesFinite
<1>4. QED
  BY <1>1, <1>2, <1>3, TotalOfOne DEF R

(* Writing one value changes the sum by the difference. *)
LEMMA TotalExcept ==
    ASSUME NEW S, IsFiniteSet(S), NEW x \in S, NEW f, NEW g,
           \A i \in S : f[i] \in Nat /\ g[i] \in Nat,
           \A i \in S \ {x} : g[i] = f[i]
    PROVE  Total(g, S) = Total(f, S) - f[x] + g[x] /\ Total(f, S) \in Nat
<1>1. /\ Total(g, S) = Total(g, S \ {x}) + g[x]
      /\ Total(f, S) = Total(f, S \ {x}) + f[x]
      /\ Total(f, S \ {x}) \in Nat
  BY TotalWithout
<1>2. Total(g, S \ {x}) = Total(f, S \ {x})
  BY TotalAgrees
<1>3. f[x] \in Nat /\ g[x] \in Nat
  OBVIOUS
<1>4. QED
  BY <1>1, <1>2, <1>3

-----------------------------------------------------------------------------
(* The counters. *)

Everywhere == Nodes \X Names

LEMMA CountersFinite ==
    /\ IsFiniteSet(Everywhere)
    /\ \A n \in Nodes, N \in SUBSET Names :
           IsFiniteSet(Named(n, N)) /\ Named(n, N) \subseteq Everywhere
<1>1. IsFiniteSet(Everywhere)
  BY TrafficQuotaAssumption, FS_Product DEF Everywhere
<1>2. ASSUME NEW n \in Nodes, NEW N \in SUBSET Names
      PROVE  IsFiniteSet(Named(n, N)) /\ Named(n, N) \subseteq Everywhere
  <2>1. Named(n, N) \in SUBSET Everywhere
    BY DEF Named, Everywhere
  <2>2. QED
    BY <1>1, <2>1, FS_Subset
<1>3. QED
  BY <1>1, <1>2

LEMMA SumOf ==
    ASSUME NEW f \in Counters, NEW n \in Nodes, NEW N \in SUBSET Names
    PROVE  Total(f, Named(n, N)) \in Nat /\ Total(f, Everywhere) \in Nat
<1>1. /\ \A k \in Everywhere : f[k] \in Nat
      /\ IsFiniteSet(Everywhere) /\ IsFiniteSet(Named(n, N)) /\ Named(n, N) \subseteq Everywhere
  BY CountersFinite DEF Counters, Everywhere
<1>2. \A k \in Named(n, N) : f[k] \in Nat
  BY <1>1
<1>3. QED
  BY <1>1, <1>2, BytesFinite

(* The counters of one node, zeroed. *)
LEMMA ZeroedCounters ==
    ASSUME NEW f \in Counters, NEW n \in Nodes
    PROVE  /\ Zeroed(f, n) \in Counters
           /\ \A k \in Nodes \X Names : Zeroed(f, n)[k] = IF k[1] = n THEN 0 ELSE f[k]
<1>1. \A k \in Nodes \X Names : (IF k[1] = n THEN 0 ELSE f[k]) \in Nat
  BY DEF Counters
<1>2. QED
  BY <1>1 DEF Zeroed, Counters

(* One byte more in one counter. *)
LEMMA CountedOnce ==
    ASSUME NEW f \in Counters, NEW n \in Nodes, NEW e \in Names
    PROVE  LET g == [f EXCEPT ![<<n, e>>] = @ + 1]
           IN  /\ g \in Counters
               /\ g[<<n, e>>] = f[<<n, e>>] + 1 /\ <<n, e>> \in Nodes \X Names
               /\ \A k \in (Nodes \X Names) \ {<<n, e>>} : g[k] = f[k]
<1>1. <<n, e>> \in Nodes \X Names
  OBVIOUS
<1>2. QED
  BY <1>1 DEF Counters

(* The names whose counters are taken for the user's: the one it was listed
   under, and that one alone. *)
LEMMA ClaimsAre ==
    ASSUME NEW e \in Names \cup {NoName}, NEW claimed \in Claims(e)
    PROVE  /\ claimed \in SUBSET Names /\ claimed \subseteq {e}
           /\ e # NoName /\ e \notin Twins => claimed = {e}
  BY DEF Claims

(* What Fetch does, with its sums. *)
Fetched(c, claimed, ours, theirs, rest) ==
    /\ claimed \in Claims(listed[c])
    /\ ours = Total(own, Named(at[c], claimed))
    /\ theirs = Total(foreign, Named(at[c], claimed))
    /\ rest = Total(own, Named(at[c], Names \ claimed))
    /\ delta' = [delta EXCEPT ![c] = ours + theirs]
    /\ gained' = gained + theirs
    /\ \/ listed[c] = NoName /\ dropped' = dropped + rest /\ strayed' = strayed
       \/ listed[c] # NoName /\ strayed' = strayed + rest /\ dropped' = dropped
    /\ \E s \in {"sample", "visit", "notify"} :
          stage' = [stage EXCEPT ![c] = s] /\ (s = "sample" <=> ours + theirs > 0)

LEMMA FetchIs ==
    ASSUME QuotaTypes, NEW c \in Collectors, Fetch(c)
    PROVE  \E claimed \in SUBSET Names, ours \in Nat, theirs \in Nat, rest \in Nat :
              Fetched(c, claimed, ours, theirs, rest)
<1>1. /\ at[c] \in Nodes /\ own \in Counters /\ foreign \in Counters
      /\ listed[c] \in Names \cup {NoName}
  BY DEF QuotaTypes, PassOK, Fetch, Counters
<1>2. PICK claimed \in Claims(listed[c]) :
         LET ours   == Total(own, Named(at[c], claimed))
             theirs == Total(foreign, Named(at[c], claimed))
             rest   == Total(own, Named(at[c], Names \ claimed))
         IN  /\ delta' = [delta EXCEPT ![c] = ours + theirs]
             /\ \E s \in IF ours + theirs > 0 THEN {"sample"} ELSE AfterUser : Goto(c, s)
             /\ gained' = gained + theirs
             /\ IF listed[c] = NoName
                THEN dropped' = dropped + rest /\ UNCHANGED strayed
                ELSE strayed' = strayed + rest /\ UNCHANGED dropped
  BY DEF Fetch
<1>3. claimed \in SUBSET Names /\ Names \ claimed \in SUBSET Names
  BY <1>1, ClaimsAre
<1> DEFINE ours   == Total(own, Named(at[c], claimed))
           theirs == Total(foreign, Named(at[c], claimed))
           rest   == Total(own, Named(at[c], Names \ claimed))
<1>4. ours \in Nat /\ theirs \in Nat /\ rest \in Nat
  BY <1>1, <1>3, SumOf
<1>5. /\ delta' = [delta EXCEPT ![c] = ours + theirs]
      /\ \E s \in IF ours + theirs > 0 THEN {"sample"} ELSE AfterUser : Goto(c, s)
      /\ gained' = gained + theirs
      /\ IF listed[c] = NoName
         THEN dropped' = dropped + rest /\ UNCHANGED strayed
         ELSE strayed' = strayed + rest /\ UNCHANGED dropped
  BY <1>2
<1>6. Fetched(c, claimed, ours, theirs, rest)
  <2>1. claimed \in Claims(listed[c])
    BY <1>2
  <2> HIDE DEF ours, theirs, rest
  <2>2. \E s \in {"sample", "visit", "notify"} :
            stage' = [stage EXCEPT ![c] = s] /\ (s = "sample" <=> ours + theirs > 0)
    BY <1>5 DEF Goto, AfterUser
  <2>3. /\ ours = Total(own, Named(at[c], claimed))
        /\ theirs = Total(foreign, Named(at[c], claimed))
        /\ rest = Total(own, Named(at[c], Names \ claimed))
    BY DEF ours, theirs, rest
  <2>4. QED
    BY <1>5, <2>1, <2>2, <2>3 DEF Fetched
<1>7. QED
  BY <1>3, <1>4, <1>6

-----------------------------------------------------------------------------
(* The decision to cut a user off. *)

(* A user over quota has the decision ahead of it, or is excused. It is
   inductive: only an addition of bytes can put an enabled user over quota
   unexcused, and the pass that added them is at its check then; only that
   pass leaves the check, having found the user disabled or under quota, or
   going on to cut it off. *)
QInv == QuotaTypes /\ OverQuotaIsCut

LEMMA InitQuota == Init => QInv
<1> SUFFICES ASSUME Init PROVE QInv
  OBVIOUS
<1> USE TrafficQuotaAssumption DEF Init
<1>1. row \in Row /\ row.quota \in Nat /\ row.name \in Names
  <2>1. PICK q \in Quotas, e \in Names :
            row = [enabled |-> TRUE, quota |-> q, token |-> 0, name |-> e]
    OBVIOUS
  <2>2. q \in Nat /\ 0 \in 0..MaxEdits
    OBVIOUS
  <2>3. QED
    BY <2>1, <2>2 DEF Row
<1>2. QuotaTypes
  <2>1. UserOK
    BY <1>1 DEF UserOK
  <2>2. PassOK
    BY <1>1 DEF PassOK, Stages
  <2>3. EditsOK
    BY DEF EditsOK
  <2>4. NamesOK
    BY <1>1 DEF NamesOK
  <2>5. QED
    BY <2>1, <2>2, <2>3, <2>4 DEF QuotaTypes
<1>3. OverQuotaIsCut
  BY <1>1 DEF OverQuotaIsCut, Over
<1>4. QED
  BY <1>2, <1>3 DEF QInv

(* What the statements that write the row make of it is a row. *)
LEMMA Disabled == \A r \in Row : [r EXCEPT !.enabled = FALSE] \in Row
  BY DEF Row

LEMMA EditedRows ==
    ASSUME NEW r \in Row, edits \in 0..MaxEdits
    PROVE  Kick(r) \cup Enable(r) \cup Requota(r) \cup Rename(r) \subseteq Row
<1>1. Kick(r) \subseteq Row
  BY DEF Kick, Row
<1>2. Enable(r) \subseteq Row
  BY DEF Enable, Row
<1>3. Requota(r) \subseteq Row
  BY DEF Requota, Row
<1>4. Rename(r) \subseteq Row
  BY DEF Rename, Row
<1>5. QED
  BY <1>1, <1>2, <1>3, <1>4

(* The values stay in their types: all but the names first. *)
LEMMA ValuesStep ==
    ASSUME QuotaTypes, [Next]_vars
    PROVE  UserOK' /\ PassOK' /\ EditsOK' /\ names' \subseteq Names
<1> DEFINE Typed == UserOK /\ PassOK /\ EditsOK /\ names \subseteq Names
<1> SUFFICES Typed'
  OBVIOUS
<1> USE TrafficQuotaAssumption, NoRowAssumption
    DEF UserOK, PassOK, EditsOK, Stages, Fault, Call, Goto
<1>0. Typed /\ own \in Counters /\ foreign \in Counters
  BY DEF QuotaTypes, NamesOK, Counters
<1>1. CASE UNCHANGED vars
  BY <1>0, <1>1 DEF vars, user, core, pass
<1>2. ASSUME NEW n \in Nodes, NEW e \in Names, Traffic(n) \/ TwinTraffic(n, e) \/ CoreRestarts(n)
      PROVE  Typed'
  <2>1. own' \in Counters /\ foreign' \in Counters /\ email' \in [Nodes -> Names]
    <3>1. CASE Traffic(n)
      <4>1. email[n] \in Names
        BY <1>0
      <4>2. own' \in Counters
        BY <1>0, <3>1, <4>1, CountedOnce DEF Traffic
      <4>3. QED
        BY <1>0, <3>1, <4>2 DEF Traffic
    <3>2. CASE TwinTraffic(n, e)
      <4>1. foreign' \in Counters
        BY <1>0, <3>2, CountedOnce DEF TwinTraffic
      <4>2. QED
        BY <1>0, <3>2, <4>1 DEF TwinTraffic
    <3>3. CASE CoreRestarts(n)
      <4>1. own' \in Counters /\ foreign' \in Counters
        BY <1>0, <3>3, ZeroedCounters DEF CoreRestarts
      <4>2. email' \in [Nodes -> Names]
        BY <1>0, <3>3 DEF CoreRestarts
      <4>3. QED
        BY <4>1, <4>2
    <3>4. QED
      BY <1>2, <3>1, <3>2, <3>3
  <2>2. /\ UNCHANGED <<user, pass>>
        /\ UNCHANGED <<copy, edits, faults, excused, kicked, names>>
    BY <1>2 DEF Traffic, TwinTraffic, CoreRestarts
  <2>3. QED
    BY <1>0, <2>1, <2>2 DEF user, pass, Counters
<1>3. ASSUME NEW c \in Collectors, StartPass(c) \/ EndPass(c) \/ Notified(c) PROVE Typed'
  <2>1. /\ UNCHANGED <<user, core, at, listed, delta, copy, edits, faults, names, excused, kicked>>
        /\ todo' = todo \/ todo' = [todo EXCEPT ![c] = Nodes]
        /\ \E s \in {"idle", "visit", "add"} : stage' = [stage EXCEPT ![c] = s]
    BY <1>3 DEF StartPass, EndPass, Notified
  <2>2. stage' \in [Collectors -> Stages] /\ todo' \in [Collectors -> SUBSET Nodes]
    BY <1>0, <2>1
  <2>3. PassOK'
    <3>1. \A d \in Collectors : stage'[d] = "fetch" => stage[d] = "fetch"
      BY <1>0, <2>1
    <3>2. QED
      BY <1>0, <2>1, <2>2, <3>1 DEF core
  <2>4. QED
    BY <1>0, <2>1, <2>3 DEF user
<1>4. ASSUME NEW c \in Collectors, NEW n \in Nodes, NEW ok \in BOOLEAN, Visit(c, n, ok)
      PROVE  Typed'
  <2>1. row.name \in Names
    BY <1>0 DEF Row
  <2>2. /\ listed' \in [Collectors -> Names \cup {NoName}]
        /\ todo' \in [Collectors -> SUBSET Nodes]
    BY <1>0, <1>4, <2>1 DEF Visit
  <2>3. /\ UNCHANGED <<user, core, delta, copy, edits, names, excused, kicked>>
        /\ \/ stage' = [stage EXCEPT ![c] = "fetch"] /\ at' = [at EXCEPT ![c] = n]
           \/ UNCHANGED <<stage, at>>
        /\ UNCHANGED faults \/ (faults < MaxFaults /\ faults' = faults + 1)
    BY <1>4 DEF Visit
  <2>4. UserOK' /\ EditsOK' /\ names' \subseteq Names
    BY <1>0, <2>3 DEF user
  <2>5. PassOK'
    BY <1>0, <2>2, <2>3 DEF core
  <2>6. QED
    BY <2>4, <2>5
<1>5. ASSUME NEW c \in Collectors, Fetch(c) \/ FetchSilent(c) \/ FetchFails(c) PROVE Typed'
  <2>1. /\ stage[c] = "fetch" /\ at[c] \in Nodes /\ UNCHANGED <<user, todo, email>>
        /\ UNCHANGED <<copy, edits, names, excused, kicked>>
        /\ UNCHANGED faults \/ (faults < MaxFaults /\ faults' = faults + 1)
        /\ at' = [at EXCEPT ![c] = NoNode]
        /\ listed' = [listed EXCEPT ![c] = NoName]
    BY <1>0, <1>5 DEF Fetch, FetchSilent, FetchFails, core
  <2>2. own' \in Counters /\ foreign' \in Counters
    BY <1>0, <1>5, <2>1, ZeroedCounters DEF Fetch, FetchSilent, FetchFails, core
  <2>3. /\ delta' \in [Collectors -> Nat]
        /\ \E s \in {"sample", "visit", "notify"} : stage' = [stage EXCEPT ![c] = s]
    <3>1. CASE Fetch(c)
      <4>1. /\ \E d \in Nat : delta' = [delta EXCEPT ![c] = d]
            /\ \E s \in {"sample", "visit", "notify"} : stage' = [stage EXCEPT ![c] = s]
        <5>1. PICK claimed \in SUBSET Names, ours \in Nat, theirs \in Nat, rest \in Nat :
                  Fetched(c, claimed, ours, theirs, rest)
          BY <3>1, FetchIs
        <5>2. ours + theirs \in Nat
          OBVIOUS
        <5>3. QED
          BY <5>1, <5>2 DEF Fetched
      <4>2. delta' \in [Collectors -> Nat]
        BY <1>0, <4>1
      <4>3. QED
        BY <4>1, <4>2
    <3>2. CASE FetchSilent(c) \/ FetchFails(c)
      BY <1>0, <3>2 DEF FetchSilent, FetchFails
    <3>3. QED
      BY <1>5, <3>1, <3>2
  <2>4. PassOK'
    BY <1>0, <2>1, <2>2, <2>3 DEF Counters
  <2>5. UserOK' /\ EditsOK' /\ names' \subseteq Names
    BY <1>0, <2>1 DEF user
  <2>6. QED
    BY <2>4, <2>5
<1>6. ASSUME NEW c \in Collectors, NEW ok \in BOOLEAN,
             Sample(c, ok) \/ Add(c, ok) \/ CheckQuota(c, ok) \/ CutOff(c, ok)
      PROVE  Typed'
  <2>1. CASE Sample(c, ok)
    <3>1. samples' \in Nat
      BY <1>0, <2>1 DEF Sample
    <3>2. UserOK' /\ EditsOK' /\ names' \subseteq Names
      BY <1>0, <2>1, <3>1 DEF Sample
    <3>3. PassOK'
      BY <1>0, <2>1 DEF Sample, core
    <3>4. QED
      BY <3>2, <3>3
  <2>2. CASE Add(c, ok)
    <3>1. used' \in Nat
      BY <1>0, <2>2 DEF Add
    <3>2. excused' \in BOOLEAN
      <4>1. CASE ok
        BY <2>2, <4>1 DEF Add
      <4>2. CASE ~ok
        BY <1>0, <2>2, <4>2 DEF Add
      <4>3. QED
        BY <4>1, <4>2
    <3>3. UserOK' /\ EditsOK' /\ names' \subseteq Names
      BY <1>0, <2>2, <3>1, <3>2 DEF Add
    <3>4. PassOK'
      BY <1>0, <2>2 DEF Add, core
    <3>5. QED
      BY <3>3, <3>4
  <2>3. CASE CheckQuota(c, ok)
    <3>1. \E s \in {"cut", "visit", "notify"} : stage' = [stage EXCEPT ![c] = s]
      BY <2>3 DEF CheckQuota, AfterUser
    <3>2. PassOK'
      BY <1>0, <2>3, <3>1 DEF CheckQuota, core
    <3>3. UserOK' /\ EditsOK' /\ names' \subseteq Names
      BY <1>0, <2>3 DEF CheckQuota, user
    <3>4. QED
      BY <3>2, <3>3
  <2>4. CASE CutOff(c, ok)
    <3>1. row' \in Row /\ kicked' \in BOOLEAN
      <4>1. row \in Row /\ kicked \in BOOLEAN /\ [row EXCEPT !.enabled = FALSE] \in Row
        BY <1>0, Disabled
      <4>2. QED
        BY <2>4, <4>1 DEF CutOff
    <3>2. UserOK' /\ EditsOK' /\ names' \subseteq Names
      BY <1>0, <2>4, <3>1 DEF CutOff
    <3>3. PassOK'
      BY <1>0, <2>4 DEF CutOff, core
    <3>4. QED
      BY <3>2, <3>3
  <2>5. QED
    BY <1>6, <2>1, <2>2, <2>3, <2>4
<1>7. ASSUME NEW C \in SUBSET Collectors, Abandon(C), copy' \in {copy, [a \in Admins |-> NoRow]}
      PROVE  Typed'
  BY <1>0, <1>7 DEF Abandon, user, core
<1>8. ASSUME NEW a \in Admins, UpdateReads(a) \/ Update(a) PROVE Typed'
  <2>1. CASE UpdateReads(a)
    BY <1>0, <2>1 DEF UpdateReads, user, core, pass
  <2>2. CASE Update(a)
    <3>1. copy[a] \in Row
      BY <1>0, <2>2 DEF Update
    <3>2. PICK r \in Row, out \in BOOLEAN : UpdateWrites(a, r, out)
      <4>1. Kick(copy[a]) \cup Enable(copy[a]) \cup Requota(copy[a]) \cup Rename(copy[a])
               \subseteq Row
        BY <1>0, <3>1, EditedRows
      <4>2. kicked \in BOOLEAN /\ TRUE \in BOOLEAN /\ FALSE \in BOOLEAN
        BY <1>0
      <4>3. \/ \E r \in Kick(copy[a]) : UpdateWrites(a, r, TRUE)
            \/ \E r \in Enable(copy[a]) : UpdateWrites(a, r, FALSE)
            \/ \E r \in Requota(copy[a]) \cup Rename(copy[a]) : UpdateWrites(a, r, kicked)
        BY <2>2 DEF Update
      <4>4. CASE \E r \in Kick(copy[a]) : UpdateWrites(a, r, TRUE)
        BY <4>1, <4>4
      <4>5. CASE \E r \in Enable(copy[a]) : UpdateWrites(a, r, FALSE)
        BY <4>1, <4>5
      <4>6. CASE \E r \in Requota(copy[a]) \cup Rename(copy[a]) : UpdateWrites(a, r, kicked)
        BY <4>1, <4>2, <4>6
      <4>7. QED
        BY <4>3, <4>4, <4>5, <4>6
    <3>3. row' \in Row /\ kicked' \in BOOLEAN /\ names' \subseteq Names
      BY <1>0, <3>2 DEF UpdateWrites, Row
    <3>4. QED
      BY <1>0, <3>2, <3>3 DEF UpdateWrites, core, pass
  <2>3. QED
    BY <1>8, <2>1, <2>2
<1>9. CASE ResetTraffic
  <2>1. used' \in Nat /\ edits' \in 0..MaxEdits
    BY <1>0, <1>9 DEF ResetTraffic
  <2>2. UNCHANGED <<row, samples, core, pass, copy, faults, names, excused, kicked>>
    BY <1>9 DEF ResetTraffic
  <2>3. PassOK'
    BY <1>0, <2>2 DEF core, pass
  <2>4. QED
    BY <1>0, <2>1, <2>2, <2>3
<1>10. ASSUME NEW c \in Collectors,
              StartPass(c) \/ PassStep(c) \/ PassFault(c) \/ Notified(c)
       PROVE  Typed'
  <2> HIDE DEF Typed
  <2>1. TRUE \in BOOLEAN /\ FALSE \in BOOLEAN
    OBVIOUS
  <2>2. QED
    BY <1>3, <1>4, <1>5, <1>6, <1>10, <2>1 DEF PassStep, PassFault
<1>11. ASSUME NEW n \in Nodes, \/ Traffic(n) \/ CoreRestarts(n)
                               \/ \E e \in Twins : TwinTraffic(n, e)
       PROVE  Typed'
  <2> HIDE DEF Typed
  <2>1. row.name \in Names
    BY DEF QuotaTypes, UserOK, Row
  <2>2. QED
    BY <1>2, <1>11, <2>1
<1>12. ASSUME NEW c \in Requests, CancelRequest(c) PROVE Typed'
  BY <1>7, <1>12 DEF CancelRequest, Collectors
<1>13. ASSUME Crash PROVE Typed'
  BY <1>7, <1>13 DEF Crash
<1> HIDE DEF Typed
<1>14. QED
  BY <1>1, <1>8, <1>9, <1>10, <1>11, <1>12, <1>13 DEF Next

(* No name that the user has had is forgotten. *)
LEMMA NamesGrow ==
    ASSUME QuotaTypes, [Next]_vars
    PROVE  names \subseteq names' /\ names' \subseteq Names
<1>1. UNCHANGED names \/ \E a \in Admins : \E r, out : UpdateWrites(a, r, out)
  BY DEF Next, vars, Traffic, TwinTraffic, CoreRestarts, StartPass, PassStep, PassFault,
         Visit, Fetch, FetchSilent, FetchFails, Sample, Add, CheckQuota, CutOff, EndPass,
         Notified, CancelRequest, Crash, Abandon, UpdateReads, Update, ResetTraffic
<1>2. QED
  BY <1>1, ValuesStep DEF UpdateWrites

(* Where a name is, it is one that the user has had; or a user who has it. *)
LEMMA NamesStep ==
    ASSUME QuotaTypes, [Next]_vars
    PROVE  NamesOK'
<1>1. names \subseteq names' /\ names' \subseteq Names
  BY NamesGrow
<1>2. row'.name \in names'
  <2>1. UNCHANGED row \/ row'.name = row.name \/ \E a \in Admins : \E r, out : UpdateWrites(a, r, out)
    <3>1. ASSUME NEW c, NEW ok, CutOff(c, ok) PROVE row'.name = row.name
      BY <3>1 DEF CutOff, QuotaTypes, UserOK, Row
    <3>2. QED
      BY <3>1
      DEF Next, vars, user, Traffic, TwinTraffic, CoreRestarts, StartPass, PassStep, PassFault,
           Visit, Fetch, FetchSilent, FetchFails, Sample, Add, CheckQuota, EndPass,
           Notified, CancelRequest, Crash, Abandon, UpdateReads, Update, ResetTraffic
  <2>2. QED
    BY <1>1, <2>1 DEF UpdateWrites, QuotaTypes, NamesOK
<1>3. \A n \in Nodes : email'[n] \in names'
  <2>1. UNCHANGED email \/ \E n \in Nodes : CoreRestarts(n)
    BY DEF Next, vars, core, Traffic, TwinTraffic, StartPass, PassStep, PassFault,
           Visit, Fetch, FetchSilent, FetchFails, Sample, Add, CheckQuota, CutOff, EndPass,
           Notified, CancelRequest, Crash, Abandon, UpdateReads, Update, UpdateWrites,
           ResetTraffic
  <2>2. QED
    BY <1>1, <2>1 DEF CoreRestarts, QuotaTypes, PassOK, NamesOK
<1>4. \A c \in Collectors : listed'[c] \in names' \cup {NoName}
  <2>1. \/ UNCHANGED listed
        \/ \E c \in Collectors, e \in names \cup {NoName} : listed' = [listed EXCEPT ![c] = e]
        \/ \E C : listed' = [c \in Collectors |-> IF c \in C THEN NoName ELSE listed[c]]
    <3>1. ASSUME NEW c \in Collectors, NEW n \in Nodes, NEW ok \in BOOLEAN, Visit(c, n, ok)
          PROVE  \E e \in names \cup {NoName} : listed' = [listed EXCEPT ![c] = e]
      BY <3>1 DEF Visit, QuotaTypes, NamesOK
    <3>2. ASSUME NEW c \in Collectors, Fetch(c) \/ FetchSilent(c) \/ FetchFails(c)
          PROVE  listed' = [listed EXCEPT ![c] = NoName]
      BY <3>2 DEF Fetch, FetchSilent, FetchFails
    <3>3. ASSUME NEW C, Abandon(C)
          PROVE  listed' = [c \in Collectors |-> IF c \in C THEN NoName ELSE listed[c]]
      BY <3>3 DEF Abandon
    <3>4. QED
      BY <3>1, <3>2, <3>3
      DEF Next, vars, pass, Traffic, TwinTraffic, CoreRestarts, StartPass, PassStep, PassFault,
           Sample, Add, CheckQuota, CutOff, EndPass, Notified, CancelRequest, Crash,
           UpdateReads, Update, UpdateWrites, ResetTraffic, Collectors
  <2>2. QED
    BY <1>1, <2>1 DEF QuotaTypes, PassOK, NamesOK
<1>5. \A a \in Admins : copy'[a] # NoRow => copy'[a].name \in names'
  <2>1. \/ UNCHANGED copy
        \/ \E a \in Admins, r \in {row, NoRow} : copy' = [copy EXCEPT ![a] = r]
        \/ copy' = [a \in Admins |-> NoRow]
    BY DEF Next, vars, Traffic, TwinTraffic, CoreRestarts, StartPass, PassStep, PassFault,
           Visit, Fetch, FetchSilent, FetchFails, Sample, Add, CheckQuota, CutOff, EndPass,
           Notified, CancelRequest, Crash, UpdateReads, Update, UpdateWrites, ResetTraffic
  <2>2. QED
    BY <1>1, <2>1 DEF QuotaTypes, EditsOK, NamesOK
<1>6. /\ \A k \in Nodes \X Names : own'[k] > 0 => k[2] \in names'
      /\ \A k \in Nodes \X Names : foreign'[k] > 0 => k[2] \in Twins
  <2>1. /\ own \in Counters /\ foreign \in Counters
        /\ \A k \in Nodes \X Names : own[k] > 0 => k[2] \in names
        /\ \A k \in Nodes \X Names : foreign[k] > 0 => k[2] \in Twins
    BY DEF QuotaTypes, PassOK, NamesOK, Counters
  <2>2. CASE UNCHANGED <<own, foreign>>
    BY <1>1, <2>1, <2>2
  <2>3. ASSUME NEW n \in Nodes, Traffic(n)
        PROVE  /\ \A k \in Nodes \X Names : own'[k] > 0 => k[2] \in names
               /\ foreign' = foreign
    <3>1. email[n] \in names /\ email[n] \in Names
      BY DEF QuotaTypes, NamesOK
    <3>2. \A k \in (Nodes \X Names) \ {<<n, email[n]>>} : own'[k] = own[k]
      BY <2>1, <2>3, <3>1, CountedOnce DEF Traffic
    <3>3. QED
      BY <2>1, <2>3, <3>1, <3>2 DEF Traffic
  <2>4. ASSUME NEW n \in Nodes, NEW e \in Twins, TwinTraffic(n, e)
        PROVE  /\ \A k \in Nodes \X Names : foreign'[k] > 0 => k[2] \in Twins
               /\ own' = own
    <3>1. e \in Names
      BY TrafficQuotaAssumption
    <3>2. \A k \in (Nodes \X Names) \ {<<n, e>>} : foreign'[k] = foreign[k]
      BY <2>1, <2>4, <3>1, CountedOnce DEF TwinTraffic
    <3>3. QED
      BY <2>1, <2>4, <3>1, <3>2 DEF TwinTraffic
  <2>5. ASSUME NEW n \in Nodes, own' = Zeroed(own, n), foreign' = Zeroed(foreign, n)
        PROVE  /\ \A k \in Nodes \X Names : own'[k] > 0 => k[2] \in names
               /\ \A k \in Nodes \X Names : foreign'[k] > 0 => k[2] \in Twins
    <3>1. \A k \in Nodes \X Names : /\ own'[k] = IF k[1] = n THEN 0 ELSE own[k]
                                    /\ foreign'[k] = IF k[1] = n THEN 0 ELSE foreign[k]
      BY <2>1, <2>5, ZeroedCounters
    <3>2. QED
      BY <2>1, <3>1
  <2>6. \/ UNCHANGED <<own, foreign>>
        \/ \E n \in Nodes : Traffic(n)
        \/ \E n \in Nodes, e \in Twins : TwinTraffic(n, e)
        \/ \E n \in Nodes : own' = Zeroed(own, n) /\ foreign' = Zeroed(foreign, n)
    <3>1. ASSUME NEW c \in Collectors, Fetch(c) \/ FetchFails(c)
          PROVE  \/ UNCHANGED <<own, foreign>>
                 \/ \E n \in Nodes : own' = Zeroed(own, n) /\ foreign' = Zeroed(foreign, n)
      BY <3>1 DEF Fetch, FetchFails, QuotaTypes, PassOK
    <3>2. ASSUME NEW n \in Nodes, CoreRestarts(n)
          PROVE  own' = Zeroed(own, n) /\ foreign' = Zeroed(foreign, n)
      BY <3>2 DEF CoreRestarts
    <3>3. QED
      BY <3>1, <3>2
      DEF Next, vars, core, StartPass, PassStep, PassFault, Visit, FetchSilent, Sample, Add,
          CheckQuota, CutOff, EndPass, Notified, CancelRequest, Crash, Abandon, UpdateReads,
          Update, UpdateWrites, ResetTraffic, Collectors
  <2>7. QED
    BY <1>1, <2>1, <2>2, <2>3, <2>4, <2>5, <2>6
<1>7. QED
  BY <1>1, <1>2, <1>3, <1>4, <1>5, <1>6 DEF NamesOK

(* No step of Next leaves the types. *)
LEMMA QuotaTypesStep == QuotaTypes /\ [Next]_vars => QuotaTypes'
  BY ValuesStep, NamesStep DEF QuotaTypes

(* Every step keeps a user over quota decided on, or excuses it. *)
LEMMA QuotaStep == QInv /\ [Next]_vars => QInv'
<1> SUFFICES ASSUME QInv, [Next]_vars, QuotaTypes', (row.enabled /\ Over)', ~excused'
             PROVE  \E c \in Collectors : stage'[c] \in {"check", "cut"}
  BY QuotaTypesStep DEF QInv, OverQuotaIsCut
<1>1. stage \in [Collectors -> Stages] /\ row \in Row
  BY DEF QInv, QuotaTypes, PassOK, UserOK
(* Steps that leave the row, used_bytes and the excuse alone: the pass that is
   to decide is the same before and after. *)
<1>2. ASSUME UNCHANGED <<row, used, excused>>,
             \A c \in Collectors : stage[c] \in {"check", "cut"} => stage'[c] = stage[c]
      PROVE  \E c \in Collectors : stage'[c] \in {"check", "cut"}
  BY <1>2 DEF QInv, OverQuotaIsCut, Over
<1>3. CASE UNCHANGED vars
  BY <1>2, <1>3 DEF vars, user, pass
<1>4. CASE \E n \in Nodes : \/ Traffic(n) \/ CoreRestarts(n)
                            \/ \E e \in Twins : TwinTraffic(n, e)
  BY <1>2, <1>4 DEF Traffic, TwinTraffic, CoreRestarts, user, pass
<1>5. ASSUME NEW c \in Collectors,
             \/ StartPass(c) \/ EndPass(c) \/ Notified(c)
             \/ Fetch(c) \/ FetchSilent(c) \/ FetchFails(c)
             \/ \E n \in Nodes, ok \in BOOLEAN : Visit(c, n, ok)
             \/ \E ok \in BOOLEAN : Sample(c, ok)
      PROVE  \E d \in Collectors : stage'[d] \in {"check", "cut"}
  <2>1. /\ stage[c] \in {"idle", "visit", "fetch", "sample", "before", "notify"}
        /\ \/ UNCHANGED stage
           \/ \E s \in Stages : stage' = [stage EXCEPT ![c] = s]
        /\ UNCHANGED <<row, used, excused>>
    BY <1>5 DEF StartPass, EndPass, Notified, Fetch, FetchSilent, FetchFails, Visit, Sample,
                AfterUser, Goto, Stages, user
  <2>2. QED
    BY <1>1, <1>2, <2>1
<1>6. ASSUME NEW c \in Collectors, NEW ok \in BOOLEAN, Add(c, ok)
      PROVE  \E d \in Collectors : stage'[d] \in {"check", "cut"}
  BY <1>1, <1>6 DEF Add, Goto
<1>7. ASSUME NEW c \in Collectors, NEW ok \in BOOLEAN, CheckQuota(c, ok)
      PROVE  \E d \in Collectors : stage'[d] \in {"check", "cut"}
  <2>1. ok /\ UNCHANGED <<row, used>>
    BY <1>7 DEF CheckQuota, user
  <2>2. row.enabled /\ Over
    BY <2>1 DEF Over
  <2>3. stage' = [stage EXCEPT ![c] = "cut"]
    <3>1. \E s \in {"cut"} : stage' = [stage EXCEPT ![c] = s]
      BY <1>7, <2>1, <2>2 DEF CheckQuota, Goto
    <3>2. QED
      BY <3>1
  <2>4. QED
    BY <1>1, <2>3
<1>8. ASSUME NEW c \in Collectors, NEW ok \in BOOLEAN, CutOff(c, ok)
      PROVE  FALSE
  <2>1. ok
    BY <1>8 DEF CutOff
  <2>2. row'.enabled = FALSE
    BY <1>1, <1>8, <2>1 DEF CutOff, Row
  <2>3. QED
    BY <2>2
<1>9. ASSUME NEW C \in SUBSET Collectors, Abandon(C)
      PROVE  FALSE
  BY <1>9 DEF Abandon
<1>10. ASSUME NEW a \in Admins, UpdateReads(a) \/ Update(a)
       PROVE  \E c \in Collectors : stage'[c] \in {"check", "cut"}
  <2>1. CASE UpdateReads(a)
    BY <1>2, <2>1 DEF UpdateReads, user, pass
  <2>2. CASE Update(a)
    BY <2>2 DEF Update, UpdateWrites
  <2>3. QED
    BY <1>10, <2>1, <2>2
<1>11. CASE ResetTraffic
  <2>1. row' \in Row /\ used' = 0
    BY <1>1, <1>11 DEF ResetTraffic
  <2>2. row'.quota > 0 /\ 0 >= row'.quota
    BY <2>1 DEF Over
  <2>3. row'.quota \in Nat
    BY <2>1, TrafficQuotaAssumption DEF Row
  <2>4. QED
    BY <2>2, <2>3
<1>12. QED
  BY <1>3, <1>4, <1>5, <1>6, <1>7, <1>8, <1>9, <1>10, <1>11
     DEF Next, PassStep, PassFault, CancelRequest, Crash, Collectors

(* The types and the decision hold in every reachable state. *)
THEOREM QuotaInvariant == Spec => []QInv
  BY InitQuota, QuotaStep, PTL DEF Spec

(* collect_traffic cuts off every user that its own additions put over quota:
   until it has, some pass is between add_used_bytes and set_enabled, or the
   user was edited or a pass failed since. *)
THEOREM QuotaIsEnforced == Spec => []OverQuotaIsCut
<1>1. QInv => OverQuotaIsCut
  BY DEF QInv
<1>2. QED
  BY QuotaInvariant, <1>1, PTL
-----------------------------------------------------------------------------
(* The ledgers. *)

Waiting == Total(own, Everywhere)

Holders(s) == {c \in Collectors : stage[c] \in s}

Held(s) == Total(delta, Holders(s))

Accounts ==
    /\ traffic \in Nat /\ gained \in Nat /\ strayed \in Nat /\ dropped \in Nat
    /\ uncounted \in Nat /\ unsampled \in Nat /\ forgiven \in Nat

\* The two ledgers, and why a byte is in another account than its sender's.
Balanced ==
    /\ traffic + gained = Waiting + dropped + strayed + Held({"sample", "before", "add"})
                            + uncounted + used + forgiven
    /\ traffic + gained = Waiting + dropped + strayed + Held({"sample"})
                            + unsampled + samples

Attributed ==
    /\ gained > 0 => Twins \cap names # {}
    /\ strayed > 0 => Twins \cap names # {} \/ \E d, e \in names : d # e

LEMMA Ledgers == BytesAccounted <=> Balanced /\ Attributed
  BY DEF BytesAccounted, Balanced, Attributed, Waiting, Held, Holders, Everywhere

LEMMA LedgersNext == BytesAccounted' <=> Balanced' /\ Attributed'
  BY DEF BytesAccounted, Balanced, Attributed, Waiting, Held, Holders, Everywhere

LEMMA CollectorsFinite == IsFiniteSet(Nodes) /\ IsFiniteSet(Collectors)
<1>1. IsFiniteSet({Loop} \cup Requests)
  BY TrafficQuotaAssumption, FS_Singleton, FS_Union
<1>2. QED
  BY <1>1, TrafficQuotaAssumption DEF Collectors

LEMMA HoldersFinite == \A s : IsFiniteSet(Holders(s)) /\ IsFiniteSet(Holders(s)')
<1> TAKE s
<1>1. Holders(s) \in SUBSET Collectors /\ Holders(s)' \in SUBSET Collectors
  BY DEF Holders
<1>2. QED
  BY <1>1, CollectorsFinite, FS_Subset

LEMMA SumsTyped == QuotaTypes => Waiting \in Nat /\ \A s : Held(s) \in Nat
<1> SUFFICES ASSUME QuotaTypes PROVE Waiting \in Nat /\ \A s : Held(s) \in Nat
  OBVIOUS
<1>1. Waiting \in Nat
  <2>1. \A k \in Everywhere : own[k] \in Nat
    BY DEF QuotaTypes, PassOK, Everywhere
  <2>2. QED
    BY <2>1, CountersFinite, BytesFinite DEF Waiting
<1>2. ASSUME NEW s PROVE Held(s) \in Nat
  <2>1. \A c \in Holders(s) : delta[c] \in Nat
    BY DEF Holders, QuotaTypes, PassOK
  <2>2. QED
    BY <2>1, HoldersFinite, BytesFinite DEF Held
<1>3. QED
  BY <1>1, <1>2

(* What passes hold, when nobody takes or hands on bytes ... *)
LEMMA HeldSame ==
    ASSUME NEW s,
           \A c \in Collectors : /\ stage'[c] \in s <=> stage[c] \in s
                                 /\ stage[c] \in s => delta'[c] = delta[c]
    PROVE  Held(s)' = Held(s)
<1>1. Holders(s)' = Holders(s)
  BY DEF Holders
<1>2. \A c \in Holders(s) : delta'[c] = delta[c]
  BY DEF Holders
<1>3. Total(delta', Holders(s)) = Total(delta, Holders(s))
  BY <1>2, TotalAgrees
<1>4. QED
  BY <1>1, <1>3 DEF Held

(* ... when one does ... *)
LEMMA HeldGains ==
    ASSUME NEW s, NEW c \in Collectors, QuotaTypes, delta'[c] \in Nat,
           stage[c] \notin s, stage'[c] \in s,
           \A d \in Collectors \ {c} : /\ stage'[d] \in s <=> stage[d] \in s
                                       /\ stage[d] \in s => delta'[d] = delta[d]
    PROVE  Held(s)' = Held(s) + delta'[c]
<1>1. Holders(s)' = Holders(s) \cup {c} /\ Holders(s) \cap {c} = {}
  BY DEF Holders
<1>2. \A d \in Holders(s) : delta'[d] = delta[d] /\ delta'[d] \in Nat
  BY DEF Holders, QuotaTypes, PassOK
<1>3. IsFiniteSet(Holders(s)) /\ IsFiniteSet({c})
  BY HoldersFinite, FS_Singleton
<1>4. Total(delta', Holders(s) \cup {c}) = Total(delta', Holders(s)) + Total(delta', {c})
  BY <1>1, <1>2, <1>3, TotalSplit
<1>5. Total(delta', Holders(s)) = Total(delta, Holders(s))
  BY <1>2, TotalAgrees
<1>6. Total(delta', {c}) = delta'[c]
  BY TotalOfOne
<1>7. QED
  BY <1>1, <1>4, <1>5, <1>6 DEF Held

(* ... and when some, or all of those in C, let go of them. *)
LEMMA HeldLost ==
    ASSUME NEW s, NEW C \in SUBSET Collectors, QuotaTypes,
           \A c \in C : stage'[c] \notin s,
           \A d \in Collectors \ C : /\ stage'[d] \in s <=> stage[d] \in s
                                     /\ stage[d] \in s => delta'[d] = delta[d]
    PROVE  LET lost == Total(delta, {c \in C : stage[c] \in s})
           IN  Held(s) = Held(s)' + lost /\ Held(s)' \in Nat /\ lost \in Nat
<1> DEFINE L == {c \in C : stage[c] \in s}
<1>1. /\ Holders(s) = Holders(s)' \cup L /\ Holders(s)' \cap L = {}
      /\ L \in SUBSET Collectors
  BY DEF Holders
<1>2. \A d \in Holders(s)' : delta'[d] = delta[d]
  BY DEF Holders
<1>3. \A d \in Holders(s)' \cup L : delta[d] \in Nat
  BY DEF Holders, QuotaTypes, PassOK
<1>4. IsFiniteSet(Holders(s)') /\ IsFiniteSet(L)
  BY <1>1, HoldersFinite, CollectorsFinite, FS_Subset
<1> DEFINE H == Holders(s)'
<1> HIDE DEF H, L
<1>5. Total(delta, H \cup L) = Total(delta, H) + Total(delta, L)
  BY <1>1, <1>3, <1>4, TotalSplit DEF H
<1>6. Total(delta', H) = Total(delta, H)
  BY <1>2, TotalAgrees DEF H
<1>7. Total(delta, H) \in Nat /\ Total(delta, L) \in Nat
  BY <1>3, <1>4, BytesFinite DEF H
<1>8. Held(s)' = Total(delta', H) /\ Held(s) = Total(delta, H \cup L)
  BY <1>1 DEF Held, H
<1>9. QED
  BY <1>5, <1>6, <1>7, <1>8 DEF L

Booked == QuotaTypes /\ Accounts /\ BytesAccounted

LEMMA InitBooked == Init => Booked
<1> SUFFICES ASSUME Init PROVE Booked
  OBVIOUS
<1>1. QuotaTypes /\ Accounts
  BY InitQuota DEF QInv, Init, Accounts
<1>2. Waiting = 0
  <2>1. \A k \in Everywhere : own[k] = 0
    BY DEF Init, Everywhere
  <2>2. QED
    BY <2>1, CountersFinite, TotalOfZeros DEF Waiting
<1>3. Held({"sample", "before", "add"}) = 0 /\ Held({"sample"}) = 0
  <2>1. Holders({"sample", "before", "add"}) = {} /\ Holders({"sample"}) = {}
    BY DEF Init, Holders
  <2>2. QED
    BY <2>1, TotalOfNone DEF Held
<1>4. BytesAccounted
  BY <1>2, <1>3, Ledgers DEF Init, Balanced, Attributed
<1>5. QED
  BY <1>1, <1>4 DEF Booked

(* The numbers that the ledgers relate. *)
LEMMA Numbers ==
    ASSUME Booked
    PROVE  /\ traffic \in Nat /\ gained \in Nat /\ strayed \in Nat /\ dropped \in Nat
           /\ uncounted \in Nat /\ unsampled \in Nat /\ forgiven \in Nat
           /\ used \in Nat /\ samples \in Nat
           /\ Waiting \in Nat /\ Held({"sample", "before", "add"}) \in Nat
           /\ Held({"sample"}) \in Nat
           /\ \A c \in Collectors : delta[c] \in Nat
           /\ own \in Counters /\ foreign \in Counters /\ delta \in [Collectors -> Nat]
           /\ stage \in [Collectors -> Stages]
           /\ Balanced
<1>1. Booked
  OBVIOUS
<1>2. Waiting \in Nat /\ Held({"sample", "before", "add"}) \in Nat /\ Held({"sample"}) \in Nat
  BY <1>1, SumsTyped DEF Booked
<1>3. Balanced
  BY <1>1, Ledgers DEF Booked
<1>4. QED
  BY <1>1, <1>2, <1>3 DEF Booked, Accounts, QuotaTypes, UserOK, PassOK, Counters

(* No bytes move: passes go on among the stages that hold none. *)
LEMMA NoBytesMove ==
    ASSUME Booked, UNCHANGED <<own, used, samples, books>>,
           \A c \in Collectors :
               \/ stage'[c] = stage[c] /\ delta'[c] = delta[c]
               \/ stage[c] \notin {"sample", "before", "add"} /\ stage'[c] \notin {"sample", "before", "add"}
    PROVE  Accounts' /\ Balanced'
<1>1. Held({"sample", "before", "add"})' = Held({"sample", "before", "add"})
  BY HeldSame
<1>2. Held({"sample"})' = Held({"sample"})
  BY HeldSame
<1>3. Waiting' = Waiting
  BY DEF Waiting, Everywhere
<1>4. QED
  BY <1>1, <1>2, <1>3, Numbers DEF books, heard, gone, Accounts, Balanced

(* Bytes come to a node ... *)
LEMMA WaitingGrows ==
    ASSUME Booked, NEW n \in Nodes, NEW e \in Names,
           own' = [own EXCEPT ![<<n, e>>] = @ + 1]
    PROVE  Waiting' = Waiting + 1
<1> DEFINE k == <<n, e>>
<1>1. /\ own \in Counters /\ own' \in Counters /\ k \in Everywhere
      /\ own'[k] = own[k] + 1 /\ \A i \in Everywhere \ {k} : own'[i] = own[i]
  <2>1. own \in Counters
    BY Numbers
  <2>2. /\ [own EXCEPT ![<<n, e>>] = @ + 1] \in Counters
        /\ [own EXCEPT ![<<n, e>>] = @ + 1][<<n, e>>] = own[<<n, e>>] + 1
        /\ <<n, e>> \in Nodes \X Names
        /\ \A i \in (Nodes \X Names) \ {<<n, e>>} :
               [own EXCEPT ![<<n, e>>] = @ + 1][i] = own[i]
    BY <2>1 DEF Counters
  <2>3. QED
    BY <2>1, <2>2 DEF Everywhere
<1> HIDE DEF k
<1>2. \A i \in Everywhere : own[i] \in Nat /\ own'[i] \in Nat
  BY <1>1 DEF Counters, Everywhere
<1>3. /\ Total(own', Everywhere) = Total(own, Everywhere) - own[k] + own'[k]
      /\ Total(own, Everywhere) \in Nat
  <2>1. IsFiniteSet(Everywhere)
    BY CountersFinite
  <2>2. k \in Everywhere /\ \A i \in Everywhere \ {k} : own'[i] = own[i]
    BY <1>1
  <2> DEFINE S == Everywhere
             g == own'
  <2>3. IsFiniteSet(S) /\ k \in S /\ \A i \in S \ {k} : g[i] = own[i]
    BY <2>1, <2>2
  <2>4. \A i \in S : own[i] \in Nat /\ g[i] \in Nat
    BY <1>2
  <2> HIDE DEF S, g
  <2>5. Total(g, S) = Total(own, S) - own[k] + g[k] /\ Total(own, S) \in Nat
    BY <2>3, <2>4, TotalExcept
  <2>6. QED
    BY <2>5 DEF S, g
<1>4. own[k] \in Nat
  BY <1>1, <1>2
<1>5. QED
  BY <1>1, <1>3, <1>4 DEF Waiting, Everywhere

(* ... and are zeroed there, under some names and the others. *)
LEMMA ZeroedSum ==
    ASSUME NEW f \in Counters, NEW g, NEW n \in Nodes, g = Zeroed(f, n)
    PROVE  /\ Total(f, Everywhere) = Total(g, Everywhere) + Total(f, Named(n, Names))
           /\ Total(g, Everywhere) \in Nat /\ Total(f, Named(n, Names)) \in Nat
<1> DEFINE A == Named(n, Names)
           B == Everywhere \ A
<1>1. /\ IsFiniteSet(A) /\ IsFiniteSet(B) /\ A \cap B = {} /\ Everywhere = A \cup B
  <2>1. IsFiniteSet(Everywhere) /\ IsFiniteSet(A) /\ A \subseteq Everywhere
    BY CountersFinite
  <2>2. B \in SUBSET Everywhere
    OBVIOUS
  <2>3. IsFiniteSet(B)
    BY <2>1, <2>2, FS_Subset
  <2>4. QED
    BY <2>1, <2>3
<1>2. /\ \A k \in A : g[k] = 0
      /\ \A k \in B : g[k] = f[k]
      /\ \A k \in A \cup B : f[k] \in Nat /\ g[k] \in Nat
  <2>1. \A k \in Everywhere : g[k] = IF k[1] = n THEN 0 ELSE f[k]
    BY ZeroedCounters DEF Everywhere
  <2>2. \A k \in Everywhere : f[k] \in Nat
    BY DEF Counters, Everywhere
  <2>3. \A k \in Everywhere : k \in A <=> k[1] = n
    BY DEF Named, Everywhere
  <2>4. A \subseteq Everywhere
    BY CountersFinite
  <2> HIDE DEF A
  <2>5. \A k \in A : g[k] = 0
    BY <2>1, <2>3, <2>4
  <2>6. \A k \in B : g[k] = f[k]
    BY <2>1, <2>3
  <2>7. \A k \in A \cup B : f[k] \in Nat /\ g[k] \in Nat
    BY <2>1, <2>2, <2>4
  <2>8. QED
    BY <2>5, <2>6, <2>7
<1> HIDE DEF A, B
<1>3. Total(f, A \cup B) = Total(f, A) + Total(f, B)
  BY <1>1, <1>2, TotalSplit
<1>4. Total(g, A \cup B) = Total(g, A) + Total(g, B)
  BY <1>1, <1>2, TotalSplit
<1>5. Total(g, A) = 0
  BY <1>1, <1>2, TotalOfZeros
<1>6. Total(g, B) = Total(f, B)
  BY <1>2, TotalAgrees
<1>7. Total(f, A) \in Nat /\ Total(f, B) \in Nat
  <2>1. (\A k \in A : f[k] \in Nat) /\ \A k \in B : f[k] \in Nat
    BY <1>2
  <2>2. QED
    BY <1>1, <2>1, BytesFinite
<1>8. QED
  BY <1>1, <1>3, <1>4, <1>5, <1>6, <1>7 DEF A

LEMMA NamedSplit ==
    ASSUME NEW f \in Counters, NEW n \in Nodes, NEW N \in SUBSET Names
    PROVE  Total(f, Named(n, Names)) = Total(f, Named(n, N)) + Total(f, Named(n, Names \ N))
<1> DEFINE A == Named(n, N)
           B == Named(n, Names \ N)
<1>1. IsFiniteSet(A) /\ IsFiniteSet(B)
  BY CountersFinite
<1>2. A \cap B = {} /\ Named(n, Names) = A \cup B
  BY DEF Named
<1>3. \A k \in A \cup B : f[k] \in Nat
  BY DEF Named, Counters
<1> HIDE DEF A, B
<1>4. Total(f, A \cup B) = Total(f, A) + Total(f, B)
  BY <1>1, <1>2, <1>3, TotalSplit
<1>5. QED
  BY <1>2, <1>4 DEF A, B

LEMMA TrafficBooked ==
    ASSUME Booked, NEW n \in Nodes,
           \/ Traffic(n) \/ CoreRestarts(n) \/ \E e \in Twins : TwinTraffic(n, e)
    PROVE  Accounts' /\ Balanced'
<1>1. UNCHANGED <<used, samples, gained, strayed, uncounted, unsampled, forgiven, stage,
                  delta>>
  BY DEF Traffic, TwinTraffic, CoreRestarts, user, pass, books, heard, gone
<1>2. \/ Waiting' = Waiting + 1 /\ traffic' = traffic + 1 /\ dropped' = dropped
      \/ Waiting' = Waiting /\ traffic' = traffic /\ dropped' = dropped
      \/ \E d \in Nat : /\ Waiting = Waiting' + d /\ Waiting' \in Nat
                         /\ traffic' = traffic /\ dropped' = dropped + d
  <2>1. CASE Traffic(n)
    <3>1. email[n] \in Names
      BY DEF Booked, QuotaTypes, PassOK
    <3>2. Waiting' = Waiting + 1
      BY <2>1, <3>1, WaitingGrows DEF Traffic
    <3>3. QED
      BY <2>1, <3>2 DEF Traffic
  <2>2. CASE \E e \in Twins : TwinTraffic(n, e)
    BY <2>2 DEF TwinTraffic, books, Waiting, Everywhere
  <2>3. CASE CoreRestarts(n)
    <3> DEFINE d == Total(own, Named(n, Names))
    <3>1. own' = Zeroed(own, n) /\ dropped' = dropped + d /\ traffic' = traffic
      BY <2>3 DEF CoreRestarts
    <3>2. own \in Counters
      BY Numbers
    <3>3. /\ Total(own, Everywhere) = Total(own', Everywhere) + d
          /\ Total(own', Everywhere) \in Nat /\ d \in Nat
      BY <3>1, <3>2, ZeroedSum
    <3>4. Waiting' = Total(own', Everywhere) /\ Waiting = Total(own, Everywhere)
      BY DEF Waiting, Everywhere
    <3> HIDE DEF d
    <3>5. QED
      BY <3>1, <3>3, <3>4
  <2>4. QED
    BY <2>1, <2>2, <2>3
<1>3. /\ Held({"sample", "before", "add"})' = Held({"sample", "before", "add"})
      /\ Held({"sample"})' = Held({"sample"})
  BY <1>1, HeldSame
<1>4. QED
  BY <1>1, <1>2, <1>3, Numbers DEF Accounts, Balanced

LEMMA FetchBooked ==
    ASSUME Booked, NEW c \in Collectors, Fetch(c)
    PROVE  Accounts' /\ Balanced'
<1> DEFINE n == at[c]
           S2 == {"sample", "before", "add"}
           S1 == {"sample"}
<1>1. /\ stage[c] = "fetch" /\ n \in Nodes /\ own' = Zeroed(own, n)
      /\ UNCHANGED <<used, samples, traffic, uncounted, unsampled, forgiven>>
  BY DEF Fetch, Booked, QuotaTypes, PassOK, user, gone
<1>2. own \in Counters /\ stage \in [Collectors -> Stages] /\ delta \in [Collectors -> Nat]
  BY Numbers
<1>3. PICK claimed \in SUBSET Names, ours \in Nat, theirs \in Nat, rest \in Nat :
          Fetched(c, claimed, ours, theirs, rest)
  BY FetchIs DEF Booked
<1>4. Waiting = Waiting' + (ours + rest) /\ Waiting' \in Nat
  <2>1. /\ Total(own, Everywhere) = Total(own', Everywhere) + Total(own, Named(n, Names))
        /\ Total(own', Everywhere) \in Nat
    BY <1>1, <1>2, ZeroedSum
  <2>2. Total(own, Named(n, Names)) = ours + rest
    BY <1>1, <1>2, <1>3, NamedSplit DEF Fetched
  <2>3. QED
    BY <2>1, <2>2 DEF Waiting, Everywhere
<1>5. PICK s \in {"sample", "visit", "notify"} :
          stage' = [stage EXCEPT ![c] = s] /\ (s = "sample" <=> ours + theirs > 0)
  BY <1>3 DEF Fetched
<1>6. /\ delta'[c] = ours + theirs /\ stage'[c] = s /\ ours + theirs \in Nat
      /\ \A d \in Collectors \ {c} : stage'[d] = stage[d] /\ delta'[d] = delta[d]
  BY <1>2, <1>3, <1>5 DEF Fetched
<1>7. /\ Held(S2)' = Held(S2) + (ours + theirs)
      /\ Held(S1)' = Held(S1) + (ours + theirs)
  <2>1. CASE s = "sample"
    <3>1. Held(S2)' = Held(S2) + delta'[c]
      BY <1>1, <1>6, <2>1, HeldGains DEF Booked
    <3>2. Held(S1)' = Held(S1) + delta'[c]
      BY <1>1, <1>6, <2>1, HeldGains DEF Booked
    <3>3. QED
      BY <1>6, <3>1, <3>2
  <2>2. CASE s # "sample"
    <3>1. ours + theirs = 0
      BY <1>5, <2>2
    <3>2. Held(S2)' = Held(S2)
      BY <1>1, <1>6, <2>2, HeldSame
    <3>3. Held(S1)' = Held(S1)
      BY <1>1, <1>6, <2>2, HeldSame
    <3>4. Held(S2) \in Nat /\ Held(S1) \in Nat
      BY Numbers
    <3> HIDE DEF S1, S2
    <3>5. QED
      BY <3>1, <3>2, <3>3, <3>4
  <2>3. QED
    BY <2>1, <2>2
<1>8. /\ gained' = gained + theirs
      /\ \/ dropped' = dropped + rest /\ strayed' = strayed
         \/ strayed' = strayed + rest /\ dropped' = dropped
  BY <1>3 DEF Fetched
<1>9. QED
  BY <1>1, <1>4, <1>7, <1>8, Numbers DEF Accounts, Balanced

LEMMA FetchFailsBooked ==
    ASSUME Booked, NEW c \in Collectors, FetchFails(c)
    PROVE  Accounts' /\ Balanced'
<1> DEFINE n == at[c]
           lost == Total(own, Named(n, Names))
<1>1. /\ stage[c] = "fetch" /\ n \in Nodes
      /\ stage' = [stage EXCEPT ![c] = "visit"] /\ delta' = delta
      /\ UNCHANGED <<used, samples, traffic, gained, strayed, uncounted, unsampled, forgiven>>
      /\ \/ own' = own /\ dropped' = dropped
         \/ own' = Zeroed(own, n) /\ dropped' = dropped + lost
  BY DEF FetchFails, Booked, QuotaTypes, PassOK, user, heard, gone, Goto
<1>2. own \in Counters /\ stage \in [Collectors -> Stages]
  BY Numbers
<1>3. \/ Waiting' = Waiting /\ dropped' = dropped
      \/ Waiting = Waiting' + lost /\ Waiting' \in Nat /\ lost \in Nat
         /\ dropped' = dropped + lost
  <2>1. CASE own' = own /\ dropped' = dropped
    BY <2>1 DEF Waiting, Everywhere
  <2>2. CASE own' = Zeroed(own, n) /\ dropped' = dropped + lost
    <3>1. /\ Total(own, Everywhere) = Total(own', Everywhere) + lost
          /\ Total(own', Everywhere) \in Nat /\ lost \in Nat
      BY <1>1, <1>2, <2>2, ZeroedSum
    <3>2. Waiting' = Total(own', Everywhere) /\ Waiting = Total(own, Everywhere)
      BY DEF Waiting, Everywhere
    <3> HIDE DEF lost
    <3>3. QED
      BY <2>2, <3>1, <3>2
  <2>3. QED
    BY <1>1, <2>1, <2>2
<1>4. /\ stage'[c] = "visit"
      /\ \A d \in Collectors \ {c} : stage'[d] = stage[d]
  BY <1>1, <1>2
<1>5. /\ Held({"sample", "before", "add"})' = Held({"sample", "before", "add"})
      /\ Held({"sample"})' = Held({"sample"})
  BY <1>1, <1>4, HeldSame
<1> HIDE DEF lost, n
<1>6. QED
  BY <1>1, <1>3, <1>5, Numbers DEF Accounts, Balanced

(* One collector hands on, or loses, what it holds. *)
LEMMA OneLets ==
    ASSUME Booked, NEW c \in Collectors, NEW s, stage[c] \in s, stage'[c] \notin s,
           \A d \in Collectors \ {c} : stage'[d] = stage[d] /\ delta'[d] = delta[d]
    PROVE  Held(s) = Held(s)' + delta[c] /\ Held(s)' \in Nat
<1>1. {d \in {c} : stage[d] \in s} = {c}
  OBVIOUS
<1>2. delta[c] \in Nat
  BY Numbers
<1>3. Total(delta, {c}) = delta[c]
  BY <1>2, TotalOfOne
<1> DEFINE lost == Total(delta, {d \in {c} : stage[d] \in s})
<1>4. Held(s) = Held(s)' + lost /\ Held(s)' \in Nat
  BY HeldLost DEF Booked
<1>5. lost = delta[c]
  BY <1>1, <1>3
<1>6. QED
  BY <1>4, <1>5

LEMMA SampleBooked ==
    ASSUME Booked, NEW c \in Collectors, NEW ok \in BOOLEAN, Sample(c, ok)
    PROVE  Accounts' /\ Balanced'
<1>1. /\ stage[c] = "sample" /\ \E s \in {"before", "add"} : stage' = [stage EXCEPT ![c] = s]
      /\ UNCHANGED <<used, own, delta, traffic, dropped, gained, strayed, uncounted, forgiven>>
      /\ \/ samples' = samples + delta[c] /\ unsampled' = unsampled
         \/ unsampled' = unsampled + delta[c] /\ samples' = samples
  BY DEF Sample, Goto, core, heard
<1>2. stage \in [Collectors -> Stages] /\ delta[c] \in Nat
  BY Numbers
<1>3. /\ stage'[c] \in {"before", "add"}
      /\ \A d \in Collectors \ {c} : stage'[d] = stage[d] /\ delta'[d] = delta[d]
  BY <1>1, <1>2
<1>4. Held({"sample", "before", "add"})' = Held({"sample", "before", "add"})
  BY <1>1, <1>3, HeldSame
<1>5. Held({"sample"}) = Held({"sample"})' + delta[c] /\ Held({"sample"})' \in Nat
  BY <1>1, <1>3, OneLets
<1>6. Waiting' = Waiting
  BY <1>1 DEF Waiting, Everywhere
<1>7. QED
  BY <1>1, <1>2, <1>4, <1>5, <1>6, Numbers DEF Accounts, Balanced

LEMMA AddBooked ==
    ASSUME Booked, NEW c \in Collectors, NEW ok \in BOOLEAN, Add(c, ok)
    PROVE  Accounts' /\ Balanced'
<1>1. /\ stage[c] = "add" /\ stage' = [stage EXCEPT ![c] = "check"]
      /\ delta' = [delta EXCEPT ![c] = 0]
      /\ UNCHANGED <<samples, own, traffic, dropped, gained, strayed, unsampled, forgiven>>
      /\ \/ used' = used + delta[c] /\ uncounted' = uncounted
         \/ uncounted' = uncounted + delta[c] /\ used' = used
  BY DEF Add, Goto, core, heard
<1>2. /\ stage \in [Collectors -> Stages] /\ delta \in [Collectors -> Nat]
      /\ delta[c] \in Nat
  BY Numbers
<1>3. /\ stage'[c] = "check"
      /\ \A d \in Collectors \ {c} : stage'[d] = stage[d] /\ delta'[d] = delta[d]
  BY <1>1, <1>2
<1>4. Held({"sample"})' = Held({"sample"})
  BY <1>1, <1>3, HeldSame
<1>5. /\ Held({"sample", "before", "add"}) = Held({"sample", "before", "add"})' + delta[c]
      /\ Held({"sample", "before", "add"})' \in Nat
  BY <1>1, <1>3, OneLets
<1>6. Waiting' = Waiting
  BY <1>1 DEF Waiting, Everywhere
<1>7. QED
  BY <1>1, <1>2, <1>4, <1>5, <1>6, Numbers DEF Accounts, Balanced

(* What abandoned passes held is what the history says was lost. *)
LEMMA AbandonBooked ==
    ASSUME Booked, NEW C \in SUBSET Collectors, Abandon(C)
    PROVE  Accounts' /\ Balanced'
<1> DEFINE lost(s) == Total(delta, {c \in C : stage[c] \in s})
<1>1. /\ stage' = [c \in Collectors |-> IF c \in C THEN "idle" ELSE stage[c]]
      /\ delta' = [c \in Collectors |-> IF c \in C THEN 0 ELSE delta[c]]
      /\ UNCHANGED <<used, samples, own, traffic, dropped, gained, strayed, forgiven>>
      /\ unsampled' = unsampled + lost({"sample"})
      /\ uncounted' = uncounted + lost({"sample", "before", "add"})
  BY DEF Abandon, user, core, heard
<1>2. /\ \A c \in C : stage'[c] = "idle"
      /\ \A d \in Collectors \ C : stage'[d] = stage[d] /\ delta'[d] = delta[d]
  BY <1>1
<1>3. /\ Held({"sample", "before", "add"}) = Held({"sample", "before", "add"})' + lost({"sample", "before", "add"})
      /\ Held({"sample", "before", "add"})' \in Nat /\ lost({"sample", "before", "add"}) \in Nat
  BY <1>2, HeldLost DEF Booked
<1>4. /\ Held({"sample"}) = Held({"sample"})' + lost({"sample"})
      /\ Held({"sample"})' \in Nat /\ lost({"sample"}) \in Nat
  BY <1>2, HeldLost DEF Booked
<1>5. Waiting' = Waiting
  BY <1>1 DEF Waiting, Everywhere
<1> HIDE DEF lost
<1>6. QED
  BY <1>1, <1>3, <1>4, <1>5, Numbers DEF Accounts, Balanced

(* A byte goes to another account by its name only. *)
LEMMA AttributedStep ==
    ASSUME Booked, [Next]_vars
    PROVE  Attributed'
<1>1. names \subseteq names' /\ Attributed
  BY NamesGrow, Ledgers DEF Booked
<1>2. CASE UNCHANGED heard
  BY <1>1, <1>2 DEF heard, Attributed
<1>3. ASSUME NEW c \in Collectors, Fetch(c) PROVE Attributed'
  <2> DEFINE e == listed[c]
             n == at[c]
  <2>1. PICK claimed \in SUBSET Names, ours \in Nat, theirs \in Nat, rest \in Nat :
            Fetched(c, claimed, ours, theirs, rest)
    BY <1>3, FetchIs DEF Booked
  <2>2. /\ n \in Nodes /\ own \in Counters /\ foreign \in Counters
        /\ e \in names \cup {NoName} /\ names \subseteq Names
        /\ \A k \in Nodes \X Names : own[k] > 0 => k[2] \in names
        /\ \A k \in Nodes \X Names : foreign[k] > 0 => k[2] \in Twins
    BY <1>3 DEF Fetch, Booked, QuotaTypes, PassOK, NamesOK, Counters
  <2>3. /\ claimed \subseteq {e} /\ NoName \notin Names
        /\ e # NoName /\ e \notin Twins => claimed = {e}
    BY <2>1, <2>2, ClaimsAre, TrafficQuotaAssumption DEF Fetched
  <2>4. /\ IsFiniteSet(Named(n, claimed)) /\ Named(n, claimed) \subseteq Everywhere
        /\ IsFiniteSet(Named(n, Names \ claimed))
        /\ Named(n, Names \ claimed) \subseteq Everywhere
    BY <2>2, CountersFinite
  <2>5. theirs > 0 => Twins \cap names # {}
    <3> SUFFICES ASSUME Twins \cap names = {} PROVE theirs = 0
      OBVIOUS
    <3>1. \A k \in Named(n, claimed) : k[2] \in names
      BY <2>2, <2>3 DEF Named
    <3>2. \A k \in Named(n, claimed) : foreign[k] = 0
      BY <2>2, <2>4, <3>1 DEF Counters, Everywhere
    <3>3. QED
      BY <2>1, <2>4, <3>2, TotalOfZeros DEF Fetched
  <2>6. rest > 0 /\ e # NoName => Twins \cap names # {} \/ \E d, f \in names : d # f
    <3> SUFFICES ASSUME e # NoName, Twins \cap names = {}, \A d, f \in names : d = f
                 PROVE  rest = 0
      OBVIOUS
    <3>1. claimed = {e} /\ e \in names
      BY <2>2, <2>3
    <3>2. \A k \in Named(n, Names \ claimed) : k[2] \notin names
      BY <3>1 DEF Named
    <3>3. \A k \in Named(n, Names \ claimed) : own[k] = 0
      <4> SUFFICES ASSUME NEW k \in Named(n, Names \ claimed) PROVE own[k] = 0
        OBVIOUS
      <4>1. k \in Nodes \X Names /\ k[2] \notin names
        BY <2>4, <3>2 DEF Everywhere
      <4>2. own[k] \in Nat /\ ~(own[k] > 0)
        BY <2>2, <4>1 DEF Counters
      <4>3. QED
        BY <4>2
    <3>4. QED
      BY <2>1, <2>4, <3>3, TotalOfZeros DEF Fetched
  <2>7. /\ gained' = gained + theirs
        /\ strayed' = strayed \/ (e # NoName /\ strayed' = strayed + rest)
        /\ names' = names /\ gained \in Nat /\ strayed \in Nat
    BY <1>3, <2>1, Numbers DEF Fetched, Fetch
  <2> HIDE DEF e, n
  <2>8. QED
    BY <1>1, <2>5, <2>6, <2>7 DEF Attributed
<1>4. UNCHANGED heard \/ \E c \in Collectors : Fetch(c)
  BY DEF Next, vars, books, Traffic, TwinTraffic, CoreRestarts, StartPass, PassStep,
         PassFault, Visit, FetchSilent, FetchFails, Sample, Add, CheckQuota, CutOff, EndPass,
         Notified, CancelRequest, Crash, Abandon, UpdateReads, Update, UpdateWrites,
         ResetTraffic
<1>5. QED
  BY <1>2, <1>3, <1>4

LEMMA BookedStep == Booked /\ [Next]_vars => Booked'
<1> SUFFICES ASSUME Booked, [Next]_vars PROVE Accounts' /\ Balanced'
  BY QuotaTypesStep, AttributedStep, LedgersNext DEF Booked
<1>1. CASE UNCHANGED vars
  BY <1>1, NoBytesMove DEF vars, user, core, pass
<1>2. ASSUME NEW n \in Nodes, \/ Traffic(n) \/ CoreRestarts(n)
                              \/ \E e \in Twins : TwinTraffic(n, e)
      PROVE  Accounts' /\ Balanced'
  BY <1>2, TrafficBooked
<1>3. ASSUME NEW c \in Collectors,
             \/ StartPass(c) \/ EndPass(c) \/ FetchSilent(c)
             \/ \E n \in Nodes, ok \in BOOLEAN : Visit(c, n, ok)
             \/ \E ok \in BOOLEAN : CheckQuota(c, ok) \/ CutOff(c, ok)
      PROVE  Accounts' /\ Balanced'
  <2>1. /\ UNCHANGED <<own, used, samples, books, delta>>
        /\ stage[c] \in {"idle", "visit", "fetch", "check", "cut"}
        /\ \/ UNCHANGED stage
           \/ \E s \in {"idle", "visit", "fetch", "cut", "notify"} :
                 stage' = [stage EXCEPT ![c] = s]
    BY <1>3 DEF StartPass, EndPass, FetchSilent, Visit, CheckQuota, CutOff, AfterUser, Goto,
                user, core
  <2>2. stage \in [Collectors -> Stages]
    BY Numbers
  <2>3. \A d \in Collectors :
               \/ stage'[d] = stage[d] /\ delta'[d] = delta[d]
               \/ /\ stage[d] \notin {"sample", "before", "add"}
                  /\ stage'[d] \notin {"sample", "before", "add"}
    BY <2>1, <2>2
  <2>4. QED
    BY <2>1, <2>3, NoBytesMove
<1>4. ASSUME NEW c \in Collectors, Notified(c) PROVE Accounts' /\ Balanced'
  <2>1. /\ UNCHANGED <<own, used, samples, books, delta>>
        /\ \/ stage[c] = "before" /\ stage' = [stage EXCEPT ![c] = "add"]
           \/ stage[c] = "notify" /\ stage' = [stage EXCEPT ![c] = "visit"]
    BY <1>4 DEF Notified, Goto, user, core
  <2>2. stage \in [Collectors -> Stages]
    BY Numbers
  <2>3. \A d \in Collectors : /\ delta'[d] = delta[d]
                              /\ stage'[d] \in {"sample"} <=> stage[d] \in {"sample"}
                              /\ stage'[d] \in {"sample", "before", "add"} <=>
                                     stage[d] \in {"sample", "before", "add"}
    BY <2>1, <2>2
  <2>4. Held({"sample"})' = Held({"sample"})
    BY <2>3, HeldSame
  <2>5. Held({"sample", "before", "add"})' = Held({"sample", "before", "add"})
    BY <2>3, HeldSame
  <2>6. Waiting' = Waiting
    BY <2>1 DEF Waiting, Everywhere
  <2>7. QED
    BY <2>1, <2>4, <2>5, <2>6, Numbers DEF books, heard, gone, Accounts, Balanced
<1>5. ASSUME NEW c \in Collectors, Fetch(c) \/ FetchFails(c)
      PROVE  Accounts' /\ Balanced'
  BY <1>5, FetchBooked, FetchFailsBooked
<1>6. ASSUME NEW c \in Collectors, NEW ok \in BOOLEAN, Sample(c, ok) \/ Add(c, ok)
      PROVE  Accounts' /\ Balanced'
  BY <1>6, SampleBooked, AddBooked
<1>7. ASSUME NEW C \in SUBSET Collectors, Abandon(C)
      PROVE  Accounts' /\ Balanced'
  BY <1>7, AbandonBooked
<1>8. ASSUME NEW a \in Admins, UpdateReads(a) \/ Update(a)
      PROVE  Accounts' /\ Balanced'
  BY <1>8, NoBytesMove DEF UpdateReads, Update, UpdateWrites, user, core, pass
<1>9. CASE ResetTraffic
  <2>1. /\ UNCHANGED <<samples, own, stage, delta, traffic, dropped, gained, strayed,
                       uncounted, unsampled>>
        /\ used' = 0 /\ forgiven' = forgiven + used
    BY <1>9 DEF ResetTraffic, core, pass, heard
  <2>2. /\ Held({"sample", "before", "add"})' = Held({"sample", "before", "add"})
        /\ Held({"sample"})' = Held({"sample"})
    BY <2>1, HeldSame
  <2>3. Waiting' = Waiting
    BY <2>1 DEF Waiting, Everywhere
  <2>4. QED
    BY <2>1, <2>2, <2>3, Numbers DEF Accounts, Balanced
<1>10. ASSUME NEW c \in Collectors, PassStep(c) \/ PassFault(c)
       PROVE  Accounts' /\ Balanced'
  <2>1. TRUE \in BOOLEAN /\ FALSE \in BOOLEAN
    OBVIOUS
  <2>2. QED
    BY <1>3, <1>5, <1>6, <1>10, <2>1 DEF PassStep, PassFault
<1>11. QED
  BY <1>1, <1>2, <1>3, <1>4, <1>7, <1>8, <1>9, <1>10
     DEF Next, CancelRequest, Crash, Collectors

(* The values are what add_used_bytes, insert_samples, update and the passes
   make of them. *)
THEOREM TrafficTypes == Spec => []TypeOK
<1>1. Booked => TypeOK
  BY DEF Booked, Accounts, QuotaTypes, TypeOK
<1>2. Spec => []Booked
  BY InitBooked, BookedStep, PTL DEF Spec
<1>3. QED
  BY <1>1, <1>2, PTL

(* Whatever passes overlap, fail or are abandoned, collect_traffic counts every
   byte that a node reported once in used_bytes and once in stats_samples, but
   for those that the history says were lost or forgiven; and a byte that
   map_stats_to_deltas books to another user, or to nobody, has a name that two
   users share or that the user did not have all the time. *)
THEOREM NoByteIsLostUnexplained == Spec => []BytesAccounted
<1>1. Booked => BytesAccounted
  BY DEF Booked
<1>2. Spec => []Booked
  BY InitBooked, BookedStep, PTL DEF Spec
<1>3. QED
  BY <1>1, <1>2, PTL
=============================================================================
