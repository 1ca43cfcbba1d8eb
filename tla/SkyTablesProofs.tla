--------------------------- MODULE SkyTablesProofs ---------------------------
(***************************************************************************)
(* Proofs about the collection of titles and summaries, for every number   *)
(* of filters and slots, every limit of the tables, and every carousel     *)
(* whose sections begin differently and have each event once.              *)
(*                                                                         *)
(* RoomInv bounds the tables.  It is about the slots too: the error of a   *)
(* full table does not stop the pass, so what is beyond the limit and what *)
(* is still to be read are bounded together.                               *)
(*                                                                         *)
(* TurnInv is what the handlers do not store: for each filter the section  *)
(* at which its turn began.  The events of the sections that were on the   *)
(* air since are in the table once, those of the others are not in it; so  *)
(* when the first section comes again all are.                             *)
(*                                                                         *)
(* The loop over the events of a section is a recursive function; the      *)
(* induction over it takes the rules of module Recursion.                  *)
(***************************************************************************)
EXTENDS SkyTables, Recursion, FiniteSetTheorems

Entry == [filter : Filter, version : {0, 1}, eid : Eid]

(* What is known of a table while a section is stored.                     *)
Table == [entries : Seq(Entry), used : Nat, error : BOOLEAN, crashed : BOOLEAN, open : BOOLEAN]

(* The types, as far as the proofs need them.                              *)
TypeInv ==
    /\ broadcast \in Broadcasts
    /\ DOMAIN pos = Filter /\ \A f \in Filter : pos[f] \in 1 .. Len(broadcast[f])
    /\ changed \subseteq Filter /\ hit \subseteq Filter
    /\ step \in [Filter -> 0 .. 3]
    /\ DOMAIN initial = Filter
    /\ ended \in [Filter -> {"no", "turn", "given up"}]
    /\ entries \in [Kinds -> Seq(Entry)] /\ used \in [Kinds -> Nat]
    /\ isError \in BOOLEAN
    /\ pass \subseteq InStep(1)

(* What the type invariant says of the counters and tables, one by one.    *)
LEMMA Types ==
    ASSUME TypeInv
    PROVE  /\ step \in [Filter -> 0 .. 3] /\ \A f \in Filter : step[f] \in 0 .. 3
           /\ entries \in [Kinds -> Seq(Entry)] /\ used \in [Kinds -> Nat]
           /\ \A k \in Kinds : Len(entries[k]) \in Nat /\ used[k] \in Nat
<1>1. /\ step \in [Filter -> 0 .. 3]
      /\ entries \in [Kinds -> Seq(Entry)] /\ used \in [Kinds -> Nat]
  BY DEF TypeInv
<1>2. \A k \in Kinds : entries[k] \in Seq(Entry) /\ used[k] \in Nat
  BY <1>1
<1>3. \A s \in Seq(Entry) : Len(s) \in Nat
  OBVIOUS
<1> QED BY <1>1, <1>2, <1>3

(* A carousel of a filter is a sequence of sections, and not an empty      *)
(* one.                                                                    *)
LEMMA Carousels ==
    ASSUME NEW b \in Broadcasts, NEW f \in Filter
    PROVE  /\ b[f] \in Seq(Content) /\ Len(b[f]) \in Nat \ {0} /\ DOMAIN b[f] = 1 .. Len(b[f])
           /\ \A i \in 1 .. Len(b[f]) : b[f][i] \in Content
<1>1. b[f] \in Seq(Content) /\ b[f] # <<>>
  BY TablesAssumption
<1> QED BY <1>1

(* A filter collects titles or summaries.                                  *)
LEMMA Filters ==
    /\ Filter = 1 .. Len(Kind) /\ Len(Kind) \in Nat /\ \A f \in Filter : Kind[f] \in Kinds
    /\ IsFiniteSet(Filter)
<1>1. Filter = 1 .. Len(Kind) /\ Len(Kind) \in Nat /\ \A f \in Filter : Kind[f] \in Kinds
  BY TablesAssumption DEF Filter
<1> QED BY <1>1, FS_Interval

-----------------------------------------------------------------------------
(* One event.                                                              *)
LEMMA StoreEventType ==
    ASSUME NEW f \in Filter, NEW t \in Table, NEW e \in Event
    PROVE  StoreEvent(f, t, e) \in Table
<1>1. Version(f) \in {0, 1}
  BY DEF Version
<1>2. e.eid \in Eid /\ e.size \in Int
  BY DEF Event
<1>3. /\ t.entries \in Seq(Entry) /\ t.used \in Nat
      /\ t.error \in BOOLEAN /\ t.crashed \in BOOLEAN /\ t.open \in BOOLEAN
  BY DEF Table
<1> DEFINE entry == [filter |-> f, version |-> Version(f), eid |-> e.eid]
           longer == Append(t.entries, entry)
<1>4. entry \in Entry
  BY <1>1, <1>2 DEF Entry
<1> HIDE DEF entry
<1>5. longer \in Seq(Entry) /\ (~RunsAway(e) => t.used + e.size + 1 \in Nat)
  BY <1>2, <1>3, <1>4 DEF RunsAway
<1> HIDE DEF longer
<1>6. Stored(f, t, e) = [entries |-> longer, used |-> t.used + e.size + 1,
                         error |-> t.error \/ Len(longer) >= MaxEntries,
                         crashed |-> t.crashed, open |-> ~(Len(longer) >= MaxEntries)]
  BY DEF Stored, LeavesFull, longer, entry
<1>7. ~RunsAway(e) => Stored(f, t, e) \in Table
  BY <1>3, <1>5, <1>6 DEF Table
<1> QED BY <1>7 DEF StoreEvent, Table

Start(f) == [entries |-> entries[Kind[f]], used |-> used[Kind[f]], error |-> isError,
             crashed |-> FALSE, open |-> TRUE]

(* The loop over the events of a section (GetTitlesSKYBOX,                 *)
(* GetSummariesSKYBOX) is a sequence of tables, each made of the one       *)
(* before by one event.                                                    *)
LEMMA StoreEventsRuns ==
    ASSUME NEW f \in Filter, NEW events, Len(events) \in Nat
    PROVE  \E g : /\ g[0] = Start(f)
                  /\ \A k \in 1 .. Len(events) : g[k] = StoreEvent(f, g[k - 1], events[k])
                  /\ StoreEvents(f, events) = g[Len(events)]
<1> DEFINE n == Len(events)
           Step(t, i) == StoreEvent(f, t, events[i])
           Body(g, k) == [i \in 0 .. k |-> IF i = 0 THEN Start(f) ELSE Step(g[i - 1], i)]
           T == {k \in 0 .. n : \E g : g = Body(g, k)}
<1>1. n \in Nat
  OBVIOUS
<1>2. StoreEvents(f, events) = (CHOOSE g : g = Body(g, n))[n]
  BY DEF StoreEvents, Start
<1> HIDE DEF n, Step
<1>3. 0 \in T
  <2> DEFINE h == [i \in 0 .. 0 |-> Start(f)]
  <2>1. h = Body(h, 0)
    OBVIOUS
  <2> HIDE DEF h, Body
  <2> QED BY <1>1, <2>1
<1>4. ASSUME NEW k \in 0 .. n - 1, k \in T
      PROVE  k + 1 \in T
  <2>1. PICK g : g = Body(g, k)
    BY <1>4
  <2> DEFINE h == [i \in 0 .. k + 1 |-> IF i <= k THEN g[i] ELSE Step(g[k], k + 1)]
  <2>2. h = Body(h, k + 1)
    <3>1. \A i \in 0 .. k : g[i] = IF i = 0 THEN Start(f) ELSE Step(g[i - 1], i)
      BY <2>1
    <3>2. \A i \in 0 .. k : h[i] = g[i]
      BY <1>1
    <3> SUFFICES ASSUME NEW i \in 0 .. k + 1
                 PROVE  h[i] = IF i = 0 THEN Start(f) ELSE Step(h[i - 1], i)
      OBVIOUS
    <3>3. CASE i <= k
      BY <1>1, <3>1, <3>2, <3>3
    <3>4. CASE i = k + 1
      BY <1>1, <3>2, <3>4
    <3> QED BY <1>1, <3>3, <3>4
  <2> HIDE DEF h, Body
  <2> QED BY <1>1, <2>2
<1>5. PICK g : g = Body(g, n)
  <2> HIDE DEF T
  <2>1. \A k \in 0 .. n : k \in T
    BY <1>1, <1>3, <1>4, UpTo
  <2>2. n \in T
    BY <1>1, <2>1
  <2> QED BY <2>2 DEF T
<1> DEFINE after == CHOOSE h : h = Body(h, n)
<1>6. after = Body(after, n)
  <2> HIDE DEF Body
  <2> QED BY <1>5
<1> HIDE DEF after
<1>7. after[0] = Start(f) /\ \A k \in 1 .. n : after[k] = Step(after[k - 1], k)
  BY <1>1, <1>6
<1> QED BY <1>2, <1>7 DEF n, after, Step

-----------------------------------------------------------------------------
(* Counting the entries that are alike.                                    *)
Count(table, x) == Cardinality({j \in DOMAIN table : table[j] = x})

(* An entry more in the table counts for itself and for no other.          *)
LEMMA CountAppended ==
    ASSUME NEW table \in Seq(Entry), NEW y \in Entry, NEW x
    PROVE  /\ Count(table, x) \in Nat
           /\ Count(Append(table, y), x) = IF x = y THEN Count(table, x) + 1 ELSE Count(table, x)
<1> DEFINE n == Len(table)
           Alike == {j \in DOMAIN table : table[j] = x}
           more == Append(table, y)
           AlikeMore == {j \in DOMAIN more : more[j] = x}
<1>1. n \in Nat /\ DOMAIN table = 1 .. n /\ DOMAIN more = 1 .. n + 1
      /\ more[n + 1] = y /\ \A j \in 1 .. n : more[j] = table[j]
  OBVIOUS
<1>2. IsFiniteSet(Alike) /\ Cardinality(Alike) \in Nat /\ n + 1 \notin Alike
  <2>1. IsFiniteSet(1 .. n) /\ Alike \in SUBSET (1 .. n)
    BY <1>1, FS_Interval
  <2> QED BY <1>1, <2>1, FS_Subset, FS_CardinalityType
<1>3. AlikeMore = IF x = y THEN Alike \cup {n + 1} ELSE Alike
  <2> HIDE DEF more
  <2>1. 1 .. n + 1 = (1 .. n) \cup {n + 1}
    BY <1>1
  <2> QED BY <1>1, <2>1
<1> HIDE DEF Alike, AlikeMore, n, more
<1>4. Cardinality(AlikeMore) = IF x = y THEN Cardinality(Alike) + 1 ELSE Cardinality(Alike)
  BY <1>2, <1>3, FS_AddElement
<1> QED BY <1>2, <1>4 DEF Count, Alike, AlikeMore, more

-----------------------------------------------------------------------------
(* What an event that is stored makes of the table.                        *)
LEMMA WhatIsStored ==
    ASSUME NEW f \in Filter, NEW t \in Table, NEW e \in Event
    PROVE  LET u == Stored(f, t, e)
               entry == [filter |-> f, version |-> Version(f), eid |-> e.eid] IN
           /\ entry \in Entry
           /\ u.entries = Append(t.entries, entry) /\ Len(u.entries) = Len(t.entries) + 1
           /\ u.used = t.used + e.size + 1
           /\ u.error <=> t.error \/ Len(u.entries) >= MaxEntries
           /\ u.crashed = t.crashed
           /\ u.open <=> ~(Len(u.entries) >= MaxEntries)
<1> DEFINE entry == [filter |-> f, version |-> Version(f), eid |-> e.eid]
           longer == Append(t.entries, entry)
           full == Len(longer) >= MaxEntries
<1>1. t.entries \in Seq(Entry)
  BY DEF Table
<1>2. entry \in Entry
  BY DEF Entry, Event, Version
<1>3. Stored(f, t, e) = [entries |-> longer, used |-> t.used + e.size + 1,
                         error |-> t.error \/ full, crashed |-> t.crashed, open |-> ~full]
  BY DEF Stored, LeavesFull
<1> HIDE DEF entry
<1>4. Len(longer) = Len(t.entries) + 1
  BY <1>1, <1>2
<1> HIDE DEF longer, full
<1>5. PICK er, op \in BOOLEAN : (er <=> t.error \/ full) /\ (op <=> ~full)
                               /\ er = (t.error \/ full) /\ op = ~full
  BY Zenon
<1>6. PICK u : u = Stored(f, t, e)
  OBVIOUS
<1>7. u = [entries |-> longer, used |-> t.used + e.size + 1, error |-> er,
           crashed |-> t.crashed, open |-> op]
  BY <1>3, <1>5, <1>6, Zenon
<1>8. u.entries = longer /\ u.used = t.used + e.size + 1 /\ u.error = er
      /\ u.crashed = t.crashed /\ u.open = op
  BY <1>7
<1> QED BY <1>2, <1>4, <1>5, <1>6, <1>8 DEF longer, full, entry

(* The room a table has left, since the handler began with t0.             *)
Room(t0, t) ==
    /\ t.used < MaxBytes
    /\ t0.error => t.error
    /\ t.error \/ Len(t.entries) < MaxEntries
    /\ Len(t.entries) <= Len(t0.entries) + 1 \/ Len(t.entries) <= MaxEntries
    /\ t.open => Len(t.entries) = Len(t0.entries) \/ Len(t.entries) < MaxEntries

(* One event keeps the room: the text stays inside its buffer, and a       *)
(* table that reached its limit raises the error and ends the section.     *)
LEMMA RoomStep ==
    ASSUME NEW f \in Filter, NEW t0 \in Table, NEW t \in Table, NEW e \in Event, Room(t0, t)
    PROVE  Room(t0, StoreEvent(f, t, e))
<1> DEFINE u == StoreEvent(f, t, e)
           a == Len(t0.entries)
           m == Len(t.entries)
<1>1. /\ a \in Nat /\ m \in Nat /\ t.used \in Nat /\ e.size \in Int
      /\ MaxEntries \in Nat \ {0} /\ MaxBytes \in Nat \ {0}
  BY TablesAssumption DEF Table, Event
<1>2. t = [entries |-> t.entries, used |-> t.used, error |-> t.error,
           crashed |-> t.crashed, open |-> t.open]
  BY DEF Table
<1>3. CASE u = t
  BY <1>3
<1>4. CASE \/ u = [t EXCEPT !.open = FALSE] \/ u = [t EXCEPT !.error = TRUE, !.open = FALSE]
           \/ u = [t EXCEPT !.crashed = TRUE, !.open = FALSE]
  <2>1. u.entries = t.entries /\ u.used = t.used /\ ~u.open /\ (t.error => u.error)
    BY <1>2, <1>4
  <2> HIDE DEF u
  <2>2. Room(t0, u)
    BY <2>1 DEF Room
  <2> QED BY <2>2 DEF u
<1>5. CASE u = Stored(f, t, e) /\ t.open /\ ~HasNoRoom(t, e)
  <2>1. t.used + e.size + 2 <= MaxBytes
    BY <1>1, <1>5 DEF HasNoRoom
  <2>2. /\ Len(u.entries) = m + 1 /\ u.used = t.used + e.size + 1
        /\ (u.error <=> t.error \/ m + 1 >= MaxEntries) /\ (u.open <=> ~(m + 1 >= MaxEntries))
    <3> HIDE DEF u
    <3>1. u = Stored(f, t, e)
      BY <1>5
    <3>2. LET v == Stored(f, t, e) IN
          /\ Len(v.entries) = m + 1 /\ v.used = t.used + e.size + 1
          /\ (v.error <=> t.error \/ Len(v.entries) >= MaxEntries)
          /\ (v.open <=> ~(Len(v.entries) >= MaxEntries))
      BY WhatIsStored, Zenon
    <3> HIDE DEF m
    <3>3. Len(u.entries) = m + 1
      BY <3>1, <3>2
    <3> QED BY <3>1, <3>2, <3>3
  <2>3. (t0.error => t.error) /\ (m = a \/ m < MaxEntries)
    BY <1>5 DEF Room
  <2> HIDE DEF u, a, m
  <2>4. u.used < MaxBytes
    BY <1>1, <2>1, <2>2
  <2>5. m + 1 <= a + 1 \/ m + 1 <= MaxEntries
    BY <1>1, <2>3
  <2>6. u.error \/ m + 1 < MaxEntries
    BY <1>1, <2>2
  <2>7. u.open => m + 1 < MaxEntries
    BY <1>1, <2>2
  <2> QED BY <2>2, <2>3, <2>4, <2>5, <2>6, <2>7 DEF Room, u, a, m
<1>6. \/ u = t \/ u = [t EXCEPT !.open = FALSE]
      \/ u = [t EXCEPT !.error = TRUE, !.open = FALSE]
      \/ u = [t EXCEPT !.crashed = TRUE, !.open = FALSE]
      \/ u = Stored(f, t, e) /\ t.open /\ ~HasNoRoom(t, e)
  BY DEF StoreEvent
<1> QED BY <1>3, <1>4, <1>5, <1>6

-----------------------------------------------------------------------------
(* The first k events of a section, up to one that makes the handler leave.*)
Unstopped(f, events, k) == \A l \in 1 .. k : ~Stops(Kind[f], events[l])

TakenUpTo(f, events, k) == {events[j].eid : j \in {j \in 1 .. k : Unstopped(f, events, j)}}

EntryOf(f, v, e) == [filter |-> f, version |-> v, eid |-> e]

(* What the handler, which began with t0, has done after k events: none of *)
(* those taken is counted twice, and, if no error occurred and no copy ran *)
(* away, all of them are counted.                                          *)
Progress(f, events, t0, t, k) ==
    /\ t.open => Unstopped(f, events, k)
    /\ ~t.open => t.error \/ t.crashed \/ ~Unstopped(f, events, k)
    /\ t.crashed => \E l \in 1 .. k : RunsAway(events[l])
    /\ \A x : (\A e \in TakenUpTo(f, events, k) : x # EntryOf(f, Version(f), e))
                 => Count(t.entries, x) = Count(t0.entries, x)
    /\ \A e \in TakenUpTo(f, events, k) :
          LET x == EntryOf(f, Version(f), e) IN
          /\ Count(t.entries, x) <= Count(t0.entries, x) + 1
          /\ ~t.error /\ ~t.crashed => Count(t.entries, x) = Count(t0.entries, x) + 1

(* The events taken, when one more is looked at.                           *)
LEMMA TakenGrows ==
    ASSUME NEW f, NEW events, NEW k \in Nat
    PROVE  /\ Unstopped(f, events, k + 1)
                <=> Unstopped(f, events, k) /\ ~Stops(Kind[f], events[k + 1])
           /\ TakenUpTo(f, events, k + 1) =
                 IF Unstopped(f, events, k + 1)
                 THEN TakenUpTo(f, events, k) \cup {events[k + 1].eid}
                 ELSE TakenUpTo(f, events, k)
<1>1. 1 .. k + 1 = (1 .. k) \cup {k + 1}
  OBVIOUS
<1>2. Unstopped(f, events, k + 1)
        <=> Unstopped(f, events, k) /\ ~Stops(Kind[f], events[k + 1])
  BY <1>1 DEF Unstopped
<1>3. {j \in 1 .. k + 1 : Unstopped(f, events, j)} =
        IF Unstopped(f, events, k + 1) THEN {j \in 1 .. k : Unstopped(f, events, j)} \cup {k + 1}
        ELSE {j \in 1 .. k : Unstopped(f, events, j)}
  BY <1>1, Zenon
<1> QED BY <1>2, <1>3 DEF TakenUpTo

(* One event is stored once, and nothing else; or the section is left,     *)
(* at an event the handler does not take or by an error.                   *)
LEMMA ProgressStep ==
    ASSUME NEW f \in Filter, NEW events \in Seq(Event), NEW t0 \in Table, NEW t \in Table,
           NEW k \in 0 .. Len(events) - 1, Progress(f, events, t0, t, k),
           \A i, j \in 1 .. Len(events) : events[i].eid = events[j].eid => i = j
    PROVE  Progress(f, events, t0, StoreEvent(f, t, events[k + 1]), k + 1)
<1> DEFINE e == events[k + 1]
           new == EntryOf(f, Version(f), e.eid)
           D == TakenUpTo(f, events, k)
           E == TakenUpTo(f, events, k + 1)
           going == Unstopped(f, events, k)
<1>1. k \in Nat /\ k + 1 \in 1 .. Len(events) /\ e \in Event
  OBVIOUS
<1>2. E = (IF Unstopped(f, events, k + 1) THEN D \cup {e.eid} ELSE D)
      /\ (Unstopped(f, events, k + 1) <=> going /\ ~Stops(Kind[f], e))
  BY <1>1, TakenGrows
<1>3. \A d : EntryOf(f, Version(f), d) = new => d = e.eid
  BY DEF EntryOf
<1>4. PICK u : u = StoreEvent(f, t, e)
  OBVIOUS
<1>5. \A x : Count(t0.entries, x) \in Nat /\ Count(t.entries, x) \in Nat
  <2>1. t0.entries \in Seq(Entry) /\ t.entries \in Seq(Entry) /\ new \in Entry
    BY <1>1 DEF Table, Entry, EntryOf, Event, Version
  <2> QED BY <2>1, CountAppended
<1>n. (\E l \in 1 .. k : RunsAway(events[l])) => \E l \in 1 .. k + 1 : RunsAway(events[l])
  BY <1>1
(* Nothing is stored, because of an error, because the grabber died, or    *)
(* because nothing more is taken.                                          *)
<1>6. ASSUME u.entries = t.entries, ~u.open, t.error => u.error, t.crashed => u.crashed,
             u.error \/ u.crashed \/ ~Unstopped(f, events, k + 1),
             u.crashed => t.crashed \/ RunsAway(e)
      PROVE  Progress(f, events, t0, u, k + 1)
  <2>1. ASSUME NEW x, \A d \in E : x # EntryOf(f, Version(f), d)
        PROVE  Count(u.entries, x) = Count(t0.entries, x)
    <3>1. \A d \in D : x # EntryOf(f, Version(f), d)
      BY <1>2, <2>1
    <3> QED BY <1>6, <3>1 DEF Progress
  <2>2. ASSUME NEW d \in E
        PROVE  LET x == EntryOf(f, Version(f), d) IN
               /\ Count(u.entries, x) <= Count(t0.entries, x) + 1
               /\ ~u.error /\ ~u.crashed => Count(u.entries, x) = Count(t0.entries, x) + 1
    <3>1. CASE d \in D
      BY <1>6, <3>1 DEF Progress
    <3>2. CASE d \notin D
      <4>1. u.error \/ u.crashed
        BY <1>2, <1>6, <3>2
      <4>2. \A c \in D : EntryOf(f, Version(f), d) # EntryOf(f, Version(f), c)
        BY <3>2 DEF EntryOf
      <4>3. Count(u.entries, EntryOf(f, Version(f), d)) = Count(t0.entries, EntryOf(f, Version(f), d))
        BY <1>6, <4>2 DEF Progress
      <4> QED BY <1>5, <4>1, <4>3
    <3> QED BY <3>1, <3>2
  <2>3. u.crashed => \E l \in 1 .. k + 1 : RunsAway(events[l])
    BY <1>1, <1>6, <1>n DEF Progress
  <2> QED BY <1>6, <2>1, <2>2, <2>3 DEF Progress
(* The event is stored.                                                    *)
<1>7. CASE t.open /\ ~Stops(Kind[f], e) /\ u = Stored(f, t, e)
  <2>1. going /\ E = D \cup {e.eid} /\ Unstopped(f, events, k + 1)
    BY <1>2, <1>7 DEF Progress
  <2>2. e.eid \notin D
    BY <1>1 DEF TakenUpTo
  <2>3. /\ \A x : x # new => Count(u.entries, x) = Count(t.entries, x)
        /\ Count(u.entries, new) = Count(t.entries, new) + 1
        /\ (u.error <=> t.error \/ Len(u.entries) >= MaxEntries) /\ u.crashed = t.crashed
        /\ (u.open <=> ~(Len(u.entries) >= MaxEntries))
    <3>1. /\ new \in Entry /\ u.entries = Append(t.entries, new)
          /\ (u.error <=> t.error \/ Len(u.entries) >= MaxEntries) /\ u.crashed = t.crashed
          /\ (u.open <=> ~(Len(u.entries) >= MaxEntries))
      BY <1>1, <1>7, WhatIsStored DEF EntryOf
    <3>2. t.entries \in Seq(Entry)
      BY DEF Table
    <3> HIDE DEF new
    <3> QED BY <3>1, <3>2, CountAppended
  <2>4. ASSUME NEW x, \A d \in E : x # EntryOf(f, Version(f), d)
        PROVE  Count(u.entries, x) = Count(t0.entries, x)
    <3>1. x # new /\ \A d \in D : x # EntryOf(f, Version(f), d)
      BY <2>1, <2>4
    <3> QED BY <2>3, <3>1 DEF Progress
  <2>5. ASSUME NEW d \in E
        PROVE  LET x == EntryOf(f, Version(f), d) IN
               /\ Count(u.entries, x) <= Count(t0.entries, x) + 1
               /\ ~u.error /\ ~u.crashed => Count(u.entries, x) = Count(t0.entries, x) + 1
    <3> DEFINE x == EntryOf(f, Version(f), d)
    <3>1. CASE d \in D
      <4>1. x # new
        BY <1>3, <2>2, <3>1
      <4> HIDE DEF new
      <4> QED BY <2>3, <3>1, <4>1 DEF Progress
    <3>2. CASE d \notin D
      <4>1. d = e.eid /\ x = new
        BY <2>1, <3>2
      <4>2. Count(t.entries, x) = Count(t0.entries, x)
        <5>1. \A c \in D : x # EntryOf(f, Version(f), c)
          BY <3>2 DEF EntryOf
        <5> QED BY <5>1 DEF Progress
      <4> HIDE DEF x, new
      <4> QED BY <1>5, <2>3, <4>1, <4>2 DEF x
    <3> QED BY <3>1, <3>2
  <2>6. u.crashed => \E l \in 1 .. k + 1 : RunsAway(events[l])
    BY <1>n, <2>3 DEF Progress
  <2>7. u.open \/ u.error
    BY <2>3
  <2>8. Progress(f, events, t0, u, k + 1)
    BY <2>1, <2>4, <2>5, <2>6, <2>7 DEF Progress
  <2> QED BY <1>4, <2>8
<1>8. CASE ~t.open
  <2>1. u = t
    BY <1>4, <1>8 DEF StoreEvent
  <2>2. u.error \/ u.crashed \/ ~Unstopped(f, events, k + 1)
    BY <1>2, <1>8, <2>1 DEF Progress
  <2> QED BY <1>4, <1>6, <1>8, <2>1, <2>2
<1>t. t = [entries |-> t.entries, used |-> t.used, error |-> t.error,
           crashed |-> t.crashed, open |-> t.open]
  BY DEF Table
<1>9. CASE t.open /\ Stops(Kind[f], e)
  <2>1. u = [t EXCEPT !.open = FALSE]
    BY <1>4, <1>9 DEF StoreEvent
  <2>2. u.entries = t.entries /\ ~u.open /\ u.error = t.error /\ u.crashed = t.crashed
    BY <1>t, <2>1
  <2> QED BY <1>2, <1>4, <1>6, <1>9, <2>2
<1>10. CASE t.open /\ ~Stops(Kind[f], e) /\ HasNoRoom(t, e)
  <2>1. u = [t EXCEPT !.error = TRUE, !.open = FALSE]
    BY <1>4, <1>10 DEF StoreEvent
  <2>2. u.entries = t.entries /\ ~u.open /\ u.error /\ u.crashed = t.crashed
    BY <1>t, <2>1
  <2> QED BY <1>4, <1>6, <1>10, <2>2
<1>11. CASE t.open /\ ~Stops(Kind[f], e) /\ ~HasNoRoom(t, e) /\ RunsAway(e)
  <2>1. u = [t EXCEPT !.crashed = TRUE, !.open = FALSE]
    BY <1>4, <1>11 DEF StoreEvent
  <2>2. u.entries = t.entries /\ ~u.open /\ u.error = t.error /\ u.crashed
    BY <1>t, <2>1
  <2> QED BY <1>4, <1>6, <1>11, <2>2
<1>12. t.open /\ ~Stops(Kind[f], e) /\ ~HasNoRoom(t, e) /\ ~RunsAway(e) => u = Stored(f, t, e)
  BY <1>4 DEF StoreEvent
<1> QED BY <1>4, <1>7, <1>8, <1>9, <1>10, <1>11, <1>12

(* The handler as a whole.                                                 *)
LEMMA StoreEventsDoes ==
    ASSUME NEW f \in Filter, NEW events \in Seq(Event), Start(f) \in Table,
           used[Kind[f]] < MaxBytes, isError \/ Len(entries[Kind[f]]) < MaxEntries,
           \A i, j \in 1 .. Len(events) : events[i].eid = events[j].eid => i = j
    PROVE  LET t == StoreEvents(f, events) IN
           /\ t \in Table /\ Room(Start(f), t)
           /\ Progress(f, events, Start(f), t, Len(events))
<1> DEFINE n == Len(events)
           t0 == Start(f)
           Fine(t, k) == t \in Table /\ Room(t0, t) /\ Progress(f, events, t0, t, k)
<1>1. n \in Nat
  OBVIOUS
<1>2. PICK g : /\ g[0] = t0
               /\ \A k \in 1 .. n : g[k] = StoreEvent(f, g[k - 1], events[k])
               /\ StoreEvents(f, events) = g[n]
  BY <1>1, StoreEventsRuns
<1> DEFINE T == {k \in 0 .. n : Fine(g[k], k)}
<1>3. 0 \in T
  <2>1. /\ t0.used < MaxBytes /\ (t0.error \/ Len(t0.entries) < MaxEntries)
        /\ Len(t0.entries) \in Nat /\ t0.open /\ ~t0.crashed
    BY DEF Start, Table
  <2>2. Room(t0, t0)
    BY <2>1 DEF Room
  <2>3. TakenUpTo(f, events, 0) = {} /\ Unstopped(f, events, 0)
    BY DEF TakenUpTo, Unstopped
  <2>4. Progress(f, events, t0, t0, 0)
    BY <2>1, <2>3 DEF Progress
  <2> QED BY <1>1, <1>2, <2>2, <2>4
<1>4. ASSUME NEW k \in 0 .. n - 1, k \in T
      PROVE  k + 1 \in T
  <2>1. k + 1 \in 1 .. n /\ k + 1 \in 0 .. n /\ k + 1 - 1 = k /\ events[k + 1] \in Event
    BY <1>1
  <2>2. g[k + 1] = StoreEvent(f, g[k], events[k + 1])
    BY <1>2, <2>1
  <2>3. g[k] \in Table /\ Room(t0, g[k]) /\ Progress(f, events, t0, g[k], k)
    BY <1>4
  <2>4. g[k + 1] \in Table
    BY <2>1, <2>2, <2>3, StoreEventType
  <2>5. Room(t0, g[k + 1])
    BY <2>1, <2>2, <2>3, RoomStep
  <2>6. Progress(f, events, t0, g[k + 1], k + 1)
    BY <2>2, <2>3, ProgressStep
  <2> QED BY <2>1, <2>4, <2>5, <2>6
<1> HIDE DEF T, n
<1>5. \A k \in 0 .. n : k \in T
  BY <1>1, <1>3, <1>4, UpTo
<1>6. n \in T
  BY <1>1, <1>5
<1> QED BY <1>2, <1>6 DEF T, n

-----------------------------------------------------------------------------
(* The slots.                                                              *)
Starting == {f \in Filter : Starts(f)}

(* The filters that PollingFilters starts in a turn are no more than its   *)
(* free slots.                                                             *)
LEMMA StartingFits ==
    ASSUME TypeInv, SlotsInUse <= MaxActive
    PROVE  Running = InStep(1) \cup Starting /\ Cardinality(Running) <= MaxActive
<1> DEFINE n == Len(Kind)
           Waiting(f) == {g \in InStep(0) : g < f}
           free == MaxActive - SlotsInUse
<1>1. Filter = 1 .. n /\ n \in Nat /\ IsFiniteSet(Filter)
  BY Filters
<1>2. /\ IsFiniteSet(InStep(0)) /\ IsFiniteSet(InStep(1)) /\ IsFiniteSet(Starting)
      /\ Cardinality(InStep(1)) \in Nat /\ Cardinality(Starting) \in Nat
  <2>1. InStep(0) \in SUBSET Filter /\ InStep(1) \in SUBSET Filter /\ Starting \in SUBSET Filter
    BY DEF InStep, Starting
  <2> QED BY <1>1, <2>1, FS_Subset, FS_CardinalityType
<1>3. free \in Nat /\ free + Cardinality(InStep(1)) = MaxActive
  BY <1>2, TablesAssumption DEF SlotsInUse
<1>4. Cardinality(Starting) <= free
  <2>1. CASE Starting = {}
    BY <1>3, <2>1, FS_EmptySet
  <2>2. CASE Starting # {}
    <3>1. Starting \in SUBSET (0 .. n)
      BY <1>1 DEF Starting
    <3>2. PICK top \in Starting : \A f \in Starting : f <= top
      BY <1>1, <2>2, <3>1, LargestElement
    <3>3. Starting \ {top} \in SUBSET Waiting(top)
      <4>1. \A f \in Starting : f \in Int /\ f \in InStep(0)
        BY <1>1 DEF Starting, Starts, InStep
      <4>2. \A f \in Starting \ {top} : f < top
        BY <3>2, <4>1
      <4> QED BY <4>1, <4>2
    <3>4. IsFiniteSet(Waiting(top)) /\ Cardinality(Waiting(top)) \in Nat
      <4>1. Waiting(top) \in SUBSET InStep(0)
        OBVIOUS
      <4> QED BY <1>2, <4>1, FS_Subset, FS_CardinalityType
    <3>5. Cardinality(Waiting(top)) < free
      BY <3>2 DEF Starting, Starts
    <3>6. Cardinality(Starting \ {top}) = Cardinality(Starting) - 1
      BY <1>2, <3>2, FS_RemoveElement
    <3>7. Cardinality(Starting \ {top}) <= Cardinality(Waiting(top))
      BY <3>3, <3>4, FS_Subset
    <3> HIDE DEF free
    <3> QED BY <1>2, <1>3, <3>4, <3>5, <3>6, <3>7
  <2> QED BY <2>1, <2>2
<1>5. Running = InStep(1) \cup Starting
  <2>1. \A f \in Filter : Prepared[f] = 1 <=> step[f] = 1 \/ Starts(f)
    BY DEF Prepared, Starts
  <2> QED BY <2>1 DEF Running, InStep, Starting
<1>6. Cardinality(Running) <= Cardinality(InStep(1)) + Cardinality(Starting)
  <2>1. InStep(1) \cap Starting = {}
    BY DEF InStep, Starting, Starts
  <2>2. Cardinality(InStep(1) \cup Starting)
          = Cardinality(InStep(1)) + Cardinality(Starting) - Cardinality(InStep(1) \cap Starting)
    BY <1>2, FS_Union
  <2>3. Cardinality(InStep(1) \cap Starting) = 0
    BY <2>1, FS_EmptySet
  <2> QED BY <1>2, <1>5, <2>2, <2>3
<1>7. Cardinality(Running) \in Nat
  <2>1. Running \in SUBSET Filter
    BY DEF Running
  <2> QED BY <1>1, <2>1, FS_Subset, FS_CardinalityType
<1> HIDE DEF free
<1> QED BY <1>2, <1>3, <1>4, <1>5, <1>6, <1>7

-----------------------------------------------------------------------------
(* The types.                                                              *)
LEMMA TypeInit == Init => TypeInv
<1> SUFFICES ASSUME Init PROVE TypeInv
  OBVIOUS
<1>1. DOMAIN pos = Filter /\ \A f \in Filter : pos[f] \in 1 .. Len(broadcast[f])
  BY Carousels DEF Init, Positions
<1>2. entries \in [Kinds -> Seq(Entry)] /\ used \in [Kinds -> Nat]
  <2>1. <<>> \in Seq(Entry)
    OBVIOUS
  <2> QED BY <2>1 DEF Init
<1>3. /\ step \in [Filter -> 0 .. 3] /\ DOMAIN initial = Filter
      /\ ended \in [Filter -> {"no", "turn", "given up"}]
  BY DEF Init
<1> QED BY <1>1, <1>2, <1>3 DEF Init, TypeInv

(* A carousel goes round: the section that comes next is one of its own.   *)
LEMMA AdvanceType ==
    ASSUME TypeInv, NEW f \in Filter, Advance(f)
    PROVE  /\ broadcast' = broadcast /\ changed' = changed /\ DOMAIN pos' = Filter
           /\ \A g \in Filter : pos'[g] \in 1 .. Len(broadcast[g])
<1>1. /\ broadcast' = broadcast /\ changed' = changed
      /\ pos' = [pos EXCEPT ![f] = IF @ = Len(broadcast[f]) THEN 1 ELSE @ + 1]
  BY DEF Advance
<1>2. DOMAIN pos' = Filter /\ \A g \in Filter : g # f => pos'[g] = pos[g]
  BY <1>1 DEF TypeInv
<1>3. pos'[f] = IF pos[f] = Len(broadcast[f]) THEN 1 ELSE pos[f] + 1
  BY <1>1 DEF TypeInv
<1>4. pos[f] \in 1 .. Len(broadcast[f]) /\ Len(broadcast[f]) \in Nat \ {0}
  BY Carousels DEF TypeInv
<1>5. pos'[f] \in 1 .. Len(broadcast[f])
  BY <1>3, <1>4
<1> QED BY <1>1, <1>2, <1>5 DEF TypeInv

(* What a section that is taken does.                                      *)
LEMMA TakenSection ==
    ASSUME TypeInv, NEW f \in Filter,
           used[Kind[f]] < MaxBytes, isError \/ Len(entries[Kind[f]]) < MaxEntries
    PROVE  LET events == Section(f).events
               t == StoreEvents(f, events) IN
           /\ Section(f) \in Content /\ Start(f) \in Table
           /\ t \in Table /\ Room(Start(f), t)
           /\ Progress(f, events, Start(f), t, Len(events))
<1>1. pos[f] \in 1 .. Len(broadcast[f]) /\ broadcast \in Broadcasts
  BY DEF TypeInv
<1>2. Section(f) \in Content
  BY <1>1, Carousels DEF Section
<1>3. Section(f).events \in Seq(Event)
  BY <1>2 DEF Content
<1>4. Start(f) \in Table
  BY Filters DEF TypeInv, Start, Table
<1>5. \A i, j \in DOMAIN Section(f).events :
         Section(f).events[i].eid = Section(f).events[j].eid => i = j
  <2>1. pos[f] \in DOMAIN broadcast[f]
    BY <1>1, Carousels
  <2> QED BY <1>1, <2>1, CarouselAssumption DEF Section
<1>6. \A i, j \in 1 .. Len(Section(f).events) :
         Section(f).events[i].eid = Section(f).events[j].eid => i = j
  <2>1. DOMAIN Section(f).events = 1 .. Len(Section(f).events)
    BY <1>3
  <2> QED BY <1>5, <2>1
<1> HIDE DEF Section
<1> QED BY <1>2, <1>3, <1>4, <1>6, StoreEventsDoes, Zenon

(* A table that is not full has room, and no text fills its buffer; when   *)
(* one is full, the filters of the pass that were not read yet may each    *)
(* add one entry.                                                          *)
RoomInv ==
    /\ Cardinality(InStep(1)) <= MaxActive
    /\ \A k \in Kinds :
          /\ used[k] < MaxBytes
          /\ IF isError THEN Len(entries[k]) + Cardinality(pass) <= MaxEntries + MaxActive - 1
             ELSE Len(entries[k]) < MaxEntries

(* The tables after a section, whatever becomes of it.                     *)
LEMMA ReadTables ==
    ASSUME TypeInv, RoomInv, NEW f \in Filter, Read(f)
    PROVE  /\ f \in pass /\ pass' = pass \ {f}
           /\ \/ UNCHANGED tables
              \/ /\ TakeSection(f) /\ ~Section(f).short /\ ~Section(f).blank
                 /\ LET t == StoreEvents(f, Section(f).events) IN
                    /\ t \in Table /\ ~t.crashed /\ Room(Start(f), t)
                    /\ Progress(f, Section(f).events, Start(f), t, Len(Section(f).events))
                    /\ entries' = [entries EXCEPT ![Kind[f]] = t.entries]
                    /\ used' = [used EXCEPT ![Kind[f]] = t.used]
                    /\ isError' = t.error
<1>1. f \in pass /\ pass' = pass \ {f}
  BY DEF Read, PassOverShort, FinishTurn, TakeSection, ReadDamaged, ReadFails, Reads
<1>2. CASE PassOverShort(f) \/ FinishTurn(f) \/ ReadDamaged(f) \/ ReadFails(f)
  BY <1>1, <1>2 DEF PassOverShort, FinishTurn, ReadDamaged, ReadFails
<1>3. CASE TakeSection(f) /\ Section(f).blank
  BY <1>1, <1>3 DEF TakeSection
<1>4. CASE TakeSection(f) /\ ~Section(f).blank
  <2> DEFINE t == StoreEvents(f, Section(f).events)
  <2>1. Kind[f] \in Kinds
    BY Filters
  <2>2. used[Kind[f]] < MaxBytes /\ (isError \/ Len(entries[Kind[f]]) < MaxEntries)
    BY <2>1 DEF RoomInv
  <2>3. /\ t \in Table /\ Room(Start(f), t)
        /\ Progress(f, Section(f).events, Start(f), t, Len(Section(f).events))
    BY <2>2, TakenSection
  <2>4. /\ ~Section(f).short /\ ~t.crashed
        /\ entries' = [entries EXCEPT ![Kind[f]] = t.entries]
        /\ used' = [used EXCEPT ![Kind[f]] = t.used] /\ isError' = t.error
    BY <1>4 DEF TakeSection
  <2> HIDE DEF t
  <2> QED BY <1>1, <1>4, <2>3, <2>4 DEF t
<1> QED BY <1>2, <1>3, <1>4 DEF Read

(* The steps of the filters after the preparations of a turn of the        *)
(* loop.                                                                   *)
LEMMA PreparedType == TypeInv => Prepared \in [Filter -> 0 .. 3]
<1> SUFFICES ASSUME TypeInv, NEW f \in Filter PROVE Prepared[f] \in 0 .. 3
  BY DEF Prepared
<1>1. step[f] \in 0 .. 3 /\ 1 \in 0 .. 3 /\ 3 \in 0 .. 3
  BY Types
<1>2. Prepared[f] \in {3, 1, step[f]}
  BY DEF Prepared
<1> QED BY <1>1, <1>2

(* Every step of the collection keeps the types.                           *)
LEMMA TypeStep == TypeInv /\ RoomInv /\ [Next]_vars => TypeInv'
<1> SUFFICES ASSUME TypeInv, RoomInv, [Next]_vars PROVE TypeInv'
  OBVIOUS
<1>1. ASSUME NEW ready \in SUBSET Running, Turn(ready)
      PROVE  TypeInv'
  <2>1. step' \in [Filter -> 0 .. 3]
    BY <1>1, PreparedType DEF Turn
  <2>2. pass' \subseteq InStep(1)'
    BY <1>1 DEF Turn, Running, InStep
  <2> QED BY <1>1, <2>1, <2>2 DEF Turn, TypeInv, air, tables
<1>2. CASE Leave
  <2>1. step' \in [Filter -> 0 .. 3] /\ pass' = {}
    BY <1>2, PreparedType DEF Leave, TypeInv
  <2> QED BY <1>2, <2>1 DEF Leave, TypeInv, air, tables
<1>3. ASSUME NEW f \in Filter, Read(f)
      PROVE  TypeInv'
  <2>1. /\ broadcast' = broadcast /\ changed' = changed /\ hit' \subseteq Filter
        /\ DOMAIN pos' = Filter /\ \A g \in Filter : pos'[g] \in 1 .. Len(broadcast[g])
    <3>1. CASE ReadFails(f)
      BY <3>1 DEF ReadFails, air, TypeInv
    <3>2. CASE Advance(f) /\ hit' \subseteq Filter
      BY <3>2, AdvanceType
    <3>3. ~ReadFails(f) => Advance(f) /\ hit' \subseteq Filter
      BY <1>3 DEF Read, PassOverShort, FinishTurn, TakeSection, ReadDamaged, TypeInv
    <3> QED BY <3>1, <3>2, <3>3
  <2>2. /\ step' \in [Filter -> 0 .. 3] /\ \A g \in Filter \ {f} : step'[g] = step[g]
        /\ DOMAIN initial' = Filter /\ ended' \in [Filter -> {"no", "turn", "given up"}]
    <3>1. step' = step \/ step' = [step EXCEPT ![f] = 2]
      BY <1>3 DEF Read, PassOverShort, FinishTurn, TakeSection, ReadDamaged, ReadFails
    <3>2. initial' = initial \/ initial' = [initial EXCEPT ![f] = Remember(f)]
      BY <1>3 DEF Read, PassOverShort, FinishTurn, TakeSection, ReadDamaged, ReadFails
    <3>3. ended' = ended \/ ended' = [ended EXCEPT ![f] = "turn"]
            \/ ended' = [ended EXCEPT ![f] = "given up"]
      BY <1>3 DEF Read, PassOverShort, FinishTurn, TakeSection, ReadDamaged, ReadFails
    <3>4. step' \in [Filter -> 0 .. 3] /\ \A g \in Filter \ {f} : step'[g] = step[g]
      BY <3>1, Types
    <3>5. DOMAIN initial' = Filter
      BY <3>2 DEF TypeInv
    <3>6. ended' \in [Filter -> {"no", "turn", "given up"}]
      BY <3>3 DEF TypeInv
    <3> QED BY <3>4, <3>5, <3>6
  <2>3. /\ entries' \in [Kinds -> Seq(Entry)] /\ used' \in [Kinds -> Nat] /\ isError' \in BOOLEAN
    <3>1. CASE UNCHANGED tables
      BY <3>1 DEF tables, TypeInv
    <3>2. ASSUME NEW t \in Table, entries' = [entries EXCEPT ![Kind[f]] = t.entries],
                 used' = [used EXCEPT ![Kind[f]] = t.used], isError' = t.error
          PROVE  <2>3!1
      BY <3>2 DEF Table, TypeInv
    <3> QED BY <1>3, <3>1, <3>2, ReadTables
  <2>4. pass' \subseteq InStep(1)'
    BY <1>3, <2>2, ReadTables DEF TypeInv, InStep
  <2> QED BY <2>1, <2>2, <2>3, <2>4 DEF TypeInv
<1>4. ASSUME NEW f \in Filter, Change(f)
      PROVE  TypeInv'
  BY <1>4 DEF Change, TypeInv, InStep, tables
<1>5. ASSUME NEW f \in Filter, CopyRunsAway(f)
      PROVE  TypeInv'
  BY <1>5 DEF CopyRunsAway, TypeInv, InStep, air, tables
<1>6. CASE UNCHANGED vars
  BY <1>6 DEF vars, air, tables, TypeInv, InStep
<1> QED BY <1>1, <1>2, <1>3, <1>4, <1>5, <1>6 DEF Next

(* The tables are empty before the first turn.                             *)
LEMMA RoomInit == Init => RoomInv
<1> SUFFICES ASSUME Init PROVE RoomInv
  OBVIOUS
<1>1. InStep(1) = {}
  BY DEF Init, InStep
<1>2. Cardinality(InStep(1)) = 0 /\ Len(<<>>) = 0
  BY <1>1, FS_EmptySet
<1>3. 0 <= MaxActive /\ 0 < MaxBytes /\ 0 < MaxEntries
  BY TablesAssumption
<1> QED BY <1>2, <1>3 DEF Init, RoomInv

(* The slots found ready and not read yet are no more than the slots.      *)
LEMMA PassFits ==
    ASSUME TypeInv, RoomInv
    PROVE  /\ IsFiniteSet(InStep(1)) /\ Cardinality(InStep(1)) \in Nat
           /\ IsFiniteSet(pass) /\ Cardinality(pass) \in 0 .. MaxActive
<1>1. InStep(1) \in SUBSET Filter /\ pass \in SUBSET InStep(1)
  BY DEF InStep, TypeInv
<1>2. IsFiniteSet(InStep(1)) /\ Cardinality(InStep(1)) \in Nat
  BY <1>1, Filters, FS_Subset, FS_CardinalityType
<1>3. IsFiniteSet(pass) /\ Cardinality(pass) \in Nat /\ Cardinality(pass) <= Cardinality(InStep(1))
  BY <1>1, <1>2, FS_Subset, FS_CardinalityType
<1> QED BY <1>2, <1>3, TablesAssumption DEF RoomInv

(* Every step keeps the room: the entries beyond the limit and the slots   *)
(* still to be read together stay below the number of slots, since each    *)
(* slot read after the error adds one entry at most.                       *)
LEMMA RoomInvStep == TypeInv /\ RoomInv /\ [Next]_vars => RoomInv'
<1> SUFFICES ASSUME TypeInv, RoomInv, [Next]_vars PROVE RoomInv'
  OBVIOUS
<1>1. ASSUME NEW ready \in SUBSET Running, Turn(ready)
      PROVE  RoomInv'
  <2>1. ~isError /\ UNCHANGED tables /\ step' = Prepared
    BY <1>1 DEF Turn
  <2>2. InStep(1)' = Running
    BY <2>1 DEF InStep, Running
  <2>3. Cardinality(Running) <= MaxActive
    BY StartingFits DEF RoomInv, SlotsInUse
  <2> QED BY <2>1, <2>2, <2>3 DEF RoomInv, tables
<1>2. CASE Leave
  <2>1. UNCHANGED tables /\ pass' = pass
    BY <1>2 DEF Leave
  <2>2. Cardinality(InStep(1)') <= MaxActive
    <3>1. CASE isError
      BY <1>2, <3>1 DEF Leave, RoomInv, InStep
    <3>2. CASE ~isError
      <4>1. InStep(1)' = {}
        BY <1>2, <3>2 DEF Leave, InStep
      <4> QED BY <4>1, FS_EmptySet, TablesAssumption
    <3> QED BY <3>1, <3>2
  <2> QED BY <2>1, <2>2 DEF RoomInv, tables
<1>3. ASSUME NEW f \in Filter, Read(f)
      PROVE  RoomInv'
  <2>1. Cardinality(InStep(1)') <= MaxActive
    <3>1. step' = step \/ step' = [step EXCEPT ![f] = 2]
      BY <1>3 DEF Read, PassOverShort, FinishTurn, TakeSection, ReadDamaged, ReadFails
    <3>2. InStep(1)' \in SUBSET InStep(1)
      BY <3>1, Types DEF InStep
    <3>3. Cardinality(InStep(1)') <= Cardinality(InStep(1))
      BY <3>2, PassFits, FS_Subset
    <3>4. Cardinality(InStep(1)') \in Nat
      BY <3>2, PassFits, FS_Subset, FS_CardinalityType
    <3> QED BY <3>3, <3>4, PassFits, TablesAssumption DEF RoomInv
  <2>2. f \in pass /\ Cardinality(pass') = Cardinality(pass) - 1
        /\ Cardinality(pass) \in 1 .. MaxActive
    <3>1. f \in pass /\ pass' = pass \ {f}
      BY <1>3, ReadTables
    <3>2. Cardinality(pass) # 0
      BY <3>1, PassFits, FS_EmptySet
    <3>3. IsFiniteSet(pass) /\ Cardinality(pass) \in 0 .. MaxActive
      BY PassFits
    <3>4. Cardinality(pass') = Cardinality(pass) - 1
      BY <3>1, <3>3, FS_RemoveElement
    <3> QED BY <3>1, <3>2, <3>3, <3>4, TablesAssumption
  <2>3. \A k \in Kinds : Len(entries[k]) \in Nat /\ used[k] \in Nat
    BY Types
  <2>4. MaxEntries \in Nat \ {0} /\ MaxActive \in Nat \ {0}
    BY TablesAssumption
  <2>5. CASE UNCHANGED tables
    <3>1. entries' = entries /\ used' = used /\ isError' = isError
      BY <2>5 DEF tables
    <3> QED BY <2>1, <2>2, <2>3, <2>4, <3>1 DEF RoomInv
  <2>6. ASSUME NEW t \in Table, Room(Start(f), t), entries' = [entries EXCEPT ![Kind[f]] = t.entries],
               used' = [used EXCEPT ![Kind[f]] = t.used], isError' = t.error
        PROVE  RoomInv'
    <3> DEFINE before == Len(entries[Kind[f]])
               after == Len(t.entries)
               left == Cardinality(pass)
    <3>1. /\ t.used < MaxBytes /\ (isError => t.error) /\ (t.error \/ after < MaxEntries)
          /\ (after <= before + 1 \/ after <= MaxEntries)
      BY <2>6 DEF Room, Start
    <3>2. before \in Nat /\ after \in Nat /\ Kind[f] \in Kinds
      BY <2>3, Filters DEF Table
    <3>3. ASSUME NEW k \in Kinds
          PROVE  /\ used'[k] < MaxBytes
                 /\ IF isError' THEN Len(entries'[k]) + Cardinality(pass') <= MaxEntries + MaxActive - 1
                    ELSE Len(entries'[k]) < MaxEntries
      <4>1. CASE k = Kind[f]
        <5>1. used'[k] = t.used /\ entries'[k] = t.entries /\ isError' = t.error
          BY <2>6, <4>1 DEF TypeInv
        <5>2. IF isError THEN before + left <= MaxEntries + MaxActive - 1 ELSE before < MaxEntries
          BY <3>2 DEF RoomInv
        <5> HIDE DEF before, after, left
        <5>3. CASE ~t.error
          BY <3>1, <5>1, <5>3 DEF after
        <5>4. CASE t.error
          <6>1. after + (left - 1) <= MaxEntries + MaxActive - 1
            <7>1. left \in 1 .. MaxActive
              BY <2>2 DEF left
            <7>2. CASE isError
              BY <2>4, <3>1, <3>2, <5>2, <7>1, <7>2
            <7>3. CASE ~isError
              BY <2>4, <3>1, <3>2, <5>2, <7>1, <7>3
            <7> QED BY <7>2, <7>3
          <6> QED BY <2>2, <3>1, <5>1, <5>4, <6>1 DEF after, left
        <5> QED BY <5>3, <5>4
      <4>2. CASE k # Kind[f]
        <5>1. used'[k] = used[k] /\ entries'[k] = entries[k] /\ isError' = t.error
          BY <2>6, <4>2 DEF TypeInv
        <5>2. /\ used[k] < MaxBytes
              /\ IF isError THEN Len(entries[k]) + left <= MaxEntries + MaxActive - 1
                 ELSE Len(entries[k]) < MaxEntries
          BY DEF RoomInv
        <5> QED BY <2>2, <2>3, <2>4, <3>1, <5>1, <5>2
      <4> QED BY <4>1, <4>2
    <3> QED BY <2>1, <3>3 DEF RoomInv
  <2> QED BY <1>3, <2>5, <2>6, ReadTables
<1>4. ASSUME NEW f \in Filter, Change(f)
      PROVE  RoomInv'
  BY <1>4 DEF Change, RoomInv, InStep, tables
<1>5. ASSUME NEW f \in Filter, CopyRunsAway(f)
      PROVE  RoomInv'
  <2>1. UNCHANGED <<step, entries, used, isError>> /\ Cardinality(pass') = 0
    BY <1>5, FS_EmptySet DEF CopyRunsAway, tables
  <2>2. /\ Cardinality(pass) \in Nat /\ MaxEntries \in Nat \ {0} /\ MaxActive \in Nat \ {0}
        /\ \A k \in Kinds : Len(entries[k]) \in Nat
    BY PassFits, Types, TablesAssumption
  <2> QED BY <2>1, <2>2 DEF RoomInv, InStep
<1>6. CASE UNCHANGED vars
  BY <1>6 DEF vars, air, tables, RoomInv, InStep
<1> QED BY <1>1, <1>2, <1>3, <1>4, <1>5, <1>6 DEF Next

(* So there is always room.                                                *)
LEMMA RoomAlways == Spec => [](TypeInv /\ RoomInv)
<1>1. Init => TypeInv /\ RoomInv
  BY TypeInit, RoomInit
<1>2. (TypeInv /\ RoomInv) /\ [Next]_vars => (TypeInv /\ RoomInv)'
  BY TypeStep, RoomInvStep
<1> QED BY <1>1, <1>2, PTL DEF Spec

(* A copy that runs away is that of an event of the section read, and only *)
(* a title's length can come out negative.                                 *)
LEMMA RunsAwayOnAir ==
    ASSUME TypeInv, RoomInv, NEW f \in Filter, CopyRunsAway(f)
    PROVE  MayCrash
<1> DEFINE s == Section(f)
<1>1. used[Kind[f]] < MaxBytes /\ (isError \/ Len(entries[Kind[f]]) < MaxEntries)
  BY Filters DEF RoomInv
<1>2. s \in Content /\ Progress(f, s.events, Start(f), StoreEvents(f, s.events), Len(s.events))
  BY <1>1, TakenSection
<1>3. PICK l \in 1 .. Len(s.events) : RunsAway(s.events[l])
  BY <1>2 DEF CopyRunsAway, Progress
<1>4. broadcast \in Broadcasts /\ pos[f] \in DOMAIN broadcast[f] /\ s = broadcast[f][pos[f]]
  BY Carousels DEF TypeInv, Section
<1>5. s.events \in Seq(Event) /\ l \in DOMAIN s.events /\ s.events[l].size \in Int
  <2> HIDE DEF s
  <2>1. s.events \in Seq(Event)
    BY <1>2 DEF Content
  <2>2. l \in DOMAIN s.events /\ s.events[l] \in Event
    BY <1>3, <2>1
  <2> QED BY <2>1, <2>2 DEF Event
<1>6. s.events[l].size >= LeastSize(Kind[f]) /\ s.events[l].size < 0
  BY <1>3, <1>4, <1>5, SizeAssumption DEF RunsAway
<1> HIDE DEF s
<1>7. Kind[f] = "title"
  BY <1>5, <1>6 DEF LeastSize
<1> QED BY <1>3, <1>4, <1>5, <1>7 DEF MayCrash

(* The grabber only dies of such a title.                                  *)
CrashInv == phase = "crashed" => MayCrash

(* Every step keeps that.                                                  *)
LEMMA CrashInvStep == TypeInv /\ RoomInv /\ CrashInv /\ [Next]_vars => CrashInv'
<1> SUFFICES ASSUME TypeInv, RoomInv, CrashInv, [Next]_vars, phase' = "crashed"
             PROVE  MayCrash'
  BY DEF CrashInv
<1>1. broadcast' = broadcast
  BY DEF Next, Turn, Leave, Read, PassOverShort, FinishTurn, TakeSection, ReadDamaged,
         ReadFails, Advance, CopyRunsAway, Change, air, vars
<1>2. phase' = phase \/ \E f \in Filter : CopyRunsAway(f)
  BY DEF Next, Turn, Leave, Read, PassOverShort, FinishTurn, TakeSection, ReadDamaged,
         ReadFails, Reads, Change, vars
<1>3. MayCrash
  BY <1>2, RunsAwayOnAir DEF CrashInv
<1> QED BY <1>1, <1>3 DEF MayCrash

(* So it is always a title of a negative length.                           *)
LEMMA CrashAlways == Spec => []CrashInv
<1>1. Init => CrashInv
  BY DEF Init, CrashInv
<1>2. (TypeInv /\ RoomInv) /\ CrashInv /\ [Next]_vars => CrashInv'
  BY CrashInvStep
<1> QED BY <1>1, <1>2, RoomAlways, PTL DEF Spec

(* The tables for titles and summaries never have more entries than        *)
(* their limit and one for each further slot of the pass, although the     *)
(* handlers set IsError and the loop reads the other slots all the same.   *)
(* The texts stored leave the last byte of their buffer free; and the one  *)
(* copy the test for room does not stop is that of a title whose length,   *)
(* less 7, is negative: if the grabber dies in one, such a title is in the *)
(* carousel.                                                               *)
THEOREM OvershootIsBounded == Spec => []OvershootBounded
<1>1. TypeInv /\ RoomInv /\ CrashInv => OvershootBounded
  <2> SUFFICES ASSUME TypeInv, RoomInv, NEW k \in Kinds
               PROVE  Len(entries[k]) <= MaxEntries + MaxActive - 1 /\ used[k] < MaxBytes
    BY DEF OvershootBounded, CrashInv
  <2>1. Len(entries[k]) \in Nat /\ MaxEntries \in Nat \ {0} /\ MaxActive \in Nat \ {0}
    BY TablesAssumption, Types
  <2>2. Cardinality(pass) \in Nat
    BY PassFits
  <2> QED BY <2>1, <2>2 DEF RoomInv
<1> QED BY <1>1, RoomAlways, CrashAlways, PTL

-----------------------------------------------------------------------------
(* Whether the section at i was on the air since the one at `from'.        *)
Before(from, p, i) == IF from < p THEN from <= i /\ i < p ELSE from <= i \/ i < p

(* The handler may have left the section read last because of an error.    *)
Excused(f) == isError /\ f \notin pass

Times(b) == IF b THEN 1 ELSE 0

(* What filter f, whose turn began at `from' under version v, has stored.  *)
SinceTurnBegan(f, from, v) ==
    LET b == broadcast[f] IN
    /\ ~b[from].short /\ initial[f] = {<<b[from].id, v>>} /\ v <= Version(f)
    /\ f \notin changed =>
         \A i \in DOMAIN b : \A e \in Taken(f, b[i]) :
             CountOf(f, e, 0) <= Times(f \in hit) + Times(step[f] # 1 \/ Before(from, pos[f], i))
    /\ f \notin hit /\ ended[f] = "turn" =>
         \A e \in EventsOf(f) : CountOf(f, e, v) = 1 /\ CountOf(f, e, 1 - v) = 0
    /\ f \notin hit /\ step[f] = 1 /\ v = Version(f) /\ ~Excused(f) =>
         \A i \in DOMAIN b : \A e \in Taken(f, b[i]) :
             CountOf(f, e, v) = Times(Before(from, pos[f], i)) /\ CountOf(f, e, 1 - v) = 0

TurnInvOf(f) ==
    /\ step[f] \in {0, 1} => ended[f] = "no"
    /\ step[f] = 0 => initial[f] = {}
    /\ initial[f] = {} =>
         /\ ended[f] # "turn"
         /\ \A e \in Eid : \A v \in {0, 1} : CountOf(f, e, v) = 0
    /\ initial[f] # {} =>
         \E from \in DOMAIN broadcast[f] : \E v \in {0, 1} : SinceTurnBegan(f, from, v)

TurnInv == \A f \in Filter : TurnInvOf(f)

(* What TurnIsComplete counts are the entries of a filter that are         *)
(* alike.                                                                  *)
LEMMA CountIs ==
    \A f \in Filter : \A e, v : CountOf(f, e, v) = Count(entries[Kind[f]], EntryOf(f, v, e))
BY DEF CountOf, Count, EntryOf

(* A count of entries is a number.                                         *)
LEMMA CountNatural ==
    ASSUME NEW t \in Seq(Entry), NEW x
    PROVE  Count(t, x) \in Nat
<1> DEFINE n == Len(t)
           Alike == {j \in DOMAIN t : t[j] = x}
<1>1. n \in Nat /\ Alike \in SUBSET (1 .. n)
  OBVIOUS
<1>2. IsFiniteSet(1 .. n)
  BY <1>1, FS_Interval
<1> HIDE DEF Alike, n
<1>3. Cardinality(Alike) \in Nat
  BY <1>1, <1>2, FS_Subset, FS_CardinalityType
<1> QED BY <1>3 DEF Count, Alike

(* And so is what TurnIsComplete counts.                                   *)
LEMMA CountIsNatural ==
    ASSUME TypeInv, NEW f \in Filter, NEW e, NEW v
    PROVE  CountOf(f, e, v) \in Nat
<1>1. entries[Kind[f]] \in Seq(Entry)
  BY Filters, Types
<1> QED BY <1>1, CountNatural, CountIs

(* What was on the air, when the next section comes.                       *)
LEMMA BeforeAdvances ==
    ASSUME NEW n \in Nat \ {0}, NEW from \in 1 .. n, NEW p \in 1 .. n, NEW j \in 1 .. n
    PROVE  LET q == IF p = n THEN 1 ELSE p + 1 IN
           /\ from = p => (Before(from, q, j) <=> j = p) /\ Before(from, p, j)
           /\ from # p => /\ Before(from, q, j) <=> Before(from, p, j) \/ j = p
                          /\ ~Before(from, p, p)
BY DEF Before

(* An event is taken from one section of its carousel only.                *)
LEMMA TakenOnce ==
    ASSUME NEW b \in Broadcasts, NEW f \in Filter
    PROVE  /\ \A i \in DOMAIN b[f] : Taken(f, b[f][i]) \subseteq Eid
           /\ \A i, j \in DOMAIN b[f] : \A e \in Taken(f, b[f][i]) :
                  e \in Taken(f, b[f][j]) => i = j
<1>1. ASSUME NEW i \in DOMAIN b[f], NEW e \in Taken(f, b[f][i])
      PROVE  \E k \in DOMAIN b[f][i].events : b[f][i].events[k].eid = e
  BY <1>1 DEF Taken
<1>2. ASSUME NEW i \in DOMAIN b[f], NEW e \in Taken(f, b[f][i])
      PROVE  e \in Eid
  <2>1. b[f][i] \in Content
    BY Carousels
  <2>2. b[f][i].events \in Seq(Event)
    BY <2>1 DEF Content
  <2>3. \A k \in DOMAIN b[f][i].events : b[f][i].events[k] \in Event
    BY <2>2
  <2> QED BY <1>1, <2>3 DEF Event
<1> QED BY <1>1, <1>2, CarouselAssumption

(* The events taken from a section that is stored to its end are all       *)
(* that TurnIsComplete asks for.                                           *)
LEMMA TakenIs ==
    ASSUME NEW f \in Filter, NEW s \in Content, ~s.short, ~s.blank
    PROVE  Taken(f, s) = TakenUpTo(f, s.events, Len(s.events))
<1>1. DOMAIN s.events = 1 .. Len(s.events)
  BY DEF Content
<1> QED BY <1>1 DEF Taken, TakenUpTo, Unstopped

(* How a section changes what is counted.                                  *)
LEMMA CountsOfOthers ==
    ASSUME TypeInv, RoomInv, NEW f \in Filter, Read(f)
    PROVE  /\ \A g \in Filter \ {f} : \A e, v : CountOf(g, e, v)' = CountOf(g, e, v)
           /\ \A e, v : v # Version(f) => CountOf(f, e, v)' = CountOf(f, e, v)
           /\ isError => isError'
<1>1. CASE UNCHANGED tables
  BY <1>1 DEF tables, CountOf
<1>2. CASE ~ UNCHANGED tables
  <2> DEFINE t == StoreEvents(f, Section(f).events)
  <2>1. /\ Room(Start(f), t)
        /\ Progress(f, Section(f).events, Start(f), t, Len(Section(f).events))
        /\ entries' = [entries EXCEPT ![Kind[f]] = t.entries] /\ isError' = t.error
    BY <1>2, ReadTables
  <2> HIDE DEF t
  <2>2. ASSUME NEW x, \A e : x # EntryOf(f, Version(f), e)
        PROVE  Count(t.entries, x) = Count(entries[Kind[f]], x)
    BY <2>1, <2>2 DEF Progress, Start
  <2>3. ASSUME NEW g \in Filter, NEW e, NEW v, g # f \/ v # Version(f)
        PROVE  CountOf(g, e, v)' = CountOf(g, e, v)
    <3>1. \A d : EntryOf(g, v, e) # EntryOf(f, Version(f), d)
      BY <2>3 DEF EntryOf
    <3>2. entries'[Kind[g]] = IF Kind[g] = Kind[f] THEN t.entries ELSE entries[Kind[g]]
      BY <2>1, Filters, Types
    <3>3. CountOf(g, e, v)' = Count(entries'[Kind[g]], EntryOf(g, v, e))
      BY CountIs DEF CountOf, Count, EntryOf
    <3> QED BY <2>2, <3>1, <3>2, <3>3, CountIs
  <2>4. isError => isError'
    BY <2>1 DEF Room, Start
  <2> QED BY <2>3, <2>4
<1> QED BY <1>1, <1>2

(* A section that is taken adds each of its events once, unless an error   *)
(* made the handler leave it; then no more than once.                      *)
LEMMA CountsTaken ==
    ASSUME TypeInv, RoomInv, NEW f \in Filter, TakeSection(f), NEW v, v = Version(f)
    PROVE  /\ \A e : e \notin Taken(f, Section(f)) => CountOf(f, e, v)' = CountOf(f, e, v)
           /\ \A e \in Taken(f, Section(f)) :
                 /\ CountOf(f, e, v)' <= CountOf(f, e, v) + 1
                 /\ ~isError' => CountOf(f, e, v)' = CountOf(f, e, v) + 1
<1>1. CASE Section(f).blank
  <2>1. Taken(f, Section(f)) = {}
    BY <1>1 DEF Taken
  <2>2. entries' = entries
    BY <1>1 DEF TakeSection, tables
  <2>3. \A e : CountOf(f, e, v)' = CountOf(f, e, v)
    BY <2>2 DEF CountOf
  <2> QED BY <2>1, <2>3
<1>2. CASE ~Section(f).blank
  <2> DEFINE t == StoreEvents(f, Section(f).events)
             D == TakenUpTo(f, Section(f).events, Len(Section(f).events))
  <2>1. Kind[f] \in Kinds
    BY Filters
  <2>2. used[Kind[f]] < MaxBytes /\ (isError \/ Len(entries[Kind[f]]) < MaxEntries)
    BY <2>1 DEF RoomInv
  <2>3. /\ Section(f) \in Content
        /\ Progress(f, Section(f).events, Start(f), t, Len(Section(f).events))
    BY <2>2, TakenSection
  <2>4. /\ ~Section(f).short /\ ~t.crashed
        /\ entries' = [entries EXCEPT ![Kind[f]] = t.entries] /\ isError' = t.error
    BY <1>2 DEF TakeSection
  <2>5. D = Taken(f, Section(f))
    BY <1>2, <2>3, <2>4, TakenIs
  <2> HIDE DEF t
  <2>6. entries'[Kind[f]] = t.entries
    BY <2>1, <2>4, Types
  <2>7. \A e : CountOf(f, e, v)' = Count(t.entries, EntryOf(f, v, e))
    BY <2>6 DEF CountOf, Count, EntryOf
  <2>8. ASSUME NEW e, e \notin D
        PROVE  Count(t.entries, EntryOf(f, Version(f), e))
                 = Count(entries[Kind[f]], EntryOf(f, Version(f), e))
    <3>1. \A d \in D : EntryOf(f, Version(f), e) # EntryOf(f, Version(f), d)
      BY <2>8 DEF EntryOf
    <3> QED BY <2>3, <3>1 DEF Progress, Start
  <2>9. ASSUME NEW e \in D
        PROVE  LET x == EntryOf(f, Version(f), e) IN
               /\ Count(t.entries, x) <= Count(entries[Kind[f]], x) + 1
               /\ ~isError' => Count(t.entries, x) = Count(entries[Kind[f]], x) + 1
    BY <2>3, <2>4 DEF Progress, Start
  <2> HIDE DEF D
  <2> QED BY <2>5, <2>7, <2>8, <2>9, CountIs
<1> QED BY <1>1, <1>2

(* The invariant of a filter that is not the one that reads.               *)
LEMMA TurnKept ==
    ASSUME NEW g \in Filter, TurnInvOf(g), broadcast' = broadcast, pos'[g] = pos[g],
           g \in changed' <=> g \in changed, g \in hit' <=> g \in hit,
           initial'[g] = initial[g], ended'[g] = ended[g],
           \A e, v : CountOf(g, e, v)' = CountOf(g, e, v), Excused(g) => Excused(g)',
           \/ step'[g] = step[g]
           \/ step[g] = 0 /\ step'[g] = 1
           \/ step[g] = 2 /\ step'[g] = 3
    PROVE  TurnInvOf(g)'
<1>1. CASE initial[g] = {}
  BY <1>1 DEF TurnInvOf
<1>2. CASE initial[g] # {}
  <2>1. PICK from \in DOMAIN broadcast[g], v \in {0, 1} : SinceTurnBegan(g, from, v)
    BY <1>2 DEF TurnInvOf
  <2>2. Version(g)' = Version(g) /\ EventsOf(g)' = EventsOf(g)
    BY DEF Version, EventsOf
  <2>3. step[g] # 0 /\ (step'[g] = 1 <=> step[g] = 1)
        /\ (step'[g] \in {0, 1} => step[g] \in {0, 1})
    BY <1>2 DEF TurnInvOf
  <2> DEFINE b == broadcast[g]
  <2>4. g \notin changed => \A j \in DOMAIN b : \A e \in Taken(g, b[j]) :
           CountOf(g, e, 0)' <= Times(g \in hit) + Times(step'[g] # 1 \/ Before(from, pos[g], j))
    BY <2>1, <2>3 DEF SinceTurnBegan
  <2>5. g \notin hit /\ ended[g] = "turn" =>
           \A e \in EventsOf(g) : CountOf(g, e, v)' = 1 /\ CountOf(g, e, 1 - v)' = 0
    BY <2>1 DEF SinceTurnBegan
  <2>6. g \notin hit /\ step'[g] = 1 /\ v = Version(g) /\ ~Excused(g)' =>
           \A j \in DOMAIN b : \A e \in Taken(g, b[j]) :
             CountOf(g, e, v)' = Times(Before(from, pos[g], j)) /\ CountOf(g, e, 1 - v)' = 0
    BY <2>1, <2>3 DEF SinceTurnBegan
  <2>7. ~b[from].short /\ initial'[g] = {<<b[from].id, v>>} /\ v <= Version(g)
    BY <2>1 DEF SinceTurnBegan
  <2>8. SinceTurnBegan(g, from, v)'
    BY <2>2, <2>4, <2>5, <2>6, <2>7 DEF SinceTurnBegan
  <2>9. step'[g] \in {0, 1} => ended'[g] = "no"
    BY <2>3 DEF TurnInvOf
  <2> QED BY <1>2, <2>1, <2>3, <2>8, <2>9 DEF TurnInvOf
<1> QED BY <1>1, <1>2

(* The filter that reads is running, and its carousel goes on.             *)
LEMMA Reader ==
    ASSUME TypeInv, TurnInv, NEW f \in Filter, f \in pass
    PROVE  /\ step[f] = 1 /\ ended[f] = "no" /\ TurnInvOf(f) /\ ~Excused(f)
           /\ broadcast \in Broadcasts
           /\ DOMAIN broadcast[f] = 1 .. Len(broadcast[f]) /\ Len(broadcast[f]) \in Nat \ {0}
           /\ pos[f] \in 1 .. Len(broadcast[f])
<1>1. step[f] = 1
  BY DEF TypeInv, InStep
<1>2. broadcast \in Broadcasts /\ pos[f] \in 1 .. Len(broadcast[f])
  BY DEF TypeInv
<1> QED BY <1>1, <1>2, Carousels DEF TurnInv, TurnInvOf, Excused

(* Reading moves the carousel of the filter by one, and nothing else of    *)
(* it.                                                                     *)
LEMMA PosAdvances ==
    ASSUME TypeInv, NEW f \in Filter, Advance(f)
    PROVE  /\ pos'[f] = IF pos[f] = Len(broadcast[f]) THEN 1 ELSE pos[f] + 1
           /\ broadcast' = broadcast /\ changed' = changed /\ Version(f)' = Version(f)
BY DEF Advance, TypeInv, Version

(* What tells the sections of a carousel apart (CarouselAssumption), for   *)
(* the carousel on the air.                                                *)
LEMMA SectionsDiffer ==
    ASSUME TypeInv, NEW f \in Filter
    PROVE  LET b == broadcast[f] IN
           /\ DOMAIN b = 1 .. Len(b) /\ Len(b) \in Nat \ {0} /\ pos[f] \in 1 .. Len(b)
           /\ \A i, j \in DOMAIN b : b[i].id = b[j].id => i = j
           /\ \A i \in DOMAIN b : Taken(f, b[i]) \subseteq Eid
           /\ \A i, j \in DOMAIN b : \A e \in Taken(f, b[i]) : e \in Taken(f, b[j]) => i = j
<1>1. PICK a \in Broadcasts : a = broadcast
  BY DEF TypeInv
<1>2. \A i, j \in DOMAIN a[f] : a[f][i].id = a[f][j].id => i = j
  <2> SUFFICES ASSUME NEW i \in DOMAIN a[f], NEW j \in DOMAIN a[f], a[f][i].id = a[f][j].id
               PROVE  i = j
    OBVIOUS
  <2> QED BY CarouselAssumption
<1>3. /\ \A i \in DOMAIN a[f] : Taken(f, a[f][i]) \subseteq Eid
      /\ \A i, j \in DOMAIN a[f] : \A e \in Taken(f, a[f][i]) :
            e \in Taken(f, a[f][j]) => i = j
  BY TakenOnce, Zenon
<1>4. a[f] \in Seq(Content) \ {<<>>}
  BY Carousels
<1>5. DOMAIN a[f] = 1 .. Len(a[f]) /\ Len(a[f]) \in Nat \ {0}
  BY <1>4
<1>6. pos[f] \in 1 .. Len(a[f])
  BY <1>1 DEF TypeInv
<1> QED BY <1>1, <1>2, <1>3, <1>5, <1>6

(* What was on the air since the turn began, after one section more.       *)
LEMMA SeenAdvances ==
    ASSUME TypeInv, NEW f \in Filter, Advance(f),
           NEW from \in DOMAIN broadcast[f], NEW j \in DOMAIN broadcast[f]
    PROVE  /\ from = pos[f] => /\ Before(from, pos'[f], j) <=> j = pos[f]
                               /\ Before(from, pos[f], j)
           /\ from # pos[f] => /\ Before(from, pos'[f], j) <=> Before(from, pos[f], j) \/ j = pos[f]
                               /\ ~Before(from, pos[f], pos[f])
<1> DEFINE n == Len(broadcast[f])
<1>1. n \in Nat \ {0} /\ from \in 1 .. n /\ pos[f] \in 1 .. n /\ j \in 1 .. n
  BY SectionsDiffer
<1>2. pos'[f] = IF pos[f] = n THEN 1 ELSE pos[f] + 1
  BY PosAdvances
<1> HIDE DEF n
<1> QED BY <1>1, <1>2, BeforeAdvances

(* A turn ends where it began: the header remembered comes again under     *)
(* the same version, so every section was on the air since.                *)
LEMMA TurnFinishes ==
    ASSUME TypeInv, TurnInv, NEW f \in Filter, FinishTurn(f)
    PROVE  TurnInvOf(f)'
<1> DEFINE b == broadcast[f]
           p == pos[f]
<1>1. /\ f \in pass /\ initial[f] = {Header(f)} /\ Advance(f) /\ UNCHANGED <<hit, initial, tables>>
      /\ step'[f] = 2 /\ ended'[f] = "turn"
  BY DEF FinishTurn, Reads, TypeInv
<1>2. PICK from \in DOMAIN b, v \in {0, 1} : SinceTurnBegan(f, from, v)
  BY <1>1, Reader DEF TurnInvOf
<1>3. p \in DOMAIN b /\ from = p /\ v = Version(f)
  <2>1. initial[f] = {<<b[from].id, v>>} /\ initial[f] = {<<b[p].id, Version(f)>>}
    BY <1>1, <1>2 DEF SinceTurnBegan, Header, Section
  <2>2. <<b[from].id, v>> = <<b[p].id, Version(f)>>
    BY <2>1, Zenon
  <2>3. b[from].id = b[p].id /\ v = Version(f)
    BY <2>2, Zenon
  <2> QED BY <2>3, SectionsDiffer
<1>4. \A j \in DOMAIN b : Before(from, p, j)
  BY <1>1, <1>3, SeenAdvances
<1>5. \A e, w : CountOf(f, e, w)' = CountOf(f, e, w)
  BY <1>1 DEF tables, CountOf
<1>6. /\ broadcast' = broadcast /\ changed' = changed /\ Version(f)' = Version(f)
      /\ EventsOf(f)' = EventsOf(f)
  BY <1>1, PosAdvances DEF EventsOf
<1>7. f \notin changed => \A j \in DOMAIN b : \A e \in Taken(f, b[j]) :
         CountOf(f, e, 0)' <= Times(f \in hit) + 1
  <2>1. \A e : CountOf(f, e, 0) \in Nat
    BY CountIsNatural
  <2> QED BY <1>2, <1>4, <1>5, <2>1 DEF SinceTurnBegan, Times
<1>8. f \notin hit => \A e \in EventsOf(f) : CountOf(f, e, v)' = 1 /\ CountOf(f, e, 1 - v)' = 0
  <2> SUFFICES ASSUME f \notin hit, NEW e \in EventsOf(f)
               PROVE  CountOf(f, e, v) = 1 /\ CountOf(f, e, 1 - v) = 0
    BY <1>5
  <2>1. PICK j \in DOMAIN b : e \in Taken(f, b[j])
    BY DEF EventsOf
  <2> QED BY <1>1, <1>2, <1>3, <1>4, <2>1, Reader DEF SinceTurnBegan, Times
<1>9. SinceTurnBegan(f, from, v)'
  BY <1>1, <1>2, <1>6, <1>7, <1>8 DEF SinceTurnBegan, Times
<1> QED BY <1>1, <1>2, <1>6, <1>9 DEF TurnInvOf

(* A section too short for a header is passed over, and has no events.     *)
LEMMA ShortPassed ==
    ASSUME TypeInv, TurnInv, NEW f \in Filter, PassOverShort(f)
    PROVE  TurnInvOf(f)'
<1> DEFINE b == broadcast[f]
           p == pos[f]
<1>1. /\ f \in pass /\ Advance(f) /\ UNCHANGED <<hit, step, initial, ended, tables>>
      /\ b[p].short /\ f \notin pass'
  BY DEF PassOverShort, Reads, Section
<1>2. \A e, w : CountOf(f, e, w)' = CountOf(f, e, w)
  BY <1>1 DEF tables, CountOf
<1>3. /\ broadcast' = broadcast /\ changed' = changed /\ Version(f)' = Version(f)
      /\ EventsOf(f)' = EventsOf(f)
  BY <1>1, PosAdvances DEF EventsOf
<1>4. CASE initial[f] = {}
  BY <1>1, <1>2, <1>4, Reader DEF TurnInvOf
<1>5. CASE initial[f] # {}
  <2>1. PICK from \in DOMAIN b, v \in {0, 1} : SinceTurnBegan(f, from, v)
    BY <1>1, <1>5, Reader DEF TurnInvOf
  <2>2. from # p
    BY <1>1, <2>1 DEF SinceTurnBegan
  <2>3. \A j \in DOMAIN b : \A e \in Taken(f, b[j]) : Before(from, pos'[f], j) <=> Before(from, p, j)
    <3>1. \A j \in DOMAIN b : Before(from, pos'[f], j) <=> Before(from, p, j) \/ j = p
      BY <1>1, <2>2, SeenAdvances
    <3>2. Taken(f, b[p]) = {}
      BY <1>1 DEF Taken
    <3> QED BY <3>1, <3>2
  <2>4. Excused(f)' <=> isError
    BY <1>1 DEF Excused, tables
  <2>5. f \notin changed => \A j \in DOMAIN b : \A e \in Taken(f, b[j]) :
           CountOf(f, e, 0)' <= Times(f \in hit) + Times(step[f] # 1 \/ Before(from, pos'[f], j))
    BY <1>2, <2>1, <2>3 DEF SinceTurnBegan
  <2>6. f \notin hit /\ step[f] = 1 /\ v = Version(f) /\ ~isError =>
           \A j \in DOMAIN b : \A e \in Taken(f, b[j]) :
             CountOf(f, e, v)' = Times(Before(from, pos'[f], j)) /\ CountOf(f, e, 1 - v)' = 0
    <3> SUFFICES ASSUME f \notin hit, step[f] = 1, v = Version(f), ~isError,
                        NEW j \in DOMAIN b, NEW e \in Taken(f, b[j])
                 PROVE  /\ CountOf(f, e, v)' = Times(Before(from, pos'[f], j))
                        /\ CountOf(f, e, 1 - v)' = 0
      OBVIOUS
    <3>1. CountOf(f, e, v) = Times(Before(from, p, j)) /\ CountOf(f, e, 1 - v) = 0
      BY <2>1 DEF SinceTurnBegan, Excused
    <3>2. Times(Before(from, pos'[f], j)) = Times(Before(from, p, j))
      BY <2>3 DEF Times
    <3> QED BY <1>2, <3>1, <3>2
  <2>7. SinceTurnBegan(f, from, v)'
    BY <1>1, <1>3, <2>1, <2>4, <2>5, <2>6, Reader DEF SinceTurnBegan
  <2> QED BY <1>1, <1>3, <1>5, <2>1, <2>7, Reader DEF TurnInvOf
<1> QED BY <1>4, <1>5

(* A damaged section may make the carousel go round once more.             *)
LEMMA SectionMissed ==
    ASSUME TypeInv, TurnInv, NEW f \in Filter, ReadDamaged(f)
    PROVE  TurnInvOf(f)'
<1> DEFINE b == broadcast[f]
<1>1. /\ f \in pass /\ Advance(f) /\ UNCHANGED <<step, initial, ended, tables>>
      /\ f \notin hit /\ f \in hit'
  BY DEF ReadDamaged, Reads
<1>2. \A e, w : CountOf(f, e, w)' = CountOf(f, e, w)
  BY <1>1 DEF tables, CountOf
<1>3. broadcast' = broadcast /\ changed' = changed /\ Version(f)' = Version(f)
  BY <1>1, PosAdvances
<1>4. CASE initial[f] = {}
  BY <1>1, <1>2, <1>4, Reader DEF TurnInvOf
<1>5. CASE initial[f] # {}
  <2>1. PICK from \in DOMAIN b, v \in {0, 1} : SinceTurnBegan(f, from, v)
    BY <1>1, <1>5, Reader DEF TurnInvOf
  <2>2. f \notin changed => \A j \in DOMAIN b : \A e \in Taken(f, b[j]) :
           CountOf(f, e, 0)' <= 1 + Times(step'[f] # 1 \/ Before(from, pos'[f], j))
    <3>1. \A e : CountOf(f, e, 0) \in Nat
      BY CountIsNatural
    <3> QED BY <1>1, <1>2, <2>1, <3>1 DEF SinceTurnBegan, Times
  <2>3. SinceTurnBegan(f, from, v)'
    BY <1>1, <1>3, <2>1, <2>2, Reader DEF SinceTurnBegan, Times
  <2> QED BY <1>1, <1>3, <1>5, <2>1, <2>3, Reader DEF TurnInvOf
<1> QED BY <1>4, <1>5

(* A filter that ends by a timeout or an error keeps what it stored.       *)
LEMMA GivenUp ==
    ASSUME TypeInv, TurnInv, NEW f \in Filter, ReadFails(f)
    PROVE  TurnInvOf(f)'
<1> DEFINE b == broadcast[f]
<1>1. /\ f \in pass /\ initial' = initial /\ broadcast' = broadcast /\ pos' = pos
      /\ changed' = changed /\ hit' = hit /\ entries' = entries
      /\ step'[f] = 2 /\ ended'[f] # "turn"
  <2>1. ended' = [ended EXCEPT ![f] = "given up"] /\ f \in DOMAIN ended
    BY Zenon DEF ReadFails, TypeInv
  <2>2. ended'[f] = "given up"
    BY <2>1, Zenon
  <2>3. ended'[f] # "turn"
    BY <2>2, Zenon
  <2> QED BY <2>3 DEF ReadFails, Reads, TypeInv, air, tables
<1>2. \A e, w : CountOf(f, e, w)' = CountOf(f, e, w)
  BY <1>1 DEF CountOf
<1>3. Version(f)' = Version(f)
  BY <1>1 DEF Version
<1>4. CASE initial[f] = {}
  <2>1. \A e \in Eid : \A v \in {0, 1} : CountOf(f, e, v)' = 0
    BY <1>1, <1>2, <1>4, Reader DEF TurnInvOf
  <2> QED BY <1>1, <1>4, <2>1 DEF TurnInvOf
<1>5. CASE initial[f] # {}
  <2>1. PICK from \in DOMAIN b, v \in {0, 1} : SinceTurnBegan(f, from, v)
    BY <1>1, <1>5, Reader DEF TurnInvOf
  <2>2. f \notin changed => \A j \in DOMAIN b : \A e \in Taken(f, b[j]) :
           CountOf(f, e, 0)' <= Times(f \in hit) + 1
    <3> SUFFICES ASSUME f \notin changed, NEW j \in DOMAIN b, NEW e \in Taken(f, b[j])
                 PROVE  CountOf(f, e, 0)' <= Times(f \in hit) + 1
      OBVIOUS
    <3>1. CountOf(f, e, 0) \in Nat
      BY CountIsNatural
    <3>2. CountOf(f, e, 0) <= Times(f \in hit) + Times(step[f] # 1 \/ Before(from, pos[f], j))
      BY <2>1 DEF SinceTurnBegan
    <3> QED BY <1>2, <3>1, <3>2 DEF Times
  <2>3. ~b[from].short /\ initial'[f] = {<<b[from].id, v>>} /\ v <= Version(f)'
    BY <1>1, <1>3, <2>1 DEF SinceTurnBegan
  <2>4. SinceTurnBegan(f, from, v)'
    BY <1>1, <2>2, <2>3 DEF SinceTurnBegan, Times
  <2> QED BY <1>1, <1>5, <2>4 DEF TurnInvOf
<1> QED BY <1>4, <1>5

(* A version that changes makes a turn that began before it endless.       *)
LEMMA VersionChanged ==
    ASSUME TypeInv, TurnInv, NEW f \in Filter, Change(f)
    PROVE  TurnInvOf(f)'
<1> DEFINE b == broadcast[f]
<1>1. /\ f \notin changed /\ f \in changed'
      /\ UNCHANGED <<broadcast, pos, hit, step, initial, ended, tables>>
  BY DEF Change
<1>2. \A e, w : CountOf(f, e, w)' = CountOf(f, e, w)
  BY <1>1 DEF tables, CountOf
<1>3. Version(f) = 0 /\ Version(f)' = 1 /\ EventsOf(f)' = EventsOf(f)
  BY <1>1 DEF Version, EventsOf
<1>4. CASE initial[f] = {}
  BY <1>1, <1>2, <1>4 DEF TurnInv, TurnInvOf
<1>5. CASE initial[f] # {}
  <2>1. PICK from \in DOMAIN b, v \in {0, 1} : SinceTurnBegan(f, from, v)
    BY <1>5 DEF TurnInv, TurnInvOf
  <2>2. v = 0
    BY <1>3, <2>1 DEF SinceTurnBegan
  <2>3. f \notin hit /\ ended[f] = "turn" =>
           \A e \in EventsOf(f) : CountOf(f, e, v)' = 1 /\ CountOf(f, e, 1 - v)' = 0
    BY <1>2, <2>1 DEF SinceTurnBegan
  <2>4. SinceTurnBegan(f, from, v)'
    BY <1>1, <1>3, <2>1, <2>2, <2>3 DEF SinceTurnBegan
  <2> QED BY <1>1, <1>5, <2>1, <2>4 DEF TurnInv, TurnInvOf
<1> QED BY <1>4, <1>5

(* The first section taken begins the turn; each further one adds its      *)
(* events, which nobody counted since the turn began.                      *)
LEMMA SectionStored ==
    ASSUME TypeInv, TypeInv', RoomInv, TurnInv, NEW f \in Filter, TakeSection(f)
    PROVE  TurnInvOf(f)'
<1> DEFINE b == broadcast[f]
<1>0. PICK w \in {0, 1} : w = Version(f)
  BY DEF Version
<1>p. PICK p \in DOMAIN b : p = pos[f]
  BY SectionsDiffer
<1>1. /\ f \in pass /\ f \notin pass' /\ Advance(f) /\ UNCHANGED <<hit, step, ended>>
      /\ Read(f) /\ Section(f) = b[p] /\ ~b[p].short
      /\ initial[f] # {<<b[p].id, w>>}
      /\ initial'[f] = IF initial[f] = {} THEN {<<b[p].id, w>>} ELSE initial[f]
  BY <1>0, <1>p DEF TakeSection, Reads, Read, Section, Remember, Header, TypeInv
<1>2. /\ step[f] = 1 /\ ended[f] = "no" /\ ~Excused(f)
      /\ (isError => isError') /\ (Excused(f)' <=> isError')
  BY <1>1, Reader, CountsOfOthers DEF Excused
<1>3. broadcast' = broadcast /\ changed' = changed /\ Version(f)' = Version(f)
      /\ EventsOf(f)' = EventsOf(f)
  BY <1>1, PosAdvances DEF EventsOf
<1>4. ASSUME NEW j \in DOMAIN b, NEW e \in Taken(f, b[j])
      PROVE  /\ e \in Eid
             /\ CountOf(f, e, w) \in Nat /\ CountOf(f, e, w)' \in Nat
             /\ j # p => CountOf(f, e, w)' = CountOf(f, e, w)
             /\ j = p => /\ CountOf(f, e, w)' <= CountOf(f, e, w) + 1
                         /\ ~isError' => CountOf(f, e, w)' = CountOf(f, e, w) + 1
             /\ CountOf(f, e, 1 - w)' = CountOf(f, e, 1 - w)
  <2>1. e \in Eid /\ (j # p => e \notin Taken(f, b[p])) /\ (j = p => e \in Taken(f, b[p]))
    BY <1>4, SectionsDiffer
  <2>2. 1 - w # Version(f)
    BY <1>0
  <2>3. CountOf(f, e, w) \in Nat /\ CountOf(f, e, w)' \in Nat
    <3>0. entries' \in [Kinds -> Seq(Entry)]
      BY DEF TypeInv
    <3>1. entries'[Kind[f]] \in Seq(Entry)
      BY <3>0, Filters
    <3>2. CountOf(f, e, w)' = Count(entries'[Kind[f]], EntryOf(f, w, e))
      BY DEF CountOf, Count, EntryOf
    <3> QED BY <3>1, <3>2, CountIsNatural, CountNatural
  <2> QED BY <1>0, <1>1, <2>1, <2>2, <2>3, CountsOfOthers, CountsTaken
<1>5. CASE initial[f] = {}
  <2>1. \A e \in Eid : CountOf(f, e, w) = 0 /\ CountOf(f, e, 1 - w) = 0
    BY <1>1, <1>5, Reader DEF TurnInvOf
  <2>2. f \notin changed => w = 0
    BY <1>0 DEF Version
  <2>3. ASSUME NEW j \in DOMAIN b
        PROVE  Before(p, pos'[f], j) <=> j = p
    BY <1>1, <1>2, <1>p, SeenAdvances
  <2>4. ASSUME NEW j \in DOMAIN b, NEW e \in Taken(f, b[j])
        PROVE  /\ CountOf(f, e, w)' <= Times(Before(p, pos'[f], j))
               /\ ~isError' => CountOf(f, e, w)' = Times(Before(p, pos'[f], j))
               /\ CountOf(f, e, 1 - w)' = 0
    BY <1>4, <2>1, <2>3, <2>4 DEF Times
  <2>5. f \notin changed => \A j \in DOMAIN b : \A e \in Taken(f, b[j]) :
           CountOf(f, e, 0)' <= Times(f \in hit) + Times(step[f] # 1 \/ Before(p, pos'[f], j))
    <3> SUFFICES ASSUME f \notin changed, NEW j \in DOMAIN b, NEW e \in Taken(f, b[j])
                 PROVE  CountOf(f, e, w)' <= Times(f \in hit) + Times(step[f] # 1 \/ Before(p, pos'[f], j))
      BY <2>2
    <3>1. CountOf(f, e, w)' \in Nat /\ CountOf(f, e, w)' <= Times(Before(p, pos'[f], j))
      BY <1>4, <2>4
    <3> QED BY <1>2, <3>1 DEF Times
  <2>6. SinceTurnBegan(f, p, w)'
    BY <1>0, <1>1, <1>2, <1>3, <1>5, <2>4, <2>5 DEF SinceTurnBegan
  <2>7. step'[f] = 1 /\ ended'[f] = "no" /\ initial'[f] # {} /\ p \in DOMAIN broadcast'[f]
    BY <1>1, <1>2, <1>3, <1>5
  <2> QED BY <1>0, <2>6, <2>7 DEF TurnInvOf
<1>6. CASE initial[f] # {}
  <2>1. PICK from \in DOMAIN b, v \in {0, 1} : SinceTurnBegan(f, from, v)
    BY <1>1, <1>6, Reader DEF TurnInvOf
  <2>2. v <= w /\ initial[f] = {<<b[from].id, v>>} /\ initial'[f] = initial[f] /\ ~b[from].short
    BY <1>0, <1>1, <1>6, <2>1 DEF SinceTurnBegan
  <2>3. v = w => from # p
    BY <1>1, <2>2
  <2>4. f \notin changed => w = 0 /\ v = 0
    BY <1>0, <2>2 DEF Version
  <2>5. ASSUME v = w, NEW j \in DOMAIN b
        PROVE  /\ Before(from, pos'[f], j) <=> Before(from, p, j) \/ j = p
               /\ ~Before(from, p, p)
    BY <1>1, <2>3, <2>5, <1>p, SeenAdvances
  <2>6. f \notin changed => \A j \in DOMAIN b : \A e \in Taken(f, b[j]) :
           CountOf(f, e, 0)' <= Times(f \in hit) + Times(step[f] # 1 \/ Before(from, pos'[f], j))
    <3> SUFFICES ASSUME f \notin changed, NEW j \in DOMAIN b, NEW e \in Taken(f, b[j])
                 PROVE  CountOf(f, e, w)' <= Times(f \in hit) + Times(Before(from, pos'[f], j))
      BY <1>2, <2>4 DEF Times
    <3>1. CountOf(f, e, w) <= Times(f \in hit) + Times(Before(from, p, j))
      <4>1. CountOf(f, e, 0) <= Times(f \in hit) + Times(step[f] # 1 \/ Before(from, p, j))
        BY <1>p, <2>1 DEF SinceTurnBegan
      <4> QED BY <1>2, <2>4, <4>1 DEF Times
    <3>2. CASE j = p
      BY <1>4, <2>4, <2>5, <3>1, <3>2 DEF Times
    <3>3. CASE j # p
      BY <1>4, <2>4, <2>5, <3>1, <3>3 DEF Times
    <3> QED BY <3>2, <3>3
  <2>7. f \notin hit /\ v = w /\ ~isError' =>
           \A j \in DOMAIN b : \A e \in Taken(f, b[j]) :
             CountOf(f, e, v)' = Times(Before(from, pos'[f], j)) /\ CountOf(f, e, 1 - v)' = 0
    <3> SUFFICES ASSUME f \notin hit, v = w, ~isError', NEW j \in DOMAIN b, NEW e \in Taken(f, b[j])
                 PROVE  /\ CountOf(f, e, w)' = Times(Before(from, pos'[f], j))
                        /\ CountOf(f, e, 1 - w)' = 0
      OBVIOUS
    <3>1. CountOf(f, e, w) = Times(Before(from, p, j)) /\ CountOf(f, e, 1 - w) = 0
      BY <1>0, <1>p, <1>2, <2>1 DEF SinceTurnBegan
    <3>2. CASE j = p
      BY <1>4, <2>5, <3>1, <3>2 DEF Times
    <3>3. CASE j # p
      BY <1>4, <2>5, <3>1, <3>3 DEF Times
    <3> QED BY <3>2, <3>3
  <2>8. SinceTurnBegan(f, from, v)'
    BY <1>0, <1>1, <1>2, <1>3, <2>2, <2>6, <2>7 DEF SinceTurnBegan
  <2> QED BY <1>1, <1>2, <1>3, <1>6, <2>1, <2>2, <2>8 DEF TurnInvOf
<1> QED BY <1>5, <1>6

(* What the preparations of a turn make of a filter.                       *)
LEMMA Prepares ==
    ASSUME TypeInv, NEW g \in Filter, step'[g] = Prepared[g]
    PROVE  \/ step'[g] = step[g]
           \/ step[g] = 0 /\ step'[g] = 1
           \/ step[g] = 2 /\ step'[g] = 3
BY DEF Prepared, Starts

(* Nothing was stored before the first turn.                               *)
LEMMA TurnInvInit == Init => TurnInv
<1> SUFFICES ASSUME Init, NEW f \in Filter PROVE TurnInvOf(f)
  BY DEF TurnInv
<1>1. initial[f] = {} /\ ended[f] # "turn" /\ ended[f] = "no" /\ entries[Kind[f]] = <<>>
  BY Filters DEF Init
<1>2. \A e, v : CountOf(f, e, v) = 0
  BY <1>1, FS_EmptySet DEF CountOf
<1> QED BY <1>1, <1>2 DEF TurnInvOf

(* Every step keeps what is known of the turns.                            *)
LEMMA TurnInvStep ==
    TypeInv /\ TypeInv' /\ RoomInv /\ TurnInv /\ [Next]_vars => TurnInv'
<1> SUFFICES ASSUME TypeInv, TypeInv', RoomInv, TurnInv, [Next]_vars, NEW g \in Filter
             PROVE  TurnInvOf(g)'
  BY DEF TurnInv
<1>0. TurnInvOf(g)
  BY DEF TurnInv
<1>1. ASSUME NEW ready \in SUBSET Running, Turn(ready)
      PROVE  TurnInvOf(g)'
  <2>1. UNCHANGED <<broadcast, pos, changed, hit, initial, ended, entries>> /\ ~isError
        /\ step'[g] = Prepared[g]
    BY <1>1 DEF Turn, air, tables
  <2>2. \A e, v : CountOf(g, e, v)' = CountOf(g, e, v)
    BY <2>1 DEF CountOf
  <2> QED BY <1>0, <2>1, <2>2, Prepares, TurnKept DEF Excused
<1>2. CASE Leave
  <2>1. UNCHANGED <<broadcast, pos, changed, hit, initial, ended, entries, isError, pass>>
        /\ (step'[g] = step[g] \/ step'[g] = Prepared[g])
    BY <1>2 DEF Leave, air, tables
  <2>2. \A e, v : CountOf(g, e, v)' = CountOf(g, e, v)
    BY <2>1 DEF CountOf
  <2> QED BY <1>0, <2>1, <2>2, Prepares, TurnKept DEF Excused
<1>3. ASSUME NEW f \in Filter, Read(f)
      PROVE  TurnInvOf(g)'
  <2>1. CASE g = f
    BY <1>3, <2>1, ShortPassed, TurnFinishes, SectionStored, SectionMissed, GivenUp DEF Read
  <2>2. CASE g # f
    <3>1. /\ broadcast' = broadcast /\ pos'[g] = pos[g] /\ changed' = changed
          /\ (g \in hit' <=> g \in hit)
      BY <1>3, <2>2 DEF Read, PassOverShort, FinishTurn, TakeSection, ReadDamaged, ReadFails,
                        Advance, air, TypeInv
    <3>2. step'[g] = step[g] /\ initial'[g] = initial[g]
      BY <1>3, <2>2 DEF Read, PassOverShort, FinishTurn, TakeSection, ReadDamaged, ReadFails, TypeInv
    <3>3. ended'[g] = ended[g]
      <4>1. ended' = ended \/ \E x : ended' = [ended EXCEPT ![f] = x]
        BY <1>3, Zenon DEF Read, PassOverShort, FinishTurn, TakeSection, ReadDamaged, ReadFails
      <4>2. DOMAIN ended = Filter
        BY DEF TypeInv
      <4> QED BY <2>2, <4>1, <4>2
    <3>4. g \notin pass => g \notin pass'
      BY <1>3 DEF Read, PassOverShort, FinishTurn, TakeSection, ReadDamaged, ReadFails, Reads
    <3>5. Excused(g) => Excused(g)'
      BY <1>3, <3>4, CountsOfOthers DEF Excused
    <3>6. \A e, v : CountOf(g, e, v)' = CountOf(g, e, v)
      BY <1>3, <2>2, CountsOfOthers
    <3> QED BY <1>0, <3>1, <3>2, <3>3, <3>5, <3>6, TurnKept
  <2> QED BY <2>1, <2>2
<1>4. ASSUME NEW f \in Filter, Change(f)
      PROVE  TurnInvOf(g)'
  <2>1. CASE g = f
    BY <1>4, <2>1, VersionChanged
  <2>2. CASE g # f
    <3>1. UNCHANGED <<broadcast, pos, hit, step, initial, ended, entries, isError, pass>>
          /\ (g \in changed' <=> g \in changed)
      BY <1>4, <2>2 DEF Change, tables
    <3>2. \A e, v : CountOf(g, e, v)' = CountOf(g, e, v)
      BY <3>1 DEF CountOf
    <3> QED BY <1>0, <3>1, <3>2, TurnKept DEF Excused
  <2> QED BY <2>1, <2>2
<1>5. ASSUME NEW f \in Filter, CopyRunsAway(f)
      PROVE  TurnInvOf(g)'
  <2>1. UNCHANGED <<broadcast, pos, changed, hit, step, initial, ended, entries, isError>>
        /\ pass' = {}
    BY <1>5 DEF CopyRunsAway, air, tables
  <2>2. \A e, v : CountOf(g, e, v)' = CountOf(g, e, v)
    BY <2>1 DEF CountOf
  <2> QED BY <1>0, <2>1, <2>2, TurnKept DEF Excused
<1>6. CASE UNCHANGED vars
  <2>1. UNCHANGED <<broadcast, pos, changed, hit, step, initial, ended, entries, isError, pass>>
    BY <1>6 DEF vars, air, tables
  <2>2. \A e, v : CountOf(g, e, v)' = CountOf(g, e, v)
    BY <2>1 DEF CountOf
  <2> QED BY <1>0, <2>1, <2>2, TurnKept DEF Excused
<1> QED BY <1>1, <1>2, <1>3, <1>4, <1>5, <1>6 DEF Next

(* So it is always known.                                                  *)
LEMMA TurnAlways == Spec => [](TypeInv /\ TurnInv)
<1>1. Init => TurnInv
  BY TurnInvInit
<1>2. (TypeInv /\ RoomInv) /\ TurnInv /\ [Next]_vars /\ (TypeInv /\ RoomInv)' => TurnInv'
  BY TurnInvStep
<1> QED BY <1>1, <1>2, RoomAlways, PTL DEF Spec

(* A filter of GetTitlesSKYBOX or GetSummariesSKYBOX that ended because    *)
(* the first header came again, and missed no section, has every event     *)
(* of its carousel in the table exactly once, under one version,           *)
(* whatever other filters stored in between and in whichever order poll    *)
(* found them ready.                                                       *)
THEOREM TurnsComplete == Spec => []TurnIsComplete
<1>1. TypeInv /\ TurnInv => TurnIsComplete
  <2> SUFFICES ASSUME TypeInv, TurnInv, NEW f \in Filter, ended[f] = "turn", f \notin hit
               PROVE  \E v \in {0, 1} : \A e \in EventsOf(f) :
                          CountOf(f, e, v) = 1 /\ CountOf(f, e, 1 - v) = 0
    BY DEF TurnIsComplete
  <2>1. PICK from \in DOMAIN broadcast[f], v \in {0, 1} : SinceTurnBegan(f, from, v)
    BY DEF TurnInv, TurnInvOf
  <2> QED BY <2>1 DEF SinceTurnBegan
<1> QED BY <1>1, TurnAlways, PTL

(* As long as its carousel keeps its version, a filter stores no event     *)
(* twice unless it missed a section, and then no event more than twice:    *)
(* a section that comes again is recognised although the handlers keep     *)
(* no list of what they have seen.                                         *)
THEOREM RepeatsAreLosses == Spec => []RepeatedByLossOnly
<1>1. TypeInv /\ TurnInv => RepeatedByLossOnly
  <2> SUFFICES ASSUME TypeInv, TurnInv, NEW f \in Filter, NEW e \in EventsOf(f), f \notin changed
               PROVE  CountOf(f, e, 0) <= (IF f \in hit THEN 2 ELSE 1)
    BY DEF RepeatedByLossOnly
  <2>1. PICK j \in DOMAIN broadcast[f] : e \in Taken(f, broadcast[f][j])
    BY DEF EventsOf
  <2>2. CountOf(f, e, 0) \in Nat /\ e \in Eid
    BY <2>1, CountIsNatural, SectionsDiffer
  <2>3. CASE initial[f] = {}
    <3>1. CountOf(f, e, 0) = 0
      BY <2>2, <2>3 DEF TurnInv, TurnInvOf
    <3> QED BY <3>1
  <2>4. CASE initial[f] # {}
    <3>1. PICK from \in DOMAIN broadcast[f], v \in {0, 1} : SinceTurnBegan(f, from, v)
      BY <2>4 DEF TurnInv, TurnInvOf
    <3>2. CountOf(f, e, 0) <= Times(f \in hit) + Times(step[f] # 1 \/ Before(from, pos[f], j))
      BY <2>1, <3>1 DEF SinceTurnBegan
    <3> QED BY <2>2, <3>2 DEF Times
  <2> QED BY <2>3, <2>4
<1> QED BY <1>1, TurnAlways, PTL
=============================================================================
