---------------------------- MODULE SkyBatProofs ----------------------------
(***************************************************************************)
(* Proofs about the channel list of the Sky grabber (modules SkyBat and    *)
(* SkySdt), for every set of broadcasts, every size of the list and        *)
(* every number of sections missed.                                        *)
(*                                                                         *)
(* The BAT handler finds the end of the list by counting sections. Worth   *)
(* says what a count is worth: a section counted often enough has its      *)
(* channels in the list. Turned says why counting the first section of a   *)
(* bouquet twice makes it wait for the other bouquets: until the section   *)
(* that opened the list comes again, it has a negative count.              *)
(*                                                                         *)
(* The SDT handler finds the end of the names by the channel it saw        *)
(* first. NamesInv says that a turn has seen every section since the one   *)
(* with that channel; it rests on a service being in the SDT once          *)
(* (SdtAssumption), since a service in two places would end the turn at    *)
(* the second.                                                             *)
(***************************************************************************)
EXTENDS SkySdt, Recursion

(* What the handler keeps about a bouquet.                                 *)
IsEntry(e) ==
    /\ e = [name |-> e.name, last |-> e.last, seen |-> e.seen]
    /\ e.last \in Nat /\ e.seen \in [0 .. e.last -> Int]

NothingSeen(e) == \A i \in 0 .. e.last : e.seen[i] < 0

Counted(e) == \A i \in 0 .. e.last : e.seen[i] >= 0

(* A section is taken from a carousel.                                     *)
IsSection(s) == s.last \in Nat /\ s.section \in 0 .. s.last /\ s.name # NullName

(* Counting a section brings a negative count nearer to zero, and no       *)
(* further at once.                                                        *)
LEMMA IncrementType ==
    ASSUME NEW n \in Int
    PROVE  Increment(n) \in Int /\ (n < -1 => Increment(n) < 0) /\ (n = -2 => Increment(n) = -1)
BY LimitsAssumption DEF Increment

(* A bouquet just created has a negative count for each of its sections,   *)
(* and after the section that created it was counted it still has.         *)
LEMMA NewEntry ==
    ASSUME NEW s, IsSection(s), NEW n
    PROVE  LET e == NewBouquet(s, n) IN
           /\ IsEntry(e) /\ e.name = n /\ e.last = s.last
           /\ NothingSeen(e) /\ e.seen[s.section] = -2
BY DEF NewBouquet, IsEntry, NothingSeen, IsSection

(* The entry after a section was counted.                                  *)
Increased(e, i) == [e EXCEPT !.seen[i] = Increment(@)]

(* Counting a section changes the count of that section only.              *)
LEMMA IncreasedEntry ==
    ASSUME NEW e, IsEntry(e), NEW i \in 0 .. e.last
    PROVE  LET x == Increased(e, i) IN
           /\ IsEntry(x) /\ x.name = e.name /\ x.last = e.last
           /\ x.seen[i] = Increment(e.seen[i])
           /\ \A j \in 0 .. e.last : j # i => x.seen[j] = e.seen[j]
<1> DEFINE x == Increased(e, i)
<1>1. x = [name |-> e.name, last |-> e.last, seen |-> [e.seen EXCEPT ![i] = Increment(@)]]
  BY DEF Increased, IsEntry
<1>2. e.seen[i] \in Int /\ Increment(e.seen[i]) \in Int
  BY IncrementType DEF IsEntry
<1>3. x.name = e.name /\ x.last = e.last /\ x.seen = [e.seen EXCEPT ![i] = Increment(@)]
  BY <1>1
<1>4. x.seen \in [0 .. x.last -> Int]
  BY <1>2, <1>3 DEF IsEntry
<1>5. x = [name |-> x.name, last |-> x.last, seen |-> x.seen]
  BY <1>1, <1>3
<1> HIDE DEF x
<1> QED BY <1>3, <1>4, <1>5 DEF IsEntry, x

-----------------------------------------------------------------------------
(* The carousel does not change, and what is on the air is one of its      *)
(* sections.                                                               *)
OnAir ==
    /\ carousel \in Carousels /\ pos \in DOMAIN carousel
    /\ DOMAIN carousel = 1 .. Len(carousel) /\ Len(carousel) \in Nat
    /\ lost \in Nat

(* The carousel the receiver is tuned to is one of the broadcast.          *)
LEMMA OnAirInit == BatInit => OnAir
BY CarouselsAssumption DEF BatInit, OnAir

(* And it stays the one.                                                   *)
LEMMA OnAirStep == OnAir /\ [BatNext]_batVars => OnAir' /\ carousel' = carousel
<1> SUFFICES ASSUME OnAir, [BatNext]_batVars PROVE OnAir' /\ carousel' = carousel
  OBVIOUS
<1>1. carousel' = carousel /\ (pos' = pos \/ Advance) /\ (lost' = lost \/ lost' = lost + 1)
  BY DEF BatNext, BatSection, Skip, FinishBat, DropNameless, Announce, Load, LoseBat,
         BatGivesUp, batVars
<1>2. pos' \in DOMAIN carousel
  <2>1. CASE Advance
    BY <2>1 DEF Advance, OnAir
  <2> QED BY <1>1, <2>1 DEF OnAir
<1> QED BY <1>1, <1>2 DEF OnAir

(* What the receiver delivers is a section of that carousel.               *)
LEMMA SectionsOfCarousel ==
    ASSUME OnAir, NEW i \in DOMAIN carousel
    PROVE  IsSection(carousel[i])
BY CarouselsAssumption DEF OnAir, IsSection

(* The sections of a bouquet agree on how many there are, and each is on   *)
(* the air once (CarouselsAssumption).                                     *)
LEMMA SectionsAgree ==
    ASSUME OnAir, NEW i \in DOMAIN carousel, NEW j \in DOMAIN carousel,
           carousel[i].bouquet = carousel[j].bouquet
    PROVE  /\ carousel[i].last = carousel[j].last
           /\ carousel[i].section = carousel[j].section => i = j
BY CarouselsAssumption DEF OnAir

-----------------------------------------------------------------------------
(* The entries are entries, a bouquet without a name has nothing counted,  *)
(* and a section that is counted has its channels in the list.             *)
Entries ==
    /\ \A b \in Known : IsEntry(bouquets[b])
    /\ \A b \in Known : bouquets[b].name = NullName => NothingSeen(bouquets[b])
    /\ \A i \in DOMAIN carousel : carousel[i].bouquet \in Known =>
           carousel[i].last = bouquets[carousel[i].bouquet].last
    /\ endBAT => /\ ~isError /\ Known # {}
                 /\ \A b \in Known : Counted(bouquets[b])

Worth ==
    \A i \in DOMAIN carousel :
        LET s == carousel[i] IN
        s.bouquet \in Known /\ Relevant(s) /\ bouquets[s.bouquet].seen[s.section] >= 0
            => Loaded(s)

(* What a step of the handler does to the table of bouquets: nothing, or   *)
(* one section is counted, or the list is full and its bouquet is entered. *)
Leaves == UNCHANGED <<bouquets, endBAT>> /\ isError' = isError

Counts(s, entry) == ~endBAT /\ Count(s, entry) /\ isError' = isError /\ ~isError

Fills(s, entry) ==
    /\ ~endBAT /\ endBAT' = endBAT
    /\ bouquets' = [b \in Known \cup {s.bouquet} |->
                      IF b = s.bouquet THEN entry ELSE bouquets[b]]
    /\ isError'

(* The entry with which the handler goes on.                               *)
EntryOf(s, entry) ==
    /\ IsEntry(entry) /\ entry.last = s.last
    /\ entry.name = NullName => NothingSeen(entry)
    /\ s.bouquet \in Known =>
         /\ entry.seen = bouquets[s.bouquet].seen
         /\ entry.name = bouquets[s.bouquet].name \/ bouquets[s.bouquet].name = NullName
         /\ entry.name # NullName
    /\ s.bouquet \notin Known => NothingSeen(entry) /\ entry.seen[s.section] = -2

(* A section without descriptors of a bouquet that has a name.             *)
LEMMA NewIsEntryOf ==
    ASSUME NEW s, IsSection(s), s.bouquet \notin Known, NEW n
    PROVE  EntryOf(s, NewBouquet(s, n))
BY NewEntry DEF EntryOf

(* A section without descriptors of a bouquet known before.                *)
LEMMA OldIsEntryOf ==
    ASSUME NEW s, IsEntry(bouquets[s.bouquet]), s.last = bouquets[s.bouquet].last,
           s.bouquet \in Known, bouquets[s.bouquet].name # NullName
    PROVE  EntryOf(s, bouquets[s.bouquet])
BY DEF EntryOf

(* A section with a descriptor gives its bouquet a name.                   *)
LEMMA DescribedIsEntryOf ==
    ASSUME NEW s, IsSection(s), s.bouquet \in Known => /\ IsEntry(bouquets[s.bouquet])
                                                       /\ s.last = bouquets[s.bouquet].last
    PROVE  EntryOf(s, Described(s))
<1>1. CASE s.bouquet \notin Known
  BY <1>1, NewIsEntryOf DEF Described
<1>2. CASE s.bouquet \in Known
  <2> DEFINE old == bouquets[s.bouquet]
             new == IF old.name = NullName THEN s.name ELSE old.name
  <2>1. Described(s) = [old EXCEPT !.name = new]
    BY <1>2 DEF Described
  <2>2. old = [name |-> old.name, last |-> old.last, seen |-> old.seen]
    BY <1>2 DEF IsEntry
  <2>3. Described(s) = [name |-> new, last |-> old.last, seen |-> old.seen]
    BY <2>1, <2>2
  <2>4. /\ Described(s).name = new /\ Described(s).last = old.last
        /\ Described(s).seen = old.seen
    BY <2>3
  <2>5. old.last \in Nat /\ old.seen \in [0 .. old.last -> Int] /\ s.last = old.last
    BY <1>2 DEF IsEntry
  <2>6. new # NullName /\ (new = old.name \/ old.name = NullName)
    BY DEF IsSection
  <2>7. IsEntry(Described(s))
    BY <2>3, <2>4, <2>5 DEF IsEntry
  <2> HIDE DEF new
  <2> QED BY <1>2, <2>4, <2>5, <2>6, <2>7 DEF EntryOf
<1> QED BY <1>1, <1>2

-----------------------------------------------------------------------------
(* The ways through the handler, as far as the table of bouquets goes.     *)
LEMMA HandlerStep ==
    ASSUME OnAir, Entries, [BatNext]_batVars
    PROVE  \/ Leaves
           \/ \E entry : /\ EntryOf(Section, entry)
                         /\ \/ Counts(Section, entry)
                            \/ Fills(Section, entry)
                         /\ \/ NothingSeen(entry) /\ Section.bouquet \notin Known
                               /\ channels' = channels
                            \/ channels' = channels /\ ~Selected(entry)
                            \/ channels' = Merged(Section)
<1> DEFINE s == Section
<1>0. /\ IsSection(s)
      /\ s.bouquet \in Known => IsEntry(bouquets[s.bouquet]) /\ s.last = bouquets[s.bouquet].last
  BY SectionsOfCarousel DEF Entries, Section, OnAir
<1> HIDE DEF s
<1>1. CASE Announce
  <2>1. EntryOf(s, NewBouquet(s, NullName)) /\ NothingSeen(NewBouquet(s, NullName))
    BY <1>0, <1>1, NewIsEntryOf, NewEntry DEF Announce, s
  <2>2. Counts(s, NewBouquet(s, NullName))
    BY <1>1 DEF Announce, Counts, Takes, BatRunning, s
  <2>3. channels' = channels /\ s.bouquet \notin Known
    BY <1>1 DEF Announce, s
  <2> QED BY <2>1, <2>2, <2>3 DEF s
<1>2. CASE Load
  <2> DEFINE entry == IF s.described THEN Described(s) ELSE bouquets[s.bouquet]
  <2>1. EntryOf(s, entry)
    <3>1. CASE s.described
      BY <1>0, <3>1, DescribedIsEntryOf
    <3>2. CASE ~s.described
      <4>1. s.bouquet \in Known /\ bouquets[s.bouquet].name # NullName
        BY <1>2, <3>2 DEF Load, s
      <4> QED BY <1>0, <3>2, <4>1, OldIsEntryOf
    <3> QED BY <3>1, <3>2
  <2>2. /\ Takes(s)
        /\ IF ~Selected(entry)
           THEN Count(s, entry) /\ UNCHANGED <<channels, isError>>
           ELSE /\ channels' = Merged(s)
                /\ isError' = (Adds(s) /\ Cardinality(DOMAIN channels') >= MaxChannels)
                /\ IF isError'
                   THEN /\ bouquets' = [b \in Known \cup {s.bouquet} |->
                                          IF b = s.bouquet THEN entry ELSE bouquets[b]]
                        /\ UNCHANGED endBAT
                   ELSE Count(s, entry)
    BY <1>2 DEF Load, s
  <2> HIDE DEF entry
  <2>3. ~endBAT /\ ~isError
    BY <2>2 DEF Takes, BatRunning
  <2>4. CASE ~Selected(entry)
    BY <2>1, <2>2, <2>3, <2>4 DEF Counts, s
  <2>5. CASE Selected(entry) /\ isError'
    BY <2>1, <2>2, <2>3, <2>5 DEF Fills, s
  <2>6. CASE Selected(entry) /\ ~isError'
    <3>1. isError' = isError
      <4>1. isError' \in BOOLEAN /\ isError' = FALSE
        BY <2>2, <2>6
      <4>2. isError = FALSE
        BY <2>3
      <4> QED BY <4>1, <4>2
    <3> QED BY <2>1, <2>2, <2>3, <2>6, <3>1 DEF Counts, s
  <2> QED BY <2>4, <2>5, <2>6
<1>3. CASE Skip \/ FinishBat \/ DropNameless \/ LoseBat \/ BatGivesUp \/ UNCHANGED batVars
  BY <1>3 DEF Skip, FinishBat, DropNameless, DoNotCount, LoseBat, BatGivesUp, batVars, Leaves
<1> QED BY <1>1, <1>2, <1>3 DEF BatNext, BatSection

(* The channels of section s are in a list.                                *)
LoadedIn(list, s) ==
    \A o \in s.offers : /\ o[1] \in DOMAIN list
                        /\ o[2] # NoRegion => o[2] % 32 \in list[o[1]]

(* The channels of a section that are in the list stay there.              *)
LEMMA LoadedStays ==
    ASSUME [BatNext]_batVars, NEW s, LoadedIn(channels, s)
    PROVE  LoadedIn(channels', s)
<1>1. channels' = channels \/ channels' = Merged(Section)
  BY DEF BatNext, BatSection, Skip, FinishBat, DropNameless, Announce, Load, LoseBat,
         BatGivesUp, batVars
<1>2. CASE channels' = channels
  BY <1>2
<1>3. CASE channels' = Merged(Section)
  <2>1. \A c \in DOMAIN channels : c \in DOMAIN channels' /\ channels[c] \subseteq channels'[c]
    BY <1>3 DEF Merged
  <2> QED BY <2>1 DEF LoadedIn
<1> QED BY <1>1, <1>2, <1>3

(* A section that was loaded has its channels in the list.                 *)
LEMMA MergedIsLoaded ==
    ASSUME NEW s, channels' = Merged(s)
    PROVE  LoadedIn(channels', s)
<1> SUFFICES ASSUME NEW o \in s.offers
             PROVE  /\ o[1] \in DOMAIN channels'
                    /\ o[2] # NoRegion => o[2] % 32 \in channels'[o[1]]
  BY DEF LoadedIn
<1>1. o[1] \in DOMAIN channels' /\ RegionBits(s, o[1]) \subseteq channels'[o[1]]
  BY DEF Merged
<1>2. o[2] # NoRegion => o[2] % 32 \in RegionBits(s, o[1])
  BY DEF RegionBits
<1> QED BY <1>1, <1>2

(* The table after a section was counted.                                  *)
LEMMA TableCounted ==
    ASSUME NEW s, IsSection(s), NEW entry, EntryOf(s, entry), Counts(s, entry)
    PROVE  LET x == bouquets'[s.bouquet] IN
           /\ Known' = Known \cup {s.bouquet}
           /\ \A b \in Known : b # s.bouquet => bouquets'[b] = bouquets[b]
           /\ IsEntry(x) /\ x.name = entry.name /\ x.last = entry.last
           /\ x.seen[s.section] = Increment(entry.seen[s.section])
           /\ \A j \in 0 .. entry.last : j # s.section => x.seen[j] = entry.seen[j]
           /\ ~endBAT /\ ~isError /\ ~isError'
           /\ endBAT' => \A b \in Known' : \A i \in DOMAIN bouquets'[b].seen :
                                               bouquets'[b].seen[i] >= 0
<1>1. bouquets' = [b \in Known \cup {s.bouquet} |->
                     IF b = s.bouquet THEN Increased(entry, s.section) ELSE bouquets[b]]
  BY DEF Counts, Count, Increased
<1>2. s.section \in 0 .. entry.last /\ IsEntry(entry)
  BY DEF EntryOf, IsSection
<1>3. bouquets'[s.bouquet] = Increased(entry, s.section)
  BY <1>1
<1>4. Known' = Known \cup {s.bouquet}
  BY <1>1 DEF Known
<1>5. \A b \in Known : b # s.bouquet => bouquets'[b] = bouquets[b]
  BY <1>1
<1>6. /\ ~endBAT /\ ~isError /\ ~isError'
      /\ endBAT' => \A b \in Known' : \A i \in DOMAIN bouquets'[b].seen :
                                          bouquets'[b].seen[i] >= 0
  BY DEF Counts, Count, Known
<1> QED BY <1>2, <1>3, <1>4, <1>5, <1>6, IncreasedEntry

(* The section counted has a negative count if its bouquet is new.         *)
LEMMA NewIsNegative ==
    ASSUME NEW s, IsSection(s), NEW entry, EntryOf(s, entry), Counts(s, entry),
           s.bouquet \notin Known
    PROVE  NothingSeen(bouquets'[s.bouquet]) /\ bouquets'[s.bouquet].seen[s.section] = -1
<1>1. NothingSeen(entry) /\ entry.seen[s.section] = -2
  BY DEF EntryOf
<1>2. Increment(entry.seen[s.section]) = -1
  BY <1>1, IncrementType
<1> QED BY <1>1, <1>2, TableCounted DEF NothingSeen

(* When the list is full the handler ends with an error; the table of      *)
(* bouquets stays as it was (LoadChannels).                                *)
LEMMA TableFilled ==
    ASSUME NEW s, NEW entry, EntryOf(s, entry), Fills(s, entry)
    PROVE  /\ Known' = Known \cup {s.bouquet}
           /\ bouquets'[s.bouquet] = entry
           /\ \A b \in Known : b # s.bouquet => bouquets'[b] = bouquets[b]
           /\ ~endBAT' /\ isError'
BY DEF Fills, Known

(* Every step of the handler keeps the table of bouquets in order.         *)
LEMMA EntriesStep == OnAir /\ Entries /\ [BatNext]_batVars => Entries'
<1> SUFFICES ASSUME OnAir, Entries, [BatNext]_batVars PROVE Entries'
  OBVIOUS
<1> DEFINE s == Section
<1>0. IsSection(s) /\ carousel' = carousel
  BY SectionsOfCarousel, OnAirStep DEF Section, OnAir
<1>1. CASE Leaves
  BY <1>0, <1>1 DEF Leaves, Entries, Known
<1>2. ASSUME NEW entry, EntryOf(s, entry), Known' = Known \cup {s.bouquet},
             \A b \in Known : b # s.bouquet => bouquets'[b] = bouquets[b],
             bouquets'[s.bouquet].last = entry.last
      PROVE  \A i \in DOMAIN carousel : carousel[i].bouquet \in Known' =>
                 carousel[i].last = bouquets'[carousel[i].bouquet].last
  <2> SUFFICES ASSUME NEW i \in DOMAIN carousel, carousel[i].bouquet \in Known'
               PROVE  carousel[i].last = bouquets'[carousel[i].bouquet].last
    OBVIOUS
  <2>1. CASE carousel[i].bouquet = s.bouquet
    <3>1. carousel[i].last = s.last
      BY <2>1, SectionsAgree DEF OnAir, Section
    <3> QED BY <1>2, <2>1, <3>1 DEF EntryOf
  <2>2. CASE carousel[i].bouquet # s.bouquet
    BY <1>2, <2>2 DEF Entries
  <2> QED BY <2>1, <2>2
<1> HIDE DEF s
<1>3. ASSUME NEW entry, EntryOf(s, entry), Counts(s, entry)
      PROVE  Entries'
  <2>1. \A b \in Known' : IsEntry(bouquets'[b])
    BY <1>0, <1>3, TableCounted DEF Entries
  <2>2. \A b \in Known' : bouquets'[b].name = NullName => NothingSeen(bouquets'[b])
    <3>1. s.bouquet \in Known => bouquets'[s.bouquet].name # NullName
      BY <1>0, <1>3, TableCounted DEF EntryOf
    <3>2. s.bouquet \notin Known => NothingSeen(bouquets'[s.bouquet])
      BY <1>0, <1>3, NewIsNegative
    <3> QED BY <1>0, <1>3, <3>1, <3>2, TableCounted DEF Entries
  <2>3. \A i \in DOMAIN carousel : carousel[i].bouquet \in Known' =>
            carousel[i].last = bouquets'[carousel[i].bouquet].last
    BY <1>0, <1>2, <1>3, TableCounted
  <2>4. endBAT' => /\ ~isError' /\ Known' # {}
                   /\ \A b \in Known' : Counted(bouquets'[b])
    <3>1. \A b \in Known' : DOMAIN bouquets'[b].seen = 0 .. bouquets'[b].last
      BY <2>1 DEF IsEntry
    <3> QED BY <1>0, <1>3, <3>1, TableCounted DEF Counted
  <2>5. Known' = DOMAIN bouquets'
    BY DEF Known
  <2> QED BY <1>0, <2>1, <2>2, <2>3, <2>4, <2>5 DEF Entries, Known
<1>4. ASSUME NEW entry, EntryOf(s, entry), Fills(s, entry)
      PROVE  Entries'
  <2>1. \A b \in Known' : IsEntry(bouquets'[b])
    BY <1>4, TableFilled DEF Entries, EntryOf
  <2>2. \A b \in Known' : bouquets'[b].name = NullName => NothingSeen(bouquets'[b])
    BY <1>4, TableFilled DEF Entries, EntryOf
  <2>3. \A i \in DOMAIN carousel : carousel[i].bouquet \in Known' =>
            carousel[i].last = bouquets'[carousel[i].bouquet].last
    BY <1>2, <1>4, TableFilled
  <2>4. ~endBAT'
    BY <1>4, TableFilled
  <2>5. Known' = DOMAIN bouquets'
    BY DEF Known
  <2> QED BY <1>0, <2>1, <2>2, <2>3, <2>4, <2>5 DEF Entries, Known
<1> QED BY <1>1, <1>3, <1>4, HandlerStep DEF s

(* The table is empty at first.                                            *)
LEMMA EntriesInit == BatInit => Entries
BY DEF BatInit, Entries, Known

(* A count that was taken over says what it said before.                   *)
LEMMA WorthKept ==
    ASSUME OnAir, Entries, Worth, [BatNext]_batVars, NEW i \in DOMAIN carousel,
           carousel[i].bouquet \in Known, bouquetFilter' = bouquetFilter,
           bouquets[carousel[i].bouquet].seen[carousel[i].section] >= 0,
           NEW n, n = bouquets[carousel[i].bouquet].name \/ bouquets[carousel[i].bouquet].name = NullName,
           bouquetFilter \in {NoFilter, n}
    PROVE  LoadedIn(channels', carousel[i])
<1>1. ~(bouquets[carousel[i].bouquet].seen[carousel[i].section] < 0)
  <2>1. /\ carousel[i].section \in 0 .. bouquets[carousel[i].bouquet].last
        /\ IsEntry(bouquets[carousel[i].bouquet])
    BY SectionsOfCarousel DEF Entries, IsSection
  <2>2. bouquets[carousel[i].bouquet].seen[carousel[i].section] \in Int
    BY <2>1 DEF IsEntry
  <2> QED BY <2>2
<1>2. bouquets[carousel[i].bouquet].name # NullName
  BY <1>1, SectionsOfCarousel DEF Entries, NothingSeen, IsSection
<1>3. Relevant(carousel[i])
  BY <1>2 DEF Relevant
<1>4. LoadedIn(channels, carousel[i])
  BY <1>3 DEF Worth, Loaded, LoadedIn
<1> QED BY <1>4, LoadedStays

(* Every step of the handler keeps what the counts are worth.              *)
LEMMA WorthStep == OnAir /\ Entries /\ Worth /\ [BatNext]_batVars => Worth'
<1> SUFFICES ASSUME OnAir, Entries, Worth, [BatNext]_batVars PROVE Worth'
  OBVIOUS
<1> DEFINE s == Section
<1>0. IsSection(s) /\ carousel' = carousel
  BY SectionsOfCarousel, OnAirStep DEF Section, OnAir
<1>00. bouquetFilter' = bouquetFilter
  BY DEF BatNext, BatSection, Skip, FinishBat, DropNameless, Announce, Load, LoseBat,
         BatGivesUp, batVars
<1> SUFFICES ASSUME NEW i \in DOMAIN carousel, carousel[i].bouquet \in Known',
                    bouquetFilter \in {NoFilter, bouquets'[carousel[i].bouquet].name},
                    bouquets'[carousel[i].bouquet].seen[carousel[i].section] >= 0
             PROVE  LoadedIn(channels', carousel[i])
  BY <1>0, <1>00 DEF Worth, Relevant, Known, Loaded, LoadedIn
<1> DEFINE c == carousel[i]
<1>1. CASE bouquets' = bouquets
  BY <1>00, <1>1, WorthKept DEF Known
<1>2. ASSUME NEW entry, EntryOf(s, entry), Known' = Known \cup {s.bouquet},
             \A b \in Known : b # s.bouquet => bouquets'[b] = bouquets[b],
             c.bouquet # s.bouquet
      PROVE  LoadedIn(channels', c)
  <2>1. c.bouquet \in Known /\ bouquets'[c.bouquet] = bouquets[c.bouquet]
    BY <1>2
  <2> QED BY <1>00, <2>1, WorthKept
<1>3. ASSUME NEW entry, EntryOf(s, entry), c.bouquet = s.bouquet,
             bouquets'[s.bouquet].name = entry.name,
             bouquets'[s.bouquet].seen[c.section] = entry.seen[c.section]
      PROVE  LoadedIn(channels', c)
  <2>1. IsEntry(entry) /\ c.section \in 0 .. entry.last
    <3>1. c.last = s.last
      BY <1>3, SectionsAgree DEF OnAir, Section
    <3> QED BY <1>3, <3>1, SectionsOfCarousel DEF EntryOf, IsSection
  <2>2. ~(entry.seen[c.section] < 0)
    <3>1. entry.seen[c.section] \in Int
      BY <2>1 DEF IsEntry
    <3> QED BY <1>3, <3>1
  <2>3. s.bouquet \in Known
    BY <1>3, <2>1, <2>2 DEF EntryOf, NothingSeen
  <2>4. /\ entry.seen = bouquets[s.bouquet].seen
        /\ entry.name = bouquets[s.bouquet].name \/ bouquets[s.bouquet].name = NullName
    BY <1>3, <2>3 DEF EntryOf
  <2>5. bouquetFilter \in {NoFilter, entry.name}
    BY <1>3
  <2>6. bouquets[c.bouquet].seen[c.section] >= 0 /\ c.bouquet \in Known
    BY <1>3, <2>3, <2>4
  <2> HIDE DEF s
  <2> QED BY <1>00, <1>3, <2>4, <2>5, <2>6, WorthKept
<1>4. ASSUME NEW entry, EntryOf(s, entry), Counts(s, entry),
             \/ NothingSeen(entry) /\ s.bouquet \notin Known
             \/ ~Selected(entry)
             \/ channels' = Merged(s)
      PROVE  LoadedIn(channels', c)
  <2>1. CASE c.bouquet # s.bouquet
    BY <1>0, <1>2, <1>4, <2>1, TableCounted
  <2>2. CASE c.bouquet = s.bouquet /\ c.section # s.section
    <3>1. c.section \in 0 .. entry.last
      <4>1. c.last = s.last
        BY <2>2, SectionsAgree DEF OnAir, Section
      <4> QED BY <1>4, <4>1, SectionsOfCarousel DEF EntryOf, IsSection
    <3> QED BY <1>0, <1>3, <1>4, <2>2, <3>1, TableCounted
  <2>3. CASE c.bouquet = s.bouquet /\ c.section = s.section
    <3>1. c = s
      BY <2>3, SectionsAgree DEF OnAir, Section
    <3>2. s.bouquet \in Known
      <4>1. CASE s.bouquet \notin Known
        <5>1. bouquets'[s.bouquet].seen[s.section] = -1
          BY <1>0, <1>4, <4>1, NewIsNegative
        <5> QED BY <3>1, <5>1
      <4> QED BY <4>1
    <3>3. Selected(entry)
      BY <1>0, <1>4, <3>1, TableCounted DEF Selected
    <3> QED BY <1>4, <3>1, <3>2, <3>3, MergedIsLoaded
  <2> QED BY <2>1, <2>2, <2>3
<1>5. ASSUME NEW entry, EntryOf(s, entry), Fills(s, entry)
      PROVE  LoadedIn(channels', c)
  BY <1>2, <1>3, <1>5, TableFilled
<1> HIDE DEF c
<1>6. CASE Leaves
  BY <1>1, <1>6 DEF Leaves, c
<1> QED BY <1>4, <1>5, <1>6, HandlerStep DEF c

(* Nothing was counted at first.                                           *)
LEMMA WorthInit == BatInit => Worth
BY DEF BatInit, Worth, Known

(* So the counts are always worth what they say.                           *)
LEMMA CountsAlways == BatSpec => [](OnAir /\ Entries /\ Worth)
BY OnAirInit, OnAirStep, EntriesInit, EntriesStep, WorthInit, WorthStep, PTL DEF BatSpec

(* When the end of the list is declared, no channel of a bouquet that is   *)
(* known and selected is missing, however many sections were missed and    *)
(* wherever the receiver joined.                                           *)
THEOREM NothingMissing == BatSpec => []KnownBouquetsLoaded
<1>1. OnAir /\ Entries /\ Worth => KnownBouquetsLoaded
  <2> SUFFICES ASSUME OnAir, Entries, Worth, endBAT, NEW i \in DOMAIN carousel,
                      carousel[i].bouquet \in Known, Relevant(carousel[i])
               PROVE  Loaded(carousel[i])
    BY DEF KnownBouquetsLoaded, Broadcast
  <2>1. carousel[i].section \in 0 .. bouquets[carousel[i].bouquet].last
    BY SectionsOfCarousel DEF IsSection, Entries
  <2>2. bouquets[carousel[i].bouquet].seen[carousel[i].section] >= 0
    BY <2>1 DEF Entries, Counted
  <2> QED BY <2>2 DEF Worth
<1> QED BY <1>1, CountsAlways, PTL

(* When the end of the list is declared every bouquet has a name.          *)
THEOREM AllNamed == BatSpec => []NamedAtEnd
<1>1. Entries => NamedAtEnd
  <2> SUFFICES ASSUME Entries, endBAT, NEW b \in Known, bouquets[b].name = NullName
               PROVE  FALSE
    BY DEF NamedAtEnd
  <2>1. IsEntry(bouquets[b]) /\ Counted(bouquets[b]) /\ NothingSeen(bouquets[b])
    BY DEF Entries
  <2>2. 0 \in 0 .. bouquets[b].last /\ bouquets[b].seen[0] \in Int
    BY <2>1 DEF IsEntry
  <2> QED BY <2>1, <2>2 DEF Counted, NothingSeen
<1> QED BY <1>1, CountsAlways, PTL

(* The declared end is final, and the list is not touched after it.        *)
THEOREM EndStays == BatSpec => EndIsFinal
<1>1. [BatNext]_batVars => [endBAT => endBAT' /\ channels' = channels]_batVars
  BY DEF BatNext, BatSection, Skip, FinishBat, DropNameless, Announce, Load, LoseBat,
         BatGivesUp, Takes, batVars
<1> QED BY <1>1, PTL DEF BatSpec, EndIsFinal

-----------------------------------------------------------------------------
(* While not every bouquet is known there is a section the list started    *)
(* with: it has been counted once, everything passed since then belongs to *)
(* a known bouquet, and it has not come again.                             *)
AllKnown == \A i \in DOMAIN carousel : carousel[i].bouquet \in Known

Passed(f) == {i \in DOMAIN carousel : \/ f < pos /\ f <= i /\ i < pos
                                      \/ pos < f /\ (f <= i \/ i < pos)}

StartedAt(f) ==
    /\ pos # f
    /\ carousel[f].bouquet \in Known
    /\ bouquets[carousel[f].bouquet].seen[carousel[f].section] = -1
    /\ \A i \in Passed(f) : carousel[i].bouquet \in Known

Turned ==
    lost = 0 /\ Known # {} /\ ~isError =>
        AllKnown \/ \E f \in DOMAIN carousel : StartedAt(f)

(* The next section is one more that was passed, or all have been.         *)
LEMMA PassedGrows ==
    ASSUME OnAir, NEW f \in DOMAIN carousel, Advance, carousel' = carousel
    PROVE  /\ pos # f => \/ pos' = f /\ \A i \in DOMAIN carousel : i = pos \/ i \in Passed(f)
                         \/ pos' # f /\ \A i \in Passed(f)' : i = pos \/ i \in Passed(f)
           /\ pos = f => \/ pos' = f /\ DOMAIN carousel = {f}
                         \/ pos' # f /\ Passed(f)' = {f}
<1> DEFINE L == Len(carousel)
<1>1. /\ L \in Nat /\ pos \in 1 .. L /\ f \in 1 .. L /\ DOMAIN carousel = 1 .. L
      /\ pos' = IF pos = L THEN 1 ELSE pos + 1
  BY DEF OnAir, Advance
<1>2. Passed(f) = {i \in 1 .. L : \/ f < pos /\ f <= i /\ i < pos
                                  \/ pos < f /\ (f <= i \/ i < pos)}
  BY <1>1 DEF Passed
<1>3. Passed(f)' = {i \in 1 .. L : \/ f < pos' /\ f <= i /\ i < pos'
                                   \/ pos' < f /\ (f <= i \/ i < pos')}
  BY <1>1 DEF Passed
<1> HIDE DEF L
<1>4. CASE pos = L
  <2>1. pos' = 1
    BY <1>1, <1>4
  <2> QED BY <1>1, <1>2, <1>3, <1>4, <2>1
<1>5. CASE pos # L
  <2>1. pos' = pos + 1
    BY <1>1, <1>5
  <2> QED BY <1>1, <1>2, <1>3, <1>5, <2>1
<1> QED BY <1>4, <1>5

(* How a step goes about the carousel: nothing happens, or the section on  *)
(* the air is dealt with and the next one comes.                           *)
LEMMA TurnOfCarousel ==
    ASSUME OnAir, [BatNext]_batVars, lost' = 0
    PROVE  /\ lost = 0
           /\ \/ UNCHANGED <<pos, bouquets, isError>>
              \/ /\ Advance
                 /\ \/ Known = {} /\ bouquets' = bouquets
                    \/ endBAT
                    \/ Section.bouquet \in Known'
<1>1. ~LoseBat
  BY DEF LoseBat, OnAir
<1>2. lost = 0
  BY <1>1 DEF BatNext, BatSection, Skip, FinishBat, DropNameless, Announce, Load, BatGivesUp,
              batVars
<1>3. CASE Skip \/ FinishBat \/ BatGivesUp \/ UNCHANGED batVars
  BY <1>3 DEF Skip, SkipSingleton, FinishBat, BatGivesUp, batVars
<1>4. CASE DropNameless
  BY <1>4 DEF DropNameless, DoNotCount, Known
<1>5. CASE Announce
  BY <1>5 DEF Announce, Count, Known
<1>6. CASE Load
  <2>1. DOMAIN bouquets' = Known \cup {Section.bouquet}
    BY <1>6 DEF Load, Count
  <2>2. Section.bouquet \in Known'
    BY <2>1 DEF Known
  <2>3. Advance
    BY <1>6 DEF Load
  <2> QED BY <1>2, <2>2, <2>3
<1> QED BY <1>1, <1>2, <1>3, <1>4, <1>5, <1>6 DEF BatNext, BatSection

(* Every step of the handler keeps what is known of the turn.              *)
LEMMA TurnedStep == OnAir /\ Entries /\ Turned /\ [BatNext]_batVars => Turned'
<1> SUFFICES ASSUME OnAir, Entries, Turned, [BatNext]_batVars,
                    (lost = 0)', (Known # {})', ~isError'
             PROVE  (AllKnown \/ \E f \in DOMAIN carousel : StartedAt(f))'
  BY DEF Turned
<1> DEFINE s == Section
<1>1. IsSection(s) /\ carousel' = carousel /\ pos \in DOMAIN carousel
  BY SectionsOfCarousel, OnAirStep DEF Section, OnAir
<1> SUFFICES (\A i \in DOMAIN carousel : carousel[i].bouquet \in Known')
             \/ \E f \in DOMAIN carousel :
                  /\ pos' # f
                  /\ carousel[f].bouquet \in Known'
                  /\ bouquets'[carousel[f].bouquet].seen[carousel[f].section] = -1
                  /\ \A i \in Passed(f)' : carousel[i].bouquet \in Known'
  BY <1>1 DEF AllKnown, StartedAt, Known
<1>2. \/ bouquets' = bouquets /\ isError' = isError
      \/ \E entry : EntryOf(s, entry) /\ Counts(s, entry)
  BY HandlerStep DEF Leaves, Fills
<1>3. ~isError
  BY <1>2 DEF Counts
<1>4. lost = 0
  BY TurnOfCarousel
<1> HIDE DEF s
<1>5. Known \subseteq Known'
  <2>1. CASE bouquets' = bouquets
    BY <2>1 DEF Known
  <2> QED BY <1>1, <1>2, <2>1, TableCounted
<1>6. CASE AllKnown
  BY <1>5, <1>6 DEF AllKnown
<1>7. CASE Known = {}
  <2>1. PICK entry : EntryOf(s, entry) /\ Counts(s, entry)
    BY <1>2, <1>7 DEF Known
  <2>2. s.bouquet \in Known' /\ bouquets'[s.bouquet].seen[s.section] = -1
    BY <1>1, <1>7, <2>1, NewIsNegative, TableCounted
  <2>3. Advance
    <3>1. bouquets' # bouquets
      BY <1>7, <2>2 DEF Known
    <3> QED BY <3>1, TurnOfCarousel
  <2>5. PICK f \in DOMAIN carousel : f = pos
    BY <1>1
  <2>6. \/ pos' = f /\ DOMAIN carousel = {f}
        \/ pos' # f /\ Passed(f)' = {f}
    BY <1>1, <2>3, <2>5, PassedGrows
  <2>7. carousel[f] = s
    BY <2>5 DEF s, Section
  <2> QED BY <2>2, <2>6, <2>7
<1>8. CASE Known # {} /\ ~AllKnown
  <2>1. PICK f \in DOMAIN carousel : StartedAt(f)
    BY <1>3, <1>4, <1>8 DEF Turned
  <2> DEFINE c == carousel[f]
  <2>2. /\ pos # f /\ c.bouquet \in Known
        /\ bouquets[c.bouquet].seen[c.section] = -1
        /\ \A i \in Passed(f) : carousel[i].bouquet \in Known
    BY <2>1 DEF StartedAt
  <2>3. c.section \in 0 .. bouquets[c.bouquet].last
    BY <2>2, SectionsOfCarousel DEF IsSection, Entries
  <2>4. ~endBAT
    BY <2>2, <2>3 DEF Entries, Counted
  <2>5. bouquets'[c.bouquet].seen[c.section] = -1
    <3>1. CASE bouquets' = bouquets
      BY <2>2, <3>1
    <3>2. ASSUME NEW entry, EntryOf(s, entry), Counts(s, entry), c.bouquet # s.bouquet
          PROVE  bouquets'[c.bouquet].seen[c.section] = -1
      BY <1>1, <2>2, <3>2, TableCounted
    <3>3. ASSUME NEW entry, EntryOf(s, entry), Counts(s, entry), c.bouquet = s.bouquet
          PROVE  bouquets'[c.bouquet].seen[c.section] = -1
      <4>1. c.section # s.section /\ c.last = s.last
        BY <2>2, <3>3, <1>1, SectionsAgree DEF s, Section
      <4>2. c.section \in 0 .. entry.last
        BY <3>3, <4>1, SectionsOfCarousel DEF EntryOf, IsSection
      <4>3. entry.seen = bouquets[c.bouquet].seen
        BY <2>2, <3>3 DEF EntryOf
      <4> QED BY <1>1, <2>2, <3>3, <4>1, <4>2, <4>3, TableCounted
    <3> QED BY <1>2, <3>1, <3>2, <3>3
  <2> HIDE DEF c
  <2>6. CASE UNCHANGED <<pos, bouquets>>
    <3>1. Passed(f)' = Passed(f)
      BY <1>1, <2>6 DEF Passed
    <3> QED BY <1>5, <2>2, <2>5, <2>6, <3>1 DEF c
  <2>7. CASE Advance /\ s.bouquet \in Known'
    <3>1. \/ pos' = f /\ \A i \in DOMAIN carousel : i = pos \/ i \in Passed(f)
          \/ pos' # f /\ \A i \in Passed(f)' : i = pos \/ i \in Passed(f)
      BY <1>1, <2>2, <2>7, PassedGrows
    <3>2. \A i \in DOMAIN carousel \cup Passed(f)' :
              i = pos \/ i \in Passed(f) => carousel[i].bouquet \in Known'
      BY <1>5, <2>2, <2>7 DEF s, Section
    <3> QED BY <1>5, <2>2, <2>5, <3>1, <3>2 DEF c
  <2> QED BY <1>8, <2>4, <2>6, <2>7, TurnOfCarousel DEF s
<1> QED BY <1>6, <1>7, <1>8

(* If no section was missed, the end of the list is not declared before    *)
(* every bouquet on the air is known.                                      *)
THEOREM WaitsForAll == BatSpec => []AllBouquetsKnown
<1>1. BatInit => Turned
  BY DEF BatInit, Turned, Known
<1>2. OnAir /\ Entries /\ Turned => AllBouquetsKnown
  <2> SUFFICES ASSUME OnAir, Entries, Turned, endBAT, lost = 0
               PROVE  AllKnown
    BY DEF AllKnown, AllBouquetsKnown, Broadcast
  <2>1. Known # {} /\ ~isError
    BY DEF Entries
  <2>2. ASSUME NEW f \in DOMAIN carousel, StartedAt(f)
        PROVE  FALSE
    <3>1. carousel[f].section \in 0 .. bouquets[carousel[f].bouquet].last
      BY <2>2, SectionsOfCarousel DEF IsSection, Entries, StartedAt
    <3> QED BY <2>2, <3>1 DEF StartedAt, Entries, Counted
  <2> QED BY <2>1, <2>2 DEF Turned
<1> QED BY <1>1, <1>2, TurnedStep, CountsAlways, PTL DEF BatSpec

-----------------------------------------------------------------------------
(* The names of the channels (module SkySdt).                              *)
SdtOnAir ==
    /\ DOMAIN sdtCarousel = 1 .. Len(sdtCarousel) /\ Len(sdtCarousel) \in Nat \ {0}
    /\ sdtPos \in 1 .. Len(sdtCarousel) /\ sdtLost \in Nat
    /\ \A n \in DOMAIN sdtCarousel :
         DOMAIN sdtCarousel[n] = 1 .. Len(sdtCarousel[n]) /\ Len(sdtCarousel[n]) \in Nat
    /\ \A m, n \in DOMAIN sdtCarousel : \A k \in DOMAIN sdtCarousel[m], l \in DOMAIN sdtCarousel[n] :
         sdtCarousel[m][k].id = sdtCarousel[n][l].id => m = n /\ k = l

(* The channel of a service has every name the service gives.              *)
NamedIn(s, names, shorts) ==
    Lookup(s.id) # NoChannel =>
        /\ GivesName(s) => Lookup(s.id) \in names
        /\ s.aka => Lookup(s.id) \in shorts

(* And a channel has no name but from a service on the air that gives it.  *)
NameOf(s, c)  == Lookup(s.id) = c /\ GivesName(s)
ShortOf(s, c) == Lookup(s.id) = c /\ s.aka

GivenInv ==
    /\ ~endBAT => named = {} /\ short = {}
    /\ \A c \in named :
         \E n \in DOMAIN sdtCarousel : \E k \in DOMAIN sdtCarousel[n] : NameOf(sdtCarousel[n][k], c)
    /\ \A c \in short :
         \E n \in DOMAIN sdtCarousel : \E k \in DOMAIN sdtCarousel[n] : ShortOf(sdtCarousel[n][k], c)

SectionNamed(n) ==
    \A k \in DOMAIN sdtCarousel[n] : NamedIn(sdtCarousel[n][k], named, short)

AllSectionsNamed == \A n \in DOMAIN sdtCarousel : SectionNamed(n)

(* Whether section n was on the air since the one at `from', with p next.  *)
Since(from, p, n) == IF from < p THEN from <= n /\ n < p ELSE from <= n \/ n < p

(* The turn that began in section `from' is not over.                      *)
TurnBegan(from) ==
    /\ \E k \in DOMAIN sdtCarousel[from] : Lookup(sdtCarousel[from][k].id) = first
    /\ ~endSDT
    /\ \A n \in DOMAIN sdtCarousel : Since(from, sdtPos, n) => SectionNamed(n)

NamesInv ==
    /\ ~endBAT => first = NoChannel
    /\ first = NoChannel => ~endSDT
    /\ sdtLost = 0 /\ first # NoChannel =>
         AllSectionsNamed \/ \E from \in DOMAIN sdtCarousel : TurnBegan(from)

(* The loop over the services of a section (SupplementChannelsSKYBOX) is   *)
(* a sequence of states, each made of the one before by one service.       *)
LEMMA SupplementRuns ==
    ASSUME NEW services, Len(services) \in Nat
    PROVE  \E g : /\ g[0] = [first |-> first, endSDT |-> endSDT, updates |-> updates,
                              named |-> named, short |-> short]
                  /\ \A k \in 1 .. Len(services) : g[k] = Supplement(g[k - 1], services[k])
                  /\ SupplementAll(services) = g[Len(services)]
<1> DEFINE n == Len(services)
           t0 == [first |-> first, endSDT |-> endSDT, updates |-> updates,
                  named |-> named, short |-> short]
           Step(t, a) == Supplement(t, services[a])
           Body(g, k) == [a \in 0 .. k |-> IF a = 0 THEN t0 ELSE Step(g[a - 1], a)]
           T == {k \in 0 .. n : \E g : g = Body(g, k)}
<1>1. n \in Nat
  OBVIOUS
<1>2. SupplementAll(services) = (CHOOSE g : g = Body(g, n))[n]
  BY DEF SupplementAll
<1> HIDE DEF n, Step, t0
<1>3. 0 \in T
  <2> DEFINE h == [a \in 0 .. 0 |-> t0]
  <2>1. h = Body(h, 0)
    OBVIOUS
  <2> HIDE DEF h, Body
  <2> QED BY <1>1, <2>1
<1>4. ASSUME NEW k \in 0 .. n - 1, k \in T
      PROVE  k + 1 \in T
  <2>1. PICK g : g = Body(g, k)
    BY <1>4
  <2> DEFINE h == [a \in 0 .. k + 1 |-> IF a <= k THEN g[a] ELSE Step(g[k], k + 1)]
  <2>2. h = Body(h, k + 1)
    <3>1. \A a \in 0 .. k : g[a] = IF a = 0 THEN t0 ELSE Step(g[a - 1], a)
      BY <2>1
    <3>2. \A a \in 0 .. k : h[a] = g[a]
      BY <1>1
    <3> SUFFICES ASSUME NEW a \in 0 .. k + 1
                 PROVE  h[a] = IF a = 0 THEN t0 ELSE Step(h[a - 1], a)
      OBVIOUS
    <3>3. CASE a <= k
      BY <1>1, <3>1, <3>2, <3>3
    <3>4. CASE a = k + 1
      BY <1>1, <3>2, <3>4
    <3> QED BY <1>1, <3>3, <3>4
  <2> HIDE DEF h, Body
  <2> QED BY <1>1, <2>2
<1>5. PICK g : g = Body(g, n)
  <2> HIDE DEF T
  <2>1. \A k \in 0 .. n : k \in T
    BY <1>1, <1>3, <1>4, UpTo
  <2>2. n \in T
    BY <1>1, <2>1
  <2> QED BY <2>2 DEF T
<1> DEFINE after == CHOOSE h : h = Body(h, n)
<1>6. after = Body(after, n)
  <2> HIDE DEF Body
  <2> QED BY <1>5
<1> HIDE DEF after
<1>7. after[0] = t0 /\ \A k \in 1 .. n : after[k] = Step(after[k - 1], k)
  BY <1>1, <1>6
<1> QED BY <1>2, <1>7 DEF n, after, Step, t0

(* What the first k services of a section have made of the table.          *)
Supplemented(services, t, k) ==
    /\ named \subseteq t.named /\ short \subseteq t.short
    /\ \A l \in 1 .. k : NamedIn(services[l], t.named, t.short)
    /\ \A c \in t.named : c \in named \/ \E l \in 1 .. k : NameOf(services[l], c)
    /\ \A c \in t.short : c \in short \/ \E l \in 1 .. k : ShortOf(services[l], c)
    /\ first # NoChannel => t.first = first
    /\ first = NoChannel /\ t.first # NoChannel =>
         \E l \in 1 .. k : Lookup(services[l].id) = t.first
    /\ t.endSDT /\ ~endSDT =>
         /\ t.first # NoChannel
         /\ \E l \in 1 .. k :
              /\ Lookup(services[l].id) = t.first
              /\ first = NoChannel => \E m \in 1 .. l - 1 : Lookup(services[m].id) = t.first

(* One service is dealt with: its channel has the names it gives, nobody   *)
(* else has, and if it is the one that opened the turn the updates are     *)
(* forgotten, and the end declared if there were none.                     *)
LEMMA SupplementStep ==
    ASSUME NEW services, NEW k \in Nat, NEW t, Supplemented(services, t, k)
    PROVE  Supplemented(services, Supplement(t, services[k + 1]), k + 1)
<1> DEFINE s == services[k + 1]
           c == Lookup(s.id)
           u == Supplement(t, s)
<1>1. /\ u.first = IF t.first = NoChannel THEN c ELSE t.first
      /\ u.endSDT <=> t.endSDT \/ Ends(t, c)
      /\ u.named = t.named \cup (IF c # NoChannel /\ GivesName(s) THEN {c} ELSE {})
      /\ u.short = t.short \cup (IF GivesShort(t, c, s) THEN {c} ELSE {})
  BY DEF Supplement
<1>2. /\ k + 1 \in 1 .. k + 1 /\ \A l \in 1 .. k + 1 : l \in 1 .. k \/ l = k + 1
      /\ \A l \in 1 .. k : l \in 1 .. k + 1
      /\ (k + 1) - 1 = k
  OBVIOUS
<1> HIDE DEF u
<1>3. named \subseteq u.named /\ short \subseteq u.short
  BY <1>1 DEF Supplemented
<1>4. \A l \in 1 .. k + 1 : NamedIn(services[l], u.named, u.short)
  <2>1. NamedIn(s, u.named, u.short)
    BY <1>1 DEF NamedIn, GivesShort
  <2>2. \A l \in 1 .. k : NamedIn(services[l], u.named, u.short)
    BY <1>1 DEF Supplemented, NamedIn
  <2> QED BY <1>2, <2>1, <2>2
<1>5. first # NoChannel => u.first = first
  BY <1>1 DEF Supplemented
<1>6. first = NoChannel /\ u.first # NoChannel =>
        \E l \in 1 .. k + 1 : Lookup(services[l].id) = u.first
  BY <1>1, <1>2 DEF Supplemented
<1>7. ASSUME u.endSDT, ~endSDT
      PROVE  /\ u.first # NoChannel
             /\ \E l \in 1 .. k + 1 :
                  /\ Lookup(services[l].id) = u.first
                  /\ first = NoChannel => \E m \in 1 .. l - 1 : Lookup(services[m].id) = u.first
  <2>1. CASE t.endSDT
    BY <1>1, <1>2, <1>7, <2>1 DEF Supplemented
  <2>2. CASE Ends(t, c)
    <3>1. t.first # NoChannel /\ c = t.first /\ u.first = t.first
      BY <1>1, <2>2 DEF Ends, Again
    <3>2. first = NoChannel => \E m \in 1 .. k : Lookup(services[m].id) = u.first
      BY <3>1 DEF Supplemented
    <3> QED BY <1>2, <3>1, <3>2
  <2> QED BY <1>1, <1>7, <2>1, <2>2
<1>8. \A d \in u.named : d \in named \/ \E l \in 1 .. k + 1 : NameOf(services[l], d)
  <2>1. \A d \in u.named : d \in t.named \/ NameOf(s, d)
    BY <1>1 DEF NameOf
  <2> QED BY <1>2, <2>1 DEF Supplemented
<1>9. \A d \in u.short : d \in short \/ \E l \in 1 .. k + 1 : ShortOf(services[l], d)
  <2>1. \A d \in u.short : d \in t.short \/ ShortOf(s, d)
    BY <1>1 DEF ShortOf, GivesShort
  <2> QED BY <1>2, <2>1 DEF Supplemented
<1> QED BY <1>3, <1>4, <1>5, <1>6, <1>7, <1>8, <1>9 DEF Supplemented, u

(* A section is dealt with: each of its services that is in the list has   *)
(* the names it gives, and if the end was declared then because a service  *)
(* of the section is the one seen first.                                   *)
LEMMA SectionSupplemented ==
    ASSUME NEW services, Len(services) \in Nat
    PROVE  Supplemented(services, SupplementAll(services), Len(services))
<1> DEFINE n == Len(services)
<1>1. PICK g : /\ g[0] = [first |-> first, endSDT |-> endSDT, updates |-> updates,
                          named |-> named, short |-> short]
               /\ \A k \in 1 .. n : g[k] = Supplement(g[k - 1], services[k])
               /\ SupplementAll(services) = g[n]
  BY SupplementRuns
<1> HIDE DEF n
<1> DEFINE T == {k \in 0 .. n : Supplemented(services, g[k], k)}
<1>2. n \in Nat
  BY DEF n
<1>3. 0 \in T
  <2>1. /\ g[0].first = first /\ g[0].endSDT = endSDT
        /\ g[0].named = named /\ g[0].short = short
    BY <1>1
  <2>2. 0 \in 0 .. n /\ 1 .. 0 = {}
    BY <1>2
  <2>3. Supplemented(services, g[0], 0)
    BY <2>1, <2>2 DEF Supplemented
  <2> QED BY <2>2, <2>3
<1>4. ASSUME NEW k \in 0 .. n - 1, k \in T
      PROVE  k + 1 \in T
  <2>1. k \in Nat /\ k + 1 \in 1 .. n /\ k + 1 \in 0 .. n /\ (k + 1) - 1 = k
    BY <1>2
  <2>2. g[k + 1] = Supplement(g[k], services[k + 1])
    BY <1>1, <2>1
  <2>3. Supplemented(services, g[k], k)
    BY <1>4
  <2>4. Supplemented(services, g[k + 1], k + 1)
    BY <2>1, <2>2, <2>3, SupplementStep
  <2> QED BY <2>1, <2>4
<1>5. n \in T
  <2> HIDE DEF T
  <2>1. \A k \in 0 .. n : k \in T
    BY <1>2, <1>3, <1>4, UpTo
  <2> QED BY <1>2, <2>1
<1> QED BY <1>1, <1>5 DEF n

(* The channel that is found for a service is a channel of that service.   *)
LEMMA LookupTells ==
    ASSUME NEW x, Lookup(x) # NoChannel
    PROVE  ServiceOf[Lookup(x)] = x
<1>1. Lookup(x) \in Candidates(x)
  BY DEF Lookup
<1> QED BY <1>1 DEF Candidates

(* So a channel is found at one place of the broadcast only.               *)
LEMMA FoundOnce ==
    ASSUME SdtOnAir, NEW m \in DOMAIN sdtCarousel, NEW n \in DOMAIN sdtCarousel,
           NEW k \in DOMAIN sdtCarousel[m], NEW l \in DOMAIN sdtCarousel[n],
           Lookup(sdtCarousel[m][k].id) # NoChannel,
           Lookup(sdtCarousel[m][k].id) = Lookup(sdtCarousel[n][l].id)
    PROVE  m = n /\ k = l
<1>1. sdtCarousel[m][k].id = sdtCarousel[n][l].id
  BY LookupTells
<1> QED BY <1>1 DEF SdtOnAir

(* What was on the air since the turn began, after one section more.       *)
LEMMA SinceAdvances ==
    ASSUME NEW n \in Nat \ {0}, NEW from \in 1 .. n, NEW p \in 1 .. n, NEW j \in 1 .. n
    PROVE  LET q == IF p = n THEN 1 ELSE p + 1 IN
           /\ from = p => (Since(from, q, j) <=> j = p) /\ Since(from, p, j)
           /\ from # p => (Since(from, q, j) <=> Since(from, p, j) \/ j = p)
BY DEF Since

(* One version of the SDT is on the air.                                   *)
LEMMA SdtOnAirInit == Init => SdtOnAir
<1> SUFFICES ASSUME Init PROVE SdtOnAir
  OBVIOUS
<1>1. carousel \in Carousels /\ sdtCarousel \in SdtCarousels(carousel)
      /\ sdtPos \in DOMAIN sdtCarousel /\ sdtLost = 0
  BY DEF Init, BatInit, SdtInit
<1>2. /\ sdtCarousel \in Seq({sdtCarousel[m] : m \in DOMAIN sdtCarousel})
      /\ \A m \in DOMAIN sdtCarousel :
           sdtCarousel[m] \in Seq({sdtCarousel[m][k] : k \in DOMAIN sdtCarousel[m]})
      /\ \A m, n \in DOMAIN sdtCarousel :
           \A k \in DOMAIN sdtCarousel[m], l \in DOMAIN sdtCarousel[n] :
             sdtCarousel[m][k].id = sdtCarousel[n][l].id => m = n /\ k = l
  BY <1>1, SdtAssumption, Zenon
<1>3. DOMAIN sdtCarousel = 1 .. Len(sdtCarousel) /\ Len(sdtCarousel) \in Nat
  BY <1>2
<1>4. ASSUME NEW m \in DOMAIN sdtCarousel
      PROVE  DOMAIN sdtCarousel[m] = 1 .. Len(sdtCarousel[m]) /\ Len(sdtCarousel[m]) \in Nat
  BY <1>2
<1> QED BY <1>1, <1>2, <1>3, <1>4 DEF SdtOnAir

(* Nobody has a name, and no turn has begun, when the filter starts.       *)
LEMMA NamesInit == Init => NamesInv
BY DEF Init, BatInit, SdtInit, NamesInv

(* And it stays on the air.                                                *)
LEMMA SdtOnAirStep == SdtOnAir /\ [Next]_vars => SdtOnAir' /\ sdtCarousel' = sdtCarousel
<1> SUFFICES ASSUME SdtOnAir, [Next]_vars PROVE SdtOnAir' /\ sdtCarousel' = sdtCarousel
  OBVIOUS
<1>1. sdtCarousel' = sdtCarousel /\ (sdtPos' = sdtPos \/ SdtAdvance)
      /\ (sdtLost' = sdtLost \/ sdtLost' = sdtLost + 1)
  BY DEF Next, SdtNext, SdtHandler, SdtTooEarly, SdtFinish, SdtSection, LoseSdt, sdtVars, vars
<1>2. sdtPos' \in 1 .. Len(sdtCarousel) /\ sdtLost' \in Nat
  BY <1>1 DEF SdtOnAir, SdtAdvance
<1> QED BY <1>1, <1>2 DEF SdtOnAir

(* Nothing but the next section changes.                                   *)
LEMMA NamesKept ==
    ASSUME NamesInv, channels' = channels, endBAT' = endBAT,
           UNCHANGED <<sdtCarousel, sdtPos, sdtLost, first, endSDT, named, short>>
    PROVE  NamesInv'
<1>1. \A x : Lookup(x)' = Lookup(x)
  BY DEF Lookup, Candidates
<1>2. \A n : SectionNamed(n)' <=> SectionNamed(n)
  BY <1>1 DEF SectionNamed, NamedIn
<1>3. \A from : TurnBegan(from)' <=> TurnBegan(from)
  BY <1>1, <1>2 DEF TurnBegan
<1> QED BY <1>2, <1>3 DEF NamesInv, AllSectionsNamed

(* A section read by the SDT handler: it opens the turn, adds its names,   *)
(* or ends the turn where it began.                                        *)
LEMMA NamesSection == SdtOnAir /\ NamesInv /\ SdtSection /\ UNCHANGED batVars => NamesInv'
<1> SUFFICES ASSUME SdtOnAir, NamesInv, SdtSection, UNCHANGED batVars PROVE NamesInv'
  OBVIOUS
<1> DEFINE services == sdtCarousel[sdtPos]
           t == SupplementAll(services)
<1>1. /\ channels' = channels /\ endBAT' = endBAT /\ endBAT /\ ~endSDT
      /\ first' = t.first /\ endSDT' = t.endSDT /\ named' = t.named /\ short' = t.short
      /\ sdtCarousel' = sdtCarousel /\ sdtLost' = sdtLost /\ SdtAdvance
  BY DEF SdtSection, ListReady, batVars
<1>p. PICK p \in DOMAIN sdtCarousel : p = sdtPos
  BY DEF SdtOnAir
<1>2. Supplemented(services, t, Len(services)) /\ DOMAIN services = 1 .. Len(services)
      /\ Len(services) \in Nat
  BY <1>p, SectionSupplemented DEF SdtOnAir
<1> HIDE DEF t
<1>3. \A x : Lookup(x)' = Lookup(x)
  BY <1>1 DEF Lookup, Candidates
<1>4. \A n \in DOMAIN sdtCarousel : SectionNamed(n) => SectionNamed(n)'
  BY <1>1, <1>2, <1>3 DEF SectionNamed, NamedIn, Supplemented
<1>5. SectionNamed(p)'
  BY <1>p, <1>1, <1>2, <1>3 DEF SectionNamed, NamedIn, Supplemented
<1>6. ASSUME NEW from \in DOMAIN sdtCarousel, NEW n \in DOMAIN sdtCarousel
      PROVE  /\ from = p => (Since(from, sdtPos', n) <=> n = p) /\ Since(from, p, n)
             /\ from # p => (Since(from, sdtPos', n) <=> Since(from, p, n) \/ n = p)
  <2> DEFINE size == Len(sdtCarousel)
  <2>1. size \in Nat \ {0} /\ from \in 1 .. size /\ p \in 1 .. size /\ n \in 1 .. size
    BY DEF SdtOnAir
  <2>2. sdtPos' = IF p = size THEN 1 ELSE p + 1
    BY <1>p, <1>1 DEF SdtAdvance
  <2> HIDE DEF size
  <2> QED BY <2>1, <2>2, SinceAdvances
<1>7. first' = NoChannel => ~endSDT'
  BY <1>1, <1>2 DEF Supplemented
<1>8. ASSUME first = NoChannel, first' # NoChannel
      PROVE  TurnBegan(p)'
  <2>1. PICK k \in DOMAIN services : Lookup(services[k].id) = t.first
    BY <1>1, <1>2, <1>8 DEF Supplemented
  <2>2. ~endSDT'
    <3> SUFFICES ASSUME t.endSDT PROVE FALSE
      BY <1>1
    <3>0. PICK l \in 1 .. Len(services) :
            /\ Lookup(services[l].id) = t.first
            /\ \E m \in 1 .. l - 1 : Lookup(services[m].id) = t.first
      BY <1>1, <1>2, <1>8 DEF Supplemented
    <3>1. PICK m \in 1 .. l - 1 : Lookup(services[m].id) = t.first
      BY <3>0
    <3>2. l \in DOMAIN services /\ m \in DOMAIN services /\ l # m
      BY <1>2, <3>1
    <3> QED BY <1>p, <1>1, <1>8, <3>0, <3>1, <3>2, FoundOnce
  <2>3. \A n \in DOMAIN sdtCarousel : Since(p, sdtPos', n) => SectionNamed(n)'
    BY <1>5, <1>6
  <2> QED BY <1>p, <1>1, <1>3, <2>1, <2>2, <2>3 DEF TurnBegan
<1>9. ASSUME first # NoChannel, sdtLost = 0
      PROVE  AllSectionsNamed' \/ \E from \in DOMAIN sdtCarousel : TurnBegan(from)'
  <2>0. first' = first
    BY <1>1, <1>2, <1>9 DEF Supplemented
  <2>1. CASE AllSectionsNamed
    BY <1>1, <1>4, <2>1 DEF AllSectionsNamed
  <2>2. ASSUME NEW from \in DOMAIN sdtCarousel, TurnBegan(from), from = p
        PROVE  AllSectionsNamed'
    BY <1>p, <1>1, <1>4, <1>6, <2>2 DEF TurnBegan, AllSectionsNamed
  <2>3. ASSUME NEW from \in DOMAIN sdtCarousel, TurnBegan(from), from # p
        PROVE  TurnBegan(from)'
    <3>1. PICK k \in DOMAIN sdtCarousel[from] : Lookup(sdtCarousel[from][k].id) = first
      BY <2>3 DEF TurnBegan
    <3>2. ~endSDT'
      <4> SUFFICES ASSUME t.endSDT PROVE FALSE
        BY <1>1
      <4>1. PICK l \in DOMAIN services : Lookup(services[l].id) = t.first
        BY <1>1, <1>2 DEF Supplemented
      <4> QED BY <1>p, <1>1, <1>9, <2>0, <2>3, <3>1, <4>1, FoundOnce
    <3>3. \A n \in DOMAIN sdtCarousel : Since(from, sdtPos', n) => SectionNamed(n)'
      BY <1>p, <1>4, <1>5, <1>6, <2>3 DEF TurnBegan
    <3> QED BY <1>1, <1>3, <2>0, <3>1, <3>2, <3>3 DEF TurnBegan
  <2> QED BY <1>9, <2>1, <2>2, <2>3 DEF NamesInv
<1> QED BY <1>1, <1>7, <1>8, <1>9, <1>p DEF NamesInv

(* Every step keeps what is known of the names: BAT sections that come     *)
(* later do not touch the SDT's, for the SDT handler waits for the end     *)
(* of the BAT.                                                             *)
LEMMA NamesStep == SdtOnAir /\ NamesInv /\ [Next]_vars => NamesInv'
<1> SUFFICES ASSUME SdtOnAir, NamesInv, [Next]_vars PROVE NamesInv'
  OBVIOUS
<1>1. CASE BatNext /\ UNCHANGED sdtVars
  <2>1. endBAT => endBAT' /\ channels' = channels
    BY <1>1 DEF BatNext, BatSection, Skip, FinishBat, DropNameless, Announce, Load, LoseBat,
                BatGivesUp, Takes
  <2>2. UNCHANGED <<sdtCarousel, sdtPos, sdtLost, first, endSDT, named, short>>
    BY <1>1 DEF sdtVars
  <2>3. CASE endBAT
    BY <2>1, <2>2, <2>3, NamesKept DEF NamesInv
  <2>4. CASE ~endBAT
    BY <2>2, <2>4 DEF NamesInv
  <2> QED BY <2>3, <2>4
<1>2. CASE SdtTooEarly /\ UNCHANGED batVars
  <2>1. endBAT' = endBAT /\ UNCHANGED <<first, endSDT>> /\ ~endBAT
    BY <1>2 DEF SdtTooEarly, ListReady, sdtTable, batVars
  <2> QED BY <2>1 DEF NamesInv
<1>3. CASE SdtFinish /\ UNCHANGED batVars
  <2>1. /\ endBAT' = endBAT /\ channels' = channels /\ endSDT
        /\ UNCHANGED <<sdtCarousel, sdtLost, first, endSDT, named, short>>
    BY <1>3 DEF SdtFinish, sdtTable, batVars
  <2>2. AllSectionsNamed' <=> AllSectionsNamed
    BY <2>1 DEF AllSectionsNamed, SectionNamed, NamedIn, Lookup, Candidates
  <2> QED BY <2>1, <2>2 DEF NamesInv, TurnBegan
<1>4. CASE SdtSection /\ UNCHANGED batVars
  BY <1>4, NamesSection
<1>5. CASE LoseSdt /\ UNCHANGED batVars
  <2>1. endBAT' = endBAT /\ UNCHANGED <<first, endSDT>> /\ sdtLost' = sdtLost + 1
    BY <1>5 DEF LoseSdt, sdtTable, batVars
  <2>2. sdtLost' # 0
    BY <2>1 DEF SdtOnAir
  <2> QED BY <2>1, <2>2 DEF NamesInv
<1>6. CASE UNCHANGED vars
  <2>1. /\ channels' = channels /\ endBAT' = endBAT
        /\ UNCHANGED <<sdtCarousel, sdtPos, sdtLost, first, endSDT, named, short>>
    BY <1>6 DEF vars, batVars, sdtVars
  <2> QED BY <2>1, NamesKept
<1> QED BY <1>1, <1>2, <1>3, <1>4, <1>5, <1>6 DEF Next, SdtNext, SdtHandler

(* Nobody has a name when the filter starts, and every step keeps what is  *)
(* known of where the names come from.                                     *)
LEMMA GivenInit == Init => GivenInv
BY DEF Init, SdtInit, GivenInv

(* Nothing but the next section changes.                                   *)
LEMMA GivenKept ==
    ASSUME GivenInv, endBAT => endBAT' /\ channels' = channels,
           UNCHANGED <<sdtCarousel, named, short>>
    PROVE  GivenInv'
<1>1. CASE endBAT
  <2>1. \A s, c : NameOf(s, c)' <=> NameOf(s, c)
    BY <1>1 DEF NameOf, Lookup, Candidates
  <2>2. \A s, c : ShortOf(s, c)' <=> ShortOf(s, c)
    BY <1>1 DEF ShortOf, Lookup, Candidates
  <2> QED BY <1>1, <2>1, <2>2 DEF GivenInv
<1>2. CASE ~endBAT
  BY <1>2 DEF GivenInv
<1> QED BY <1>1, <1>2

(* A section adds the names its services give.                             *)
LEMMA GivenSection == SdtOnAir /\ GivenInv /\ SdtSection /\ UNCHANGED batVars => GivenInv'
<1> SUFFICES ASSUME SdtOnAir, GivenInv, SdtSection, UNCHANGED batVars PROVE GivenInv'
  OBVIOUS
<1> DEFINE services == sdtCarousel[sdtPos]
           t == SupplementAll(services)
<1>1. /\ channels' = channels /\ endBAT' /\ sdtCarousel' = sdtCarousel
      /\ named' = t.named /\ short' = t.short
  BY DEF SdtSection, ListReady, batVars
<1>p. PICK p \in DOMAIN sdtCarousel : p = sdtPos
  BY DEF SdtOnAir
<1>2. Supplemented(services, t, Len(services)) /\ DOMAIN services = 1 .. Len(services)
  BY <1>p, SectionSupplemented DEF SdtOnAir
<1> HIDE DEF t
<1>3. \A s, c : NameOf(s, c)' <=> NameOf(s, c)
  BY <1>1 DEF NameOf, Lookup, Candidates
<1>4. \A s, c : ShortOf(s, c)' <=> ShortOf(s, c)
  BY <1>1 DEF ShortOf, Lookup, Candidates
<1>5. \A c \in t.named :
        \E n \in DOMAIN sdtCarousel : \E k \in DOMAIN sdtCarousel[n] : NameOf(sdtCarousel[n][k], c)
  BY <1>p, <1>2 DEF Supplemented, GivenInv
<1>6. \A c \in t.short :
        \E n \in DOMAIN sdtCarousel : \E k \in DOMAIN sdtCarousel[n] : ShortOf(sdtCarousel[n][k], c)
  BY <1>p, <1>2 DEF Supplemented, GivenInv
<1> QED BY <1>1, <1>3, <1>4, <1>5, <1>6 DEF GivenInv

(* The other steps leave the names alone.                                  *)
LEMMA GivenStep == SdtOnAir /\ GivenInv /\ [Next]_vars => GivenInv'
<1> SUFFICES ASSUME SdtOnAir, GivenInv, [Next]_vars PROVE GivenInv'
  OBVIOUS
<1>1. CASE BatNext /\ UNCHANGED sdtVars
  <2>1. endBAT => endBAT' /\ channels' = channels
    BY <1>1 DEF BatNext, BatSection, Skip, FinishBat, DropNameless, Announce, Load, LoseBat,
                BatGivesUp, Takes
  <2> QED BY <1>1, <2>1, GivenKept DEF sdtVars
<1>2. CASE SdtSection /\ UNCHANGED batVars
  BY <1>2, GivenSection
<1>3. CASE (SdtTooEarly \/ SdtFinish \/ LoseSdt) /\ UNCHANGED batVars
  <2>1. /\ endBAT' = endBAT /\ channels' = channels
        /\ UNCHANGED <<sdtCarousel, named, short>>
    BY <1>3 DEF SdtTooEarly, SdtFinish, LoseSdt, sdtTable, batVars
  <2> QED BY <2>1, GivenKept
<1>4. CASE UNCHANGED vars
  BY <1>4, GivenKept DEF vars, batVars, sdtVars
<1> QED BY <1>1, <1>2, <1>3, <1>4 DEF Next, SdtNext, SdtHandler

(* When the SDT handler declares its end because the first channel came    *)
(* again, and no section was missed, the channel of every service on the   *)
(* air has a name exactly if the service gives one, and a short name       *)
(* exactly if it has one, in however many sections the services come and   *)
(* wherever the receiver joined.  A service whose type the switch passes   *)
(* over counts for the end and gives no name.                              *)
THEOREM ServicesAreNamed == Spec => []AllServicesNamed
<1>1. Init => SdtOnAir /\ NamesInv /\ GivenInv
  BY SdtOnAirInit, NamesInit, GivenInit
<1>2. (SdtOnAir /\ NamesInv /\ GivenInv) /\ [Next]_vars => (SdtOnAir /\ NamesInv /\ GivenInv)'
  BY SdtOnAirStep, NamesStep, GivenStep
<1>3. SdtOnAir /\ NamesInv /\ GivenInv => AllServicesNamed
  <2> SUFFICES ASSUME SdtOnAir, NamesInv, GivenInv, endSDT, sdtLost = 0,
                      NEW m \in DOMAIN sdtCarousel, NEW j \in DOMAIN sdtCarousel[m],
                      Lookup(sdtCarousel[m][j].id) # NoChannel
               PROVE  LET s == sdtCarousel[m][j]
                          c == Lookup(s.id)
                      IN  (c \in named <=> GivesName(s)) /\ (c \in short <=> s.aka)
    BY DEF AllServicesNamed, Services
  <2> DEFINE s == sdtCarousel[m][j]
             c == Lookup(s.id)
  <2>1. (GivesName(s) => c \in named) /\ (s.aka => c \in short)
    BY DEF NamesInv, TurnBegan, AllSectionsNamed, SectionNamed, NamedIn
  <2>2. ASSUME c \in named PROVE GivesName(s)
    <3>1. PICK n \in DOMAIN sdtCarousel : \E k \in DOMAIN sdtCarousel[n] : NameOf(sdtCarousel[n][k], c)
      BY <2>2 DEF GivenInv
    <3>2. PICK k \in DOMAIN sdtCarousel[n] : NameOf(sdtCarousel[n][k], c)
      BY <3>1
    <3>3. m = n /\ j = k
      BY <3>2, FoundOnce DEF NameOf
    <3> QED BY <3>2, <3>3 DEF NameOf
  <2>3. ASSUME c \in short PROVE s.aka
    <3>1. PICK n \in DOMAIN sdtCarousel : \E k \in DOMAIN sdtCarousel[n] : ShortOf(sdtCarousel[n][k], c)
      BY <2>3 DEF GivenInv
    <3>2. PICK k \in DOMAIN sdtCarousel[n] : ShortOf(sdtCarousel[n][k], c)
      BY <3>1
    <3>3. m = n /\ j = k
      BY <3>2, FoundOnce DEF ShortOf
    <3> QED BY <3>2, <3>3 DEF ShortOf
  <2> QED BY <2>1, <2>2, <2>3
<1> QED BY <1>1, <1>2, <1>3, PTL DEF Spec
=============================================================================
