------------------------------- MODULE SkyBat -------------------------------
(***************************************************************************)
(* How the Sky grabber collects its channel list: the handler of Bouquet   *)
(* Association Table sections, cTaskLoadepg::GetChannelsSKYBOX.            *)
(*                                                                         *)
(* The sections of all bouquets are broadcast over and over in a fixed     *)
(* order (the carousel); the receiver joins anywhere and may miss          *)
(* sections.  The handler has to find out by counting sections when the    *)
(* list is complete: the table says how many sections a bouquet has, but   *)
(* nothing says how many bouquets there are.                               *)
(***************************************************************************)
EXTENDS Integers, Sequences, FiniteSets, Functions

CONSTANTS
    Carousels,      \* the broadcasts considered: sequences of sections
    BouquetFilters, \* the values of bouquet_filter (-b) considered; NoFilter: none
    MaxChannels,    \* MAX_CHANNELS
    ShortMax,       \* the largest short int: 32767
    MaxLost         \* how many sections may be missed (bounds the model)

(***************************************************************************)
(* A section is a record                                                   *)
(*   bouquet    the bouquet it belongs to                                  *)
(*   section    its number, from 0 to                                      *)
(*   last       the number of the bouquet's last section                   *)
(*   described  whether it carries bouquet descriptors, and then           *)
(*   name       the bouquet name in them, possibly ""                      *)
(*   offers     the channels in it: a set of <<channel, region>>           *)
(***************************************************************************)
NullName   == "null"
NoFilter   == "no filter"
NoRegion   == 65535

(* One version of each bouquet is on the air: a section comes once in a    *)
(* turn, and the sections of a bouquet agree on how many they are.         *)
ASSUME CarouselsAssumption ==
    \A c \in Carousels :
        /\ c \in Seq({c[i] : i \in DOMAIN c})
        /\ \A i \in DOMAIN c : /\ c[i].last \in Nat /\ c[i].section \in 0 .. c[i].last
                               /\ c[i].name # NullName
        /\ \A i, j \in DOMAIN c : c[i].bouquet = c[j].bouquet =>
               /\ c[i].last = c[j].last
               /\ c[i].section = c[j].section => i = j
ASSUME LimitsAssumption ==
    /\ MaxChannels \in Nat \ {0} /\ MaxLost \in Nat
    /\ ShortMax \in Nat \ {0}

VARIABLES
    bouquetFilter,  \* bouquet_filter
    carousel,   \* the broadcast
    pos,        \* the section on the air
    lost,       \* how many sections were missed
    bouquets,   \* lBouquets: bouquet -> [name, last, seen]
    channels,   \* lChannels: channel -> the bits of its RegionMask
    endBAT,     \* EndBAT
    batStep,    \* Filters[].Step of the BAT filter: 1 running, 2 finished
    isError     \* IsError

batVars == <<bouquetFilter, carousel, pos, lost, bouquets, channels, endBAT, batStep, isError>>

BatRunning == batStep = 1 /\ ~isError
Section == carousel[pos]
Known   == DOMAIN bouquets

BatTypeOK ==
    /\ bouquetFilter \in BouquetFilters
    /\ carousel \in Carousels /\ pos \in DOMAIN carousel
    /\ lost \in 0 .. MaxLost
    /\ \A b \in Known : /\ bouquets[b].last \in Nat
                        /\ bouquets[b].seen \in [0 .. bouquets[b].last -> -ShortMax - 1 .. ShortMax]
    /\ \A c \in DOMAIN channels : channels[c] \subseteq 0 .. 31
    /\ endBAT \in BOOLEAN /\ batStep \in {1, 2} /\ isError \in BOOLEAN

BatInit ==
    /\ bouquetFilter \in BouquetFilters
    /\ carousel \in Carousels
    /\ pos \in DOMAIN carousel
    /\ lost = 0
    /\ bouquets = <<>> /\ channels = <<>>
    /\ endBAT = FALSE /\ batStep = 1 /\ isError = FALSE

Advance == pos' = IF pos = Len(carousel) THEN 1 ELSE pos + 1

(* Mutant: the section that created the bouquet is not to be seen twice.   *)
NewBouquetSeenOnce(s, name) ==
    [name |-> name, last |-> s.last, seen |-> [i \in 0 .. s.last |-> -1]]

(* A bouquet just created: no section seen, and the section that created   *)
(* it is to be seen twice.                                                 *)
NewBouquet(s, name) ==
    [name |-> name, last |-> s.last,
     seen |-> [i \in 0 .. s.last |-> IF i = s.section THEN -2 ELSE -1]]

(* Mutant: the name of a known bouquet is never filled in.                 *)
DescribedOnce(s) ==
    IF s.bouquet \in Known THEN bouquets[s.bouquet]
    ELSE NewBouquet(s, IF s.name = "" THEN NullName ELSE s.name)

(* The bouquet entry of a described section: the old one, named if it had  *)
(* no name, or a new one; an empty name leaves a new bouquet nameless.     *)
Described(s) ==
    IF s.bouquet \in Known
    THEN [bouquets[s.bouquet] EXCEPT !.name = IF @ = NullName THEN s.name ELSE @]
    ELSE NewBouquet(s, IF s.name = "" THEN NullName ELSE s.name)

(* SectionNumber[] holds short ints.                                       *)
Increment(n) == IF n = ShortMax THEN -ShortMax - 1 ELSE n + 1

(* CheckBouquetSections: count the section, and look whether every section *)
(* of every known bouquet has been counted often enough.                   *)
Count(s, entry) ==
    /\ bouquets' = [b \in Known \cup {s.bouquet} |->
                      IF b = s.bouquet THEN [entry EXCEPT !.seen[s.section] = Increment(@)]
                                       ELSE bouquets[b]]
    /\ endBAT' = \A b \in DOMAIN bouquets' :
                    \A i \in DOMAIN bouquets'[b].seen : bouquets'[b].seen[i] >= 0

RegionBits(s, c) == {r % 32 : r \in {o[2] : o \in {p \in s.offers : p[1] = c}} \ {NoRegion}}

Merged(s) ==
    [c \in DOMAIN channels \cup {o[1] : o \in s.offers} |->
        RegionBits(s, c) \cup (IF c \in DOMAIN channels THEN channels[c] ELSE {})]

Adds(s) == \E o \in s.offers : o[1] \notin DOMAIN channels

Selected(entry) == bouquetFilter \in {NoFilter, entry.name}

-----------------------------------------------------------------------------
(* The handler, one action per way through it.                             *)

(* A bouquet with a single section does not open the list.                 *)
SkipSingleton(s) == s.last = 0 /\ Known = {}

(* Mutant: sections are taken after the end of the BAT, too.               *)
TakesAlways(s) == BatRunning /\ ~SkipSingleton(s)

Takes(s) == BatRunning /\ ~SkipSingleton(s) /\ ~endBAT

Skip ==
    /\ BatRunning /\ SkipSingleton(Section)
    /\ Advance
    /\ UNCHANGED <<bouquetFilter, carousel, lost, bouquets, channels, endBAT, batStep, isError>>

FinishBat ==
    /\ BatRunning /\ ~SkipSingleton(Section)
    /\ endBAT
    /\ batStep' = 2
    /\ Advance
    /\ UNCHANGED <<bouquetFilter, carousel, lost, bouquets, channels, endBAT, isError>>

(* Mutant: the dropped section is counted all the same.                    *)
CountDropped(s) == Count(s, bouquets[s.bouquet])

DoNotCount(s) == UNCHANGED <<bouquets, endBAT>>

(* A section without descriptors of a bouquet that has no name yet is      *)
(* dropped and not counted.                                                *)
DropNameless ==
    LET s == Section IN
    /\ Takes(s)
    /\ ~s.described /\ s.bouquet \in Known
    /\ bouquets[s.bouquet].name = NullName
    /\ DoNotCount(s)
    /\ Advance
    /\ UNCHANGED <<bouquetFilter, carousel, lost, channels, batStep, isError>>

(* The first section of a bouquet has no descriptors: the bouquet is       *)
(* created without a name and the section's channels are left for later.   *)
Announce ==
    LET s == Section IN
    /\ Takes(s)
    /\ ~s.described /\ s.bouquet \notin Known
    /\ Count(s, NewBouquet(s, NullName))
    /\ Advance
    /\ UNCHANGED <<bouquetFilter, carousel, lost, channels, batStep, isError>>

(* A section whose channels are taken.  When the list fills up the handler *)
(* leaves at once, without counting the section; the channels after that   *)
(* one are merged here, but nothing is read from the list after an error.  *)
Load ==
    LET s == Section
        entry == IF s.described THEN Described(s) ELSE bouquets[s.bouquet]
    IN
    /\ Takes(s)
    /\ s.described \/ (s.bouquet \in Known /\ bouquets[s.bouquet].name # NullName)
    /\ IF ~Selected(entry)
       THEN Count(s, entry) /\ UNCHANGED <<channels, isError>>
       ELSE /\ channels' = Merged(s)
            /\ isError' = (Adds(s) /\ Cardinality(DOMAIN channels') >= MaxChannels)
            /\ IF isError'
               THEN /\ bouquets' = [b \in Known \cup {s.bouquet} |->
                                      IF b = s.bouquet THEN entry ELSE bouquets[b]]
                    /\ UNCHANGED endBAT
               ELSE Count(s, entry)
    /\ Advance
    /\ UNCHANGED <<bouquetFilter, carousel, lost, batStep>>

BatSection == Skip \/ FinishBat \/ DropNameless \/ Announce \/ Load

(* A section is missed: a failed checksum, or the handle overflowed.       *)
LoseBat ==
    /\ BatRunning /\ lost < MaxLost
    /\ lost' = lost + 1
    /\ Advance
    /\ UNCHANGED <<bouquetFilter, carousel, bouquets, channels, endBAT, batStep, isError>>

(* The kernel's timer expired, or a read failed: ReadBuffer sets Step to 2 *)
(* although the list is not complete.                                      *)
BatGivesUp ==
    /\ BatRunning
    /\ batStep' = 2
    /\ UNCHANGED <<bouquetFilter, carousel, pos, lost, bouquets, channels, endBAT, isError>>

BatNext == BatSection \/ LoseBat \/ BatGivesUp

BatSpec == BatInit /\ [][BatNext]_batVars

(* The broadcast goes on and the thread reads it.                          *)
BatFairSpec == BatSpec /\ WF_batVars(BatSection)

-----------------------------------------------------------------------------
Broadcast == {carousel[i] : i \in DOMAIN carousel}

(* The channels of section s are in the list, with their regions.          *)
Loaded(s) ==
    \A o \in s.offers : /\ o[1] \in DOMAIN channels
                        /\ o[2] # NoRegion => o[2] % 32 \in channels[o[1]]

Relevant(s) == bouquetFilter \in {NoFilter, bouquets[s.bouquet].name}

(* When the end of the BAT is declared, no channel of a bouquet that is    *)
(* known (and selected) is missing, however many sections were lost and    *)
(* wherever the receiver joined: every section was counted only when its   *)
(* channels were taken.                                                    *)
KnownBouquetsLoaded ==
    endBAT => \A s \in Broadcast :
                  s.bouquet \in Known /\ Relevant(s) => Loaded(s)

(* If no section was lost, the end of the BAT is not declared before every *)
(* bouquet on the air is known: counting the first section of a bouquet    *)
(* twice makes the handler wait for a whole turn of the carousel.          *)
AllBouquetsKnown ==
    endBAT /\ lost = 0 => \A s \in Broadcast : s.bouquet \in Known

(* When the end of the BAT is declared every known bouquet has a name:     *)
(* ShowSelectedInfo measures the names of all of them without a test.      *)
NamedAtEnd == endBAT => \A b \in Known : bouquets[b].name # NullName

(* The declared end is final, and nothing is added to the list after it:   *)
(* the SDT handler and CreateEpgXml keep pointers into the sorted array.   *)
EndIsFinal == [][endBAT => endBAT' /\ channels' = channels]_batVars

(* Every bouquet says its name somewhere, and some bouquet has more than   *)
(* one section.                                                            *)
WellDescribed ==
    /\ \A s \in Broadcast : \E d \in Broadcast : d.bouquet = s.bouquet /\ d.described
    /\ \E s \in Broadcast : s.last > 0

(* On such a broadcast, and if no section is lost, the handler recognises  *)
(* the end of the list (or runs out of room, or is given up).              *)
BatEnds == WellDescribed => <>(batStep = 2 \/ isError \/ lost > 0)
=============================================================================
