------------------------------- MODULE SkySdt -------------------------------
(***************************************************************************)
(* How the channels of the Sky grabber get their names: the handler of     *)
(* Service Description Table sections, SupplementChannelsSKYBOX, running   *)
(* beside the BAT handler whose list it completes.                         *)
(*                                                                         *)
(* The SDT of the other transponders is a carousel too.  The handler finds *)
(* its end by remembering the first service it recognised: when that one   *)
(* comes again, and no short name was added during the turn, all services  *)
(* have been seen.                                                         *)
(***************************************************************************)
EXTENDS SkyBat

CONSTANTS
    SdtCarousels(_), \* the SDT broadcasts, sequences of sections, beside a BAT broadcast
    ServiceOf       \* the service (network, transport stream, id) of a channel

(***************************************************************************)
(* A section is a sequence of services, each a record                      *)
(*   id            its identifier                                          *)
(*   types         the service types of its service descriptors            *)
(*   multilingual  whether it has multilingual names that are not "aka"    *)
(*   aka           whether it has a short ("aka") name                     *)
(*                                                                         *)
(* One version of the SDT is on the air, and a service is in it once.      *)
(***************************************************************************)
ASSUME SdtAssumption ==
    \A c \in Carousels : \A b \in SdtCarousels(c) :
        /\ b \in Seq({b[i] : i \in DOMAIN b})
        /\ \A i \in DOMAIN b : b[i] \in Seq({b[i][k] : k \in DOMAIN b[i]})
        /\ \A i \in DOMAIN b : \A k \in DOMAIN b[i] : b[i][k].types \subseteq 0 .. 255
        /\ \A i, j \in DOMAIN b : \A k \in DOMAIN b[i], l \in DOMAIN b[j] :
               b[i][k].id = b[j][l].id => i = j /\ k = l

NoChannel == "no channel"

VARIABLES
    sdtCarousel,    \* the broadcast
    sdtPos,         \* the section on the air
    sdtLost,        \* how many SDT sections were missed
    first,          \* firstSDTChannel
    updates,        \* nChannelUpdates
    endSDT,         \* EndSDT
    sdtStep,        \* Filters[].Step of the SDT filter
    named,          \* the channels that have a name
    short           \* the channels that have a short name

sdtVars == <<sdtCarousel, sdtPos, sdtLost, first, updates, endSDT, sdtStep, named, short>>
sdtTable == <<first, updates, endSDT, named, short>>

SdtTypeOK ==
    /\ sdtCarousel \in SdtCarousels(carousel) /\ sdtPos \in DOMAIN sdtCarousel
    /\ sdtLost \in 0 .. MaxLost
    /\ first \in DOMAIN channels \cup {NoChannel}
    /\ updates \in 0 .. Cardinality(DOMAIN channels)
    /\ endSDT \in BOOLEAN /\ sdtStep \in {1, 2}
    /\ named \subseteq DOMAIN channels /\ short \subseteq DOMAIN channels

SdtInit ==
    /\ sdtCarousel \in SdtCarousels(carousel)
    /\ sdtPos \in DOMAIN sdtCarousel
    /\ sdtLost = 0
    /\ first = NoChannel /\ updates = 0
    /\ endSDT = FALSE /\ sdtStep = 1
    /\ named = {} /\ short = {}

SdtRunning == sdtStep = 1 /\ ~isError

SdtAdvance == sdtPos' = IF sdtPos = Len(sdtCarousel) THEN 1 ELSE sdtPos + 1

Candidates(service) == {c \in DOMAIN channels : ServiceOf[c] = service}

(* bsearchChannelBySid: one of the channels of the service.  The array no  *)
(* longer changes, so it is always the same one.                           *)
Lookup(service) ==
    IF Candidates(service) = {} THEN NoChannel ELSE CHOOSE c \in Candidates(service) : TRUE

(* Mutant: any channel after the first one counts as its repetition.       *)
AgainAny(t, c) == t.first # NoChannel

(* The channel first recognised comes again: a turn is over.               *)
Again(t, c) == t.first # NoChannel /\ t.first = c

Ends(t, c) == Again(t, c) /\ t.updates = 0

(* Mutant: the updates of the last turn are not forgotten.                 *)
KeepsUpdates(t, c) == t.updates

(* The updates counted so far, forgotten when a turn is over.              *)
Updates(t, c) == IF Again(t, c) THEN 0 ELSE t.updates

(* A service descriptor gives the name only for some types, of which the   *)
(* switch looks at three bits: 0x19 is taken like 0x01, and 0x16 like none *)
(* of them.  A multilingual name is taken whatever the type.               *)
NamedTypes == {0, 1, 2, 4, 5}

GivesName(service) ==
    service.multilingual \/ \E type \in service.types : type % 8 \in NamedTypes

GivesShort(t, c, service) == c # NoChannel /\ service.aka /\ c \notin t.short

(* What one service of a section does to the table.  The turns are counted *)
(* by every service that is found, whether it gives a name or not.         *)
Supplement(t, service) ==
    LET c == Lookup(service.id) IN
    [first   |-> IF t.first = NoChannel THEN c ELSE t.first,
     endSDT  |-> t.endSDT \/ Ends(t, c),
     updates |-> Updates(t, c) + (IF GivesShort(t, c, service) THEN 1 ELSE 0),
     named   |-> t.named \cup (IF c # NoChannel /\ GivesName(service) THEN {c} ELSE {}),
     short   |-> t.short \cup (IF GivesShort(t, c, service) THEN {c} ELSE {})]

SupplementAll(services) ==
    LET after[i \in 0 .. Len(services)] ==
          IF i = 0 THEN [first |-> first, endSDT |-> endSDT, updates |-> updates,
                         named |-> named, short |-> short]
          ELSE Supplement(after[i - 1], services[i])
    IN  after[Len(services)]

(* Sections are left unread until the channel list is complete.            *)
ListReady == endBAT

(* The section comes too early: the channel list is not complete.          *)
SdtTooEarly ==
    /\ SdtRunning /\ ~ListReady
    /\ SdtAdvance
    /\ UNCHANGED <<sdtCarousel, sdtLost, sdtTable, sdtStep>>

SdtFinish ==
    /\ SdtRunning /\ ListReady /\ endSDT
    /\ sdtStep' = 2
    /\ SdtAdvance
    /\ UNCHANGED <<sdtCarousel, sdtLost, sdtTable>>

SdtSection ==
    LET t == SupplementAll(sdtCarousel[sdtPos]) IN
    /\ SdtRunning /\ ListReady /\ ~endSDT
    /\ first' = t.first /\ endSDT' = t.endSDT /\ updates' = t.updates
    /\ named' = t.named /\ short' = t.short
    /\ SdtAdvance
    /\ UNCHANGED <<sdtCarousel, sdtLost, sdtStep>>

SdtHandler == SdtTooEarly \/ SdtFinish \/ SdtSection

LoseSdt ==
    /\ SdtRunning /\ endBAT /\ sdtLost < MaxLost
    /\ sdtLost' = sdtLost + 1
    /\ SdtAdvance
    /\ UNCHANGED <<sdtCarousel, sdtTable, sdtStep>>

SdtNext == SdtHandler \/ LoseSdt

Next ==
    \/ BatNext /\ UNCHANGED sdtVars
    \/ SdtNext /\ UNCHANGED batVars

vars == <<batVars, sdtVars>>

Init == BatInit /\ SdtInit

Spec == Init /\ [][Next]_vars

(* Both broadcasts go on and the thread reads them.                        *)
FairSpec ==
    /\ Spec
    /\ WF_vars(BatSection /\ UNCHANGED sdtVars)
    /\ WF_vars(SdtHandler /\ UNCHANGED batVars)

-----------------------------------------------------------------------------
Services == UNION {{sdtCarousel[i][j] : j \in DOMAIN sdtCarousel[i]} : i \in DOMAIN sdtCarousel}

(* If no SDT section was lost after the channel list was complete, the end *)
(* of the SDT is not declared before every service on the air that has a   *)
(* channel has given it the name and the short name it has to give; and a  *)
(* channel whose service gives none (a type the switch does not know, and  *)
(* no multilingual name) is left without one, and does not delay the end.  *)
AllServicesNamed ==
    endSDT /\ sdtLost = 0 =>
        \A s \in Services : LET c == Lookup(s.id) IN
            c # NoChannel => (c \in named <=> GivesName(s)) /\ (c \in short <=> s.aka)

Recognised == \E s \in Services : Lookup(s.id) # NoChannel

(* When the channel list is complete and the SDT names one of its channels *)
(* the SDT filter is finished in the end, lost sections or not.            *)
SdtEnds == (endBAT /\ Recognised) ~> (sdtStep = 2)
=============================================================================
