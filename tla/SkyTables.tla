----------------------------- MODULE SkyTables ------------------------------
(***************************************************************************)
(* How the Sky grabber collects titles and summaries: GetTitlesSKYBOX and  *)
(* GetSummariesSKYBOX, run for several filters at once by the loop of      *)
(* PollingFilters.                                                         *)
(*                                                                         *)
(* Each filter receives a carousel of its own.  A filter remembers the     *)
(* first bytes of the first section it received; when they come again the  *)
(* carousel has made a turn and the filter is finished.  All title filters *)
(* fill one table and one text buffer, all summary filters another.        *)
(***************************************************************************)
EXTENDS Integers, Sequences, FiniteSets

CONSTANTS
    Kind,         \* Kind[f]: "title" or "summary", the filters as they were added
    Id, Eid,      \* what sections and events are told apart by
    Broadcasts,   \* the broadcasts considered: a carousel for each filter
    MaxActive,    \* MAX_ACTIVE_FILTERS
    MaxEntries,   \* MAX_TITLES, MAX_SUMMARIES
    MaxBytes,     \* MAX_BUFFER_SIZE_TITLES, MAX_BUFFER_SIZE_SUMMARIES
    MaxHit,       \* how many filters may miss a section (bounds the model)
    MaxChanged    \* how many carousels may change their version (the same)

(***************************************************************************)
(* A section is a record                                                   *)
(*   id       what its first 20 bytes say, but the version                 *)
(*   short    it has fewer bytes than that                                 *)
(*   blank    its channel or its date is 0                                 *)
(*   events   the sequence of its events, each a record                    *)
(*              eid      the event                                         *)
(*              signed   the marker of a title or summary is in its place  *)
(*              fits     its length does not exceed the section's          *)
(*              size     the length of its text: what the section says     *)
(*                       less 7 in a title, so that it may be negative     *)
(***************************************************************************)
Filter == DOMAIN Kind
Kinds  == {"title", "summary"}

Event == [eid : Eid, signed : BOOLEAN, fits : BOOLEAN, size : Int]
Content == [id : Id, short : BOOLEAN, blank : BOOLEAN, events : Seq(Event)]

ASSUME TablesAssumption ==
    /\ Kind \in Seq(Kinds) /\ Kind # <<>>
    /\ MaxActive \in Nat \ {0} /\ MaxEntries \in Nat \ {0} /\ MaxBytes \in Nat \ {0}
    /\ MaxHit \in Nat /\ MaxChanged \in Nat
    /\ Broadcasts \subseteq [Filter -> Seq(Content) \ {<<>>}]

(* The length a title has is a byte less 7, a summary's is a byte.         *)
LeastSize(k) == IF k = "title" THEN -7 ELSE 0

ASSUME SizeAssumption ==
    \A b \in Broadcasts : \A f \in Filter : \A i \in DOMAIN b[f] :
        \A j \in DOMAIN b[f][i].events :
            b[f][i].events[j].size >= LeastSize(Kind[f])

(* No two sections of a carousel begin alike, and an event is in it once.  *)
ASSUME CarouselAssumption ==
    \A b \in Broadcasts : \A f \in Filter : \A i, j \in DOMAIN b[f] :
        /\ b[f][i].id = b[f][j].id => i = j
        /\ \A k \in DOMAIN b[f][i].events, l \in DOMAIN b[f][j].events :
              b[f][i].events[k].eid = b[f][j].events[l].eid => i = j /\ k = l

VARIABLES
    broadcast,  \* the carousels
    pos,        \* the section of each that comes next
    changed,    \* the filters whose carousel has changed its version
    hit,        \* the filters that missed a section
    step,       \* Filters[f].Step
    initial,    \* InitialBuffer[f]: the header remembered, or nothing
    ended,      \* how a finished filter ended
    entries,    \* lTitles and lSummaries, in the order they were stored
    used,       \* pT and pS
    isError,    \* IsError
    pass,       \* the filters found ready by poll and not read yet
    phase       \* "loop", then "xml", "failed" or "crashed"

tables == <<entries, used, isError>>
air    == <<broadcast, pos, changed, hit>>
vars   == <<air, step, initial, ended, tables, pass, phase>>

Version(f) == IF f \in changed THEN 1 ELSE 0
Section(f) == broadcast[f][pos[f]]

(* Mutant: the version is not among the bytes compared.                    *)
HeaderOfAnyVersion(f) == <<Section(f).id, 0>>

(* The first 20 bytes of the section on the air.                           *)
Header(f)  == <<Section(f).id, Version(f)>>

InStep(n)  == {f \in Filter : step[f] = n}

Positions(b) ==
    {p \in [Filter -> 1 .. Cardinality(UNION {DOMAIN b[f] : f \in Filter})] :
        \A f \in Filter : p[f] \in DOMAIN b[f]}

TablesTypeOK ==
    /\ broadcast \in Broadcasts /\ pos \in Positions(broadcast)
    /\ changed \subseteq Filter /\ hit \subseteq Filter
    /\ step \in [Filter -> 0 .. 3]
    /\ \A f \in Filter : Cardinality(initial[f]) <= 1
    /\ ended \in [Filter -> {"no", "turn", "given up"}]
    /\ \A k \in Kinds : used[k] \in 0 .. MaxBytes
    /\ isError \in BOOLEAN
    /\ pass \subseteq InStep(1) \cup InStep(2)
    /\ phase \in {"loop", "xml", "failed", "crashed"}

Init ==
    /\ broadcast \in Broadcasts /\ pos \in Positions(broadcast)
    /\ changed = {} /\ hit = {}
    /\ step = [f \in Filter |-> 0]
    /\ initial = [f \in Filter |-> {}]
    /\ ended = [f \in Filter |-> "no"]
    /\ entries = [k \in Kinds |-> <<>>] /\ used = [k \in Kinds |-> 0]
    /\ isError = FALSE
    /\ pass = {} /\ phase = "loop"

(***************************************************************************)
(* The loop of PollingFilters, one turn in one step: finished filters are  *)
(* retired, waiting ones take the free slots, and poll finds some of the   *)
(* running ones ready.  (Module SkyFilters has it in detail.)              *)
(***************************************************************************)
(* Mutant: a finished filter keeps its slot.                               *)
FreesNoSlot == Cardinality(InStep(1) \cup InStep(2))

SlotsInUse == Cardinality(InStep(1))

Starts(f) ==
    /\ step[f] = 0
    /\ Cardinality({g \in InStep(0) : g < f}) < MaxActive - SlotsInUse

Prepared ==
    [f \in Filter |-> CASE step[f] = 2 -> 3 [] Starts(f) -> 1 [] OTHER -> step[f]]

Turn(ready) ==
    /\ phase = "loop" /\ pass = {} /\ ~isError
    /\ step' = Prepared
    /\ ready # {} /\ pass' = ready
    /\ UNCHANGED <<air, initial, ended, tables, phase>>

Leave ==
    /\ phase = "loop" /\ pass = {}
    /\ isError \/ \A f \in Filter : Prepared[f] = 3
    /\ step' = IF isError THEN step ELSE Prepared
    /\ phase' = IF isError THEN "failed" ELSE "xml"
    /\ UNCHANGED <<air, initial, ended, tables, pass>>

(***************************************************************************)
(* Storing the events of a section, one after the other.                   *)
(***************************************************************************)
(* What makes the handler leave the rest of a section: a length that       *)
(* cannot be, and in a title also a missing marker.                        *)
Stops(k, e) == ~e.fits \/ (k = "title" /\ ~e.signed)

HasNoRoom(t, e) == t.used + e.size + 2 > MaxBytes

(* A negative length has room, and memcpy takes it for a huge one: the     *)
(* grabber dies in it.                                                     *)
RunsAway(e) == e.size < 0

(* Mutant: the error is set when the table is full, and the section read   *)
(* to its end.                                                             *)
LeavesNever(table) == FALSE

(* The entry just stored was the last there is room for.                   *)
LeavesFull(table) == Len(table) >= MaxEntries

Stored(f, t, e) ==
    LET entry  == [filter |-> f, version |-> Version(f), eid |-> e.eid]
        longer == Append(t.entries, entry)
    IN  [entries |-> longer,
         used    |-> t.used + e.size + 1,
         error   |-> t.error \/ Len(longer) >= MaxEntries,
         crashed |-> t.crashed,
         open    |-> ~LeavesFull(longer)]

StoreEvent(f, t, e) ==
    CASE ~t.open                       -> t
      [] t.open /\ Stops(Kind[f], e)   -> [t EXCEPT !.open = FALSE]
      [] t.open /\ ~Stops(Kind[f], e) /\ HasNoRoom(t, e)
                                       -> [t EXCEPT !.error = TRUE, !.open = FALSE]
      [] t.open /\ ~Stops(Kind[f], e) /\ ~HasNoRoom(t, e) /\ RunsAway(e)
                                       -> [t EXCEPT !.crashed = TRUE, !.open = FALSE]
      [] OTHER                         -> Stored(f, t, e)

StoreEvents(f, events) ==
    LET after[i \in 0 .. Len(events)] ==
          IF i = 0 THEN [entries |-> entries[Kind[f]], used |-> used[Kind[f]],
                         error |-> isError, crashed |-> FALSE, open |-> TRUE]
          ELSE StoreEvent(f, after[i - 1], events[i])
    IN  after[Len(events)]

-----------------------------------------------------------------------------
(* Reading one section: the ways through ReadBuffer and the handlers.      *)

Advance(f) ==
    /\ pos' = [pos EXCEPT ![f] = IF @ = Len(broadcast[f]) THEN 1 ELSE @ + 1]
    /\ UNCHANGED <<broadcast, changed>>

Reads(f) == f \in pass /\ pass' = pass \ {f} /\ UNCHANGED phase

PassOverShort(f) ==
    /\ Reads(f) /\ Section(f).short
    /\ Advance(f)
    /\ UNCHANGED <<hit, step, initial, ended, tables>>

(* The section remembered comes again.                                     *)
FinishTurn(f) ==
    /\ Reads(f) /\ ~Section(f).short
    /\ initial[f] = {Header(f)}
    /\ step' = [step EXCEPT ![f] = 2]
    /\ ended' = [ended EXCEPT ![f] = "turn"]
    /\ Advance(f)
    /\ UNCHANGED <<hit, initial, tables>>

(* Mutant: every section is remembered, not the first.                     *)
RememberLast(f) == {Header(f)}

Remember(f) == IF initial[f] = {} THEN {Header(f)} ELSE initial[f]

TakeSection(f) ==
    /\ Reads(f) /\ ~Section(f).short
    /\ initial[f] # {Header(f)}
    /\ initial' = [initial EXCEPT ![f] = Remember(f)]
    /\ IF Section(f).blank
       THEN UNCHANGED tables
       ELSE LET t == StoreEvents(f, Section(f).events) IN
            /\ ~t.crashed
            /\ entries' = [entries EXCEPT ![Kind[f]] = t.entries]
            /\ used' = [used EXCEPT ![Kind[f]] = t.used]
            /\ isError' = t.error
    /\ Advance(f)
    /\ UNCHANGED <<hit, step, ended>>

(* An event of the section has a negative length and its text is copied.   *)
CopyRunsAway(f) ==
    /\ f \in pass
    /\ ~Section(f).short /\ ~Section(f).blank
    /\ initial[f] # {Header(f)}
    /\ StoreEvents(f, Section(f).events).crashed
    /\ phase' = "crashed" /\ pass' = {}
    /\ UNCHANGED <<air, step, initial, ended, tables>>

(* A damaged section is read and thrown away.                              *)
ReadDamaged(f) ==
    /\ Reads(f)
    /\ Cardinality(hit) < MaxHit /\ f \notin hit /\ hit' = hit \cup {f}
    /\ Advance(f)
    /\ UNCHANGED <<step, initial, ended, tables>>

(* The kernel's timer expired before the first section, or the read        *)
(* failed.                                                                 *)
ReadFails(f) ==
    /\ Reads(f)
    /\ step' = [step EXCEPT ![f] = 2]
    /\ ended' = [ended EXCEPT ![f] = "given up"]
    /\ UNCHANGED <<air, initial, tables>>

Read(f) ==
    \/ PassOverShort(f) \/ FinishTurn(f) \/ TakeSection(f)
    \/ ReadDamaged(f) \/ ReadFails(f)

(* The broadcaster changes the version of a table.                         *)
Change(f) ==
    /\ phase = "loop"
    /\ f \notin changed /\ Cardinality(changed) < MaxChanged
    /\ changed' = changed \cup {f}
    /\ UNCHANGED <<broadcast, pos, hit, step, initial, ended, tables, pass, phase>>

Running == {f \in Filter : Prepared[f] = 1}

Next ==
    \/ \E ready \in SUBSET Running : Turn(ready)
    \/ Leave
    \/ \E f \in Filter : Read(f) \/ CopyRunsAway(f) \/ Change(f)

Spec == Init /\ [][Next]_vars

(* The thread goes on with its loop; every table goes on being broadcast,  *)
(* so each running filter is found ready again and again.                  *)
Fairness ==
    /\ WF_vars(Leave)
    /\ \A f \in Filter :
          /\ WF_vars(Read(f) \/ CopyRunsAway(f))
          /\ SF_vars(\E ready \in SUBSET Running : f \in ready /\ Turn(ready))

FairSpec == Spec /\ Fairness

-----------------------------------------------------------------------------
CountOf(f, e, v) ==
    LET table == entries[Kind[f]] IN
    Cardinality({i \in DOMAIN table :
                    table[i] = [filter |-> f, version |-> v, eid |-> e]})

(* The events of a section before the first that makes the handler leave.  *)
Taken(f, s) ==
    IF s.short \/ s.blank THEN {}
    ELSE {s.events[i].eid : i \in {j \in DOMAIN s.events :
                \A l \in 1 .. j : ~Stops(Kind[f], s.events[l])}}

EventsOf(f) == UNION {Taken(f, broadcast[f][i]) : i \in DOMAIN broadcast[f]}

(* A filter that ended with its turn, and missed no section, has stored    *)
(* every event of one version of its table, once, and none of another,     *)
(* whatever the other filters stored in between.                           *)
TurnIsComplete ==
    \A f \in Filter : ended[f] = "turn" /\ f \notin hit =>
        \E v \in {0, 1} : \A e \in EventsOf(f) :
            CountOf(f, e, v) = 1 /\ CountOf(f, e, 1 - v) = 0

(* A programme is only written twice because a section was missed or the   *)
(* table changed; and missing one repeats the turn no more than once.      *)
RepeatedByLossOnly ==
    \A f \in Filter : \A e \in EventsOf(f) :
        f \notin changed => CountOf(f, e, 0) <= (IF f \in hit THEN 2 ELSE 1)

(* A title that is broadcast has a text of a negative length.              *)
MayCrash ==
    \E f \in Filter : Kind[f] = "title" /\ \E i \in DOMAIN broadcast[f] :
        \E j \in DOMAIN broadcast[f][i].events : RunsAway(broadcast[f][i].events[j])

(* A full table does not end the pass: the other slots are still read.     *)
(* Each of them adds no more than one entry, so the table ends at most     *)
(* that many entries beyond its limit.  The texts stored leave the last    *)
(* byte of their buffer free.  One text is copied without room: that of a  *)
(* title whose length comes out negative, which the test for room lets     *)
(* pass, and only such a title being broadcast kills the grabber.          *)
OvershootBounded ==
    /\ \A k \in Kinds : Len(entries[k]) <= MaxEntries + MaxActive - 1 /\ used[k] < MaxBytes
    /\ phase = "crashed" => MayCrash

(* The collection ends although the broadcast never does.  A table that    *)
(* changes after its first section was remembered never makes a turn: it   *)
(* is stored over and over, until it is full and everything is given up.   *)
(* (Dying in a copy that runs away is an end too.)                         *)
TurnsEnd ==
    (\A f \in Filter : EventsOf(f) # {}) => <>(phase # "loop")
=============================================================================
