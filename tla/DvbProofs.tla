------------------------------ MODULE DvbProofs ------------------------------
(***************************************************************************)
(* Proofs about the DVB and Freesat grabber, for every list of filters,    *)
(* every number of slots and every sequence of sections.                   *)
(*                                                                         *)
(* The grab loop (module DvbReader) keeps slots, a result and a buffer     *)
(* from one turn to the next.  Two inductive invariants say what they are  *)
(* worth: Handout, that every slot still to be handed out has something to *)
(* read, and Matched, that a result that says "valid" speaks of the        *)
(* section in the buffer.                                                  *)
(*                                                                         *)
(* The handlers (modules DvbEit and DvbSdt) read a section entry by entry, *)
(* with a recursive function.  For each there is an invariant of a single  *)
(* entry (Kept, Headed), carried over the section by the induction of      *)
(* module Recursion and over the sections by the usual one.                *)
(*                                                                         *)
(* The decoder of texts (module FreesatText) is compared with the set of   *)
(* all encodings.  FreesatInv says that what is left of an encoded text is *)
(* encoded in the bits ahead, by a way that begins behind the character    *)
(* decoded last.                                                           *)
(***************************************************************************)
EXTENDS DvbReader, DvbSdt, FreesatText, Recursion, SequenceTheorems

(* The slots are natural numbers.                                          *)
LEMMA SlotsAreNaturals == Slot \subseteq Nat
BY ReaderAssumption DEF Slot

(* So a set of slots has a first one.                                      *)
LEMMA FirstIsAMember ==
    ASSUME NEW T \in SUBSET Slot, T # {}
    PROVE  FirstOf(T) \in T /\ \A t \in T : FirstOf(T) <= t
<1>1. T \in SUBSET Nat
  BY SlotsAreNaturals
<1>2. \E x \in T : \A y \in T : x <= y
  BY <1>1, SmallestElement
<1> QED BY <1>2 DEF FirstOf

-----------------------------------------------------------------------------
(* The slots and the kernel agree: something can only be read from a slot  *)
(* whose filter was set; and what remains to be handed out is readable.    *)
Handout ==
    /\ nActive \in 0 .. MaxActive
    /\ filterId \in [Slot -> Filter \cup {None}]
    /\ demux \in [Slot -> {"off", "armed", "live", "expired"}]
    /\ inbox \in [Slot -> {"empty", "section", "timeout"}]
    /\ revents \subseteq Slot /\ pollIndex \in Nat
    /\ \A s \in Slot : demux[s] # "off" => filterId[s] \in Filter
    /\ \A s \in Slot : inbox[s] # "empty" => demux[s] # "off"
    /\ \A s \in Remaining : inbox[s] # "empty"
    /\ phase = "read" => /\ slot \in Slot /\ slot \notin Remaining
                         /\ inbox[slot] # "empty"

(* No slot is set, and nothing can be read, before the device is opened.   *)
LEMMA HandoutInit == Init => Handout
<1> SUFFICES ASSUME Init PROVE Handout
  OBVIOUS
<1>1. nActive \in 0 .. MaxActive /\ pollIndex \in Nat /\ Remaining = {}
  BY ReaderAssumption DEF Init, None, Remaining
<1> QED BY <1>1 DEF Init, Handout

(* What Poll returns was found readable, and is not handed out again.      *)
LEMMA ReturnsReadable ==
    ASSUME Handout, NEW T \in SUBSET Slot, T # {}, revents' = T,
           pollIndex' = FirstOf(T) + 1
    PROVE  /\ FirstOf(T) \in T /\ pollIndex' \in Nat /\ FirstOf(T) \notin Remaining'
           /\ Remaining' \subseteq T
<1>1. FirstOf(T) \in T /\ T \subseteq Nat
  BY FirstIsAMember, SlotsAreNaturals
<1>2. pollIndex' \in Nat /\ ~(pollIndex' <= FirstOf(T))
  <2>1. \A n \in Nat : n + 1 \in Nat /\ ~(n + 1 <= n)
    OBVIOUS
  <2>2. FirstOf(T) \in Nat
    BY <1>1
  <2> QED BY <2>1, <2>2
<1>3. Remaining' = {s \in T : pollIndex' # None /\ pollIndex' <= s}
  BY DEF Remaining
<1> QED BY <1>1, <1>2, <1>3

(* Every step of the reader keeps the slots and the kernel in agreement.   *)
LEMMA HandoutStep == Handout /\ [Next]_vars => Handout'
<1> SUFFICES ASSUME Handout, [Next]_vars PROVE Handout'
  OBVIOUS
<1>1. CASE OpenDevice
  <2>1. /\ nActive' \in 0 .. MaxActive /\ phase' = "top"
        /\ UNCHANGED <<filterId, revents, pollIndex, slot, demux, inbox>>
    BY <1>1, ReaderAssumption DEF OpenDevice, kernel
  <2> QED BY <2>1 DEF Handout, Remaining
<1>2. CASE \/ OpenFileOrStdin \/ CheckDeadline \/ ReadStdin \/ ReadStdinFails
           \/ HandleSection \/ HandleNothing \/ Tick \/ UNCHANGED vars
  <2>1. /\ UNCHANGED <<nActive, filterId, revents, pollIndex, slot, demux, inbox>>
        /\ phase' = phase \/ phase' # "read"
    BY <1>2 DEF OpenFileOrStdin, CheckDeadline, ReadStdin, ReadStdinFails, HandleSection,
                HandleNothing, Tick, vars, pollVars, kernel
  <2> QED BY <2>1 DEF Handout, Remaining
<1>3. CASE PollResume
  <2>1. /\ UNCHANGED <<nActive, filterId, revents, demux, inbox>>
        /\ slot' = FirstOf(Remaining) /\ pollIndex' = FirstOf(Remaining) + 1
        /\ Remaining # {} /\ Remaining \subseteq Slot /\ phase' = "read"
    BY <1>3 DEF PollResume, Return, After, kernel, Remaining, Handout
  <2>2. FirstOf(Remaining) \in Remaining /\ FirstOf(Remaining) \in Nat
    <3> HIDE DEF Remaining
    <3> QED BY <2>1, FirstIsAMember, SlotsAreNaturals
  <2>3. Remaining' \subseteq Remaining \ {slot'}
    <3>1. \A s \in revents : s \in Nat
      BY SlotsAreNaturals DEF Handout
    <3> QED BY <2>1, <2>2, <3>1 DEF Remaining, None, Handout
  <2> QED BY <2>1, <2>2, <2>3 DEF Handout
<1>4. CASE PollPrepare
  <2>1. /\ UNCHANGED <<nActive, revents, inbox>>
        /\ pollIndex' = None /\ phase' \in {"wait", "handle"}
    BY <1>4 DEF PollPrepare, ReturnNone
  <2>2. \E free \in SUBSET Slot : \E taken \in SUBSET free : \E pick \in [taken -> Filter] :
          /\ filterId' = [s \in Slot |-> IF s \in taken THEN pick[s] ELSE filterId[s]]
          /\ demux' = [s \in Slot |-> IF s \in taken THEN "armed" ELSE demux[s]]
    <3> DEFINE pending == {f \in Filter : step[f] = 0}
               free == {s \in Active : ~Busy(s)}
               accepted(refused) == pending \ refused
               taker(refused, s) == {f \in accepted(refused) :
                                       Below(accepted(refused), f) = Below(free, s)}
               taken(refused) == {s \in free : taker(refused, s) # {}}
               pick(refused) == [s \in taken(refused) |->
                                   CHOOSE f \in taker(refused, s) : TRUE]
    <3>1. PICK refused \in SUBSET pending :
            /\ filterId' = [s \in Slot |-> IF s \in free /\ taker(refused, s) # {}
                                           THEN CHOOSE f \in taker(refused, s) : TRUE
                                           ELSE filterId[s]]
            /\ demux' = [s \in Slot |-> IF s \in free /\ taker(refused, s) # {}
                                        THEN "armed" ELSE demux[s]]
      BY <1>4 DEF PollPrepare
    <3>2. free \in SUBSET Slot
      BY ReaderAssumption DEF Handout, Active, Slot
    <3>3. pick(refused) \in [taken(refused) -> Filter]
      OBVIOUS
    <3> HIDE DEF pending, taker
    <3>4. filterId' = [s \in Slot |-> IF s \in taken(refused) THEN pick(refused)[s]
                                      ELSE filterId[s]]
      BY <3>1
    <3>5. demux' = [s \in Slot |-> IF s \in taken(refused) THEN "armed" ELSE demux[s]]
      BY <3>1
    <3>6. taken(refused) \in SUBSET free
      OBVIOUS
    <3> HIDE DEF free, taken, pick
    <3> QED BY <3>2, <3>3, <3>4, <3>5, <3>6
  <2>3. /\ filterId' \in [Slot -> Filter \cup {None}]
        /\ demux' \in [Slot -> {"off", "armed", "live", "expired"}]
        /\ \A s \in Slot : demux'[s] # "off" => filterId'[s] \in Filter
        /\ \A s \in Slot : demux[s] # "off" => demux'[s] # "off"
    BY <2>2 DEF Handout
  <2>4. Remaining' = {} /\ pollIndex' \in Nat
    BY <2>1 DEF Remaining, None
  <2> QED BY <2>1, <2>3, <2>4 DEF Handout
<1>5. CASE PollReady
  <2>1. /\ UNCHANGED <<nActive, filterId, demux, inbox>>
        /\ slot' = FirstOf(revents') /\ pollIndex' = FirstOf(revents') + 1
        /\ revents' = {s \in Slot : HasData(s)} /\ revents' # {}
    BY <1>5 DEF PollReady, Return, After, kernel
  <2>2. \A s \in revents' : inbox[s] # "empty"
    BY <2>1 DEF HasData
  <2>3. /\ slot' \in revents' /\ pollIndex' \in Nat /\ slot' \notin Remaining'
        /\ Remaining' \subseteq revents' /\ revents' \subseteq Slot
    BY <2>1, ReturnsReadable
  <2> QED BY <2>1, <2>2, <2>3 DEF Handout
<1>6. CASE PollNothing
  <2>1. /\ UNCHANGED <<nActive, filterId, demux, inbox>>
        /\ revents' = {} /\ pollIndex' = None /\ phase' = "handle"
    BY <1>6 DEF PollNothing, ReturnNone, kernel
  <2>2. Remaining' = {} /\ pollIndex' \in Nat
    BY <2>1 DEF Remaining, None
  <2> QED BY <2>1, <2>2 DEF Handout
<1>7. CASE ReadSection \/ ReadError \/ ReadZero
  <2>1. /\ phase = "read" /\ phase' # "read"
        /\ inbox' = [inbox EXCEPT ![slot] = "empty"]
        /\ UNCHANGED <<nActive, filterId, revents, pollIndex, slot, demux>>
    BY <1>7 DEF ReadSection, ReadError, ReadZero, pollVars
  <2>2. slot \in Slot /\ slot \notin Remaining /\ Remaining \subseteq Slot
        /\ Remaining' = Remaining
    BY <2>1 DEF Handout, Remaining
  <2>3. /\ inbox' \in [Slot -> {"empty", "section", "timeout"}]
        /\ \A s \in Slot : inbox'[s] # "empty" => inbox[s] # "empty" /\ s # slot
        /\ \A s \in Slot \ {slot} : inbox'[s] = inbox[s]
    BY <2>1, <2>2 DEF Handout
  <2> QED BY <2>1, <2>2, <2>3 DEF Handout
<1>8. ASSUME NEW s \in Slot, Deliver(s) \/ Expire(s) PROVE Handout'
  <2>1. /\ demux[s] # "off"
        /\ \E d \in {"live", "expired"} : demux' = [demux EXCEPT ![s] = d]
        /\ \E i \in {"section", "timeout"} : inbox' = [inbox EXCEPT ![s] = i]
        /\ UNCHANGED <<phase, nActive, filterId, revents, pollIndex, slot>>
    BY <1>8 DEF Deliver, Expire, pollVars, Handout
  <2>2. /\ demux' \in [Slot -> {"off", "armed", "live", "expired"}]
        /\ \A t \in Slot : demux'[t] # "off" <=> demux[t] # "off"
    BY <2>1 DEF Handout
  <2>3. /\ inbox' \in [Slot -> {"empty", "section", "timeout"}]
        /\ inbox'[s] # "empty" /\ \A t \in Slot \ {s} : inbox'[t] = inbox[t]
    BY <2>1 DEF Handout
  <2>4. Remaining' = Remaining /\ Remaining \subseteq Slot
    BY <2>1 DEF Remaining, Handout
  <2> QED BY <2>1, <2>2, <2>3, <2>4 DEF Handout
<1> QED BY <1>1, <1>2, <1>3, <1>4, <1>5, <1>6, <1>7, <1>8 DEF Next, Thread

LEMMA HandoutAlways == Spec => []Handout
BY HandoutInit, HandoutStep, PTL DEF Spec

(* Every handle Poll still has to hand out has something to read.          *)
THEOREM Readable == Spec => []ReadyIsReadable
<1>1. Handout => ReadyIsReadable
  BY DEF Handout, ReadyIsReadable
<1> QED BY <1>1, HandoutAlways, PTL

-----------------------------------------------------------------------------
(* The result of the last read is cleared before the next one, and Poll    *)
(* names the table of the slot it returns.                                 *)
Matched ==
    /\ phase = "open" <=> source = "none"
    /\ phase \in {"poll", "wait", "read"} => source = "device" /\ r = "nothing"
    /\ phase = "read" => pid = Tables[filterId[slot]]
    /\ phase = "handle" /\ r = "valid" => fresh /\ buf = pid
    /\ source \in {"none", "stdin"} => pid = "EIT"
    /\ ~misparsed

LEMMA MatchedStep == Handout /\ Matched /\ [Next]_vars => Matched'
<1> SUFFICES ASSUME Handout, Matched, [Next]_vars PROVE Matched'
  OBVIOUS
<1> USE DEF Matched
<1>1. CASE OpenDevice BY <1>1 DEF OpenDevice, readVars
<1>2. CASE OpenFileOrStdin BY <1>2 DEF OpenFileOrStdin, readVars
<1>3. CASE CheckDeadline BY <1>3 DEF CheckDeadline, ClearResult
<1>4. CASE PollResume BY <1>4 DEF PollResume, Return
<1>5. CASE PollPrepare
  <2>1. /\ phase = "poll" /\ phase' \in {"wait", "handle"}
        /\ UNCHANGED <<source, r, pid, buf, fresh, misparsed>>
    BY <1>5 DEF PollPrepare, ReturnNone
  <2> QED BY <2>1
<1>6. CASE PollReady BY <1>6 DEF PollReady, Return
<1>7. CASE PollNothing BY <1>7 DEF PollNothing, ReturnNone
<1>8. CASE ReadSection BY <1>8 DEF ReadSection
<1>9. CASE ReadError BY <1>9 DEF ReadError, readVars
<1>10. CASE ReadZero BY <1>10 DEF ReadZero, readVars
<1>11. CASE ReadStdin BY <1>11 DEF ReadStdin
<1>12. CASE ReadStdinFails BY <1>12 DEF ReadStdinFails, readVars
<1>13. CASE HandleSection BY <1>13 DEF HandleSection
<1>14. CASE HandleNothing BY <1>14 DEF HandleNothing
<1>15. CASE Tick BY <1>15 DEF Tick, pollVars, readVars
<1>16. ASSUME NEW s \in Slot, Deliver(s) \/ Expire(s) PROVE Matched'
  BY <1>16 DEF Deliver, Expire, pollVars, readVars
<1>17. CASE UNCHANGED vars BY <1>17 DEF vars, pollVars, readVars
<1> QED BY <1>1, <1>2, <1>3, <1>4, <1>5, <1>6, <1>7, <1>8, <1>9, <1>10, <1>11, <1>12, <1>13,
           <1>14, <1>15, <1>16, <1>17 DEF Next, Thread

(* A section is handled once, and as the table its filter receives.        *)
THEOREM HandledOnce == Spec => []NeverMisparsed
<1>1. Init => Matched
  BY DEF Init, Matched
<1>2. Matched => NeverMisparsed
  BY DEF Matched, NeverMisparsed
<1> QED BY <1>1, <1>2, HandoutAlways, MatchedStep, PTL DEF Spec

-----------------------------------------------------------------------------
(* The table before a section, and what one listing makes of it.           *)
Fresh == [seen |-> seen, shown |-> shown, refresh |-> FALSE, fate |-> <<>>, open |-> TRUE]

Turn(t, s, e) ==
    IF t.open THEN Listing(t, s, e)
    ELSE [t EXCEPT !.fate = Append(@, "never reached")]

(* The loop of parseEIT runs from the fresh table, one turn for each       *)
(* listing.                                                                *)
LEMMA ParseEITRuns ==
    ASSUME NEW s \in EitSections
    PROVE  \E g : /\ g[0] = Fresh
                  /\ \A k \in 1 .. Len(s.events) : g[k] = Turn(g[k - 1], s, s.events[k])
                  /\ ParseEIT(s) = g[Len(s.events)]
<1> DEFINE n == Len(s.events)
           Step1(t, i) == Turn(t, s, s.events[i])
           Body(g, k) == [i \in 0 .. k |-> IF i = 0 THEN Fresh ELSE Step1(g[i - 1], i)]
           T == {k \in 0 .. n : \E g : g = Body(g, k)}
<1>1. n \in Nat
  BY EitAssumption
<1>2. ParseEIT(s) = (CHOOSE g : g = Body(g, n))[n]
  BY DEF ParseEIT, Fresh, Turn
<1> HIDE DEF n, Step1
<1>3. 0 \in T
  <2> DEFINE h == [i \in 0 .. 0 |-> Fresh]
  <2>1. h = Body(h, 0)
    OBVIOUS
  <2> HIDE DEF h, Body
  <2> QED BY <1>1, <2>1
<1>4. ASSUME NEW k \in 0 .. n - 1, k \in T
      PROVE  k + 1 \in T
  <2>1. PICK g : g = Body(g, k)
    BY <1>4
  <2> DEFINE h == [i \in 0 .. k + 1 |-> IF i <= k THEN g[i] ELSE Step1(g[k], k + 1)]
  <2>2. h = Body(h, k + 1)
    <3>1. \A i \in 0 .. k : g[i] = IF i = 0 THEN Fresh ELSE Step1(g[i - 1], i)
      BY <2>1
    <3>2. \A i \in 0 .. k : h[i] = g[i]
      BY <1>1
    <3> SUFFICES ASSUME NEW i \in 0 .. k + 1
                 PROVE  h[i] = IF i = 0 THEN Fresh ELSE Step1(h[i - 1], i)
      OBVIOUS
    <3>3. CASE i <= k
      BY <1>1, <3>1, <3>2, <3>3
    <3>4. CASE i = k + 1
      BY <1>1, <3>2, <3>4
    <3> QED BY <1>1, <3>3, <3>4
  <2> HIDE DEF h, Body
  <2> QED BY <1>1, <2>2
<1>5. PICK g : g = Body(g, n)
  <2> HIDE DEF T
  <2>1. n \in T
    BY <1>1, <1>3, <1>4, UpTo
  <2> QED BY <2>1 DEF T
<1> DEFINE after == CHOOSE h : h = Body(h, n)
<1>6. after = Body(after, n)
  <2> HIDE DEF Body
  <2> QED BY <1>5
<1> HIDE DEF after
<1>7. after[0] = Fresh /\ \A k \in 1 .. n : after[k] = Step1(after[k - 1], k)
  BY <1>1, <1>6
<1> QED BY <1>2, <1>7 DEF n, after, Step1

(* What is kept of an event: its version is no larger than any it was      *)
(* written under, and it was written once under each.                      *)
Kept(sn, sh) ==
    /\ \A k \in DOMAIN sn : sn[k] \in 0 .. 31
    /\ \A w \in DOMAIN sh : /\ w[1] \in DOMAIN sn /\ sn[w[1]] <= w[2] /\ w[2] \in 0 .. 31
                            /\ sh[w] = 1
    /\ ignoreUpdates => \A v, w \in DOMAIN sh : v[1] = w[1] => v = w

(* No event is forgotten, and none gets a larger version.                  *)
Falls(before, after) ==
    \A k \in DOMAIN before : k \in DOMAIN after /\ after[k] <= before[k]

(* Neither is broken by a listing: one that is written has a smaller       *)
(* version than the one kept, which no written one has.                    *)
LEMMA ListingKeeps ==
    ASSUME NEW t, Kept(t.seen, t.shown), NEW s, s.ver \in 0 .. 31, NEW e
    PROVE  /\ Kept(Listing(t, s, e).seen, Listing(t, s, e).shown)
           /\ Falls(t.seen, Listing(t, s, e).seen)
<1> DEFINE key == <<s.sid, e.eid>>
           written == <<key, s.ver>>
           u == Listing(t, s, e)
           old == key \in DOMAIN t.seen /\ t.seen[key] <= s.ver
<1>1. u.seen = IF old THEN t.seen ELSE With(t.seen, key, s.ver)
  BY DEF Listing, Old, Recorded
<1>2. \/ u.shown = t.shown
      \/ /\ ~old /\ ~(key \in DOMAIN t.seen /\ ignoreUpdates)
         /\ u.shown = With(t.shown, written, CountOf(t.shown, written) + 1)
  <2> DEFINE quiet == key \in DOMAIN t.seen /\ ignoreUpdates
             past == e.ends = "past" /\ IgnoreBadDates
             reason == CASE old -> "dropped"
                     [] ~old /\ (quiet \/ ~e.filled) -> "skipped"
                     [] ~old /\ ~quiet /\ e.filled /\ (past \/ ~e.titled) -> "forgotten"
                     [] OTHER -> IF e.wanted THEN "shown" ELSE "not wanted"
  <2>1. u.shown = IF reason = "shown"
                  THEN With(t.shown, written, CountOf(t.shown, written) + 1) ELSE t.shown
    BY DEF Listing, Old
  <2>2. reason = "shown" => ~old /\ ~quiet
    OBVIOUS
  <2> HIDE DEF reason
  <2> QED BY <2>1, <2>2
<1>3. Falls(t.seen, u.seen)
  <2>1. CASE old
    BY <1>1, <2>1 DEF Falls, Kept
  <2>2. CASE ~old
    <3>1. key \in DOMAIN t.seen => s.ver <= t.seen[key]
      BY <2>2 DEF Kept
    <3>2. \A k \in DOMAIN t.seen : t.seen[k] <= t.seen[k]
      BY DEF Kept
    <3> HIDE DEF key
    <3> QED BY <1>1, <2>2, <3>1, <3>2 DEF Falls, With
  <2> QED BY <2>1, <2>2
<1>4. \A k \in DOMAIN u.seen : u.seen[k] \in 0 .. 31
  <2> HIDE DEF key, old, u
  <2> QED BY <1>1 DEF Kept, With
<1>5. \A w \in DOMAIN t.shown : w[1] \in DOMAIN u.seen /\ u.seen[w[1]] <= w[2]
  <2> SUFFICES ASSUME NEW w \in DOMAIN t.shown
               PROVE  w[1] \in DOMAIN u.seen /\ u.seen[w[1]] <= w[2]
    OBVIOUS
  <2>1. /\ w[1] \in DOMAIN t.seen /\ t.seen[w[1]] <= w[2]
        /\ w[2] \in 0 .. 31 /\ t.seen[w[1]] \in 0 .. 31
    BY DEF Kept
  <2>2. w[1] \in DOMAIN u.seen /\ u.seen[w[1]] <= t.seen[w[1]]
    BY <2>1, <1>3 DEF Falls
  <2>3. u.seen[w[1]] \in 0 .. 31
    BY <1>4, <2>2
  <2> HIDE DEF u
  <2> QED BY <2>1, <2>2, <2>3
<1>6. CASE u.shown = t.shown
  <2> HIDE DEF u, key, written, old
  <2>1. Kept(u.seen, u.shown)
    BY <1>4, <1>5, <1>6 DEF Kept
  <2> QED BY <1>3, <2>1 DEF u
<1>7. CASE /\ ~old /\ ~(key \in DOMAIN t.seen /\ ignoreUpdates)
           /\ u.shown = With(t.shown, written, CountOf(t.shown, written) + 1)
  <2>1. written \notin DOMAIN t.shown
    <3>1. written[1] = key /\ written[2] = s.ver
      OBVIOUS
    <3>2. \A w \in DOMAIN t.shown : w[1] = key => t.seen[key] <= w[2] /\ key \in DOMAIN t.seen
      BY DEF Kept
    <3> HIDE DEF written, key
    <3> QED BY <1>7, <3>1, <3>2
  <2>2. u.shown[written] = 1 /\ DOMAIN u.shown = DOMAIN t.shown \cup {written}
        /\ \A w \in DOMAIN t.shown : u.shown[w] = t.shown[w]
    <3>1. CountOf(t.shown, written) + 1 = 1
      BY <2>1 DEF CountOf
    <3> HIDE DEF written, u
    <3>2. u.shown = With(t.shown, written, 1)
      BY <1>7, <3>1
    <3> QED BY <2>1, <3>2 DEF With
  <2>3. /\ written[1] \in DOMAIN u.seen /\ u.seen[written[1]] = s.ver
        /\ written[2] = s.ver /\ written[1] = key
    <3>1. written[1] = key /\ written[2] = s.ver
      OBVIOUS
    <3>2. u.seen = With(t.seen, key, s.ver)
      BY <1>1, <1>7
    <3> HIDE DEF written, key, u, old
    <3>3. key \in DOMAIN u.seen /\ u.seen[key] = s.ver
      BY <3>2 DEF With
    <3> QED BY <3>1, <3>3
  <2>4. ignoreUpdates => \A w \in DOMAIN t.shown : w[1] # key
    BY <1>7 DEF Kept
  <2> HIDE DEF written, u, key, old
  <2>5. \A w \in DOMAIN u.shown : /\ w[1] \in DOMAIN u.seen /\ u.seen[w[1]] <= w[2]
                                  /\ w[2] \in 0 .. 31 /\ u.shown[w] = 1
    BY <1>5, <2>2, <2>3 DEF Kept
  <2>6. ignoreUpdates => \A v, w \in DOMAIN u.shown : v[1] = w[1] => v = w
    BY <2>2, <2>3, <2>4 DEF Kept
  <2>7. Kept(u.seen, u.shown)
    BY <1>4, <2>5, <2>6 DEF Kept
  <2> QED BY <1>3, <2>7 DEF u
<1> QED BY <1>2, <1>3, <1>6, <1>7

(* The table is the record that it is all through the loop.                *)
IsTable(t) ==
    t = [seen |-> t.seen, shown |-> t.shown, refresh |-> t.refresh, fate |-> t.fate,
         open |-> t.open]

(* So neither is broken by a section, however many listings it has.        *)
LEMMA ParseKeeps ==
    ASSUME Kept(seen, shown), NEW s \in EitSections
    PROVE  Kept(ParseEIT(s).seen, ParseEIT(s).shown) /\ Falls(seen, ParseEIT(s).seen)
<1>1. PICK g : /\ g[0] = Fresh
               /\ \A k \in 1 .. Len(s.events) : g[k] = Turn(g[k - 1], s, s.events[k])
               /\ ParseEIT(s) = g[Len(s.events)]
  BY ParseEITRuns
<1> DEFINE T == {k \in 0 .. Len(s.events) :
                   IsTable(g[k]) /\ Kept(g[k].seen, g[k].shown) /\ Falls(seen, g[k].seen)}
<1>2. Len(s.events) \in Nat /\ s.ver \in 0 .. 31
  BY EitAssumption
<1>3. 0 \in T
  <2>1. \A k \in DOMAIN seen : seen[k] <= seen[k]
    BY DEF Kept
  <2> QED BY <1>1, <1>2, <2>1 DEF Fresh, Falls, IsTable
<1>4. ASSUME NEW k \in 0 .. Len(s.events) - 1, k \in T
      PROVE  k + 1 \in T
  <2> DEFINE t == g[k]
             u == g[k + 1]
  <2>1. u = Turn(t, s, s.events[k + 1])
    BY <1>1, <1>2
  <2>2. IsTable(t) /\ Kept(t.seen, t.shown) /\ Falls(seen, t.seen)
    BY <1>4
  <2> HIDE DEF t, u
  <2>3. CASE t.open
    <3>1. Kept(u.seen, u.shown) /\ Falls(t.seen, u.seen)
      BY <1>2, <2>1, <2>2, <2>3, ListingKeeps DEF Turn
    <3>2. \A x, y, z \in 0 .. 31 : x <= y /\ y <= z => x <= z
      OBVIOUS
    <3>3. Falls(seen, u.seen)
      BY <2>2, <3>1, <3>2 DEF Falls, Kept
    <3>4. IsTable(u)
      BY <2>1, <2>3 DEF Turn, Listing, IsTable
    <3> QED BY <1>2, <3>1, <3>3, <3>4 DEF u
  <2>4. CASE ~t.open
    <3>1. u = [t EXCEPT !.fate = Append(@, "never reached")]
      BY <2>1, <2>4 DEF Turn
    <3>2. IsTable(u) /\ u.seen = t.seen /\ u.shown = t.shown
      BY <2>2, <3>1 DEF IsTable
    <3> QED BY <1>2, <2>2, <3>2 DEF u
  <2> QED BY <2>3, <2>4
<1> HIDE DEF T
<1>5. Len(s.events) \in T
  <2> DEFINE n == Len(s.events)
  <2>1. n \in Nat
    BY <1>2
  <2>2. \A k \in 0 .. n - 1 : k \in T => k + 1 \in T
    BY <1>4
  <2> HIDE DEF n
  <2>3. n \in T
    BY <1>3, <2>1, <2>2, UpTo
  <2> QED BY <2>3 DEF n
<1> QED BY <1>1, <1>5 DEF T

(* The invariant of the list of events.                                    *)
EitInv == Kept(seen, shown)

(* Every section leaves it as it was.                                      *)
LEMMA EitInvStep == EitInv /\ [EitNext]_eitVars => EitInv'
<1> SUFFICES ASSUME EitInv, [EitNext]_eitVars PROVE EitInv'
  OBVIOUS
<1>1. ASSUME NEW s \in EitSections, Parse(s)
      PROVE  EitInv'
  <2>1. /\ seen' = ParseEIT(s).seen /\ shown' = ParseEIT(s).shown /\ ignoreUpdates' = ignoreUpdates
    BY <1>1 DEF Parse
  <2>2. Kept(ParseEIT(s).seen, ParseEIT(s).shown)
    BY ParseKeeps DEF EitInv
  <2> QED BY <2>1, <2>2 DEF EitInv, Kept
<1>2. CASE UNCHANGED eitVars
  BY <1>2 DEF eitVars, EitInv, Kept
<1> QED BY <1>1, <1>2 DEF EitNext

(* It holds of the empty list.                                             *)
LEMMA EitInvInit == EitInit => EitInv
BY DEF EitInit, EitInv, Kept

(* So it always holds.                                                     *)
LEMMA EitInvAlways == EitSpec => []EitInv
BY EitInvInit, EitInvStep, PTL DEF EitSpec

(* An event is written once in a version, and once in all when updates are *)
(* ignored, however the sections of the tables are repeated and mixed.     *)
THEOREM NeverRepeated == EitSpec => []NoRepeats
<1>1. EitInv => NoRepeats
  BY DEF EitInv, Kept, NoRepeats
<1> QED BY <1>1, EitInvAlways, PTL

(* The version kept of an event only falls, so that it cannot refresh the  *)
(* deadline of the grab for ever.                                          *)
THEOREM KeptVersionsFall == EitSpec => VersionsFall
<1>1. EitInv /\ [EitNext]_eitVars
        => [\A k \in DOMAIN seen : k \in DOMAIN seen' /\ seen'[k] <= seen[k]]_seen
  <2> SUFFICES ASSUME EitInv, EitNext
               PROVE  \A k \in DOMAIN seen : k \in DOMAIN seen' /\ seen'[k] <= seen[k]
    BY DEF eitVars
  <2>1. PICK s \in EitSections : Parse(s)
    BY DEF EitNext
  <2>2. seen' = ParseEIT(s).seen /\ Falls(seen, ParseEIT(s).seen)
    BY <2>1, ParseKeeps DEF EitInv, Parse
  <2> QED BY <2>2 DEF Falls
<1> QED BY <1>1, EitInvAlways, PTL DEF EitSpec, VersionsFall

-----------------------------------------------------------------------------
(* The parts of a list, and lists put together.                            *)
LEMMA SubSeqOfInts ==
    ASSUME NEW l \in Seq(Int), NEW m \in 1 .. Len(l) + 1, NEW n \in m - 1 .. Len(l)
    PROVE  /\ SubSeq(l, m, n) \in Seq(Int) /\ Len(SubSeq(l, m, n)) = n - m + 1
           /\ \A j \in 1 .. n - m + 1 : SubSeq(l, m, n)[j] = l[m + j - 1]
<1>1. Len(SubSeq(l, m, n)) = n - m + 1
  OBVIOUS
<1>2. ASSUME NEW j \in 1 .. n - m + 1
      PROVE  SubSeq(l, m, n)[j] = l[m + j - 1]
  BY SMTT(60)
<1>3. SubSeq(l, m, n) \in Seq(Int)
  OBVIOUS
<1> QED BY <1>1, <1>2, <1>3

(* What a concatenation of lists of numbers is made of.                    *)
LEMMA ConcatOfInts ==
    ASSUME NEW s \in Seq(Int), NEW t \in Seq(Int)
    PROVE  /\ s \o t \in Seq(Int) /\ Len(s \o t) = Len(s) + Len(t)
           /\ \A j \in 1 .. Len(s) : (s \o t)[j] = s[j]
           /\ \A j \in Len(s) + 1 .. Len(s) + Len(t) : (s \o t)[j] = t[j - Len(s)]
<1>1. Len(s) \in Nat /\ Len(t) \in Nat
  OBVIOUS
<1>2. /\ s \o t \in Seq(Int) /\ Len(s \o t) = Len(s) + Len(t)
      /\ \A j \in 1 .. Len(s) + Len(t) : (s \o t)[j] = IF j <= Len(s) THEN s[j] ELSE t[j - Len(s)]
  BY ConcatProperties
<1>3. \A j \in 1 .. Len(s) : j \in 1 .. Len(s) + Len(t) /\ j <= Len(s)
  BY <1>1
<1>4. \A j \in Len(s) + 1 .. Len(s) + Len(t) : j \in 1 .. Len(s) + Len(t) /\ ~(j <= Len(s))
  BY <1>1
<1> QED BY <1>2, <1>3, <1>4, Zenon

(* A list of three parts, and the list after an insertion.                 *)
LEMMA ThreeParts ==
    ASSUME NEW front \in Seq(Int), NEW sid \in Int, NEW back \in Seq(Int), NEW m,
           m = front \o <<sid>> \o back
    PROVE  /\ m \in Seq(Int) /\ Len(m) = Len(front) + 1 + Len(back)
           /\ \A j \in 1 .. Len(front) : m[j] = front[j]
           /\ m[Len(front) + 1] = sid
           /\ \A j \in Len(front) + 2 .. Len(front) + 1 + Len(back) : m[j] = back[j - (Len(front) + 1)]
<1> DEFINE begin == front \o <<sid>>
<1>1. Len(front) \in Nat /\ Len(back) \in Nat
  OBVIOUS
<1>2. /\ begin \in Seq(Int) /\ Len(begin) = Len(front) + 1
      /\ \A j \in 1 .. Len(front) : begin[j] = front[j]
      /\ begin[Len(front) + 1] = sid
  OBVIOUS
<1>3. m = begin \o back
  OBVIOUS
<1> HIDE DEF begin
<1>4. /\ m \in Seq(Int) /\ Len(m) = Len(begin) + Len(back)
      /\ \A j \in 1 .. Len(begin) : m[j] = begin[j]
      /\ \A j \in Len(begin) + 1 .. Len(begin) + Len(back) : m[j] = back[j - Len(begin)]
  <2>1. /\ begin \o back \in Seq(Int) /\ Len(begin \o back) = Len(begin) + Len(back)
        /\ \A j \in 1 .. Len(begin) : (begin \o back)[j] = begin[j]
        /\ \A j \in Len(begin) + 1 .. Len(begin) + Len(back) : (begin \o back)[j] = back[j - Len(begin)]
    BY <1>2, ConcatOfInts
  <2> QED BY <1>3, <2>1
<1>5. \A j \in 1 .. Len(front) : j \in 1 .. Len(begin)
  BY <1>1, <1>2
<1>6. Len(front) + 1 \in 1 .. Len(begin) /\ Len(begin) + 1 = Len(front) + 2
  BY <1>1, <1>2
<1> QED BY <1>2, <1>4, <1>5, <1>6

(* The list after an insertion.                                            *)
LEMMA Inserted ==
    ASSUME NEW l \in Seq(Int), NEW at \in 1 .. Len(l), NEW sid \in Int
    PROVE  LET m == InsertAfter(l, at, sid) IN
           /\ m \in Seq(Int) /\ Len(m) = Len(l) + 1
           /\ \A j \in 1 .. at : m[j] = l[j]
           /\ m[at + 1] = sid
           /\ \A j \in at + 2 .. Len(l) + 1 : m[j] = l[j - 1]
<1>1. Len(l) \in Nat
  OBVIOUS
<1>m. PICK m : m = InsertAfter(l, at, sid)
  OBVIOUS
<1>2. PICK front \in Seq(Int) : front = SubSeq(l, 1, at) /\ Len(front) = at
                                /\ \A j \in 1 .. at : front[j] = l[j]
  <2>1. /\ 1 \in 1 .. Len(l) + 1 /\ at \in 0 .. Len(l) /\ 1 - 1 = 0 /\ at - 1 + 1 = at
        /\ \A j \in Int : 1 + j - 1 = j
    BY <1>1
  <2>2. /\ SubSeq(l, 1, at) \in Seq(Int) /\ Len(SubSeq(l, 1, at)) = at - 1 + 1
        /\ \A j \in 1 .. at - 1 + 1 : SubSeq(l, 1, at)[j] = l[1 + j - 1]
    BY <2>1, SubSeqOfInts
  <2>3. \A j \in 1 .. at : SubSeq(l, 1, at)[j] = l[j]
    BY <2>1, <2>2
  <2> QED BY <2>1, <2>2, <2>3, Zenon
<1>3. PICK back \in Seq(Int) : back = SubSeq(l, at + 1, Len(l)) /\ Len(back) = Len(l) - at
                               /\ \A j \in 1 .. Len(l) - at : back[j] = l[at + j]
  <2>1. PICK a \in Int : a = at + 1
    OBVIOUS
  <2>2. a \in 1 .. Len(l) + 1 /\ Len(l) \in a - 1 .. Len(l) /\ Len(l) - a + 1 = Len(l) - at
        /\ \A j \in Int : a + j - 1 = at + j
    BY <2>1
  <2>3. /\ SubSeq(l, a, Len(l)) \in Seq(Int) /\ Len(SubSeq(l, a, Len(l))) = Len(l) - a + 1
        /\ \A j \in 1 .. Len(l) - a + 1 : SubSeq(l, a, Len(l))[j] = l[a + j - 1]
    BY <2>2, SubSeqOfInts
  <2>4. PICK b \in Seq(Int) : b = SubSeq(l, a, Len(l))
    BY <2>3
  <2>5. Len(b) = Len(l) - at /\ \A j \in 1 .. Len(l) - at : b[j] = l[at + j]
    <3>1. Len(b) = Len(l) - at /\ \A j \in 1 .. Len(l) - at : b[j] = l[a + j - 1]
      BY <2>2, <2>3, <2>4, Zenon
    <3>2. \A j \in 1 .. Len(l) - at : j \in Int
      BY <1>1
    <3> QED BY <2>2, <3>1, <3>2, Zenon
  <2> QED BY <2>1, <2>4, <2>5
<1>4. m = front \o <<sid>> \o back
  BY <1>m, <1>2, <1>3 DEF InsertAfter
<1>5. /\ m \in Seq(Int) /\ Len(m) = at + 1 + (Len(l) - at)
      /\ \A j \in 1 .. at : m[j] = front[j]
      /\ m[at + 1] = sid
      /\ \A j \in at + 2 .. at + 1 + (Len(l) - at) : m[j] = back[j - (at + 1)]
  <2>1. /\ m \in Seq(Int) /\ Len(m) = Len(front) + 1 + Len(back)
        /\ \A j \in 1 .. Len(front) : m[j] = front[j]
        /\ m[Len(front) + 1] = sid
        /\ \A j \in Len(front) + 2 .. Len(front) + 1 + Len(back) : m[j] = back[j - (Len(front) + 1)]
    BY <1>4, ThreeParts, SMTT(60)
  <2> QED BY <1>2, <1>3, <2>1
<1>6. ASSUME NEW j \in at + 2 .. Len(l) + 1
      PROVE  m[j] = l[j - 1]
  <2>1. j \in at + 2 .. at + 1 + (Len(l) - at) /\ j - (at + 1) \in 1 .. Len(l) - at
        /\ at + (j - (at + 1)) = j - 1
    BY <1>1
  <2> QED BY <1>3, <1>5, <2>1
<1>7. at + 1 + (Len(l) - at) = Len(l) + 1
  BY <1>1
<1> QED BY <1>m, <1>2, <1>5, <1>6, <1>7

(* The head is smaller than all the others.                                *)
Headed(l) == \A j \in 1 .. Len(l) : j > 1 => l[1] < l[j]

(* The search of parseSDT stops at an entry no larger than the service, or *)
(* finds that all are larger.                                              *)
LEMMA StopsAtIs ==
    ASSUME NEW l \in Seq(Int), NEW sid \in Int
    PROVE  \/ StopsAt(l, sid) = 0 /\ \A j \in 1 .. Len(l) : sid < l[j]
           \/ StopsAt(l, sid) \in 1 .. Len(l) /\ l[StopsAt(l, sid)] <= sid
<1> DEFINE stops == {j \in DOMAIN l : l[j] <= sid}
<1>1. DOMAIN l = 1 .. Len(l) /\ Len(l) \in Nat /\ \A j \in 1 .. Len(l) : l[j] \in Int
  OBVIOUS
<1>2. CASE stops = {}
  <2>1. StopsAt(l, sid) = 0
    BY <1>2 DEF StopsAt
  <2>2. \A x, y \in Int : ~(x <= y) => y < x
    OBVIOUS
  <2> QED BY <1>1, <1>2, <2>1, <2>2
<1>3. CASE stops # {}
  <2>1. stops \in SUBSET Nat
    BY <1>1
  <2>2. StopsAt(l, sid) = CHOOSE j \in stops : \A k \in stops : j <= k
    BY <1>3 DEF StopsAt
  <2> HIDE DEF stops
  <2>3. StopsAt(l, sid) \in stops
    BY <1>3, <2>1, <2>2, SmallestElement
  <2> QED BY <1>1, <2>3 DEF stops
<1> QED BY <1>2, <1>3

(* An insertion never goes before the head; the one service that would     *)
(* have to, empties the list instead.                                      *)
LEMMA InsertKeeps ==
    ASSUME NEW l \in Seq(Int), Headed(l), NEW sid \in Int, ~Listed(l, sid)
    PROVE  /\ Insert(l, sid) \in Seq(Int) /\ Headed(Insert(l, sid))
           /\ \/ Range(l) \subseteq Range(Insert(l, sid))
              \/ \A j \in 1 .. Len(l) : sid < l[j]
<1> DEFINE at == StopsAt(l, sid)
<1>1. DOMAIN l = 1 .. Len(l) /\ Len(l) \in Nat /\ \A j \in 1 .. Len(l) : l[j] \in Int
  OBVIOUS
<1>2. CASE l = <<>>
  <2>1. Insert(l, sid) = <<sid>>
    BY <1>2 DEF Insert
  <2>2. <<sid>> \in Seq(Int) /\ Len(<<sid>>) = 1 /\ Range(<<>>) = {}
    BY DEF Range
  <2>3. Headed(<<sid>>)
    BY <2>2 DEF Headed
  <2> QED BY <1>2, <2>1, <2>2, <2>3
<1>3. CASE l # <<>> /\ at = 0
  <2>1. Insert(l, sid) = <<>>
    BY <1>3 DEF Insert
  <2>2. \A j \in 1 .. Len(l) : sid < l[j]
    BY <1>3, StopsAtIs
  <2> QED BY <2>1, <2>2 DEF Headed
<1>4. CASE l # <<>> /\ at # 0
  <2>1. at \in 1 .. Len(l) /\ l[at] <= sid /\ l[at] # sid
    BY <1>4, StopsAtIs DEF Listed
  <2>2. Insert(l, sid) = InsertAfter(l, at, sid)
    BY <1>4 DEF Insert
  <2> HIDE DEF at
  <2> DEFINE m == InsertAfter(l, at, sid)
  <2>3. /\ m \in Seq(Int) /\ Len(m) = Len(l) + 1
        /\ \A j \in 1 .. at : m[j] = l[j]
        /\ m[at + 1] = sid
        /\ \A j \in at + 2 .. Len(l) + 1 : m[j] = l[j - 1]
    BY <2>1, Inserted
  <2> HIDE DEF m
  <2>4. l[1] < sid /\ m[1] = l[1]
    <3>1. l[at] < sid /\ l[1] \in Int /\ l[at] \in Int
      BY <1>1, <2>1
    <3>2. l[1] <= l[at]
      BY <1>1, <2>1, <3>1 DEF Headed
    <3>3. m[1] = l[1]
      BY <2>1, <2>3
    <3> QED BY <3>1, <3>2, <3>3
  <2>5. Headed(m)
    <3> SUFFICES ASSUME NEW j \in 1 .. Len(m), j > 1 PROVE m[1] < m[j]
      BY DEF Headed
    <3>1. CASE j <= at
      <4>1. j \in 1 .. Len(l) /\ m[j] = l[j]
        BY <1>1, <2>1, <2>3, <3>1
      <4> QED BY <2>4, <4>1 DEF Headed
    <3>2. CASE j = at + 1
      BY <2>3, <2>4, <3>2
    <3>3. CASE j > at + 1
      <4>1. j \in at + 2 .. Len(l) + 1 /\ j - 1 \in 1 .. Len(l) /\ j - 1 > 1
        BY <1>1, <2>1, <2>3, <3>3
      <4>2. m[j] = l[j - 1]
        BY <2>3, <4>1
      <4> QED BY <2>4, <4>1, <4>2 DEF Headed
    <3> QED BY <2>1, <3>1, <3>2, <3>3
  <2>6. Range(l) \subseteq Range(m)
    <3> SUFFICES ASSUME NEW j \in 1 .. Len(l) PROVE \E k \in DOMAIN m : m[k] = l[j]
      BY <1>1 DEF Range
    <3>1. DOMAIN m = 1 .. Len(l) + 1
      BY <2>3
    <3>2. CASE j <= at
      <4>1. j \in DOMAIN m /\ j \in 1 .. at
        BY <1>1, <2>1, <3>1, <3>2
      <4> QED BY <2>3, <4>1
    <3>3. CASE j > at
      <4> DEFINE k == j + 1
      <4>1. k \in DOMAIN m /\ k \in at + 2 .. Len(l) + 1 /\ k - 1 = j
        BY <1>1, <2>1, <3>1, <3>3
      <4> HIDE DEF k
      <4> QED BY <2>3, <4>1
    <3> QED BY <2>1, <3>2, <3>3
  <2> QED BY <2>2, <2>3, <2>5, <2>6 DEF m
<1> QED BY <1>2, <1>3, <1>4

-----------------------------------------------------------------------------
(* What one service makes of the list, and what a section does.            *)
Serve(t, sid) ==
    IF ~t.open \/ Listed(t.list, sid) THEN [t EXCEPT !.open = FALSE]
    ELSE [t EXCEPT !.list = Insert(@, sid)]

(* The loop over the services of a section (parseSDT) is a sequence of     *)
(* lists, each made of the one before by one service.                      *)
LEMMA ParseSDTRuns ==
    ASSUME NEW l, NEW services, Len(services) \in Nat
    PROVE  \E g : /\ g[0] = [list |-> l, open |-> TRUE]
                  /\ \A k \in 1 .. Len(services) : g[k] = Serve(g[k - 1], services[k])
                  /\ ParseSDT(l, services) = g[Len(services)].list
<1> DEFINE n == Len(services)
           Initial == [list |-> l, open |-> TRUE]
           Step(t, i) == Serve(t, services[i])
           Body(g, k) == [i \in 0 .. k |-> IF i = 0 THEN Initial ELSE Step(g[i - 1], i)]
           T == {k \in 0 .. n : \E g : g = Body(g, k)}
<1>1. n \in Nat
  OBVIOUS
<1>2. ParseSDT(l, services) = (CHOOSE g : g = Body(g, n))[n].list
  BY DEF ParseSDT, Serve
<1> HIDE DEF n, Initial, Step
<1>3. 0 \in T
  <2> DEFINE h == [i \in 0 .. 0 |-> Initial]
  <2>1. h = Body(h, 0)
    OBVIOUS
  <2> HIDE DEF h, Body
  <2> QED BY <1>1, <2>1
<1>4. ASSUME NEW k \in 0 .. n - 1, k \in T
      PROVE  k + 1 \in T
  <2>1. PICK g : g = Body(g, k)
    BY <1>4
  <2> DEFINE h == [i \in 0 .. k + 1 |-> IF i <= k THEN g[i] ELSE Step(g[k], k + 1)]
  <2>2. h = Body(h, k + 1)
    <3>1. \A i \in 0 .. k : g[i] = IF i = 0 THEN Initial ELSE Step(g[i - 1], i)
      BY <2>1
    <3>2. \A i \in 0 .. k : h[i] = g[i]
      BY <1>1
    <3> SUFFICES ASSUME NEW i \in 0 .. k + 1
                 PROVE  h[i] = IF i = 0 THEN Initial ELSE Step(h[i - 1], i)
      OBVIOUS
    <3>3. CASE i <= k
      BY <1>1, <3>1, <3>2, <3>3
    <3>4. CASE i = k + 1
      BY <1>1, <3>2, <3>4
    <3> QED BY <1>1, <3>3, <3>4
  <2> HIDE DEF h, Body
  <2> QED BY <1>1, <2>2
<1>5. PICK g : g = Body(g, n)
  <2> HIDE DEF T
  <2>1. \A k \in 0 .. n : k \in T
    BY <1>1, <1>3, <1>4, UpTo
  <2>2. n \in T
    BY <1>1, <2>1
  <2> QED BY <2>2 DEF T
<1> DEFINE after == CHOOSE h : h = Body(h, n)
<1>6. after = Body(after, n)
  <2> HIDE DEF Body
  <2> QED BY <1>5
<1> HIDE DEF after
<1>7. after[0] = Initial /\ \A k \in 1 .. n : after[k] = Step(after[k - 1], k)
  BY <1>1, <1>6
<1> QED BY <1>2, <1>7 DEF n, after, Step, Initial

(* So a section keeps the head smallest, and loses entries only if one of  *)
(* its services is smaller than all of them.                               *)
LEMMA ParseSDTKeeps ==
    ASSUME NEW l \in Seq(Int), Headed(l), NEW services \in Seq(Int)
    PROVE  LET new == ParseSDT(l, services) IN
           /\ new \in Seq(Int) /\ Headed(new)
           /\ \/ Range(l) \subseteq Range(new)
              \/ \E j \in 1 .. Len(services) : \A k \in 1 .. Len(l) : services[j] < l[k]
<1> DEFINE n == Len(services)
           Smaller(k) == \E j \in 1 .. k : \A i \in 1 .. Len(l) : services[j] < l[i]
           Fine(t, k) == /\ t = [list |-> t.list, open |-> t.open]
                         /\ t.list \in Seq(Int) /\ Headed(t.list)
                         /\ Range(l) \subseteq Range(t.list) \/ Smaller(k)
<1>1. n \in Nat /\ \A k \in 1 .. n : services[k] \in Int
  OBVIOUS
<1>2. PICK g : /\ g[0] = [list |-> l, open |-> TRUE]
               /\ \A k \in 1 .. n : g[k] = Serve(g[k - 1], services[k])
               /\ ParseSDT(l, services) = g[n].list
  BY <1>1, ParseSDTRuns
<1> DEFINE T == {k \in 0 .. n : Fine(g[k], k)}
<1> HIDE DEF n
<1>3. 0 \in T
  BY <1>1, <1>2
<1>4. ASSUME NEW k \in 0 .. n - 1, k \in T
      PROVE  k + 1 \in T
  <2> DEFINE t == g[k]
             u == g[k + 1]
             sid == services[k + 1]
  <2>1. k + 1 \in 1 .. n /\ k + 1 \in 0 .. n /\ k \in 0 .. n
    BY <1>1
  <2>2. u = Serve(t, sid) /\ sid \in Int
    BY <1>1, <1>2, <2>1
  <2>3. Fine(t, k)
    BY <1>4
  <2>4. Smaller(k) => Smaller(k + 1)
    <3>1. \A j \in 1 .. k : j \in 1 .. k + 1
      BY <1>1
    <3> QED BY <3>1
  <2>5. CASE ~t.open \/ Listed(t.list, sid)
    <3> HIDE DEF Smaller, t, u, sid
    <3>1. u = [t EXCEPT !.open = FALSE]
      BY <2>2, <2>5 DEF Serve
    <3>2. u = [list |-> t.list, open |-> FALSE]
      BY <2>3, <3>1
    <3>3. Fine(u, k + 1)
      BY <2>3, <2>4, <3>2
    <3> QED BY <2>1, <3>3 DEF u
  <2>6. CASE ~(~t.open \/ Listed(t.list, sid))
    <3>1. (\A i \in 1 .. Len(l) : sid < l[i]) => Smaller(k + 1)
      <4>1. k + 1 \in 1 .. k + 1
        BY <1>1
      <4> QED BY <4>1
    <3>2. (\A i \in 1 .. Len(t.list) : sid < t.list[i]) /\ Range(l) \subseteq Range(t.list)
             => \A i \in 1 .. Len(l) : sid < l[i]
      <4> HIDE DEF t, sid, Smaller
      <4>1. DOMAIN l = 1 .. Len(l) /\ DOMAIN t.list = 1 .. Len(t.list)
        BY <2>3
      <4> QED BY <4>1 DEF Range
    <3> HIDE DEF Smaller, t, u, sid
    <3>3. u = [t EXCEPT !.list = Insert(t.list, sid)]
      BY <2>2, <2>6 DEF Serve
    <3>4. u = [list |-> Insert(t.list, sid), open |-> t.open]
      BY <2>3, <3>3
    <3>5. /\ u.list \in Seq(Int) /\ Headed(u.list)
          /\ \/ Range(t.list) \subseteq Range(u.list)
             \/ \A j \in 1 .. Len(t.list) : sid < t.list[j]
      <4>1. t.list \in Seq(Int) /\ Headed(t.list) /\ sid \in Int /\ ~Listed(t.list, sid)
        BY <2>2, <2>3, <2>6
      <4>2. u.list = Insert(t.list, sid)
        BY <3>4
      <4> QED BY <4>1, <4>2, InsertKeeps, Zenon
    <3>6. Fine(u, k + 1)
      BY <2>3, <2>4, <3>1, <3>2, <3>4, <3>5
    <3> QED BY <2>1, <3>6 DEF u
  <2> QED BY <2>5, <2>6
<1> HIDE DEF T
<1>5. n \in T
  <2>1. \A k \in 0 .. n : k \in T
    BY <1>1, <1>3, <1>4, UpTo
  <2> QED BY <1>1, <2>1
<1> QED BY <1>2, <1>5 DEF T, n

(* The invariant of the list of channels.                                  *)
SdtInv == list \in Seq(Int) /\ Headed(list)

(* A service is an integer.                                                *)
LEMMA SectionsOfInts == \A s \in SdtSections : s \in Seq(Int)
<1>1. Sid \subseteq Int
  BY DEF Sid
<1>2. Seq(Sid) \subseteq Seq(Int)
  BY <1>1, SeqMonotonic
<1> QED BY <1>2, SdtAssumption, Zenon

(* The head is smallest in every list that sections can make.              *)
LEMMA SdtInvAlways == SdtSpec => []SdtInv
<1>1. SdtInit => SdtInv
  BY DEF SdtInit, SdtInv, Headed
<1>2. SdtInv /\ [SdtNext]_sdtVars => SdtInv'
  BY SectionsOfInts, ParseSDTKeeps DEF SdtInv, SdtNext, SdtSection, sdtVars
<1> QED BY <1>1, <1>2, PTL DEF SdtSpec

(* The head of the list is strictly smaller than all other entries.        *)
THEOREM HeadStaysSmallest == SdtSpec => []HeadIsSmallest
<1>1. SdtInv => HeadIsSmallest
  BY DEF SdtInv, Headed, HeadIsSmallest
<1> QED BY <1>1, SdtInvAlways, PTL

(* Entries are lost to a smaller service only.                             *)
THEOREM OnlySmallerLoses == SdtSpec => LostOnlyToSmaller
<1> DEFINE Loses == \A i \in DOMAIN list :
                      list[i] \notin Range(list')
                        => \E j \in DOMAIN last' : \A k \in DOMAIN list : last'[j] < list[k]
<1>1. SdtInv /\ [SdtNext]_sdtVars => [Loses]_list
  <2> SUFFICES ASSUME SdtInv, SdtNext, NEW i \in DOMAIN list, list[i] \notin Range(list')
               PROVE  \E j \in DOMAIN last' : \A k \in DOMAIN list : last'[j] < list[k]
    BY DEF sdtVars
  <2>1. PICK s \in SdtSections : list' = ParseSDT(list, s) /\ last' = s
    BY DEF SdtNext, SdtSection
  <2>2. s \in Seq(Int) /\ DOMAIN s = 1 .. Len(s) /\ DOMAIN list = 1 .. Len(list)
    BY SectionsOfInts DEF SdtInv
  <2>3. list[i] \in Range(list)
    BY DEF Range
  <2>4. \/ Range(list) \subseteq Range(list')
        \/ \E j \in 1 .. Len(s) : \A k \in 1 .. Len(list) : s[j] < list[k]
    BY <2>1, <2>2, ParseSDTKeeps DEF SdtInv
  <2> QED BY <2>1, <2>2, <2>3, <2>4
<1> QED BY <1>1, SdtInvAlways, PTL DEF SdtSpec, LostOnlyToSmaller
-----------------------------------------------------------------------------
(* A text is a sequence of characters with a limited length.               *)
LEMMA BoundedTexts ==
    ASSUME NEW S, NEW n \in Nat
    PROVE  \A s : s \in BoundedSeq(S, n) <=> s \in Seq(S) /\ Len(s) <= n
<1>1. BoundedSeq(S, n) = UNION {[1 .. m -> S] : m \in 0 .. n}
  BY DEF BoundedSeq, SeqOf
<1> SUFFICES ASSUME NEW s
             PROVE  (\E m \in 0 .. n : s \in [1 .. m -> S]) <=> s \in Seq(S) /\ Len(s) <= n
  BY <1>1
<1>2. ASSUME NEW m \in 0 .. n, s \in [1 .. m -> S] PROVE s \in Seq(S) /\ Len(s) <= n
  BY <1>2
<1>3. ASSUME s \in Seq(S), Len(s) <= n PROVE Len(s) \in 0 .. n /\ s \in [1 .. Len(s) -> S]
  BY <1>3
<1> QED BY <1>2, <1>3

(* The ways to encode what follows, from those of the rest of the text.    *)
Escapes(g, text) ==
    IF text = <<>> THEN {Raw(ch) : ch \in Controls}
    ELSE {Raw(Head(text)) \o rest : rest \in g[Tail(text)][AfterEscaped(Head(text))]}

Plains(g, text, before) ==
    IF text = <<>> THEN CodesFor(before, STOP)
    ELSE {code \o rest : code \in CodesFor(before, Head(text)),
                         rest \in IF Head(text) \in DOMAIN Table THEN g[Tail(text)][Head(text)] ELSE {}}

WaysAfter(g, text, before) ==
    IF before = ESCAPE THEN Escapes(g, text)
    ELSE Plains(g, text, before)
           \cup {code \o rest : code \in CodesFor(before, ESCAPE), rest \in Escapes(g, text)}

WaysToSay(g, text) ==
    [before \in DOMAIN Table \cup {ESCAPE} |-> WaysAfter(g, text, before)]

(* Which ways there are depends on those of the rest of the text only.     *)
LEMMA OnlyTheRestCounts ==
    ASSUME NEW g, NEW h, NEW text, text # <<>> => g[Tail(text)] = h[Tail(text)]
    PROVE  WaysToSay(g, text) = WaysToSay(h, text)
<1>1. Escapes(g, text) = Escapes(h, text)
  BY DEF Escapes
<1>2. ASSUME NEW before PROVE Plains(g, text, before) = Plains(h, text, before)
  <2>1. CASE text = <<>>
    BY <2>1 DEF Plains
  <2>2. CASE text # <<>>
    <3>1. PICK rests : rests = g[Tail(text)] /\ rests = h[Tail(text)]
      BY <2>2
    <3> QED BY <2>2, <3>1 DEF Plains
  <2> QED BY <2>1, <2>2
<1>3. PICK escapes : escapes = Escapes(g, text) /\ escapes = Escapes(h, text)
  BY <1>1
<1>4. ASSUME NEW before PROVE WaysAfter(g, text, before) = WaysAfter(h, text, before)
  <2>1. CASE before = ESCAPE
    BY <1>1, <2>1 DEF WaysAfter
  <2>2. CASE before # ESCAPE
    BY <1>2, <1>3, <2>2 DEF WaysAfter
  <2> QED BY <2>1, <2>2
<1> QED BY <1>4 DEF WaysToSay

(* So the recursive definition has a value, and it satisfies its equation. *)
LEMMA EncodingsAre ==
    \A text \in Texts : Encodings[text] = WaysToSay(Encodings, text)
<1> DEFINE Body(g, k) == [text \in BoundedSeq(Characters, k) |-> WaysToSay(g, text)]
           T == {k \in 0 .. MaxText : \E g : g = Body(g, k)}
<1>1. MaxText \in Nat
  BY FreesatAssumption
<1>2. Encodings = CHOOSE g : g = Body(g, MaxText)
  BY DEF Encodings, Texts, WaysToSay, WaysAfter, Escapes, Plains
<1>3. 0 \in T
  <2> DEFINE g == [text \in BoundedSeq(Characters, 0) |-> WaysToSay(<<>>, text)]
  <2>1. \A text \in BoundedSeq(Characters, 0) : text = <<>>
    BY BoundedTexts
  <2>2. \A text \in BoundedSeq(Characters, 0) : WaysToSay(<<>>, text) = WaysToSay(g, text)
    BY <2>1, OnlyTheRestCounts
  <2>3. g = Body(g, 0)
    BY <2>2
  <2> HIDE DEF g, Body
  <2> QED BY <1>1, <2>3
<1>4. ASSUME NEW k \in 0 .. MaxText - 1, k \in T PROVE k + 1 \in T
  <2>1. PICK g : g = Body(g, k)
    BY <1>4
  <2> DEFINE h == [text \in BoundedSeq(Characters, k + 1) |-> WaysToSay(g, text)]
  <2>2. ASSUME NEW text \in BoundedSeq(Characters, k + 1), text # <<>>
        PROVE  g[Tail(text)] = h[Tail(text)]
    <3>1. Tail(text) \in BoundedSeq(Characters, k) /\ Tail(text) \in BoundedSeq(Characters, k + 1)
      <4>1. k \in Nat /\ k + 1 \in Nat
        BY <1>1
      <4>2. text \in Seq(Characters) /\ Len(text) <= k + 1
        BY <4>1, BoundedTexts
      <4>3. Tail(text) \in Seq(Characters) /\ Len(Tail(text)) = Len(text) - 1
        BY <2>2, <4>2
      <4>4. Len(Tail(text)) <= k /\ Len(Tail(text)) <= k + 1
        BY <4>1, <4>2, <4>3
      <4>5. Tail(text) \in BoundedSeq(Characters, k)
        BY <4>1, <4>3, <4>4, BoundedTexts
      <4>6. Tail(text) \in BoundedSeq(Characters, k + 1)
        BY <4>1, <4>3, <4>4, BoundedTexts
      <4> QED BY <4>5, <4>6
    <3>2. g[Tail(text)] = WaysToSay(g, Tail(text))
      BY <2>1, <3>1
    <3> QED BY <3>1, <3>2
  <2>3. \A text \in BoundedSeq(Characters, k + 1) : WaysToSay(g, text) = WaysToSay(h, text)
    <3> HIDE DEF h
    <3> QED BY <2>2, OnlyTheRestCounts
  <2>4. h = Body(h, k + 1)
    BY <2>3
  <2>5. k + 1 \in 0 .. MaxText
    BY <1>1
  <2> HIDE DEF h, Body
  <2> QED BY <2>4, <2>5
<1>5. \E g : g = Body(g, MaxText)
  <2> HIDE DEF T
  <2>1. MaxText \in T
    BY <1>1, <1>3, <1>4, UpTo
  <2> QED BY <2>1 DEF T
<1>6. Encodings = Body(Encodings, MaxText)
  <2> HIDE DEF Body
  <2> QED BY <1>2, <1>5
<1> QED BY <1>6 DEF Texts

(* The powers of two.                                                      *)
LEMMA PowersOfTwo ==
    TwoTo[0] = 1 /\ \A n \in 1 .. ByteBits : TwoTo[n] = 2 * TwoTo[n - 1]
<1> DEFINE Body(g, m) == [i \in 0 .. m |-> IF i = 0 THEN 1 ELSE 2 * g[i - 1]]
           T == {m \in 0 .. ByteBits : \E g : g = Body(g, m)}
<1>1. ByteBits \in Nat
  BY FreesatAssumption
<1>2. TwoTo = CHOOSE g : g = Body(g, ByteBits)
  BY DEF TwoTo
<1>3. 0 \in T
  <2> DEFINE h == [i \in 0 .. 0 |-> 1]
  <2>1. h = Body(h, 0)
    OBVIOUS
  <2> HIDE DEF h, Body
  <2> QED BY <1>1, <2>1
<1>4. ASSUME NEW k \in 0 .. ByteBits - 1, k \in T
      PROVE  k + 1 \in T
  <2>1. PICK g : g = Body(g, k)
    BY <1>4
  <2> DEFINE h == [i \in 0 .. k + 1 |-> IF i <= k THEN g[i] ELSE 2 * g[k]]
  <2>2. h = Body(h, k + 1)
    <3>1. \A i \in 0 .. k : g[i] = IF i = 0 THEN 1 ELSE 2 * g[i - 1]
      BY <2>1
    <3>2. \A i \in 0 .. k : h[i] = g[i]
      BY <1>1
    <3> SUFFICES ASSUME NEW i \in 0 .. k + 1
                 PROVE  h[i] = IF i = 0 THEN 1 ELSE 2 * h[i - 1]
      OBVIOUS
    <3>3. CASE i <= k
      BY <1>1, <3>1, <3>2, <3>3
    <3>4. CASE i = k + 1
      BY <1>1, <3>2, <3>4
    <3> QED BY <1>1, <3>3, <3>4
  <2> HIDE DEF h, Body
  <2> QED BY <1>1, <2>2
<1>5. \E g : g = Body(g, ByteBits)
  <2> HIDE DEF T
  <2>1. ByteBits \in T
    BY <1>1, <1>3, <1>4, UpTo
  <2> QED BY <2>1 DEF T
<1>6. TwoTo = Body(TwoTo, ByteBits)
  <2> HIDE DEF Body
  <2> QED BY <1>2, <1>5
<1> QED BY <1>1, <1>6

(* They are positive.                                                      *)
LEMMA PowersArePositive == \A n \in 0 .. ByteBits : TwoTo[n] \in Nat \ {0}
<1> DEFINE T == {n \in 0 .. ByteBits : TwoTo[n] \in Nat \ {0}}
<1>1. ByteBits \in Nat /\ TwoTo[0] = 1 /\ \A n \in 1 .. ByteBits : TwoTo[n] = 2 * TwoTo[n - 1]
  BY FreesatAssumption, PowersOfTwo
<1>2. 0 \in T
  BY <1>1
<1>3. ASSUME NEW n \in 0 .. ByteBits - 1, n \in T PROVE n + 1 \in T
  <2>1. TwoTo[n + 1] = 2 * TwoTo[n]
    BY <1>1
  <2> QED BY <1>1, <1>3, <2>1
<1> HIDE DEF T
<1>4. \A n \in 0 .. ByteBits : n \in T
  BY <1>1, <1>2, <1>3, UpTo
<1> QED BY <1>4 DEF T

(* Number reads the highest bit first.                                     *)
LEMMA NumberRuns ==
    ASSUME NEW bits, Len(bits) \in Nat
    PROVE  \E g : /\ g[0] = 0 /\ \A n \in 1 .. Len(bits) : g[n] = 2 * g[n - 1] + bits[n]
                  /\ Number(bits) = g[Len(bits)]
<1> DEFINE n == Len(bits)
           Body(g, m) == [i \in 0 .. m |-> IF i = 0 THEN 0 ELSE 2 * g[i - 1] + bits[i]]
           T == {m \in 0 .. n : \E g : g = Body(g, m)}
<1>1. n \in Nat
  OBVIOUS
<1>2. Number(bits) = (CHOOSE g : g = Body(g, n))[n]
  BY DEF Number
<1> HIDE DEF n
<1>3. 0 \in T
  <2> DEFINE h == [i \in 0 .. 0 |-> 0]
  <2>1. h = Body(h, 0)
    OBVIOUS
  <2> HIDE DEF h, Body
  <2> QED BY <1>1, <2>1
<1>4. ASSUME NEW k \in 0 .. n - 1, k \in T
      PROVE  k + 1 \in T
  <2>1. PICK g : g = Body(g, k)
    BY <1>4
  <2> DEFINE h == [i \in 0 .. k + 1 |-> IF i <= k THEN g[i] ELSE 2 * g[k] + bits[k + 1]]
  <2>2. h = Body(h, k + 1)
    <3>1. \A i \in 0 .. k : g[i] = IF i = 0 THEN 0 ELSE 2 * g[i - 1] + bits[i]
      BY <2>1
    <3>2. \A i \in 0 .. k : h[i] = g[i]
      BY <1>1
    <3> SUFFICES ASSUME NEW i \in 0 .. k + 1
                 PROVE  h[i] = IF i = 0 THEN 0 ELSE 2 * h[i - 1] + bits[i]
      OBVIOUS
    <3>3. CASE i <= k
      BY <1>1, <3>1, <3>2, <3>3
    <3>4. CASE i = k + 1
      BY <1>1, <3>2, <3>4
    <3> QED BY <1>1, <3>3, <3>4
  <2> HIDE DEF h, Body
  <2> QED BY <1>1, <2>2
<1>5. \E g : g = Body(g, n)
  <2> HIDE DEF T
  <2>1. \A k \in 0 .. n : k \in T
    BY <1>1, <1>3, <1>4, UpTo, Zenon
  <2>2. n \in T
    BY <1>1, <2>1
  <2> QED BY <2>2 DEF T
<1> DEFINE number == CHOOSE g : g = Body(g, n)
<1>6. number = Body(number, n)
  <2> HIDE DEF Body
  <2> QED BY <1>5
<1> HIDE DEF number
<1>7. number[0] = 0 /\ \A i \in 1 .. n : number[i] = 2 * number[i - 1] + bits[i]
  BY <1>1, <1>6
<1> QED BY <1>2, <1>7 DEF n, number

(* The bits of a byte are what is left over when it is halved.             *)
LEMMA RawRuns ==
    ASSUME NEW ch \in Nat
    PROVE  \E half : /\ half[0] = ch /\ \A n \in 1 .. ByteBits : half[n] = half[n - 1] \div 2
                     /\ Raw(ch) = [n \in 1 .. ByteBits |-> half[ByteBits - n] % 2]
<1> DEFINE Body(g, m) == [i \in 0 .. m |-> IF i = 0 THEN ch ELSE g[i - 1] \div 2]
           T == {m \in 0 .. ByteBits : \E g : g = Body(g, m)}
<1>1. ByteBits \in Nat
  BY FreesatAssumption
<1> DEFINE half == CHOOSE g : g = Body(g, ByteBits)
<1>2. Raw(ch) = [n \in 1 .. ByteBits |-> half[ByteBits - n] % 2]
  BY DEF Raw
<1>3. 0 \in T
  <2> DEFINE h == [i \in 0 .. 0 |-> ch]
  <2>1. h = Body(h, 0)
    OBVIOUS
  <2> HIDE DEF h, Body
  <2> QED BY <1>1, <2>1
<1>4. ASSUME NEW k \in 0 .. ByteBits - 1, k \in T
      PROVE  k + 1 \in T
  <2>1. PICK g : g = Body(g, k)
    BY <1>4
  <2> DEFINE h == [i \in 0 .. k + 1 |-> IF i <= k THEN g[i] ELSE g[k] \div 2]
  <2>2. h = Body(h, k + 1)
    <3>1. \A i \in 0 .. k : g[i] = IF i = 0 THEN ch ELSE g[i - 1] \div 2
      BY <2>1
    <3>2. \A i \in 0 .. k : h[i] = g[i]
      BY <1>1
    <3> SUFFICES ASSUME NEW i \in 0 .. k + 1
                 PROVE  h[i] = IF i = 0 THEN ch ELSE h[i - 1] \div 2
      OBVIOUS
    <3>3. CASE i <= k
      BY <1>1, <3>1, <3>2, <3>3
    <3>4. CASE i = k + 1
      BY <1>1, <3>2, <3>4
    <3> QED BY <1>1, <3>3, <3>4
  <2> HIDE DEF h, Body
  <2> QED BY <1>1, <2>2
<1>5. \E g : g = Body(g, ByteBits)
  <2> HIDE DEF T
  <2>1. ByteBits \in T
    BY <1>1, <1>3, <1>4, UpTo
  <2> QED BY <2>1 DEF T
<1>6. half = Body(half, ByteBits)
  <2> HIDE DEF Body
  <2> QED BY <1>5
<1> HIDE DEF half
<1>7. half[0] = ch /\ \A n \in 1 .. ByteBits : half[n] = half[n - 1] \div 2
  BY <1>1, <1>6
<1> QED BY <1>2, <1>7

(* What is written as the bits of a byte is read as its number.            *)
LEMMA ReadsWhatIsWritten ==
    ASSUME NEW ch \in Nat, ch < TwoTo[ByteBits]
    PROVE  /\ Raw(ch) \in Seq(Bits) /\ Len(Raw(ch)) = ByteBits
           /\ Number(Raw(ch)) = ch
<1>1. ByteBits \in Nat /\ TwoTo[0] = 1 /\ \A n \in 1 .. ByteBits : TwoTo[n] = 2 * TwoTo[n - 1]
  BY FreesatAssumption, PowersOfTwo
<1>2. PICK half :
              /\ half[0] = ch /\ \A n \in 1 .. ByteBits : half[n] = half[n - 1] \div 2
              /\ Raw(ch) = [n \in 1 .. ByteBits |-> half[ByteBits - n] % 2]
  BY RawRuns
<1>3. \A n \in 0 .. ByteBits : TwoTo[n] \in Nat \ {0}
  BY PowersArePositive
<1>4. \A n \in 0 .. ByteBits : half[n] \in Nat /\ half[n] < TwoTo[ByteBits - n]
  <2> DEFINE T == {n \in 0 .. ByteBits : half[n] \in Nat /\ half[n] < TwoTo[ByteBits - n]}
  <2>1. 0 \in T
    BY <1>1, <1>2
  <2>2. ASSUME NEW n \in 0 .. ByteBits - 1, n \in T PROVE n + 1 \in T
    <3>1. half[n + 1] = half[n] \div 2
      BY <1>1, <1>2
    <3>2. TwoTo[ByteBits - n] = 2 * TwoTo[ByteBits - (n + 1)] /\ TwoTo[ByteBits - (n + 1)] \in Nat
      <4>1. ByteBits - n \in 1 .. ByteBits /\ (ByteBits - n) - 1 = ByteBits - (n + 1)
            /\ ByteBits - (n + 1) \in 0 .. ByteBits
        BY <1>1
      <4> QED BY <1>1, <1>3, <4>1
    <3>3. half[n] \in Nat /\ half[n] < TwoTo[ByteBits - n]
      BY <2>2
    <3>4. half[n + 1] \in Nat /\ half[n + 1] < TwoTo[ByteBits - (n + 1)]
      BY <3>1, <3>2, <3>3
    <3> QED BY <1>1, <3>4
  <2> HIDE DEF T
  <2>3. \A n \in 0 .. ByteBits : n \in T
    BY <1>1, <2>1, <2>2, UpTo
  <2> QED BY <2>3 DEF T
<1>5. Raw(ch) \in Seq(Bits) /\ Len(Raw(ch)) = ByteBits
      /\ \A n \in 1 .. ByteBits : Raw(ch)[n] = half[ByteBits - n] % 2
  <2>1. \A n \in 1 .. ByteBits : half[ByteBits - n] \in Nat
    BY <1>1, <1>4
  <2>2. \A n \in 1 .. ByteBits : half[ByteBits - n] % 2 \in Bits
    BY <2>1 DEF Bits
  <2> QED BY <1>1, <1>2, <2>2
<1>6. PICK g : g[0] = 0 /\ (\A n \in 1 .. ByteBits : g[n] = 2 * g[n - 1] + Raw(ch)[n])
               /\ Number(Raw(ch)) = g[ByteBits]
  <2>1. \A n \in 1 .. Len(Raw(ch)) : Raw(ch)[n] \in Int
    BY <1>5 DEF Bits
  <2> QED BY <1>1, <1>5, <2>1, NumberRuns
<1>7. \A n \in 0 .. ByteBits : g[n] = half[ByteBits - n]
  <2> DEFINE T == {n \in 0 .. ByteBits : g[n] = half[ByteBits - n]}
  <2>1. 0 \in T
    <3>1. half[ByteBits] = 0
      BY <1>1, <1>4
    <3> QED BY <1>1, <1>6, <3>1
  <2>2. ASSUME NEW n \in 0 .. ByteBits - 1, n \in T PROVE n + 1 \in T
    <3>1. /\ ByteBits - n \in 1 .. ByteBits /\ (ByteBits - n) - 1 = ByteBits - (n + 1)
          /\ ByteBits - (n + 1) \in 0 .. ByteBits /\ n + 1 \in 1 .. ByteBits /\ (n + 1) - 1 = n
      BY <1>1
    <3>2. g[n + 1] = 2 * g[n] + Raw(ch)[n + 1]
      BY <1>6, <3>1
    <3>3. g[n] = half[ByteBits - n] /\ half[ByteBits - n] = half[ByteBits - (n + 1)] \div 2
      BY <1>2, <2>2, <3>1
    <3>4. Raw(ch)[n + 1] = half[ByteBits - (n + 1)] % 2
      BY <1>5, <3>1
    <3>5. half[ByteBits - (n + 1)] \in Nat
      BY <1>4, <3>1
    <3>6. \A x \in Nat : (2 * (x \div 2)) + (x % 2) = x
      OBVIOUS
    <3>7. g[n + 1] = half[ByteBits - (n + 1)]
      BY <3>2, <3>3, <3>4, <3>5, <3>6
    <3> QED BY <3>1, <3>7
  <2> HIDE DEF T
  <2>3. \A n \in 0 .. ByteBits : n \in T
    BY <1>1, <2>1, <2>2, UpTo
  <2> QED BY <2>3 DEF T
<1>8. Number(Raw(ch)) = ch
  BY <1>1, <1>2, <1>6, <1>7
<1> QED BY <1>5, <1>8

-----------------------------------------------------------------------------
(* The characters and marks, as numbers.                                   *)
LEMMA Marks ==
    /\ ByteBits \in Nat /\ ByteBits > 2 /\ Space \in Nat /\ Space >= 2
    /\ DOMAIN Table \subseteq Int /\ ESCAPE \notin DOMAIN Table /\ START \in DOMAIN Table
    /\ Ascii \ Controls \subseteq DOMAIN Table /\ STOP \in Ascii
    /\ \A ch \in Characters : /\ ch \in Nat /\ ch < TwoTo[ByteBits]
                              /\ ch \notin Controls /\ ch \notin {STOP, ESCAPE}
    /\ \A ch \in Controls : ch \in Nat /\ ch < TwoTo[ByteBits]
<1>1. /\ ByteBits \in Nat \ {0, 1, 2} /\ Space \in Nat /\ ESCAPE \in Controls /\ Controls \subseteq Ascii
      /\ DOMAIN Table = {START} \cup (Ascii \ Controls)
  BY FreesatAssumption
<1>2. ByteBits > 2 /\ Space >= 2
  BY <1>1 DEF Controls, ESCAPE
<1>3. TwoTo[ByteBits] = 2 * TwoTo[ByteBits - 1] /\ TwoTo[ByteBits] \in Nat /\ TwoTo[ByteBits - 1] \in Nat
  <2>1. ByteBits \in 1 .. ByteBits /\ ByteBits \in 0 .. ByteBits /\ ByteBits - 1 \in 0 .. ByteBits
    BY <1>1
  <2> QED BY <2>1, PowersOfTwo, PowersArePositive
<1>4. \A ch \in Controls : ch \in Nat /\ ch < TwoTo[ByteBits]
  BY <1>1, <1>3 DEF Controls, Ascii
<1>5. \A ch \in Characters : /\ ch \in Nat /\ ch < TwoTo[ByteBits]
                             /\ ch \notin Controls /\ ch \notin {STOP, ESCAPE}
  BY <1>1, <1>2, <1>3 DEF Characters, Controls, STOP, ESCAPE
<1>6. DOMAIN Table \subseteq Int /\ ESCAPE \notin DOMAIN Table /\ START \in DOMAIN Table
      /\ Ascii \ Controls \subseteq DOMAIN Table /\ STOP \in Ascii
  <2>1. ESCAPE # START
    BY DEF ESCAPE, START
  <2>2. STOP \in Controls
    BY <1>1, <1>2 DEF Controls, STOP
  <2> QED BY <1>1, <2>1, <2>2 DEF Ascii, START
<1> QED BY <1>1, <1>2, <1>4, <1>5, <1>6

(* A code is some bits, and not more than the window has.                  *)
LEMMA EntriesAreCodes ==
    ASSUME NEW before \in DOMAIN Table
    PROVE  /\ DOMAIN Table[before] = 1 .. Len(Table[before]) /\ Len(Table[before]) \in Nat
           /\ \A k \in DOMAIN Table[before] :
                 /\ Table[before][k].code \in Seq(Bits)
                 /\ Len(Table[before][k].code) \in 1 .. 4 * ByteBits
                 /\ Table[before][k].next \in DOMAIN Table \cup {ESCAPE}
<1> DEFINE Entry == [code : Seq(Bits), next : DOMAIN Table \cup {ESCAPE}]
<1>1. /\ Table[before] \in Seq(Entry)
      /\ \A k \in DOMAIN Table[before] : Len(Table[before][k].code) \in 1 .. 4 * ByteBits
  BY FreesatAssumption
<1>2. \A entry \in Entry : entry.code \in Seq(Bits) /\ entry.next \in DOMAIN Table \cup {ESCAPE}
  OBVIOUS
<1> HIDE DEF Entry
<1>3. DOMAIN Table[before] = 1 .. Len(Table[before]) /\ Len(Table[before]) \in Nat
      /\ \A k \in DOMAIN Table[before] : Table[before][k] \in Entry
  BY <1>1
<1> QED BY <1>1, <1>2, <1>3

(* So is what may be said with the table.                                  *)
LEMMA CodesAreShort ==
    ASSUME NEW before \in DOMAIN Table, NEW ch
    PROVE  \A code \in CodesFor(before, ch) :
              code \in Seq(Bits) /\ Len(code) \in 1 .. 4 * ByteBits
BY EntriesAreCodes DEF CodesFor

(* What is read behind a character of the table begins with one code.      *)
CodeFirst(rest, before, w) ==
    \/ \E code \in CodesFor(before, ESCAPE) : \E after \in Encodings[rest][ESCAPE] : w = code \o after
    \/ rest = <<>> /\ w \in CodesFor(before, STOP)
    \/ /\ rest # <<>> /\ Head(rest) \in DOMAIN Table
       /\ \E code \in CodesFor(before, Head(rest)) :
             \E after \in Encodings[Tail(rest)][Head(rest)] : w = code \o after

(* What there is to read when a text goes on with `rest': one code and     *)
(* what there is to read after it.                                         *)
LEMMA NextWay ==
    ASSUME NEW rest \in Texts
    PROVE  /\ rest = <<>> =>
                \A w \in Encodings[rest][ESCAPE] : \E ch \in Controls : w = Raw(ch)
           /\ rest # <<>> =>
                \A w \in Encodings[rest][ESCAPE] :
                   \E after \in Encodings[Tail(rest)][AfterEscaped(Head(rest))] : w = Raw(Head(rest)) \o after
           /\ \A before \in DOMAIN Table : \A w \in Encodings[rest][before] : CodeFirst(rest, before, w)
<1>1. /\ Encodings[rest][ESCAPE] = Escapes(Encodings, rest)
      /\ \A before \in DOMAIN Table : Encodings[rest][before] = WaysAfter(Encodings, rest, before)
  <2>1. Encodings[rest] = WaysToSay(Encodings, rest)
    BY EncodingsAre
  <2>2. Encodings[rest][ESCAPE] = WaysAfter(Encodings, rest, ESCAPE)
        /\ \A before \in DOMAIN Table : Encodings[rest][before] = WaysAfter(Encodings, rest, before)
    BY <2>1 DEF WaysToSay
  <2>3. WaysAfter(Encodings, rest, ESCAPE) = Escapes(Encodings, rest)
    BY DEF WaysAfter
  <2> QED BY <2>2, <2>3
<1>2. rest = <<>> =>
        \A w \in Encodings[rest][ESCAPE] : \E ch \in Controls : w = Raw(ch)
  BY <1>1 DEF Escapes
<1>3. rest # <<>> =>
        \A w \in Encodings[rest][ESCAPE] :
           \E after \in Encodings[Tail(rest)][AfterEscaped(Head(rest))] : w = Raw(Head(rest)) \o after
  BY <1>1 DEF Escapes
<1>4. ASSUME NEW before \in DOMAIN Table, NEW w \in Encodings[rest][before]
      PROVE  CodeFirst(rest, before, w)
  <2>1. before # ESCAPE
    BY Marks
  <2>2. \/ w \in Plains(Encodings, rest, before)
        \/ \E code \in CodesFor(before, ESCAPE) : \E after \in Escapes(Encodings, rest) : w = code \o after
    <3>1. WaysAfter(Encodings, rest, before) =
            Plains(Encodings, rest, before)
              \cup {code \o after : code \in CodesFor(before, ESCAPE), after \in Escapes(Encodings, rest)}
      BY <2>1 DEF WaysAfter
    <3>2. w \in WaysAfter(Encodings, rest, before)
      BY <1>1
    <3> QED BY <3>1, <3>2
  <2>3. ASSUME w \in Plains(Encodings, rest, before), rest # <<>>
        PROVE  /\ Head(rest) \in DOMAIN Table
               /\ \E code \in CodesFor(before, Head(rest)) :
                     \E after \in Encodings[Tail(rest)][Head(rest)] : w = code \o after
    BY <2>3 DEF Plains
  <2>4. ASSUME w \in Plains(Encodings, rest, before), rest = <<>>
        PROVE  w \in CodesFor(before, STOP)
    BY <2>4 DEF Plains
  <2> QED BY <1>1, <2>2, <2>3, <2>4 DEF CodeFirst
<1> QED BY <1>2, <1>3, <1>4

(* The rest of a text.                                                     *)
LEMMA RestOfText ==
    ASSUME NEW rest \in Texts
    PROVE  /\ rest \in Seq(Characters) /\ Len(rest) \in 0 .. MaxText
           /\ rest # <<>> => /\ Head(rest) \in Characters
                             /\ Tail(rest) \in Texts /\ Len(Tail(rest)) = Len(rest) - 1
                             /\ AfterEscaped(Head(rest)) \in DOMAIN Table \cup {ESCAPE}
<1>1. MaxText \in Nat
  BY FreesatAssumption
<1>2. rest \in Seq(Characters) /\ Len(rest) \in 0 .. MaxText
  BY <1>1, BoundedTexts DEF Texts
<1>3. ASSUME rest # <<>> PROVE Head(rest) \in Characters /\ Tail(rest) \in Texts /\ Len(Tail(rest)) = Len(rest) - 1
  <2>1. Head(rest) \in Characters /\ Tail(rest) \in Seq(Characters) /\ Len(Tail(rest)) = Len(rest) - 1
    BY <1>2, <1>3
  <2>2. Len(Tail(rest)) <= MaxText
    BY <1>1, <1>2, <2>1
  <2> QED BY <1>1, <2>1, <2>2, BoundedTexts DEF Texts
<1>4. \A ch \in Characters : AfterEscaped(ch) \in DOMAIN Table \cup {ESCAPE}
  BY Marks DEF AfterEscaped
<1> QED BY <1>2, <1>3, <1>4

(* A way to go on has bits to read, whatever the text.                     *)
LEMMA WaysAreBits ==
    \A rest \in Texts : \A before \in DOMAIN Table \cup {ESCAPE} : \A w \in Encodings[rest][before] :
        w \in Seq(Bits) /\ Len(w) \in Nat /\ Len(w) > 0
<1> DEFINE IsWay(w) == w \in Seq(Bits) /\ Len(w) \in Nat /\ Len(w) > 0
           Good(rest) == \A before \in DOMAIN Table \cup {ESCAPE} : \A w \in Encodings[rest][before] : IsWay(w)
           T == {k \in 0 .. MaxText : \A rest \in Texts : Len(rest) <= k => Good(rest)}
<1>1. MaxText \in Nat
  BY FreesatAssumption
<1>2. \A code, after : IsWay(code) /\ IsWay(after) => IsWay(code \o after)
  OBVIOUS
<1>3. \A ch \in Characters \cup Controls : IsWay(Raw(ch))
  BY Marks, ReadsWhatIsWritten
<1>4. \A before \in DOMAIN Table : \A ch : \A code \in CodesFor(before, ch) : IsWay(code)
  BY CodesAreShort, Marks
<1> HIDE DEF IsWay
<1>5. ASSUME NEW rest \in Texts, rest # <<>> => Good(Tail(rest))
      PROVE  Good(rest)
  <2>1. \A w \in Encodings[rest][ESCAPE] : IsWay(w)
    <3>1. CASE rest = <<>>
      BY <1>3, <3>1, NextWay
    <3>2. CASE rest # <<>>
      <4>1. Head(rest) \in Characters
            /\ \A after \in Encodings[Tail(rest)][AfterEscaped(Head(rest))] : IsWay(after)
        BY <1>5, <3>2, RestOfText
      <4>2. \A w \in Encodings[rest][ESCAPE] :
              \E after \in Encodings[Tail(rest)][AfterEscaped(Head(rest))] : w = Raw(Head(rest)) \o after
        BY <3>2, NextWay
      <4>3. ASSUME NEW w \in Encodings[rest][ESCAPE] PROVE IsWay(w)
        <5>1. PICK after \in Encodings[Tail(rest)][AfterEscaped(Head(rest))] : w = Raw(Head(rest)) \o after
          BY <4>2
        <5>2. IsWay(Raw(Head(rest))) /\ IsWay(after)
          BY <1>3, <4>1
        <5> QED BY <1>2, <5>1, <5>2
      <4> QED BY <4>3
    <3> QED BY <3>1, <3>2
  <2>2. ASSUME NEW before \in DOMAIN Table, NEW w \in Encodings[rest][before]
        PROVE  IsWay(w)
    <3>1. CASE \E code \in CodesFor(before, ESCAPE) : \E after \in Encodings[rest][ESCAPE] : w = code \o after
      BY <1>2, <1>4, <2>1, <3>1
    <3>2. CASE rest = <<>> /\ w \in CodesFor(before, STOP)
      BY <1>4, <3>2
    <3>3. CASE /\ rest # <<>> /\ Head(rest) \in DOMAIN Table
               /\ \E code \in CodesFor(before, Head(rest)) :
                     \E after \in Encodings[Tail(rest)][Head(rest)] : w = code \o after
      BY <1>2, <1>4, <1>5, <3>3
    <3>4. CodeFirst(rest, before, w)
      BY NextWay
    <3> QED BY <3>1, <3>2, <3>3, <3>4 DEF CodeFirst
  <2> QED BY <2>1, <2>2
<1>6. 0 \in T
  <2>1. ASSUME NEW rest \in Texts, Len(rest) <= 0 PROVE rest = <<>>
    BY <2>1, RestOfText
  <2> HIDE DEF Good
  <2> QED BY <1>1, <1>5, <2>1
<1>7. ASSUME NEW k \in 0 .. MaxText - 1, k \in T PROVE k + 1 \in T
  <2> HIDE DEF Good
  <2>1. ASSUME NEW rest \in Texts, Len(rest) <= k + 1 PROVE Good(rest)
    <3>1. rest # <<>> => Tail(rest) \in Texts /\ Len(Tail(rest)) <= k
      BY <1>1, <2>1, RestOfText
    <3> QED BY <1>5, <1>7, <3>1
  <2> QED BY <1>1, <2>1
<1>8. MaxText \in T
  <2> HIDE DEF T
  <2> QED BY <1>1, <1>6, <1>7, UpTo
<1> QED BY <1>8, RestOfText DEF IsWay

-----------------------------------------------------------------------------
(* A prefix is no longer, and has the same elements.                       *)
LEMMA PrefixTells ==
    ASSUME NEW s \in Seq(Bits), NEW t \in Seq(Bits)
    PROVE  IsPrefix(s, t) <=> Len(s) <= Len(t) /\ \A k \in 1 .. Len(s) : s[k] = t[k]
<1>1. Len(s) \in Nat /\ Len(t) \in Nat /\ SubSeq(s, 1, Len(s)) = s
  OBVIOUS
<1>2. ASSUME Len(s) <= Len(t)
      PROVE  SubSeq(t, 1, Len(s)) = s <=> \A k \in 1 .. Len(s) : s[k] = t[k]
  <2>1. PICK u : u = SubSeq(t, 1, Len(s))
    OBVIOUS
  <2>2. u \in Seq(Bits)
    BY <1>1, <1>2, <2>1
  <2>3. Len(u) = Len(s)
    BY <1>1, <1>2, <2>1
  <2>4. \A k \in 1 .. Len(s) : u[k] = t[k]
    BY <1>1, <1>2, <2>1
  <2>5. u = s <=> \A k \in 1 .. Len(s) : s[k] = t[k]
    BY <1>1, <2>2, <2>3, <2>4
  <2> QED BY <2>1, <2>5
<1> QED BY <1>1, <1>2 DEF IsPrefix

(* The bits that come next in the text, or what the window shows of them.  *)
Ahead(bits) ==
    /\ shifted + Len(bits) <= Len(src)
    /\ \A k \in 1 .. Len(bits) : bits[k] = src[shifted + k]

(* The window shows the bits ahead, and zeros behind the end.              *)
LEMMA WindowIsBits ==
    ASSUME shifted \in Nat, src \in Seq(Bits)
    PROVE  /\ window \in Seq(Bits) /\ Len(window) = 4 * ByteBits
           /\ \A k \in 1 .. 4 * ByteBits :
                 window[k] = IF shifted + k <= Len(src) THEN src[shifted + k] ELSE 0
<1>1. ByteBits \in Nat /\ 4 * ByteBits \in Nat /\ Len(src) \in Nat
  BY Marks
<1>2. PICK visible : visible = window
  OBVIOUS
<1>3. \A k \in 1 .. 4 * ByteBits :
        visible[k] = IF shifted + k <= Len(src) THEN src[shifted + k] ELSE 0
  BY <1>2 DEF window
<1>4. \A k \in 1 .. 4 * ByteBits : visible[k] \in Bits
  <2>1. \A k \in 1 .. 4 * ByteBits : shifted + k <= Len(src) => src[shifted + k] \in Bits
    BY <1>1
  <2> QED BY <1>3, <2>1 DEF Bits
<1>5. visible \in Seq(Bits) /\ Len(visible) = 4 * ByteBits
  <2>1. PICK n \in Nat : n = 4 * ByteBits
    BY <1>1
  <2>2. visible = [k \in 1 .. n |-> visible[k]]
    BY <1>2, <2>1 DEF window
  <2>3. visible \in [1 .. n -> Bits]
    BY <1>4, <2>1, <2>2
  <2> QED BY <2>1, <2>3
<1> QED BY <1>2, <1>3, <1>5

(* A code whose bits come next is at the beginning of the window.          *)
LEMMA WindowShows ==
    ASSUME shifted \in Nat, src \in Seq(Bits), NEW code \in Seq(Bits),
           Len(code) \in 0 .. 4 * ByteBits, Ahead(code)
    PROVE  /\ IsPrefix(code, window)
           /\ Len(code) = ByteBits => SubSeq(window, 1, ByteBits) = code
<1>1. ByteBits \in Nat /\ 4 * ByteBits \in Nat /\ Len(src) \in Nat /\ Len(code) \in Nat
  BY Marks
<1>2. PICK visible : visible = window
  OBVIOUS
<1>3. /\ visible \in Seq(Bits) /\ Len(visible) = 4 * ByteBits
      /\ \A k \in 1 .. 4 * ByteBits :
            visible[k] = IF shifted + k <= Len(src) THEN src[shifted + k] ELSE 0
  BY <1>2, WindowIsBits
<1>4. \A k \in 1 .. Len(code) : code[k] = visible[k]
  <2> SUFFICES ASSUME NEW k \in 1 .. Len(code) PROVE code[k] = visible[k]
    OBVIOUS
  <2>1. shifted + Len(code) <= Len(src) /\ code[k] = src[shifted + k]
    BY DEF Ahead
  <2>2. k \in 1 .. 4 * ByteBits /\ shifted + k <= Len(src)
    BY <1>1, <2>1
  <2> QED BY <1>3, <2>1, <2>2
<1>5. IsPrefix(code, visible)
  <2>1. visible \in Seq(Bits) /\ Len(code) <= Len(visible)
    BY <1>1, <1>3
  <2> QED BY <1>4, <2>1, PrefixTells
<1>6. SubSeq(visible, 1, Len(code)) = SubSeq(code, 1, Len(code)) /\ SubSeq(code, 1, Len(code)) = code
  <2>1. SubSeq(code, 1, Len(code)) = code
    OBVIOUS
  <2> QED BY <1>5, <2>1 DEF IsPrefix
<1> QED BY <1>2, <1>3, <1>5, <1>6

(* The first entry that fits is the one whose code comes: no entry before  *)
(* it has a code that is a beginning of it or goes on after it.            *)
LEMMA FirstFits ==
    ASSUME lastch \in DOMAIN Table, window \in Seq(Bits),
           NEW ch, NEW code \in CodesFor(lastch, ch), IsPrefix(code, window)
    PROVE  /\ Fitting # {}
           /\ \A j \in Fitting : (\A k \in Fitting : j <= k) =>
                 Table[lastch][j].code = code /\ Table[lastch][j].next = ch
<1>1. PICK k \in DOMAIN Table[lastch] :
        /\ Table[lastch][k].next = ch /\ code = Table[lastch][k].code
        /\ \A h \in 1 .. k - 1 : ~Conflict(Table[lastch][h].code, Table[lastch][k].code)
  BY DEF CodesFor
<1>2. k \in Fitting
  BY <1>1 DEF Fitting
<1>3. ASSUME NEW j \in Fitting, j <= k PROVE j = k
  <2>1. j \in DOMAIN Table[lastch] /\ IsPrefix(Table[lastch][j].code, window)
    BY DEF Fitting
  <2>2. Table[lastch][j].code \in Seq(Bits) /\ code \in Seq(Bits)
        /\ DOMAIN Table[lastch] = 1 .. Len(Table[lastch]) /\ Len(Table[lastch]) \in Nat
    BY <1>1, <2>1, EntriesAreCodes
  <2>3. \/ IsPrefix(Table[lastch][j].code, code)
        \/ IsPrefix(code, Table[lastch][j].code)
    <3>1. PICK a : a = Table[lastch][j].code
      OBVIOUS
    <3>2. PICK visible : visible = window
      OBVIOUS
    <3>3. /\ Len(a) <= Len(visible) /\ \A n \in 1 .. Len(a) : a[n] = visible[n]
          /\ Len(code) <= Len(visible) /\ \A n \in 1 .. Len(code) : code[n] = visible[n]
      BY <2>1, <2>2, <3>1, <3>2, PrefixTells
    <3>4. Len(a) \in Nat /\ Len(code) \in Nat
      BY <2>2, <3>1
    <3>5. Len(a) <= Len(code) => IsPrefix(a, code)
      <4>1. Len(a) <= Len(code) => \A n \in 1 .. Len(a) : a[n] = code[n]
        BY <3>3, <3>4
      <4> QED BY <2>2, <3>1, <4>1, PrefixTells
    <3>6. Len(code) <= Len(a) => IsPrefix(code, a)
      <4>1. Len(code) <= Len(a) => \A n \in 1 .. Len(code) : code[n] = a[n]
        BY <3>3, <3>4
      <4> QED BY <2>2, <3>1, <4>1, PrefixTells
    <3> QED BY <3>1, <3>4, <3>5, <3>6
  <2>4. j \in 1 .. k - 1 => ~Conflict(Table[lastch][j].code, code)
    BY <1>1
  <2>5. j \notin 1 .. k - 1
    BY <2>3, <2>4 DEF Conflict
  <2> QED BY <1>1, <1>3, <2>1, <2>2, <2>5
<1> QED BY <1>1, <1>2, <1>3

(* Behind a code come the bits that came behind it before.                 *)
LEMMA AheadOfCode ==
    ASSUME shifted \in Nat, src \in Seq(Bits), NEW code \in Seq(Bits), NEW after \in Seq(Bits),
           Ahead(code \o after)
    PROVE  /\ Ahead(code)
           /\ shifted' = shifted + Len(code) /\ src' = src => Ahead(after)'
<1>1. /\ Len(code) \in Nat /\ Len(after) \in Nat /\ Len(src) \in Nat
      /\ Len(code \o after) = Len(code) + Len(after)
      /\ \A k \in 1 .. Len(code) : (code \o after)[k] = code[k]
      /\ \A k \in 1 .. Len(after) : (code \o after)[Len(code) + k] = after[k]
  OBVIOUS
<1>2. Ahead(code)
  BY <1>1 DEF Ahead
<1>3. /\ (shifted + Len(code)) + Len(after) <= Len(src)
      /\ \A k \in 1 .. Len(after) : after[k] = src[(shifted + Len(code)) + k]
  <2>1. ASSUME NEW k \in 1 .. Len(after) PROVE after[k] = src[(shifted + Len(code)) + k]
    <3>1. Len(code) + k \in 1 .. Len(code \o after) /\ shifted + (Len(code) + k) = (shifted + Len(code)) + k
      BY <1>1
    <3>2. (code \o after)[Len(code) + k] = src[shifted + (Len(code) + k)]
      BY <3>1 DEF Ahead
    <3> QED BY <1>1, <3>1, <3>2
  <2> QED BY <1>1, <2>1 DEF Ahead
<1>4. ASSUME shifted' = shifted + Len(code), src' = src PROVE Ahead(after)'
  <2>1. PICK at : at = shifted + Len(code)
    OBVIOUS
  <2>2. at + Len(after) <= Len(src) /\ \A k \in 1 .. Len(after) : after[k] = src[at + k]
    BY <1>3, <2>1
  <2> QED BY <1>4, <2>1, <2>2 DEF Ahead
<1> QED BY <1>2, <1>4

(* Whole bytes, and those begun.                                           *)
LEMMA WholeBytes ==
    ASSUME NEW n \in Nat, NEW b \in Nat \ {0}, n % b = 0
    PROVE  n \div b \in Nat /\ b * (n \div b) = n
OBVIOUS

(* Fewer bits than some whole bytes have begun fewer bytes.                *)
LEMMA BytesBegun ==
    ASSUME NEW n \in Nat, NEW b \in Nat \ {0}, NEW y \in Nat, n < b * y
    PROVE  n \div b \in Nat /\ n \div b < y
OBVIOUS

(* As long as there are bits of the text behind those shifted out, the     *)
(* counter of the bytes has not reached its limit.                         *)
LEMMA NotAtTheEnd ==
    ASSUME src \in Seq(Bits), Len(src) % ByteBits = 0, src' = src,
           shifted' \in Nat, shifted' < Len(src)
    PROVE  More
<1>1. ByteBits \in Nat \ {0} /\ Len(src) \in Nat
  BY Marks
<1>2. PICK bytes : bytes = Len(src) \div ByteBits
  OBVIOUS
<1>3. PICK past : past = shifted' \div ByteBits
  OBVIOUS
<1>4. bytes \in Nat /\ ByteBits * bytes = Len(src)
  BY <1>1, <1>2, WholeBytes
<1>5. past \in Nat /\ past < bytes
  BY <1>1, <1>3, <1>4, BytesBegun
<1>6. size = 2 + bytes /\ byte' = (IF 2 + bytes < 6 THEN 2 + bytes ELSE 6) + past
  BY <1>2, <1>3 DEF size, byte
<1> QED BY <1>4, <1>5, <1>6 DEF More

-----------------------------------------------------------------------------
(* A text that was encoded is decoded, or what is left of it is encoded in *)
(* the bits ahead.                                                         *)
Decoded(text) ==
    \/ /\ stage = "decoding"
       /\ \E rest \in Texts : /\ text = uncompressed \o rest
                              /\ \E w \in Encodings[rest][lastch] : Ahead(w)
    \/ stage = "decoded" /\ uncompressed = Append(text, STOP)

(* How long the text may be: the terminator alone has no room of its own.  *)
Bound == IF stage = "decoded" THEN alloc_size + 1 ELSE alloc_size

FreesatInv ==
    /\ stage \in {"called", "decoding", "decoded", "missing"}
    /\ src \in Seq(Bits) /\ Len(src) % ByteBits = 0 /\ shifted \in Nat
    /\ lastch \in DOMAIN Table \cup {ESCAPE}
    /\ uncompressed \in Seq(Int) /\ alloc_size \in Nat /\ Len(uncompressed) <= Bound
    /\ stage = "called" => shifted = 0 /\ lastch = START /\ uncompressed = <<>>
    /\ stage # "called" => \A said \in Encoded : IsPrefix(said.bits, src) => Decoded(said.text)

(* The invariant holds before the call.                                    *)
LEMMA FreesatInvInit == FreesatInit => FreesatInv
<1> SUFFICES ASSUME FreesatInit PROVE FreesatInv
  OBVIOUS
<1>1. ByteBits \in Nat \ {0} /\ START \in DOMAIN Table
  BY Marks
<1>2. 0 % ByteBits = 0
  BY <1>1
<1> QED BY <1>1, <1>2 DEF FreesatInit, FreesatInv, Bound

(* At the beginning all of an encoded text is ahead.                       *)
LEMMA FreesatBegins == FreesatInv /\ freesat_huffman_to_string => FreesatInv'
<1> SUFFICES ASSUME FreesatInv, freesat_huffman_to_string PROVE FreesatInv'
  OBVIOUS
<1>1. /\ stage' = "decoding" /\ src' \in Seq(Bits) /\ Len(src') % ByteBits = 0
      /\ shifted' = 0 /\ lastch' = START /\ uncompressed' = <<>>
      /\ alloc_size' = size' * AllocMult + 1
  BY FreesatAssumption DEF freesat_huffman_to_string, FreesatInv
<1>2. alloc_size' \in Nat
  <2>1. ByteBits \in Nat \ {0} /\ Len(src') \in Nat /\ AllocMult \in Nat
    BY <1>1, FreesatAssumption
  <2>2. size' \in Nat
    <3>1. Len(src') \div ByteBits \in Nat
      BY <1>1, <2>1, WholeBytes
    <3> QED BY <3>1 DEF size
  <2>3. \A n \in Nat : n * AllocMult + 1 \in Nat
    BY <2>1
  <2> QED BY <1>1, <2>2, <2>3
<1>3. ASSUME NEW said \in Encoded, IsPrefix(said.bits, src') PROVE Decoded(said.text)'
  <2>1. PICK text \in Texts : \E bits \in Encodings[text][START] : said = [text |-> text, bits |-> bits]
    BY DEF Encoded
  <2>2. PICK bits \in Encodings[text][START] : said = [text |-> text, bits |-> bits]
    BY <2>1
  <2>3. bits \in Seq(Bits) /\ Len(bits) \in Nat /\ text \in Seq(Characters)
    BY WaysAreBits, Marks, RestOfText
  <2>4. Ahead(bits)'
    <3>1. PICK payload \in Seq(Bits) : payload = src'
      BY <1>1
    <3>2. Len(bits) <= Len(payload) /\ \A k \in 1 .. Len(bits) : bits[k] = payload[k]
      BY <1>3, <2>2, <2>3, <3>1, PrefixTells
    <3> QED BY <1>1, <2>3, <3>1, <3>2 DEF Ahead
  <2>5. text = <<>> \o text
    BY <2>3
  <2> QED BY <1>1, <2>2, <2>4, <2>5 DEF Decoded
<1>4. START \in DOMAIN Table
  BY Marks
<1> QED BY <1>1, <1>2, <1>3, <1>4 DEF FreesatInv, Bound

(* What every turn of the loop does to the buffer and the position.        *)
LEMMA TakenTypes ==
    ASSUME FreesatInv, stage = "decoding",
           NEW entry, Take(entry), entry.next \in Int, Len(entry.code) \in Nat
    PROVE  /\ src' = src /\ shifted' = shifted + Len(entry.code) /\ shifted' \in Nat
           /\ uncompressed' \in Seq(Int) /\ alloc_size' \in Nat /\ Len(uncompressed') <= Bound'
           /\ stage' = IF lastch' # STOP /\ More THEN "decoding" ELSE "decoded"
           /\ uncompressed' = IF stage' = "decoding" THEN Stored(entry.next)
                              ELSE Append(Stored(entry.next), STOP)
<1> DEFINE text == Stored(entry.next)
<1>1. /\ src' = src /\ shifted' = shifted + Len(entry.code) /\ shifted' \in Nat
      /\ stage' = IF lastch' # STOP /\ More THEN "decoding" ELSE "decoded"
      /\ uncompressed' = IF stage' = "decoding" THEN text ELSE Append(text, STOP)
      /\ alloc_size' = IF entry.next \notin {STOP, ESCAPE} /\ Len(uncompressed) >= alloc_size
                       THEN alloc_size + AllocIncr ELSE alloc_size
  BY DEF Take, Continue, FreesatInv
<1>2. /\ uncompressed \in Seq(Int) /\ alloc_size \in Nat /\ Len(uncompressed) <= alloc_size
      /\ AllocIncr \in Nat \ {0}
  BY FreesatAssumption DEF FreesatInv, Bound
<1>3. text \in Seq(Int) /\ Len(text) <= alloc_size' /\ alloc_size' \in Nat
  <2>1. CASE entry.next \in {STOP, ESCAPE}
    BY <1>1, <1>2, <2>1 DEF Stored
  <2>2. CASE entry.next \notin {STOP, ESCAPE}
    <3>1. text \in Seq(Int) /\ Len(text) = Len(uncompressed) + 1 /\ Len(uncompressed) \in Nat
      BY <1>2, <2>2 DEF Stored
    <3> HIDE DEF text
    <3> QED BY <1>1, <1>2, <2>2, <3>1
  <2> QED BY <2>1, <2>2
<1> HIDE DEF text
<1>4. Append(text, STOP) \in Seq(Int) /\ Len(Append(text, STOP)) = Len(text) + 1 /\ Len(text) \in Nat
  BY <1>3 DEF STOP
<1>5. uncompressed' \in Seq(Int) /\ Len(uncompressed') <= Bound'
  BY <1>1, <1>3, <1>4 DEF Bound
<1> QED BY <1>1, <1>3, <1>5 DEF text

(* A turn in the middle of an encoded text leaves less of it.              *)
LEMMA GoesOn ==
    ASSUME FreesatInv, stage = "decoding",
           NEW entry, Take(entry), entry.next \in Int, entry.code \in Seq(Bits),
           lastch' \in DOMAIN Table \cup {ESCAPE}, lastch' # STOP,
           NEW rest \in Texts, NEW after \in Encodings[rest][lastch'], Ahead(entry.code \o after),
           NEW text, text = Stored(entry.next) \o rest
    PROVE  Decoded(text)'
<1>1. PICK final : final = lastch'
  OBVIOUS
<1>2. after \in Seq(Bits) /\ Len(after) \in Nat /\ Len(after) > 0
  BY <1>1, WaysAreBits
<1>3. /\ src' = src /\ shifted' = shifted + Len(entry.code) /\ shifted' \in Nat
      /\ stage' = IF lastch' # STOP /\ More THEN "decoding" ELSE "decoded"
      /\ uncompressed' = IF stage' = "decoding" THEN Stored(entry.next)
                         ELSE Append(Stored(entry.next), STOP)
  BY TakenTypes
<1>4. Ahead(after)'
  BY <1>2, <1>3, AheadOfCode DEF FreesatInv
<1>5. shifted' < Len(src)
  BY <1>2, <1>3, <1>4 DEF Ahead, FreesatInv
<1>6. More
  BY <1>3, <1>5, NotAtTheEnd DEF FreesatInv
<1> QED BY <1>1, <1>3, <1>4, <1>6 DEF Decoded

(* The last turn leaves nothing.                                           *)
LEMMA ComesToTheEnd ==
    ASSUME FreesatInv, stage = "decoding",
           NEW entry, Take(entry), entry.next = STOP, Len(entry.code) \in Nat,
           lastch' = STOP, NEW text, text = uncompressed \o <<>>
    PROVE  Decoded(text)'
<1>1. entry.next \in Int
  BY DEF STOP
<1>2. uncompressed' = Append(uncompressed, STOP) /\ stage' = "decoded"
  BY <1>1, TakenTypes DEF Stored
<1>3. uncompressed \o <<>> = uncompressed
  BY DEF FreesatInv
<1> QED BY <1>2, <1>3 DEF Decoded

(* The next character moves from the rest to the text.                     *)
LEMMA OneCharacter ==
    ASSUME NEW u \in Seq(Int), NEW rest \in Seq(Characters), rest # <<>>
    PROVE  u \o rest = Append(u, Head(rest)) \o Tail(rest)
<1>1. rest \in Seq(Int)
  BY Marks
<1> QED BY <1>1

(* The number of some bits is a number.                                    *)
LEMMA NumberIsInt ==
    ASSUME NEW bits \in Seq(Bits)
    PROVE  Number(bits) \in Int
<1>1. PICK length \in Nat : length = Len(bits)
  OBVIOUS
<1>2. PICK g : /\ g[0] = 0 /\ \A n \in 1 .. length : g[n] = 2 * g[n - 1] + bits[n]
               /\ Number(bits) = g[length]
  BY <1>1, NumberRuns
<1> DEFINE T == {n \in 0 .. length : g[n] \in Int}
<1>3. 0 \in T
  BY <1>2
<1>4. ASSUME NEW n \in 0 .. length - 1, n \in T PROVE n + 1 \in T
  <2>1. n + 1 \in 1 .. length /\ n + 1 \in 0 .. length /\ (n + 1) - 1 = n
    OBVIOUS
  <2>2. g[n + 1] = 2 * g[n] + bits[n + 1] /\ bits[n + 1] \in Int
    BY <1>1, <1>2, <2>1 DEF Bits
  <2>3. g[n] \in Int
    BY <1>4
  <2> QED BY <2>1, <2>2, <2>3
<1> HIDE DEF T
<1>5. \A n \in 0 .. length : n \in T
  BY <1>3, <1>4, UpTo, Zenon
<1>6. length \in T
  BY <1>5
<1> QED BY <1>2, <1>6 DEF T

(* What is read behind an escape is eight bits and their number; the       *)
(* character after it decides whether more of them follow.                 *)
LEMMA EscapedTypes ==
    ASSUME FreesatInv
    PROVE  /\ Escaped.code = SubSeq(window, 1, ByteBits)
           /\ Escaped.code \in Seq(Bits) /\ Len(Escaped.code) = ByteBits
           /\ Escaped.next \in Int
           /\ Escaped.next = IF Number(Escaped.code) \in Controls THEN STOP ELSE Number(Escaped.code)
           /\ AfterEscaped(Escaped.next) \in DOMAIN Table \cup {ESCAPE}
<1>1. ByteBits \in Nat /\ ByteBits > 2
  BY Marks
<1>2. PICK visible : visible = window
  OBVIOUS
<1>3. visible \in Seq(Bits) /\ Len(visible) = 4 * ByteBits
  BY <1>2, WindowIsBits DEF FreesatInv
<1>4. PICK code : code = SubSeq(visible, 1, ByteBits)
  OBVIOUS
<1>5. code \in Seq(Bits)
  BY <1>1, <1>3, <1>4
<1>6. Len(code) = ByteBits
  BY <1>1, <1>3, <1>4
<1>7. Number(code) \in Int
  BY <1>5, NumberIsInt
<1>8. Escaped.code = code
      /\ Escaped.next = IF Number(code) \in Controls THEN STOP ELSE Number(code)
  BY <1>2, <1>4 DEF Escaped
<1>9. Escaped.next \in Int /\ (Escaped.next \in Ascii => Escaped.next = STOP \/ Escaped.next \in Ascii \ Controls)
  BY <1>7, <1>8 DEF STOP
<1>10. AfterEscaped(Escaped.next) \in DOMAIN Table \cup {ESCAPE}
  <2>1. STOP \in DOMAIN Table
    BY Marks DEF START, STOP
  <2> QED BY <1>9, <2>1, Marks DEF AfterEscaped
<1> QED BY <1>2, <1>4, <1>5, <1>6, <1>8, <1>9, <1>10

(* A character behind the escape is read as it was written.                *)
LEMMA EscapedReads ==
    ASSUME FreesatInv, NEW ch \in Nat, ch < TwoTo[ByteBits], Ahead(Raw(ch))
    PROVE  /\ Escaped.code = Raw(ch)
           /\ Escaped.next = IF ch \in Controls THEN STOP ELSE ch
<1>1. Raw(ch) \in Seq(Bits) /\ Len(Raw(ch)) = ByteBits /\ Number(Raw(ch)) = ch
  BY ReadsWhatIsWritten
<1>2. ByteBits \in 0 .. 4 * ByteBits
  BY Marks
<1>3. SubSeq(window, 1, ByteBits) = Raw(ch)
  BY <1>1, <1>2, WindowShows DEF FreesatInv
<1> QED BY <1>1, <1>3, EscapedTypes

(* If each text decoded so far stays so, so does what the invariant says   *)
(* of payloads.                                                            *)
LEMMA StillDecoded ==
    ASSUME FreesatInv, stage = "decoding", src' = src,
           \A text : Decoded(text) => Decoded(text)'
    PROVE  \A said \in Encoded : IsPrefix(said.bits, src') => Decoded(said.text)'
<1>1. \A said \in Encoded : IsPrefix(said.bits, src) => Decoded(said.text)
  BY DEF FreesatInv
<1> SUFFICES ASSUME NEW said \in Encoded, IsPrefix(said.bits, src') PROVE Decoded(said.text)'
  OBVIOUS
<1>2. PICK text : text = said.text
  OBVIOUS
<1>3. IsPrefix(said.bits, src)
  BY Zenon
<1>4. Decoded(text)
  BY <1>1, <1>2, <1>3
<1>5. Decoded(text)'
  BY <1>4
<1> QED BY <1>2, <1>5

(* A turn behind an escape.                                                *)
LEMMA FreesatEscaped == FreesatInv /\ DecodeEscaped => FreesatInv'
<1> SUFFICES ASSUME FreesatInv, DecodeEscaped PROVE FreesatInv'
  OBVIOUS
<1>1. stage = "decoding" /\ lastch = ESCAPE /\ lastch' = AfterEscaped(Escaped.next) /\ Take(Escaped)
  BY DEF DecodeEscaped
<1>2. PICK entry : entry = Escaped
  OBVIOUS
<1>3. /\ entry.code \in Seq(Bits) /\ Len(entry.code) \in Nat /\ entry.next \in Int
      /\ lastch' \in DOMAIN Table \cup {ESCAPE}
  BY <1>1, <1>2, EscapedTypes, Marks
<1>4. Take(entry) /\ lastch' = AfterEscaped(entry.next)
  BY <1>1, <1>2
<1>5. /\ src' = src /\ shifted' \in Nat
      /\ uncompressed' \in Seq(Int) /\ alloc_size' \in Nat /\ Len(uncompressed') <= Bound'
      /\ stage' \in {"decoding", "decoded"}
  BY <1>1, <1>3, <1>4, TakenTypes
<1>6. ASSUME NEW text, Decoded(text) PROVE Decoded(text)'
  <2>1. PICK rest \in Texts : text = uncompressed \o rest /\ \E w \in Encodings[rest][ESCAPE] : Ahead(w)
    BY <1>1, <1>6 DEF Decoded
  <2>2. PICK w \in Encodings[rest][ESCAPE] : Ahead(w)
    BY <2>1
  <2>3. CASE rest = <<>>
    <3>1. PICK ch \in Controls : w = Raw(ch)
      BY <2>3, NextWay
    <3>2. ch \in Nat /\ ch < TwoTo[ByteBits]
      BY Marks
    <3>3. entry.next = STOP
      BY <1>2, <2>2, <3>1, <3>2, EscapedReads
    <3>4. lastch' = STOP
      BY <1>4, <3>3, Marks DEF AfterEscaped
    <3> QED BY <1>1, <1>3, <1>4, <2>1, <2>3, <3>3, <3>4, ComesToTheEnd
  <2>4. CASE rest # <<>>
    <3>1. /\ Head(rest) \in Characters /\ Tail(rest) \in Texts /\ rest \in Seq(Characters)
          /\ AfterEscaped(Head(rest)) \in DOMAIN Table \cup {ESCAPE}
      BY <2>4, RestOfText
    <3>2. PICK after \in Encodings[Tail(rest)][AfterEscaped(Head(rest))] : w = Raw(Head(rest)) \o after
      BY <2>4, NextWay
    <3>3. PICK ch : ch = Head(rest)
      OBVIOUS
    <3>4. ch \in Nat /\ ch < TwoTo[ByteBits] /\ ch \notin Controls /\ ch \notin {STOP, ESCAPE}
      BY <3>1, <3>3, Marks
    <3>5. Raw(ch) \in Seq(Bits) /\ after \in Seq(Bits)
      <4>1. Raw(ch) \in Seq(Bits)
        BY <3>4, ReadsWhatIsWritten
      <4>2. after \in Seq(Bits)
        BY <3>1, <3>2, WaysAreBits
      <4> QED BY <4>1, <4>2
    <3>6. Ahead(Raw(ch))
      BY <2>2, <3>2, <3>3, <3>5, AheadOfCode DEF FreesatInv
    <3>7. entry.code = Raw(ch) /\ entry.next = ch
      BY <1>2, <3>4, <3>6, EscapedReads
    <3>8. lastch' = AfterEscaped(ch) /\ lastch' # STOP
      BY <1>4, <3>4, <3>7 DEF AfterEscaped, ESCAPE, STOP
    <3>9. Stored(entry.next) = Append(uncompressed, ch)
      BY <3>4, <3>7 DEF Stored
    <3>10. text = Stored(entry.next) \o Tail(rest)
      <4>1. uncompressed \o rest = Append(uncompressed, Head(rest)) \o Tail(rest)
        BY <2>4, <3>1, OneCharacter DEF FreesatInv
      <4> QED BY <2>1, <3>3, <3>9, <4>1
    <3>11. after \in Encodings[Tail(rest)][lastch'] /\ Ahead(entry.code \o after)
      BY <2>2, <3>2, <3>3, <3>7, <3>8
    <3> QED BY <1>1, <1>3, <1>4, <3>1, <3>8, <3>10, <3>11, GoesOn
  <2> QED BY <2>3, <2>4
<1>7. \A said \in Encoded : IsPrefix(said.bits, src') => Decoded(said.text)'
  BY <1>1, <1>5, <1>6, StillDecoded
<1>8. src' \in Seq(Bits) /\ Len(src') % ByteBits = 0
  BY <1>5 DEF FreesatInv
<1> QED BY <1>3, <1>5, <1>7, <1>8 DEF FreesatInv

(* A turn with a code of the table.                                        *)
LEMMA FreesatCharacter == FreesatInv /\ DecodeCharacter => FreesatInv'
<1> SUFFICES ASSUME FreesatInv, DecodeCharacter PROVE FreesatInv'
  OBVIOUS
<1>1. stage = "decoding" /\ lastch # ESCAPE /\ lastch \in DOMAIN Table
  BY DEF DecodeCharacter, FreesatInv
<1>2. PICK j \in Fitting : /\ \A k \in Fitting : j <= k
                           /\ lastch' = Table[lastch][j].next /\ Take(Table[lastch][j])
  BY DEF DecodeCharacter
<1>3. PICK entry : entry = Table[lastch][j]
  OBVIOUS
<1>4. /\ entry.code \in Seq(Bits) /\ Len(entry.code) \in Nat /\ Len(entry.code) \in 0 .. 4 * ByteBits
      /\ entry.next \in DOMAIN Table \cup {ESCAPE} /\ entry.next \in Int
  <2>1. j \in DOMAIN Table[lastch]
    BY DEF Fitting
  <2>2. entry.code \in Seq(Bits) /\ Len(entry.code) \in 1 .. 4 * ByteBits
        /\ entry.next \in DOMAIN Table \cup {ESCAPE}
    BY <1>1, <1>3, <2>1, EntriesAreCodes
  <2> QED BY <2>2, Marks DEF ESCAPE
<1>5. Take(entry) /\ lastch' = entry.next
  BY <1>2, <1>3
<1>6. /\ src' = src /\ shifted' \in Nat
      /\ uncompressed' \in Seq(Int) /\ alloc_size' \in Nat /\ Len(uncompressed') <= Bound'
      /\ stage' \in {"decoding", "decoded"}
  BY <1>1, <1>4, <1>5, TakenTypes
<1>7. ASSUME NEW ch, NEW code \in CodesFor(lastch, ch), Ahead(code)
      PROVE  entry.code = code /\ entry.next = ch
  <2>1. code \in Seq(Bits) /\ Len(code) \in 0 .. 4 * ByteBits
    BY <1>1, CodesAreShort, Marks
  <2>2. IsPrefix(code, window) /\ window \in Seq(Bits)
    BY <1>7, <2>1, WindowShows, WindowIsBits DEF FreesatInv
  <2> QED BY <1>1, <1>2, <1>3, <2>2, FirstFits
<1>8. ASSUME NEW text, Decoded(text) PROVE Decoded(text)'
  <2>1. PICK rest \in Texts : text = uncompressed \o rest /\ \E w \in Encodings[rest][lastch] : Ahead(w)
    BY <1>1, <1>8 DEF Decoded
  <2>2. PICK w \in Encodings[rest][lastch] : Ahead(w)
    BY <2>1
  <2>3. ASSUME NEW code \in CodesFor(lastch, ESCAPE), NEW after \in Encodings[rest][ESCAPE], w = code \o after
        PROVE  Decoded(text)'
    <3>1. code \in Seq(Bits) /\ after \in Seq(Bits)
      BY <1>1, CodesAreShort, WaysAreBits
    <3>2. Ahead(code)
      BY <2>2, <2>3, <3>1, AheadOfCode DEF FreesatInv
    <3>3. entry.code = code /\ entry.next = ESCAPE
      BY <1>7, <3>2
    <3>4. Stored(entry.next) = uncompressed /\ lastch' = ESCAPE /\ lastch' # STOP
      BY <1>5, <3>3 DEF ESCAPE, STOP, Stored
    <3>5. /\ after \in Encodings[rest][lastch'] /\ Ahead(entry.code \o after)
          /\ text = Stored(entry.next) \o rest
      BY <2>1, <2>2, <2>3, <3>3, <3>4
    <3>6. lastch' \in DOMAIN Table \cup {ESCAPE}
      BY <3>4
    <3> QED BY <1>1, <1>4, <1>5, <3>4, <3>5, <3>6, GoesOn
  <2>4. ASSUME rest = <<>>, w \in CodesFor(lastch, STOP)
        PROVE  Decoded(text)'
    <3>1. entry.next = STOP /\ lastch' = STOP
      BY <1>5, <1>7, <2>2, <2>4
    <3> QED BY <1>1, <1>4, <1>5, <2>1, <2>4, <3>1, ComesToTheEnd
  <2>5. ASSUME rest # <<>>, Head(rest) \in DOMAIN Table,
               NEW code \in CodesFor(lastch, Head(rest)),
               NEW after \in Encodings[Tail(rest)][Head(rest)], w = code \o after
        PROVE  Decoded(text)'
    <3>1. Head(rest) \in Characters /\ Tail(rest) \in Texts /\ rest \in Seq(Characters)
      BY <2>5, RestOfText
    <3>2. code \in Seq(Bits) /\ after \in Seq(Bits)
      BY <1>1, <2>5, <3>1, CodesAreShort, WaysAreBits
    <3>3. Ahead(code)
      BY <2>2, <2>5, <3>2, AheadOfCode DEF FreesatInv
    <3>4. PICK ch : ch = Head(rest)
      OBVIOUS
    <3>5. entry.code = code /\ entry.next = ch
      BY <1>7, <3>3, <3>4
    <3>6. ch \notin {STOP, ESCAPE} /\ ch \in DOMAIN Table
      BY <2>5, <3>1, <3>4, Marks
    <3>7. Stored(entry.next) = Append(uncompressed, ch) /\ lastch' = ch /\ lastch' # STOP
      BY <1>5, <3>5, <3>6 DEF Stored
    <3>8. text = Stored(entry.next) \o Tail(rest)
      <4>1. uncompressed \o rest = Append(uncompressed, Head(rest)) \o Tail(rest)
        BY <2>5, <3>1, OneCharacter DEF FreesatInv
      <4> QED BY <2>1, <3>4, <3>7, <4>1
    <3>9. after \in Encodings[Tail(rest)][lastch'] /\ Ahead(entry.code \o after)
      BY <2>2, <2>5, <3>4, <3>5, <3>7
    <3>10. lastch' \in DOMAIN Table \cup {ESCAPE}
      BY <3>6, <3>7
    <3> QED BY <1>1, <1>4, <1>5, <3>1, <3>7, <3>8, <3>9, <3>10, GoesOn
  <2>6. CodeFirst(rest, lastch, w)
    BY <1>1, NextWay
  <2> QED BY <2>3, <2>4, <2>5, <2>6 DEF CodeFirst
<1>9. \A said \in Encoded : IsPrefix(said.bits, src') => Decoded(said.text)'
  BY <1>1, <1>6, <1>8, StillDecoded
<1>10. src' \in Seq(Bits) /\ Len(src') % ByteBits = 0
  BY <1>6 DEF FreesatInv
<1> QED BY <1>4, <1>5, <1>6, <1>9, <1>10 DEF FreesatInv

(* An encoded text that is not at its end has a code that fits.            *)
LEMMA FreesatMissing == FreesatInv /\ EntryMissing => FreesatInv'
<1> SUFFICES ASSUME FreesatInv, EntryMissing PROVE FreesatInv'
  OBVIOUS
<1>1. stage = "decoding" /\ lastch # ESCAPE /\ lastch \in DOMAIN Table /\ Fitting = {}
  BY DEF EntryMissing, FreesatInv
<1>2. ASSUME NEW ch, NEW code \in CodesFor(lastch, ch), Ahead(code) PROVE FALSE
  <2>1. code \in Seq(Bits) /\ Len(code) \in 0 .. 4 * ByteBits
    BY <1>1, CodesAreShort, Marks
  <2>2. IsPrefix(code, window) /\ window \in Seq(Bits)
    BY <1>2, <2>1, WindowShows, WindowIsBits DEF FreesatInv
  <2> QED BY <1>1, <2>2, FirstFits
<1>3. ASSUME NEW text, Decoded(text) PROVE FALSE
  <2>1. PICK rest \in Texts : text = uncompressed \o rest /\ \E w \in Encodings[rest][lastch] : Ahead(w)
    BY <1>1, <1>3 DEF Decoded
  <2>2. PICK w \in Encodings[rest][lastch] : Ahead(w)
    BY <2>1
  <2>3. ASSUME NEW ch, NEW code \in CodesFor(lastch, ch), NEW after \in Seq(Bits), w = code \o after
        PROVE  FALSE
    <3>1. code \in Seq(Bits)
      BY <1>1, CodesAreShort
    <3>2. Ahead(code)
      BY <2>2, <2>3, <3>1, AheadOfCode DEF FreesatInv
    <3> QED BY <1>2, <3>2
  <2>4. ASSUME NEW code \in CodesFor(lastch, ESCAPE), NEW after \in Encodings[rest][ESCAPE], w = code \o after
        PROVE  FALSE
    <3>1. after \in Seq(Bits)
      BY WaysAreBits
    <3> QED BY <2>3, <2>4, <3>1
  <2>5. ASSUME rest # <<>>, Head(rest) \in DOMAIN Table,
               NEW code \in CodesFor(lastch, Head(rest)),
               NEW after \in Encodings[Tail(rest)][Head(rest)], w = code \o after
        PROVE  FALSE
    <3>1. Tail(rest) \in Texts
      BY <2>5, RestOfText
    <3>2. after \in Seq(Bits)
      BY <2>5, <3>1, WaysAreBits
    <3> QED BY <2>3, <2>5, <3>2
  <2>6. CodeFirst(rest, lastch, w)
    BY <1>1, NextWay
  <2> QED BY <1>2, <2>2, <2>4, <2>5, <2>6 DEF CodeFirst
<1>4. stage' = "missing" /\ src' = src /\ shifted' = shifted /\ lastch' = lastch
      /\ uncompressed' = uncompressed /\ alloc_size' = alloc_size
  BY DEF EntryMissing
<1>5. \A said \in Encoded : IsPrefix(said.bits, src') => Decoded(said.text)'
  BY <1>1, <1>3, <1>4, StillDecoded
<1> QED BY <1>1, <1>4, <1>5 DEF FreesatInv, Bound

(* No step breaks the invariant.                                           *)
LEMMA FreesatInvInductive == FreesatInv /\ [FreesatNext]_freesatVars => FreesatInv'
<1>1. ASSUME FreesatInv, UNCHANGED freesatVars PROVE FreesatInv'
  <2>1. /\ stage' = stage /\ src' = src /\ shifted' = shifted /\ lastch' = lastch
        /\ uncompressed' = uncompressed /\ alloc_size' = alloc_size
    BY <1>1 DEF freesatVars
  <2> QED BY <1>1, <2>1 DEF FreesatInv, Bound, Decoded, Ahead
<1> QED BY <1>1, FreesatBegins, FreesatEscaped, FreesatCharacter, FreesatMissing DEF FreesatNext

(* The text a payload begins with is the text that is stored, terminated,  *)
(* for every table of codes and every length: a code is found in the       *)
(* window before any other, the counter of bytes cannot end the loop       *)
(* before the last bit of an encoded text, and what was written behind an  *)
(* escape is read back. The characters never outgrow the buffer; with the  *)
(* terminator, for which freesat_huffman_to_string adds no space, they may *)
(* by its one byte.                                                        *)
THEOREM FreesatTextsAreExact == FreesatSpec => []FreesatTextIsExact
<1>1. FreesatInv => FreesatTextIsExact
  <2> SUFFICES ASSUME FreesatInv PROVE FreesatTextIsExact
    OBVIOUS
  <2>1. Len(uncompressed) <= (IF stage = "decoded" THEN alloc_size + 1 ELSE alloc_size)
    BY DEF FreesatInv, Bound
  <2>2. ASSUME stage \in {"decoded", "missing"}, NEW said \in Encoded, IsPrefix(said.bits, src)
        PROVE  stage = "decoded" /\ uncompressed = Append(said.text, STOP)
    <3>1. stage # "called" /\ stage # "decoding"
      BY <2>2
    <3>2. Decoded(said.text)
      BY <2>2, <3>1 DEF FreesatInv
    <3> QED BY <3>1, <3>2 DEF Decoded
  <2> QED BY <2>1, <2>2 DEF FreesatTextIsExact
<1> QED BY <1>1, FreesatInvInit, FreesatInvInductive, PTL DEF FreesatSpec
=============================================================================
