------------------------------- MODULE DvbEit -------------------------------
(***************************************************************************)
(* How the DVB and Freesat grabber turns Event Information Table sections  *)
(* into programmes: parseEIT, with the list of events it has already seen. *)
(*                                                                         *)
(* Sections are broadcast over and over, by several tables (present and    *)
(* following, schedule) that share event identifiers; the list is what     *)
(* keeps a programme from being written again, and, because a new event    *)
(* refreshes the deadline, what lets the grab end at all.                  *)
(***************************************************************************)
EXTENDS Integers, Sequences, FiniteSets

CONSTANTS
    EitSections,     \* the sections on the air
    UpdateModes,     \* the values of ignore_updates considered (TRUE; -u: FALSE)
    IgnoreBadDates   \* ignore_bad_dates (default; -I clears it)

(***************************************************************************)
(* A section is a record                                                   *)
(*   sid      the service                                                  *)
(*   ver      the version of the table                                     *)
(*   events   the sequence of event listings in it, each a record          *)
(*              eid      the event                                         *)
(*              filled   it has descriptors                                *)
(*              ends     "past": before this time yesterday; "far": more   *)
(*                       than two weeks from today; or "near"              *)
(*              titled   it has a title                                    *)
(*              wanted   it starts in the period asked for, and its        *)
(*                       service has an XMLTV identifier                   *)
(***************************************************************************)
ASSUME EitAssumption ==
    /\ \A s \in EitSections : s.ver \in 0 .. 31 /\ Len(s.events) \in Nat
    /\ UpdateModes \subseteq BOOLEAN /\ IgnoreBadDates \in BOOLEAN

VARIABLES
    ignoreUpdates,  \* ignore_updates
    seen,       \* channels: the version under which an event was last seen
    shown,      \* how often an event was written in a version
    handled     \* history: what became of the listings of the last section

eitVars == <<ignoreUpdates, seen, shown, handled>>

Fate == {"dropped", "skipped", "forgotten", "shown", "not wanted", "never reached"}

EitInit ==
    /\ ignoreUpdates \in UpdateModes
    /\ seen = <<>>
    /\ shown = <<>>
    /\ handled = [section |-> {}, before |-> <<>>, fate |-> <<>>]

With(f, key, value) == [k \in DOMAIN f \cup {key} |-> IF k = key THEN value ELSE f[k]]
CountOf(f, key)     == IF key \in DOMAIN f THEN f[key] ELSE 0

(* Mutant: any other version than the last one is new.                     *)
SameVersion(t, s, key) == key \in DOMAIN t.seen /\ t.seen[key] = s.ver

(* The event was seen in this version or in a smaller one.                 *)
Old(t, s, key) == key \in DOMAIN t.seen /\ t.seen[key] <= s.ver

(* Mutant: an event is not entered in the list.                            *)
Unrecorded(t, s, key) == t.seen

Recorded(t, s, key) == With(t.seen, key, s.ver)

(* One turn of the loop over the listings.  `open' says whether the loop   *)
(* goes on; every way of not writing a listing, but being outside the      *)
(* period asked for, leaves the function.                                  *)
Listing(t, s, e) ==
    LET key     == <<s.sid, e.eid>>
        old     == Old(t, s, key)
        quiet   == key \in DOMAIN t.seen /\ ignoreUpdates
        past    == e.ends = "past" /\ IgnoreBadDates
        reason  == CASE old -> "dropped"
                     [] ~old /\ (quiet \/ ~e.filled) -> "skipped"
                     [] ~old /\ ~quiet /\ e.filled /\ (past \/ ~e.titled) -> "forgotten"
                     [] OTHER -> IF e.wanted THEN "shown" ELSE "not wanted"
        written == <<key, s.ver>>
    IN  [seen    |-> IF old THEN t.seen ELSE Recorded(t, s, key),
         shown   |-> IF reason = "shown"
                     THEN With(t.shown, written, CountOf(t.shown, written) + 1) ELSE t.shown,
         refresh |-> t.refresh \/ ~(old \/ quiet),
         fate    |-> Append(t.fate, reason),
         open    |-> reason \in {"shown", "not wanted"}]

ParseEIT(s) ==
    LET after[i \in 0 .. Len(s.events)] ==
          IF i = 0
          THEN [seen |-> seen, shown |-> shown, refresh |-> FALSE, fate |-> <<>>, open |-> TRUE]
          ELSE IF after[i - 1].open THEN Listing(after[i - 1], s, s.events[i])
          ELSE [after[i - 1] EXCEPT !.fate = Append(@, "never reached")]
    IN  after[Len(s.events)]

Parse(s) ==
    LET t == ParseEIT(s) IN
    /\ seen' = t.seen
    /\ shown' = t.shown
    /\ handled' = [section |-> {s}, before |-> seen, fate |-> t.fate]
    /\ UNCHANGED ignoreUpdates

EitNext == \E s \in EitSections : Parse(s)

EitSpec == EitInit /\ [][EitNext]_eitVars

-----------------------------------------------------------------------------
EitTypeOK ==
    /\ \A k \in DOMAIN seen : seen[k] \in 0 .. 31
    /\ \A w \in DOMAIN shown : w[1] \in DOMAIN seen /\ shown[w] \in Nat
    /\ \A i \in DOMAIN handled.fate : handled.fate[i] \in Fate

(* However often a section is repeated, whatever table repeats the event   *)
(* and in whatever order versions arrive, an event is written at most once *)
(* in a version, and only once when updates are ignored.                   *)
NoRepeats ==
    \A v, w \in DOMAIN shown :
        /\ shown[v] = 1
        /\ v[1] = w[1] /\ ignoreUpdates => v = w

(* The version kept for an event only falls.  So an event is processed a   *)
(* bounded number of times, and a carousel that never stops cannot refresh *)
(* the deadline for ever.                                                  *)
VersionsFall ==
    [][\A k \in DOMAIN seen : k \in DOMAIN seen' /\ seen'[k] <= seen[k]]_seen

(* "seen it before or its older": a listing is dropped only if it was seen *)
(* in the version it has now or in a newer one.                            *)
DroppedIsSeenOrOlder ==
    \A s \in handled.section : \A i \in DOMAIN s.events :
        handled.fate[i] = "dropped" =>
            LET key == <<s.sid, s.events[i].eid>> IN
            key \in DOMAIN handled.before => s.ver <= handled.before[key]
=============================================================================
