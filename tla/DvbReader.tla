----------------------------- MODULE DvbReader ------------------------------
(***************************************************************************)
(* The grab loop of the DVB and Freesat formats: openInput, cFilter (its   *)
(* filters, and a Poll that hands out one ready handle per call) and       *)
(* readEventTables, on top of the event handler of module DvbEit.          *)
(*                                                                         *)
(* The program reads a demultiplexer device, its standard input ("-"), or  *)
(* a file.  The demultiplexer, the clock and the standard input are the    *)
(* environment.                                                            *)
(***************************************************************************)
EXTENDS DvbEit

CONSTANTS
    Tables,       \* the filters added, in order: what each of them receives
    MaxActive,    \* MAX_ACTIVE_FILTERS2
    Timeout,      \* timeout (-t), in ticks of the clock
    MaxInput,     \* how many sections the standard input holds (bounds the model)
    Inputs        \* the kinds of input considered

(* What a filter receives: its pid.  Freesat has an event pid of its own.  *)
EventTables == {"EIT", "Freesat EIT"}
TableNames  == {"TDT", "SDT"} \cup EventTables

ASSUME ReaderAssumption ==
    /\ Tables \in Seq(TableNames)
    /\ MaxActive \in Nat \ {0} /\ Timeout \in Nat \ {0} /\ MaxInput \in Nat
    /\ Inputs \subseteq {"device", "stdin", "file"}

Filter == 1 .. Len(Tables)
Slot   == 1 .. MaxActive
None   == 0

VARIABLES
    input,      \* what the user named as input
    source,     \* what the loop reads, once openInput has returned
    phase,      \* where the thread is
    left,       \* ticks until finishTime
    nActive,    \* nActiveFilters
    step,       \* Filters[f].Step
    filterId,   \* ActiveFilters[s].FilterId; a slot is busy when it is set
    revents,    \* the slots whose revents hold POLLIN after the last poll
    pollIndex,  \* pollindex; None for -1
    slot,       \* the slot Poll returned
    pid,        \* the table of the pid Poll returned
    r,          \* the result of the last read
    buf,        \* the table of the section in the buffer
    demux,      \* kernel: the state of the filter set on the handle of a slot
    inbox,      \* kernel: what the next read of a slot returns
    inputLeft,  \* sections before the end of the standard input
    fresh,      \* history: the section in the buffer was not handled yet
    misparsed   \* history: a section was handled twice, or as another table

pollVars == <<nActive, step, filterId, revents, pollIndex, slot>>
kernel   == <<demux, inbox>>
readVars == <<pid, r, buf, fresh>>
vars     == <<eitVars, input, source, phase, left, pollVars, readVars, kernel,
              inputLeft, misparsed>>

TypeOK ==
    /\ EitTypeOK
    /\ input \in Inputs /\ source \in {"none", "device", "stdin"}
    /\ phase \in {"open", "top", "poll", "wait", "read", "handle", "done"}
    /\ left \in 0 .. Timeout
    /\ nActive \in 0 .. MaxActive
    /\ step \in [Filter -> {0, 1, 3}]
    /\ filterId \in [Slot -> Filter \cup {None}]
    /\ revents \subseteq Slot /\ pollIndex \in 0 .. MaxActive + 1
    /\ slot \in Slot \cup {None}
    /\ pid \in TableNames /\ buf \in {"junk"} \cup TableNames
    /\ r \in {"nothing", "valid", "damaged"}
    /\ demux \in [Slot -> {"off", "armed", "live", "expired"}]
    /\ inbox \in [Slot -> {"empty", "section", "timeout"}]
    /\ inputLeft \in 0 .. MaxInput
    /\ fresh \in BOOLEAN /\ misparsed \in BOOLEAN

Active == 1 .. nActive
Busy(s) == filterId[s] # None

Init ==
    /\ EitInit
    /\ input \in Inputs /\ source = "none" /\ phase = "open"
    /\ left = Timeout
    /\ nActive = 0
    /\ step = [f \in Filter |-> 0]
    /\ filterId = [s \in Slot |-> None]
    /\ revents = {} /\ pollIndex = None /\ slot = None
    /\ pid = "EIT" /\ r = "nothing" /\ buf = "junk" /\ fresh = FALSE
    /\ demux = [s \in Slot |-> "off"] /\ inbox = [s \in Slot |-> "empty"]
    /\ inputLeft \in 0 .. MaxInput
    /\ misparsed = FALSE

(***************************************************************************)
(* openInput and cFilter::Start.  A device is closed again and opened once *)
(* for each filter; the handles that could not be opened are left out.  A  *)
(* file is opened and closed, and the loop then reads the standard input.  *)
(***************************************************************************)
OpenDevice ==
    /\ phase = "open" /\ input = "device"
    /\ source' = "device"
    /\ \E n \in 0 .. Len(Tables) : n <= MaxActive /\ nActive' = n
    /\ phase' = "top"
    /\ UNCHANGED <<eitVars, input, left, step, filterId, revents, pollIndex, slot,
                   readVars, kernel, inputLeft, misparsed>>

OpenFileOrStdin ==
    /\ phase = "open" /\ input \in {"stdin", "file"}
    /\ source' = "stdin"
    /\ phase' = "top"
    /\ UNCHANGED <<eitVars, input, left, pollVars, readVars, kernel, inputLeft, misparsed>>

(* Mutant: the result of the last read is kept over a turn of the loop.    *)
KeepResult == UNCHANGED r

ClearResult == r' = "nothing"

(* The top of the loop: with filters, leave it after the deadline.         *)
CheckDeadline ==
    /\ phase = "top" /\ source = "device"
    /\ phase' = IF left = 0 THEN "done" ELSE "poll"
    /\ ClearResult /\ pid' = "EIT"
    /\ UNCHANGED <<eitVars, input, source, left, pollVars, buf, fresh, kernel,
                   inputLeft, misparsed>>

(***************************************************************************)
(* cFilter::Poll.  A call goes on with the slots that were found ready by  *)
(* an earlier one; only when all of them were handed out are filters       *)
(* assigned to free slots and the handles polled again.                    *)
(***************************************************************************)
Remaining == {s \in revents : pollIndex # None /\ pollIndex <= s}

(* Mutant: the index stays on the slot that was handed out.                *)
Same(s) == s

(* Where the next call goes on.                                            *)
After(s) == s + 1

Return(s) ==
    /\ slot' = s
    /\ pid' = Tables[filterId[s]]
    /\ pollIndex' = After(s)
    /\ phase' = "read"

ReturnNone ==
    /\ phase' = "handle"
    /\ pollIndex' = None
    /\ UNCHANGED <<slot, pid>>

FirstOf(S) == CHOOSE s \in S : \A t \in S : s <= t

PollResume ==
    /\ phase = "poll" /\ Remaining # {}
    /\ Return(FirstOf(Remaining))
    /\ UNCHANGED <<eitVars, input, source, left, nActive, step, filterId, revents, r, buf,
                   fresh, kernel, inputLeft, misparsed>>

Below(S, x) == Cardinality({y \in S : y < x})

(* The free slots take the waiting filters in order, passing over those    *)
(* the kernel refuses.                                                     *)
PollPrepare ==
    LET pending == {f \in Filter : step[f] = 0}
        free == {s \in Active : ~Busy(s)}
    IN
    /\ phase = "poll" /\ Remaining = {}
    /\ \E refused \in SUBSET pending :
         LET accepted == pending \ refused
             tried == {f \in pending : Below(accepted, f) < Cardinality(free)}
             taker(s) == {f \in accepted : Below(accepted, f) = Below(free, s)}
         IN
         /\ step' = [f \in Filter |-> IF f \notin tried THEN step[f]
                                      ELSE IF f \in refused THEN 3 ELSE 1]
         /\ filterId' = [s \in Slot |-> IF s \in free /\ taker(s) # {}
                                        THEN CHOOSE f \in taker(s) : TRUE ELSE filterId[s]]
         /\ demux' = [s \in Slot |-> IF s \in free /\ taker(s) # {} THEN "armed" ELSE demux[s]]
    /\ IF \E s \in Active : filterId'[s] # None
       THEN phase' = "wait" /\ pollIndex' = None /\ UNCHANGED <<slot, pid>>
       ELSE ReturnNone
    /\ UNCHANGED <<eitVars, input, source, left, nActive, revents, r, buf, fresh, inbox,
                   inputLeft, misparsed>>

HasData(s) == s \in Active /\ inbox[s] # "empty"

PollReady ==
    /\ phase = "wait"
    /\ \E s \in Slot : HasData(s)
    /\ revents' = {s \in Slot : HasData(s)}
    /\ Return(FirstOf(revents'))
    /\ UNCHANGED <<eitVars, input, source, left, nActive, step, filterId, r, buf, fresh,
                   kernel, inputLeft, misparsed>>

(* poll timed out, or failed.                                              *)
PollNothing ==
    /\ phase = "wait"
    /\ revents' = {}
    /\ ReturnNone
    /\ UNCHANGED <<eitVars, input, source, left, nActive, step, filterId, r, buf, fresh,
                   kernel, inputLeft, misparsed>>

(***************************************************************************)
(* Reading the handle Poll returned.  A damaged section, an error and a    *)
(* read of zero bytes go on to the handling all the same; after a read of  *)
(* zero bytes the loop may also be left.                                   *)
(***************************************************************************)
ReadSection ==
    /\ phase = "read" /\ inbox[slot] = "section"
    /\ r' \in {"valid", "damaged"}
    /\ buf' = Tables[filterId[slot]]
    /\ fresh' = TRUE
    /\ inbox' = [inbox EXCEPT ![slot] = "empty"]
    /\ phase' = "handle"
    /\ UNCHANGED <<eitVars, input, source, left, pollVars, pid, demux, inputLeft, misparsed>>

ReadError ==
    /\ phase = "read" /\ inbox[slot] # "section"
    /\ inbox' = [inbox EXCEPT ![slot] = "empty"]
    /\ phase' = "handle"
    /\ UNCHANGED <<eitVars, input, source, left, pollVars, readVars, demux, inputLeft, misparsed>>

ReadZero ==
    /\ phase = "read"
    /\ phase' \in {"handle", "done"}
    /\ inbox' = [inbox EXCEPT ![slot] = "empty"]
    /\ UNCHANGED <<eitVars, input, source, left, pollVars, readVars, demux, inputLeft, misparsed>>

(* Without filters: only an error ends the loop, the end of the input does *)
(* not.                                                                    *)
ReadStdin ==
    /\ phase = "top" /\ source = "stdin"
    /\ IF inputLeft > 0
       THEN /\ r' \in {"valid", "damaged"}
            /\ buf' = "EIT" /\ fresh' = TRUE
            /\ inputLeft' = inputLeft - 1
       ELSE /\ r' = "nothing"
            /\ UNCHANGED <<buf, fresh, inputLeft>>
    /\ phase' = "handle"
    /\ UNCHANGED <<eitVars, input, source, left, pollVars, pid, kernel, misparsed>>

ReadStdinFails ==
    /\ phase = "top" /\ source = "stdin"
    /\ inputLeft > 0
    /\ phase' = "done"
    /\ UNCHANGED <<eitVars, input, source, left, pollVars, readVars, kernel, inputLeft, misparsed>>

(* Mutant: every section moves the deadline.                               *)
AlwaysMoved(s) == Timeout

(* The deadline is only moved by a new event, and not at all for a file    *)
(* (timeout is cleared).                                                   *)
Deadline(s) == IF ParseEIT(s).refresh /\ input # "file" THEN Timeout ELSE left

(***************************************************************************)
(* Handling the buffer.  The checksum is taken over as many bytes as were  *)
(* read, so nothing is handled when nothing was.                           *)
(* Only the three pids of DVB are told apart: any other is passed over.    *)
(***************************************************************************)
HandleSection ==
    /\ phase = "handle" /\ r = "valid"
    /\ misparsed' = (misparsed \/ ~fresh \/ buf # pid)
    /\ IF pid = "EIT"
       THEN \E s \in EitSections :
              /\ Parse(s)
              /\ left' = Deadline(s)
       ELSE UNCHANGED <<eitVars, left>>
    /\ fresh' = FALSE
    /\ phase' = "top"
    /\ UNCHANGED <<input, source, pollVars, pid, r, buf, kernel, inputLeft>>

HandleNothing ==
    /\ phase = "handle" /\ r # "valid"
    /\ fresh' = FALSE
    /\ phase' = "top"
    /\ UNCHANGED <<eitVars, input, source, left, pollVars, pid, r, buf, kernel, inputLeft,
                   misparsed>>

Thread ==
    \/ OpenDevice \/ OpenFileOrStdin
    \/ CheckDeadline
    \/ PollResume \/ PollPrepare \/ PollReady \/ PollNothing
    \/ ReadSection \/ ReadError \/ ReadZero \/ ReadStdin \/ ReadStdinFails
    \/ HandleSection \/ HandleNothing

(***************************************************************************)
(* The environment: a section arrives on a handle whose filter is running, *)
(* the kernel's timer expires before the first one, and time passes.  A    *)
(* filter whose timer has expired receives nothing any more, and cFilter   *)
(* never sets it again.                                                    *)
(***************************************************************************)
Deliver(s) ==
    /\ demux[s] \in {"armed", "live"} /\ inbox[s] = "empty"
    /\ demux' = [demux EXCEPT ![s] = "live"]
    /\ inbox' = [inbox EXCEPT ![s] = "section"]
    /\ UNCHANGED <<eitVars, input, source, phase, left, pollVars, readVars, inputLeft, misparsed>>

Expire(s) ==
    /\ demux[s] = "armed"
    /\ demux' = [demux EXCEPT ![s] = "expired"]
    /\ inbox' = [inbox EXCEPT ![s] = "timeout"]
    /\ UNCHANGED <<eitVars, input, source, phase, left, pollVars, readVars, inputLeft, misparsed>>

Tick ==
    /\ source = "device" /\ left > 0
    /\ left' = left - 1
    /\ UNCHANGED <<eitVars, input, source, phase, pollVars, readVars, kernel, inputLeft, misparsed>>

Next == Thread \/ Tick \/ \E s \in Slot : Deliver(s) \/ Expire(s)

Spec == Init /\ [][Next]_vars

(* The thread keeps executing, poll returns, and time passes.              *)
FairSpec == Spec /\ WF_vars(Thread) /\ WF_vars(Tick)

-----------------------------------------------------------------------------
(* A section is handled once, as the table its filter receives: no timeout *)
(* or failed read between two sections makes the loop handle what an       *)
(* earlier read left in the buffer.                                        *)
NeverMisparsed == ~misparsed

(* Every handle Poll still has to hand out from an earlier poll(2) has     *)
(* something to read, although the loop reads, parses and checks the       *)
(* deadline between the calls.                                             *)
ReadyIsReadable ==
    /\ phase = "read" => inbox[slot] # "empty"
    /\ \A s \in Remaining : inbox[s] # "empty"

(* A grab from a device ends although the broadcast never does: only a     *)
(* bounded number of sections move the deadline.                           *)
DeviceGrabEnds == input = "device" ~> phase = "done"

(* "-f: format of incoming data (dvb|freesat|...)": an event section that  *)
(* was read intact is parsed, whichever event pid the format has.          *)
EventsParsed ==
    [][phase = "handle" /\ phase' = "top" /\ r = "valid" /\ buf \in EventTables
          => handled'.section # {}]_vars
=============================================================================
