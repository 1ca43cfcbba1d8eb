----------------------------- MODULE SkyFilters -----------------------------
(***************************************************************************)
(* The section-filter scheduler of the Sky and MediaHighway grabber:       *)
(* cTaskLoadepg::AddFilter, StartFilter, StopFilter, PollingFilters and    *)
(* the part of ReadBuffer that decides a filter's fate.                    *)
(*                                                                         *)
(* One thread opens a few demultiplexer handles ("slots"), hands the       *)
(* waiting filters to free slots, polls, reads one section from each slot  *)
(* that is ready, and frees a slot when its filter is finished.  What a    *)
(* section does to the filter that received it is decided by the table     *)
(* handlers; here it is a choice among the effects a handler can have on   *)
(* the scheduler.  Not every handler can finish its filter: the one of the *)
(* channel names (SDT) passes over every section until the one of the list *)
(* (BAT) has set EndBAT, and any of them may wait for an end that the      *)
(* broadcast does not hold, or that the selected bouquets leave out.       *)
(*                                                                         *)
(* The demultiplexer of the kernel is the environment: it is modelled from *)
(* how the code uses it (open, DMX_SET_FILTER with a timeout, poll, read). *)
(***************************************************************************)
EXTENDS Integers, FiniteSets

CONSTANTS
    Wanted,       \* how many filters LoadFromSatellite asks for
    MaxFilters,   \* MAX_FILTERS
    MaxActive,    \* MAX_ACTIVE_FILTERS
    ListFilter,   \* the filter of the channel list (BAT), if it is in the table
    NamesFilter,  \* the filter of the channel names (SDT), if it is in the table
    Broadcasts    \* which filters can recognise the end of their table, for each broadcast

ASSUME SizesAssumption ==
    /\ Wanted \in Nat
    /\ MaxFilters \in Nat
    /\ MaxActive \in Nat \ {0}

(* The list is asked for before the names.                                 *)
ASSUME FiltersAssumption ==
    /\ ListFilter \in Nat /\ NamesFilter \in Nat
    /\ ListFilter < NamesFilter

(* AddFilter drops what does not fit in the table.                         *)
nFilters == IF Wanted <= MaxFilters THEN Wanted ELSE MaxFilters

Filter == 0 .. nFilters - 1
Slot   == 0 .. MaxActive - 1
None   == -1

VARIABLES
    phase,      \* where the thread is in PollingFilters
    cursor,     \* the index of the loop the thread is in
    step,       \* Filters[f].Step: 0 waiting, 1 running, 2 finished, 3 retired
    nActive,    \* nActiveFilters
    fd,         \* ActiveFilters[s].Fd
    filterId,   \* ActiveFilters[s].FilterId
    isBusy,     \* ActiveFilters[s].IsBusy
    isRunning,  \* IsRunning
    isError,    \* IsError
    ready,      \* the slots whose revents hold POLLIN after the last poll
    wired,      \* kernel: the filter the handle of slot s is set to
    armed,      \* kernel: the timer of the filter in slot s is running
    inbox,      \* kernel: what the next read of slot s returns
    onAir,      \* kernel: sections are still being received
    listed,     \* EndBAT
    whole,      \* the filters whose table holds the end their handler looks for
    served      \* history: the filters that were started

program == <<phase, cursor, step, nActive, fd, filterId, isBusy, isRunning, isError, ready>>
kernel  == <<wired, armed, inbox>>
tables  == <<listed, whole>>
vars    == <<program, kernel, onAir, tables, served>>

Phase == {"open", "reap", "prepare", "poll", "read", "stop", "xml", "failed"}

TypeOK ==
    /\ phase \in Phase
    /\ cursor \in Nat
    /\ step \in [Filter -> 0 .. 3]
    /\ nActive \in 0 .. MaxActive
    /\ fd \in [Slot -> {"open", "bad", "closed"}]
    /\ filterId \in [Slot -> Filter \cup {None}]
    /\ isBusy \in [Slot -> BOOLEAN]
    /\ isRunning \in BOOLEAN
    /\ isError \in BOOLEAN
    /\ ready \in SUBSET Slot
    /\ wired \in [Slot -> Filter \cup {None}]
    /\ armed \in [Slot -> BOOLEAN]
    /\ inbox \in [Slot -> {"empty", "section", "overflow", "timeout"}]
    /\ onAir \in BOOLEAN
    /\ listed \in BOOLEAN
    /\ whole \in SUBSET Filter
    /\ served \in SUBSET Filter

(* Mutant: the test for a waiting filter also accepts a running one.       *)
PendingOrRunning == {f \in Filter : step[f] <= 1}

Pending == {f \in Filter : step[f] = 0}
Active  == {s \in Slot : s < nActive}

Init ==
    /\ phase = "open" /\ cursor = 0
    /\ step = [f \in Filter |-> 0]
    /\ nActive = 0
    /\ fd = [s \in Slot |-> "closed"]
    /\ filterId = [s \in Slot |-> None]
    /\ isBusy = [s \in Slot |-> FALSE]
    /\ isRunning = TRUE /\ isError = FALSE
    /\ ready = {}
    /\ wired = [s \in Slot |-> None]
    /\ armed = [s \in Slot |-> FALSE]
    /\ inbox = [s \in Slot |-> "empty"]
    /\ onAir = TRUE
    /\ listed = FALSE
    /\ \E filters \in Broadcasts : whole = filters \cap Filter
    /\ served = {}

(* The loop that opens the handles has not come to its end.                *)
MoreHandles == cursor < nFilters /\ nActive < MaxActive

(***************************************************************************)
(* Opening the handles.  A failed open returns -1, which the test          *)
(* `if (File)' accepts: the slot is kept, with a bad handle.  Only handle  *)
(* 0, free when the program was started with its input closed, is refused, *)
(* and not closed again: the next open returns another one.                *)
(***************************************************************************)
OpenHandle(handle) ==
    /\ phase = "open" /\ MoreHandles
    /\ cursor' = cursor + 1
    /\ fd' = [fd EXCEPT ![nActive] = handle]
    /\ nActive' = nActive + 1
    /\ UNCHANGED <<phase, step, filterId, isBusy, isRunning, isError, ready, kernel, onAir,
                   tables, served>>

RefuseHandle ==
    /\ phase = "open" /\ MoreHandles /\ ~isError
    /\ cursor' = cursor + 1
    /\ isError' = TRUE
    /\ UNCHANGED <<phase, step, nActive, fd, filterId, isBusy, isRunning, ready, kernel, onAir,
                   tables, served>>

StartLoop ==
    /\ phase = "open" /\ ~MoreHandles
    /\ phase' = IF isError \/ nActive = 0 THEN "stop" ELSE "reap"
    /\ cursor' = 0
    /\ UNCHANGED <<step, nActive, fd, filterId, isBusy, isRunning, isError, ready,
                   kernel, onAir, tables, served>>

(* Slot s is the first that holds a filter at Step 2.                      *)
HoldsFinished(s) ==
    /\ s \in Active /\ filterId[s] # None
    /\ step[filterId[s]] = 2
    /\ \A t \in Slot : t < s => filterId[t] # filterId[s]

Retired(n) == IF n = 2 THEN 3 ELSE n

(* Checking end of reading: retire finished filters and free their slots.  *)
(* The handle stays set to the retired filter.                             *)
Reap ==
    /\ phase = "reap"
    /\ step' = [f \in Filter |-> Retired(step[f])]
    /\ filterId' = [s \in Slot |-> IF HoldsFinished(s) THEN None ELSE filterId[s]]
    /\ isBusy' = [s \in Slot |-> isBusy[s] /\ ~HoldsFinished(s)]
    /\ isRunning' = FALSE
    /\ phase' = "prepare" /\ cursor' = 0
    /\ UNCHANGED <<nActive, fd, isError, ready, kernel, onAir, tables, served>>

(***************************************************************************)
(* Preparing one slot.  A free slot tries the waiting filters in order     *)
(* until one starts; every filter the kernel refuses on the way goes       *)
(* straight to Step 3.  A bad handle is refused every time.                *)
(***************************************************************************)
KeepSlot(s) ==
    /\ isBusy[s]
    /\ isRunning' = TRUE
    /\ UNCHANGED <<step, filterId, isBusy, kernel, served>>

(* Mutant: the result of DMX_SET_FILTER is not looked at.                  *)
StartFilterUnchecked(s, f) ==
    /\ ~isBusy[s] /\ f \in Pending
    /\ step' = [step EXCEPT ![f] = 1]
    /\ filterId' = [filterId EXCEPT ![s] = f]
    /\ isBusy' = [isBusy EXCEPT ![s] = TRUE]
    /\ isRunning' = TRUE
    /\ served' = served \cup {f}
    /\ UNCHANGED kernel

StartFilter(s, f) ==
    /\ ~isBusy[s] /\ fd[s] = "open" /\ f \in Pending
    /\ step' = [g \in Filter |-> IF g = f THEN 1
                                 ELSE IF g \in Pending /\ g < f THEN 3 ELSE step[g]]
    /\ filterId' = [filterId EXCEPT ![s] = f]
    /\ isBusy' = [isBusy EXCEPT ![s] = TRUE]
    /\ isRunning' = TRUE
    /\ wired' = [wired EXCEPT ![s] = f]
    /\ armed' = [armed EXCEPT ![s] = TRUE]
    /\ inbox' = [inbox EXCEPT ![s] = "empty"]
    /\ served' = served \cup {f}

(* Mutant: a refused filter goes on waiting for another slot.              *)
LeaveSlotFreeOnly(s) ==
    /\ ~isBusy[s]
    /\ UNCHANGED <<step, filterId, isBusy, isRunning, kernel, served>>

LeaveSlotFree(s) ==
    /\ ~isBusy[s]
    /\ step' = [f \in Filter |-> IF f \in Pending THEN 3 ELSE step[f]]
    /\ UNCHANGED <<filterId, isBusy, isRunning, kernel, served>>

PrepareSlot(s) ==
    /\ phase = "prepare" /\ s = cursor /\ s \in Active
    /\ \/ KeepSlot(s)
       \/ \E f \in Filter : StartFilter(s, f)
       \/ LeaveSlotFree(s)
    /\ cursor' = cursor + 1
    /\ UNCHANGED <<phase, nActive, fd, isError, ready, onAir, tables>>

LeaveOrPoll ==
    /\ phase = "prepare" /\ cursor = nActive
    /\ phase' = IF isRunning THEN "poll" ELSE "stop"
    /\ cursor' = 0
    /\ UNCHANGED <<step, nActive, fd, filterId, isBusy, isRunning, isError, ready,
                   kernel, onAir, tables, served>>

(***************************************************************************)
(* Polling.  A ready slot need not be busy: its handle may still receive   *)
(* the table of a filter that was retired.                                 *)
(***************************************************************************)
HasData(s) == s \in Active /\ fd[s] = "open" /\ inbox[s] # "empty"

(* Mutant: every busy slot is read after poll, whatever its revents.       *)
BusySlots == {s \in Active : isBusy[s]}

ReadySlots == {s \in Slot : HasData(s)}

PollReady ==
    /\ phase = "poll"
    /\ \E s \in Slot : HasData(s)
    /\ ready' = ReadySlots
    /\ phase' = "read" /\ cursor' = 0
    /\ UNCHANGED <<step, nActive, fd, filterId, isBusy, isRunning, isError,
                   kernel, onAir, tables, served>>

GiveUp ==
    /\ isError' = TRUE /\ isRunning' = FALSE
    /\ phase' = "stop"
    /\ UNCHANGED <<cursor, step, nActive, fd, filterId, isBusy, ready, kernel, onAir, tables, served>>

(* No handle had data for the whole of Timeout.                            *)
PollTimeout ==
    /\ phase = "poll"
    /\ \A s \in Slot : ~HasData(s)
    /\ GiveUp

PollFailure ==
    /\ phase = "poll"
    /\ GiveUp

(***************************************************************************)
(* ReadBuffer.  A section may leave the filter running, complete the       *)
(* channel list, finish the filter (its table was complete before this     *)
(* section came), or fill a table (IsError).  An overflow is only logged;  *)
(* the expiry of the timer and any other error finish the filter, and then *)
(* EndBAT stays as it is.                                                  *)
(***************************************************************************)
(* The handler of f would recognise the end of its table.                  *)
CanEnd(f) == f \in whole /\ (f = NamesFilter => listed)

Reading(s) ==
    /\ phase = "read" /\ s = cursor /\ s \in Active
    /\ cursor' = cursor + 1

Consume(s) ==
    /\ inbox' = [inbox EXCEPT ![s] = "empty"]
    /\ UNCHANGED <<phase, nActive, fd, filterId, isBusy, ready, wired, armed, onAir, served>>

PassOver(s) ==
    /\ Reading(s)
    /\ ~(s \in ready /\ isBusy[s])
    /\ isRunning' = (isRunning /\ ~isError)
    /\ UNCHANGED <<phase, step, nActive, fd, filterId, isBusy, isError, ready,
                   kernel, onAir, tables, served>>

ReadGoesOn(s) ==
    /\ Reading(s) /\ s \in ready /\ isBusy[s]
    /\ inbox[s] \in {"section", "overflow"}
    /\ isRunning' = (isRunning /\ ~isError)
    /\ UNCHANGED <<step, isError, tables>>
    /\ Consume(s)

(* The section that completes the list only sets EndBAT.                   *)
ReadLists(s) ==
    /\ Reading(s) /\ s \in ready /\ isBusy[s]
    /\ inbox[s] = "section"
    /\ filterId[s] = ListFilter /\ CanEnd(ListFilter)
    /\ listed' = TRUE
    /\ isRunning' = (isRunning /\ ~isError)
    /\ UNCHANGED <<step, isError, whole>>
    /\ Consume(s)

ReadFinishes(s) ==
    /\ Reading(s) /\ s \in ready /\ isBusy[s]
    /\ inbox[s] = "section"
    /\ CanEnd(filterId[s]) /\ (filterId[s] = ListFilter => listed)
    /\ step' = [step EXCEPT ![filterId[s]] = 2]
    /\ isRunning' = (isRunning /\ ~isError)
    /\ UNCHANGED <<isError, tables>>
    /\ Consume(s)

(* Mutant: the expiry of the filter's timer is only logged.                *)
ReadLogsTimeout(s) ==
    /\ Reading(s) /\ s \in ready /\ isBusy[s]
    /\ inbox[s] # "empty"
    /\ step' = IF inbox[s] = "timeout" THEN step ELSE [step EXCEPT ![filterId[s]] = 2]
    /\ isRunning' = (isRunning /\ ~isError)
    /\ UNCHANGED <<isError, tables>>
    /\ Consume(s)

ReadFails(s) ==
    /\ Reading(s) /\ s \in ready /\ isBusy[s]
    /\ inbox[s] # "empty"
    /\ step' = [step EXCEPT ![filterId[s]] = 2]
    /\ isRunning' = (isRunning /\ ~isError)
    /\ UNCHANGED <<isError, tables>>
    /\ Consume(s)

ReadOverflowsTable(s) ==
    /\ Reading(s) /\ s \in ready /\ isBusy[s]
    /\ inbox[s] = "section"
    /\ isError' = TRUE /\ isRunning' = FALSE
    /\ UNCHANGED <<step, tables>>
    /\ Consume(s)

EndPass ==
    /\ phase = "read" /\ cursor = nActive
    /\ phase' = IF isRunning THEN "reap" ELSE "stop"
    /\ cursor' = 0
    /\ UNCHANGED <<step, nActive, fd, filterId, isBusy, isRunning, isError, ready,
                   kernel, onAir, tables, served>>

(* Mutant: the EPG is written after an error, too.                         *)
AlwaysXml == "xml"

AfterStop == IF isError THEN "failed" ELSE "xml"

(* Clean and stop filters; LoadFromSatellite then calls CreateEpgXml only  *)
(* when there was no error.                                                *)
StopFilters ==
    /\ phase = "stop"
    /\ fd' = [s \in Slot |-> IF s \in Active /\ fd[s] = "open" THEN "closed" ELSE fd[s]]
    /\ wired' = [s \in Slot |-> None]
    /\ armed' = [s \in Slot |-> FALSE]
    /\ inbox' = [s \in Slot |-> "empty"]
    /\ phase' = AfterStop
    /\ UNCHANGED <<cursor, step, nActive, filterId, isBusy, isRunning, isError, ready,
                   onAir, tables, served>>

Thread ==
    \/ \E handle \in {"open", "bad"} : OpenHandle(handle)
    \/ RefuseHandle \/ StartLoop
    \/ Reap
    \/ \E s \in Slot : PrepareSlot(s)
    \/ LeaveOrPoll
    \/ PollReady \/ PollTimeout \/ PollFailure
    \/ \E s \in Slot : \/ PassOver(s) \/ ReadGoesOn(s) \/ ReadLists(s)
                       \/ ReadFinishes(s) \/ ReadFails(s) \/ ReadOverflowsTable(s)
    \/ EndPass \/ StopFilters

(***************************************************************************)
(* The demultiplexer.  A handle receives sections of the filter it is set  *)
(* to, busy or not; the timer given to DMX_SET_FILTER runs until the first *)
(* section, and its expiry ends the filter.  A handle nobody reads         *)
(* overflows, and stays readable.                                          *)
(***************************************************************************)
Deliver(s) ==
    /\ onAir /\ wired[s] # None /\ inbox[s] = "empty"
    /\ inbox' = [inbox EXCEPT ![s] = "section"]
    /\ armed' = [armed EXCEPT ![s] = FALSE]
    /\ UNCHANGED <<program, wired, onAir, tables, served>>

Overflow(s) ==
    /\ onAir /\ wired[s] # None /\ inbox[s] = "section"
    /\ inbox' = [inbox EXCEPT ![s] = "overflow"]
    /\ UNCHANGED <<program, wired, armed, onAir, tables, served>>

Expire(s) ==
    /\ armed[s]
    /\ inbox' = [inbox EXCEPT ![s] = "timeout"]
    /\ armed' = [armed EXCEPT ![s] = FALSE]
    /\ wired' = [wired EXCEPT ![s] = None]
    /\ UNCHANGED <<program, onAir, tables, served>>

LoseSignal ==
    /\ onAir
    /\ onAir' = FALSE
    /\ UNCHANGED <<program, kernel, tables, served>>

Kernel ==
    \/ \E s \in Slot : Deliver(s) \/ Overflow(s) \/ Expire(s)
    \/ LoseSignal

Next == Thread \/ Kernel

Spec == Init /\ [][Next]_vars

(***************************************************************************)
(* Fairness.  The thread keeps executing; the kernel's timers expire; a    *)
(* table that is on the air keeps being repeated; and a handler that keeps *)
(* receiving a table whose end it can recognise recognises it.  Nothing is *)
(* assumed of a filter that cannot finish, and no read has to fail.        *)
(***************************************************************************)
Fairness ==
    /\ WF_vars(Thread)
    /\ \A s \in Slot : WF_vars(Deliver(s)) /\ WF_vars(Expire(s))

TablesComplete == \A s \in Slot : SF_vars(ReadLists(s)) /\ SF_vars(ReadFinishes(s))

FairSpec == Spec /\ Fairness /\ TablesComplete

-----------------------------------------------------------------------------
Ended == phase \in {"xml", "failed"}

(* Slots and filters agree: a slot is busy exactly when it names a filter, *)
(* a filter is named by at most one slot, and it is named by one exactly   *)
(* while it runs or waits to be retired.  Otherwise two handles would feed *)
(* one filter's state, or Reap would free the wrong slot.                  *)
SlotsExclusive ==
    /\ \A s \in Slot : isBusy[s] <=> filterId[s] # None
    /\ \A s, t \in Slot : filterId[s] # None /\ filterId[s] = filterId[t] => s = t
    /\ \A f \in Filter : step[f] \in {1, 2} <=> \E s \in Slot : filterId[s] = f

(* What the loop knows at each point.  While slots are being prepared,     *)
(* IsRunning tells whether one of those already visited is busy, and one   *)
(* left free means that nothing waits any more; while handles are polled   *)
(* and read, IsRunning is the opposite of IsError; and the loop is only    *)
(* left without an error when every filter is retired.                     *)
Visited == {s \in Slot : s < cursor}

LoopKnows ==
    /\ \A s \in Slot : filterId[s] # None \/ fd[s] = "open" => s \in Active
    /\ phase = "open" =>
          /\ \A f \in Filter : step[f] = 0
          /\ ~isError => cursor = nActive
    /\ phase \in {"prepare", "poll"} => \A f \in Filter : step[f] # 2
    /\ phase \in {"reap", "prepare", "poll"} => ~isError
    /\ phase \in {"reap", "prepare", "poll", "read"} => nActive > 0
    /\ phase = "prepare" =>
          /\ cursor <= nActive
          /\ isRunning <=> \E s \in Visited : isBusy[s]
          /\ (\E s \in Visited : ~isBusy[s]) => Pending = {}
    /\ phase \in {"poll", "read"} => (isRunning <=> ~isError)
    /\ phase = "stop" /\ ~isError => \A f \in Filter : step[f] = 3

(* The handle of a busy slot is set to the filter the slot names (or that  *)
(* filter has expired, and the expiry is what the next read returns): a    *)
(* section is never attributed to another filter than the one it passed.   *)
BusySlotIsWired ==
    \A s \in Slot : isBusy[s] /\ ~Ended
        => \/ wired[s] = filterId[s]
           \/ inbox[s] = "timeout"
           \/ step[filterId[s]] = 2

(* A read is only made on a handle that has something to return.  The      *)
(* handles are non-blocking and any other error than an overflow retires   *)
(* the filter, so a read too many would end a running filter with EAGAIN.  *)
ReadHasData ==
    phase = "read" => \A s \in ready : cursor <= s => HasData(s)

(* CreateEpgXml is only reached when every filter is retired and no handle *)
(* is left open: a listing is never written from tables still being read.  *)
XmlAfterAllRetired ==
    phase = "xml" => /\ \A f \in Filter : step[f] = 3
                     /\ \A s \in Slot : ~isBusy[s] /\ fd[s] # "open"

(* One handle that could not be opened takes every filter that is still    *)
(* waiting down with it, although other slots are free: if slot b is bad,  *)
(* no more than b filters are ever started, and no error is reported.      *)
BadHandleCapsTheGrab ==
    \A b \in Active : fd[b] = "bad" => Cardinality(served) <= b

(* A filter only moves from waiting to running to finished to retired, or  *)
(* from waiting straight to retired when it is refused.  It never runs     *)
(* again, so no table is read twice.                                       *)
StepsForward ==
    [][\A f \in Filter : step'[f] # step[f] =>
          <<step[f], step'[f]>> \in {<<0, 1>>, <<0, 3>>, <<1, 2>>, <<2, 3>>}]_step

(* The thread reads faster than the tables arrive: from some time on no    *)
(* handle that is being read overflows any more.                           *)
KeepsUp == <>[](\A s \in Slot : isBusy[s] => inbox[s] # "overflow")

(* The filters that receive their table and never finish.                  *)
Stuck == {f \in Filter : step[f] = 1 /\ ~CanEnd(f)}

(* The scheduler has done its work with what is not stuck.                 *)
OnlyStuckRemains ==
    /\ Stuck # {}
    /\ Cardinality(Stuck) = nActive \/ \A f \in Filter \ Stuck : step[f] = 3

(* As long as the signal is there the grab comes to an end, or is held up  *)
(* for ever by filters that receive a table whose end their handler cannot *)
(* recognise (as the names, when the list was given up), and then nothing  *)
(* else is left to do or every slot holds such a filter: no filter waits   *)
(* for ever for a slot that could become free, and a table that is not     *)
(* broadcast at all is given up by the kernel's timer.                     *)
GrabEndsOnAir == []onAir /\ KeepsUp => <>Ended \/ <>[]OnlyStuckRemains

(* "-t: stop after timeout seconds of no new data": once nothing is        *)
(* received any more, the grab ends.                                       *)
SilenceStops == ~onAir ~> Ended

(* PollingFilters implements the filter pool.                              *)
Pool == INSTANCE FilterPool WITH
    Filters  <- Filter,
    Capacity <- MaxActive,
    status   <- [f \in Filter |-> CASE step[f] = 0 -> "pending"
                                    [] step[f] \in {1, 2} -> "running"
                                    [] OTHER -> "over"],
    outcome  <- CASE phase = "xml" -> "complete"
                  [] phase = "failed" -> "failed"
                  [] OTHER -> "undecided"

ImplementsPool == Pool!Spec
=============================================================================
