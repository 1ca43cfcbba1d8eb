------------------------------- MODULE LoadEpg -------------------------------
(***************************************************************************)
(* loadepg: the grabber thread (cTaskLoadepg) and the thread that looks    *)
(* after it, in the two builds of loadepg.c.                               *)
(*                                                                         *)
(* In the stand-alone program the supervisor is main, in EPGGrabber::Grab: *)
(* it starts one task, watches it for a minute at most, stops it, deletes  *)
(* it and closes the document.  In the VDR plugin it is the thread         *)
(* cControlLoadepg: it starts a task whenever Loading is set, by a third   *)
(* thread, VDR's, which also sets Stopping.  The threads share flags, the  *)
(* task object and the global tables, and use no lock.  A step ends where  *)
(* another thread can make a difference to the next access.                *)
(***************************************************************************)
EXTENDS Integers, Sequences, FiniteSets

CONSTANTS
    MaxTasks,    \* how many tasks a behaviour may start; a bound, the code has none
    NProviders,  \* nProviders
    GrabSeconds, \* 60: how long Grab watches the task
    CancelWaits  \* how often Cancel(2) looks whether the thread has ended

ASSUME LoadEpgAssumption ==
    /\ MaxTasks \in Nat \ {0} /\ NProviders \in Nat \ {0}
    /\ GrabSeconds \in Nat /\ CancelWaits \in Nat

Tasks == 1..MaxTasks
Providers == 1..NProviders

VARIABLES
    build,     \* "standalone" or "plugin"
    tpc,       \* where each task's thread is in cTaskLoadepg::Action
    object,    \* the task objects: "none", "live", "closing" or "deleted"
    active,    \* cThread::active of each task
    running,   \* cThread::running
    cancelled, \* pthread_cancel was called for the thread
    isRunning, \* IsRunning of each task
    isError,   \* IsError of each task
    arrays,    \* lThemes ... bSummaries: "none" or "allocated"
    spc,       \* where the supervisor is
    current,   \* Task: the task it has, or 0
    ticks,     \* how often it has waited: in Grab's loop, in Cancel's
    loading,   \* cControlLoadepg::Loading
    stopping,  \* cControlLoadepg::Stopping
    error,     \* cControlLoadepg::Error
    upc,       \* where VDR's thread is: "idle" or "red"
    provider,  \* CurrentProvider
    document,  \* what was written to the standard output, or by the plugin to epg.tmp
    \* History.
    broken,    \* the tasks that were told to end before they had ended
    stopAt,    \* where the task was when Stop cleared IsRunning
    loads,     \* CurrentProvider when the task was created
    message    \* what the user was told of each task's end

task == <<tpc, object, active, running, cancelled, isRunning, isError>>
control == <<loading, stopping, error>>
user == <<upc, provider>>
history == <<broken, stopAt, loads, message>>
(* What a task's own steps leave alone, but for Control->Error.            *)
elsewhere == <<build, object, cancelled, spc, current, ticks, control, user, history>>
vars == <<build, task, arrays, spc, current, ticks, control, user, document, history>>

Uses == {"handle", "write"}
TaskPlaces == {"none", "begin", "tune", "open", "check", "clear", "prepare", "decide",
               "poll", "clean", "free", "freeing", "report", "exit", "gone",
               "stillborn"} \cup Uses
SuperPlaces == {"new", "watch", "stop", "top", "work", "look", "reset", "forget", "cancel", "wait",
                "free", "freeing", "deleted", "footer", "exit", "end"}

LoadEpgTypeOK ==
    /\ build \in {"standalone", "plugin"}
    /\ tpc \in [Tasks -> TaskPlaces]
    /\ object \in [Tasks -> {"none", "live", "closing", "deleted"}]
    /\ active \in [Tasks -> BOOLEAN] /\ running \in [Tasks -> BOOLEAN]
    /\ cancelled \in [Tasks -> BOOLEAN]
    /\ isRunning \in [Tasks -> BOOLEAN] /\ isError \in [Tasks -> BOOLEAN]
    /\ arrays \in {"none", "allocated"}
    /\ spc \in SuperPlaces /\ current \in Tasks \cup {0}
    /\ ticks \in 0..(GrabSeconds + CancelWaits)
    /\ loading \in BOOLEAN /\ stopping \in BOOLEAN /\ error \in BOOLEAN
    /\ upc \in {"idle", "red"} /\ provider \in Providers \cup {0}
    /\ document \in Seq({"header", "guide", "footer"})
    /\ broken \subseteq Tasks /\ stopAt \in [Tasks -> TaskPlaces]
    /\ loads \in [Tasks -> Providers \cup {0}]
    /\ message \in [Tasks -> {"none", "completed", "error"}]

Init ==
    /\ build \in {"standalone", "plugin"}
    /\ tpc = [t \in Tasks |-> "none"] /\ object = [t \in Tasks |-> "none"]
    /\ active = [t \in Tasks |-> FALSE] /\ running = [t \in Tasks |-> FALSE]
    /\ cancelled = [t \in Tasks |-> FALSE]
    /\ isRunning = [t \in Tasks |-> FALSE] /\ isError = [t \in Tasks |-> FALSE]
    /\ arrays = "none"
    /\ spc = IF build = "plugin" THEN "top" ELSE "new"
    /\ current = 0 /\ ticks = 0
    /\ loading = FALSE /\ stopping = FALSE /\ error = FALSE
    /\ upc = "idle" /\ provider \in Providers
    /\ document = IF build = "plugin" THEN <<>> ELSE <<"header">>
    /\ broken = {} /\ stopAt = [t \in Tasks |-> "none"]
    /\ loads = [t \in Tasks |-> 0] /\ message = [t \in Tasks |-> "none"]

-----------------------------------------------------------------------------
(* The task's thread.                                                      *)

(* Where a thread that was cancelled ends, and where it may go on: whether *)
(* writing to a stream is a cancellation point is left to the library.     *)
Deadly == {"tune", "open", "poll", "clean"}
CancelPoints == Deadly \cup {"write"}

At(t, place) == tpc[t] = place /\ ~(cancelled[t] /\ place \in Deadly)
Go(t, place) == tpc' = [tpc EXCEPT ![t] = place]

Die(t) ==
    /\ cancelled[t] /\ tpc[t] \in CancelPoints
    /\ Go(t, "gone")
    /\ UNCHANGED <<elsewhere, active, running, isRunning, isError, arrays, document>>

(* Action, its beginning: nothing is allocated if it is to stop already;   *)
(* an allocation that fails ends the task without an error, a bad adapter  *)
(* or a bad description of the transponder with one.                       *)
Begin(t) ==
    /\ At(t, "begin")
    /\ IF running[t]
       THEN /\ arrays' = "allocated"
            /\ \/ Go(t, "tune") /\ isError' = [isError EXCEPT ![t] = FALSE]
               \/ Go(t, "free") /\ \E e \in BOOLEAN : isError' = [isError EXCEPT ![t] = e]
       ELSE /\ Go(t, "report") /\ UNCHANGED arrays
            /\ isError' = [isError EXCEPT ![t] = FALSE]
    /\ UNCHANGED <<elsewhere, active, running, isRunning, document>>

(* Waiting for the transponder; PollingFilters sets IsRunning and opens    *)
(* the handles.                                                            *)
Tune(t) ==
    /\ At(t, "tune") /\ Go(t, "open")
    /\ isRunning' = [isRunning EXCEPT ![t] = TRUE]
    /\ UNCHANGED <<elsewhere, active, running, isError, arrays, document>>

(* A handle that cannot be opened ends the polling before it began.        *)
OpenHandles(t) ==
    /\ At(t, "open")
    /\ \/ Go(t, "check") /\ UNCHANGED isError
       \/ Go(t, "clean") /\ isError' = [isError EXCEPT ![t] = TRUE]
    /\ UNCHANGED <<elsewhere, active, running, isRunning, arrays, document>>

(* The loop of PollingFilters reads IsRunning at its head, clears it, sets *)
(* it again for a slot that is busy, and reads it once more.               *)
Check(t) ==
    /\ At(t, "check")
    /\ Go(t, IF isRunning[t] THEN "clear" ELSE "clean")
    /\ UNCHANGED <<elsewhere, active, running, isRunning, isError, arrays, document>>

Clear(t) ==
    /\ At(t, "clear") /\ Go(t, "prepare")
    /\ isRunning' = [isRunning EXCEPT ![t] = FALSE]
    /\ UNCHANGED <<elsewhere, active, running, isError, arrays, document>>

Prepare(t) ==
    /\ At(t, "prepare") /\ Go(t, "decide")
    /\ \/ isRunning' = [isRunning EXCEPT ![t] = TRUE]   \* a slot is busy
       \/ UNCHANGED isRunning                            \* all filters are over
    /\ UNCHANGED <<elsewhere, active, running, isError, arrays, document>>

(* Mutant: the decision asks the slots again.                              *)
DecideAnew(t) ==
    /\ At(t, "decide")
    /\ \E busy \in BOOLEAN :
          /\ isRunning' = [isRunning EXCEPT ![t] = busy]
          /\ Go(t, IF busy THEN "poll" ELSE "clean")
    /\ UNCHANGED <<elsewhere, active, running, isError, arrays, document>>

Decide(t) ==
    /\ At(t, "decide")
    /\ Go(t, IF isRunning[t] THEN "poll" ELSE "clean")
    /\ UNCHANGED <<elsewhere, active, running, isRunning, isError, arrays, document>>

(* A section is there, or nothing came and the polling ends.               *)
Poll(t) ==
    /\ At(t, "poll")
    /\ \/ Go(t, "handle") /\ UNCHANGED <<isRunning, isError>>
       \/ /\ Go(t, "check")
          /\ isError' = [isError EXCEPT ![t] = TRUE]
          /\ isRunning' = [isRunning EXCEPT ![t] = FALSE]
    /\ UNCHANGED <<elsewhere, active, running, arrays, document>>

(* ReadBuffer and the handlers, which may find a table full.               *)
Handle(t) ==
    /\ At(t, "handle") /\ Go(t, "check")
    /\ \/ UNCHANGED <<isRunning, isError>>
       \/ /\ isError' = [isError EXCEPT ![t] = TRUE]
          /\ isRunning' = [isRunning EXCEPT ![t] = FALSE]
    /\ UNCHANGED <<elsewhere, active, running, arrays, document>>

(* The filters are stopped; LoadFromSatellite goes on to the guide only    *)
(* without an error.                                                       *)
Clean(t) ==
    /\ At(t, "clean")
    /\ Go(t, IF isError[t] THEN "free" ELSE "write")
    /\ UNCHANGED <<elsewhere, active, running, isRunning, isError, arrays, document>>

(* CreateEpgDataFile, which says nothing when its files cannot be opened;  *)
(* afterwards a guide without channels or titles is an error.              *)
WriteGuide(t) ==
    /\ At(t, "write") /\ Go(t, "free")
    /\ \/ document' = Append(document, "guide")
       \/ UNCHANGED document
    /\ \/ UNCHANGED isError
       \/ isError' = [isError EXCEPT ![t] = TRUE]
    /\ UNCHANGED <<elsewhere, active, running, isRunning, arrays>>

(* Each array is freed if its pointer is not NULL; the test and the        *)
(* release are two steps, and the supervisor does the same.                *)
TestArrays(t) ==
    /\ At(t, "free")
    /\ Go(t, IF arrays = "allocated" THEN "freeing" ELSE "report")
    /\ UNCHANGED <<elsewhere, active, running, isRunning, isError, arrays, document>>

FreeArrays(t) ==
    /\ At(t, "freeing") /\ Go(t, "report")
    /\ arrays' = "none"
    /\ UNCHANGED <<elsewhere, active, running, isRunning, isError, document>>

(* Mutant: only an error is reported.                                      *)
ReportedErrors(t) == error \/ isError[t]

Reported(t) == isError[t]

Report(t) ==
    /\ At(t, "report") /\ Go(t, "exit")
    /\ error' = IF build = "plugin" THEN Reported(t) ELSE error
    /\ UNCHANGED <<build, object, active, running, cancelled, isRunning, isError, arrays, spc,
                   current, ticks, loading, stopping, user, document, history>>

(* StartThread after Action.                                               *)
Leave(t) ==
    /\ At(t, "exit") /\ Go(t, "gone")
    /\ running' = [running EXCEPT ![t] = FALSE]
    /\ active' = [active EXCEPT ![t] = FALSE]
    /\ UNCHANGED <<elsewhere, isRunning, isError, arrays, document>>

TaskStep(t) ==
    \/ Begin(t) \/ Tune(t) \/ OpenHandles(t) \/ Check(t) \/ Clear(t) \/ Prepare(t) \/ Decide(t)
    \/ Poll(t) \/ Handle(t) \/ Clean(t) \/ WriteGuide(t) \/ TestArrays(t) \/ FreeArrays(t)
    \/ Report(t) \/ Leave(t) \/ Die(t)

-----------------------------------------------------------------------------
(* The supervisor's thread.                                                *)

SuperGo(place) == spc' = place
taskFlow == <<isRunning, isError>>

(* Mutant: it is left to the thread to say that it is active.              *)
MarkNothing(t) == UNCHANGED active

MarkActive(t) == active' = [active EXCEPT ![t] = TRUE]

(* new cTaskLoadepg and Start; a thread that cannot be created leaves the  *)
(* object there.                                                           *)
StartTask(t) ==
    /\ object[t] = "none" /\ \A u \in Tasks : u < t => object[u] # "none"
    /\ object' = [object EXCEPT ![t] = "live"]
    /\ current' = t
    /\ loads' = [loads EXCEPT ![t] = provider]
    /\ \/ /\ Go(t, "begin")
          /\ MarkActive(t)
          /\ running' = [running EXCEPT ![t] = TRUE]
       \/ Go(t, "stillborn") /\ UNCHANGED <<active, running>>
    /\ UNCHANGED <<cancelled, broken, stopAt, message>>

(* EPGGrabber::Grab: once a second, as long as the task is active, for     *)
(* GrabSeconds; then Stop.                                                 *)
Grab ==
    /\ build = "standalone" /\ spc = "new"
    /\ StartTask(1)
    /\ SuperGo("watch")
    /\ UNCHANGED <<build, taskFlow, arrays, ticks, control, user, document>>

(* Mutant: the seconds are not counted.                                    *)
SameSecond == UNCHANGED ticks

NextSecond == ticks' = ticks + 1

Watch ==
    /\ spc = "watch"
    /\ IF active[current] /\ ticks < GrabSeconds
       THEN NextSecond /\ UNCHANGED spc
       ELSE ticks' = 0 /\ SuperGo("stop")
    /\ UNCHANGED <<build, task, arrays, current, control, user, document, history>>

(* Stop clears IsRunning and calls Cancel(2).                              *)
Stop ==
    /\ spc = "stop" /\ SuperGo("cancel")
    /\ isRunning' = [isRunning EXCEPT ![current] = FALSE]
    /\ stopAt' = [stopAt EXCEPT ![current] = tpc[current]]
    /\ UNCHANGED <<build, tpc, object, active, running, cancelled, isError, arrays, current, ticks,
                   control, user, document, broken, loads, message>>

(* Action of the control: nothing is to be loaded.                         *)
Idle ==
    /\ build = "plugin" /\ spc = "top" /\ ~loading
    /\ SuperGo("reset")
    /\ UNCHANGED <<build, task, arrays, current, ticks, control, user, document, history>>

Reset ==
    /\ spc = "reset" /\ SuperGo("forget")
    /\ loading' = FALSE
    /\ UNCHANGED <<build, task, arrays, current, ticks, stopping, error, user, document, history>>

(* There is no task to delete here (TaskOnlyWhileLoading).                 *)
Forget ==
    /\ spc = "forget" /\ SuperGo("top")
    /\ stopping' = FALSE /\ error' = FALSE
    /\ UNCHANGED <<build, task, arrays, current, ticks, loading, user, document, history>>

(* Something is to be loaded: the task is created if there is none.        *)
CreateTask ==
    /\ build = "plugin" /\ spc = "top" /\ loading /\ current = 0
    /\ \E t \in Tasks : StartTask(t)
    /\ SuperGo("work")
    /\ UNCHANGED <<build, taskFlow, arrays, ticks, control, user, document>>

Resume ==
    /\ build = "plugin" /\ spc = "top" /\ loading /\ current # 0
    /\ SuperGo("work")
    /\ UNCHANGED <<build, task, arrays, current, ticks, control, user, document, history>>

(* The task is deleted when it has ended, and when it is to stop.          *)
Work ==
    /\ spc = "work"
    /\ SuperGo(IF active[current] THEN "look" ELSE "free")
    /\ UNCHANGED <<build, task, arrays, current, ticks, control, user, document, history>>

(* Mutant: the red key is not looked at while a task is active.            *)
NoBreak == FALSE

Break == stopping

Look ==
    /\ spc = "look"
    /\ SuperGo(IF Break THEN "free" ELSE "top")
    /\ broken' = IF Break THEN broken \cup {current} ELSE broken
    /\ UNCHANGED <<build, task, arrays, current, ticks, control, user, document,
                   stopAt, loads, message>>

(* ~cTaskLoadepg, by either supervisor: the arrays are freed, and then the *)
(* thread is cancelled.                                                    *)
DeleteTests ==
    /\ spc = "free"
    /\ object' = [object EXCEPT ![current] = "closing"]
    /\ SuperGo(IF arrays = "allocated" THEN "freeing" ELSE "cancel")
    /\ UNCHANGED <<build, tpc, active, running, cancelled, isRunning, isError, arrays, current,
                   ticks, control, user, document, history>>

DeleteFrees ==
    /\ spc = "freeing" /\ SuperGo("cancel")
    /\ arrays' = "none"
    /\ UNCHANGED <<build, task, current, ticks, control, user, document, history>>

AfterCancel == IF object[current] = "closing" THEN "deleted" ELSE "free"

(* cThread::Cancel(2): the thread is asked to end, waited for, and then    *)
(* cancelled, which returns at once.                                       *)
AskToEnd ==
    /\ spc = "cancel"
    /\ running' = [running EXCEPT ![current] = FALSE]
    /\ SuperGo(IF active[current] THEN "wait" ELSE AfterCancel)
    /\ ticks' = 0
    /\ UNCHANGED <<build, tpc, object, active, cancelled, isRunning, isError, arrays, current,
                   control, user, document, history>>

WaitForEnd ==
    /\ spc = "wait" /\ ticks < CancelWaits
    /\ IF active[current]
       THEN ticks' = ticks + 1 /\ UNCHANGED spc
       ELSE ticks' = 0 /\ SuperGo(AfterCancel)
    /\ UNCHANGED <<build, task, arrays, current, control, user, document, history>>

(* Mutant: after the wait nothing is done.                                 *)
LeaveThread == UNCHANGED <<cancelled, active>>

CancelThread ==
    /\ cancelled' = [cancelled EXCEPT ![current] = TRUE]
    /\ active' = [active EXCEPT ![current] = FALSE]

Kill ==
    /\ spc = "wait" /\ ticks = CancelWaits
    /\ CancelThread
    /\ ticks' = 0 /\ SuperGo(AfterCancel)
    /\ UNCHANGED <<build, tpc, object, running, isRunning, isError, arrays, current, control, user,
                   document, history>>

(* The control tells the user how the task ended, unless it broke it off.  *)
Deleted ==
    /\ spc = "deleted"
    /\ object' = [object EXCEPT ![current] = "deleted"]
    /\ current' = 0
    /\ IF build = "standalone"
       THEN SuperGo("footer") /\ UNCHANGED <<loading, message>>
       ELSE /\ SuperGo("top")
            /\ loading' = FALSE
            /\ message' = IF current \in broken THEN message
                          ELSE [message EXCEPT ![current] = IF error THEN "error" ELSE "completed"]
    /\ UNCHANGED <<build, tpc, active, running, cancelled, isRunning, isError, arrays, ticks,
                   stopping, error, user, document, broken, stopAt, loads>>

(* main closes the document and returns, which ends every thread.          *)
Footer ==
    /\ spc = "footer" /\ SuperGo("exit")
    /\ document' = Append(document, "footer")
    /\ UNCHANGED <<build, task, arrays, current, ticks, control, user, history>>

ExitProcess ==
    /\ spc = "exit" /\ SuperGo("end")
    /\ tpc' = [t \in Tasks |-> "gone"]
    /\ UNCHANGED <<build, object, active, running, cancelled, isRunning, isError, arrays, current,
                   ticks, control, user, document, history>>

SuperStep ==
    \/ Grab \/ Watch \/ Stop
    \/ Idle \/ Reset \/ Forget \/ CreateTask \/ Resume \/ Work \/ Look
    \/ DeleteTests \/ DeleteFrees \/ AskToEnd \/ WaitForEnd \/ Kill \/ Deleted
    \/ Footer \/ ExitProcess

-----------------------------------------------------------------------------
(* VDR's thread: the menus and the SVDRP commands.                         *)
Asked == build = "plugin" /\ upc = "idle"

(* The menu selects the first provider when nothing is being loaded.  (It *)
(* reads the list of providers anew, as every SVDRP command does: what is  *)
(* in the list is left out.)                                               *)
OpenMenu ==
    /\ Asked /\ ~loading /\ provider' = 1
    /\ UNCHANGED <<build, task, arrays, spc, current, ticks, control, upc, document, history>>

(* Mutant: a provider is chosen while another is being loaded.             *)
MayLoadAlways == TRUE

MayLoad == ~loading

(* Ok in the menu, or LOAD; a bad number is stored before it is refused.   *)
Load ==
    /\ Asked /\ MayLoad
    /\ \E t \in Tasks : object[t] = "none"
    /\ \E p \in Providers \cup {0} :
          /\ provider' = p
          /\ loading' = (loading \/ p # 0)
    /\ UNCHANGED <<build, task, arrays, spc, current, ticks, stopping, error, upc, document,
                   broken, stopAt, loads, message>>

(* The red key: Loading is read, and then Stopping is set.                 *)
PressRed ==
    /\ Asked /\ loading /\ upc' = "red"
    /\ UNCHANGED <<build, task, arrays, spc, current, ticks, control, provider,
                   document, history>>

SetStopping ==
    /\ upc = "red" /\ upc' = "idle"
    /\ stopping' = TRUE
    /\ UNCHANGED <<build, task, arrays, spc, current, ticks, loading, error, provider,
                   document, history>>

UserStep == OpenMenu \/ Load \/ PressRed \/ SetStopping

Next == (\E t \in Tasks : TaskStep(t)) \/ SuperStep \/ UserStep

Spec == Init /\ [][Next]_vars

(* The operating system lets the supervisor run; nothing is asked of the   *)
(* task, which may be stuck in a handler, nor of the user.                 *)
FairSpec == Spec /\ WF_vars(SuperStep)

-----------------------------------------------------------------------------
(* The tasks whose memory may go while they still run.                     *)
Doomed == IF build = "plugin" THEN broken ELSE {t \in Tasks : cancelled[t]}

(* A handler or the writer of the guide never finds the tables gone, and   *)
(* no table is freed twice, as long as no task was doomed: by being killed *)
(* in the stand-alone program, which waits for the thread before it frees; *)
(* by being stopped in the plugin, which frees before it waits.            *)
MemoryIsThere ==
    Doomed = {} =>
        /\ \A t \in Tasks : tpc[t] \in Uses \cup {"freeing"} => arrays = "allocated" /\ object[t] = "live"
        /\ spc = "freeing" => arrays = "allocated" /\ \A t \in Tasks : tpc[t] # "freeing"

(* Stop is lost, and the thread killed with what it found, exactly if it   *)
(* comes before the polling began or while the slots are being prepared.   *)
StopLostOnlyWhilePreparing ==
    \A t \in Tasks : stopAt[t] \notin {"none", "begin", "tune", "clear", "prepare"} => ~isRunning[t]

(* A task is there only while Loading is set: whoever finds Loading clear  *)
(* may change the provider, and no task that was not broken off sees it.   *)
TaskOnlyWhileLoading ==
    build = "plugin" /\ current # 0 => loading /\ provider = loads[current]

(* The message tells how this task ended, not an earlier one, though the   *)
(* outcome goes through a field that all tasks share.                      *)
TellsHowItEnded ==
    \A t \in Tasks :
        message[t] # "none" /\ broken = {} /\ tpc[t] # "stillborn" =>
            message[t] = IF isError[t] THEN "error" ELSE "completed"

(* The document is closed once, and only a task that was killed can still  *)
(* write behind its end.                                                   *)
DocumentCloses ==
    spc = "end" =>
        LET ends == {i \in DOMAIN document : document[i] = "footer"}
        IN  Cardinality(ends) = 1 /\ (~cancelled[1] => ends = {Len(document)})

(* The program ends, and the red key ends a load that has a task, whatever *)
(* the task does.  (Before there is a task the control may still be about  *)
(* to clear an old Stopping, and then the key has no effect.)              *)
GrabEnds == (build = "standalone") ~> (spc = "end")
RedEnds == (stopping /\ current # 0) ~> ~loading

=============================================================================
