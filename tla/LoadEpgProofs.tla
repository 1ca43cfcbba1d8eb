---------------------------- MODULE LoadEpgProofs ----------------------------
(***************************************************************************)
(* Proofs about loadepg's threads (module LoadEpg), for every number of    *)
(* tasks and providers and every length of the waits.                      *)
(*                                                                         *)
(* Each property has an inductive invariant of its own over the types:     *)
(*   Held     an active task is there only while Loading is set;           *)
(*   Sole     no two tasks use the arrays, and who uses them has them;     *)
(*   Told     the report and the recorded outcome agree;                   *)
(*   Stopped  where a request to stop can still be lost;                   *)
(*   Closed   what the document holds at each place of the worker.         *)
(* TaskFrame says once what a step of a task leaves alone.                 *)
(***************************************************************************)
EXTENDS LoadEpg, TLAPS, FiniteSetTheorems

(* An assignment to one element of an array keeps the type of the array.   *)
LEMMA ExceptType ==
    ASSUME NEW D, NEW R, NEW f \in [D -> R], NEW d, NEW v \in R
    PROVE  [f EXCEPT ![d] = v] \in [D -> R]
OBVIOUS

(* Every place of a task is a place.                                       *)
LEMMA AllPlaces == /\ {"none", "begin", "tune", "open", "check", "clear", "prepare", "decide",
                       "poll", "clean", "free", "freeing", "report", "exit", "gone",
                       "stillborn", "handle", "write"} = TaskPlaces
BY DEF TaskPlaces, Uses

-----------------------------------------------------------------------------
(* What the steps of a task leave alone, and what they set.                *)
LEMMA TaskFrame ==
    ASSUME NEW t \in Tasks, TaskStep(t)
    PROVE  /\ UNCHANGED <<build, object, cancelled, spc, current, ticks, loading, stopping,
                          user, history>>
           /\ \E p \in TaskPlaces : tpc' = [tpc EXCEPT ![t] = p]
           /\ active' = active \/ active' = [active EXCEPT ![t] = FALSE]
           /\ running' = running \/ running' = [running EXCEPT ![t] = FALSE]
           /\ isRunning' = isRunning \/ \E b \in BOOLEAN : isRunning' = [isRunning EXCEPT ![t] = b]
           /\ isError' = isError \/ \E b \in BOOLEAN : isError' = [isError EXCEPT ![t] = b]
           /\ arrays' \in {arrays, "none", "allocated"}
           /\ error' = error \/ error' = isError[t]
           /\ document' = document \/ document' = Append(document, "guide")
<1> USE AllPlaces DEF Go, elsewhere, control, user, history
<1>1. CASE Begin(t) BY <1>1 DEF Begin
<1>2. CASE Tune(t) BY <1>2 DEF Tune
<1>3. CASE OpenHandles(t) BY <1>3 DEF OpenHandles
<1>4. CASE Check(t) BY <1>4 DEF Check
<1>5. CASE Clear(t) BY <1>5 DEF Clear
<1>6. CASE Prepare(t) BY <1>6 DEF Prepare
<1>7. CASE Decide(t) BY <1>7 DEF Decide
<1>8. CASE Poll(t) BY <1>8 DEF Poll
<1>9. CASE Handle(t) BY <1>9 DEF Handle
<1>10. CASE Clean(t) BY <1>10 DEF Clean
<1>11. CASE WriteGuide(t) BY <1>11 DEF WriteGuide
<1>12. CASE TestArrays(t) BY <1>12 DEF TestArrays
<1>13. CASE FreeArrays(t) BY <1>13 DEF FreeArrays
<1>14. CASE Report(t) BY <1>14 DEF Report, Reported
<1>15. CASE Leave(t) BY <1>15 DEF Leave
<1>16. CASE Die(t) BY <1>16 DEF Die
<1> QED
  BY <1>1, <1>2, <1>3, <1>4, <1>5, <1>6, <1>7, <1>8, <1>9, <1>10, <1>11, <1>12, <1>13, <1>14,
     <1>15, <1>16 DEF TaskStep

-----------------------------------------------------------------------------
(* The types, and that the supervisor has a task wherever it uses one.     *)
Pieces == {"header", "guide", "footer"}

HasTask == spc \in {"watch", "stop", "work", "look", "free", "freeing", "cancel", "wait", "deleted"}
             => current # 0

LEMMA TypeInit == Init => LoadEpgTypeOK /\ HasTask
<1> SUFFICES ASSUME Init PROVE LoadEpgTypeOK /\ HasTask
  OBVIOUS
<1> USE AllPlaces, LoadEpgAssumption DEF Init
<1>1. /\ tpc \in [Tasks -> TaskPlaces] /\ stopAt \in [Tasks -> TaskPlaces]
      /\ object \in [Tasks -> {"none", "live", "closing", "deleted"}]
  OBVIOUS
<1>2. /\ active \in [Tasks -> BOOLEAN] /\ running \in [Tasks -> BOOLEAN]
      /\ cancelled \in [Tasks -> BOOLEAN]
      /\ isRunning \in [Tasks -> BOOLEAN] /\ isError \in [Tasks -> BOOLEAN]
  OBVIOUS
<1>3. /\ loads \in [Tasks -> Providers \cup {0}]
      /\ message \in [Tasks -> {"none", "completed", "error"}]
  OBVIOUS
<1>4. document \in Seq(Pieces)
  <2>1. <<>> \in Seq(Pieces) /\ <<"header">> \in Seq(Pieces)
    BY DEF Pieces
  <2> QED BY <2>1
<1>5. ticks \in 0..(GrabSeconds + CancelWaits)
  OBVIOUS
<1> QED BY <1>1, <1>2, <1>3, <1>4, <1>5 DEF LoadEpgTypeOK, HasTask, SuperPlaces, Pieces

LEMMA TypeStep == LoadEpgTypeOK /\ HasTask /\ [Next]_vars => LoadEpgTypeOK' /\ HasTask'
<1> SUFFICES ASSUME LoadEpgTypeOK, HasTask, [Next]_vars
             PROVE  LoadEpgTypeOK' /\ HasTask'
  OBVIOUS
<1>1. ASSUME NEW t \in Tasks, TaskStep(t)
      PROVE  LoadEpgTypeOK' /\ HasTask'
  <2>1. tpc' \in [Tasks -> TaskPlaces]
    BY <1>1, TaskFrame, ExceptType DEF LoadEpgTypeOK
  <2>2. active' \in [Tasks -> BOOLEAN] /\ running' \in [Tasks -> BOOLEAN]
    BY <1>1, TaskFrame, ExceptType DEF LoadEpgTypeOK
  <2>3. isRunning' \in [Tasks -> BOOLEAN] /\ isError' \in [Tasks -> BOOLEAN]
    <3>1. isRunning' \in [Tasks -> BOOLEAN]
      BY <1>1, TaskFrame, ExceptType DEF LoadEpgTypeOK
    <3>2. isError' \in [Tasks -> BOOLEAN]
      BY <1>1, TaskFrame, ExceptType DEF LoadEpgTypeOK
    <3> QED BY <3>1, <3>2
  <2>4. arrays' \in {"none", "allocated"}
    BY <1>1, TaskFrame DEF LoadEpgTypeOK
  <2>5. error' \in BOOLEAN
    <3>1. isError[t] \in BOOLEAN
      BY DEF LoadEpgTypeOK
    <3> QED BY <1>1, <3>1, TaskFrame DEF LoadEpgTypeOK
  <2>6. document' \in Seq({"header", "guide", "footer"})
    <3>1. document \in Seq(Pieces) /\ "guide" \in Pieces
      BY DEF LoadEpgTypeOK, Pieces
    <3>2. document' = document \/ document' = Append(document, "guide")
      BY <1>1, TaskFrame
    <3>3. document' \in Seq(Pieces)
      BY <3>1, <3>2
    <3> QED BY <3>3 DEF Pieces
  <2>7. UNCHANGED <<build, object, cancelled, spc, current, ticks, loading, stopping,
                    upc, provider, broken, stopAt, loads, message>>
    BY <1>1, TaskFrame DEF user, history
  <2> QED BY <2>1, <2>2, <2>3, <2>4, <2>5, <2>6, <2>7 DEF LoadEpgTypeOK, HasTask
<1>2. CASE SuperStep
  <2> USE DEF SuperGo, taskFlow, task, control, user, history, SuperPlaces
  <2>1. ASSUME NEW t \in Tasks, StartTask(t), SuperGo("watch") \/ SuperGo("work"),
               UNCHANGED <<build, taskFlow, arrays, ticks, control, user, document>>
        PROVE  LoadEpgTypeOK' /\ HasTask'
    <3>1. object' \in [Tasks -> {"none", "live", "closing", "deleted"}]
      BY <2>1, ExceptType DEF LoadEpgTypeOK, StartTask
    <3>2. loads' \in [Tasks -> Providers \cup {0}]
      BY <2>1, ExceptType DEF LoadEpgTypeOK, StartTask
    <3>3. tpc' \in [Tasks -> TaskPlaces]
      BY <2>1, AllPlaces, ExceptType DEF LoadEpgTypeOK, StartTask, Go
    <3>4. active' \in [Tasks -> BOOLEAN] /\ running' \in [Tasks -> BOOLEAN]
      BY <2>1, ExceptType DEF LoadEpgTypeOK, StartTask, MarkActive
    <3>5. current' = t /\ t # 0 /\ UNCHANGED <<cancelled, broken, stopAt, message>>
      BY <2>1, LoadEpgAssumption DEF StartTask, Tasks
    <3> QED BY <2>1, <3>1, <3>2, <3>3, <3>4, <3>5 DEF LoadEpgTypeOK, HasTask
  <2>2. CASE Grab
    BY <2>1, <2>2, LoadEpgAssumption DEF Grab, Tasks
  <2>3. CASE CreateTask
    BY <2>1, <2>3 DEF CreateTask
  <2>4. CASE Watch
    <3>1. ticks' \in 0..(GrabSeconds + CancelWaits)
      BY <2>4, LoadEpgAssumption DEF Watch, NextSecond, LoadEpgTypeOK
    <3> QED BY <2>4, <3>1 DEF Watch, LoadEpgTypeOK, HasTask
  <2>5. CASE Stop
    <3>1. isRunning' \in [Tasks -> BOOLEAN]
      BY <2>5, ExceptType DEF Stop, LoadEpgTypeOK
    <3>2. tpc[current] \in TaskPlaces
      BY <2>5 DEF Stop, LoadEpgTypeOK, HasTask
    <3>3. stopAt' \in [Tasks -> TaskPlaces]
      BY <2>5, <3>2, ExceptType DEF Stop, LoadEpgTypeOK
    <3> QED BY <2>5, <3>1, <3>3 DEF Stop, LoadEpgTypeOK, HasTask
  <2>6. CASE Idle BY <2>6 DEF Idle, LoadEpgTypeOK, HasTask
  <2>7. CASE Reset BY <2>7 DEF Reset, LoadEpgTypeOK, HasTask
  <2>8. CASE Forget BY <2>8 DEF Forget, LoadEpgTypeOK, HasTask
  <2>9. CASE Resume BY <2>9 DEF Resume, LoadEpgTypeOK, HasTask
  <2>10. CASE Work BY <2>10 DEF Work, LoadEpgTypeOK, HasTask
  <2>11. CASE Look BY <2>11 DEF Look, LoadEpgTypeOK, HasTask
  <2>12. CASE DeleteTests
    <3>1. object' \in [Tasks -> {"none", "live", "closing", "deleted"}]
      BY <2>12, ExceptType DEF DeleteTests, LoadEpgTypeOK
    <3> QED BY <2>12, <3>1 DEF DeleteTests, LoadEpgTypeOK, HasTask
  <2>13. CASE DeleteFrees BY <2>13 DEF DeleteFrees, LoadEpgTypeOK, HasTask
  <2>14. CASE AskToEnd
    <3>1. running' \in [Tasks -> BOOLEAN]
      BY <2>14, ExceptType DEF AskToEnd, LoadEpgTypeOK
    <3>2. ticks' \in 0..(GrabSeconds + CancelWaits)
      BY <2>14, LoadEpgAssumption DEF AskToEnd
    <3> QED BY <2>14, <3>1, <3>2 DEF AskToEnd, AfterCancel, LoadEpgTypeOK, HasTask
  <2>15. CASE WaitForEnd
    <3>1. ticks' \in 0..(GrabSeconds + CancelWaits)
      BY <2>15, LoadEpgAssumption DEF WaitForEnd, LoadEpgTypeOK
    <3> QED BY <2>15, <3>1 DEF WaitForEnd, AfterCancel, LoadEpgTypeOK, HasTask
  <2>16. CASE Kill
    <3>1. cancelled' \in [Tasks -> BOOLEAN] /\ active' \in [Tasks -> BOOLEAN]
      BY <2>16, ExceptType DEF Kill, CancelThread, LoadEpgTypeOK
    <3>2. ticks' \in 0..(GrabSeconds + CancelWaits)
      BY <2>16, LoadEpgAssumption DEF Kill
    <3> QED BY <2>16, <3>1, <3>2 DEF Kill, AfterCancel, LoadEpgTypeOK, HasTask
  <2>17. CASE Deleted
    <3>1. object' \in [Tasks -> {"none", "live", "closing", "deleted"}]
      BY <2>17, ExceptType DEF Deleted, LoadEpgTypeOK
    <3>2. message' \in [Tasks -> {"none", "completed", "error"}]
      BY <2>17, ExceptType DEF Deleted, LoadEpgTypeOK
    <3> QED BY <2>17, <3>1, <3>2 DEF Deleted, LoadEpgTypeOK, HasTask
  <2>18. CASE Footer
    <3>1. document' \in Seq({"header", "guide", "footer"})
      BY <2>18 DEF Footer, LoadEpgTypeOK
    <3> QED BY <2>18, <3>1 DEF Footer, LoadEpgTypeOK, HasTask
  <2>19. CASE ExitProcess
    <3>1. tpc' \in [Tasks -> TaskPlaces]
      BY <2>19, AllPlaces DEF ExitProcess
    <3> QED BY <2>19, <3>1 DEF ExitProcess, LoadEpgTypeOK, HasTask
  <2> QED
    BY <1>2, <2>2, <2>3, <2>4, <2>5, <2>6, <2>7, <2>8, <2>9, <2>10, <2>11, <2>12, <2>13, <2>14,
       <2>15, <2>16, <2>17, <2>18, <2>19 DEF SuperStep
<1>3. CASE UserStep
  <2> USE DEF task, control, user, history
  <2>1. CASE OpenMenu
    BY <2>1, LoadEpgAssumption DEF OpenMenu, LoadEpgTypeOK, HasTask, Providers
  <2>2. CASE Load BY <2>2 DEF Load, LoadEpgTypeOK, HasTask
  <2>3. CASE PressRed BY <2>3 DEF PressRed, LoadEpgTypeOK, HasTask
  <2>4. CASE SetStopping BY <2>4 DEF SetStopping, LoadEpgTypeOK, HasTask
  <2> QED BY <1>3, <2>1, <2>2, <2>3, <2>4 DEF UserStep
<1>4. CASE UNCHANGED vars
  BY <1>4 DEF vars, task, control, user, history, LoadEpgTypeOK, HasTask
<1> QED BY <1>1, <1>2, <1>3, <1>4 DEF Next

(* Every variable keeps its type.                                          *)
THEOREM TypeCorrect == Spec => []LoadEpgTypeOK
BY TypeInit, TypeStep, PTL DEF Spec
LEMMA TypeAlways == Spec => [](LoadEpgTypeOK /\ HasTask)
BY TypeInit, TypeStep, PTL DEF Spec

-----------------------------------------------------------------------------
(* A task is there only while Loading is set: the control clears Loading   *)
(* only where it has no task, and VDR's thread changes the provider only   *)
(* where Loading is clear.                                                 *)
Held ==
    /\ current \in Tasks \cup {0} /\ loads \in [Tasks -> Providers \cup {0}]
    /\ build = "plugin" => spc \notin {"new", "watch", "stop", "footer", "exit", "end"}
    /\ spc \in {"top", "work", "look", "reset", "forget"} => build = "plugin"
    /\ spc \in {"reset", "forget"} => current = 0
    /\ TaskOnlyWhileLoading

LEMMA HeldStep == LoadEpgTypeOK /\ LoadEpgTypeOK' /\ HasTask /\ Held /\ [Next]_vars => Held'
<1> SUFFICES ASSUME LoadEpgTypeOK, LoadEpgTypeOK', HasTask, Held, [Next]_vars
             PROVE  Held'
  OBVIOUS
<1>0. current' \in Tasks \cup {0} /\ loads' \in [Tasks -> Providers \cup {0}]
  BY DEF LoadEpgTypeOK
<1> USE <1>0 DEF Held, TaskOnlyWhileLoading
<1>1. ASSUME NEW t \in Tasks, TaskStep(t)
      PROVE  Held'
  BY <1>1, TaskFrame DEF user, history
<1>2. CASE SuperStep
  <2> USE DEF SuperGo, taskFlow, task, control, user, history
  <2>1. CASE Grab BY <2>1 DEF Grab
  <2>2. CASE Watch BY <2>2 DEF Watch
  <2>3. CASE Stop BY <2>3 DEF Stop
  <2>4. CASE Idle BY <2>4 DEF Idle
  <2>5. CASE Reset BY <2>5 DEF Reset
  <2>6. CASE Forget BY <2>6 DEF Forget
  <2>7. CASE CreateTask
    <3>1. PICK t \in Tasks : StartTask(t)
      BY <2>7 DEF CreateTask
    <3>2. loads'[t] = provider /\ current' = t
      BY <3>1 DEF StartTask
    <3> QED BY <2>7, <3>2 DEF CreateTask
  <2>8. CASE Resume BY <2>8 DEF Resume
  <2>9. CASE Work BY <2>9 DEF Work
  <2>10. CASE Look BY <2>10 DEF Look
  <2>11. CASE DeleteTests BY <2>11 DEF DeleteTests
  <2>12. CASE DeleteFrees BY <2>12 DEF DeleteFrees
  <2>13. CASE AskToEnd BY <2>13 DEF AskToEnd, AfterCancel
  <2>14. CASE WaitForEnd BY <2>14 DEF WaitForEnd, AfterCancel
  <2>15. CASE Kill BY <2>15 DEF Kill, AfterCancel
  <2>16. CASE Deleted BY <2>16 DEF Deleted, LoadEpgTypeOK
  <2>17. CASE Footer BY <2>17 DEF Footer
  <2>18. CASE ExitProcess BY <2>18 DEF ExitProcess
  <2> QED
    BY <1>2, <2>1, <2>2, <2>3, <2>4, <2>5, <2>6, <2>7, <2>8, <2>9, <2>10, <2>11, <2>12, <2>13,
       <2>14, <2>15, <2>16, <2>17, <2>18 DEF SuperStep
<1>3. CASE UserStep
  BY <1>3 DEF UserStep, OpenMenu, Load, PressRed, SetStopping, MayLoad, Asked,
              task, control, user, history
<1>4. CASE UNCHANGED vars
  BY <1>4 DEF vars, task, control, user, history
<1> QED BY <1>1, <1>2, <1>3, <1>4 DEF Next

LEMMA HeldInit == Init => Held
BY TypeInit DEF Init, Held, TaskOnlyWhileLoading, LoadEpgTypeOK

(* A task is there only while Loading is set, and its provider stays the   *)
(* one it was created for.                                                 *)
THEOREM HeldWhileLoading == Spec => []TaskOnlyWhileLoading
<1>1. Held => TaskOnlyWhileLoading
  BY DEF Held
<1> QED BY <1>1, HeldInit, HeldStep, TypeAlways, PTL DEF Spec

-----------------------------------------------------------------------------
(* While no task was doomed a thread runs only for the supervisor's task,  *)
(* its flag active tells the truth, and the supervisor frees only when no  *)
(* thread runs.                                                            *)
Live == TaskPlaces \ {"none", "gone", "stillborn"}
Working == {"tune", "open", "check", "clear", "prepare", "decide", "poll", "handle", "clean",
            "write", "freeing"}

Sole ==
    Doomed = {} =>
      /\ \A t \in Tasks : ~cancelled[t]
      /\ \A t \in Tasks : active[t] <=> tpc[t] \in Live
      /\ \A t \in Tasks : tpc[t] \in Live =>
           /\ t = current /\ object[t] = "live"
           /\ spc \in {"watch", "stop", "cancel", "wait", "top", "work", "look"}
           /\ build = "plugin" => spc \in {"top", "work", "look"}
      /\ \A t \in Tasks : tpc[t] \in Working => arrays = "allocated"
      /\ spc = "freeing" => arrays = "allocated"
      /\ build = "plugin" => spc # "wait"

(* The build is chosen once, and a task that was doomed stays so.          *)
LEMMA BuildStays == [Next]_vars => build' = build
<1> SUFFICES ASSUME [Next]_vars PROVE build' = build
  OBVIOUS
<1>1. CASE \E t \in Tasks : TaskStep(t) BY <1>1, TaskFrame
<1>2. CASE SuperStep
  BY <1>2 DEF SuperStep, Grab, Watch, Stop, Idle, Reset, Forget, CreateTask, Resume, Work,
              Look, DeleteTests, DeleteFrees, AskToEnd, WaitForEnd, Kill, Deleted, Footer,
              ExitProcess
<1>3. CASE UserStep
  BY <1>3 DEF UserStep, OpenMenu, Load, PressRed, SetStopping
<1>4. CASE UNCHANGED vars BY <1>4 DEF vars
<1> QED BY <1>1, <1>2, <1>3, <1>4 DEF Next

LEMMA DoomedStays ==
    LoadEpgTypeOK /\ [Next]_vars /\ Doomed # {} => Doomed' # {}
<1> SUFFICES ASSUME LoadEpgTypeOK, [Next]_vars, Doomed # {} PROVE Doomed' # {}
  OBVIOUS
<1>0. broken \subseteq broken' /\ \A t \in Tasks : cancelled[t] => cancelled'[t]
  <2> USE DEF task, history
  <2>1. CASE \E t \in Tasks : TaskStep(t) BY <2>1, TaskFrame
  <2>2. CASE SuperStep
    <3>1. CASE Kill
      BY <3>1 DEF Kill, CancelThread, LoadEpgTypeOK
    <3>2. CASE ~Kill
      BY <2>2, <3>2 DEF SuperStep, Grab, Watch, Stop, Idle, Reset, Forget, CreateTask, Resume, Work,
                Look, DeleteTests, DeleteFrees, AskToEnd, WaitForEnd, Deleted, Footer,
                ExitProcess, StartTask
    <3> QED BY <3>1, <3>2
  <2>3. CASE UserStep
    BY <2>3 DEF UserStep, OpenMenu, Load, PressRed, SetStopping
  <2>4. CASE UNCHANGED vars BY <2>4 DEF vars
  <2> QED BY <2>1, <2>2, <2>3, <2>4 DEF Next
<1> QED BY <1>0, BuildStays DEF Doomed

LEMMA SoleStep ==
    LoadEpgTypeOK /\ LoadEpgTypeOK' /\ HasTask /\ Held /\ Sole /\ [Next]_vars => Sole'
<1> SUFFICES ASSUME LoadEpgTypeOK, LoadEpgTypeOK', HasTask, Held, Sole, [Next]_vars, (Doomed = {})'
             PROVE  Sole'
  BY DEF Sole
<1>0. 0 \notin Tasks
  BY LoadEpgAssumption DEF Tasks
<1>1. build' = build
  BY BuildStays
<1>2. CASE Doomed = {}
  <2>0. /\ \A t \in Tasks : ~cancelled[t]
        /\ \A t \in Tasks : active[t] <=> tpc[t] \in Live
        /\ \A t \in Tasks : tpc[t] \in Live =>
             /\ t = current /\ object[t] = "live"
             /\ spc \in {"watch", "stop", "cancel", "wait", "top", "work", "look"}
             /\ build = "plugin" => spc \in {"top", "work", "look"}
        /\ \A t \in Tasks : tpc[t] \in Working => arrays = "allocated"
        /\ spc = "freeing" => arrays = "allocated"
        /\ build = "plugin" => spc # "wait"
    BY <1>2 DEF Sole
  <2>01. /\ Live = {"begin", "tune", "open", "check", "clear", "prepare", "decide", "poll",
                    "clean", "free", "freeing", "report", "exit", "handle", "write"}
         /\ Working \subseteq Live
    BY AllPlaces DEF Live, Working
  <2>1. ASSUME NEW t \in Tasks, TaskStep(t)
        PROVE  Sole'
    <3>1. /\ UNCHANGED <<build, object, cancelled, spc, current>>
          /\ \A u \in Tasks \ {t} : tpc'[u] = tpc[u] /\ active'[u] = active[u]
      BY <2>1, TaskFrame DEF LoadEpgTypeOK
    <3>2. \A u \in Tasks \ {t} : tpc[t] \in Live => tpc[u] \notin Live
      BY <2>0
    <3>3. /\ tpc[t] \in Live
          /\ active'[t] <=> tpc'[t] \in Live
          /\ tpc'[t] \in Working => arrays' = "allocated"
      <4> USE <2>0, <2>01 DEF Go, LoadEpgTypeOK, At
      <4>1. CASE Begin(t) BY <4>1 DEF Begin, Working
      <4>2. CASE Tune(t) BY <4>2 DEF Tune, Working
      <4>3. CASE OpenHandles(t) BY <4>3 DEF OpenHandles, Working
      <4>4. CASE Check(t) BY <4>4 DEF Check, Working
      <4>5. CASE Clear(t) BY <4>5 DEF Clear, Working
      <4>6. CASE Prepare(t) BY <4>6 DEF Prepare, Working
      <4>7. CASE Decide(t) BY <4>7 DEF Decide, Working
      <4>8. CASE Poll(t) BY <4>8 DEF Poll, Working
      <4>9. CASE Handle(t) BY <4>9 DEF Handle, Working
      <4>10. CASE Clean(t) BY <4>10 DEF Clean, Working
      <4>11. CASE WriteGuide(t) BY <4>11 DEF WriteGuide, Working
      <4>12. CASE TestArrays(t) BY <4>12 DEF TestArrays, Working
      <4>13. CASE FreeArrays(t) BY <4>13 DEF FreeArrays, Working
      <4>14. CASE Report(t) BY <4>14 DEF Report, Working
      <4>15. CASE Leave(t) BY <4>15 DEF Leave, Working
      <4>16. CASE Die(t) BY <4>16 DEF Die
      <4> QED
        BY <2>1, <4>1, <4>2, <4>3, <4>4, <4>5, <4>6, <4>7, <4>8, <4>9, <4>10, <4>11, <4>12,
           <4>13, <4>14, <4>15, <4>16 DEF TaskStep
    <3>4. spc # "freeing"
      BY <2>0, <3>3
    <3> QED BY <2>0, <2>01, <3>1, <3>2, <3>3, <3>4 DEF Sole
  <2>2. CASE SuperStep
    <3> USE DEF SuperGo, taskFlow, task, control, user, history
    <3>1. ASSUME NEW t \in Tasks, StartTask(t), \A u \in Tasks : tpc[u] \notin Live,
                 \/ spc' = "watch" /\ build = "standalone"
                 \/ spc' = "work",
                 UNCHANGED <<build, taskFlow, arrays, ticks, control, user, document>>
          PROVE  Sole'
      <4>1. /\ current' = t /\ object'[t] = "live" /\ UNCHANGED <<build, arrays, cancelled>>
            /\ \A u \in Tasks \ {t} : tpc'[u] = tpc[u] /\ active'[u] = active[u]
        BY <3>1 DEF StartTask, Go, MarkActive, LoadEpgTypeOK
      <4>2. \/ tpc'[t] = "begin" /\ active'[t]
            \/ tpc'[t] = "stillborn" /\ active'[t] = active[t]
        BY <3>1 DEF StartTask, Go, MarkActive, LoadEpgTypeOK
      <4>3. "begin" \in Live /\ "begin" \notin Working /\ "stillborn" \notin Live
        BY <2>01 DEF Working
      <4> QED BY <2>0, <2>01, <3>1, <4>1, <4>2, <4>3 DEF Sole
    <3>2. CASE Grab
      <4>1. 1 \in Tasks
        BY LoadEpgAssumption DEF Tasks
      <4>2. \A u \in Tasks : tpc[u] \notin Live
        BY <2>0, <3>2 DEF Grab
      <4> QED BY <3>1, <3>2, <4>1, <4>2 DEF Grab
    <3>3. CASE CreateTask
      <4>2. \A u \in Tasks : tpc[u] \notin Live
        BY <1>0, <2>0, <3>3 DEF CreateTask
      <4> QED BY <3>1, <3>3, <4>2 DEF CreateTask
    <3>4. CASE Watch BY <2>0, <3>4 DEF Watch, Sole
    <3>5. CASE Stop BY <2>0, <3>5 DEF Stop, Sole, Held
    <3>6. CASE Idle
      <4>1. \A u \in Tasks : tpc[u] \notin Live
        BY <1>0, <2>0, <3>6 DEF Idle, Held, TaskOnlyWhileLoading
      <4> QED BY <2>0, <3>6, <4>1 DEF Idle, Sole
    <3>7. CASE Reset BY <2>0, <3>7 DEF Reset, Sole
    <3>8. CASE Forget BY <2>0, <3>8 DEF Forget, Sole
    <3>9. CASE Resume BY <2>0, <3>9 DEF Resume, Sole
    <3>10. CASE Work
      <4>1. current \in Tasks
        BY <3>10 DEF Work, HasTask, LoadEpgTypeOK
      <4>2. CASE active[current]
        BY <2>0, <3>10, <4>2 DEF Work, Sole
      <4>3. CASE ~active[current]
        <5>1. \A u \in Tasks : tpc[u] \notin Live
          BY <2>0, <4>1, <4>3
        <5> QED BY <2>0, <3>10, <4>3, <5>1 DEF Work, Sole
      <4> QED BY <4>2, <4>3
    <3>11. CASE Look
      <4>1. current \in Tasks
        BY <3>11 DEF Look, HasTask, LoadEpgTypeOK
      <4>2. CASE Break
        <5>1. current \in broken' /\ build' = build /\ build = "plugin"
          BY <3>11, <4>2 DEF Look, Break, Held
        <5> QED BY <5>1 DEF Doomed
      <4>3. CASE ~Break
        BY <2>0, <3>11, <4>3 DEF Look, Sole, Break
      <4> QED BY <4>2, <4>3
    <3>12. CASE DeleteTests
      <4>1. \A u \in Tasks : tpc[u] \notin Live
        BY <2>0, <3>12 DEF DeleteTests
      <4> QED BY <2>0, <2>01, <3>12, <4>1 DEF DeleteTests, Sole
    <3>13. CASE DeleteFrees
      <4>1. \A u \in Tasks : tpc[u] \notin Live
        BY <2>0, <3>13 DEF DeleteFrees
      <4> QED BY <2>0, <2>01, <3>13, <4>1 DEF DeleteFrees, Sole
    <3>14. CASE AskToEnd
      <4>1. current \in Tasks
        BY <3>14 DEF AskToEnd, HasTask, LoadEpgTypeOK
      <4>2. CASE active[current]
        BY <2>0, <3>14, <4>1, <4>2 DEF AskToEnd, Sole
      <4>3. CASE ~active[current]
        <5>1. \A u \in Tasks : tpc[u] \notin Live
          BY <2>0, <4>1, <4>3
        <5> QED BY <2>0, <3>14, <4>3, <5>1 DEF AskToEnd, Sole, AfterCancel
      <4> QED BY <4>2, <4>3
    <3>15. CASE WaitForEnd
      <4>1. current \in Tasks
        BY <3>15 DEF WaitForEnd, HasTask, LoadEpgTypeOK
      <4>2. CASE active[current]
        BY <2>0, <3>15, <4>1, <4>2 DEF WaitForEnd, Sole
      <4>3. CASE ~active[current]
        <5>1. \A u \in Tasks : tpc[u] \notin Live
          BY <2>0, <4>1, <4>3
        <5> QED BY <2>0, <3>15, <4>3, <5>1 DEF WaitForEnd, Sole, AfterCancel
      <4> QED BY <4>2, <4>3
    <3>16. CASE Kill
      <4>1. current \in Tasks /\ build = "standalone" /\ build' = build
        BY <2>0, <3>16 DEF Kill, HasTask, LoadEpgTypeOK
      <4>2. cancelled'[current]
        BY <3>16, <4>1 DEF Kill, CancelThread, LoadEpgTypeOK
      <4> QED BY <4>1, <4>2 DEF Doomed
    <3>17. CASE Deleted
      <4>1. \A u \in Tasks : tpc[u] \notin Live
        BY <2>0, <3>17 DEF Deleted
      <4> QED BY <2>0, <2>01, <3>17, <4>1 DEF Deleted, Sole
    <3>18. CASE Footer BY <2>0, <3>18 DEF Footer, Sole
    <3>19. CASE ExitProcess
      <4>1. \A u \in Tasks : tpc[u] \notin Live
        BY <2>0, <3>19 DEF ExitProcess
      <4> QED BY <2>0, <2>01, <3>19, <4>1 DEF ExitProcess, Sole
    <3> QED
      BY <2>2, <3>2, <3>3, <3>4, <3>5, <3>6, <3>7, <3>8, <3>9, <3>10, <3>11, <3>12, <3>13,
         <3>14, <3>15, <3>16, <3>17, <3>18, <3>19 DEF SuperStep
  <2>3. CASE UserStep
    BY <2>0, <2>3 DEF Sole, UserStep, OpenMenu, Load, PressRed, SetStopping, task
  <2>4. CASE UNCHANGED vars
    BY <2>0, <2>4 DEF Sole, vars, task
  <2> QED BY <2>1, <2>2, <2>3, <2>4 DEF Next
<1> QED BY <1>1, <1>2, DoomedStays

LEMMA SoleAlways == Spec => []Sole
<1>1. Init => Sole
  BY DEF Init, Sole, Live, Working
<1> QED BY <1>1, HeldInit, HeldStep, SoleStep, TypeAlways, PTL DEF Spec

(* No handler finds the tables gone, and none is freed twice, while no     *)
(* task was doomed.                                                        *)
THEOREM MemoryStays == Spec => []MemoryIsThere
<1>1. Sole /\ LoadEpgTypeOK => MemoryIsThere
  <2> SUFFICES ASSUME Sole, LoadEpgTypeOK, Doomed = {} PROVE MemoryIsThere
    BY DEF MemoryIsThere
  <2>1. Uses \cup {"freeing"} \subseteq Working /\ Uses \cup {"freeing"} \subseteq Live
    BY DEF Uses, Working, Live, TaskPlaces
  <2>2. \A t \in Tasks : tpc[t] \in Uses \cup {"freeing"} => arrays = "allocated" /\ object[t] = "live"
    BY <2>1 DEF Sole
  <2>3. spc = "freeing" => arrays = "allocated" /\ \A t \in Tasks : tpc[t] # "freeing"
    BY <2>1 DEF Sole
  <2> QED BY <2>2, <2>3 DEF MemoryIsThere
<1> QED BY <1>1, SoleAlways, TypeAlways, PTL

-----------------------------------------------------------------------------
(* The field error belongs to the supervisor's task from its report on.    *)
Told ==
    /\ build = "standalone" => \A t \in Tasks : message[t] = "none"
    /\ build = "plugin" /\ broken = {} =>
         /\ \A t \in Tasks : object[t] = "none" => tpc[t] = "none"
         /\ \A t \in Tasks : message[t] # "none" => object[t] = "deleted" /\ tpc[t] \notin Live
         /\ current # 0 => object[current] \in {"live", "closing"} /\ tpc[current] # "none"
         /\ current # 0 /\ tpc[current] \in {"exit", "gone"} => error = isError[current]
         /\ TellsHowItEnded

LEMMA ToldInit == Init => Told
<1> SUFFICES ASSUME Init PROVE Told
  OBVIOUS
<1>1. \A t \in Tasks : message[t] = "none" /\ tpc[t] = "none"
  BY DEF Init
<1>2. current = 0
  BY DEF Init
<1> QED BY <1>1, <1>2 DEF Told, TellsHowItEnded

LEMMA ToldStep ==
    LoadEpgTypeOK /\ LoadEpgTypeOK' /\ HasTask /\ Held /\ Sole /\ Told /\ [Next]_vars => Told'
<1> SUFFICES ASSUME LoadEpgTypeOK, LoadEpgTypeOK', HasTask, Held, Sole, Told, [Next]_vars
             PROVE  Told'
  OBVIOUS
<1>0. build' = build /\ build \in {"standalone", "plugin"} /\ 0 \notin Tasks
  BY BuildStays, LoadEpgAssumption DEF LoadEpgTypeOK, Tasks
<1>1. CASE build = "standalone"
  <2>1. UNCHANGED message
    <3> USE <1>1 DEF history
    <3>1. CASE \E t \in Tasks : TaskStep(t) BY <3>1, TaskFrame
    <3>2. CASE SuperStep
      BY <3>2 DEF SuperStep, Grab, Watch, Stop, Idle, Reset, Forget, CreateTask, Resume, Work,
                  Look, DeleteTests, DeleteFrees, AskToEnd, WaitForEnd, Kill, Deleted, Footer,
                  ExitProcess, StartTask
    <3>3. CASE UserStep
      BY <3>3 DEF UserStep, OpenMenu, Load, PressRed, SetStopping
    <3>4. CASE UNCHANGED vars BY <3>4 DEF vars
    <3> QED BY <3>1, <3>2, <3>3, <3>4 DEF Next
  <2> QED BY <1>0, <1>1, <2>1 DEF Told
<1>2. CASE build = "plugin" /\ broken' # {}
  BY <1>0, <1>2 DEF Told
<1>3. CASE build = "plugin" /\ broken' = {}
  <2>1. broken = {} /\ Doomed = {}
    BY <1>0, <1>3, DoomedStays DEF Doomed
  <2>2. /\ \A t \in Tasks : ~cancelled[t]
        /\ \A t \in Tasks : active[t] <=> tpc[t] \in Live
        /\ \A t \in Tasks : tpc[t] \in Live =>
             t = current /\ object[t] = "live" /\ spc \in {"top", "work", "look"}
    BY <1>3, <2>1 DEF Sole
  <2>3. /\ \A t \in Tasks : object[t] = "none" => tpc[t] = "none"
        /\ \A t \in Tasks : message[t] # "none" => object[t] = "deleted" /\ tpc[t] \notin Live
        /\ current # 0 => object[current] \in {"live", "closing"} /\ tpc[current] # "none"
        /\ current # 0 /\ tpc[current] \in {"exit", "gone"} => error = isError[current]
        /\ \A t \in Tasks : message[t] # "none" /\ tpc[t] # "stillborn" =>
             message[t] = IF isError[t] THEN "error" ELSE "completed"
    BY <1>3, <2>1 DEF Told, TellsHowItEnded
  <2>4. /\ Live = {"begin", "tune", "open", "check", "clear", "prepare", "decide", "poll",
                   "clean", "free", "freeing", "report", "exit", "handle", "write"}
        /\ TaskPlaces = Live \cup {"none", "gone", "stillborn"}
    BY AllPlaces DEF Live
  <2>5. SUFFICES
          /\ \A t \in Tasks : object'[t] = "none" => tpc'[t] = "none"
          /\ \A t \in Tasks : message'[t] # "none" => object'[t] = "deleted" /\ tpc'[t] \notin Live
          /\ current' # 0 => object'[current'] \in {"live", "closing"} /\ tpc'[current'] # "none"
          /\ current' # 0 /\ tpc'[current'] \in {"exit", "gone"} => error' = isError'[current']
          /\ \A t \in Tasks : message'[t] # "none" /\ tpc'[t] # "stillborn" =>
               message'[t] = IF isError'[t] THEN "error" ELSE "completed"
    BY <1>0, <1>3 DEF Told, TellsHowItEnded
  <2>6. ASSUME NEW t \in Tasks, TaskStep(t)
        PROVE  /\ \A u \in Tasks : object'[u] = "none" => tpc'[u] = "none"
               /\ \A u \in Tasks : message'[u] # "none" => object'[u] = "deleted" /\ tpc'[u] \notin Live
               /\ current' # 0 => object'[current'] \in {"live", "closing"} /\ tpc'[current'] # "none"
               /\ current' # 0 /\ tpc'[current'] \in {"exit", "gone"} => error' = isError'[current']
               /\ \A u \in Tasks : message'[u] # "none" /\ tpc'[u] # "stillborn" =>
                    message'[u] = IF isError'[u] THEN "error" ELSE "completed"
    <3>1. /\ UNCHANGED <<object, current, message>>
          /\ \A u \in Tasks \ {t} : tpc'[u] = tpc[u] /\ isError'[u] = isError[u]
      BY <2>6, TaskFrame DEF LoadEpgTypeOK, history
    <3>2. tpc[t] \in Live /\ tpc'[t] # "none"
          /\ (tpc'[t] \in {"exit", "gone"} =>
                \/ tpc[t] = "report" /\ error' = isError[t] /\ isError' = isError
                \/ tpc[t] = "exit" /\ error' = error /\ isError' = isError)
      <4> USE <1>3, <2>2, <2>4 DEF Go, LoadEpgTypeOK, At, elsewhere, control
      <4>1. CASE Begin(t) BY <4>1 DEF Begin
      <4>2. CASE Tune(t) BY <4>2 DEF Tune
      <4>3. CASE OpenHandles(t) BY <4>3 DEF OpenHandles
      <4>4. CASE Check(t) BY <4>4 DEF Check
      <4>5. CASE Clear(t) BY <4>5 DEF Clear
      <4>6. CASE Prepare(t) BY <4>6 DEF Prepare
      <4>7. CASE Decide(t) BY <4>7 DEF Decide
      <4>8. CASE Poll(t) BY <4>8 DEF Poll
      <4>9. CASE Handle(t) BY <4>9 DEF Handle
      <4>10. CASE Clean(t) BY <4>10 DEF Clean
      <4>11. CASE WriteGuide(t) BY <4>11 DEF WriteGuide
      <4>12. CASE TestArrays(t) BY <4>12 DEF TestArrays
      <4>13. CASE FreeArrays(t) BY <4>13 DEF FreeArrays
      <4>14. CASE Report(t) BY <4>14 DEF Report, Reported
      <4>15. CASE Leave(t) BY <4>15 DEF Leave
      <4>16. CASE Die(t) BY <4>16 DEF Die
      <4> QED
        BY <2>6, <4>1, <4>2, <4>3, <4>4, <4>5, <4>6, <4>7, <4>8, <4>9, <4>10, <4>11, <4>12,
           <4>13, <4>14, <4>15, <4>16 DEF TaskStep
    <3>3. t = current /\ object[t] = "live" /\ message[t] = "none"
      BY <2>2, <2>3, <3>2
    <3>4. \A u \in Tasks : object'[u] = "none" => tpc'[u] = "none"
      BY <2>3, <3>1, <3>3
    <3>5. \A u \in Tasks : message'[u] # "none" => object'[u] = "deleted" /\ tpc'[u] \notin Live
      BY <2>3, <3>1, <3>3
    <3>6. current' # 0 => object'[current'] \in {"live", "closing"} /\ tpc'[current'] # "none"
      BY <2>3, <3>1, <3>2, <3>3
    <3>7. current' # 0 /\ tpc'[current'] \in {"exit", "gone"} => error' = isError'[current']
      <4>1. CASE tpc[t] = "report" /\ error' = isError[t] /\ isError' = isError
        BY <3>1, <3>3, <4>1
      <4>2. CASE tpc[t] = "exit" /\ error' = error /\ isError' = isError
        BY <1>0, <2>3, <3>1, <3>3, <4>2
      <4>3. CASE tpc'[t] \notin {"exit", "gone"}
        BY <3>1, <3>3, <4>3
      <4> QED BY <3>2, <4>1, <4>2, <4>3
    <3>8. \A u \in Tasks : message'[u] # "none" /\ tpc'[u] # "stillborn" =>
            message'[u] = IF isError'[u] THEN "error" ELSE "completed"
      BY <2>3, <3>1, <3>3
    <3> QED BY <3>4, <3>5, <3>6, <3>7, <3>8
  <2>7. CASE SuperStep
    <3> USE DEF SuperGo, taskFlow, task, control, user, history
    <3>1. CASE CreateTask
      <4>1. PICK t \in Tasks : StartTask(t)
        BY <3>1 DEF CreateTask
      <4>2. object[t] = "none" /\ current' = t /\ object'[t] = "live" /\ UNCHANGED message
        BY <4>1 DEF StartTask, LoadEpgTypeOK
      <4>3. tpc'[t] \in {"begin", "stillborn"}
        BY <4>1 DEF StartTask, Go, LoadEpgTypeOK
      <4>4. \A u \in Tasks \ {t} : tpc'[u] = tpc[u] /\ object'[u] = object[u]
        BY <4>1 DEF StartTask, Go, LoadEpgTypeOK
      <4>5. UNCHANGED isError
        BY <3>1 DEF CreateTask
      <4> QED BY <2>3, <2>4, <4>2, <4>3, <4>4, <4>5
    <3>2. CASE Deleted
      <4>1. current \in Tasks /\ tpc[current] \notin Live /\ tpc[current] \in TaskPlaces
        BY <2>2, <3>2 DEF Deleted, HasTask, LoadEpgTypeOK
      <4>2. tpc[current] \in {"gone", "stillborn"}
        BY <1>0, <2>3, <2>4, <4>1
      <4>3. /\ UNCHANGED <<tpc, isError>> /\ current' = 0
            /\ object' = [object EXCEPT ![current] = "deleted"]
            /\ message' = [message EXCEPT ![current] = IF error THEN "error" ELSE "completed"]
        BY <1>3, <2>1, <3>2 DEF Deleted
      <4>4. tpc[current] = "gone" => error = isError[current]
        BY <1>0, <2>3, <4>1
      <4>5. /\ object'[current] = "deleted"
            /\ message'[current] = (IF error THEN "error" ELSE "completed")
            /\ \A u \in Tasks \ {current} : object'[u] = object[u] /\ message'[u] = message[u]
        BY <4>1, <4>3 DEF LoadEpgTypeOK
      <4>6. \A u \in Tasks : object'[u] = "none" => tpc'[u] = "none"
        BY <2>3, <4>3, <4>5
      <4>7. \A u \in Tasks : message'[u] # "none" => object'[u] = "deleted" /\ tpc'[u] \notin Live
        BY <2>3, <4>1, <4>3, <4>5
      <4>8. \A u \in Tasks : message'[u] # "none" /\ tpc'[u] # "stillborn" =>
              message'[u] = IF isError'[u] THEN "error" ELSE "completed"
        <5>1. ASSUME NEW u \in Tasks, u # current, message'[u] # "none", tpc'[u] # "stillborn"
              PROVE  message'[u] = IF isError'[u] THEN "error" ELSE "completed"
          BY <2>3, <4>3, <4>5, <5>1
        <5>2. tpc'[current] # "stillborn" =>
                message'[current] = IF isError'[current] THEN "error" ELSE "completed"
          BY <4>2, <4>3, <4>4, <4>5
        <5> QED BY <5>1, <5>2
      <4> QED BY <4>3, <4>6, <4>7, <4>8
    <3>3. CASE DeleteTests
      <4>1. current \in Tasks
        BY <3>3 DEF DeleteTests, HasTask, LoadEpgTypeOK
      <4>2. /\ UNCHANGED <<tpc, isError, error, current, message>>
            /\ object' = [object EXCEPT ![current] = "closing"]
        BY <3>3 DEF DeleteTests
      <4>3. object'[current] = "closing"
            /\ \A u \in Tasks \ {current} : object'[u] = object[u]
        BY <4>1, <4>2 DEF LoadEpgTypeOK
      <4>4. message[current] = "none"
        BY <1>0, <2>3, <4>1
      <4> QED BY <1>0, <2>3, <4>1, <4>2, <4>3, <4>4
    <3>4. CASE Forget
      BY <2>3, <3>4 DEF Forget, Held
    <3>5. CASE Idle \/ Reset \/ Resume \/ Work \/ Look \/ DeleteFrees \/ AskToEnd \/ WaitForEnd
               \/ Kill
      <4>1. UNCHANGED <<tpc, object, isError, error, current, message>>
        BY <3>5 DEF Idle, Reset, Resume, Work, Look, DeleteFrees, AskToEnd, WaitForEnd, Kill
      <4> QED BY <2>3, <4>1
    <3>6. CASE Grab \/ Watch \/ Stop \/ Footer \/ ExitProcess
      BY <1>3, <3>6 DEF Grab, Watch, Stop, Footer, ExitProcess, Held
    <3> QED BY <2>7, <3>1, <3>2, <3>3, <3>4, <3>5, <3>6 DEF SuperStep
  <2>8. CASE UserStep
    <3>1. UNCHANGED <<tpc, object, isError, error, current, message>>
      BY <2>8 DEF UserStep, OpenMenu, Load, PressRed, SetStopping, task, control, history
    <3> QED BY <2>3, <3>1
  <2>9. CASE UNCHANGED vars
    <3>1. UNCHANGED <<tpc, object, isError, error, current, message>>
      BY <2>9 DEF vars, task, control, history
    <3> QED BY <2>3, <3>1
  <2> QED BY <2>6, <2>7, <2>8, <2>9 DEF Next
<1> QED BY <1>0, <1>1, <1>2, <1>3

(* The user is told how the task ended that was loaded, though all tasks   *)
(* report through one field.                                               *)
THEOREM ToldTheTruth == Spec => []TellsHowItEnded
<1>1. LoadEpgTypeOK /\ Told => TellsHowItEnded
  BY DEF LoadEpgTypeOK, Told, TellsHowItEnded
<1> QED BY <1>1, ToldInit, ToldStep, HeldInit, HeldStep, SoleAlways, TypeAlways, PTL DEF Spec

-----------------------------------------------------------------------------
(* Once Stop came at another place the thread cannot get back to one where *)
(* it sets IsRunning.                                                      *)
Setters == {"none", "begin", "tune", "clear", "prepare"}

Stopped ==
    /\ build = "plugin" \/ spc = "new" => \A t \in Tasks : stopAt[t] = "none"
    /\ \A t \in Tasks : stopAt[t] \notin Setters => ~isRunning[t] /\ tpc[t] \notin Setters

LEMMA StoppedStep ==
    LoadEpgTypeOK /\ LoadEpgTypeOK' /\ HasTask /\ Held /\ Stopped /\ [Next]_vars => Stopped'
<1> SUFFICES ASSUME LoadEpgTypeOK, LoadEpgTypeOK', HasTask, Held, Stopped, [Next]_vars
             PROVE  Stopped'
  OBVIOUS
<1>0. build' = build
  BY BuildStays
<1>00. "none" \in Setters
  BY DEF Setters
<1>1. ASSUME NEW t \in Tasks, TaskStep(t)
      PROVE  Stopped'
  <2>1. /\ UNCHANGED <<spc, stopAt>>
        /\ \A u \in Tasks \ {t} : tpc'[u] = tpc[u] /\ isRunning'[u] = isRunning[u]
    BY <1>1, TaskFrame DEF LoadEpgTypeOK, history
  <2>2. tpc[t] \notin Setters /\ ~isRunning[t] => tpc'[t] \notin Setters /\ ~isRunning'[t]
    <3> USE DEF Go, LoadEpgTypeOK, At, Setters
    <3>1. CASE Begin(t) BY <3>1 DEF Begin
    <3>2. CASE Tune(t) BY <3>2 DEF Tune
    <3>3. CASE OpenHandles(t) BY <3>3 DEF OpenHandles
    <3>4. CASE Check(t) BY <3>4 DEF Check
    <3>5. CASE Clear(t) BY <3>5 DEF Clear
    <3>6. CASE Prepare(t) BY <3>6 DEF Prepare
    <3>7. CASE Decide(t) BY <3>7 DEF Decide
    <3>8. CASE Poll(t) BY <3>8 DEF Poll
    <3>9. CASE Handle(t) BY <3>9 DEF Handle
    <3>10. CASE Clean(t) BY <3>10 DEF Clean
    <3>11. CASE WriteGuide(t) BY <3>11 DEF WriteGuide
    <3>12. CASE TestArrays(t) BY <3>12 DEF TestArrays
    <3>13. CASE FreeArrays(t) BY <3>13 DEF FreeArrays
    <3>14. CASE Report(t) BY <3>14 DEF Report
    <3>15. CASE Leave(t) BY <3>15 DEF Leave
    <3>16. CASE Die(t) BY <3>16 DEF Die
    <3> QED
      BY <1>1, <3>1, <3>2, <3>3, <3>4, <3>5, <3>6, <3>7, <3>8, <3>9, <3>10, <3>11, <3>12,
         <3>13, <3>14, <3>15, <3>16 DEF TaskStep
  <2> QED BY <1>0, <2>1, <2>2 DEF Stopped
<1>2. CASE SuperStep
  <2> USE DEF SuperGo, taskFlow, task, control, user, history
  <2>1. ASSUME NEW t \in Tasks, StartTask(t), \A u \in Tasks : stopAt[u] = "none",
               UNCHANGED taskFlow
        PROVE  Stopped'
    <3>1. UNCHANGED stopAt
      BY <2>1 DEF StartTask
    <3> QED BY <1>00, <2>1, <3>1 DEF Stopped
  <2>2. CASE Grab
    <3>1. 1 \in Tasks
      BY LoadEpgAssumption DEF Tasks
    <3> QED BY <2>1, <2>2, <3>1 DEF Grab, Stopped
  <2>3. CASE CreateTask
    BY <2>1, <2>3 DEF CreateTask, Stopped
  <2>4. CASE Stop
    <3>1. current \in Tasks /\ build # "plugin" /\ spc' = "cancel"
      BY <2>4 DEF Stop, HasTask, LoadEpgTypeOK, Held
    <3>2. /\ UNCHANGED tpc
          /\ ~isRunning'[current] /\ stopAt'[current] = tpc[current]
          /\ \A u \in Tasks \ {current} : isRunning'[u] = isRunning[u] /\ stopAt'[u] = stopAt[u]
      BY <2>4, <3>1 DEF Stop, LoadEpgTypeOK
    <3> QED BY <1>0, <3>1, <3>2 DEF Stopped
  <2>5. CASE Watch \/ Idle \/ Reset \/ Forget \/ Resume \/ Work \/ Look \/ DeleteTests
             \/ DeleteFrees \/ AskToEnd \/ WaitForEnd \/ Kill \/ Deleted \/ Footer
    <3>1. UNCHANGED <<tpc, isRunning, stopAt>> /\ spc' # "new"
      BY <2>5 DEF Watch, Idle, Reset, Forget, Resume, Work, Look, DeleteTests, DeleteFrees,
                  AskToEnd, WaitForEnd, Kill, Deleted, Footer, AfterCancel
    <3> QED BY <1>0, <3>1 DEF Stopped
  <2>6. CASE ExitProcess
    <3>1. /\ UNCHANGED <<isRunning, stopAt>> /\ spc' # "new" /\ build = "standalone"
          /\ \A u \in Tasks : tpc'[u] = "gone"
      BY <2>6 DEF ExitProcess, Held, LoadEpgTypeOK
    <3>2. "gone" \notin Setters
      BY DEF Setters
    <3> QED BY <1>0, <3>1, <3>2 DEF Stopped
  <2> QED BY <1>2, <2>2, <2>3, <2>4, <2>5, <2>6 DEF SuperStep
<1>3. CASE UserStep
  <2>1. UNCHANGED <<tpc, isRunning, stopAt, spc>>
    BY <1>3 DEF UserStep, OpenMenu, Load, PressRed, SetStopping, task, history
  <2> QED BY <1>0, <2>1 DEF Stopped
<1>4. CASE UNCHANGED vars
  BY <1>4 DEF vars, task, history, Stopped
<1> QED BY <1>1, <1>2, <1>3, <1>4 DEF Next

(* Stop is lost only before the polling, or while slots are prepared.      *)
THEOREM StopIsLostRarely == Spec => []StopLostOnlyWhilePreparing
<1>1. Init => Stopped
  BY DEF Init, Stopped, Setters
<1>2. Stopped => StopLostOnlyWhilePreparing
  BY DEF Stopped, StopLostOnlyWhilePreparing, Setters
<1> QED BY <1>1, <1>2, StoppedStep, HeldInit, HeldStep, TypeAlways, PTL DEF Spec

-----------------------------------------------------------------------------
(* The footer is written where the program ends, and by then only a thread *)
(* that was killed can be there.                                           *)
Ends(d) == {i \in DOMAIN d : d[i] = "footer"}

LEMMA EndsOfAppend ==
    ASSUME NEW d \in Seq(Pieces), NEW p \in Pieces, NEW e, e = Append(d, p)
    PROVE  /\ e \in Seq(Pieces) /\ Len(d) \in Nat /\ Len(e) = Len(d) + 1
           /\ p # "footer" => Ends(e) = Ends(d)
           /\ p = "footer" => Ends(e) = Ends(d) \cup {Len(e)}
<1>1. /\ e \in Seq(Pieces) /\ Len(d) \in Nat /\ Len(e) = Len(d) + 1
      /\ DOMAIN e = 1 .. Len(e) /\ DOMAIN d = 1 .. Len(d)
  OBVIOUS
<1>2. e[Len(e)] = p /\ \A i \in 1 .. Len(d) : e[i] = d[i]
  BY <1>1
<1>3. 1 .. Len(e) = (1 .. Len(d)) \cup {Len(e)}
  BY <1>1
<1> QED BY <1>1, <1>2, <1>3 DEF Ends

Closed ==
    /\ document \in Seq(Pieces)
    /\ build = "standalone" =>
         /\ \A t \in Tasks \ {1} : tpc[t] \in {"none", "gone"} /\ ~cancelled[t]
         /\ current \in {0, 1}
         /\ spc \notin {"exit", "end"} => Ends(document) = {}
         /\ spc \in {"exit", "end"} =>
              \E k \in Nat : Ends(document) = {k} /\ (~cancelled[1] => k = Len(document))

LEMMA ClosedInit == Init => Closed
<1> SUFFICES ASSUME Init PROVE Closed
  OBVIOUS
<1>1. document \in Seq(Pieces)
  BY TypeInit DEF LoadEpgTypeOK, Pieces
<1>2. ASSUME build = "standalone" PROVE Ends(document) = {}
  <2>1. document = <<"header">>
    BY <1>2 DEF Init
  <2>2. DOMAIN document = {1} /\ document[1] = "header"
    BY <2>1
  <2> QED BY <2>2 DEF Ends
<1> QED BY <1>1, <1>2 DEF Init, Closed

LEMMA ClosedStep ==
    LoadEpgTypeOK /\ LoadEpgTypeOK' /\ HasTask /\ Held /\ Sole /\ Closed /\ [Next]_vars => Closed'
<1> SUFFICES ASSUME LoadEpgTypeOK, LoadEpgTypeOK', HasTask, Held, Sole, Closed, [Next]_vars
             PROVE  Closed'
  OBVIOUS
<1>0. build' = build /\ document' \in Seq(Pieces) /\ build \in {"standalone", "plugin"}
  BY BuildStays DEF LoadEpgTypeOK, Pieces
<1>00. 1 \in Tasks
  BY LoadEpgAssumption DEF Tasks
<1>1. CASE build = "plugin"
  BY <1>0, <1>1 DEF Closed
<1>2. CASE build = "standalone"
  <2>0. /\ document \in Seq(Pieces)
        /\ \A t \in Tasks \ {1} : tpc[t] \in {"none", "gone"} /\ ~cancelled[t]
        /\ current \in {0, 1}
        /\ spc \notin {"exit", "end"} => Ends(document) = {}
        /\ spc \in {"exit", "end"} =>
             \E k \in Nat : Ends(document) = {k} /\ (~cancelled[1] => k = Len(document))
    BY <1>2 DEF Closed
  <2>1. ASSUME NEW t \in Tasks, TaskStep(t)
        PROVE  Closed'
    <3>1. /\ UNCHANGED <<cancelled, spc, current>>
          /\ \A u \in Tasks \ {t} : tpc'[u] = tpc[u]
          /\ document' = document \/ document' = Append(document, "guide")
      BY <2>1, TaskFrame DEF LoadEpgTypeOK
    <3>2. tpc[t] \notin {"none", "gone", "stillborn"}
      BY <2>1 DEF TaskStep, At, Begin, Tune, OpenHandles, Check, Clear, Prepare, Decide, Poll,
                  Handle, Clean, WriteGuide, TestArrays, FreeArrays, Report, Leave, Die,
                  CancelPoints, Deadly
    <3>3. t = 1
      BY <2>0, <3>2
    <3>4. Ends(document') = Ends(document)
      BY <2>0, <3>1, EndsOfAppend DEF Pieces
    <3>5. ASSUME ~cancelled[1], spc \in {"exit", "end"}
          PROVE  FALSE
      <4>1. Doomed = {}
        BY <1>2, <2>0, <3>5 DEF Doomed
      <4>2. tpc[1] \in Live
        BY <3>2, <3>3 DEF Live, LoadEpgTypeOK
      <4> QED BY <1>00, <3>5, <4>1, <4>2 DEF Sole
    <3> QED BY <1>0, <2>0, <3>1, <3>3, <3>4, <3>5 DEF Closed
  <2>2. CASE SuperStep
    <3> USE DEF SuperGo, task
    <3>1. CASE Grab
      <4>1. /\ UNCHANGED <<cancelled, document>> /\ current' = 1 /\ spc = "new" /\ spc' = "watch"
            /\ \A u \in Tasks \ {1} : tpc'[u] = tpc[u]
        BY <1>00, <3>1 DEF Grab, StartTask, Go, LoadEpgTypeOK
      <4> QED BY <1>0, <2>0, <4>1 DEF Closed
    <3>2. CASE Kill
      <4>1. current = 1
        BY <2>0, <3>2 DEF Kill, HasTask
      <4>2. /\ UNCHANGED <<tpc, document, current>> /\ spc = "wait" /\ spc' \notin {"exit", "end"}
            /\ \A u \in Tasks \ {1} : cancelled'[u] = cancelled[u]
        BY <3>2, <4>1 DEF Kill, CancelThread, AfterCancel, LoadEpgTypeOK
      <4> QED BY <1>0, <2>0, <4>2 DEF Closed
    <3>3. CASE Watch \/ Stop \/ DeleteTests \/ DeleteFrees \/ AskToEnd \/ WaitForEnd \/ Deleted
      <4>1. /\ UNCHANGED <<tpc, document, cancelled>> /\ current' \in {current, 0}
            /\ spc \notin {"exit", "end"} /\ spc' \notin {"exit", "end"}
        BY <1>2, <3>3 DEF Watch, Stop, DeleteTests, DeleteFrees, AskToEnd, WaitForEnd, Deleted,
                          AfterCancel
      <4> QED BY <1>0, <2>0, <4>1 DEF Closed
    <3>4. CASE Footer
      <4>1. /\ UNCHANGED <<tpc, cancelled, current>> /\ spc = "footer" /\ spc' = "exit"
            /\ document' = Append(document, "footer")
        BY <3>4 DEF Footer
      <4>2. Ends(document') = Ends(document) \cup {Len(document')} /\ Len(document') \in Nat
        BY <2>0, <4>1, EndsOfAppend DEF Pieces
      <4>3. Ends(document') = {Len(document')}
        BY <2>0, <4>1, <4>2
      <4> QED BY <1>0, <2>0, <4>1, <4>2, <4>3 DEF Closed
    <3>5. CASE ExitProcess
      <4>1. /\ UNCHANGED <<document, cancelled, current>> /\ spc = "exit" /\ spc' = "end"
            /\ tpc' = [u \in Tasks |-> "gone"]
        BY <3>5 DEF ExitProcess
      <4> QED BY <1>0, <2>0, <4>1 DEF Closed
    <3>6. CASE Idle \/ Reset \/ Forget \/ CreateTask \/ Resume \/ Work \/ Look
      BY <1>2, <3>6 DEF Idle, Reset, Forget, CreateTask, Resume, Work, Look, Held
    <3> QED BY <2>2, <3>1, <3>2, <3>3, <3>4, <3>5, <3>6 DEF SuperStep
  <2>3. CASE UserStep
    <3>1. UNCHANGED <<tpc, cancelled, current, spc, document>>
      BY <2>3 DEF UserStep, OpenMenu, Load, PressRed, SetStopping, task
    <3> QED BY <1>0, <2>0, <3>1 DEF Closed
  <2>4. CASE UNCHANGED vars
    <3>1. UNCHANGED <<tpc, cancelled, current, spc, document>>
      BY <2>4 DEF vars, task
    <3> QED BY <1>0, <2>0, <3>1 DEF Closed
  <2> QED BY <2>1, <2>2, <2>3, <2>4 DEF Next
<1> QED BY <1>0, <1>1, <1>2

(* The document of the stand-alone program is closed once, and what could  *)
(* be written behind its end only a killed task can write.                 *)
THEOREM ClosedOnce == Spec => []DocumentCloses
<1>1. Closed /\ Held /\ LoadEpgTypeOK => DocumentCloses
  <2> SUFFICES ASSUME Closed, Held, LoadEpgTypeOK, spc = "end" PROVE DocumentCloses
    BY DEF DocumentCloses
  <2>1. PICK k \in Nat : Ends(document) = {k} /\ (~cancelled[1] => k = Len(document))
    BY DEF Closed, Held, LoadEpgTypeOK
  <2>2. Cardinality(Ends(document)) = 1
    BY <2>1, FS_Singleton
  <2> QED BY <2>1, <2>2 DEF DocumentCloses, Ends
<1> QED BY <1>1, ClosedInit, ClosedStep, HeldInit, HeldStep, SoleAlways, TypeAlways, PTL DEF Spec
=============================================================================
