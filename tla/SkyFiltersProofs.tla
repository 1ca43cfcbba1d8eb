-------------------------- MODULE SkyFiltersProofs --------------------------
(***************************************************************************)
(* Proofs about the section-filter scheduler of module SkyFilters, for     *)
(* every number of filters and every number of slots.                      *)
(*                                                                         *)
(* The safety properties are proved from one inductive invariant: slots    *)
(* and filters agree (SlotsExclusive), the loop knows what it relies on    *)
(* (LoopKnows), handles are set to what their slots name (BusySlotIsWired) *)
(* and reads are made only where there is data (ReadHasData).              *)
(*                                                                         *)
(* Capped adds what a handle that does not open does to the grab: the      *)
(* first pass starts one filter per slot before it and retires the rest.   *)
(* The last part shows that the scheduler implements FilterPool, one kind  *)
(* of step at a time; filters that run sit in different slots (RunningFits,*)
(* a counting argument), which bounds them by the pool's capacity.         *)
(***************************************************************************)
EXTENDS SkyFilters, TLAPS, FiniteSetTheorems

(* The number of filters in the table is a natural number.                 *)
LEMMA FiltersNat == nFilters \in Nat
BY SizesAssumption DEF nFilters

(* Reading slot s finishes its filter, by its table or by an error.        *)
Finishes(s) == ReadFinishes(s) \/ ReadFails(s)

(* None is no filter.                                                      *)
LEMMA NoneIsNoFilter == None \notin Filter
BY FiltersNat DEF None, Filter

(* An assignment to one element of an array keeps the type of the array.   *)
LEMMA ExceptType ==
    ASSUME NEW S, NEW T, NEW f \in [S -> T], NEW x, NEW y \in T
    PROVE  [f EXCEPT ![x] = y] \in [S -> T]
OBVIOUS

-----------------------------------------------------------------------------
(* The initial state has the types the declarations promise.               *)
LEMMA TypeInit == Init => TypeOK
<1> SUFFICES ASSUME Init PROVE TypeOK
  OBVIOUS
<1>1. phase \in Phase /\ cursor \in Nat /\ step \in [Filter -> 0 .. 3]
  BY DEF Init, Phase
<1>2. nActive \in 0 .. MaxActive
  BY SizesAssumption DEF Init
<1>3. fd \in [Slot -> {"open", "bad", "closed"}] /\ isBusy \in [Slot -> BOOLEAN]
  BY DEF Init
<1>4. filterId \in [Slot -> Filter \cup {None}] /\ wired \in [Slot -> Filter \cup {None}]
  BY DEF Init
<1>5. armed \in [Slot -> BOOLEAN]
  BY DEF Init
<1>6. inbox \in [Slot -> {"empty", "section", "overflow", "timeout"}]
  BY DEF Init
<1>7. /\ isRunning \in BOOLEAN /\ isError \in BOOLEAN /\ onAir \in BOOLEAN
      /\ ready \in SUBSET Slot /\ served \in SUBSET Filter
      /\ listed \in BOOLEAN /\ whole \in SUBSET Filter
  BY DEF Init
<1> QED BY <1>1, <1>2, <1>3, <1>4, <1>5, <1>6, <1>7 DEF TypeOK

(* Every step of the thread and of the kernel preserves the types; the     *)
(* number of opened handles never passes the size of the slot array.       *)
LEMMA TypeStep == TypeOK /\ [Next]_vars => TypeOK'
<1> SUFFICES ASSUME TypeOK, [Next]_vars
             PROVE  TypeOK'
  OBVIOUS
<1> USE DEF Phase
<1>1. ASSUME NEW handle \in {"open", "bad"}, OpenHandle(handle)
      PROVE  TypeOK'
  <2>1. nActive' \in 0 .. MaxActive
    BY <1>1, SizesAssumption DEF TypeOK, OpenHandle, MoreHandles
  <2>2. fd' \in [Slot -> {"open", "bad", "closed"}]
    BY <1>1, ExceptType DEF TypeOK, OpenHandle, MoreHandles
  <2>3. cursor' \in Nat
    BY <1>1 DEF TypeOK, OpenHandle, MoreHandles
  <2> QED BY <1>1, <2>1, <2>2, <2>3 DEF TypeOK, OpenHandle, MoreHandles, kernel, tables
<1>2. CASE RefuseHandle \/ StartLoop
  <2>1. CASE RefuseHandle
    BY <2>1 DEF TypeOK, RefuseHandle, MoreHandles, kernel, tables
  <2>2. CASE StartLoop
    BY <2>2 DEF TypeOK, StartLoop, MoreHandles, kernel, tables
  <2> QED BY <1>2, <2>1, <2>2
<1>3. CASE Reap
  <2>1. step' \in [Filter -> 0 .. 3]
    BY <1>3 DEF TypeOK, Reap, Retired
  <2>2. filterId' \in [Slot -> Filter \cup {None}]
    BY <1>3 DEF TypeOK, Reap, Retired
  <2>3. isBusy' \in [Slot -> BOOLEAN] /\ isRunning' \in BOOLEAN
    BY <1>3 DEF TypeOK, Reap, Retired
  <2>4. phase' \in Phase /\ cursor' \in Nat
    BY <1>3 DEF Reap, Retired
  <2> QED BY <1>3, <2>1, <2>2, <2>3, <2>4 DEF TypeOK, Reap, Retired, kernel, tables
<1>4. ASSUME NEW s \in Slot, PrepareSlot(s)
      PROVE  TypeOK'
  <2>0. cursor' \in Nat
    BY <1>4 DEF TypeOK, PrepareSlot
  <2>1. CASE KeepSlot(s)
    BY <1>4, <2>0, <2>1 DEF TypeOK, PrepareSlot, KeepSlot, kernel, tables
  <2>2. ASSUME NEW f \in Filter, StartFilter(s, f)
        PROVE  TypeOK'
    <3>1. step' \in [Filter -> 0 .. 3]
      BY <2>2 DEF TypeOK, StartFilter
    <3>2. filterId' \in [Slot -> Filter \cup {None}] /\ wired' \in [Slot -> Filter \cup {None}]
      BY <2>2, ExceptType DEF TypeOK, StartFilter
    <3>3. isBusy' \in [Slot -> BOOLEAN] /\ armed' \in [Slot -> BOOLEAN]
      BY <2>2, ExceptType DEF TypeOK, StartFilter
    <3>4. inbox' \in [Slot -> {"empty", "section", "overflow", "timeout"}]
      BY <2>2, ExceptType DEF TypeOK, StartFilter
    <3>5. isRunning' \in BOOLEAN /\ served' \in SUBSET Filter
      BY <2>2 DEF TypeOK, StartFilter
    <3> QED BY <1>4, <2>0, <3>1, <3>2, <3>3, <3>4, <3>5 DEF TypeOK, PrepareSlot, tables
  <2>3. CASE LeaveSlotFree(s)
    <3>1. step' \in [Filter -> 0 .. 3]
      BY <2>3 DEF TypeOK, LeaveSlotFree
    <3> QED BY <1>4, <2>0, <2>3, <3>1 DEF TypeOK, PrepareSlot, LeaveSlotFree, kernel, tables
  <2> QED BY <1>4, <2>1, <2>2, <2>3 DEF PrepareSlot
<1>5. CASE LeaveOrPoll
  BY <1>5 DEF TypeOK, LeaveOrPoll, kernel, tables
<1>6. CASE PollReady
  BY <1>6 DEF TypeOK, PollReady, ReadySlots, kernel, tables
<1>7. CASE PollTimeout \/ PollFailure
  BY <1>7 DEF TypeOK, PollTimeout, PollFailure, GiveUp, kernel, tables
<1>8. ASSUME NEW s \in Slot,
             PassOver(s) \/ ReadGoesOn(s) \/ ReadLists(s) \/ Finishes(s) \/ ReadOverflowsTable(s)
      PROVE  TypeOK'
  <2>1. step' \in [Filter -> 0 .. 3]
    <3>1. 2 \in 0 .. 3
      OBVIOUS
    <3> QED BY <1>8, <3>1, ExceptType DEF TypeOK, PassOver, ReadGoesOn, ReadLists, Finishes,
                                          ReadFinishes, ReadFails, ReadOverflowsTable
  <2>2. inbox' \in [Slot -> {"empty", "section", "overflow", "timeout"}]
    BY <1>8, ExceptType DEF TypeOK, PassOver, ReadGoesOn, ReadLists, Finishes, ReadFinishes,
                            ReadFails, ReadOverflowsTable, Consume, kernel, tables
  <2>3. isRunning' \in BOOLEAN /\ isError' \in BOOLEAN
    BY <1>8 DEF TypeOK, PassOver, ReadGoesOn, ReadLists, Finishes, ReadFinishes, ReadFails,
                ReadOverflowsTable
  <2>4. cursor' \in Nat
    BY <1>8 DEF TypeOK, PassOver, ReadGoesOn, ReadLists, Finishes, ReadFinishes, ReadFails,
                ReadOverflowsTable, Reading
  <2>5. UNCHANGED <<phase, nActive, fd, filterId, isBusy, ready, wired, armed, onAir, served>>
    BY <1>8 DEF PassOver, ReadGoesOn, ReadLists, Finishes, ReadFinishes, ReadFails,
                ReadOverflowsTable, Consume, kernel, tables
  <2>6. listed' \in BOOLEAN /\ whole' = whole
    BY <1>8 DEF TypeOK, PassOver, ReadGoesOn, ReadLists, Finishes, ReadFinishes, ReadFails,
                ReadOverflowsTable, tables
  <2> QED BY <2>1, <2>2, <2>3, <2>4, <2>5, <2>6 DEF TypeOK
<1>9. CASE EndPass
  BY <1>9 DEF TypeOK, EndPass, kernel, tables
<1>10. CASE StopFilters
  <2>1. fd' \in [Slot -> {"open", "bad", "closed"}]
    BY <1>10 DEF TypeOK, StopFilters, AfterStop
  <2>2. wired' \in [Slot -> Filter \cup {None}] /\ armed' \in [Slot -> BOOLEAN]
    BY <1>10 DEF StopFilters, AfterStop
  <2>3. inbox' \in [Slot -> {"empty", "section", "overflow", "timeout"}]
    BY <1>10 DEF StopFilters, AfterStop
  <2>4. phase' \in Phase
    BY <1>10 DEF StopFilters, AfterStop
  <2> QED BY <1>10, <2>1, <2>2, <2>3, <2>4 DEF TypeOK, StopFilters, AfterStop, tables
<1>11. CASE Kernel
  <2>1. inbox' \in [Slot -> {"empty", "section", "overflow", "timeout"}]
    BY <1>11, ExceptType DEF TypeOK, Kernel, Deliver, Overflow, Expire, LoseSignal, kernel, tables
  <2>2. armed' \in [Slot -> BOOLEAN] /\ wired' \in [Slot -> Filter \cup {None}]
    BY <1>11, ExceptType DEF TypeOK, Kernel, Deliver, Overflow, Expire, LoseSignal, kernel, tables
  <2>3. onAir' \in BOOLEAN /\ UNCHANGED <<program, tables, served>>
    BY <1>11 DEF TypeOK, Kernel, Deliver, Overflow, Expire, LoseSignal
  <2> QED BY <2>1, <2>2, <2>3 DEF TypeOK, program, tables
<1>12. CASE UNCHANGED vars
  BY <1>12 DEF TypeOK, vars, program, kernel, tables
<1> QED
  BY <1>1, <1>2, <1>3, <1>4, <1>5, <1>6, <1>7, <1>8, <1>9, <1>10, <1>11, <1>12
     DEF Next, Thread, Finishes

(* The scheduler's variables always have the types that the fields of      *)
(* sFilter and sActiveFilter and the loop's flags give them.               *)
THEOREM TypeCorrect == Spec => []TypeOK
BY TypeInit, TypeStep, PTL DEF Spec

-----------------------------------------------------------------------------
(* Retiring, assigning and finishing filters are the only steps that touch *)
(* what SlotsExclusive is about.                                           *)
LEMMA SlotSteps ==
    ASSUME [Next]_vars
    PROVE  \/ UNCHANGED <<step, filterId, isBusy>>
           \/ Reap
           \/ \E s \in Slot : PrepareSlot(s)
           \/ \E s \in Slot : Finishes(s)
<1>1. CASE Kernel \/ UNCHANGED vars
  BY <1>1 DEF Kernel, Deliver, Overflow, Expire, LoseSignal, tables, vars, program
<1>2. CASE \E handle \in {"open", "bad"} : OpenHandle(handle)
  BY <1>2 DEF OpenHandle, MoreHandles
<1>3. CASE RefuseHandle \/ StartLoop \/ LeaveOrPoll \/ PollReady \/ EndPass \/ StopFilters
  BY <1>3 DEF RefuseHandle, MoreHandles, StartLoop, LeaveOrPoll, PollReady, ReadySlots, EndPass,
              StopFilters, AfterStop
<1>4. CASE PollTimeout \/ PollFailure
  BY <1>4 DEF PollTimeout, PollFailure, GiveUp
<1>5. ASSUME NEW s \in Slot, PassOver(s) \/ ReadGoesOn(s) \/ ReadLists(s) \/ ReadOverflowsTable(s)
      PROVE  UNCHANGED <<step, filterId, isBusy>>
  BY <1>5 DEF PassOver, ReadGoesOn, ReadLists, ReadOverflowsTable, Consume
<1> QED BY <1>1, <1>2, <1>3, <1>4, <1>5 DEF Next, Thread, Finishes

(* A slot is freed by Reap exactly when the filter it names is finished.   *)
LEMMA ReapedSlots ==
    ASSUME TypeOK, SlotsExclusive, LoopKnows, NEW s \in Slot
    PROVE  HoldsFinished(s) <=> filterId[s] # None /\ step[filterId[s]] = 2
<1>1. filterId[s] # None => s \in Active
  BY DEF LoopKnows
<1>2. filterId[s] # None => \A t \in Slot : t < s => filterId[t] # filterId[s]
  BY DEF SlotsExclusive, Slot
<1> QED BY <1>1, <1>2 DEF HoldsFinished

(* Slots and filters still agree after every step.                         *)
LEMMA ExclusiveStep ==
    TypeOK /\ SlotsExclusive /\ LoopKnows /\ [Next]_vars => SlotsExclusive'
<1> SUFFICES ASSUME TypeOK, SlotsExclusive, LoopKnows, [Next]_vars
             PROVE  SlotsExclusive'
  OBVIOUS
<1>1. CASE UNCHANGED <<step, filterId, isBusy>>
  BY <1>1 DEF SlotsExclusive
<1>2. CASE Reap
  <2>1. \A s \in Slot : HoldsFinished(s) <=> filterId[s] # None /\ step[filterId[s]] = 2
    BY ReapedSlots
  <2>2. \A s \in Slot : filterId'[s] = IF HoldsFinished(s) THEN None ELSE filterId[s]
    BY <1>2 DEF Reap, Retired
  <2>3. \A s \in Slot : isBusy'[s] <=> isBusy[s] /\ ~HoldsFinished(s)
    BY <1>2 DEF Reap, Retired
  <2>4. \A f \in Filter : step'[f] = IF step[f] = 2 THEN 3 ELSE step[f]
    BY <1>2 DEF Reap, Retired
  <2>5. \A s \in Slot : isBusy'[s] <=> filterId'[s] # None
    BY <2>1, <2>2, <2>3 DEF SlotsExclusive
  <2>6. \A s, t \in Slot : filterId'[s] # None /\ filterId'[s] = filterId'[t] => s = t
    BY <2>2 DEF SlotsExclusive
  <2>7. ASSUME NEW f \in Filter
        PROVE  step'[f] \in {1, 2} <=> \E s \in Slot : filterId'[s] = f
    <3>1. step'[f] \in {1, 2} <=> step[f] = 1
      BY <2>4 DEF TypeOK
    <3>2. ASSUME step[f] = 1 PROVE \E s \in Slot : filterId'[s] = f
      <4>1. PICK s \in Slot : filterId[s] = f
        BY <3>2 DEF SlotsExclusive
      <4> QED BY <3>2, <4>1, <2>1, <2>2
    <3>3. ASSUME NEW s \in Slot, filterId'[s] = f PROVE step[f] = 1
      <4>1. ~HoldsFinished(s) /\ filterId[s] = f
        BY <3>3, <2>2, NoneIsNoFilter
      <4>2. step[f] \in {1, 2} /\ step[f] # 2
        BY <4>1, <2>1, NoneIsNoFilter DEF SlotsExclusive
      <4> QED BY <4>2
    <3> QED BY <3>1, <3>2, <3>3
  <2> QED BY <2>5, <2>6, <2>7 DEF SlotsExclusive
<1>3. ASSUME NEW s \in Slot, PrepareSlot(s) PROVE SlotsExclusive'
  <2>1. CASE KeepSlot(s)
    BY <2>1 DEF KeepSlot, SlotsExclusive
  <2>2. ASSUME NEW f \in Filter, StartFilter(s, f) PROVE SlotsExclusive'
    <3>1. filterId[s] = None /\ step[f] = 0
      BY <2>2 DEF StartFilter, SlotsExclusive, Pending
    <3>2. \A t \in Slot : filterId'[t] = IF t = s THEN f ELSE filterId[t]
      BY <2>2 DEF StartFilter, TypeOK
    <3>3. \A t \in Slot : isBusy'[t] = IF t = s THEN TRUE ELSE isBusy[t]
      BY <2>2 DEF StartFilter, TypeOK
    <3>4. \A g \in Filter : step'[g] \in {1, 2} <=> g = f \/ step[g] \in {1, 2}
      BY <2>2 DEF StartFilter, TypeOK, Pending
    <3>5. \A t \in Slot : filterId[t] # f
      BY <3>1 DEF SlotsExclusive
    <3>6. \A t \in Slot : isBusy'[t] <=> filterId'[t] # None
      <4>1. \A t \in Slot : isBusy[t] <=> filterId[t] # None
        BY DEF SlotsExclusive
      <4>2. f # None
        BY NoneIsNoFilter
      <4> QED BY <3>2, <3>3, <4>1, <4>2
    <3>7. \A t, u \in Slot : filterId'[t] # None /\ filterId'[t] = filterId'[u] => t = u
      BY <3>2, <3>5 DEF SlotsExclusive
    <3>8. \A g \in Filter : step'[g] \in {1, 2} <=> \E t \in Slot : filterId'[t] = g
      BY <3>1, <3>2, <3>4, NoneIsNoFilter DEF SlotsExclusive
    <3> QED BY <3>6, <3>7, <3>8 DEF SlotsExclusive
  <2>3. CASE LeaveSlotFree(s)
    <3>1. \A f \in Filter : step'[f] \in {1, 2} <=> step[f] \in {1, 2}
      BY <2>3 DEF LeaveSlotFree, TypeOK, Pending
    <3> QED BY <2>3, <3>1 DEF LeaveSlotFree, SlotsExclusive
  <2> QED BY <1>3, <2>1, <2>2, <2>3 DEF PrepareSlot
<1>4. ASSUME NEW s \in Slot, Finishes(s) PROVE SlotsExclusive'
  <2>1. filterId[s] \in Filter /\ step[filterId[s]] \in {1, 2}
    BY <1>4 DEF Finishes, ReadFinishes, ReadFails, SlotsExclusive, TypeOK
  <2>2. \A f \in Filter : step'[f] \in {1, 2} <=> step[f] \in {1, 2}
    BY <1>4, <2>1 DEF Finishes, ReadFinishes, ReadFails, TypeOK
  <2> QED BY <1>4, <2>2 DEF Finishes, ReadFinishes, ReadFails, Consume, SlotsExclusive
<1> QED BY <1>1, <1>2, <1>3, <1>4, SlotSteps

-----------------------------------------------------------------------------
(* What LoopKnows says of each phase, as one formula each.                 *)
LoopSlots   == \A s \in Slot : filterId[s] # None \/ fd[s] = "open" => s \in Active
LoopOpen    == phase = "open" => (\A f \in Filter : step[f] = 0) /\ (~isError => cursor = nActive)
LoopReaped  == phase \in {"prepare", "poll"} => \A f \in Filter : step[f] # 2
LoopNoError == phase \in {"reap", "prepare", "poll"} => ~isError
LoopSome    == phase \in {"reap", "prepare", "poll", "read"} => nActive > 0
LoopPrepare ==
    phase = "prepare" =>
        /\ cursor <= nActive
        /\ isRunning <=> \E s \in Visited : isBusy[s]
        /\ (\E s \in Visited : ~isBusy[s]) => Pending = {}
LoopRuns    == phase \in {"poll", "read"} => (isRunning <=> ~isError)
LoopStop    == phase = "stop" /\ ~isError => \A f \in Filter : step[f] = 3

(* LoopKnows is the conjunction of its parts.                              *)
LEMMA LoopParts ==
    LoopKnows <=> /\ LoopSlots /\ LoopOpen /\ LoopReaped /\ LoopNoError
                  /\ LoopSome /\ LoopPrepare /\ LoopRuns /\ LoopStop
BY DEF LoopKnows, LoopSlots, LoopOpen, LoopReaped, LoopNoError, LoopSome, LoopPrepare,
       LoopRuns, LoopStop

(* What the loop knows still holds after one more slot was prepared.       *)
LEMMA LoopPrepareStep ==
    ASSUME TypeOK, SlotsExclusive, LoopKnows, NEW s \in Slot, PrepareSlot(s)
    PROVE  LoopKnows'
<1>1. /\ phase = "prepare" /\ phase' = "prepare"
      /\ s = cursor /\ cursor' = cursor + 1 /\ s < nActive
      /\ UNCHANGED <<nActive, fd, isError>>
  BY DEF PrepareSlot, Active
<1>2. \A t \in Slot : t \in Visited' <=> t \in Visited \/ t = s
  BY <1>1 DEF Visited, Slot, TypeOK
<1>3. s \notin Visited
  BY <1>1 DEF Visited, Slot
<1>4. cursor' <= nActive' /\ nActive' > 0 /\ ~isError'
  BY <1>1 DEF LoopKnows, Slot, TypeOK
<1>5. CASE KeepSlot(s)
  BY <1>1, <1>2, <1>4, <1>5 DEF KeepSlot, LoopKnows, Active, Pending, Visited
<1>6. ASSUME NEW f \in Filter, StartFilter(s, f) PROVE LoopKnows'
  <2>1. \A t \in Slot : /\ filterId'[t] = IF t = s THEN f ELSE filterId[t]
                        /\ isBusy'[t] = IF t = s THEN TRUE ELSE isBusy[t]
    BY <1>6 DEF StartFilter, TypeOK
  <2>2. \A g \in Filter : step'[g] = IF g = f THEN 1
                                     ELSE IF g \in Pending /\ g < f THEN 3 ELSE step[g]
    BY <1>6 DEF StartFilter
  <2>3. \A g \in Filter : step'[g] # 2
    BY <1>1, <2>2 DEF LoopKnows
  <2>4. LoopSlots'
    BY <1>1, <2>1 DEF LoopKnows, LoopSlots, Active
  <2>5. isRunning' /\ \E t \in Visited' : isBusy'[t]
    BY <1>2, <1>6, <2>1 DEF StartFilter, Visited
  <2>6. \A t \in Visited' : isBusy'[t]
    <3>1. f \in Pending
      BY <1>6 DEF StartFilter
    <3>2. \A t \in Visited : isBusy[t]
      BY <1>1, <3>1 DEF LoopKnows
    <3> QED BY <1>2, <2>1, <3>2 DEF Visited
  <2>7. LoopPrepare'
    BY <1>4, <2>5, <2>6 DEF LoopPrepare
  <2>8. (LoopOpen /\ LoopReaped /\ LoopNoError /\ LoopSome /\ LoopRuns /\ LoopStop)'
    BY <1>1, <1>4, <2>3 DEF LoopOpen, LoopReaped, LoopNoError, LoopSome, LoopRuns, LoopStop
  <2> QED BY <2>4, <2>7, <2>8, LoopParts, PTL
<1>7. CASE LeaveSlotFree(s)
  <2>1. \A f \in Filter : step'[f] = IF step[f] = 0 THEN 3 ELSE step[f]
    BY <1>7 DEF LeaveSlotFree, Pending
  <2>2. \A f \in Filter : step'[f] # 2 /\ step'[f] # 0
    BY <1>1, <2>1 DEF LoopKnows
  <2>3. Pending' = {}
    BY <2>2 DEF Pending
  <2>4. isRunning' <=> \E t \in Visited' : isBusy'[t]
    BY <1>1, <1>2, <1>7 DEF LeaveSlotFree, LoopKnows, Visited
  <2> QED BY <1>1, <1>4, <1>7, <2>2, <2>3, <2>4 DEF LeaveSlotFree, LoopKnows, Active
<1> QED BY <1>5, <1>6, <1>7 DEF PrepareSlot

(* When the loop is left because nothing runs, everything is retired.      *)
LEMMA LoopLeaveStep ==
    ASSUME TypeOK, SlotsExclusive, LoopKnows, LeaveOrPoll
    PROVE  LoopKnows'
<1>1. /\ phase = "prepare" /\ cursor = nActive
      /\ phase' = IF isRunning THEN "poll" ELSE "stop"
      /\ UNCHANGED <<step, nActive, fd, filterId, isBusy, isRunning, isError>>
  BY DEF LeaveOrPoll
<1>2. ASSUME ~isRunning PROVE \A f \in Filter : step[f] = 3
  <2>1. \A s \in Slot : s < nActive => ~isBusy[s]
    BY <1>1, <1>2 DEF LoopKnows, Visited
  <2>2. \A s \in Slot : filterId[s] = None
    BY <2>1 DEF LoopKnows, SlotsExclusive, Active
  <2>3. 0 \in Slot /\ 0 < nActive
    BY <1>1, SizesAssumption DEF LoopKnows, Slot, TypeOK
  <2>4. Pending = {}
    BY <1>1, <2>1, <2>3 DEF LoopKnows, Visited
  <2>5. \A f \in Filter : step[f] \notin {0, 1, 2}
    BY <2>2, <2>4, NoneIsNoFilter DEF SlotsExclusive, Pending
  <2> QED BY <2>5 DEF TypeOK
<1> QED BY <1>1, <1>2 DEF LoopKnows, Active

(* The loop keeps knowing what it relies on.                               *)
LEMMA LoopStep ==
    TypeOK /\ SlotsExclusive /\ LoopKnows /\ [Next]_vars => LoopKnows'
<1> SUFFICES ASSUME TypeOK, SlotsExclusive, LoopKnows, [Next]_vars
             PROVE  LoopKnows'
  OBVIOUS
<1>1. ASSUME NEW handle \in {"open", "bad"}, OpenHandle(handle)
      PROVE  LoopKnows'
  <2>1. /\ phase = "open" /\ phase' = "open"
        /\ nActive' = nActive + 1 /\ cursor' = cursor + 1
        /\ UNCHANGED <<step, filterId, isError>>
    BY <1>1 DEF OpenHandle, MoreHandles
  <2>2. \A s \in Slot : fd'[s] = "open" => s = nActive \/ fd[s] = "open"
    BY <1>1 DEF OpenHandle, MoreHandles, TypeOK
  <2>3. \A s \in Slot : s \in Active \/ s = nActive => s \in Active'
    BY <2>1 DEF Active, Slot, TypeOK
  <2>4. LoopSlots'
    BY <2>1, <2>2, <2>3 DEF LoopKnows, LoopSlots
  <2>5. LoopOpen'
    BY <2>1 DEF LoopKnows, LoopOpen
  <2>6. (LoopReaped /\ LoopNoError /\ LoopSome /\ LoopPrepare /\ LoopRuns /\ LoopStop)'
    BY <2>1 DEF LoopReaped, LoopNoError, LoopSome, LoopPrepare, LoopRuns, LoopStop
  <2> QED BY <2>4, <2>5, <2>6, LoopParts, PTL
<1>2. CASE RefuseHandle
  BY <1>2 DEF RefuseHandle, MoreHandles, LoopKnows, Active
<1>3. CASE StartLoop
  <2>1. /\ phase = "open" /\ ~(cursor < nFilters /\ nActive < MaxActive)
        /\ phase' = IF isError \/ nActive = 0 THEN "stop" ELSE "reap"
        /\ UNCHANGED <<step, nActive, fd, filterId, isError>>
    BY <1>3 DEF StartLoop, MoreHandles
  <2>2. ~isError /\ nActive = 0 => Filter = {}
    BY <2>1, SizesAssumption, FiltersNat DEF LoopKnows, Filter, TypeOK
  <2>3. nActive > 0 \/ nActive = 0
    BY DEF TypeOK
  <2> QED BY <2>1, <2>2, <2>3 DEF LoopKnows, Active
<1>4. CASE Reap
  <2>1. /\ phase = "reap" /\ phase' = "prepare" /\ cursor' = 0 /\ ~isRunning'
        /\ UNCHANGED <<nActive, fd, isError>>
    BY <1>4 DEF Reap, Retired
  <2>2. Visited' = {}
    BY <2>1 DEF Visited, Slot
  <2>3. \A f \in Filter : step'[f] # 2
    BY <1>4 DEF Reap, Retired
  <2>4. \A s \in Slot : filterId'[s] # None => filterId[s] # None
    BY <1>4 DEF Reap, Retired
  <2>5. 0 <= nActive
    BY DEF TypeOK
  <2> QED BY <2>1, <2>2, <2>3, <2>4, <2>5 DEF LoopKnows, Active
<1>5. ASSUME NEW s \in Slot, PrepareSlot(s) PROVE LoopKnows'
  BY <1>5, LoopPrepareStep
<1>6. CASE LeaveOrPoll
  BY <1>6, LoopLeaveStep
<1>7. CASE PollReady
  BY <1>7 DEF PollReady, ReadySlots, LoopKnows, Active
<1>8. CASE PollTimeout \/ PollFailure
  BY <1>8 DEF PollTimeout, PollFailure, GiveUp, LoopKnows, Active
<1>9. ASSUME NEW s \in Slot,
             PassOver(s) \/ ReadGoesOn(s) \/ ReadLists(s) \/ Finishes(s) \/ ReadOverflowsTable(s)
      PROVE  LoopKnows'
  <2>1. /\ phase = "read" /\ phase' = "read"
        /\ UNCHANGED <<nActive, fd, filterId>>
    BY <1>9 DEF PassOver, ReadGoesOn, ReadLists, Finishes, ReadFinishes, ReadFails,
                ReadOverflowsTable, Reading, Consume
  <2>2. isRunning' <=> ~isError'
    <3>1. isRunning <=> ~isError
      BY <2>1 DEF LoopKnows
    <3>2. CASE ReadOverflowsTable(s)
      BY <3>2 DEF ReadOverflowsTable
    <3>3. CASE PassOver(s) \/ ReadGoesOn(s) \/ ReadLists(s) \/ Finishes(s)
      <4>1. isRunning' = (isRunning /\ ~isError) /\ isError' = isError
        BY <3>3 DEF PassOver, ReadGoesOn, ReadLists, Finishes, ReadFinishes, ReadFails
      <4> QED BY <3>1, <4>1
    <3> QED BY <1>9, <3>2, <3>3
  <2> QED BY <2>1, <2>2 DEF LoopKnows, Active
<1>10. CASE EndPass
  BY <1>10 DEF EndPass, LoopKnows, Active
<1>11. CASE StopFilters
  BY <1>11 DEF StopFilters, AfterStop, LoopKnows, Active, TypeOK
<1>12. CASE Kernel \/ UNCHANGED vars
  <2>1. UNCHANGED program
    BY <1>12 DEF Kernel, Deliver, Overflow, Expire, LoseSignal, tables, vars
  <2> QED BY <2>1 DEF program, LoopKnows, Active, Pending, Visited
<1> QED
  BY <1>1, <1>2, <1>3, <1>4, <1>5, <1>6, <1>7, <1>8, <1>9, <1>10, <1>11, <1>12
     DEF Next, Thread, Finishes

-----------------------------------------------------------------------------
(* No step leaves a busy slot on a handle that is set to another filter.   *)
LEMMA WiredStep ==
    TypeOK /\ SlotsExclusive /\ LoopKnows /\ BusySlotIsWired /\ [Next]_vars => BusySlotIsWired'
<1> SUFFICES ASSUME TypeOK, SlotsExclusive, LoopKnows, BusySlotIsWired, [Next]_vars,
                    NEW s \in Slot, isBusy'[s], ~Ended'
             PROVE  wired'[s] = filterId'[s] \/ inbox'[s] = "timeout" \/ step'[filterId'[s]] = 2
  BY DEF BusySlotIsWired
<1> DEFINE Goal == wired'[s] = filterId'[s] \/ inbox'[s] = "timeout" \/ step'[filterId'[s]] = 2
<1>0. ASSUME isBusy[s], ~Ended
      PROVE  /\ wired[s] = filterId[s] \/ inbox[s] = "timeout" \/ step[filterId[s]] = 2
             /\ filterId[s] \in Filter /\ step[filterId[s]] \in {1, 2}
  BY <1>0 DEF BusySlotIsWired, SlotsExclusive, TypeOK
<1>1. CASE UNCHANGED <<step, filterId, isBusy, kernel>> /\ ~Ended
  BY <1>0, <1>1 DEF kernel, tables
<1>2. CASE Reap
  <2>1. ~HoldsFinished(s) /\ isBusy[s] /\ filterId'[s] = filterId[s]
    BY <1>2 DEF Reap, Retired, TypeOK
  <2>2. step[filterId[s]] # 2
    BY <2>1, ReapedSlots DEF SlotsExclusive
  <2> QED BY <1>0, <1>2, <2>1, <2>2 DEF Reap, Retired, kernel, tables, Ended
<1>3. ASSUME NEW t \in Slot, PrepareSlot(t) PROVE Goal
  <2>0. ~Ended
    BY <1>3 DEF PrepareSlot, Ended
  <2>1. CASE KeepSlot(t)
    BY <1>0, <2>0, <2>1 DEF KeepSlot, kernel, tables
  <2>2. ASSUME NEW f \in Filter, StartFilter(t, f) PROVE Goal
    <3>1. CASE s = t
      BY <2>2, <3>1 DEF StartFilter, TypeOK
    <3>2. CASE s # t
      <4>1. /\ isBusy[s] /\ filterId'[s] = filterId[s]
            /\ wired'[s] = wired[s] /\ inbox'[s] = inbox[s]
        BY <2>2, <3>2 DEF StartFilter, TypeOK
      <4>2. step[filterId[s]] = 2 => step'[filterId[s]] = 2
        BY <1>0, <2>0, <2>2, <4>1 DEF StartFilter, Pending
      <4> QED BY <1>0, <2>0, <4>1, <4>2
    <3> QED BY <3>1, <3>2
  <2>3. CASE LeaveSlotFree(t)
    <3>1. isBusy[s] /\ filterId'[s] = filterId[s] /\ UNCHANGED kernel
      BY <2>3 DEF LeaveSlotFree
    <3>2. step[filterId[s]] = 2 => step'[filterId[s]] = 2
      BY <1>0, <2>0, <2>3, <3>1 DEF LeaveSlotFree, Pending
    <3> QED BY <1>0, <2>0, <3>1, <3>2 DEF kernel, tables
  <2> QED BY <1>3, <2>1, <2>2, <2>3 DEF PrepareSlot
<1>4. ASSUME NEW t \in Slot,
             ReadGoesOn(t) \/ ReadLists(t) \/ Finishes(t) \/ ReadOverflowsTable(t)
      PROVE  Goal
  <2>1. /\ ~Ended /\ isBusy' = isBusy /\ filterId' = filterId /\ wired' = wired
        /\ inbox' = [inbox EXCEPT ![t] = "empty"]
    BY <1>4 DEF ReadGoesOn, ReadLists, Finishes, ReadFinishes, ReadFails, ReadOverflowsTable,
                Reading, Consume, Ended
  <2>2. step[filterId[s]] = 2 => step'[filterId[s]] = 2
    BY <1>0, <1>4, <2>1 DEF ReadGoesOn, ReadLists, Finishes, ReadFinishes, ReadFails,
                            ReadOverflowsTable, TypeOK
  <2>3. CASE s # t
    BY <1>0, <2>1, <2>2, <2>3 DEF TypeOK
  <2>4. CASE s = t /\ Finishes(t)
    BY <1>0, <2>1, <2>4 DEF Finishes, ReadFinishes, ReadFails, TypeOK
  <2>5. CASE s = t /\ ~Finishes(t)
    <3>1. inbox[s] # "timeout"
      BY <1>4, <2>5 DEF ReadGoesOn, ReadLists, ReadOverflowsTable
    <3> QED BY <1>0, <2>1, <2>2, <3>1
  <2> QED BY <2>3, <2>4, <2>5
<1>5. CASE StopFilters
  BY <1>5 DEF StopFilters, AfterStop, Ended
<1>6. CASE Kernel
  <2>1. UNCHANGED program
    BY <1>6 DEF Kernel, Deliver, Overflow, Expire, LoseSignal
  <2>2. ~Ended /\ isBusy[s]
    BY <2>1 DEF program, Ended
  <2>3. inbox[s] = "timeout" => inbox'[s] = "timeout"
    BY <1>6 DEF Kernel, Deliver, Overflow, Expire, LoseSignal, TypeOK, kernel, tables
  <2>4. wired'[s] = wired[s] \/ inbox'[s] = "timeout"
    BY <1>6 DEF Kernel, Deliver, Overflow, Expire, LoseSignal, TypeOK, kernel, tables
  <2> QED BY <1>0, <2>1, <2>2, <2>3, <2>4 DEF program
<1>7. CASE UNCHANGED vars
  BY <1>1, <1>7 DEF vars, program, Ended
<1>8. CASE \/ \E handle \in {"open", "bad"} : OpenHandle(handle)
           \/ RefuseHandle \/ StartLoop \/ LeaveOrPoll \/ PollReady \/ EndPass
  BY <1>1, <1>8 DEF OpenHandle, MoreHandles, RefuseHandle, StartLoop, LeaveOrPoll, PollReady,
                    ReadySlots, EndPass, Ended
<1>9. CASE PollTimeout \/ PollFailure \/ \E t \in Slot : PassOver(t)
  BY <1>1, <1>9 DEF PollTimeout, PollFailure, GiveUp, PassOver, Reading, Ended
<1> QED BY <1>2, <1>3, <1>4, <1>5, <1>6, <1>7, <1>8, <1>9 DEF Next, Thread, Finishes

(* The data found by poll is still there when its slot's turn comes.       *)
LEMMA ReadableStep == TypeOK /\ ReadHasData /\ [Next]_vars => ReadHasData'
<1> SUFFICES ASSUME TypeOK, ReadHasData, [Next]_vars, phase' = "read",
                    NEW s \in ready', cursor' <= s
             PROVE  HasData(s)'
  BY DEF ReadHasData
<1>1. CASE PollReady
  BY <1>1 DEF PollReady, ReadySlots, HasData, kernel, tables, Active
<1>2. ASSUME NEW t \in Slot,
             PassOver(t) \/ ReadGoesOn(t) \/ ReadLists(t) \/ Finishes(t) \/ ReadOverflowsTable(t)
      PROVE  HasData(s)'
  <2>1. /\ phase = "read" /\ t = cursor /\ cursor' = cursor + 1
        /\ UNCHANGED <<nActive, fd, ready>>
        /\ inbox' = inbox \/ inbox' = [inbox EXCEPT ![t] = "empty"]
    BY <1>2 DEF PassOver, ReadGoesOn, ReadLists, Finishes, ReadFinishes, ReadFails,
                ReadOverflowsTable, Reading, Consume, kernel, tables
  <2>2. s \in Slot /\ s # t /\ cursor <= s
    BY <2>1 DEF TypeOK, Slot
  <2>3. inbox'[s] = inbox[s]
    BY <2>1, <2>2 DEF TypeOK
  <2> QED BY <2>1, <2>2, <2>3 DEF ReadHasData, HasData, Active
<1>3. CASE Kernel
  <2>1. UNCHANGED program
    BY <1>3 DEF Kernel, Deliver, Overflow, Expire, LoseSignal
  <2>2. HasData(s)
    BY <2>1 DEF program, ReadHasData
  <2>3. inbox'[s] # "empty"
    BY <1>3, <2>2 DEF Kernel, Deliver, Overflow, Expire, LoseSignal, TypeOK, kernel, tables,
                      HasData, Active
  <2> QED BY <2>1, <2>2, <2>3 DEF program, HasData, Active
<1>4. CASE UNCHANGED vars
  BY <1>4 DEF vars, program, kernel, tables, ReadHasData, HasData, Active
<1>5. CASE \/ \E handle \in {"open", "bad"} : OpenHandle(handle)
           \/ RefuseHandle \/ StartLoop \/ Reap \/ LeaveOrPoll \/ EndPass \/ StopFilters
           \/ PollTimeout \/ PollFailure
           \/ \E t \in Slot : PrepareSlot(t)
  BY <1>5 DEF OpenHandle, MoreHandles, RefuseHandle, StartLoop, Reap, Retired, LeaveOrPoll,
              EndPass, StopFilters, AfterStop,
              PollTimeout, PollFailure, GiveUp, PrepareSlot
<1> QED BY <1>1, <1>2, <1>3, <1>4, <1>5 DEF Next, Thread, Finishes

(* The EPG is only reached with every filter retired and every handle      *)
(* closed.                                                                 *)
LEMMA XmlStep ==
    TypeOK /\ SlotsExclusive /\ LoopKnows /\ XmlAfterAllRetired /\ [Next]_vars
        => XmlAfterAllRetired'
<1> SUFFICES ASSUME TypeOK, SlotsExclusive, LoopKnows, XmlAfterAllRetired, [Next]_vars,
                    phase' = "xml"
             PROVE  (\A f \in Filter : step'[f] = 3) /\ \A s \in Slot : ~isBusy'[s] /\ fd'[s] # "open"
  BY DEF XmlAfterAllRetired
<1>1. CASE StopFilters
  <2>1. \A f \in Filter : step[f] = 3
    BY <1>1 DEF StopFilters, AfterStop, LoopKnows
  <2>2. \A s \in Slot : filterId[s] = None
    BY <2>1 DEF SlotsExclusive, TypeOK
  <2>3. \A s \in Slot : fd'[s] # "open"
    BY <1>1 DEF StopFilters, AfterStop, LoopKnows
  <2> QED BY <1>1, <2>1, <2>2, <2>3 DEF StopFilters, AfterStop, SlotsExclusive
<1>2. CASE Kernel \/ UNCHANGED vars
  <2>1. UNCHANGED program
    BY <1>2 DEF Kernel, Deliver, Overflow, Expire, LoseSignal, tables, vars
  <2> QED BY <2>1 DEF program, XmlAfterAllRetired
<1>3. CASE \/ \E handle \in {"open", "bad"} : OpenHandle(handle)
           \/ RefuseHandle \/ StartLoop \/ Reap \/ LeaveOrPoll \/ EndPass
           \/ PollReady \/ PollTimeout \/ PollFailure
  BY <1>3 DEF OpenHandle, MoreHandles, RefuseHandle, StartLoop, Reap, Retired, LeaveOrPoll,
              EndPass, PollReady, ReadySlots,
              PollTimeout, PollFailure, GiveUp
<1>4. CASE \E s \in Slot : \/ PrepareSlot(s) \/ PassOver(s) \/ ReadGoesOn(s) \/ ReadLists(s)
                           \/ Finishes(s) \/ ReadOverflowsTable(s)
  BY <1>4 DEF PrepareSlot, PassOver, ReadGoesOn, ReadLists, Finishes, ReadFinishes, ReadFails,
              ReadOverflowsTable, Reading, Consume
<1> QED BY <1>1, <1>2, <1>3, <1>4 DEF Next, Thread, Finishes

-----------------------------------------------------------------------------
(* The inductive invariant: none of its parts is inductive without the     *)
(* types, SlotsExclusive and LoopKnows.                                    *)
IInv ==
    /\ TypeOK /\ SlotsExclusive /\ LoopKnows
    /\ BusySlotIsWired /\ ReadHasData /\ XmlAfterAllRetired

(* The inductive invariant holds initially: nothing is opened, started or  *)
(* wired yet.                                                              *)
LEMMA InvInit == Init => IInv
<1> SUFFICES ASSUME Init PROVE IInv
  OBVIOUS
<1>1. TypeOK
  BY TypeInit
<1>2. SlotsExclusive
  BY NoneIsNoFilter DEF Init, SlotsExclusive
<1>3. LoopKnows
  BY DEF Init, LoopKnows
<1>4. BusySlotIsWired /\ ReadHasData /\ XmlAfterAllRetired
  BY DEF Init, BusySlotIsWired, ReadHasData, XmlAfterAllRetired
<1> QED BY <1>1, <1>2, <1>3, <1>4 DEF IInv

(* Every step of the thread and of the kernel preserves it: each part is   *)
(* preserved with the help of the others.                                  *)
LEMMA InvStep == IInv /\ [Next]_vars => IInv'
BY TypeStep, ExclusiveStep, LoopStep, WiredStep, ReadableStep, XmlStep DEF IInv

(* It holds in every reachable state, for all sizes of the tables.         *)
THEOREM Invariance == Spec => []IInv
BY InvInit, InvStep, PTL DEF Spec

(* Slots and filters agree in every reachable state, however many filters  *)
(* and slots there are: no two handles ever feed one filter.               *)
THEOREM Exclusive == Spec => []SlotsExclusive
BY Invariance, PTL DEF IInv

(* IsRunning and IsError mean what the loop takes them to mean: it is only *)
(* left without an error when every filter is retired.                     *)
THEOREM LoopCorrect == Spec => []LoopKnows
BY Invariance, PTL DEF IInv

(* A section is never attributed to another filter than the one it passed. *)
THEOREM Wired == Spec => []BusySlotIsWired
BY Invariance, PTL DEF IInv

(* ReadBuffer never reads a handle that has nothing to return.             *)
THEOREM Readable == Spec => []ReadHasData
BY Invariance, PTL DEF IInv

(* CreateEpgXml is never called while a filter runs or a handle is open.   *)
THEOREM XmlLast == Spec => []XmlAfterAllRetired
BY Invariance, PTL DEF IInv

(* One step moves a filter at most one step on.                            *)
LEMMA ForwardStep ==
    ASSUME IInv, [Next]_vars, NEW f \in Filter, step'[f] # step[f]
    PROVE  <<step[f], step'[f]>> \in {<<0, 1>>, <<0, 3>>, <<1, 2>>, <<2, 3>>}
<1> USE DEF IInv
<1>1. CASE UNCHANGED <<step, filterId, isBusy>>
  BY <1>1
<1>2. CASE Reap
  BY <1>2 DEF Reap, Retired
<1>3. ASSUME NEW s \in Slot, PrepareSlot(s)
      PROVE  <<step[f], step'[f]>> \in {<<0, 1>>, <<0, 3>>}
  <2>1. CASE KeepSlot(s)
    BY <2>1 DEF KeepSlot
  <2>2. ASSUME NEW g \in Filter, StartFilter(s, g)
        PROVE  <<step[f], step'[f]>> \in {<<0, 1>>, <<0, 3>>}
    BY <2>2 DEF StartFilter, Pending
  <2>3. CASE LeaveSlotFree(s)
    BY <2>3 DEF LeaveSlotFree, Pending
  <2> QED BY <1>3, <2>1, <2>2, <2>3 DEF PrepareSlot
<1>4. ASSUME NEW s \in Slot, Finishes(s)
      PROVE  <<step[f], step'[f]>> = <<1, 2>>
  <2>1. f = filterId[s] /\ step'[f] = 2
    BY <1>4 DEF Finishes, ReadFinishes, ReadFails, TypeOK
  <2>2. step[f] \in {1, 2}
    BY <2>1 DEF SlotsExclusive
  <2> QED BY <2>1, <2>2
<1> QED BY <1>1, <1>2, <1>3, <1>4, SlotSteps

(* A filter only ever moves forward, so no table is read twice.            *)
THEOREM Forward == Spec => StepsForward
<1>1. IInv /\ [Next]_vars
        => [\A f \in Filter : step'[f] # step[f] =>
              <<step[f], step'[f]>> \in {<<0, 1>>, <<0, 3>>, <<1, 2>>, <<2, 3>>}]_step
  BY ForwardStep
<1> QED BY <1>1, Invariance, PTL DEF Spec, StepsForward

-----------------------------------------------------------------------------
(* The filters are finitely many, and so are the slots.                    *)
LEMMA FiniteTables ==
    /\ IsFiniteSet(Filter)
    /\ IsFiniteSet(Slot) /\ Cardinality(Slot) = MaxActive
<1>1. IsFiniteSet(Filter)
  BY FiltersNat, FS_Interval DEF Filter
<1>2. IsFiniteSet(Slot) /\ Cardinality(Slot) = (MaxActive - 1) - 0 + 1
  BY SizesAssumption, FS_Interval DEF Slot
<1> QED BY <1>1, <1>2, SizesAssumption

-----------------------------------------------------------------------------
(* A bad handle: until its slot is reached for the first time each slot    *)
(* before it has started one filter at most, and afterwards no filter is   *)
(* waiting.                                                                *)
FirstPass(b) ==
    \/ phase \in {"open", "reap"} /\ served = {}
    \/ phase = "prepare" /\ cursor <= b /\ Cardinality(served) <= cursor
    \/ phase \in {"stop", "xml", "failed"}

Capped ==
    /\ phase = "open" => served = {}
    /\ \A b \in Slot : fd[b] = "bad" =>
         /\ b < nActive /\ ~isBusy[b]
         /\ Cardinality(served) <= b
         /\ Pending = {} \/ FirstPass(b)

LEMMA CappedInit == Init => Capped
<1> SUFFICES ASSUME Init PROVE Capped
  OBVIOUS
<1>1. \A b \in Slot : fd[b] = "closed"
  BY DEF Init
<1> QED BY <1>1 DEF Init, Capped

(* Nothing waits again that did not wait before.                           *)
LEMMA NoneWaitsAnew == ASSUME IInv, [Next]_vars PROVE Pending' \subseteq Pending
<1>1. ASSUME NEW f \in Filter, step'[f] = 0 PROVE step[f] = 0
  <2>1. CASE step'[f] = step[f] BY <1>1, <2>1
  <2>2. CASE step'[f] # step[f]
    <3>1. <<step[f], step'[f]>> \in {<<0, 1>>, <<0, 3>>, <<1, 2>>, <<2, 3>>}
      BY <2>2, ForwardStep
    <3> QED BY <1>1, <3>1
  <2> QED BY <2>1, <2>2
<1> QED BY <1>1 DEF Pending

(* One slot is prepared.                                                   *)
LEMMA CappedPrepare ==
    ASSUME IInv, Capped, NEW s \in Slot, PrepareSlot(s), Pending' \subseteq Pending,
           NEW b \in Slot, fd[b] = "bad"
    PROVE  ~isBusy'[b] /\ Cardinality(served') <= b /\ (Pending' = {} \/ FirstPass(b)')
<1>0. /\ phase = "prepare" /\ phase' = "prepare" /\ s = cursor /\ cursor' = cursor + 1
      /\ s \in Nat /\ b \in Nat
  BY SizesAssumption DEF PrepareSlot, Slot
<1>1. /\ ~isBusy[b] /\ Cardinality(served) <= b
      /\ Pending = {} \/ (cursor <= b /\ Cardinality(served) <= cursor)
  BY <1>0 DEF Capped, FirstPass
<1>2. IsFiniteSet(served) /\ Cardinality(served) \in Nat
  <2>1. served \in SUBSET Filter
    BY DEF IInv, TypeOK
  <2> QED BY <2>1, FiniteTables, FS_Subset, FS_CardinalityType
<1>3. CASE KeepSlot(s)
  <2>1. UNCHANGED <<isBusy, served, Pending>> /\ isBusy[s]
    BY <1>3 DEF KeepSlot, Pending
  <2>2. s # b
    BY <1>1, <2>1
  <2> QED BY <1>0, <1>1, <1>2, <2>1, <2>2 DEF FirstPass
<1>4. ASSUME NEW f \in Filter, StartFilter(s, f)
      PROVE  ~isBusy'[b] /\ Cardinality(served') <= b /\ (Pending' = {} \/ FirstPass(b)')
  <2>1. s # b /\ f \in Pending /\ served' = served \cup {f}
    BY <1>4 DEF StartFilter
  <2>2. ~isBusy'[b]
    BY <1>1, <1>4, <2>1 DEF StartFilter, IInv, TypeOK
  <2>3. Cardinality(served') <= Cardinality(served) + 1 /\ Cardinality(served') \in Nat
    <3>1. Cardinality(served') = IF f \in served THEN Cardinality(served)
                                                 ELSE Cardinality(served) + 1
      BY <1>2, <2>1, FS_AddElement
    <3> QED BY <1>2, <3>1
  <2>4. cursor <= b /\ Cardinality(served) <= cursor
    BY <1>1, <2>1
  <2> QED BY <1>0, <1>2, <2>1, <2>2, <2>3, <2>4 DEF FirstPass
<1>5. CASE LeaveSlotFree(s)
  <2>1. UNCHANGED <<isBusy, served>> /\ Pending' = {}
    BY <1>5 DEF LeaveSlotFree, Pending
  <2> QED BY <1>1, <2>1
<1> QED BY <1>3, <1>4, <1>5 DEF PrepareSlot

LEMMA CappedStep == IInv /\ Capped /\ [Next]_vars => Capped'
<1> SUFFICES ASSUME IInv, Capped, [Next]_vars PROVE Capped'
  OBVIOUS
<1>0. Pending' \subseteq Pending /\ TypeOK
  BY NoneWaitsAnew DEF IInv
<1>1. ASSUME NEW handle \in {"open", "bad"}, OpenHandle(handle) PROVE Capped'
  <2>1. phase = "open" /\ served = {} /\ UNCHANGED <<phase, served, isBusy>>
    BY <1>1 DEF OpenHandle, Capped
  <2>2. \A b \in Slot : ~isBusy[b]
    <3>1. \A f \in Filter : step[f] = 0
      BY <2>1 DEF IInv, LoopKnows
    <3>2. \A b \in Slot : filterId[b] = None
      BY <3>1 DEF IInv, SlotsExclusive, TypeOK
    <3> QED BY <3>2 DEF IInv, SlotsExclusive
  <2>3. Cardinality(served) = 0 /\ \A b \in Slot : b >= 0
    BY <2>1, FS_EmptySet DEF Slot
  <2>4. \A b \in Slot : fd'[b] = "bad" => b < nActive'
    <3>1. \A b \in Slot : b # nActive => fd'[b] = fd[b]
      BY <1>0, <1>1 DEF OpenHandle, TypeOK
    <3>2. nActive' = nActive + 1 /\ nActive \in Nat /\ \A b \in Slot : b \in Nat
      BY <1>0, <1>1, SizesAssumption DEF OpenHandle, TypeOK, Slot
    <3> QED BY <3>1, <3>2 DEF Capped
  <2> QED BY <2>1, <2>2, <2>3, <2>4 DEF Capped, FirstPass
<1>2. CASE RefuseHandle
  BY <1>2, <1>0 DEF RefuseHandle, MoreHandles, Capped, FirstPass, Pending
<1>3. CASE StartLoop
  BY <1>3, <1>0 DEF StartLoop, MoreHandles, Capped, FirstPass, Pending
<1>4. CASE Reap
  <2>1. /\ phase = "reap" /\ phase' = "prepare" /\ cursor' = 0 /\ UNCHANGED <<fd, served, nActive>>
        /\ \A b \in Slot : isBusy'[b] => isBusy[b]
    BY <1>4 DEF Reap
  <2>2. Cardinality({}) = 0 /\ \A b \in Slot : b >= 0
    BY FS_EmptySet DEF Slot
  <2> QED BY <1>0, <2>1, <2>2 DEF Capped, FirstPass
<1>5. ASSUME NEW s \in Slot, PrepareSlot(s) PROVE Capped'
  <2>1. UNCHANGED <<fd, nActive>> /\ phase' = "prepare"
    BY <1>5 DEF PrepareSlot
  <2> QED BY <1>0, <1>5, <2>1, CappedPrepare DEF Capped
<1>6. CASE LeaveOrPoll
  <2>1. /\ phase = "prepare" /\ cursor = nActive /\ phase' \in {"poll", "stop"}
        /\ UNCHANGED <<fd, served, isBusy>>
    BY <1>6 DEF LeaveOrPoll
  <2>2. UNCHANGED nActive /\ nActive \in Nat
    BY <1>0, <1>6, SizesAssumption DEF LeaveOrPoll, TypeOK
  <2>3. \A b \in Slot : b \in Nat
    BY SizesAssumption DEF Slot
  <2>4. \A b \in Slot : fd[b] = "bad" => Pending = {}
    BY <2>1, <2>2, <2>3 DEF Capped, FirstPass
  <2> QED BY <1>0, <2>1, <2>2, <2>4 DEF Capped
<1>7. CASE \/ PollReady \/ PollTimeout \/ PollFailure \/ EndPass
           \/ \E s \in Slot : \/ PassOver(s) \/ ReadGoesOn(s) \/ ReadLists(s)
                              \/ Finishes(s) \/ ReadOverflowsTable(s)
  <2>1. phase \in {"poll", "read"} /\ phase' # "open" /\ UNCHANGED <<fd, served, isBusy, nActive>>
    BY <1>7 DEF PollReady, PollTimeout, PollFailure, GiveUp, EndPass, PassOver, ReadGoesOn,
                ReadLists, Finishes, ReadFinishes, ReadFails, ReadOverflowsTable, Reading, Consume
  <2> QED BY <1>0, <2>1 DEF Capped, FirstPass
<1>8. CASE StopFilters
  <2>1. /\ phase' \in {"xml", "failed"} /\ UNCHANGED <<served, isBusy, nActive>>
        /\ \A b \in Slot : fd'[b] = "bad" => fd[b] = "bad"
    BY <1>8 DEF StopFilters, AfterStop
  <2> QED BY <2>1 DEF Capped, FirstPass
<1>9. CASE Kernel \/ UNCHANGED vars
  <2>1. UNCHANGED <<phase, cursor, fd, isBusy, served, nActive>>
    BY <1>9 DEF Kernel, Deliver, Overflow, Expire, LoseSignal, tables, vars, program
  <2> QED BY <1>0, <2>1 DEF Capped, FirstPass
<1> QED BY <1>1, <1>2, <1>3, <1>4, <1>5, <1>6, <1>7, <1>8, <1>9 DEF Next, Thread, Finishes

(* One handle that could not be opened keeps the filters that still wait   *)
(* from ever being started: slot b bad, b filters at most.                 *)
THEOREM BadHandleCaps == Spec => []BadHandleCapsTheGrab
<1>1. IInv /\ Capped => BadHandleCapsTheGrab
  BY DEF Capped, BadHandleCapsTheGrab, Active
<1> QED BY <1>1, CappedInit, CappedStep, InvInit, InvStep, PTL DEF Spec

-----------------------------------------------------------------------------
(* The filters that run are in different slots, so that there are as many  *)
(* slots at least; and a slot that is free is one more.                    *)
Running == {f \in Filter : step[f] \in {1, 2}}

LEMMA RunningFits ==
    ASSUME IInv, NEW s \in Slot, ~isBusy[s]
    PROVE  Cardinality(Running) < MaxActive
<1> DEFINE Others == Slot \ {s}
           place == [f \in Running |-> CHOOSE t \in Slot : filterId[t] = f]
<1>1. \A f \in Running : \E t \in Slot : filterId[t] = f
  BY DEF IInv, SlotsExclusive, Running
<1>2. \A f \in Running : place[f] \in Slot /\ filterId[place[f]] = f
  BY <1>1
<1>3. filterId[s] = None /\ \A f \in Running : f # None
  BY NoneIsNoFilter DEF IInv, SlotsExclusive, Running
<1>4. \A f \in Running : place[f] \in Others
  BY <1>2, <1>3
<1>5. \A f, g \in Running : place[f] = place[g] => f = g
  BY <1>2
<1>6. place \in [Running -> Others]
  BY <1>4
<1>7. place \in Injection(Running, Others)
  BY <1>5, <1>6 DEF Injection, IsInjective
<1>8. IsFiniteSet(Others) /\ Cardinality(Others) = MaxActive - 1
  <2>1. IsFiniteSet(Slot) /\ Cardinality(Slot) = MaxActive
    BY FiniteTables
  <2>2. /\ IsFiniteSet(Others)
        /\ Cardinality(Others) = IF s \in Slot THEN Cardinality(Slot) - 1 ELSE Cardinality(Slot)
    BY <2>1, FS_RemoveElement
  <2> QED BY <2>1, <2>2
<1> HIDE DEF place, Others
<1>9. IsFiniteSet(Running) /\ Cardinality(Running) <= Cardinality(Others)
  BY <1>7, <1>8, FS_Injection
<1>10. Cardinality(Running) \in Nat
  BY <1>9, FS_CardinalityType
<1> QED BY <1>8, <1>9, <1>10, SizesAssumption

(* What the pool sees of a state.                                          *)
StatusOf(n) == CASE n = 0 -> "pending" [] n \in {1, 2} -> "running" [] OTHER -> "over"
PoolStatus == [f \in Filter |-> StatusOf(step[f])]
OutcomeOf(p) == CASE p = "xml" -> "complete" [] p = "failed" -> "failed" [] OTHER -> "undecided"

LEMMA StatusTable ==
    /\ StatusOf(0) = "pending" /\ StatusOf(1) = "running" /\ StatusOf(2) = "running"
    /\ StatusOf(3) = "over"
BY DEF StatusOf

LEMMA OutcomeTable ==
    /\ OutcomeOf("xml") = "complete" /\ OutcomeOf("failed") = "failed"
    /\ \A p \in Phase : p \notin {"xml", "failed"} => OutcomeOf(p) = "undecided"
BY DEF OutcomeOf, Phase

LEMMA PoolSees ==
    ASSUME IInv
    PROVE  /\ Pool!InStatus("running") = Running
           /\ Pool!InStatus("pending") = Pending
           /\ \A f \in Filter : StatusOf(step[f]) = "over" <=> step[f] = 3
<1>1. \A f \in Filter : step[f] \in {0, 1, 2, 3}
  BY DEF IInv, TypeOK
<1>2. \A f \in Filter : /\ StatusOf(step[f]) = "running" <=> step[f] \in {1, 2}
                        /\ StatusOf(step[f]) = "pending" <=> step[f] = 0
                        /\ StatusOf(step[f]) = "over" <=> step[f] = 3
  BY <1>1, StatusTable
<1>3. \A st : Pool!InStatus(st) = {f \in Filter : PoolStatus[f] = st}
  BY DEF Pool!InStatus, PoolStatus, StatusOf
<1>4. \A f \in Filter : PoolStatus[f] = StatusOf(step[f])
  BY DEF PoolStatus
<1> QED BY <1>2, <1>3, <1>4 DEF Running, Pending

(* Each step of the scheduler that the pool sees is one of the pool's.     *)
LEMMA PoolStart ==
    ASSUME IInv, NEW s \in Slot, phase = "prepare", phase' = phase,
           NEW f \in Filter, StartFilter(s, f)
    PROVE  Pool!Start
<1> DEFINE Refused == {g \in Pending : g < f}
<1>1. f \in Pending /\ ~isBusy[s]
  BY DEF StartFilter
<1>2. f \in Pool!InStatus("pending") /\ Refused \in SUBSET (Pool!InStatus("pending") \ {f})
  <2>1. ~(f < f)
    BY FiltersNat DEF Filter
  <2> QED BY <1>1, <2>1, PoolSees
<1>3. Pool!Cardinality(Pool!InStatus("running")) < MaxActive
  <2>1. Pool!Cardinality(Running) = Cardinality(Running)
    BY DEF Pool!Cardinality, Cardinality
  <2> QED BY <1>1, <2>1, PoolSees, RunningFits
<1>4. OutcomeOf(phase) = "undecided" /\ OutcomeOf(phase') = OutcomeOf(phase)
  BY OutcomeTable DEF IInv, TypeOK
<1>5. PoolStatus' = [g \in Filter |-> CASE g = f -> "running"
                                        [] g \in Refused -> "over"
                                        [] OTHER -> PoolStatus[g]]
  <2>1. \A g \in Filter : step'[g] = IF g = f THEN 1
                                     ELSE IF g \in Refused THEN 3 ELSE step[g]
    BY DEF StartFilter
  <2>2. \A g \in Filter : StatusOf(step'[g]) = IF g = f THEN "running"
                                               ELSE IF g \in Refused THEN "over"
                                               ELSE StatusOf(step[g])
    BY <2>1, StatusTable
  <2>3. \A g \in Filter : (CASE g = f -> "running"
                             [] g \in Refused -> "over"
                             [] OTHER -> PoolStatus[g])
                          = IF g = f THEN "running" ELSE IF g \in Refused THEN "over"
                            ELSE StatusOf(step[g])
    <3>1. f \notin Refused
      BY FiltersNat DEF Filter
    <3> QED BY <3>1 DEF PoolStatus
  <2>4. PoolStatus' = [g \in Filter |-> StatusOf(step'[g])]
    BY DEF PoolStatus, StatusOf
  <2> QED BY <2>2, <2>3, <2>4
<1> HIDE DEF Refused
<1>6. Pool!Start <=>
        \E g \in Pool!InStatus("pending") : \E R \in SUBSET (Pool!InStatus("pending") \ {g}) :
          /\ OutcomeOf(phase) = "undecided"
          /\ Pool!Cardinality(Pool!InStatus("running")) < MaxActive
          /\ PoolStatus' = [h \in Filter |-> CASE h = g -> "running"
                                               [] h \in R -> "over"
                                               [] OTHER -> PoolStatus[h]]
          /\ OutcomeOf(phase') = OutcomeOf(phase)
  BY DEF Pool!Start, PoolStatus, StatusOf, OutcomeOf
<1> QED BY <1>2, <1>3, <1>4, <1>5, <1>6

LEMMA PoolRefuse ==
    ASSUME IInv, NEW s \in Slot, phase = "prepare", phase' = phase, LeaveSlotFree(s)
    PROVE  Pool!Refuse \/ UNCHANGED <<PoolStatus, OutcomeOf(phase)>>
<1>1. OutcomeOf(phase) = "undecided" /\ OutcomeOf(phase)' = OutcomeOf(phase)
  BY OutcomeTable DEF IInv, TypeOK, OutcomeOf
<1>2. \A f \in Filter : step'[f] = IF step[f] = 0 THEN 3 ELSE step[f]
  BY DEF LeaveSlotFree, Pending
<1>3. PoolStatus' = [f \in Filter |-> StatusOf(step'[f])]
      /\ PoolStatus = [f \in Filter |-> StatusOf(step[f])]
  BY DEF PoolStatus, StatusOf
<1>4. CASE Pending = {}
  <2>1. \A f \in Filter : step'[f] = step[f]
    BY <1>2, <1>4 DEF Pending
  <2> QED BY <1>1, <1>3, <2>1
<1>5. CASE Pending # {}
  <2>1. \A f \in Filter : StatusOf(step'[f]) = IF StatusOf(step[f]) = "pending" THEN "over"
                                               ELSE StatusOf(step[f])
    <3>1. \A f \in Filter : step[f] \in {0, 1, 2, 3}
      BY DEF IInv, TypeOK
    <3> QED BY <1>2, <3>1, StatusTable
  <2>2. PoolStatus' = [f \in Filter |-> IF PoolStatus[f] = "pending" THEN "over" ELSE PoolStatus[f]]
    BY <1>3, <2>1
  <2>3. Pool!InStatus("pending") # {}
    BY <1>5, PoolSees
  <2>4. Pool!Refuse <=>
          /\ OutcomeOf(phase) = "undecided"
          /\ Pool!InStatus("pending") # {}
          /\ PoolStatus' = [f \in Filter |-> IF PoolStatus[f] = "pending" THEN "over"
                                             ELSE PoolStatus[f]]
          /\ OutcomeOf(phase)' = OutcomeOf(phase)
    BY DEF Pool!Refuse, PoolStatus, StatusOf, OutcomeOf
  <2> QED BY <1>1, <2>2, <2>3, <2>4
<1> QED BY <1>4, <1>5

LEMMA PoolEnd ==
    ASSUME IInv, Reap
    PROVE  Pool!End \/ UNCHANGED <<PoolStatus, OutcomeOf(phase)>>
<1> DEFINE S == {f \in Filter : step[f] = 2}
<1>1. OutcomeOf(phase) = "undecided" /\ OutcomeOf(phase)' = OutcomeOf(phase)
  <2>1. phase = "reap" /\ phase' = "prepare"
    BY DEF Reap
  <2> QED BY <2>1 DEF OutcomeOf
<1>2. \A f \in Filter : step'[f] = IF f \in S THEN 3 ELSE step[f]
  BY DEF Reap, Retired
<1>3. PoolStatus' = [f \in Filter |-> StatusOf(step'[f])]
      /\ PoolStatus = [f \in Filter |-> StatusOf(step[f])]
  BY DEF PoolStatus, StatusOf
<1>4. CASE S = {}
  <2>1. \A f \in Filter : step'[f] = step[f]
    BY <1>2, <1>4
  <2> QED BY <1>1, <1>3, <2>1
<1>5. CASE S # {}
  <2>1. S \in SUBSET Pool!InStatus("running")
    BY PoolSees DEF Running
  <2>2. PoolStatus' = [f \in Filter |-> IF f \in S THEN "over" ELSE PoolStatus[f]]
    <3>1. \A f \in Filter : StatusOf(step'[f]) = IF f \in S THEN "over" ELSE StatusOf(step[f])
      BY <1>2, StatusTable
    <3> QED BY <1>3, <3>1
  <2> HIDE DEF S
  <2>3. Pool!End <=>
          \E R \in SUBSET Pool!InStatus("running") :
            /\ OutcomeOf(phase) = "undecided"
            /\ R # {}
            /\ PoolStatus' = [f \in Filter |-> IF f \in R THEN "over" ELSE PoolStatus[f]]
            /\ OutcomeOf(phase)' = OutcomeOf(phase)
    BY DEF Pool!End, PoolStatus, StatusOf, OutcomeOf
  <2> QED BY <1>1, <1>5, <2>1, <2>2, <2>3
<1> QED BY <1>4, <1>5

LEMMA PoolCloses ==
    ASSUME IInv, StopFilters
    PROVE  Pool!Complete \/ Pool!Fail
<1>1. OutcomeOf(phase) = "undecided" /\ UNCHANGED PoolStatus
  BY DEF StopFilters, OutcomeOf, PoolStatus
<1>2. CASE isError
  <2>1. OutcomeOf(phase') = "failed"
    BY <1>2 DEF StopFilters, AfterStop, OutcomeOf
  <2>2. Pool!Fail <=> /\ OutcomeOf(phase) = "undecided" /\ OutcomeOf(phase') = "failed"
                      /\ PoolStatus' = PoolStatus
    BY DEF Pool!Fail, PoolStatus, StatusOf, OutcomeOf
  <2> QED BY <1>1, <2>1, <2>2
<1>3. CASE ~isError
  <2>1. OutcomeOf(phase') = "complete"
    BY <1>3 DEF StopFilters, AfterStop, OutcomeOf
  <2>2. \A f \in Filter : PoolStatus[f] = "over"
    <3>1. \A f \in Filter : step[f] = 3
      BY <1>3 DEF StopFilters, IInv, LoopKnows
    <3> QED BY <3>1, StatusTable DEF PoolStatus
  <2>3. Pool!Complete <=> /\ OutcomeOf(phase) = "undecided"
                          /\ \A f \in Filter : PoolStatus[f] = "over"
                          /\ OutcomeOf(phase') = "complete"
                          /\ PoolStatus' = PoolStatus
    BY DEF Pool!Complete, PoolStatus, StatusOf, OutcomeOf
  <2> QED BY <1>1, <2>1, <2>2, <2>3
<1> QED BY <1>2, <1>3

LEMMA PoolStep == IInv /\ IInv' /\ [Next]_vars => [Pool!Next]_Pool!vars
<1> SUFFICES ASSUME IInv, IInv', [Next]_vars
             PROVE  Pool!Next \/ UNCHANGED <<PoolStatus, OutcomeOf(phase)>>
  BY DEF Pool!vars, PoolStatus, StatusOf, OutcomeOf
<1>1. CASE Reap
  BY <1>1, PoolEnd DEF Pool!Next
<1>2. ASSUME NEW s \in Slot, PrepareSlot(s)
      PROVE  Pool!Next \/ UNCHANGED <<PoolStatus, OutcomeOf(phase)>>
  <2>0. phase = "prepare" /\ phase' = phase
    BY <1>2 DEF PrepareSlot
  <2>1. CASE KeepSlot(s)
    BY <2>0, <2>1 DEF KeepSlot, PoolStatus, OutcomeOf
  <2>2. ASSUME NEW f \in Filter, StartFilter(s, f) PROVE Pool!Next
    BY <2>0, <2>2, PoolStart DEF Pool!Next
  <2>3. CASE LeaveSlotFree(s)
    BY <2>0, <2>3, PoolRefuse DEF Pool!Next
  <2> QED BY <1>2, <2>1, <2>2, <2>3 DEF PrepareSlot
<1>3. CASE StopFilters
  BY <1>3, PoolCloses DEF Pool!Next
<1>4. ASSUME NEW s \in Slot, Finishes(s)
      PROVE  UNCHANGED <<PoolStatus, OutcomeOf(phase)>>
  <2>1. filterId[s] \in Filter /\ step[filterId[s]] \in {1, 2} /\ phase' = phase
    BY <1>4 DEF Finishes, ReadFinishes, ReadFails, Consume, IInv, SlotsExclusive, TypeOK
  <2>2. \A f \in Filter : step'[f] = IF f = filterId[s] THEN 2 ELSE step[f]
    BY <1>4, <2>1 DEF Finishes, ReadFinishes, ReadFails, IInv, TypeOK
  <2>3. \A f \in Filter : StatusOf(step'[f]) = StatusOf(step[f])
    BY <2>1, <2>2, StatusTable
  <2>4. PoolStatus' = [f \in Filter |-> StatusOf(step'[f])]
    BY DEF PoolStatus, StatusOf
  <2> QED BY <2>1, <2>3, <2>4 DEF PoolStatus, OutcomeOf
<1>5. CASE \/ \E handle \in {"open", "bad"} : OpenHandle(handle)
           \/ RefuseHandle \/ StartLoop \/ LeaveOrPoll \/ PollReady \/ PollTimeout \/ PollFailure
           \/ EndPass
           \/ \E s \in Slot : PassOver(s) \/ ReadGoesOn(s) \/ ReadLists(s) \/ ReadOverflowsTable(s)
  <2>1. UNCHANGED step /\ phase \notin {"xml", "failed"} /\ phase' \notin {"xml", "failed"}
    BY <1>5 DEF OpenHandle, MoreHandles, RefuseHandle, StartLoop, LeaveOrPoll, PollReady,
                PollTimeout, PollFailure, GiveUp, EndPass, PassOver, ReadGoesOn, ReadLists,
                ReadOverflowsTable, Reading, Consume
  <2>2. OutcomeOf(phase) = "undecided" /\ OutcomeOf(phase)' = "undecided"
    BY <2>1 DEF OutcomeOf
  <2> QED BY <2>1, <2>2 DEF PoolStatus, StatusOf
<1>6. CASE Kernel \/ UNCHANGED vars
  <2>1. UNCHANGED <<step, phase>>
    BY <1>6 DEF Kernel, Deliver, Overflow, Expire, LoseSignal, tables, vars, program
  <2> QED BY <2>1 DEF PoolStatus, OutcomeOf, StatusOf
<1> QED BY <1>1, <1>2, <1>3, <1>4, <1>5, <1>6 DEF Next, Thread, Finishes

(* PollingFilters implements the pool, for every size of its tables: no    *)
(* filter is handed out twice, the slots bound the filters that run, and   *)
(* the grab is complete only when all are over.                            *)
THEOREM Implements == Spec => ImplementsPool
<1>1. Init => Pool!Init
  BY DEF Init, Pool!Init
<1> QED BY <1>1, InvInit, InvStep, PoolStep, PTL DEF Spec, ImplementsPool, Pool!Spec
=============================================================================
