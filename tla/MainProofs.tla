----------------------------- MODULE MainProofs -----------------------------
(***************************************************************************)
(* Proofs about the program and its tuner (modules Main and Tuner), for    *)
(* every set of formats and inputs and every tuning file.                  *)
(*                                                                         *)
(* The document is determined by the place where main is, the setting of   *)
(* the frontend by the place where tune is: each of the two inductive      *)
(* invariants is a table of those places.                                  *)
(***************************************************************************)
EXTENDS Main, TLAPS, SequenceTheorems, WellFoundedInduction

(* A set of natural numbers has a smallest one.                            *)
LEMMA SmallestOfNaturals ==
    ASSUME NEW T \in SUBSET Nat, T # {}
    PROVE  \E x \in T : \A y \in T : x <= y
<1> DEFINE R == OpToRel(<, Nat)
<1>1. IsWellFoundedOn(R, Nat)
  BY NatLessThanWellFounded
<1>2. \A x, y \in Nat : y < x => <<y, x>> \in R
  BY DEF OpToRel
<1> HIDE DEF R
<1>3. PICK x \in T : \A y \in T : ~ (<<y, x>> \in R)
  BY <1>1, WFMin
<1>4. \A y \in T : x <= y
  <2>1. \A u, v \in Nat : u <= v \/ v < u
    OBVIOUS
  <2> QED BY <1>2, <1>3, <2>1
<1> QED BY <1>4

-----------------------------------------------------------------------------
(* What was written when main is at each of its places.                    *)
Pieces == {"header", "programmes", "channels", "footer"}

Empty == Len(document) = 0
Begun == Len(document) = 1 /\ document[1] = "header"
Listed == Len(document) = 2 /\ document[1] = "header" /\ document[2] = "programmes"
Whole == /\ Len(document) = 3
         /\ document[1] = "header" /\ document[2] = "programmes" /\ document[3] = "channels"
ClosedEmpty == Len(document) = 2 /\ document[1] = "header" /\ document[2] = "footer"
ClosedWhole == /\ Len(document) = 4
               /\ document[1] = "header" /\ document[2] = "programmes"
               /\ document[3] = "channels" /\ document[4] = "footer"

DocumentOf ==
    /\ phase \in {"tables", "tune", "header", "open", "read", "reading", "channels", "sky",
                  "footer", "end"}
    /\ document \in Seq(Pieces)
    /\ phase # "end" => status = Running
    /\ phase \in {"tables", "tune", "header"} => Empty /\ opened = {}
    /\ phase \in {"open", "read", "sky"} => Begun /\ opened = {}
    /\ phase = "reading" => Begun
    /\ phase = "channels" => Listed
    /\ phase = "footer" => Whole \/ (Begun /\ ~InputRead)
    /\ phase = "end" =>
         \/ status = 0 /\ (ClosedWhole \/ (ClosedEmpty /\ ~InputRead))
         \/ status \in {1, 2} /\ (Empty \/ Begun \/ Listed)
    /\ alarmed => phase \in {"read", "end"} /\ opened = {}

(* What is appended comes behind the first pieces.                         *)
LEMMA Appended ==
    ASSUME NEW d \in Seq(Pieces), NEW p \in Pieces, NEW e, e = Append(d, p)
    PROVE  /\ e \in Seq(Pieces)
           /\ Len(e) = Len(d) + 1 /\ e[Len(d) + 1] = p
           /\ Len(d) >= 1 => e[1] = d[1]
           /\ Len(d) >= 2 => e[2] = d[2]
           /\ Len(d) >= 3 => e[3] = d[3]
<1>1. Len(d) \in Nat /\ \A i \in 1 .. Len(d) : e[i] = d[i]
  OBVIOUS
<1>2. /\ Len(d) >= 1 => 1 \in 1 .. Len(d)
      /\ Len(d) >= 2 => 2 \in 1 .. Len(d)
      /\ Len(d) >= 3 => 3 \in 1 .. Len(d)
  BY <1>1
<1> QED BY <1>1, <1>2

(* The same of the body that the Sky grabber writes at once.               *)
LEMMA BodyAppended ==
    ASSUME NEW d \in Seq(Pieces), Len(d) = 1, d[1] = "header",
           NEW e, e = d \o <<"programmes", "channels">>
    PROVE  /\ e \in Seq(Pieces) /\ Len(e) = 3
           /\ e[1] = "header" /\ e[2] = "programmes" /\ e[3] = "channels"
<1> DEFINE body == <<"programmes", "channels">>
<1>1. body \in Seq(Pieces) /\ Len(body) = 2 /\ body[1] = "programmes" /\ body[2] = "channels"
  BY DEF Pieces
<1>2. e = d \o body
  OBVIOUS
<1> HIDE DEF body
<1>3. e \in Seq(Pieces) /\ Len(e) = 3
  BY <1>1, <1>2, ConcatProperties
<1>4. \A i \in 1 .. Len(d) + Len(body) : e[i] = IF i <= Len(d) THEN d[i] ELSE body[i - Len(d)]
  BY <1>1, <1>2, ConcatProperties
<1>5. e[1] = d[1] /\ e[2] = body[1] /\ e[3] = body[2]
  <2>1. \A i \in 1 .. 3 : e[i] = IF i <= 1 THEN d[i] ELSE body[i - 1]
    BY <1>1, <1>4
  <2> QED BY <2>1
<1> QED BY <1>1, <1>3, <1>5

LEMMA DocumentInit == Init => DocumentOf
BY DEF Init, DocumentOf, Empty, Pieces

LEMMA DocumentStep == DocumentOf /\ [Next]_vars => DocumentOf'
<1> SUFFICES ASSUME DocumentOf, [Next]_vars PROVE DocumentOf'
  OBVIOUS
<1>0. {"header", "programmes", "channels", "footer"} \subseteq Pieces
  BY DEF Pieces
<1> USE DEF DocumentOf, Write, Exit, Running, options,
            InputRead, Empty, Begun, Listed, Whole, ClosedEmpty, ClosedWhole
<1>1. CASE LoadTables BY <1>1 DEF LoadTables
<1>2. CASE Tune BY <1>2 DEF Tune
<1>3. CASE DriverStep BY <1>3 DEF DriverStep
<1>4. CASE Tuned BY <1>4 DEF Tuned
<1>5. CASE Header BY <1>0, <1>5, Appended DEF Header
<1>6. CASE OpenInput BY <1>6 DEF OpenInput
<1>7. CASE OpenFails BY <1>7 DEF OpenFails
<1>8. CASE ReadEventTables BY <1>8 DEF ReadEventTables, CancelAlarm
<1>9. CASE WriteChannels
  <2>1. Whole' /\ document' \in Seq(Pieces)
    <3>1. document \in Seq(Pieces) /\ Listed /\ document' = Append(document, "channels")
      BY <1>9 DEF WriteChannels
    <3> HIDE DEF DocumentOf
    <3> QED BY <1>0, <3>1, Appended
  <2> QED BY <1>9, <2>1 DEF WriteChannels
<1>10. CASE GrabSky
  <2>1. ASSUME document' = document \o <<"programmes", "channels">>
        PROVE  Whole' /\ document' \in Seq(Pieces)
    <3>1. document \in Seq(Pieces) /\ Begun
      BY <1>10 DEF GrabSky
    <3> HIDE DEF DocumentOf
    <3> QED BY <2>1, <3>1, BodyAppended
  <2>2. (Begun' \/ Whole') /\ document' \in Seq(Pieces)
    BY <1>10, <2>1 DEF GrabSky
  <2> QED BY <1>10, <2>2 DEF GrabSky
<1>11. CASE Footer BY <1>0, <1>11, Appended DEF Footer
<1>12. CASE FinishUp BY <1>0, <1>12, Appended DEF FinishUp, Exited
<1>13. ASSUME document' = Append(document, "programmes"), phase = "reading"
       PROVE  Listed' /\ document' \in Seq(Pieces)
  <2>1. document \in Seq(Pieces) /\ Begun
    BY <1>13
  <2> HIDE DEF DocumentOf
  <2> QED BY <1>0, <1>13, <2>1, Appended
<1>14. CASE TablesRead BY <1>13, <1>14 DEF TablesRead
<1>15. CASE ConversionFails
  <2>1. (Begun' \/ Listed') /\ document' \in Seq(Pieces)
    BY <1>13, <1>15 DEF ConversionFails
  <2> QED BY <1>15, <2>1 DEF ConversionFails
<1>16. CASE UNCHANGED vars BY <1>16 DEF vars
<1> QED
  BY <1>1, <1>2, <1>3, <1>4, <1>5, <1>6, <1>7, <1>8, <1>9, <1>10, <1>11, <1>12, <1>14, <1>15,
     <1>16 DEF Next

LEMMA DocumentAlways == Spec => []DocumentOf
BY DocumentInit, DocumentStep, PTL DEF Spec

(* The exit status tells whether the document is complete.                 *)
THEOREM StatusTells == Spec => []StatusTellsClosed
<1>1. DocumentOf => StatusTellsClosed
  <2> SUFFICES ASSUME DocumentOf, Exited PROVE StatusTellsClosed
    BY DEF StatusTellsClosed
  <2>1. phase = "end"
    BY DEF DocumentOf, Exited
  <2> USE DEF StatusTellsClosed, Positions
  <2>2. DOMAIN document = 1 .. Len(document) /\ Len(document) \in Nat
    BY DEF DocumentOf
  <2>3. CASE status = 0 /\ ClosedEmpty
    BY <2>2, <2>3 DEF ClosedEmpty
  <2>4. CASE status = 0 /\ ClosedWhole
    BY <2>2, <2>4 DEF ClosedWhole
  <2>5. CASE status # 0 /\ (Empty \/ Begun \/ Listed)
    <3>1. Positions("footer") = {}
      BY <2>2, <2>5 DEF Empty, Begun, Listed
    <3> QED BY <2>5, <3>1
  <2> QED BY <2>1, <2>2, <2>3, <2>4, <2>5 DEF DocumentOf
<1> QED BY <1>1, DocumentAlways, PTL

(* Once the input is read no alarm is pending (CancelAlarm, at the head of *)
(* readEventTables), and a run that ends with status 0 has written the     *)
(* programmes and behind them the channels; one that convert_text ended    *)
(* has neither channels nor footer.                                        *)
THEOREM AlarmBefore == Spec => []AlarmOnlyBeforeReading
<1>1. DocumentOf => AlarmOnlyBeforeReading
  <2> SUFFICES ASSUME DocumentOf PROVE AlarmOnlyBeforeReading
    OBVIOUS
  <2>1. InputRead => ~alarmed
    BY DEF DocumentOf, InputRead
  <2>2. DOMAIN document = 1 .. Len(document)
    BY DEF DocumentOf
  <2>3. ASSUME Exited, InputRead, status = 0
        PROVE  Positions("programmes") = {2} /\ Positions("channels") = {3}
    <3>1. ClosedWhole
      BY <2>3 DEF DocumentOf, Exited
    <3> QED BY <2>2, <3>1 DEF Positions, ClosedWhole
  <2>4. ASSUME Exited, status # 0
        PROVE  Positions("channels") = {} /\ Positions("footer") = {}
    <3>1. Empty \/ Begun \/ Listed
      BY <2>4 DEF DocumentOf, Exited
    <3> QED BY <2>2, <3>1 DEF Positions, Empty, Begun, Listed
  <2> QED BY <2>1, <2>3, <2>4 DEF AlarmOnlyBeforeReading
<1> QED BY <1>1, DocumentAlways, PTL

-----------------------------------------------------------------------------
(* Every step is one of the tuner, of its driver, or leaves them alone.    *)
LEMMA TunerMoves == [Next]_vars => TunerStep \/ Signal \/ UNCHANGED tunerVars
<1> SUFFICES ASSUME [Next]_vars PROVE TunerStep \/ Signal \/ UNCHANGED tunerVars
  OBVIOUS
<1>1. CASE LoadTables BY <1>1 DEF LoadTables
<1>2. CASE Tune BY <1>2 DEF Tune
<1>3. CASE DriverStep BY <1>3 DEF DriverStep
<1>4. CASE Tuned BY <1>4 DEF Tuned
<1>5. CASE Header BY <1>5 DEF Header
<1>6. CASE OpenInput BY <1>6 DEF OpenInput
<1>7. CASE OpenFails BY <1>7 DEF OpenFails
<1>8. CASE ReadEventTables BY <1>8 DEF ReadEventTables
<1>9. CASE WriteChannels BY <1>9 DEF WriteChannels
<1>10. CASE GrabSky BY <1>10 DEF GrabSky
<1>11. CASE Footer BY <1>11 DEF Footer
<1>12. CASE FinishUp BY <1>12 DEF FinishUp
<1>13. CASE TablesRead BY <1>13 DEF TablesRead
<1>14. CASE ConversionFails BY <1>14 DEF ConversionFails
<1>15. CASE UNCHANGED vars BY <1>15 DEF vars
<1> QED
  BY <1>1, <1>2, <1>3, <1>4, <1>5, <1>6, <1>7, <1>8, <1>9, <1>10, <1>11, <1>12, <1>13, <1>14,
     <1>15 DEF Next

(* What is known of the transponder and of the frontend at each place of   *)
(* tune.  Without a lock the frontend's frequency may be 0: that one is    *)
(* asked for and had shows only once a lock was seen.                      *)
Chosen == /\ Matches # {} /\ tp.type = file[First].type /\ tp.frequency = request

Setting ==
    /\ tpc \in TunerPlaces
    /\ file \in TuningFiles /\ request \in Frequencies
    /\ tpc \in {"open", "set", "poll", "check"} => Chosen
    /\ tpc \in {"set", "poll", "check"} => tp.type = device
    /\ tpc \in {"poll", "check"} =>
         /\ frontend = [type |-> tp.type, frequency |-> FrequencyFor(tp)]
         /\ locked \/ seen => frontend.frequency # 0
    /\ tpc = "check" => seen
    /\ tuned => /\ tpc = "done" /\ seen
                /\ frontend = [type |-> device, frequency |-> request]
                /\ Matches # {} /\ file[First].type = device

LEMMA SettingInit == Init => Setting
BY DEF Init, TunerInit, Setting, TunerPlaces

LEMMA FirstIsAMatch == Setting /\ Matches # {} =>
                         First \in Matches /\ \A j \in Matches : First <= j
<1> SUFFICES ASSUME Setting, Matches # {}
             PROVE  First \in Matches /\ \A j \in Matches : First <= j
  OBVIOUS
<1>1. Matches \in SUBSET Nat
  <2>1. file \in Seq(Line)
    BY FilesAssumption DEF Setting
  <2>2. DOMAIN file \in SUBSET Nat
    BY <2>1
  <2> QED BY <2>2 DEF Matches
<1>2. \E i \in Matches : \A j \in Matches : i <= j
  BY <1>1, SmallestOfNaturals
<1> QED BY <1>2 DEF First

LEMMA SettingStep ==
    Setting /\ (TunerStep \/ Signal \/ UNCHANGED tunerVars) => Setting'
<1> SUFFICES ASSUME Setting, TunerStep \/ Signal \/ UNCHANGED tunerVars
             PROVE  Setting'
  OBVIOUS
<1>0. UNCHANGED <<file, request>> => Matches' = Matches /\ First' = First
  BY DEF Matches, First
<1>1. CASE ParseAndFind
  <2>1. UNCHANGED <<chosen, frontend, locked, attempts, looks, seen, unlocked, failed>>
    BY <1>1 DEF ParseAndFind
  <2>2. CASE Accepted /\ Matches # {}
    <3>1. First \in Matches
      BY <2>2, FirstIsAMatch
    <3>2. file[First].frequency = request
      BY <3>1 DEF Matches
    <3>3. /\ tpc = "parse" /\ tpc' = "open" /\ tuned' = tuned
          /\ tp'.type = file[First].type /\ tp'.frequency = file[First].frequency
      BY <1>1, <2>2 DEF ParseAndFind
    <3>4. Chosen'
      BY <1>0, <2>1, <2>2, <3>2, <3>3 DEF Chosen, chosen
    <3> QED BY <2>1, <3>3, <3>4 DEF Setting, TunerPlaces, chosen
  <2>3. CASE ~(Accepted /\ Matches # {})
    <3>1. tpc' = "done" /\ tuned' = FALSE
      BY <1>1, <2>3 DEF ParseAndFind, Return
    <3> QED BY <2>1, <3>1 DEF Setting, TunerPlaces, chosen
  <2> QED BY <2>2, <2>3
<1>2. CASE ~ParseAndFind /\ TunerStep
  <2>1. UNCHANGED <<chosen, tp>>
    BY <1>2 DEF TunerStep, OpenFrontend, SetFrontend, SetFrontendFails, SkipS2, PollLock,
                PollFails, NoSignal, CheckLock, LockLost
  <2>2. UNCHANGED <<file, request, device, Chosen, Matches, First>>
    BY <1>0, <2>1 DEF chosen, Chosen
  <2>3. CASE OpenFrontend
    BY <2>1, <2>2, <2>3 DEF OpenFrontend, Setting, TunerPlaces, Return
  <2>4. CASE SetFrontend
    <3>1. frontend' = [type |-> tp'.type, frequency |-> FrequencyFor(tp)']
      BY <2>1, <2>4 DEF SetFrontend, FrequencyFor
    <3> QED BY <2>1, <2>2, <2>4, <3>1 DEF SetFrontend, Setting, TunerPlaces
  <2>5. CASE SetFrontendFails
    BY <2>1, <2>2, <2>5 DEF SetFrontendFails, Setting, TunerPlaces, Return
  <2>6. CASE SkipS2
    BY <2>1, <2>2, <2>6 DEF SkipS2, Setting, TunerPlaces, Return
  <2>7. CASE PollLock
    <3>1. FrequencyFor(tp)' = FrequencyFor(tp) /\ frontend' = frontend
      BY <2>1, <2>7 DEF PollLock, FrequencyFor
    <3> QED BY <2>1, <2>2, <2>7, <3>1 DEF PollLock, Setting, TunerPlaces, Return
  <2>8. CASE PollFails \/ NoSignal
    <3>1. tpc = "poll" /\ TryAgain
      BY <2>8 DEF PollFails, NoSignal, AfterPolls
    <3>2. \/ tpc' = "set" /\ tuned' = tuned
          \/ tpc' = "done" /\ tuned' = FALSE
      BY <3>1 DEF TryAgain, Return
    <3> QED BY <2>1, <2>2, <3>1, <3>2 DEF Setting, TunerPlaces
  <2>9. CASE CheckLock
    <3>1. FrequencyFor(tp)' = FrequencyFor(tp) /\ UNCHANGED <<frontend, locked, seen>>
      BY <2>1, <2>9 DEF CheckLock, FrequencyFor
    <3>2. /\ tpc = "check"
          /\ \/ tpc' = "done" /\ tuned' = TRUE
             \/ tpc' = tpc /\ tuned' = tuned
      BY <2>9 DEF CheckLock, Return
    <3>3. seen /\ frontend.frequency # 0 /\ Chosen /\ tp.type = device
      BY <3>2 DEF Setting
    <3>4. frontend = [type |-> tp.type, frequency |-> FrequencyFor(tp)]
      BY <3>2 DEF Setting
    <3>5. frontend = [type |-> device, frequency |-> request]
      BY <3>3, <3>4 DEF FrequencyFor, Chosen
    <3> QED BY <2>1, <2>2, <3>1, <3>2, <3>3, <3>5 DEF Setting, TunerPlaces, Chosen
  <2>10. CASE LockLost
    BY <2>1, <2>2, <2>10 DEF LockLost, Setting, TunerPlaces, Return
  <2> QED BY <1>2, <2>3, <2>4, <2>5, <2>6, <2>7, <2>8, <2>9, <2>10 DEF TunerStep
<1>3. CASE Signal
  <2>1. UNCHANGED <<file, request, device, tp, tpc, frontend, tuned, seen>>
        /\ frontend.frequency # 0
    BY <1>3 DEF Signal, chosen
  <2>2. UNCHANGED <<Matches, First, Chosen, FrequencyFor(tp)>>
    BY <1>0, <2>1 DEF Chosen, FrequencyFor
  <2> QED BY <2>1, <2>2 DEF Setting
<1>4. CASE UNCHANGED tunerVars
  <2>1. UNCHANGED <<file, request, device, tp, tpc, frontend, locked, tuned, seen>>
    BY <1>4 DEF tunerVars, chosen
  <2>2. UNCHANGED <<Matches, First, Chosen, FrequencyFor(tp)>>
    BY <1>0, <2>1 DEF Chosen, FrequencyFor
  <2> QED BY <2>1, <2>2 DEF Setting
<1> QED BY <1>1, <1>2, <1>3, <1>4

(* tune succeeds only with a lock seen after the last setting, at the      *)
(* frequency and for the kind of device that were asked for, and with the  *)
(* first line of that frequency.                                           *)
THEOREM TunedIsLocked == Spec => []TunedMeansLocked
<1>1. Setting => TunedMeansLocked
  <2> SUFFICES ASSUME Setting, tuned PROVE TunedMeansLocked
    BY DEF TunedMeansLocked
  <2>1. First \in Matches /\ \A j \in Matches : First <= j
    BY FirstIsAMatch DEF Setting
  <2>2. file[First].type = device
    BY DEF Setting
  <2> QED BY <2>1, <2>2 DEF TunedMeansLocked, Setting
<1> QED BY <1>1, SettingInit, SettingStep, TunerMoves, PTL DEF Spec

-----------------------------------------------------------------------------
(* How often a lock was missed, at each place of tune, while no call has   *)
(* failed.                                                                 *)
Counters ==
    /\ timeout \in Nat /\ attempts \in Nat /\ looks \in Nat /\ unlocked \in Nat

Patience ==
    /\ Counters
    /\ tpc \in {"parse", "open"} => attempts = 0 /\ unlocked = 0 /\ ~seen
    /\ ~failed =>
         /\ attempts > 0 => ~(tp.type = "QPSK" /\ tp.second)
         /\ tpc = "set" =>
              ~seen /\ ((attempts = 0 /\ unlocked = 0) \/ (attempts = 1 /\ unlocked = Polls))
         /\ tpc = "poll" =>
              /\ ~seen /\ looks <= Polls
              /\ \/ attempts = 1 /\ unlocked = looks
                 \/ attempts = 2 /\ unlocked = Polls + looks
         /\ tpc = "check" => seen /\ unlocked >= looks
         /\ GivesUpLate

LEMMA PatienceInit == Init => Patience
BY TunerAssumption DEF Init, TunerInit, Patience, Counters, GivesUpLate

LEMMA PatienceStep ==
    Patience /\ (TunerStep \/ Signal \/ UNCHANGED tunerVars) => Patience'
<1> SUFFICES ASSUME Patience, TunerStep \/ Signal \/ UNCHANGED tunerVars
             PROVE  Patience'
  OBVIOUS
<1>0. ASSUME timeout' = timeout PROVE Polls' = Polls
  BY <1>0 DEF Polls
<1>00. Polls \in Nat /\ 2 * Polls = Polls + Polls
  BY DEF Polls, Patience, Counters
<1>1. CASE ParseAndFind
  <2>1. timeout' \in Nat
    BY <1>1, TunerAssumption DEF ParseAndFind, ReadFlags, Patience, Counters
  <2>2. tpc = "parse" /\ tpc' \in {"open", "done"}
    BY <1>1 DEF ParseAndFind, Return
  <2>3. UNCHANGED <<attempts, looks, unlocked, seen, failed>>
    BY <1>1 DEF ParseAndFind
  <2> QED BY <2>1, <2>2, <2>3 DEF Patience, Counters, GivesUpLate
<1>2. CASE OpenFrontend
  <2>1. UNCHANGED <<timeout, tp, attempts, looks, unlocked, seen>>
    BY <1>2 DEF OpenFrontend
  <2>2. tpc = "open" /\ tpc' \in {"set", "done"}
    BY <1>2 DEF OpenFrontend, Return
  <2> QED BY <2>1, <2>2 DEF Patience, Counters, GivesUpLate
<1>3. CASE SetFrontend
  <2>1. UNCHANGED <<timeout, tp, unlocked, failed>> /\ looks' = 0 /\ ~seen'
        /\ attempts' = attempts + 1 /\ tpc = "set" /\ tpc' = "poll"
        /\ ~(tp.type = "QPSK" /\ tp.second)
    BY <1>3 DEF SetFrontend
  <2> QED BY <1>0, <1>00, <2>1 DEF Patience, Counters, GivesUpLate
<1>4. CASE SetFrontendFails
  <2>1. UNCHANGED <<timeout, unlocked, looks>> /\ attempts' = attempts + 1 /\ failed'
        /\ tpc' \in {"set", "done"}
    BY <1>4 DEF SetFrontendFails, Return
  <2> QED BY <2>1 DEF Patience, Counters
<1>5. CASE SkipS2
  <2>1. UNCHANGED <<timeout, tp, attempts, looks, unlocked, seen, failed>>
        /\ tp.type = "QPSK" /\ tp.second /\ tpc' = "done"
    BY <1>5 DEF SkipS2, Return
  <2> QED BY <2>1 DEF Patience, Counters, GivesUpLate
<1>6. CASE PollLock
  <2>1. /\ UNCHANGED <<timeout, tp, attempts, failed, tuned>> /\ tpc = "poll" /\ looks < Polls
        /\ \/ tpc' = "check" /\ looks' = 0 /\ seen' /\ unlocked' = unlocked
           \/ tpc' = tpc /\ looks' = looks + 1 /\ unlocked' = unlocked + 1 /\ seen' = seen
    BY <1>6 DEF PollLock
  <2> QED BY <1>0, <1>00, <2>1 DEF Patience, Counters, GivesUpLate
<1>7. CASE PollFails
  <2>1. UNCHANGED <<timeout, attempts, looks, unlocked>> /\ failed' /\ tpc' \in {"set", "done"}
    BY <1>7 DEF PollFails, TryAgain, Return
  <2> QED BY <2>1 DEF Patience, Counters
<1>8. CASE NoSignal
  <2>1. UNCHANGED <<timeout, tp, attempts, looks, unlocked, seen, failed>>
        /\ tpc = "poll" /\ looks >= Polls
    BY <1>8 DEF NoSignal
  <2>2. tpc' \in {"set", "done"} /\ (tpc' = "set" <=> attempts < 2)
    BY <1>8 DEF NoSignal, AfterPolls, TryAgain, Return
  <2> QED BY <1>0, <1>00, <2>1, <2>2 DEF Patience, Counters, GivesUpLate
<1>9. CASE CheckLock
  <2>1. /\ UNCHANGED <<timeout, tp, attempts, seen>>
        /\ tpc = "check" /\ looks < 5 /\ looks' = looks + 1
        /\ \/ tpc' = "done" /\ tuned'
           \/ tpc' = tpc
        /\ \/ failed' = TRUE /\ unlocked' = unlocked
           \/ failed' = failed /\ tpc' = "done" /\ unlocked' = unlocked
           \/ failed' = failed /\ tpc' = tpc /\ unlocked' = unlocked + 1
    BY <1>9 DEF CheckLock, Return
  <2> QED BY <1>0, <2>1 DEF Patience, Counters, GivesUpLate
<1>10. CASE LockLost
  <2>1. UNCHANGED <<timeout, tp, attempts, looks, unlocked, seen, failed>>
        /\ tpc = "check" /\ looks = 5 /\ tpc' = "done"
    BY <1>10 DEF LockLost, Return
  <2> QED BY <2>1 DEF Patience, Counters, GivesUpLate
<1>11. CASE Signal
  BY <1>0, <1>11 DEF Signal, Patience, Counters, GivesUpLate
<1>12. CASE UNCHANGED tunerVars
  BY <1>0, <1>12 DEF tunerVars, Patience, Counters, GivesUpLate
<1> QED
  BY <1>1, <1>2, <1>3, <1>4, <1>5, <1>6, <1>7, <1>8, <1>9, <1>10, <1>11, <1>12 DEF TunerStep

(* tune gives up late: after two full times of polls, or after five looks  *)
(* without a lock, unless a system call failed.                            *)
THEOREM TunerIsPatient == Spec => []GivesUpLate
<1>1. Patience /\ ~failed => GivesUpLate
  BY DEF Patience
<1>2. failed => GivesUpLate
  BY DEF GivesUpLate
<1> QED BY <1>1, <1>2, PatienceInit, PatienceStep, TunerMoves, PTL DEF Spec
=============================================================================
