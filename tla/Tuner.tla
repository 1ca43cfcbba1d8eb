-------------------------------- MODULE Tuner --------------------------------
(***************************************************************************)
(* tune: the frequency that was asked for is looked up in the tuning file  *)
(* and the frontend is set to it; the lock is waited for, once more after  *)
(* a failure, and then has to be seen by one of five more looks.           *)
(***************************************************************************)
EXTENDS Naturals, Sequences

CONSTANTS
    Frequencies,   \* frequencies in the file and on the command line
    Types,         \* fe_type: "QPSK" (satellite), "QAM", "OFDM", "ATSC"
    TuningFiles,   \* the files, as sequences of Lines
    Timeouts,      \* what the line of w_scan flags in a file may say
    DefaultTimeout \* flags.tuning_timeout before a file is read

ASSUME TunerAssumption ==
    /\ 0 \notin Frequencies
    /\ Timeouts \subseteq Nat /\ DefaultTimeout \in Nat

(* A line is a transponder (full, or cut off before its last field), one   *)
(* of those that are passed over, w_scan's flags, or something else; second *)
(* is the 2 of S2.                                                         *)
Line == [kind : {"full", "short"}, type : Types, second : BOOLEAN, frequency : Frequencies \cup {0}]
        \cup [kind : {"comment", "flags", "other"}]

ASSUME FilesAssumption == TuningFiles \subseteq Seq(Line)

NotSet == [type |-> "none", frequency |-> 0]

VARIABLES
    file,      \* the tuning file, the empty one when it cannot be opened
    device,    \* fe_info.type: what the frontend is
    request,   \* freq
    timeout,   \* flags.tuning_timeout
    tpc,       \* where tune is
    tp,        \* the transponder that was found
    frontend,  \* what the driver was last set to
    locked,    \* FE_HAS_LOCK
    attempts,  \* calls of __tune_to_transponder
    looks,     \* the loop's counter: polls for the lock, then checks
    tuned,     \* what tune returned
    \* History.
    seen,      \* the lock was seen after the last setting
    unlocked,  \* how often the status was read without a lock
    failed     \* a system call failed

chosen == <<file, device, request>>
tunerVars == <<chosen, timeout, tpc, tp, frontend, locked, attempts, looks, tuned, seen, unlocked,
               failed>>

TunerPlaces == {"parse", "open", "set", "poll", "check", "done"}

TunerTypeOK ==
    /\ file \in TuningFiles /\ device \in Types /\ request \in Frequencies
    /\ timeout \in Timeouts \cup {DefaultTimeout}
    /\ tpc \in TunerPlaces
    /\ tp \in [type : Types, second : BOOLEAN, frequency : Frequencies] \cup {NotSet}
    /\ frontend \in [type : Types, frequency : Frequencies \cup {0}] \cup {NotSet}
    /\ locked \in BOOLEAN
    /\ attempts \in 0..2 /\ looks \in Nat
    /\ tuned \in BOOLEAN /\ seen \in BOOLEAN /\ unlocked \in Nat /\ failed \in BOOLEAN

TunerInit ==
    /\ file \in TuningFiles /\ device \in Types /\ request \in Frequencies
    /\ timeout = DefaultTimeout
    /\ tpc = "parse" /\ tp = NotSet /\ frontend = NotSet /\ locked = FALSE
    /\ attempts = 0 /\ looks = 0 /\ tuned = FALSE
    /\ seen = FALSE /\ unlocked = 0 /\ failed = FALSE

Return(result) == tpc' = "done" /\ tuned' = result

-----------------------------------------------------------------------------
(* dvbscan_parse_tuningdata.  A line it does not know ends it, and it is   *)
(* content with one line that has all its fields.                          *)
Kinds == {file[i].kind : i \in DOMAIN file}
Accepted == "other" \notin Kinds /\ "full" \in Kinds

(* The transponders of that frequency, by the number of their line.        *)
Matches ==
    {i \in DOMAIN file : file[i].kind \in {"full", "short"} /\ file[i].frequency = request}

First == CHOOSE i \in Matches : \A j \in Matches : i <= j

(* The flags are read from a copy of their line that strtok examines       *)
(* before it is filled: they may be missed.                                *)
ReadFlags ==
    timeout' \in (IF "flags" \in Kinds THEN Timeouts ELSE {}) \cup {timeout}

ParseAndFind ==
    /\ tpc = "parse"
    /\ ReadFlags
    /\ IF Accepted /\ Matches # {}
       THEN /\ tpc' = "open"
            /\ LET line == file[First]
               IN  tp' = [type |-> line.type, second |-> line.second, frequency |-> line.frequency]
            /\ UNCHANGED tuned
       ELSE Return(FALSE) /\ UNCHANGED tp
    /\ UNCHANGED <<chosen, frontend, locked, attempts, looks, seen, unlocked, failed>>

(* The device is opened and examined; a line for another kind of device is *)
(* not tuned to, though a later line might be for this one.                *)
OpenFrontend ==
    /\ tpc = "open"
    /\ \/ tp.type = device /\ tpc' = "set" /\ UNCHANGED <<tuned, failed>>
       \/ tp.type # device /\ Return(FALSE) /\ UNCHANGED failed
       \/ Return(FALSE) /\ failed' = TRUE
    /\ UNCHANGED <<chosen, timeout, tp, frontend, locked, attempts, looks, seen, unlocked>>

-----------------------------------------------------------------------------
(* Mutant: no second attempt.                                              *)
OneAttempt == Return(FALSE)

(* What follows a failure (-1) of __tune_to_transponder.                   *)
TryAgain ==
    IF attempts < 2 THEN tpc' = "set" /\ UNCHANGED tuned ELSE Return(FALSE)

(* The intermediate frequency of a satellite is never computed (USE_LNB).  *)
FrequencyFor(t) == IF t.type = "QPSK" THEN 0 ELSE t.frequency

(* set_frontend.  The version of the interface is never asked for, so that *)
(* it is the one without S2.                                               *)
SetFrontend ==
    /\ tpc = "set" /\ ~(tp.type = "QPSK" /\ tp.second)
    /\ frontend' = [type |-> tp.type, frequency |-> FrequencyFor(tp)]
    /\ attempts' = attempts + 1
    /\ tpc' = "poll" /\ looks' = 0
    /\ locked' = FALSE /\ seen' = FALSE
    /\ UNCHANGED <<chosen, timeout, tp, tuned, unlocked, failed>>

SetFrontendFails ==
    /\ tpc = "set" /\ ~(tp.type = "QPSK" /\ tp.second)
    /\ attempts' = attempts + 1
    /\ IF attempts = 0 THEN UNCHANGED <<tpc, tuned>> ELSE Return(FALSE)
    /\ failed' = TRUE
    /\ UNCHANGED <<chosen, timeout, tp, frontend, locked, looks, seen, unlocked>>

SkipS2 ==
    /\ tpc = "set" /\ tp.type = "QPSK" /\ tp.second
    /\ Return(FALSE)
    /\ UNCHANGED <<chosen, timeout, tp, frontend, locked, attempts, looks, seen, unlocked, failed>>

(* A poll every fifth of a second.                                         *)
Polls == 5 * timeout

PollLock ==
    /\ tpc = "poll" /\ looks < Polls
    /\ IF locked
       THEN /\ tpc' = "check" /\ looks' = 0 /\ seen' = TRUE
            /\ UNCHANGED <<tuned, unlocked>>
       ELSE /\ looks' = looks + 1 /\ unlocked' = unlocked + 1
            /\ UNCHANGED <<tpc, tuned, seen>>
    /\ UNCHANGED <<chosen, timeout, tp, frontend, locked, attempts, failed>>

PollFails ==
    /\ tpc = "poll" /\ looks < Polls
    /\ TryAgain
    /\ failed' = TRUE
    /\ UNCHANGED <<chosen, timeout, tp, frontend, locked, attempts, looks, seen, unlocked>>

(* Mutant: the end of the polls is taken for a lock.                       *)
CheckAnyway == tpc' = "check" /\ UNCHANGED tuned

AfterPolls == TryAgain

NoSignal ==
    /\ tpc = "poll" /\ looks >= Polls
    /\ AfterPolls
    /\ UNCHANGED <<chosen, timeout, tp, frontend, locked, attempts, looks, seen, unlocked, failed>>

(* check_frontend, five times; whether reading the status failed is not    *)
(* looked at, and then it is what was in memory.                           *)
CheckLock ==
    /\ tpc = "check" /\ looks < 5
    /\ \/ /\ IF locked THEN Return(TRUE) ELSE UNCHANGED <<tpc, tuned>>
          /\ unlocked' = IF locked THEN unlocked ELSE unlocked + 1
          /\ UNCHANGED failed
       \/ /\ Return(TRUE) \/ UNCHANGED <<tpc, tuned>>
          /\ failed' = TRUE
          /\ UNCHANGED unlocked
    /\ looks' = looks + 1
    /\ UNCHANGED <<chosen, timeout, tp, frontend, locked, attempts, seen>>

LockLost ==
    /\ tpc = "check" /\ looks = 5
    /\ Return(FALSE)
    /\ UNCHANGED <<chosen, timeout, tp, frontend, locked, attempts, looks, seen, unlocked, failed>>

TunerStep ==
    \/ ParseAndFind \/ OpenFrontend
    \/ SetFrontend \/ SetFrontendFails \/ SkipS2
    \/ PollLock \/ PollFails \/ NoSignal \/ CheckLock \/ LockLost

(* The driver finds a signal, or loses it; there is none at frequency 0.   *)
Signal ==
    /\ tpc \in {"poll", "check"}
    /\ frontend.frequency # 0
    /\ locked' = ~locked
    /\ UNCHANGED <<chosen, timeout, tpc, tp, frontend, attempts, looks, tuned, seen, unlocked, failed>>

-----------------------------------------------------------------------------
(* tune succeeds only when the lock was seen after the last setting, with  *)
(* the frontend set to what was asked for, as the first line of that       *)
(* frequency describes it: never for a lock of an earlier setting, after   *)
(* polls that ran out, or at another frequency.                            *)
TunedMeansLocked ==
    tuned =>
        /\ seen /\ frontend = [type |-> device, frequency |-> request]
        /\ \A i \in Matches : \E j \in Matches : j <= i /\ file[j].type = device

(* It gives up late: unless a system call failed, a setting that did not   *)
(* lead to success was polled for both times until its time was over, or   *)
(* its lock was lost for five looks.                                       *)
GivesUpLate ==
    tpc = "done" /\ ~tuned /\ attempts > 0 /\ ~failed =>
        IF seen THEN unlocked >= 5 ELSE attempts = 2 /\ unlocked = 2 * Polls
=============================================================================
