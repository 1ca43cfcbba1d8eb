-------------------------------- MODULE Main --------------------------------
(***************************************************************************)
(* The run of the program from its options to its exit status: main,       *)
(* openInput, finish_up, the tuner (Tuner) and the grabbers seen from      *)
(* outside.                                                                *)
(*                                                                         *)
(* The document is written to the standard output piece by piece: the XML  *)
(* header, the programmes and channels a grabber finds, the footer.  The   *)
(* ways out of the program are the end of main, exit after a failure, in   *)
(* main or under a text that cannot be converted, and the handler of       *)
(* SIGALRM, which is armed while the input is opened.                      *)
(***************************************************************************)
EXTENDS Tuner, Integers

CONSTANTS
    Formats,   \* the formats -f accepts
    Inputs     \* what demux may name: "device", "stdin", "file", "missing"

DvbFormats == {"dvb", "freesat"}
SkyFormats == {"skyau", "skyit", "skyuk"}
MhwFormats == {"mhw1", "mhw2"}

ASSUME MainAssumption ==
    /\ Formats \subseteq DvbFormats \cup SkyFormats \cup MhwFormats
    /\ Inputs \subseteq {"device", "stdin", "file", "missing"}

VARIABLES
    format,     \* format
    input,      \* what demux names
    frequency,  \* a frequency was given (-F)
    phase,      \* where main is
    alarmed,    \* SIGALRM is going to be delivered
    opened,     \* the inputs opened for reading so far
    document,   \* what was written
    status      \* the exit status, or Running

vars == <<format, input, frequency, phase, alarmed, opened, document, status, tunerVars>>
options == <<format, input, frequency>>

Running == -1
Exited == status # Running

MainTypeOK ==
    /\ format \in Formats /\ input \in Inputs
    /\ frequency \in BOOLEAN
    /\ TunerTypeOK
    /\ phase \in {"tables", "tune", "header", "open", "read", "reading", "channels", "sky",
                  "footer", "end"}
    /\ alarmed \in BOOLEAN
    /\ opened \subseteq {"device", "stdin", "sky demux"}
    /\ document \in Seq({"header", "programmes", "channels", "footer"})
    /\ status \in {Running, 0, 1, 2}

(* The options that print something and leave (-h, -D, -k, -p, -T) and     *)
(* those that only change what is written are left out.                    *)
Init ==
    /\ format \in Formats /\ input \in Inputs
    /\ frequency \in BOOLEAN
    /\ TunerInit /\ (~frequency => file = <<>>)
    /\ phase = "tables"
    /\ alarmed = FALSE /\ opened = {} /\ document = <<>>
    /\ status = Running

Write(what) == document' = Append(document, what)

Exit(code) == phase' = "end" /\ status' = code

(* A table of channel identifiers that cannot be loaded is only warned of. *)
LoadTables ==
    /\ phase = "tables"
    /\ phase' = IF frequency THEN "tune" ELSE "header"
    /\ UNCHANGED <<options, alarmed, opened, document, status, tunerVars>>

(* main tunes if a frequency was given, and leaves when that fails.        *)
Tune ==
    /\ phase = "tune" /\ tpc # "done"
    /\ TunerStep
    /\ UNCHANGED <<options, phase, alarmed, opened, document, status>>

(* The signal may come and go while the tuner looks.                       *)
DriverStep ==
    /\ phase = "tune" /\ Signal
    /\ UNCHANGED <<options, phase, alarmed, opened, document, status>>

Tuned ==
    /\ phase = "tune" /\ tpc = "done"
    /\ IF tuned THEN phase' = "header" /\ UNCHANGED status ELSE Exit(2)
    /\ UNCHANGED <<options, alarmed, opened, document, tunerVars>>

(* The header, and the choice of the grabber: the formats of MediaHighway  *)
(* have none.                                                              *)
Header ==
    /\ phase = "header"
    /\ Write("header")
    /\ phase' = CASE format \in DvbFormats -> "open"
                  [] format \in SkyFormats -> "sky"
                  [] OTHER -> "footer"
    /\ UNCHANGED <<options, alarmed, opened, status, tunerVars>>

(* openInput: only a device has filters, and an alarm.                     *)
OpenInput ==
    /\ phase = "open"
    /\ IF input = "missing"
       THEN Exit(1) /\ UNCHANGED alarmed
       ELSE /\ phase' = "read"
            /\ alarmed' = (input = "device")
            /\ UNCHANGED status
    /\ UNCHANGED <<options, opened, document, tunerVars>>

(* The device was not there, or could not be opened or examined.           *)
OpenFails ==
    /\ phase = "open" /\ input # "stdin"
    /\ Exit(1)
    /\ UNCHANGED <<options, alarmed, opened, document, tunerVars>>

(* Mutant: the alarm goes on while the tables are read.                    *)
LeaveAlarm == UNCHANGED alarmed

CancelAlarm == alarmed' = FALSE

(* readEventTables: the alarm is cancelled first, and what is not a device *)
(* is read from the standard input.                                        *)
ReadEventTables ==
    /\ phase = "read"
    /\ CancelAlarm
    /\ opened' = opened \cup {IF input = "device" THEN "device" ELSE "stdin"}
    /\ phase' = "reading"
    /\ UNCHANGED <<options, document, status, tunerVars>>

(* The tables are read to their end; the programmes were written as they   *)
(* were found.                                                             *)
TablesRead ==
    /\ phase = "reading"
    /\ Write("programmes")
    /\ phase' = "channels"
    /\ UNCHANGED <<options, alarmed, opened, status, tunerVars>>

(* convert_text, under the name or the text of a programme: its encoding   *)
(* is one that iconv_open does not know.  Others were written before, or   *)
(* it is the first.                                                        *)
ConversionFails ==
    /\ phase = "reading"
    /\ Write("programmes") \/ UNCHANGED document
    /\ Exit(1)
    /\ UNCHANGED <<options, alarmed, opened, tunerVars>>

WriteChannels ==
    /\ phase = "channels"
    /\ Write("channels")
    /\ phase' = "footer"
    /\ UNCHANGED <<options, alarmed, opened, status, tunerVars>>

(* The Sky grabber opens the demultiplexer of the adapter, whatever demux  *)
(* names, and writes the document's body only if there was no error.       *)
GrabSky ==
    /\ phase = "sky"
    /\ opened' = opened \cup {"sky demux"}
    /\ \/ document' = document \o <<"programmes", "channels">>
       \/ UNCHANGED document
    /\ phase' = "footer"
    /\ UNCHANGED <<options, alarmed, status, tunerVars>>

Footer ==
    /\ phase = "footer"
    /\ Write("footer")
    /\ Exit(0)
    /\ UNCHANGED <<options, alarmed, opened, tunerVars>>

(* Mutant: the handler of SIGALRM leaves without closing the document.     *)
FinishUpAtOnce ==
    /\ alarmed /\ ~Exited
    /\ Exit(0)
    /\ UNCHANGED <<options, alarmed, opened, document, tunerVars>>

(* SIGALRM: finish_up closes the document and leaves with status 0.        *)
FinishUp ==
    /\ alarmed /\ ~Exited
    /\ Write("footer")
    /\ Exit(0)
    /\ UNCHANGED <<options, alarmed, opened, tunerVars>>

Next ==
    \/ LoadTables \/ Tune \/ DriverStep \/ Tuned \/ Header
    \/ OpenInput \/ OpenFails \/ ReadEventTables \/ TablesRead \/ ConversionFails
    \/ WriteChannels
    \/ GrabSky \/ Footer \/ FinishUp

Spec == Init /\ [][Next]_vars

-----------------------------------------------------------------------------
Positions(what) == {i \in DOMAIN document : document[i] = what}

(* The exit status tells whether the document is complete: 0 exactly when  *)
(* it was opened once at its beginning and closed once at its end, on each *)
(* of the ways out of the program, the signal handler's included.          *)
StatusTellsClosed ==
    Exited =>
        (status = 0 <=> /\ Positions("header") = {1}
                        /\ Positions("footer") = {Len(document)})

(* The alarm cannot cut a grab short: once the input is read no alarm is   *)
(* pending, so that the program ends with status 0 only when the grabber   *)
(* is done, the programmes and behind them the channels being written.     *)
(* Where a text cannot be converted it ends between them, but not with     *)
(* status 0 and without the footer.                                        *)
InputRead == "device" \in opened \/ "stdin" \in opened

AlarmOnlyBeforeReading ==
    /\ InputRead => ~alarmed
    /\ Exited /\ InputRead =>
         IF status = 0 THEN Positions("programmes") = {2} /\ Positions("channels") = {3}
         ELSE Positions("channels") = {} /\ Positions("footer") = {}

(* The grab reads what -i names.                                           *)
ReadsItsInput == "stdin" \in opened => input = "stdin"
=============================================================================
