------------------------------ MODULE MCMain -------------------------------
(* All kinds of formats and of input, and tuning files of up to two lines: *)
(* for this device or for another kind, complete or cut off.  Frequency 2  *)
(* is in none of them.                                                     *)
EXTENDS Main

Transponders ==
    [kind : {"full"}, type : {"OFDM", "QPSK"}, second : {FALSE}, frequency : {1}]
        \cup [kind : {"short"}, type : {"OFDM"}, second : {FALSE}, frequency : {0}]
        \cup [kind : {"full"}, type : {"QPSK"}, second : {TRUE}, frequency : {1}]

SmallLines == Transponders \cup [kind : {"comment", "flags", "other"}]
SmallFiles == {<<>>} \cup (SmallLines \X SmallLines)
=============================================================================
