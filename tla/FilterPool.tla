----------------------------- MODULE FilterPool -----------------------------
(***************************************************************************)
(* What a filter scheduler of the grabber promises, whatever table it      *)
(* reads: every section filter is handed to the demultiplexer at most      *)
(* once, at most Capacity filters run at a time, and the grab is declared  *)
(* complete only when no filter is waiting or running any more.            *)
(*                                                                         *)
(* cTaskLoadepg::PollingFilters (module SkyFilters) implements it.         *)
(***************************************************************************)
EXTENDS Integers, FiniteSets

CONSTANTS
    Filters,   \* the filters that were added before polling began
    Capacity   \* how many of them the demultiplexer may run at a time

VARIABLES
    status,    \* status[f]: "pending", "running" or "over"
    outcome    \* "undecided", then "complete" or "failed"

vars == <<status, outcome>>

Status == {"pending", "running", "over"}

InStatus(st) == {f \in Filters : status[f] = st}

Init ==
    /\ status = [f \in Filters |-> "pending"]
    /\ outcome = "undecided"

(* A running filter is over: its table was received, or the receiver gave  *)
(* it up.  Several may end at once.                                        *)
End ==
    \E S \in SUBSET InStatus("running") :
        /\ outcome = "undecided"
        /\ S # {}
        /\ status' = [f \in Filters |-> IF f \in S THEN "over" ELSE status[f]]
        /\ UNCHANGED outcome

(* One waiting filter starts; filters the demultiplexer refuses on the way *)
(* are over without having run.                                            *)
Start ==
    \E f \in InStatus("pending") : \E Refused \in SUBSET (InStatus("pending") \ {f}) :
        /\ outcome = "undecided"
        /\ Cardinality(InStatus("running")) < Capacity
        /\ status' = [g \in Filters |-> CASE g = f -> "running"
                                          [] g \in Refused -> "over"
                                          [] OTHER -> status[g]]
        /\ UNCHANGED outcome

(* No waiting filter could be started: all of them are given up.           *)
Refuse ==
    /\ outcome = "undecided"
    /\ InStatus("pending") # {}
    /\ status' = [f \in Filters |-> IF status[f] = "pending" THEN "over" ELSE status[f]]
    /\ UNCHANGED outcome

Complete ==
    /\ outcome = "undecided"
    /\ \A f \in Filters : status[f] = "over"
    /\ outcome' = "complete"
    /\ UNCHANGED status

(* The grab may fail at any point, with filters in any status.             *)
Fail ==
    /\ outcome = "undecided"
    /\ outcome' = "failed"
    /\ UNCHANGED status

Next == End \/ Start \/ Refuse \/ Complete \/ Fail

Spec == Init /\ [][Next]_vars
=============================================================================
