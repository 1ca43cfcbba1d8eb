---------------------------- MODULE MCDvbReader -----------------------------
(* The two filters of a small grab, one service with two events and two    *)
(* versions of the table.                                                  *)
EXTENDS DvbReader

TwoTables == <<"SDT", "EIT">>
FreesatTables == <<"SDT", "Freesat EIT">>

Ev(eid, wanted) ==
    [eid |-> eid, filled |-> TRUE, ends |-> "near", titled |-> TRUE, wanted |-> wanted]

TwoSections ==
    {[sid |-> 10, ver |-> 1, events |-> <<Ev(1, FALSE)>>],
     [sid |-> 10, ver |-> 0, events |-> <<Ev(1, FALSE), Ev(2, TRUE)>>]}
=============================================================================
