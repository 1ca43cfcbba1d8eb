---------------------------- MODULE MCSkyTables -----------------------------
(* Two title filters and a summary filter on two slots.  Among their       *)
(* sections are a short one, a blank one, one with an event that lacks its *)
(* marker, one with an impossible length, one with a text that does not    *)
(* fit in the buffer, and one with a text of a negative length.            *)
EXTENDS SkyTables

TwoTitlesOneSummary == <<"title", "title", "summary">>

Ev(eid, signed, fits, size) == [eid |-> eid, signed |-> signed, fits |-> fits, size |-> size]
Good(eid) == Ev(eid, TRUE, TRUE, 1)

Sec(id, events) == [id |-> id, short |-> FALSE, blank |-> FALSE, events |-> events]
Short(id) == [id |-> id, short |-> TRUE, blank |-> FALSE, events |-> <<>>]
Blank(id) == [id |-> id, short |-> FALSE, blank |-> TRUE, events |-> <<>>]

Plain ==
    << <<Sec("s1", <<Good("e1")>>), Sec("s2", <<Good("e2")>>)>>,
       <<Sec("s3", <<Good("e3"), Good("e4"), Ev("e5", FALSE, TRUE, 1)>>), Short("s4")>>,
       <<Sec("s5", <<Ev("e1", FALSE, TRUE, 1), Ev("e2", TRUE, FALSE, 1)>>)>> >>

Long ==
    << <<Sec("s1", <<Good("e1")>>), Sec("s2", <<Ev("e2", TRUE, TRUE, 14)>>)>>,
       <<Sec("s3", <<Good("e3")>>)>>,
       <<Blank("s5"), Sec("s6", <<Good("e1")>>)>> >>

(* A title one byte too short to hold what comes before its text.          *)
Negative ==
    << <<Sec("s1", <<Good("e1")>>)>>,
       <<Sec("s3", <<Good("e3"), Ev("e4", TRUE, TRUE, -1)>>), Sec("s4", <<Good("e5")>>)>>,
       <<Sec("s5", <<Good("e1")>>)>> >>

ThreeBroadcasts == {Plain, Long, Negative}
=============================================================================
