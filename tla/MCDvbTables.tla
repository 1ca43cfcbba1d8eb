----------------------------- MODULE MCDvbTables -----------------------------
(* The two parsers of the DVB and Freesat grabber, and the decoder of the   *)
(* texts of Freesat.  They share no state, so each behaviour is of one.    *)
(*                                                                         *)
(* Of events: three of one service in sections of three versions, with two *)
(* in either order or with one, among them listings without descriptors,   *)
(* without a title and with bad dates.  Of services: every section of one  *)
(* or two out of four.  Of texts: every payload of up to four bytes of     *)
(* three bits, and every encoding of a text of up to three characters,     *)
(* filled up to whole bytes with zeros or ones.  Two entries of START are  *)
(* hidden by others, as in the tables of Freesat, and one code is missing. *)
EXTENDS DvbEit, DvbSdt, FreesatText

Ev(eid, filled, ends, titled, wanted) ==
    [eid |-> eid, filled |-> filled, ends |-> ends, titled |-> titled, wanted |-> wanted]

Good(eid) == Ev(eid, TRUE, "near", TRUE, TRUE)

EventLists ==
    {<<Good(1), Good(2)>>, <<Good(2), Good(1)>>, <<Good(1)>>,
     <<Ev(1, FALSE, "near", TRUE, TRUE)>>, <<Ev(2, TRUE, "past", TRUE, TRUE)>>,
     <<Ev(2, TRUE, "far", TRUE, TRUE)>>, <<Ev(1, TRUE, "near", FALSE, TRUE)>>,
     <<Ev(1, TRUE, "near", TRUE, FALSE), Good(3)>>}

EventSections == {[sid |-> 10, ver |-> v, events |-> l] : v \in {0, 4, 31}, l \in EventLists}

Sids == {10, 15, 17, 20}
ServiceSections == {<<a>> : a \in Sids} \cup {<<a, b>> : a \in Sids, b \in Sids}

entry(code, next) == [code |-> code, next |-> next]
SmallTable ==
    (0 :> <<entry(<<0>>, 2), entry(<<1, 0>>, 3), entry(<<1, 1>>, ESCAPE),
            entry(<<0>>, ESCAPE), entry(<<1>>, ESCAPE)>>) @@
    (2 :> <<entry(<<0>>, 2), entry(<<1, 0>>, STOP), entry(<<1, 1, 0>>, ESCAPE)>>) @@
    (3 :> <<entry(<<1>>, STOP), entry(<<0, 0>>, 2), entry(<<0, 1>>, ESCAPE)>>)

Fill(bits, b) == bits \o [n \in 1..(-Len(bits)) % ByteBits |-> b]
SmallPayloads ==
    UNION {[1..n * ByteBits -> {0, 1}] : n \in 0..4}
      \cup {Fill(said.bits, b) : said \in Encoded, b \in {0, 1}}

VARIABLE parser

TablesInit == EitInit /\ SdtInit /\ FreesatInit /\ parser \in {"EIT", "SDT", "text"}

TablesNext ==
    \/ parser = "EIT" /\ EitNext /\ UNCHANGED <<sdtVars, freesatVars, parser>>
    \/ parser = "SDT" /\ SdtNext /\ UNCHANGED <<eitVars, freesatVars, parser>>
    \/ parser = "text" /\ FreesatNext /\ UNCHANGED <<eitVars, sdtVars, parser>>

TablesSpec == TablesInit /\ [][TablesNext]_<<eitVars, sdtVars, freesatVars, parser>>
=============================================================================
