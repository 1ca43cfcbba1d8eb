------------------------------ MODULE MCSkyGuide -----------------------------
(* The guide of Sky: the join of its tables, and the decoding of its texts, *)
(* which changes nothing in the join; so each behaviour is of one of them. *)
(*                                                                         *)
(* Up to three channels, two of one ChannelId and none in the order of     *)
(* their ChannelIds; up to two titles and two summaries in every order,    *)
(* with events that repeat on another day, a title out of the period and   *)
(* one whose channel is unknown.  Dictionaries of up to three lines, among *)
(* them codes that begin other codes, one that ends with a carriage return *)
(* and the NUL on either branch; texts of up to six bits.                  *)
EXTENDS SkyJoin, SkyText

Upto(n, set) == UNION {[1..k -> set] : k \in 0..n}

ch(id, sid, number) == [ChannelId |-> id, Nid |-> 1, Tid |-> sid, Sid |-> sid, SkyNumber |-> number]
SmallChannels == Upto(3, {ch(1, 2, 1), ch(2, 1, 0), ch(1, 3, 1)})

title(id, start, day, event) == [ChannelId |-> id, StartTime |-> start, MjdTime |-> day, EventId |-> event]
SmallTitles == Upto(2, {title(1, 0, 1, 1), title(1, 1, 2, 1), title(1, 1, 1, 2),
                        title(1, 9, 1, 2), title(2, 0, 2, 1), title(3, 0, 1, 1)})

summary(id, day, event) == [ChannelId |-> id, MjdTime |-> day, EventId |-> event]
SmallSummaries == Upto(2, {summary(1, 1, 1), summary(1, 2, 1), summary(1, 1, 2), summary(2, 2, 1)})

line(word, code) == [word |-> word, code |-> code]
SmallLines == {line("a", <<0>>), line("b", <<1, 0>>), line("c", <<1, 1>>), line(NUL, <<1, 0, 0>>),
               line(NUL, <<1, 1>>), line("d", <<0, Other>>), line("e", <<1, Other, 0, 1>>)}

SmallTexts == {<<>>, <<1>>} \cup {<<1, 0>> \o t : t \in BoundedSeq(Bit, 6)}

VARIABLE part

GuideInit ==
    /\ Init /\ TextInit
    /\ part \in {"join", "text"}
    /\ part = "text" =>
          lChannels = <<>> /\ lTitles = <<>> /\ lSummaries = <<>> /\ dictionary

GuideNext ==
    \/ part = "join" /\ Next /\ UNCHANGED <<textVars, part>>
    \/ part = "text" /\ TextNext /\ UNCHANGED <<vars, part>>

GuideSpec == GuideInit /\ [][GuideNext]_<<vars, textVars, part>>
=============================================================================
