------------------------------- MODULE MCSky --------------------------------
(* Bouquets in every order on the air and joined anywhere: one of two      *)
(* sections that share a channel, one of two sections whose second carries *)
(* the description, one of a single section, with and without a name or a  *)
(* description; and one whose channels overflow the list.                  *)
(*                                                                         *)
(* Beside two bouquets, in every order, an SDT of three sections in which  *)
(* one service has no channel, one has two channels, short names come      *)
(* early or late, and names come from a service descriptor (0x19), from a  *)
(* multilingual name beside a type that gives none (0x16) or without any   *)
(* type, or not at all; beside the others the SDT is silent.               *)
EXTENDS SkySdt

Sec(b, n, l, d, nm, o) ==
    [bouquet |-> b, section |-> n, last |-> l, described |-> d, name |-> nm, offers |-> o]

A0 == Sec("A", 0, 1, TRUE, "alpha", {<<"c1", 1>>, <<"c2", NoRegion>>})
A1 == Sec("A", 1, 1, FALSE, "", {<<"c1", 34>>})
B0 == Sec("B", 0, 1, FALSE, "", {<<"c3", 1>>})
B1 == Sec("B", 1, 1, TRUE, "beta", {<<"c2", 2>>})
C0 == Sec("C", 0, 0, TRUE, "gamma", {<<"c4", 1>>})
C0unnamed == Sec("C", 0, 0, TRUE, "", {<<"c4", 1>>})
C0mute == Sec("C", 0, 0, FALSE, "", {<<"c4", 1>>})
Wide == Sec("D", 0, 0, TRUE, "delta", {<<"c3", 1>>, <<"c4", 1>>, <<"c5", 1>>})
Pair == Sec("P", 0, 0, TRUE, "beta", {<<"c3", 1>>, <<"c4", 1>>})

Orders(S) == {f \in [1 .. Cardinality(S) -> S] : IsInjective(f)}

(* Where the receiver joins is free anyway, so some orders are the same.   *)
NamedCarousels == {o \in Orders({A0, A1, Pair}) : o[1] = A0}

AllCarousels == Orders({A0, A1, B0, B1, C0}) \cup Orders({A0, A1, C0unnamed})
                   \cup Orders({A0, A1, C0mute}) \cup Orders({A0, A1, Wide})
                   \cup NamedCarousels

Services4 == [c1 |-> "s1", c2 |-> "s2", c3 |-> "s3", c4 |-> "s3"]

Svc(id, types, multilingual, aka) ==
    [id |-> id, types |-> types, multilingual |-> multilingual, aka |-> aka]

SdtBroadcasts ==
    {<< <<Svc("s0", {1}, FALSE, TRUE), Svc("s1", {25}, FALSE, a)>>,
        <<Svc("s2", {22}, a, b)>>, <<Svc("s3", {}, ~a, c)>> >> :
        a \in BOOLEAN, b \in BOOLEAN, c \in BOOLEAN}
    \cup {<< <<Svc("s0", {1}, FALSE, TRUE)>>, <<Svc("s9", {1}, FALSE, FALSE)>> >>}

Silence == << <<>> >>

SdtBeside(bat) == IF bat \in NamedCarousels THEN SdtBroadcasts ELSE {Silence}
=============================================================================
