------------------------------ MODULE Recursion ------------------------------
(***************************************************************************)
(* Induction and recursion over the first numbers, for proofs about the    *)
(* loops of the program: what a handler does to the entries of a section,  *)
(* one after the other, is modelled by a recursive function.               *)
(*                                                                         *)
(* The rules are stated with sets and functions where those of the library *)
(* take operators.                                                         *)
(***************************************************************************)
EXTENDS Integers, TLAPS, WellFoundedInduction

(* A set of naturals that is not empty has a smallest element.             *)
LEMMA SmallestElement ==
    ASSUME NEW T \in SUBSET Nat, T # {}
    PROVE  \E x \in T : \A y \in T : x <= y
<1> DEFINE Less == OpToRel(<, Nat)
<1>1. IsWellFoundedOn(Less, Nat)
  BY NatLessThanWellFounded
<1>2. \A x, y \in Nat : y < x => <<y, x>> \in Less
  BY DEF OpToRel
<1> HIDE DEF Less
<1>3. PICK least \in T : \A y \in T : <<y, least>> \notin Less
  BY <1>1, WFMin
<1>4. \A x, y \in Nat : x <= y \/ y < x
  OBVIOUS
<1> QED BY <1>2, <1>3, <1>4

(* And one with a bound has a largest.                                     *)
LEMMA LargestElement ==
    ASSUME NEW n \in Nat, NEW T \in SUBSET (0 .. n), T # {}
    PROVE  \E x \in T : \A y \in T : y <= x
<1> DEFINE Mirror == {n - x : x \in T}
<1>1. Mirror \in SUBSET Nat /\ Mirror # {}
  <2>1. \A x \in T : n - x \in Nat
    OBVIOUS
  <2> QED BY <2>1, Zenon
<1>2. PICK low \in Mirror : \A y \in Mirror : low <= y
  <2> HIDE DEF Mirror
  <2> QED BY <1>1, SmallestElement
<1>3. PICK top \in T : low = n - top
  BY <1>2
<1>4. \A y \in T : y <= top
  BY <1>2, <1>3
<1> QED BY <1>4

(* Induction: a set with 0 and, up to n, with each number its successor,   *)
(* has all numbers up to n.                                                *)
LEMMA UpTo ==
    ASSUME NEW n \in Nat, NEW T, 0 \in T,
           \A k \in 0 .. n - 1 : k \in T => k + 1 \in T
    PROVE  \A k \in 0 .. n : k \in T
<1> SUFFICES ASSUME (0 .. n) \ T # {} PROVE FALSE
  OBVIOUS
<1> DEFINE Out == (0 .. n) \ T
<1>1. PICK gap \in Out : \A y \in Out : gap <= y
  <2>1. Out \in SUBSET Nat /\ Out # {}
    OBVIOUS
  <2> HIDE DEF Out
  <2> QED BY <2>1, SmallestElement
<1>2. gap # 0 /\ gap - 1 \in 0 .. n - 1
  BY <1>1
<1>3. gap - 1 \in T
  BY <1>1, <1>2
<1> QED BY <1>1, <1>2, <1>3
=============================================================================
