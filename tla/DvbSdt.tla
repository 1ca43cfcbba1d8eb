------------------------------- MODULE DvbSdt -------------------------------
(***************************************************************************)
(* The channel list of the DVB and Freesat grabber: parseSDT, which keeps  *)
(* the services of all SDT sections in a singly linked list, and           *)
(* writeChannels, which writes one <channel> element for each entry.       *)
(*                                                                         *)
(* The list is meant to be sorted; the search for the place of a service   *)
(* stops at the first entry with a smaller identifier, and the service is  *)
(* inserted after it.                                                      *)
(***************************************************************************)
EXTENDS Integers, Sequences, Functions

CONSTANTS
    SdtSections,  \* the sections on the air: sequences of services
    MaxEntries    \* how long the list may get (bounds the model)

(* Of a service only its Sid decides where, and whether, it is listed; the *)
(* names the descriptors give an entry are left out.                       *)
Sid == 0 .. 65535

ASSUME SdtAssumption ==
    /\ SdtSections \subseteq Seq(Sid)
    /\ MaxEntries \in Nat \ {0}

VARIABLES
    list,   \* fullChannels, as the sequence of the Sids in it
    last    \* history: the section handled last

sdtVars == <<list, last>>

SdtInit == list = <<>> /\ last = <<>>

(* Mutant: the comparison of the search is turned round.                   *)
StopsAtLarger(l, sid) ==
    LET stops == {i \in DOMAIN l : l[i] >= sid}
    IN  IF stops = {} THEN 0 ELSE CHOOSE i \in stops : \A j \in stops : i <= j

(* The first entry at which the search stops: the same Sid, or a smaller.  *)
StopsAt(l, sid) ==
    LET stops == {i \in DOMAIN l : l[i] <= sid}
    IN  IF stops = {} THEN 0 ELSE CHOOSE i \in stops : \A j \in stops : i <= j

(* Mutant: the new entry is not linked to the rest of the list.            *)
InsertLast(l, i, sid) == SubSeq(l, 1, i) \o <<sid>>

InsertAfter(l, i, sid) == SubSeq(l, 1, i) \o <<sid>> \o SubSeq(l, i + 1, Len(l))

(* A service smaller than every entry is linked to nothing, and the head   *)
(* of the list is set to the end of the search, which is NULL.             *)
Insert(l, sid) ==
    LET i == StopsAt(l, sid) IN
    CASE l = <<>> -> <<sid>>
      [] l # <<>> /\ i = 0 -> <<>>
      [] OTHER -> InsertAfter(l, i, sid)

Listed(l, sid) == LET i == StopsAt(l, sid) IN i # 0 /\ l[i] = sid

(* parseSDT leaves the function at the first service it finds listed.      *)
ParseSDT(l, services) ==
    LET after[i \in 0 .. Len(services)] ==
          IF i = 0 THEN [list |-> l, open |-> TRUE]
          ELSE IF ~after[i - 1].open \/ Listed(after[i - 1].list, services[i])
               THEN [after[i - 1] EXCEPT !.open = FALSE]
               ELSE [after[i - 1] EXCEPT !.list = Insert(@, services[i])]
    IN  after[Len(services)].list

SdtSection(s) ==
    /\ Len(list) + Len(s) <= MaxEntries
    /\ list' = ParseSDT(list, s)
    /\ last' = s

SdtNext == \E s \in SdtSections : SdtSection(s)

SdtSpec == SdtInit /\ [][SdtNext]_sdtVars

-----------------------------------------------------------------------------
(* The head of the list is strictly the smallest identifier in it: the     *)
(* only order that survives the insertions, and the reason why the head is *)
(* the one entry that is always recognised as listed already.              *)
HeadIsSmallest ==
    \A i \in DOMAIN list : i > 1 => list[1] < list[i]

(* Entries are only ever lost all together, and only to a section with a   *)
(* service smaller than every listed one; nothing else takes an entry out. *)
LostOnlyToSmaller ==
    [][\A i \in DOMAIN list :
          list[i] \notin Range(list')
            => \E j \in DOMAIN last' : \A k \in DOMAIN list : last'[j] < list[k]]_list
=============================================================================
