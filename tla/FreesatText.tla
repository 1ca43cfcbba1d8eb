----------------------------- MODULE FreesatText -----------------------------
(***************************************************************************)
(* freesat_huffman_to_string (the variant that is built, without           *)
(* NEW_TABLE_FORMAT): each character is found by a code that depends on    *)
(* the character before it, in a window of four bytes that is filled with  *)
(* zeros behind the end of the text.  One step is one turn of its loop.    *)
(*                                                                         *)
(* The window begins shifted bits behind the two bytes of the header; the  *)
(* counter byte of the code follows from that.                             *)
(***************************************************************************)
EXTENDS Integers, Sequences, SequencesExt

CONSTANTS
    ByteBits,   \* 8
    Payloads,   \* texts behind their header, as sequences of bits of whole bytes
    Table,      \* fsat_table: for each character before, a sequence of codes and next
    Space,      \* ' ': the characters below it are controls
    AllocMult, AllocIncr,
    MaxText     \* bound: characters of the texts the property is about

START == 0
STOP == 0
ESCAPE == 1

Bits == {0, 1}
TwoTo[n \in 0..ByteBits] == IF n = 0 THEN 1 ELSE 2 * TwoTo[n - 1]

Ascii == 0..TwoTo[ByteBits - 1] - 1
Controls == 0..Space - 1

(* Texts come in whole bytes; a code fits in the window.                   *)
ASSUME FreesatAssumption ==
    /\ ByteBits \in Nat \ {0, 1, 2} /\ AllocMult \in Nat \ {0} /\ AllocIncr \in Nat \ {0}
    /\ Space \in Nat /\ MaxText \in Nat
    /\ \A payload \in Payloads : payload \in Seq(Bits) /\ Len(payload) % ByteBits = 0
    /\ ESCAPE \in Controls /\ Controls \subseteq Ascii
    /\ DOMAIN Table = {START} \cup (Ascii \ Controls)
    /\ \A before \in DOMAIN Table :
          /\ Table[before] \in Seq([code : Seq(Bits), next : DOMAIN Table \cup {ESCAPE}])
          /\ \A j \in DOMAIN Table[before] : Len(Table[before][j].code) \in 1..4 * ByteBits

-----------------------------------------------------------------------------
VARIABLES
    stage,         \* "called", "decoding", "decoded" or "missing"
    src,           \* the payload
    shifted,       \* bits that were shifted out of the window
    lastch,
    uncompressed,
    alloc_size

freesatVars == <<stage, src, shifted, lastch, uncompressed, alloc_size>>

FreesatInit ==
    /\ stage = "called"
    /\ src = <<>> /\ shifted = 0 /\ lastch = START /\ uncompressed = <<>> /\ alloc_size = 0

size == 2 + Len(src) \div ByteBits

freesat_huffman_to_string ==
    /\ stage = "called" /\ stage' = "decoding"
    /\ src' \in Payloads
    /\ alloc_size' = size' * AllocMult + 1
    /\ UNCHANGED <<shifted, lastch, uncompressed>>

-----------------------------------------------------------------------------
window == [n \in 1..4 * ByteBits |->
              IF shifted + n <= Len(src) THEN src[shifted + n] ELSE 0]

(* The entries of the table that fit; the first one is taken.              *)
Fitting == {j \in DOMAIN Table[lastch] : IsPrefix(Table[lastch][j].code, window)}

Number(bits) ==
    LET number[n \in 0..Len(bits)] == IF n = 0 THEN 0 ELSE 2 * number[n - 1] + bits[n]
    IN  number[Len(bits)]

(* Behind ESCAPE: the next eight bits, up to the first ASCII character.    *)
Escaped ==
    LET ch == Number(SubSeq(window, 1, ByteBits))
    IN  [code |-> SubSeq(window, 1, ByteBits), next |-> IF ch \in Controls THEN STOP ELSE ch]

AfterEscaped(ch) == IF ch \in Ascii THEN ch ELSE ESCAPE

(* The character is stored unless it is a mark.                            *)
Stored(ch) == IF ch \in {STOP, ESCAPE} THEN uncompressed ELSE Append(uncompressed, ch)

byte == (IF size < 6 THEN size ELSE 6) + shifted \div ByteBits

(* Mutant: the loop ends when the last byte is in the window.              *)
MoreWhileFilling == byte' < size

More == byte' < size + 4

Continue == lastch' # STOP /\ More

(* The buffer grows when it is full and a character is to be stored.  The  *)
(* terminator behind the loop is stored without a look at the size.        *)
Take(entry) ==
    /\ UNCHANGED src
    /\ shifted' = shifted + Len(entry.code)
    /\ alloc_size' = IF entry.next \notin {STOP, ESCAPE} /\ Len(uncompressed) >= alloc_size
                     THEN alloc_size + AllocIncr ELSE alloc_size
    /\ stage' = IF Continue THEN "decoding" ELSE "decoded"
    /\ uncompressed' = IF Continue THEN Stored(entry.next) ELSE Append(Stored(entry.next), STOP)

DecodeEscaped ==
    /\ stage = "decoding" /\ lastch = ESCAPE
    /\ lastch' = AfterEscaped(Escaped.next)
    /\ Take(Escaped)

DecodeCharacter ==
    /\ stage = "decoding" /\ lastch # ESCAPE
    /\ \E j \in Fitting :
          /\ \A k \in Fitting : j <= k
          /\ lastch' = Table[lastch][j].next
          /\ Take(Table[lastch][j])

(* No code fits: the rest is dumped in hexadecimal behind the text.        *)
EntryMissing ==
    /\ stage = "decoding" /\ lastch # ESCAPE /\ Fitting = {}
    /\ stage' = "missing"
    /\ UNCHANGED <<src, shifted, lastch, uncompressed, alloc_size>>

FreesatNext == freesat_huffman_to_string \/ DecodeEscaped \/ DecodeCharacter \/ EntryMissing

FreesatSpec == FreesatInit /\ [][FreesatNext]_freesatVars

-----------------------------------------------------------------------------
Conflict(code, other) == IsPrefix(code, other) \/ IsPrefix(other, code)

(* What may be said with the table: the codes that are not hidden by       *)
(* earlier entries.                                                        *)
CodesFor(before, ch) ==
    {Table[before][j].code : j \in
       {k \in DOMAIN Table[before] :
           /\ Table[before][k].next = ch
           /\ \A h \in 1..k - 1 : ~Conflict(Table[before][h].code, Table[before][k].code)}}

Raw(ch) ==
    LET half[n \in 0..ByteBits] == IF n = 0 THEN ch ELSE half[n - 1] \div 2
    IN  [n \in 1..ByteBits |-> half[ByteBits - n] % 2]

Characters == Space..TwoTo[ByteBits] - 1
Texts == BoundedSeq(Characters, MaxText)

(* Every way to encode the rest of a text, for each character before it:   *)
(* character by character, or escaped until the first character of it that *)
(* is ASCII.                                                               *)
Encodings[text \in Texts] ==
    LET escaped ==
          IF text = <<>> THEN {Raw(ch) : ch \in Controls}
          ELSE {Raw(Head(text)) \o rest : rest \in Encodings[Tail(text)][AfterEscaped(Head(text))]}
        plain(before) ==
          IF text = <<>> THEN CodesFor(before, STOP)
          ELSE {code \o rest : code \in CodesFor(before, Head(text)),
                               rest \in IF Head(text) \in DOMAIN Table
                                        THEN Encodings[Tail(text)][Head(text)] ELSE {}}
    IN  [before \in DOMAIN Table \cup {ESCAPE} |->
            IF before = ESCAPE THEN escaped
            ELSE plain(before) \cup {code \o rest : code \in CodesFor(before, ESCAPE), rest \in escaped}]

Encoded == UNION {{[text |-> text, bits |-> bits] : bits \in Encodings[text][START]} : text \in Texts}

(* Whatever follows it and however short it is, a payload that begins with *)
(* an encoded text is decoded to that text and a terminator, the escaped   *)
(* characters and the mark in the last bits of the last byte included.     *)
(* While characters are stored the buffer grows in time; only the          *)
(* terminator may come to lie behind it, and by no more than its one byte. *)
FreesatTextIsExact ==
    /\ Len(uncompressed) <= (IF stage = "decoded" THEN alloc_size + 1 ELSE alloc_size)
    /\ stage \in {"decoded", "missing"} =>
         \A said \in Encoded :
            IsPrefix(said.bits, src) => stage = "decoded" /\ uncompressed = Append(said.text, STOP)
=============================================================================
