------------------------------- MODULE SkyText -------------------------------
(***************************************************************************)
(* The texts of Sky: ReadFileDictionary builds a tree of codes from the    *)
(* lines of a file, and DecodeHuffmanCode walks down that tree, bit after  *)
(* bit, and puts the word it comes to into the text.                       *)
(*                                                                         *)
(* A node of the tree is the path to it, a sequence of bits.  One step     *)
(* reads a line or a bit.  A text has at most 255 bytes, so the byte and   *)
(* the mask that are kept to go back to never wrap: they are one position. *)
(***************************************************************************)
EXTENDS Integers, Sequences, FiniteSets, SequencesExt

CONSTANTS
    DictionaryLines, \* records of a word and its code, a sequence over {0, 1, Other}
    MaxLines,        \* bound: lines of a dictionary
    Texts,           \* the compressed texts, as sequences of bits
    NUL,             \* the word of the line "\x00=..."
    Marker           \* "<...?...>"

Bit == {0, 1}
Other == 2 \* any character of a code that is neither "0" nor "1"

ASSUME SkyTextAssumption ==
    /\ \A l \in DictionaryLines : l.code \in Seq(Bit \cup {Other})
    /\ MaxLines \in Nat /\ Texts \subseteq Seq(Bit)

-----------------------------------------------------------------------------
VARIABLES
    lines,      \* what was read of the dictionary
    nodes,      \* the nodes of the tree
    Value,      \* the words of those nodes that have one
    phase,      \* "dictionary", "decode" or "text"
    data,       \* the compressed text
    pos,        \* bits of it that were read
    nH,         \* the node
    IsFound, CodeError,
    last,       \* where the code that is being read begins
    DecodeText, DecodeErrorText

dictionaryVars == <<lines, nodes, Value>>
decodeVars == <<data, pos, nH, IsFound, CodeError, last, DecodeText, DecodeErrorText>>
textVars == <<dictionaryVars, phase, decodeVars>>

TextInit ==
    /\ lines = <<>> /\ nodes = {<<>>} /\ Value = <<>>
    /\ phase = "dictionary"
    /\ data = <<>> /\ pos = 0 /\ nH = <<>> /\ IsFound = FALSE /\ CodeError = FALSE
    /\ last = 0 /\ DecodeText = <<>> /\ DecodeErrorText = <<>>

-----------------------------------------------------------------------------
(* A character that is no bit is stepped over ...                          *)
Path(code) ==
    LET path[n \in 0 .. Len(code)] ==
          IF n = 0 THEN <<>>
          ELSE IF code[n] \in Bit THEN Append(path[n - 1], code[n])
          ELSE path[n - 1]
    IN  path[Len(code)]

(* ... but the word is only kept where the last character made the node.   *)
GetsWord(code) == code # <<>> /\ Last(code) \in Bit /\ Path(code) \notin nodes

ReadLine ==
    /\ phase = "dictionary" /\ Len(lines) < MaxLines
    /\ \E line \in DictionaryLines :
          LET path == Path(line.code)
          IN  /\ lines' = Append(lines, line)
              /\ nodes' = nodes \cup Prefixes(path)
              /\ Value' = IF GetsWord(line.code)
                          THEN [n \in DOMAIN Value \cup {path} |->
                                   IF n = path THEN line.word ELSE Value[n]]
                          ELSE Value
    /\ UNCHANGED <<phase, decodeVars>>

(* DecodeHuffmanCode is called.  The first byte is read from its third bit.*)
FirstBit(text) == IF Len(text) > 2 THEN 2 ELSE Len(text)

Decode ==
    /\ phase \in {"dictionary", "text"} /\ phase' = "decode"
    /\ data' \in Texts
    /\ pos' = FirstBit(data') /\ last' = pos'
    /\ nH' = <<>> /\ IsFound' = FALSE /\ CodeError' = FALSE
    /\ DecodeText' = <<>> /\ DecodeErrorText' = <<>>
    /\ UNCHANGED dictionaryVars

-----------------------------------------------------------------------------
bit == data[pos + 1]
child == Append(nH, bit)

(* What a node puts into the text.  A NUL is copied on the branch of the   *)
(* zero, and is a string of no length on the other.                        *)
Written(word, b) == IF word = NUL /\ b = 1 THEN <<>> ELSE <<word>>

(* Mutant: the place to go back to is not moved.                           *)
KeepLast == last

CodeStart == IF IsFound THEN pos ELSE last

Follow ==
    /\ ~CodeError /\ child \in nodes
    /\ IF child \in DOMAIN Value
       THEN /\ DecodeText' = DecodeText \o Written(Value[child], bit)
            /\ nH' = <<>> /\ IsFound' = TRUE
       ELSE nH' = child /\ IsFound' = FALSE /\ UNCHANGED DecodeText
    /\ last' = CodeStart /\ pos' = pos + 1
    /\ UNCHANGED <<CodeError, DecodeErrorText>>

(* There is no such code: back to where it began.                          *)
GoBack ==
    /\ ~CodeError /\ child \notin nodes
    /\ DecodeText' = Append(DecodeText, Marker)
    /\ pos' = CodeStart /\ last' = CodeStart
    /\ CodeError' = TRUE /\ IsFound' = FALSE
    /\ UNCHANGED <<nH, DecodeErrorText>>

Unreadable ==
    /\ CodeError
    /\ DecodeErrorText' = Append(DecodeErrorText, bit)
    /\ pos' = pos + 1
    /\ UNCHANGED <<nH, IsFound, CodeError, last, DecodeText>>

ReadBit ==
    /\ phase = "decode" /\ pos < Len(data)
    /\ Follow \/ GoBack \/ Unreadable
    /\ UNCHANGED <<dictionaryVars, phase, data>>

Decoded ==
    /\ phase = "decode" /\ pos = Len(data)
    /\ phase' = "text"
    /\ UNCHANGED <<dictionaryVars, decodeVars>>

TextNext == ReadLine \/ Decode \/ ReadBit \/ Decoded

TextSpec == TextInit /\ [][TextNext]_textVars

-----------------------------------------------------------------------------
(* The lines that give their node a word: no line before them runs through *)
(* that node, and their code ends with a bit.                              *)
GivesWord(n) ==
    LET code == lines[n].code
    IN  /\ code # <<>> /\ Last(code) \in Bit
        /\ \A m \in 1..n - 1 : ~IsPrefix(Path(code), Path(lines[m].code))

(* Those that can be read: no shorter code stands in their way.            *)
Readable ==
    {n \in DOMAIN lines :
        /\ GivesWord(n)
        /\ \A m \in DOMAIN lines :
              GivesWord(m) => ~IsStrictPrefix(Path(lines[m].code), Path(lines[n].code))}

Codes(ns) == FlattenSeq([k \in DOMAIN ns |-> Path(lines[ns[k]].code)])
Words(ns) == FlattenSeq([k \in DOMAIN ns |-> Written(lines[ns[k]].word, Last(lines[ns[k]].code))])

(* Whatever the dictionary: the text is the words of the codes that can be *)
(* read from the third bit on, as many as there are; if the bits that are  *)
(* left do not begin any code, the marker follows, and exactly those bits  *)
(* are the text of the error.                                              *)
TextIsExact ==
    phase = "text" =>
        LET bits == SubSeq(data, FirstBit(data) + 1, Len(data))
        IN  \E ns \in BoundedSeq(Readable, Len(bits)) :
              LET rest == SubSeq(bits, Len(Codes(ns)) + 1, Len(bits))
                  broken == \A l \in DOMAIN lines : ~IsPrefix(rest, Path(lines[l].code))
              IN  /\ IsPrefix(Codes(ns), bits)
                  /\ \A n \in Readable : ~IsPrefix(Path(lines[n].code), rest)
                  /\ IF broken /\ rest # <<>>
                     THEN DecodeText = Append(Words(ns), Marker) /\ DecodeErrorText = rest
                     ELSE DecodeText = Words(ns) /\ DecodeErrorText = <<>>
=============================================================================
