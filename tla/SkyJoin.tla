------------------------------- MODULE SkyJoin -------------------------------
(***************************************************************************)
(* CreateEpgXml and CreateXmlChannels: the tables of channels, titles and  *)
(* summaries that the handlers filled are sorted, and each title is joined *)
(* to its channel and to its summary by a binary search with a comparator  *)
(* of its own.                                                             *)
(*                                                                         *)
(* One step sorts the tables, makes one probe of a search, or writes one   *)
(* programme or the channels.                                              *)
(***************************************************************************)
EXTENDS Integers, Sequences

CONSTANTS
    ChannelTables, TitleTables, SummaryTables, \* what the handlers may leave
    Period,      \* start_of_period .. end_of_period - 1
    TimeOffset,  \* EpgTimeOffset
    Known        \* the Sids for which get_channelident has an identifier

(* The fields the join looks at.                                           *)
Channel == [ChannelId : Nat, Nid : Nat, Tid : Nat, Sid : Nat, SkyNumber : Nat]
Title == [ChannelId : Nat, StartTime : Int, MjdTime : Nat, EventId : Nat]
Summary == [ChannelId : Nat, MjdTime : Nat, EventId : Nat]

ASSUME SkyJoinAssumption ==
    /\ ChannelTables \subseteq Seq(Channel)
    /\ TitleTables \subseteq Seq(Title)
    /\ SummaryTables \subseteq Seq(Summary)
    /\ TimeOffset \in Int /\ Known \subseteq Nat

-----------------------------------------------------------------------------
(* The comparators: 1, -1 or 0, by one field after the other.              *)
Compare(x, y) == IF x > y THEN 1 ELSE IF x < y THEN -1 ELSE 0
Then(first, next) == IF first # 0 THEN first ELSE next

(* Mutant: the channels are sorted as they are while they are collected.   *)
qsortChannelsByChID(A, B) ==
    Then(Compare(A.Nid, B.Nid),
    Then(Compare(A.Tid, B.Tid),
    Then(Compare(A.Sid, B.Sid),
         Compare(A.ChannelId, B.ChannelId))))

qsortChannels(A, B) ==
    Then(Compare(A.ChannelId, B.ChannelId),
    Then(Compare(A.Nid, B.Nid),
    Then(Compare(A.Tid, B.Tid),
         Compare(A.Sid, B.Sid))))

qsortChannelsBySkyNumber(A, B) ==
    Then(Compare(A.SkyNumber, B.SkyNumber), qsortChannels(A, B))

bsearchChannelByChannelId(A, B) == Compare(A.ChannelId, B.ChannelId)

qsortTitles(A, B) ==
    Then(Compare(A.ChannelId, B.ChannelId), Compare(A.StartTime, B.StartTime))

qsortSummaries(A, B) ==
    Then(Compare(A.ChannelId, B.ChannelId),
    Then(Compare(A.MjdTime, B.MjdTime),
         Compare(A.EventId, B.EventId)))

bsearchSummarie(A, B) ==
    Then(Compare(A.ChannelId, B.ChannelId),
    Then(Compare(A.MjdTime, B.MjdTime),
         Compare(A.EventId, B.EventId)))

(* qsort: some order of the entries that the comparator agrees with.       *)
IsOrdered(table, Cmp(_, _)) ==
    \A a, b \in DOMAIN table : a < b => Cmp(table[a], table[b]) <= 0

Reorderings(table) ==
    LET Index == DOMAIN table
        perms == {p \in [Index -> Index] : \A a, b \in Index : p[a] = p[b] => a = b}
    IN  {[a \in Index |-> table[p[a]]] : p \in perms}

Sortings(table, Cmp(_, _)) == {t \in Reorderings(table) : IsOrdered(t, Cmp)}

-----------------------------------------------------------------------------
VARIABLES
    lChannels, lTitles, lSummaries,
    dictionary, \* ReadFileDictionary succeeds
    pc,         \* "sort", "title", "channel", "write", "summary", "channels" or "done"
    i,          \* the title
    lo, hi,     \* the search looks at the entries lo + 1 .. hi
    C, S,       \* the channel and the summary that were found, or 0
    programmes, \* what was written: title, channel identifier, summary
    channels    \* the channel identifiers that were written

tables == <<lChannels, lTitles, lSummaries, dictionary>>
vars == <<tables, pc, i, lo, hi, C, S, programmes, channels>>

Init ==
    /\ lChannels \in ChannelTables /\ lTitles \in TitleTables /\ lSummaries \in SummaryTables
    /\ dictionary \in BOOLEAN
    /\ pc = "sort" /\ i = 1
    /\ lo = 0 /\ hi = 0 /\ C = 0 /\ S = 0
    /\ programmes = <<>> /\ channels = <<>>

Sort ==
    /\ pc = "sort"
    /\ lChannels' \in Sortings(lChannels, qsortChannels)
    /\ lTitles' \in Sortings(lTitles, qsortTitles)
    /\ lSummaries' \in Sortings(lSummaries, qsortSummaries)
    /\ pc' = IF dictionary /\ lChannels # <<>> /\ lSummaries # <<>> THEN "title" ELSE "channels"
    /\ UNCHANGED <<dictionary, i, lo, hi, C, S, programmes, channels>>

(* Mutant: the last title is left out.                                      *)
MoreTitlesButLast == i < Len(lTitles)

MoreTitles == i <= Len(lTitles)

NextTitle ==
    /\ pc = "title"
    /\ IF MoreTitles
       THEN pc' = "channel" /\ lo' = 0 /\ hi' = Len(lChannels) /\ C' = 0
       ELSE pc' = "channels" /\ UNCHANGED <<lo, hi, C>>
    /\ UNCHANGED <<tables, i, S, programmes, channels>>

-----------------------------------------------------------------------------
(* bsearch: the entry in the middle of what is left.                       *)
Middle == (lo + hi) \div 2 + 1

Narrow(comparison) ==
    /\ lo' = IF comparison > 0 THEN Middle ELSE lo
    /\ hi' = IF comparison < 0 THEN Middle - 1 ELSE hi

ProbeChannel ==
    /\ pc = "channel" /\ lo < hi /\ C = 0
    /\ LET comparison == bsearchChannelByChannelId(lTitles[i], lChannels[Middle])
       IN  IF comparison = 0
           THEN C' = Middle /\ UNCHANGED <<lo, hi>>
           ELSE Narrow(comparison) /\ UNCHANGED C
    /\ UNCHANGED <<tables, pc, i, S, programmes, channels>>

HasIdentifier(c) == lChannels[c].Sid \in Known

InPeriod(T) == T.StartTime + TimeOffset \in Period

(* The search is over: a title of the period whose channel has an          *)
(* identifier is written, and its summary searched for.                    *)
TakeChannel ==
    /\ pc = "channel" /\ (lo >= hi \/ C # 0)
    /\ IF C # 0 /\ InPeriod(lTitles[i]) /\ HasIdentifier(C)
       THEN /\ pc' = "summary" /\ lo' = 0 /\ hi' = Len(lSummaries) /\ S' = 0
            /\ UNCHANGED i
       ELSE pc' = "title" /\ i' = i + 1 /\ UNCHANGED <<lo, hi, S>>
    /\ UNCHANGED <<tables, C, programmes, channels>>

ProbeSummary ==
    /\ pc = "summary" /\ lo < hi /\ S = 0
    /\ LET comparison == bsearchSummarie(lTitles[i], lSummaries[Middle])
       IN  IF comparison = 0
           THEN S' = Middle /\ UNCHANGED <<lo, hi>>
           ELSE Narrow(comparison) /\ UNCHANGED S
    /\ UNCHANGED <<tables, pc, i, C, programmes, channels>>

WriteProgramme ==
    /\ pc = "summary" /\ (lo >= hi \/ S # 0)
    /\ programmes' = Append(programmes, [title |-> i, channel |-> lChannels[C].Sid, summary |-> S])
    /\ pc' = "title" /\ i' = i + 1
    /\ UNCHANGED <<tables, lo, hi, C, S, channels>>

-----------------------------------------------------------------------------
(* Mutant: only channels that have a number.                               *)
AnnouncedIfNumbered(c) == c.SkyNumber > 0 /\ c.Sid \in Known

Announced(c) == c.Nid > 0 /\ c.Tid > 0 /\ c.Sid > 0 /\ c.Sid \in Known

(* The channels that are announced of a table, in its order.               *)
Listed(table) ==
    LET listed[n \in 0 .. Len(table)] ==
          IF n = 0 THEN <<>>
          ELSE IF Announced(table[n]) THEN Append(listed[n - 1], table[n].Sid)
          ELSE listed[n - 1]
    IN  listed[Len(table)]

CreateXmlChannels ==
    /\ pc = "channels" /\ pc' = "done"
    /\ lChannels' \in Sortings(lChannels, qsortChannelsBySkyNumber)
    /\ channels' = Listed(lChannels')
    /\ UNCHANGED <<lTitles, lSummaries, dictionary, i, lo, hi, C, S, programmes>>

Next ==
    \/ Sort \/ NextTitle \/ ProbeChannel \/ TakeChannel \/ ProbeSummary \/ WriteProgramme
    \/ CreateXmlChannels

Spec == Init /\ [][Next]_vars

-----------------------------------------------------------------------------
SameChannel(title, channel) == title.ChannelId = channel.ChannelId
SameEvent(title, summary) ==
    /\ title.ChannelId = summary.ChannelId
    /\ title.MjdTime = summary.MjdTime /\ title.EventId = summary.EventId

(* Where the binary searches may have to look.                             *)
Searched ==
    /\ pc = "channel" /\ C = 0 =>
         \A c \in DOMAIN lChannels : SameChannel(lTitles[i], lChannels[c]) => lo < c /\ c <= hi
    /\ pc = "summary" /\ S = 0 =>
         \A s \in DOMAIN lSummaries : SameEvent(lTitles[i], lSummaries[s]) => lo < s /\ s <= hi

(* A search that ends without a result has missed nothing, and one with a  *)
(* result has found what was searched for, though the tables are sorted by *)
(* more fields, and by another comparator, than they are searched by.      *)
SearchIsExact ==
    /\ pc = "channel" /\ C # 0 => SameChannel(lTitles[i], lChannels[C])
    /\ pc = "channel" /\ C = 0 /\ lo >= hi =>
         \A c \in DOMAIN lChannels : ~SameChannel(lTitles[i], lChannels[c])
    /\ pc = "summary" /\ S # 0 => SameEvent(lTitles[i], lSummaries[S])
    /\ pc = "summary" /\ S = 0 /\ lo >= hi =>
         \A s \in DOMAIN lSummaries : ~SameEvent(lTitles[i], lSummaries[s])

(* Every title of the period is written once if each channel of its        *)
(* ChannelId has an identifier, and a description is given exactly if      *)
(* there is one; without a dictionary, or any channel or summary, nothing  *)
(* is.                                                                     *)
EachTitleOnce ==
    pc \in {"channels", "done"} =>
        /\ \A m, n \in DOMAIN programmes : m < n => programmes[m].title < programmes[n].title
        /\ \A t \in DOMAIN lTitles :
              LET T == lTitles[t]
                  own == {c \in DOMAIN lChannels : SameChannel(T, lChannels[c])}
                  written == {n \in DOMAIN programmes : programmes[n].title = t}
                  sure == /\ dictionary /\ lSummaries # <<>> /\ InPeriod(T)
                          /\ own # {} /\ \A c \in own : HasIdentifier(c)
              IN  /\ sure => written # {}
                  /\ (own = {} \/ ~InPeriod(T)) => written = {}
                  /\ \A n \in written :
                        (programmes[n].summary # 0)
                          <=> (\E s \in DOMAIN lSummaries : SameEvent(T, lSummaries[s]))

(* A programme refers to a channel of the document, as long as no channel  *)
(* has a network, stream or service numbered 0.                            *)
ChannelsAnnounced ==
    pc = "done" /\ (\A c \in DOMAIN lChannels :
                      lChannels[c].Nid > 0 /\ lChannels[c].Tid > 0 /\ lChannels[c].Sid > 0) =>
        \A n \in DOMAIN programmes : \E m \in DOMAIN channels : channels[m] = programmes[n].channel
=============================================================================
