----------------------------- MODULE SkyGuideProofs ---------------------------
(***************************************************************************)
(* Proofs about the guide of Sky: the join of titles, summaries and        *)
(* channels (module SkyJoin), for tables of every length, and the decoding *)
(* of texts (module SkyText), for every dictionary and every text.         *)
(*                                                                         *)
(* SearchOK is about the binary searches of the join. A search is made by  *)
(* fewer fields, or by another comparator, than the sort; that it is exact *)
(* rests on the order of the sort being an order of the fields that the    *)
(* search looks at, first field first.                                     *)
(*                                                                         *)
(* JoinInv is about the loop of the join: the titles before the one at     *)
(* hand are done. What a title is done with is said of the channel that a  *)
(* search finds for it, so it is told apart from other titles by its place *)
(* only, and the order the sorts leave never matters.                      *)
(*                                                                         *)
(* TextInv is about the tree and the text. The nodes of the tree are the   *)
(* beginnings of the codes of the dictionary. The bits read so far are the *)
(* codes of some lines and the way from the root to the node; no word lies *)
(* on that way, so the next word found is one that no shorter code hides.  *)
(***************************************************************************)
EXTENDS SkyJoin, SkyText, Recursion, FiniteSetTheorems

(* A sorted table has the entries of the table, each of its type.          *)
LEMMA ReorderingType ==
    ASSUME NEW R, NEW table \in Seq(R), NEW t \in Reorderings(table)
    PROVE  t \in Seq(R) /\ Len(t) = Len(table)
<1>1. PICK p \in [DOMAIN table -> DOMAIN table] : t = [a \in DOMAIN table |-> table[p[a]]]
  BY DEF Reorderings
<1>2. DOMAIN table = 1 .. Len(table) /\ Len(table) \in Nat
  OBVIOUS
<1>3. t \in [1 .. Len(table) -> R]
  BY <1>1, <1>2
<1> QED BY <1>2, <1>3

(* And none of the entries is missing.                                     *)
LEMMA ReorderingIsOnto ==
    ASSUME NEW R, NEW table \in Seq(R), NEW t \in Reorderings(table)
    PROVE  /\ \A b \in DOMAIN t : \E a \in DOMAIN table : t[b] = table[a]
           /\ \A a \in DOMAIN table : \E b \in DOMAIN t : t[b] = table[a]
<1> DEFINE Index == DOMAIN table
<1>1. PICK p \in [Index -> Index] : /\ \A a, b \in Index : p[a] = p[b] => a = b
                                    /\ t = [a \in Index |-> table[p[a]]]
  BY DEF Reorderings
<1>2. Index = 1 .. Len(table) /\ Len(table) \in Nat
  OBVIOUS
<1>3. IsFiniteSet(Index)
  BY <1>2, FS_Interval
<1>4. p \in Injection(Index, Index)
  BY <1>1 DEF Injection, IsInjective
<1>5. p \in Surjection(Index, Index)
  BY <1>3, <1>4, FS_Injection
<1>6. \A a \in Index : \E b \in Index : p[b] = a
  BY <1>5 DEF Surjection
<1> QED BY <1>1, <1>6

-----------------------------------------------------------------------------
(* What the comparators' steps say.                                        *)
LEMMA CompareTells ==
    ASSUME NEW x \in Int, NEW y \in Int
    PROVE  /\ Compare(x, y) \in {-1, 0, 1}
           /\ Compare(x, y) = 1 <=> x > y
           /\ Compare(x, y) = 0 <=> x = y
           /\ Compare(x, y) = -1 <=> x < y
BY DEF Compare

(* A comparator goes to the next field when the fields before are equal.   *)
LEMMA ThenTells ==
    ASSUME NEW x \in {-1, 0, 1}, NEW y \in {-1, 0, 1}
    PROVE  /\ Then(x, y) \in {-1, 0, 1}
           /\ x # 0 => Then(x, y) = x
           /\ x = 0 => Then(x, y) = y
BY DEF Then

(* The order of the channels, and of the summaries, that the searches use. *)
ByChannelId(table) ==
    \A a, b \in 1 .. Len(table) : a < b => table[a].ChannelId <= table[b].ChannelId

Before(A, B) ==
    \/ A.ChannelId < B.ChannelId
    \/ /\ A.ChannelId = B.ChannelId
       /\ \/ A.MjdTime < B.MjdTime
          \/ A.MjdTime = B.MjdTime /\ A.EventId <= B.EventId

ByEvent(table) == \A a, b \in 1 .. Len(table) : a < b => Before(table[a], table[b])

(* A table of channels sorted for the search (qsortChannelsByChannelID)    *)
(* is in the order of the channel numbers, which is all                    *)
(* bsearchChannelByChID looks at.                                          *)
LEMMA ChannelsByChannelId ==
    ASSUME NEW table \in Seq(Channel), NEW t \in Sortings(table, qsortChannels)
    PROVE  t \in Seq(Channel) /\ ByChannelId(t)
<1>1. t \in Seq(Channel) /\ \A a, b \in DOMAIN t : a < b => qsortChannels(t[a], t[b]) <= 0
  BY ReorderingType DEF Sortings, IsOrdered
<1>2. ASSUME NEW a \in 1 .. Len(t), NEW b \in 1 .. Len(t), a < b
      PROVE  t[a].ChannelId <= t[b].ChannelId
  <2>1. t[a] \in Channel /\ t[b] \in Channel /\ qsortChannels(t[a], t[b]) <= 0
    BY <1>1, <1>2
  <2>2. t[a].ChannelId \in Nat /\ t[b].ChannelId \in Nat
    BY <2>1 DEF Channel
  <2>3. /\ t[a].Nid \in Nat /\ t[b].Nid \in Nat /\ t[a].Tid \in Nat /\ t[b].Tid \in Nat
        /\ t[a].Sid \in Nat /\ t[b].Sid \in Nat
    BY <2>1 DEF Channel
  <2> DEFINE c1 == Compare(t[a].ChannelId, t[b].ChannelId)
             c2 == Compare(t[a].Nid, t[b].Nid)
             c3 == Compare(t[a].Tid, t[b].Tid)
             c4 == Compare(t[a].Sid, t[b].Sid)
  <2>4. c1 \in {-1, 0, 1} /\ c2 \in {-1, 0, 1} /\ c3 \in {-1, 0, 1} /\ c4 \in {-1, 0, 1}
    <3>1. c1 \in {-1, 0, 1}
      BY <2>2, CompareTells, SMTT(30)
    <3>2. c2 \in {-1, 0, 1}
      BY <2>3, CompareTells, SMTT(30)
    <3>3. c3 \in {-1, 0, 1}
      BY <2>3, CompareTells, SMTT(30)
    <3>4. c4 \in {-1, 0, 1}
      BY <2>3, CompareTells, SMTT(30)
    <3> QED BY <3>1, <3>2, <3>3, <3>4
  <2>5. Then(c1, Then(c2, Then(c3, c4))) <= 0
    BY <2>1 DEF qsortChannels
  <2>6. c1 = 1 <=> t[a].ChannelId > t[b].ChannelId
    BY <2>2, CompareTells
  <2> HIDE DEF c1, c2, c3, c4
  <2>7. c1 # 1
    BY <2>4, <2>5, ThenTells
  <2> QED BY <2>2, <2>6, <2>7
<1> QED BY <1>1, <1>2 DEF ByChannelId

(* A table of summaries sorted for the search is in the order of           *)
(* channel, time and event, first field first, as bsearchSummarie          *)
(* compares them.                                                          *)
LEMMA SummariesByEvent ==
    ASSUME NEW table \in Seq(Summary), NEW t \in Sortings(table, qsortSummaries)
    PROVE  t \in Seq(Summary) /\ ByEvent(t)
<1>1. t \in Seq(Summary) /\ \A a, b \in DOMAIN t : a < b => qsortSummaries(t[a], t[b]) <= 0
  BY ReorderingType DEF Sortings, IsOrdered
<1>2. ASSUME NEW a \in 1 .. Len(t), NEW b \in 1 .. Len(t), a < b
      PROVE  Before(t[a], t[b])
  <2>1. t[a] \in Summary /\ t[b] \in Summary /\ qsortSummaries(t[a], t[b]) <= 0
    BY <1>1, <1>2
  <2>2. /\ t[a].ChannelId \in Nat /\ t[b].ChannelId \in Nat
        /\ t[a].MjdTime \in Nat /\ t[b].MjdTime \in Nat
        /\ t[a].EventId \in Nat /\ t[b].EventId \in Nat
    BY <2>1 DEF Summary
  <2> DEFINE c1 == Compare(t[a].ChannelId, t[b].ChannelId)
             c2 == Compare(t[a].MjdTime, t[b].MjdTime)
             c3 == Compare(t[a].EventId, t[b].EventId)
  <2>3. /\ c1 \in {-1, 0, 1} /\ (c1 = -1 <=> t[a].ChannelId < t[b].ChannelId)
        /\ (c1 = 0 <=> t[a].ChannelId = t[b].ChannelId)
    BY <2>2, CompareTells
  <2>4. /\ c2 \in {-1, 0, 1} /\ (c2 = -1 <=> t[a].MjdTime < t[b].MjdTime)
        /\ (c2 = 0 <=> t[a].MjdTime = t[b].MjdTime)
    BY <2>2, CompareTells
  <2>5. /\ c3 \in {-1, 0, 1} /\ (c3 = 1 <=> t[a].EventId > t[b].EventId)
    BY <2>2, CompareTells
  <2>6. Then(c1, Then(c2, c3)) <= 0
    BY <2>1 DEF qsortSummaries
  <2> HIDE DEF c1, c2, c3
  <2>7. c1 = -1 \/ (c1 = 0 /\ (c2 = -1 \/ (c2 = 0 /\ c3 # 1)))
    <3>1. Then(c2, c3) \in {-1, 0, 1} /\ (c2 # 0 => Then(c2, c3) = c2) /\ (c2 = 0 => Then(c2, c3) = c3)
      BY <2>4, <2>5, ThenTells
    <3>2. c1 # 0 => Then(c1, Then(c2, c3)) = c1
      BY <2>3, <3>1, ThenTells
    <3>3. c1 = 0 => Then(c1, Then(c2, c3)) = Then(c2, c3)
      BY <2>3, <3>1, ThenTells
    <3> QED BY <2>3, <2>4, <2>5, <2>6, <3>1, <3>2, <3>3
  <2> QED BY <2>2, <2>3, <2>4, <2>5, <2>7 DEF Before
<1> QED BY <1>1, <1>2 DEF ByEvent

-----------------------------------------------------------------------------
Places == {"sort", "title", "channel", "summary", "channels", "done"}

SearchOK ==
    /\ lChannels \in Seq(Channel) /\ lTitles \in Seq(Title) /\ lSummaries \in Seq(Summary)
    /\ pc \in Places
    /\ i \in Nat /\ i > 0 /\ lo \in Nat /\ hi \in Nat
    /\ pc \in {"title", "channel", "summary"} => ByChannelId(lChannels) /\ ByEvent(lSummaries)
    /\ pc \in {"channel", "summary"} => i \in 1 .. Len(lTitles)
    /\ pc = "channel" =>
         /\ hi <= Len(lChannels)
         /\ C \in 0 .. Len(lChannels)
         /\ C # 0 => SameChannel(lTitles[i], lChannels[C])
    /\ pc = "summary" =>
         /\ hi <= Len(lSummaries)
         /\ S \in 0 .. Len(lSummaries)
         /\ S # 0 => SameEvent(lTitles[i], lSummaries[S])
    /\ Searched

(* No search was made before the run of CreateEpgXml.                      *)
LEMMA SearchInit == Init => SearchOK
BY SkyJoinAssumption DEF Init, SearchOK, Searched, Places

(* The middle lies in what is left.                                        *)
LEMMA MiddleIsInside ==
    ASSUME lo \in Nat, hi \in Nat, lo < hi
    PROVE  Middle \in Nat /\ lo < Middle /\ Middle <= hi
BY DEF Middle

(* A probe halves what is left of the channels, and what it drops is not   *)
(* the channel searched for.                                               *)
LEMMA ProbeChannelStep == SearchOK /\ ProbeChannel => SearchOK'
<1> SUFFICES ASSUME SearchOK, ProbeChannel PROVE SearchOK'
  OBVIOUS
<1> DEFINE T == lTitles[i]
           comparison == bsearchChannelByChannelId(T, lChannels[Middle])
<1>1. /\ UNCHANGED <<lChannels, lTitles, lSummaries, pc, i, S>> /\ pc = "channel" /\ C = 0
      /\ lo \in Nat /\ hi \in Nat /\ lo < hi /\ hi <= Len(lChannels)
  BY DEF ProbeChannel, SearchOK, tables
<1>2. /\ lChannels \in Seq(Channel) /\ lTitles \in Seq(Title) /\ lSummaries \in Seq(Summary)
      /\ i \in Nat /\ i > 0 /\ i \in 1 .. Len(lTitles)
      /\ ByChannelId(lChannels) /\ ByEvent(lSummaries)
  BY <1>1 DEF SearchOK
<1>3. Middle \in Nat /\ lo < Middle /\ Middle <= hi /\ Middle \in 1 .. Len(lChannels)
  <2>1. Middle \in Nat /\ lo < Middle /\ Middle <= hi
    BY <1>1, MiddleIsInside
  <2>2. Len(lChannels) \in Nat
    BY <1>2
  <2> QED BY <1>1, <2>1, <2>2
<1>4. T \in Title /\ \A c \in 1 .. Len(lChannels) : lChannels[c].ChannelId \in Nat
  <2>1. T \in Title
    BY <1>2
  <2>2. \A c \in 1 .. Len(lChannels) : lChannels[c] \in Channel
    BY <1>2
  <2>3. \A r \in Channel : r.ChannelId \in Nat
    BY DEF Channel
  <2> QED BY <2>1, <2>2, <2>3
<1>5. T.ChannelId \in Nat /\ DOMAIN lChannels = 1 .. Len(lChannels) /\ Len(lChannels) \in Nat
  <2>1. T.ChannelId \in Nat
    BY <1>4 DEF Title
  <2>2. DOMAIN lChannels = 1 .. Len(lChannels) /\ Len(lChannels) \in Nat
    BY <1>2
  <2> QED BY <2>1, <2>2
<1>6. \A c \in 1 .. Len(lChannels) : T.ChannelId = lChannels[c].ChannelId => lo < c /\ c <= hi
  BY <1>1, <1>5 DEF SearchOK, Searched, SameChannel
<1>7. comparison \in {-1, 0, 1}
      /\ (comparison > 0 => T.ChannelId > lChannels[Middle].ChannelId)
      /\ (comparison < 0 => T.ChannelId < lChannels[Middle].ChannelId)
      /\ (comparison = 0 => T.ChannelId = lChannels[Middle].ChannelId)
  BY <1>3, <1>4, <1>5 DEF bsearchChannelByChannelId, Compare
<1>8. \/ comparison = 0 /\ C' = Middle /\ lo' = lo /\ hi' = hi
      \/ comparison > 0 /\ C' = 0 /\ lo' = Middle /\ hi' = hi
      \/ comparison < 0 /\ C' = 0 /\ lo' = lo /\ hi' = Middle - 1
  BY <1>1, <1>7 DEF ProbeChannel, Narrow
<1> HIDE DEF comparison
<1>9. /\ lo' \in Nat /\ hi' \in Nat /\ hi' <= Len(lChannels) /\ C' \in 0 .. Len(lChannels)
  BY <1>1, <1>3, <1>8
<1>10. C' # 0 => SameChannel(T, lChannels[C'])
  BY <1>1, <1>3, <1>7, <1>8 DEF SameChannel
<1>11. ASSUME C' = 0, NEW c \in 1 .. Len(lChannels), T.ChannelId = lChannels[c].ChannelId
       PROVE  lo' < c /\ c <= hi'
  <2>1. lo < c /\ c <= hi
    BY <1>6, <1>11
  <2>2. /\ Middle < c => lChannels[Middle].ChannelId <= lChannels[c].ChannelId
        /\ c < Middle => lChannels[c].ChannelId <= lChannels[Middle].ChannelId
    BY <1>2, <1>3 DEF ByChannelId
  <2>3. CASE comparison > 0 /\ lo' = Middle /\ hi' = hi
    BY <1>3, <1>4, <1>5, <1>7, <1>11, <2>1, <2>2, <2>3
  <2>4. CASE comparison < 0 /\ lo' = lo /\ hi' = Middle - 1
    BY <1>3, <1>4, <1>5, <1>7, <1>11, <2>1, <2>2, <2>4
  <2> QED BY <1>3, <1>8, <1>11, <2>3, <2>4
<1> QED BY <1>1, <1>2, <1>5, <1>9, <1>10, <1>11 DEF SearchOK, Searched, SameChannel, Places

(* A probe halves what is left of the summaries, and what it drops is      *)
(* not the summary searched for.                                           *)
LEMMA ProbeSummaryStep == SearchOK /\ ProbeSummary => SearchOK'
<1> SUFFICES ASSUME SearchOK, ProbeSummary PROVE SearchOK'
  OBVIOUS
<1> DEFINE T == lTitles[i]
           comparison == bsearchSummarie(T, lSummaries[Middle])
<1>1. /\ UNCHANGED <<lChannels, lTitles, lSummaries, pc, i, C>> /\ pc = "summary" /\ S = 0
      /\ lo \in Nat /\ hi \in Nat /\ lo < hi /\ hi <= Len(lSummaries)
  BY DEF ProbeSummary, SearchOK, tables
<1>2. /\ lChannels \in Seq(Channel) /\ lTitles \in Seq(Title) /\ lSummaries \in Seq(Summary)
      /\ i \in Nat /\ i > 0 /\ i \in 1 .. Len(lTitles)
      /\ ByChannelId(lChannels) /\ ByEvent(lSummaries)
  BY <1>1 DEF SearchOK
<1>3. Middle \in Nat /\ lo < Middle /\ Middle <= hi /\ Middle \in 1 .. Len(lSummaries)
  <2>1. Middle \in Nat /\ lo < Middle /\ Middle <= hi
    BY <1>1, MiddleIsInside
  <2>2. Len(lSummaries) \in Nat
    BY <1>2
  <2> QED BY <1>1, <2>1, <2>2
<1>4. /\ T \in Title
      /\ \A s \in 1 .. Len(lSummaries) :
           /\ lSummaries[s].ChannelId \in Nat
           /\ lSummaries[s].MjdTime \in Nat /\ lSummaries[s].EventId \in Nat
  <2>1. T \in Title
    BY <1>2
  <2>2. \A s \in 1 .. Len(lSummaries) : lSummaries[s] \in Summary
    BY <1>2
  <2>3. \A r \in Summary : r.ChannelId \in Nat /\ r.MjdTime \in Nat /\ r.EventId \in Nat
    BY DEF Summary
  <2> QED BY <2>1, <2>2, <2>3
<1>5. /\ T.ChannelId \in Nat /\ T.MjdTime \in Nat /\ T.EventId \in Nat
      /\ DOMAIN lSummaries = 1 .. Len(lSummaries) /\ Len(lSummaries) \in Nat
  <2>1. T.ChannelId \in Nat /\ T.MjdTime \in Nat /\ T.EventId \in Nat
    BY <1>4 DEF Title
  <2>2. DOMAIN lSummaries = 1 .. Len(lSummaries) /\ Len(lSummaries) \in Nat
    BY <1>2
  <2> QED BY <2>1, <2>2
<1>6. \A s \in 1 .. Len(lSummaries) : SameEvent(T, lSummaries[s]) => lo < s /\ s <= hi
  BY <1>1, <1>5 DEF SearchOK, Searched
<1>7. comparison \in {-1, 0, 1}
      /\ (comparison > 0 => ~Before(T, lSummaries[Middle]))
      /\ (comparison < 0 => ~Before(lSummaries[Middle], T))
      /\ (comparison = 0 => SameEvent(T, lSummaries[Middle]))
  BY <1>3, <1>4, <1>5 DEF bsearchSummarie, Then, Compare, Before, SameEvent
<1>8. \/ comparison = 0 /\ S' = Middle /\ lo' = lo /\ hi' = hi
      \/ comparison > 0 /\ S' = 0 /\ lo' = Middle /\ hi' = hi
      \/ comparison < 0 /\ S' = 0 /\ lo' = lo /\ hi' = Middle - 1
  BY <1>1, <1>7 DEF ProbeSummary, Narrow
<1> HIDE DEF comparison
<1>9. /\ lo' \in Nat /\ hi' \in Nat /\ hi' <= Len(lSummaries) /\ S' \in 0 .. Len(lSummaries)
  BY <1>1, <1>3, <1>8
<1>10. S' # 0 => SameEvent(T, lSummaries[S'])
  BY <1>1, <1>3, <1>7, <1>8
<1>11. ASSUME S' = 0, NEW s \in 1 .. Len(lSummaries), SameEvent(T, lSummaries[s])
       PROVE  lo' < s /\ s <= hi'
  <2>1. lo < s /\ s <= hi
    BY <1>6, <1>11
  <2>2. /\ Middle < s => Before(lSummaries[Middle], lSummaries[s])
        /\ s < Middle => Before(lSummaries[s], lSummaries[Middle])
    BY <1>2, <1>3 DEF ByEvent
  <2>3. /\ Before(lSummaries[Middle], lSummaries[s]) => Before(lSummaries[Middle], T)
        /\ Before(lSummaries[s], lSummaries[Middle]) => Before(T, lSummaries[Middle])
        /\ s = Middle => Before(T, lSummaries[Middle]) /\ Before(lSummaries[Middle], T)
    BY <1>3, <1>4, <1>5, <1>11 DEF Before, SameEvent
  <2>4. CASE comparison > 0 /\ lo' = Middle /\ hi' = hi
    BY <1>3, <1>7, <2>1, <2>2, <2>3, <2>4
  <2>5. CASE comparison < 0 /\ lo' = lo /\ hi' = Middle - 1
    BY <1>3, <1>7, <2>1, <2>2, <2>3, <2>5
  <2> QED BY <1>3, <1>8, <1>11, <2>4, <2>5
<1> QED BY <1>1, <1>2, <1>5, <1>9, <1>10, <1>11 DEF SearchOK, Searched, Places

(* Every step of the join keeps what is known of the searches.             *)
LEMMA SearchStep == SearchOK /\ [Next]_vars => SearchOK'
<1> SUFFICES ASSUME SearchOK, [Next]_vars PROVE SearchOK'
  OBVIOUS
<1>1. CASE Sort
  <2>1. lChannels' \in Seq(Channel) /\ ByChannelId(lChannels')
    BY <1>1, ChannelsByChannelId DEF Sort, SearchOK
  <2>2. lSummaries' \in Seq(Summary) /\ ByEvent(lSummaries')
    BY <1>1, SummariesByEvent DEF Sort, SearchOK
  <2>3. lTitles' \in Seq(Title)
    BY <1>1, ReorderingType DEF Sort, SearchOK, Sortings
  <2>4. pc' \in {"title", "channels"} /\ UNCHANGED <<i, lo, hi>>
    BY <1>1 DEF Sort
  <2> QED BY <2>1, <2>2, <2>3, <2>4 DEF SearchOK, Searched, Places
<1>2. CASE NextTitle
  <2>0. /\ lChannels \in Seq(Channel) /\ lTitles \in Seq(Title) /\ i \in Nat /\ i > 0
        /\ Len(lTitles) \in Nat /\ Len(lChannels) \in Nat /\ DOMAIN lChannels = 1 .. Len(lChannels)
    BY DEF SearchOK
  <2>1. UNCHANGED <<lChannels, lTitles, lSummaries, i, S>> /\ pc = "title"
    BY <1>2 DEF NextTitle, tables
  <2>2. CASE MoreTitles
    <3>1. pc' = "channel" /\ lo' = 0 /\ hi' = Len(lChannels) /\ C' = 0
      BY <1>2, <2>2 DEF NextTitle
    <3>2. i \in 1 .. Len(lTitles)
      BY <2>0, <2>2 DEF MoreTitles
    <3> QED BY <2>0, <2>1, <3>1, <3>2 DEF SearchOK, Searched, Places
  <2>3. CASE ~MoreTitles
    BY <1>2, <2>1, <2>3 DEF NextTitle, SearchOK, Searched, Places
  <2> QED BY <2>2, <2>3
<1>3. CASE ProbeChannel BY <1>3, ProbeChannelStep
<1>4. CASE TakeChannel
  <2>0. /\ lSummaries \in Seq(Summary) /\ Len(lSummaries) \in Nat /\ i \in Nat
        /\ DOMAIN lSummaries = 1 .. Len(lSummaries)
    BY DEF SearchOK
  <2>1. UNCHANGED <<lChannels, lTitles, lSummaries, C>> /\ pc = "channel"
    BY <1>4 DEF TakeChannel, tables
  <2>2. \/ /\ pc' = "summary" /\ lo' = 0 /\ hi' = Len(lSummaries) /\ S' = 0 /\ i' = i
        \/ pc' = "title" /\ i' = i + 1 /\ lo' = lo /\ hi' = hi /\ S' = S
    BY <1>4 DEF TakeChannel
  <2> QED BY <2>0, <2>1, <2>2 DEF SearchOK, Searched, Places
<1>5. CASE ProbeSummary BY <1>5, ProbeSummaryStep
<1>6. CASE WriteProgramme
  <2>1. UNCHANGED <<lChannels, lTitles, lSummaries, lo, hi>> /\ pc' = "title" /\ pc = "summary"
        /\ i' = i + 1
    BY <1>6 DEF WriteProgramme, tables
  <2> QED BY <2>1 DEF SearchOK, Searched, Places
<1>7. CASE CreateXmlChannels
  <2>1. pc' = "done" /\ UNCHANGED <<lTitles, lSummaries, i, lo, hi>>
    BY <1>7 DEF CreateXmlChannels
  <2>2. lChannels' \in Seq(Channel)
    BY <1>7, ReorderingType DEF CreateXmlChannels, Sortings, SearchOK
  <2> QED BY <2>1, <2>2 DEF SearchOK, Searched, Places
<1>8. CASE UNCHANGED vars
  BY <1>8 DEF vars, tables, SearchOK, Searched
<1> QED BY <1>1, <1>2, <1>3, <1>4, <1>5, <1>6, <1>7, <1>8 DEF Next

(* A search that finds nothing has missed nothing, and what it finds is    *)
(* what was searched for.                                                  *)
THEOREM SearchesAreExact == Spec => []SearchIsExact
<1>1. SearchOK => SearchIsExact
  <2> SUFFICES ASSUME SearchOK PROVE SearchIsExact
    OBVIOUS
  <2>1. /\ DOMAIN lChannels = 1 .. Len(lChannels) /\ DOMAIN lSummaries = 1 .. Len(lSummaries)
        /\ Len(lChannels) \in Nat /\ Len(lSummaries) \in Nat /\ lo \in Nat /\ hi \in Nat
    BY DEF SearchOK
  <2>2. ASSUME pc = "channel", C = 0, lo >= hi
        PROVE  \A c \in DOMAIN lChannels : ~SameChannel(lTitles[i], lChannels[c])
    BY <2>1, <2>2 DEF SearchOK, Searched
  <2>3. ASSUME pc = "summary", S = 0, lo >= hi
        PROVE  \A s \in DOMAIN lSummaries : ~SameEvent(lTitles[i], lSummaries[s])
    BY <2>1, <2>3 DEF SearchOK, Searched
  <2> QED BY <2>2, <2>3 DEF SearchOK, SearchIsExact
<1> QED BY <1>1, SearchInit, SearchStep, PTL DEF Spec
-----------------------------------------------------------------------------
OwnChannel(T) == \E c \in DOMAIN lChannels : SameChannel(T, lChannels[c])
OwnKnown(T) == \A c \in DOMAIN lChannels : SameChannel(T, lChannels[c]) => HasIdentifier(c)
Described(T) == \E s \in DOMAIN lSummaries : SameEvent(T, lSummaries[s])

(* What EachTitleOnce says of one title.                                   *)
TitleDone(t) ==
    LET T == lTitles[t] IN
    /\ dictionary /\ lSummaries # <<>> /\ InPeriod(T) /\ OwnChannel(T) /\ OwnKnown(T) =>
         \E n \in DOMAIN programmes : programmes[n].title = t
    /\ (~OwnChannel(T) \/ ~InPeriod(T)) =>
         \A n \in DOMAIN programmes : programmes[n].title # t
    /\ \A n \in DOMAIN programmes :
         programmes[n].title = t => (programmes[n].summary # 0 <=> Described(T))

(* The titles before i are done, in order, and no other was begun.         *)
JoinInv ==
    /\ DOMAIN programmes = 1 .. Len(programmes) /\ Len(programmes) \in Nat
    /\ \A n \in DOMAIN programmes : programmes[n].title \in Nat /\ programmes[n].title < i
    /\ \A m, n \in DOMAIN programmes : m < n => programmes[m].title < programmes[n].title
    /\ pc = "sort" => programmes = <<>> /\ i = 1
    /\ pc = "summary" =>
         /\ C \in DOMAIN lChannels /\ SameChannel(lTitles[i], lChannels[C])
         /\ InPeriod(lTitles[i]) /\ HasIdentifier(C)
    /\ \A t \in DOMAIN lTitles : t < i \/ pc \in {"channels", "done"} => TitleDone(t)
    /\ \A n \in DOMAIN programmes : \E c \in DOMAIN lChannels :
         HasIdentifier(c) /\ lChannels[c].Sid = programmes[n].channel
    /\ pc = "done" =>
         \A c \in DOMAIN lChannels : Announced(lChannels[c]) =>
             \E m \in DOMAIN channels : channels[m] = lChannels[c].Sid

(* Nothing is written before CreateEpgXml runs.                            *)
LEMMA JoinInit == Init => JoinInv
BY DEF Init, JoinInv

(* What is done stays done as long as the tables are the same.             *)
LEMMA DoneStays ==
    ASSUME NEW t, TitleDone(t), UNCHANGED <<lChannels, lTitles, lSummaries, dictionary, programmes>>
    PROVE  TitleDone(t)'
BY DEF TitleDone, OwnChannel, OwnKnown, Described, HasIdentifier

(* The sorts before the loop over the titles (qsort in CreateEpgXml)       *)
(* only change the order: who has a channel in the table still has one.    *)
LEMMA JoinSort == SearchOK /\ JoinInv /\ Sort => JoinInv'
<1> SUFFICES ASSUME SearchOK, JoinInv, Sort PROVE JoinInv'
  OBVIOUS
<1>1. pc = "sort" /\ programmes = <<>> /\ i = 1 /\ UNCHANGED <<dictionary, programmes, i>>
  BY DEF Sort, JoinInv
<1>2. \/ pc' = "title"
      \/ pc' = "channels" /\ (~dictionary \/ lChannels = <<>> \/ lSummaries = <<>>)
  BY DEF Sort
<1>3. DOMAIN lChannels' = DOMAIN lChannels /\ DOMAIN lSummaries' = DOMAIN lSummaries
      /\ lTitles' \in Seq(Title) /\ lSummaries' \in Seq(Summary)
  <2>1. lChannels' \in Seq(Channel) /\ Len(lChannels') = Len(lChannels)
    BY ReorderingType DEF Sort, Sortings, SearchOK
  <2>2. lSummaries' \in Seq(Summary) /\ Len(lSummaries') = Len(lSummaries)
    BY ReorderingType DEF Sort, Sortings, SearchOK
  <2>3. lTitles' \in Seq(Title)
    BY ReorderingType DEF Sort, Sortings, SearchOK
  <2> QED BY <2>1, <2>2, <2>3 DEF SearchOK
<1>4. ASSUME NEW t \in DOMAIN lTitles', t < i' \/ pc' \in {"channels", "done"}
      PROVE  TitleDone(t)'
  <2>1. ~(t < i')
    BY <1>1, <1>3
  <2>2. ~dictionary \/ lChannels = <<>> \/ lSummaries = <<>>
    BY <1>2, <1>4, <2>1
  <2>3. ~dictionary' \/ DOMAIN lChannels' = {} \/ lSummaries' = <<>>
    <3>1. lSummaries = <<>> => lSummaries' = <<>>
      BY <1>3
    <3> QED BY <1>1, <1>3, <2>2, <3>1
  <2>4. programmes' = <<>>
    BY <1>1
  <2> QED BY <2>3, <2>4 DEF TitleDone, OwnChannel
<1> QED BY <1>1, <1>2, <1>4 DEF JoinInv

(* The loop takes the channel its search came to; a title without a        *)
(* channel, outside the period or with a channel that lacks an             *)
(* identifier is passed by, and is done.                                   *)
LEMMA JoinTake == SearchOK /\ JoinInv /\ TakeChannel => JoinInv'
<1> SUFFICES ASSUME SearchOK, JoinInv, TakeChannel PROVE JoinInv'
  OBVIOUS
<1>1. /\ UNCHANGED <<lChannels, lTitles, lSummaries, dictionary, C, programmes, channels>>
      /\ pc = "channel" /\ i \in Nat /\ lo \in Nat /\ hi \in Nat
      /\ (lo >= hi \/ C # 0) /\ C \in 0 .. Len(lChannels)
      /\ DOMAIN lChannels = 1 .. Len(lChannels)
      /\ lTitles \in Seq(Title)
  BY DEF TakeChannel, SearchOK, tables
<1>2. C # 0 => SameChannel(lTitles[i], lChannels[C])
  BY <1>1 DEF SearchOK
<1>3. CASE C # 0 /\ InPeriod(lTitles[i]) /\ HasIdentifier(C)
  <2>1. pc' = "summary" /\ i' = i
    BY <1>3 DEF TakeChannel
  <2>2. C \in DOMAIN lChannels
    BY <1>1, <1>3
  <2>3. \A t \in DOMAIN lTitles : t < i => TitleDone(t)'
    BY <1>1, DoneStays DEF JoinInv
  <2> QED BY <1>1, <1>2, <1>3, <2>1, <2>2, <2>3 DEF JoinInv, HasIdentifier, InPeriod
<1>4. CASE ~(C # 0 /\ InPeriod(lTitles[i]) /\ HasIdentifier(C))
  <2>1. pc' = "title" /\ i' = i + 1
    BY <1>4 DEF TakeChannel
  <2>2. TitleDone(i)
    <3>1. CASE C = 0
      <4>1. ~OwnChannel(lTitles[i])
        BY <1>1, <3>1 DEF SearchOK, Searched, OwnChannel
      <4>2. \A n \in DOMAIN programmes : programmes[n].title # i
        BY <1>1 DEF JoinInv
      <4> QED BY <4>1, <4>2 DEF TitleDone
    <3>2. CASE C # 0
      <4>1. C \in DOMAIN lChannels /\ SameChannel(lTitles[i], lChannels[C])
        BY <1>1, <1>2, <3>2
      <4>2. ~InPeriod(lTitles[i]) \/ ~OwnKnown(lTitles[i])
        BY <1>4, <3>2, <4>1 DEF OwnKnown
      <4>3. \A n \in DOMAIN programmes : programmes[n].title # i
        BY <1>1 DEF JoinInv
      <4> QED BY <4>2, <4>3 DEF TitleDone
    <3> QED BY <3>1, <3>2
  <2>3. \A t \in DOMAIN lTitles : t < i + 1 => TitleDone(t)'
    <3>1. \A t \in DOMAIN lTitles : t < i + 1 => t < i \/ t = i
      BY <1>1
    <3> QED BY <1>1, <2>2, <3>1, DoneStays DEF JoinInv
  <2>4. \A n \in DOMAIN programmes : programmes[n].title \in Nat /\ programmes[n].title < i + 1
    BY <1>1 DEF JoinInv
  <2> QED BY <1>1, <2>1, <2>3, <2>4 DEF JoinInv, HasIdentifier
<1> QED BY <1>3, <1>4

(* The loop writes one programme for the title, with a description if      *)
(* the search for a summary found one; then the title is done.             *)
LEMMA JoinWrite == SearchOK /\ JoinInv /\ WriteProgramme => JoinInv'
<1> SUFFICES ASSUME SearchOK, JoinInv, WriteProgramme PROVE JoinInv'
  OBVIOUS
<1> DEFINE new == [title |-> i, channel |-> lChannels[C].Sid, summary |-> S]
           n0 == Len(programmes)
<1>1. /\ UNCHANGED <<lChannels, lTitles, lSummaries, dictionary, C, S, channels>>
      /\ pc = "summary" /\ pc' = "title" /\ i \in Nat /\ i' = i + 1 /\ lo \in Nat /\ hi \in Nat
      /\ (lo >= hi \/ S # 0) /\ S \in 0 .. Len(lSummaries)
      /\ DOMAIN lSummaries = 1 .. Len(lSummaries)
      /\ lTitles \in Seq(Title)
      /\ programmes' = Append(programmes, new)
  BY DEF WriteProgramme, SearchOK, tables
<1>2. /\ DOMAIN programmes = 1 .. n0 /\ n0 \in Nat
      /\ DOMAIN programmes' = 1 .. n0 + 1 /\ Len(programmes') = n0 + 1
      /\ \A n \in 1 .. n0 : programmes'[n] = programmes[n]
      /\ programmes'[n0 + 1] = new
  BY <1>1 DEF JoinInv
<1>3. /\ \A n \in DOMAIN programmes : programmes[n].title \in Nat /\ programmes[n].title < i
      /\ C \in DOMAIN lChannels /\ SameChannel(lTitles[i], lChannels[C])
      /\ InPeriod(lTitles[i]) /\ HasIdentifier(C)
  BY <1>1 DEF JoinInv
<1>4. new.title = i /\ new.channel = lChannels[C].Sid /\ new.summary = S
  OBVIOUS
<1>5. S # 0 <=> Described(lTitles[i])
  <2>1. CASE S # 0
    <3>1. S \in DOMAIN lSummaries /\ SameEvent(lTitles[i], lSummaries[S])
      BY <1>1, <2>1 DEF SearchOK
    <3> QED BY <2>1, <3>1 DEF Described
  <2>2. CASE S = 0
    BY <1>1, <2>2 DEF SearchOK, Searched, Described
  <2> QED BY <2>1, <2>2
<1> HIDE DEF new, n0
<1>6. ASSUME NEW t \in DOMAIN lTitles, t < i + 1
      PROVE  TitleDone(t)'
  <2>1. t \in Nat /\ (t < i \/ t = i)
    BY <1>1, <1>6
  <2>2. CASE t = i
    <3>1. OwnChannel(lTitles[i])
      BY <1>3 DEF OwnChannel
    <3>2. n0 + 1 \in DOMAIN programmes' /\ programmes'[n0 + 1].title = i
      BY <1>2, <1>4
    <3>3. ASSUME NEW n \in DOMAIN programmes', programmes'[n].title = i
          PROVE  n = n0 + 1
      BY <1>2, <1>3, <3>3
    <3>4. \A n \in DOMAIN programmes' : programmes'[n].title = i =>
              (programmes'[n].summary # 0 <=> Described(lTitles[i]))
      BY <1>2, <1>4, <1>5, <3>3
    <3> QED BY <1>1, <1>3, <2>2, <3>1, <3>2, <3>4
            DEF TitleDone, OwnChannel, OwnKnown, Described, InPeriod, HasIdentifier
  <2>3. CASE t < i
    <3>1. TitleDone(t)
      BY <2>3 DEF JoinInv
    <3>2. \A n \in DOMAIN programmes' : programmes'[n].title = t =>
              n \in DOMAIN programmes /\ programmes'[n] = programmes[n]
      BY <1>1, <1>2, <1>4, <2>1, <2>3
    <3>3. \A n \in DOMAIN programmes : n \in DOMAIN programmes' /\ programmes'[n] = programmes[n]
      BY <1>2
    <3> QED BY <1>1, <3>1, <3>2, <3>3
            DEF TitleDone, OwnChannel, OwnKnown, Described, InPeriod, HasIdentifier
  <2> QED BY <2>1, <2>2, <2>3
<1>7. \A n \in DOMAIN programmes' : programmes'[n].title \in Nat /\ programmes'[n].title < i + 1
  BY <1>1, <1>2, <1>3, <1>4
<1>8. ASSUME NEW m \in DOMAIN programmes', NEW n \in DOMAIN programmes', m < n
      PROVE  programmes'[m].title < programmes'[n].title
  <2>1. CASE n = n0 + 1
    BY <1>2, <1>3, <1>4, <1>8, <2>1
  <2>2. CASE n # n0 + 1
    BY <1>2, <1>8, <2>2 DEF JoinInv
  <2> QED BY <2>1, <2>2
<1>9. ASSUME NEW n \in DOMAIN programmes'
      PROVE  \E c \in DOMAIN lChannels : HasIdentifier(c) /\ lChannels[c].Sid = programmes'[n].channel
  <2>1. CASE n = n0 + 1
    BY <1>2, <1>3, <1>4, <2>1
  <2>2. CASE n # n0 + 1
    <3>1. n \in DOMAIN programmes /\ programmes'[n] = programmes[n]
      BY <1>2, <2>2
    <3> QED BY <3>1 DEF JoinInv
  <2> QED BY <2>1, <2>2
<1> QED BY <1>1, <1>2, <1>6, <1>7, <1>8, <1>9 DEF JoinInv, HasIdentifier

(* The loop over the channels announces each that is to be announced.      *)
LEMMA ListedRuns ==
    ASSUME NEW table, Len(table) \in Nat
    PROVE  \E g : /\ g[0] = <<>>
                  /\ \A k \in 1 .. Len(table) :
                       g[k] = IF Announced(table[k]) THEN Append(g[k - 1], table[k].Sid) ELSE g[k - 1]
                  /\ Listed(table) = g[Len(table)]
<1> DEFINE n == Len(table)
           Step(t, a) == IF Announced(table[a]) THEN Append(t, table[a].Sid) ELSE t
           Body(g, k) == [a \in 0 .. k |-> IF a = 0 THEN <<>> ELSE Step(g[a - 1], a)]
           T == {k \in 0 .. n : \E g : g = Body(g, k)}
<1>1. n \in Nat
  OBVIOUS
<1>2. Listed(table) = (CHOOSE g : g = Body(g, n))[n]
  BY DEF Listed
<1> HIDE DEF n, Step
<1>3. 0 \in T
  <2> DEFINE h == [a \in 0 .. 0 |-> <<>>]
  <2>1. h = Body(h, 0)
    OBVIOUS
  <2> HIDE DEF h, Body
  <2> QED BY <1>1, <2>1
<1>4. ASSUME NEW k \in 0 .. n - 1, k \in T
      PROVE  k + 1 \in T
  <2>1. PICK g : g = Body(g, k)
    BY <1>4
  <2> DEFINE h == [a \in 0 .. k + 1 |-> IF a <= k THEN g[a] ELSE Step(g[k], k + 1)]
  <2>2. h = Body(h, k + 1)
    <3>1. \A a \in 0 .. k : g[a] = IF a = 0 THEN <<>> ELSE Step(g[a - 1], a)
      BY <2>1
    <3>2. \A a \in 0 .. k : h[a] = g[a]
      BY <1>1
    <3> SUFFICES ASSUME NEW a \in 0 .. k + 1
                 PROVE  h[a] = IF a = 0 THEN <<>> ELSE Step(h[a - 1], a)
      OBVIOUS
    <3>3. CASE a <= k
      BY <1>1, <3>1, <3>2, <3>3
    <3>4. CASE a = k + 1
      BY <1>1, <3>2, <3>4
    <3> QED BY <1>1, <3>3, <3>4
  <2> HIDE DEF h, Body
  <2> QED BY <1>1, <2>2
<1>5. PICK g : g = Body(g, n)
  <2> HIDE DEF T
  <2>1. \A k \in 0 .. n : k \in T
    BY <1>1, <1>3, <1>4, UpTo
  <2>2. n \in T
    BY <1>1, <2>1
  <2> QED BY <2>2 DEF T
<1> DEFINE listed == CHOOSE h : h = Body(h, n)
<1>6. listed = Body(listed, n)
  <2> HIDE DEF Body
  <2> QED BY <1>5
<1> HIDE DEF listed
<1>7. listed[0] = <<>> /\ \A k \in 1 .. n : listed[k] = Step(listed[k - 1], k)
  BY <1>1, <1>6
<1> QED BY <1>2, <1>7 DEF n, listed, Step

(* The channels listed by CreateXmlChannels are those that are             *)
(* announced: nobody is left out, and nobody else is in.                   *)
LEMMA ListedIsComplete ==
    ASSUME NEW table \in Seq(Channel), NEW c \in DOMAIN table, Announced(table[c])
    PROVE  \E m \in DOMAIN Listed(table) : Listed(table)[m] = table[c].Sid
<1> DEFINE n == Len(table)
<1>1. n \in Nat /\ DOMAIN table = 1 .. n
  OBVIOUS
<1>2. PICK g : /\ g[0] = <<>>
               /\ \A k \in 1 .. n :
                    g[k] = IF Announced(table[k]) THEN Append(g[k - 1], table[k].Sid) ELSE g[k - 1]
               /\ Listed(table) = g[n]
  BY <1>1, ListedRuns
<1>3. \A k \in 1 .. n : table[k].Sid \in Nat
  <2>1. \A k \in 1 .. n : table[k] \in Channel
    BY <1>1
  <2> QED BY <2>1 DEF Channel
<1> HIDE DEF n
<1> DEFINE Has(k, b) == \E m \in DOMAIN g[k] : g[k][m] = table[b].Sid
           T == {k \in 0 .. n : /\ g[k] \in Seq(Nat)
                                /\ \A b \in 1 .. k : Announced(table[b]) => Has(k, b)}
<1>4. 0 \in T
  <2>1. <<>> \in Seq(Nat) /\ 0 \in 0 .. n /\ 1 .. 0 = {}
    BY <1>1
  <2>2. g[0] = <<>>
    BY <1>2, Zenon
  <2> QED BY <2>1, <2>2
<1>5. ASSUME NEW k \in 0 .. n - 1, k \in T
      PROVE  k + 1 \in T
  <2>1. k + 1 \in 1 .. n /\ (k + 1) - 1 = k
    BY <1>1
  <2>2. g[k] \in Seq(Nat) /\ \A b \in 1 .. k : Announced(table[b]) => Has(k, b)
    BY <1>5
  <2>3. g[k + 1] = IF Announced(table[k + 1]) THEN Append(g[k], table[k + 1].Sid) ELSE g[k]
    BY <1>2, <2>1
  <2>4. g[k + 1] \in Seq(Nat)
    BY <1>3, <2>1, <2>2, <2>3
  <2>5. ASSUME NEW b \in 1 .. k + 1, Announced(table[b])
        PROVE  Has(k + 1, b)
    <3>1. CASE Announced(table[k + 1])
      <4> DEFINE l == Len(g[k])
      <4>1. /\ DOMAIN g[k] = 1 .. l /\ l \in Nat
            /\ DOMAIN g[k + 1] = 1 .. l + 1 /\ g[k + 1][l + 1] = table[k + 1].Sid
            /\ \A m \in 1 .. l : g[k + 1][m] = g[k][m]
        BY <1>3, <2>1, <2>2, <2>3, <3>1
      <4> HIDE DEF l
      <4>2. CASE b = k + 1
        BY <4>1, <4>2
      <4>3. CASE b # k + 1
        <5>1. b \in 1 .. k
          BY <2>1, <4>3
        <5>2. PICK m \in DOMAIN g[k] : g[k][m] = table[b].Sid
          BY <2>2, <2>5, <5>1
        <5> QED BY <4>1, <5>2
      <4> QED BY <4>2, <4>3
    <3>2. CASE ~Announced(table[k + 1])
      <4>1. b \in 1 .. k
        BY <2>1, <2>5, <3>2
      <4> QED BY <2>2, <2>3, <2>5, <3>2, <4>1
    <3> QED BY <3>1, <3>2
  <2> QED BY <2>1, <2>4, <2>5
<1>6. n \in T
  <2> HIDE DEF T
  <2>1. \A k \in 0 .. n : k \in T
    BY <1>1, <1>4, <1>5, UpTo
  <2> QED BY <1>1, <2>1
<1> QED BY <1>1, <1>2, <1>6

(* CreateXmlChannels sorts the channels once more and announces them;      *)
(* the programmes are not touched, and each has the channel it names.      *)
LEMMA JoinChannels == SearchOK /\ JoinInv /\ CreateXmlChannels => JoinInv'
<1> SUFFICES ASSUME SearchOK, JoinInv, CreateXmlChannels PROVE JoinInv'
  OBVIOUS
<1>1. /\ UNCHANGED <<lTitles, lSummaries, dictionary, i, programmes>>
      /\ pc = "channels" /\ pc' = "done" /\ channels' = Listed(lChannels')
  BY DEF CreateXmlChannels
<1>2. lChannels' \in Seq(Channel) /\ lChannels' \in Reorderings(lChannels) /\ lChannels \in Seq(Channel)
  BY ReorderingType DEF CreateXmlChannels, Sortings, SearchOK
<1>3. /\ \A b \in DOMAIN lChannels' : \E a \in DOMAIN lChannels : lChannels'[b] = lChannels[a]
      /\ \A a \in DOMAIN lChannels : \E b \in DOMAIN lChannels' : lChannels'[b] = lChannels[a]
  BY <1>2, ReorderingIsOnto
<1>4. ASSUME NEW t \in DOMAIN lTitles
      PROVE  TitleDone(t)'
  <2>1. TitleDone(t)
    BY <1>1 DEF JoinInv
  <2>2. OwnChannel(lTitles[t])' <=> OwnChannel(lTitles[t])
    BY <1>1, <1>3 DEF OwnChannel, SameChannel
  <2>3. OwnKnown(lTitles[t])' => OwnKnown(lTitles[t])
    BY <1>1, <1>3 DEF OwnKnown, SameChannel, HasIdentifier
  <2> QED BY <1>1, <2>1, <2>2, <2>3 DEF TitleDone, Described, InPeriod
<1>5. ASSUME NEW n \in DOMAIN programmes
      PROVE  \E c \in DOMAIN lChannels' : HasIdentifier(c)' /\ lChannels'[c].Sid = programmes[n].channel
  <2>1. PICK a \in DOMAIN lChannels : HasIdentifier(a) /\ lChannels[a].Sid = programmes[n].channel
    BY DEF JoinInv
  <2>2. PICK c \in DOMAIN lChannels' : lChannels'[c] = lChannels[a]
    BY <1>3
  <2> QED BY <2>1, <2>2 DEF HasIdentifier
<1>6. ASSUME NEW c \in DOMAIN lChannels', Announced(lChannels'[c])
      PROVE  \E m \in DOMAIN channels' : channels'[m] = lChannels'[c].Sid
  BY <1>1, <1>2, <1>6, ListedIsComplete
<1> QED BY <1>1, <1>4, <1>5, <1>6 DEF JoinInv, HasIdentifier, Announced

(* Every step of the join keeps what is known of the titles done.          *)
LEMMA JoinStep == SearchOK /\ JoinInv /\ [Next]_vars => JoinInv'
<1> SUFFICES ASSUME SearchOK, JoinInv, [Next]_vars PROVE JoinInv'
  OBVIOUS
<1>1. CASE NextTitle
  <2>1. /\ UNCHANGED <<lChannels, lTitles, lSummaries, dictionary, i, programmes, channels>>
        /\ pc = "title" /\ i \in Nat /\ lTitles \in Seq(Title)
    BY <1>1 DEF NextTitle, tables, SearchOK
  <2>2. pc' = "channel" \/ (pc' = "channels" /\ ~(i <= Len(lTitles)))
    BY <1>1 DEF NextTitle, MoreTitles
  <2>3. ASSUME NEW t \in DOMAIN lTitles, t < i \/ pc' \in {"channels", "done"}
        PROVE  TitleDone(t)'
    <3>1. t < i
      BY <2>1, <2>2, <2>3
    <3>2. TitleDone(t)
      BY <3>1 DEF JoinInv
    <3> QED BY <2>1, <3>2, DoneStays
  <2> QED BY <2>1, <2>2, <2>3 DEF JoinInv, HasIdentifier
<1>2. CASE ProbeChannel \/ ProbeSummary
  <2>1. /\ UNCHANGED <<lChannels, lTitles, lSummaries, dictionary, i, programmes, channels, pc>>
        /\ (pc = "summary" => C' = C) /\ pc \in {"channel", "summary"}
    BY <1>2 DEF ProbeChannel, ProbeSummary, tables
  <2>2. \A t \in DOMAIN lTitles : t < i => TitleDone(t)'
    BY <2>1, DoneStays DEF JoinInv
  <2> QED BY <2>1, <2>2 DEF JoinInv, HasIdentifier, InPeriod
<1>3. CASE UNCHANGED vars
  <2>1. UNCHANGED <<lChannels, lTitles, lSummaries, dictionary, i, programmes, channels, pc, C>>
    BY <1>3 DEF vars, tables
  <2>2. \A t \in DOMAIN lTitles : t < i \/ pc \in {"channels", "done"} => TitleDone(t)'
    BY <2>1, DoneStays DEF JoinInv
  <2> QED BY <2>1, <2>2 DEF JoinInv, HasIdentifier, InPeriod
<1> QED BY <1>1, <1>2, <1>3, JoinSort, JoinTake, JoinWrite, JoinChannels DEF Next

(* So it is always known.                                                  *)
LEMMA JoinAlways == Spec => [](SearchOK /\ JoinInv)
<1>1. Init => SearchOK /\ JoinInv
  BY SearchInit, JoinInit
<1>2. (SearchOK /\ JoinInv) /\ [Next]_vars => (SearchOK /\ JoinInv)'
  BY SearchStep, JoinStep
<1> QED BY <1>1, <1>2, PTL DEF Spec

(* When CreateEpgXml is done, each title was written as one programme at   *)
(* most: as one if it lies in the period asked for and its channel has     *)
(* an identifier, and as none if it lies outside or nobody announced its   *)
(* channel; and it has a description exactly if a summary of its event     *)
(* was collected, whatever the order in which titles, summaries and        *)
(* channels were collected and whatever the sorts made of entries that     *)
(* compare as equal.                                                       *)
THEOREM TitlesAreWrittenOnce == Spec => []EachTitleOnce
<1>1. SearchOK /\ JoinInv => EachTitleOnce
  <2> SUFFICES ASSUME SearchOK, JoinInv, pc \in {"channels", "done"}
               PROVE  EachTitleOnce
    BY DEF EachTitleOnce
  <2>1. \A t \in DOMAIN lTitles : TitleDone(t)
    BY DEF JoinInv
  <2>2. \A m, n \in DOMAIN programmes : m < n => programmes[m].title < programmes[n].title
    BY DEF JoinInv
  <2>3. ASSUME NEW t \in DOMAIN lTitles
        PROVE  LET T == lTitles[t]
                   own == {c \in DOMAIN lChannels : SameChannel(T, lChannels[c])}
                   written == {n \in DOMAIN programmes : programmes[n].title = t}
                   sure == /\ dictionary /\ lSummaries # <<>> /\ InPeriod(T)
                           /\ own # {} /\ \A c \in own : HasIdentifier(c)
               IN  /\ sure => written # {}
                   /\ (own = {} \/ ~InPeriod(T)) => written = {}
                   /\ \A n \in written :
                         (programmes[n].summary # 0)
                           <=> (\E s \in DOMAIN lSummaries : SameEvent(T, lSummaries[s]))
    BY <2>1 DEF TitleDone, OwnChannel, OwnKnown, Described
  <2> QED BY <2>2, <2>3 DEF EachTitleOnce
<1> QED BY <1>1, JoinAlways, PTL

(* When CreateXmlChannels is done, each programme of the document names    *)
(* a channel that the document announces, although the channels are        *)
(* sorted differently by then.                                             *)
THEOREM ProgrammesHaveChannels == Spec => []ChannelsAnnounced
<1>1. SearchOK /\ JoinInv => ChannelsAnnounced
  <2> SUFFICES ASSUME SearchOK, JoinInv, pc = "done", NEW n \in DOMAIN programmes,
                      \A c \in DOMAIN lChannels :
                          lChannels[c].Nid > 0 /\ lChannels[c].Tid > 0 /\ lChannels[c].Sid > 0
               PROVE  \E m \in DOMAIN channels : channels[m] = programmes[n].channel
    BY DEF ChannelsAnnounced
  <2>1. PICK c \in DOMAIN lChannels : HasIdentifier(c) /\ lChannels[c].Sid = programmes[n].channel
    BY DEF JoinInv
  <2>2. Announced(lChannels[c])
    BY <2>1 DEF Announced, HasIdentifier
  <2> QED BY <2>1, <2>2 DEF JoinInv
<1> QED BY <1>1, JoinAlways, PTL

-----------------------------------------------------------------------------
(* The loop over the characters of a code is a sequence of paths.          *)
LEMMA PathRuns ==
    ASSUME NEW code, Len(code) \in Nat
    PROVE  \E g : /\ g[0] = <<>>
                  /\ \A k \in 1 .. Len(code) :
                       g[k] = IF code[k] \in Bit THEN Append(g[k - 1], code[k]) ELSE g[k - 1]
                  /\ Path(code) = g[Len(code)]
<1> DEFINE n == Len(code)
           Step(t, a) == IF code[a] \in Bit THEN Append(t, code[a]) ELSE t
           Body(g, k) == [a \in 0 .. k |-> IF a = 0 THEN <<>> ELSE Step(g[a - 1], a)]
           T == {k \in 0 .. n : \E g : g = Body(g, k)}
<1>1. n \in Nat
  OBVIOUS
<1>2. Path(code) = (CHOOSE g : g = Body(g, n))[n]
  BY DEF Path
<1> HIDE DEF n, Step
<1>3. 0 \in T
  <2> DEFINE h == [a \in 0 .. 0 |-> <<>>]
  <2>1. h = Body(h, 0)
    OBVIOUS
  <2> HIDE DEF h, Body
  <2> QED BY <1>1, <2>1
<1>4. ASSUME NEW k \in 0 .. n - 1, k \in T
      PROVE  k + 1 \in T
  <2>1. PICK g : g = Body(g, k)
    BY <1>4
  <2> DEFINE h == [a \in 0 .. k + 1 |-> IF a <= k THEN g[a] ELSE Step(g[k], k + 1)]
  <2>2. h = Body(h, k + 1)
    <3>1. \A a \in 0 .. k : g[a] = IF a = 0 THEN <<>> ELSE Step(g[a - 1], a)
      BY <2>1
    <3>2. \A a \in 0 .. k : h[a] = g[a]
      BY <1>1
    <3> SUFFICES ASSUME NEW a \in 0 .. k + 1
                 PROVE  h[a] = IF a = 0 THEN <<>> ELSE Step(h[a - 1], a)
      OBVIOUS
    <3>3. CASE a <= k
      BY <1>1, <3>1, <3>2, <3>3
    <3>4. CASE a = k + 1
      BY <1>1, <3>2, <3>4
    <3> QED BY <1>1, <3>3, <3>4
  <2> HIDE DEF h, Body
  <2> QED BY <1>1, <2>2
<1>5. PICK g : g = Body(g, n)
  <2> HIDE DEF T
  <2>1. \A k \in 0 .. n : k \in T
    BY <1>1, <1>3, <1>4, UpTo
  <2>2. n \in T
    BY <1>1, <2>1
  <2> QED BY <2>2 DEF T
<1> DEFINE G == CHOOSE f : f = Body(f, n)
<1>6. G = Body(G, n)
  <2> HIDE DEF Body
  <2> QED BY <1>5
<1> HIDE DEF G
<1>7. \A a \in 0 .. n : G[a] = IF a = 0 THEN <<>> ELSE Step(G[a - 1], a)
  BY <1>1, <1>6
<1>8. /\ G[0] = <<>> /\ \A a \in 1 .. n : G[a] = Step(G[a - 1], a)
      /\ Path(code) = G[n]
  BY <1>1, <1>2, <1>7 DEF G
<1> QED BY <1>8 DEF n, Step

(* A path is made of bits, and if the code ends with a bit the path ends   *)
(* with it.                                                                *)
LEMMA PathOfCode ==
    ASSUME NEW code \in Seq(Bit \cup {Other})
    PROVE  /\ Path(code) \in Seq(Bit)
           /\ code # <<>> /\ code[Len(code)] \in Bit =>
                /\ Path(code) # <<>>
                /\ Path(code)[Len(Path(code))] = code[Len(code)]
<1> DEFINE n == Len(code)
<1>1. n \in Nat
  OBVIOUS
<1>2. PICK g : /\ g[0] = <<>>
               /\ \A k \in 1 .. n :
                    g[k] = IF code[k] \in Bit THEN Append(g[k - 1], code[k]) ELSE g[k - 1]
               /\ Path(code) = g[n]
  BY <1>1, PathRuns
<1> DEFINE T == {k \in 0 .. n : g[k] \in Seq(Bit)}
<1>3. 0 \in T
  <2>1. <<>> \in Seq(Bit)
    OBVIOUS
  <2>2. g[0] \in Seq(Bit)
    BY <1>2, <2>1
  <2>3. 0 \in 0 .. n
    BY <1>1
  <2> QED BY <2>2, <2>3
<1>4. ASSUME NEW k \in 0 .. n - 1, k \in T PROVE k + 1 \in T
  <2>1. k + 1 \in 1 .. n /\ (k + 1) - 1 = k /\ g[k] \in Seq(Bit)
    BY <1>1, <1>4
  <2>2. g[k + 1] = IF code[k + 1] \in Bit THEN Append(g[k], code[k + 1]) ELSE g[k]
    BY <1>2, <2>1
  <2>3. \A b \in Bit : Append(g[k], b) \in Seq(Bit)
    BY <2>1
  <2>4. g[k + 1] \in Seq(Bit)
    BY <2>1, <2>2, <2>3
  <2> QED BY <1>1, <2>1, <2>4
<1>5. \A k \in 0 .. n : g[k] \in Seq(Bit)
  <2> HIDE DEF T
  <2>1. \A k \in 0 .. n : k \in T
    BY <1>1, <1>3, <1>4, UpTo
  <2> QED BY <2>1 DEF T
<1>6. ASSUME code # <<>>, code[n] \in Bit
      PROVE  Path(code) # <<>> /\ Path(code)[Len(Path(code))] = code[n]
  <2>1. n \in 1 .. n /\ n - 1 \in 0 .. n
    BY <1>1, <1>6
  <2>2. Path(code) = Append(g[n - 1], code[n]) /\ g[n - 1] \in Seq(Bit)
    BY <1>2, <1>5, <1>6, <2>1
  <2> QED BY <1>6, <2>2
<1> QED BY <1>1, <1>2, <1>5, <1>6

(* Joining sequences is done one after the other.                          *)
LEMMA FlattenRuns ==
    ASSUME NEW ss, Len(ss) \in Nat \ {0}
    PROVE  \E g : /\ g[1] = ss[1]
                  /\ \A k \in 2 .. Len(ss) : g[k] = g[k - 1] \o ss[k]
                  /\ FlattenSeq(ss) = g[Len(ss)]
<1> DEFINE n == Len(ss)
           Step(t, a) == t \o ss[a]
           Body(g, k) == [a \in 1 .. k |-> IF a = 1 THEN ss[a] ELSE Step(g[a - 1], a)]
           T == {k \in 0 .. n : \E g : g = Body(g, k)}
<1>1. n \in Nat \ {0}
  OBVIOUS
<1>2. FlattenSeq(ss) = (CHOOSE g : g = Body(g, n))[n]
  BY DEF FlattenSeq
<1> HIDE DEF n, Step
<1>3. 0 \in T
  <2> DEFINE h == [a \in 1 .. 0 |-> <<>>]
  <2>1. h = Body(h, 0)
    OBVIOUS
  <2> HIDE DEF h, Body
  <2> QED BY <1>1, <2>1
<1>4. ASSUME NEW k \in 0 .. n - 1, k \in T
      PROVE  k + 1 \in T
  <2>1. PICK g : g = Body(g, k)
    BY <1>4
  <2> DEFINE h == [a \in 1 .. k + 1 |-> IF a <= k THEN g[a] ELSE IF a = 1 THEN ss[a] ELSE Step(g[k], k + 1)]
  <2>2. h = Body(h, k + 1)
    <3>1. \A a \in 1 .. k : g[a] = IF a = 1 THEN ss[a] ELSE Step(g[a - 1], a)
      BY <2>1
    <3>2. \A a \in 1 .. k : h[a] = g[a]
      BY <1>1
    <3> SUFFICES ASSUME NEW a \in 1 .. k + 1
                 PROVE  h[a] = IF a = 1 THEN ss[a] ELSE Step(h[a - 1], a)
      OBVIOUS
    <3>3. CASE a <= k
      BY <1>1, <3>1, <3>2, <3>3
    <3>4. CASE a = k + 1
      BY <1>1, <3>2, <3>4
    <3> QED BY <1>1, <3>3, <3>4
  <2> HIDE DEF h, Body
  <2> QED BY <1>1, <2>2
<1>5. PICK g : g = Body(g, n)
  <2> HIDE DEF T
  <2>1. \A k \in 0 .. n : k \in T
    BY <1>1, <1>3, <1>4, UpTo
  <2>2. n \in T
    BY <1>1, <2>1
  <2> QED BY <2>2 DEF T
<1> DEFINE G == CHOOSE f : f = Body(f, n)
<1>6. G = Body(G, n)
  <2> HIDE DEF Body
  <2> QED BY <1>5
<1> HIDE DEF G
<1>7. \A a \in 1 .. n : G[a] = IF a = 1 THEN ss[a] ELSE Step(G[a - 1], a)
  BY <1>1, <1>6
<1>8. /\ G[1] = ss[1] /\ \A a \in 2 .. n : G[a] = Step(G[a - 1], a)
      /\ FlattenSeq(ss) = G[n]
  BY <1>1, <1>2, <1>7 DEF G
<1> QED BY <1>8 DEF n, Step

(* A sequence more is joined at the end.                                   *)
LEMMA FlattenAppend ==
    ASSUME NEW R, NEW ss \in Seq(Seq(R)), NEW s \in Seq(R)
    PROVE  /\ FlattenSeq(ss) \in Seq(R)
           /\ FlattenSeq(Append(ss, s)) = FlattenSeq(ss) \o s
<1> DEFINE n == Len(ss)
           tt == Append(ss, s)
<1>1. n \in Nat /\ Len(tt) = n + 1 /\ \A k \in 1 .. n : tt[k] = ss[k] /\ ss[k] \in Seq(R)
  OBVIOUS
<1>2. tt[n + 1] = s
  OBVIOUS
<1> HIDE DEF tt
<1>3. PICK h : /\ h[1] = tt[1]
               /\ \A k \in 2 .. n + 1 : h[k] = h[k - 1] \o tt[k]
               /\ FlattenSeq(tt) = h[n + 1]
  <2>1. Len(tt) \in Nat \ {0}
    BY <1>1
  <2>2. \E h : /\ h[1] = tt[1]
               /\ \A k \in 2 .. Len(tt) : h[k] = h[k - 1] \o tt[k]
               /\ FlattenSeq(tt) = h[Len(tt)]
    BY <2>1, FlattenRuns
  <2> QED BY <1>1, <2>2
<1>4. CASE n = 0
  <2>1. ss = <<>>
    BY <1>4
  <2>2. FlattenSeq(<<>>) = <<>>
    BY DEF FlattenSeq
  <2>3. FlattenSeq(tt) = s
    BY <1>2, <1>3, <1>4
  <2>4. <<>> \in Seq(R) /\ <<>> \o s = s
    OBVIOUS
  <2> QED BY <2>1, <2>2, <2>3, <2>4 DEF tt
<1>5. CASE n # 0
  <2>1. PICK g : /\ g[1] = ss[1]
                 /\ \A k \in 2 .. n : g[k] = g[k - 1] \o ss[k]
                 /\ FlattenSeq(ss) = g[n]
    BY <1>1, <1>5, FlattenRuns
  <2> DEFINE T == {k \in 0 .. n : k = 0 \/ (g[k] = h[k] /\ g[k] \in Seq(R))}
  <2>2. 0 \in T
    BY <1>1
  <2>3. ASSUME NEW k \in 0 .. n - 1, k \in T PROVE k + 1 \in T
    <3>1. CASE k = 0
      BY <1>1, <1>3, <1>5, <2>1, <3>1
    <3>2. CASE k # 0
      <4>1. g[k] = h[k] /\ g[k] \in Seq(R) /\ k + 1 \in 2 .. n /\ (k + 1) - 1 = k /\ k + 1 \in 2 .. n + 1
        <5>1. g[k] = h[k] /\ g[k] \in Seq(R)
          BY <2>3, <3>2
        <5>2. k + 1 \in 2 .. n /\ (k + 1) - 1 = k /\ k + 1 \in 2 .. n + 1
          <6> HIDE DEF T
          <6> QED BY <1>1, <3>2
        <5> QED BY <5>1, <5>2
      <4>2. /\ g[k + 1] = g[k] \o ss[k + 1] /\ h[k + 1] = h[k] \o tt[k + 1]
            /\ tt[k + 1] = ss[k + 1] /\ ss[k + 1] \in Seq(R)
        <5>1. g[k + 1] = g[(k + 1) - 1] \o ss[k + 1]
          BY <2>1, <4>1
        <5>2. h[k + 1] = h[(k + 1) - 1] \o tt[k + 1]
          BY <1>3, <4>1
        <5>3. k + 1 \in 1 .. n
          BY <1>1, <4>1
        <5> QED BY <1>1, <4>1, <5>1, <5>2, <5>3
      <4>3. g[k + 1] \in Seq(R) /\ g[k + 1] = h[k + 1]
        BY <4>1, <4>2
      <4> QED BY <1>1, <4>1, <4>3
    <3> QED BY <3>1, <3>2
  <2>4. \A k \in 0 .. n : k \in T
    <3> HIDE DEF T
    <3> QED BY <1>1, <2>2, <2>3, UpTo
  <2>5. g[n] = h[n] /\ g[n] \in Seq(R)
    BY <1>1, <1>5, <2>4
  <2>6. h[n + 1] = h[n] \o tt[n + 1]
    <3>1. n + 1 \in 2 .. n + 1 /\ (n + 1) - 1 = n
      BY <1>1, <1>5
    <3>2. h[n + 1] = h[(n + 1) - 1] \o tt[n + 1]
      BY <1>3, <3>1
    <3> QED BY <3>1, <3>2
  <2> QED BY <1>2, <1>3, <2>1, <2>5, <2>6 DEF tt
<1> QED BY <1>4, <1>5

(* A prefix, read element by element.                                      *)
LEMMA PrefixTells ==
    ASSUME NEW R, NEW s \in Seq(R), NEW t \in Seq(R)
    PROVE  IsPrefix(s, t) <=> Len(s) <= Len(t) /\ \A k \in 1 .. Len(s) : s[k] = t[k]
<1>1. Len(s) \in Nat /\ Len(t) \in Nat
  OBVIOUS
<1>2. SubSeq(s, 1, Len(s)) = s
  OBVIOUS
<1>3. ASSUME Len(s) <= Len(t)
      PROVE  /\ SubSeq(t, 1, Len(s)) \in Seq(R) /\ Len(SubSeq(t, 1, Len(s))) = Len(s)
             /\ \A k \in 1 .. Len(s) : SubSeq(t, 1, Len(s))[k] = t[k]
  BY <1>1, <1>3
<1> DEFINE u == SubSeq(t, 1, Len(s))
<1> HIDE DEF u
<1>4. Len(s) <= Len(t) => (s = u <=> \A k \in 1 .. Len(s) : s[k] = t[k])
  BY <1>1, <1>3 DEF u
<1> QED BY <1>2, <1>4 DEF IsPrefix, u

-----------------------------------------------------------------------------
(* What was read of the dictionary: the nodes are the beginnings of the    *)
(* codes, and the words are those of the lines that give their node one.   *)
DictionaryRead ==
    /\ lines \in Seq(DictionaryLines)
    /\ nodes = {<<>>} \cup UNION {Prefixes(Path(lines[m].code)) : m \in DOMAIN lines}
    /\ \A w \in DOMAIN Value : \E m \in DOMAIN lines :
         GivesWord(m) /\ w = Path(lines[m].code) /\ Value[w] = lines[m].word
    /\ \A m \in DOMAIN lines : GivesWord(m) => Path(lines[m].code) \in DOMAIN Value

Start(ns) == FirstBit(data) + Len(Codes(ns))

(* The bits of the text after the first "from" begin with s.               *)
Follows(from, s) ==
    /\ from + Len(s) <= Len(data)
    /\ \A k \in 1 .. Len(s) : s[k] = data[from + k]

(* The lines whose codes were found; what follows is the way to the node,  *)
(* or a code that does not exist.                                          *)
DecodedTo(ns) ==
    /\ ns \in Seq(Readable) /\ Len(ns) <= Len(Codes(ns))
    /\ Follows(FirstBit(data), Codes(ns)) /\ Follows(Start(ns), nH)
    /\ IF CodeError
       THEN /\ DecodeText = Append(Words(ns), Marker)
            /\ DecodeErrorText \in Seq(Bit) /\ pos = Start(ns) + Len(DecodeErrorText)
            /\ Follows(Start(ns), DecodeErrorText)
            /\ Start(ns) + Len(nH) < Len(data)
            /\ Append(nH, data[Start(ns) + Len(nH) + 1]) \notin nodes
       ELSE /\ DecodeText = Words(ns) /\ DecodeErrorText = <<>>
            /\ pos = Start(ns) + Len(nH) /\ CodeStart = Start(ns)

TextInv ==
    /\ DictionaryRead
    /\ phase \in {"dictionary", "decode", "text"}
    /\ data \in Seq(Bit) /\ pos \in 0 .. Len(data)
    /\ nH \in nodes /\ nH \in Seq(Bit) /\ \A w \in DOMAIN Value : ~IsPrefix(w, nH)
    /\ phase = "dictionary" => nH = <<>>
    /\ phase = "text" => pos = Len(data)
    /\ phase # "dictionary" => \E ns \in Seq(Readable) : DecodedTo(ns)

(* The same as a member of the set of prefixes.                            *)
LEMMA PrefixesTell ==
    ASSUME NEW R, NEW s \in Seq(R), NEW t \in Seq(R)
    PROVE  s \in Prefixes(t) <=> IsPrefix(s, t)
<1>1. Len(s) \in Nat /\ Len(t) \in Nat /\ SubSeq(s, 1, Len(s)) = s
  OBVIOUS
<1>2. ASSUME s \in Prefixes(t) PROVE IsPrefix(s, t)
  <2>1. PICK l \in 0 .. Len(t) : s = SubSeq(t, 1, l)
    BY <1>2 DEF Prefixes
  <2>2. Len(SubSeq(t, 1, l)) = l
    BY <1>1
  <2> QED BY <1>1, <2>1, <2>2 DEF IsPrefix
<1>3. ASSUME IsPrefix(s, t) PROVE s \in Prefixes(t)
  <2>1. s = SubSeq(t, 1, Len(s))
    BY <1>1, <1>3 DEF IsPrefix
  <2>2. Len(s) \in 0 .. Len(t)
    BY <1>1, <1>3 DEF IsPrefix
  <2> QED BY <2>1, <2>2 DEF Prefixes
<1> QED BY <1>2, <1>3

(* So for the code of a line that was read (ReadFileDictionary).           *)
LEMMA LineCodes ==
    ASSUME NEW ls \in Seq(DictionaryLines), NEW m \in DOMAIN ls
    PROVE  LET code == ls[m].code IN
           /\ Path(code) \in Seq(Bit)
           /\ code # <<>> /\ Last(code) \in Bit =>
                Path(code) # <<>> /\ Path(code)[Len(Path(code))] = Last(code)
<1>1. ls[m].code \in Seq(Bit \cup {Other})
  BY SkyTextAssumption
<1> QED BY <1>1, PathOfCode DEF Last

(* Nothing was read at first.                                              *)
LEMMA TextInvInit == TextInit => TextInv
<1> SUFFICES ASSUME TextInit PROVE TextInv
  OBVIOUS
<1>1. lines \in Seq(DictionaryLines) /\ DOMAIN lines = {} /\ DOMAIN Value = {}
  BY DEF TextInit
<1>2. DictionaryRead
  BY <1>1 DEF TextInit, DictionaryRead
<1>3. nH \in nodes /\ nH \in Seq(Bit) /\ data \in Seq(Bit) /\ pos \in 0 .. Len(data)
  BY DEF TextInit
<1> QED BY <1>1, <1>2, <1>3 DEF TextInit, TextInv

(* A line is read (ReadFileDictionary): its path becomes part of the tree, *)
(* and the node at its end gets the word if the line made it.              *)
LEMMA ReadLineStep == TextInv /\ ReadLine => TextInv'
<1> SUFFICES ASSUME TextInv, ReadLine PROVE TextInv'
  OBVIOUS
<1>1. PICK line \in DictionaryLines :
        /\ lines' = Append(lines, line)
        /\ nodes' = nodes \cup Prefixes(Path(line.code))
        /\ Value' = IF GetsWord(line.code)
                    THEN [w \in DOMAIN Value \cup {Path(line.code)} |->
                             IF w = Path(line.code) THEN line.word ELSE Value[w]]
                    ELSE Value
  BY DEF ReadLine
<1>2. phase = "dictionary" /\ UNCHANGED <<phase, data, pos, nH>>
  BY DEF ReadLine, decodeVars
<1>n. PICK n : n = Len(lines)
  OBVIOUS
<1> DEFINE path == Path(line.code)
<1>3. /\ lines \in Seq(DictionaryLines) /\ n \in Nat /\ DOMAIN lines = 1 .. n
      /\ nodes = {<<>>} \cup UNION {Prefixes(Path(lines[m].code)) : m \in DOMAIN lines}
  BY <1>n DEF TextInv, DictionaryRead
<1>4. /\ lines' \in Seq(DictionaryLines) /\ DOMAIN lines' = 1 .. n + 1
      /\ lines'[n + 1] = line /\ \A m \in 1 .. n : lines'[m] = lines[m]
  BY <1>1, <1>3, <1>n
<1>5. /\ path \in Seq(Bit)
      /\ line.code # <<>> /\ Last(line.code) \in Bit => path # <<>>
  <2>1. n + 1 \in DOMAIN lines'
    BY <1>3, <1>4
  <2>2. lines' \in Seq(DictionaryLines) /\ lines'[n + 1] = line
    BY <1>4
  <2> QED BY <2>1, <2>2, LineCodes
<1>6. \A m \in 1 .. n : GivesWord(m)' <=> GivesWord(m)
  BY <1>3, <1>4 DEF GivesWord
<1>7. GivesWord(n + 1)' <=> GetsWord(line.code)
  <2>1. ASSUME NEW m \in 1 .. n PROVE IsPrefix(path, Path(lines[m].code)) <=> path \in Prefixes(Path(lines[m].code))
    <3>1. Path(lines[m].code) \in Seq(Bit)
      BY <1>3, LineCodes
    <3> QED BY <1>5, <3>1, PrefixesTell
  <2>2. path # <<>> =>
          (path \notin nodes <=> \A m \in 1 .. n : ~IsPrefix(path, Path(lines[m].code)))
    BY <1>3, <2>1
  <2>3. (n + 1) - 1 = n
    BY <1>3
  <2>4. GivesWord(n + 1)' <=> /\ line.code # <<>> /\ Last(line.code) \in Bit
                              /\ \A m \in 1 .. n : ~IsPrefix(path, Path(lines[m].code))
    BY <1>4, <2>3 DEF GivesWord
  <2> QED BY <1>5, <2>2, <2>4 DEF GetsWord
<1>8. nodes' = {<<>>} \cup UNION {Prefixes(Path(lines'[m].code)) : m \in DOMAIN lines'}
  BY <1>1, <1>3, <1>4
<1>9. \A w \in DOMAIN Value' : \E m \in DOMAIN lines' :
        GivesWord(m)' /\ w = Path(lines'[m].code) /\ Value'[w] = lines'[m].word
  <2> SUFFICES ASSUME NEW w \in DOMAIN Value'
               PROVE  \E m \in DOMAIN lines' :
                        GivesWord(m)' /\ w = Path(lines'[m].code) /\ Value'[w] = lines'[m].word
    OBVIOUS
  <2>1. CASE GetsWord(line.code) /\ w = path
    <3>1. Value'[w] = line.word
      BY <1>1, <2>1
    <3>2. n + 1 \in DOMAIN lines'
      BY <1>3, <1>4
    <3> QED BY <1>4, <1>7, <2>1, <3>1, <3>2
  <2>2. CASE ~(GetsWord(line.code) /\ w = path)
    <3>1. w \in DOMAIN Value /\ Value'[w] = Value[w]
      BY <1>1, <2>2
    <3>2. PICK m \in DOMAIN lines : GivesWord(m) /\ w = Path(lines[m].code) /\ Value[w] = lines[m].word
      BY <3>1 DEF TextInv, DictionaryRead
    <3>3. m \in 1 .. n /\ m \in DOMAIN lines'
      BY <1>3, <1>4
    <3> QED BY <1>4, <1>6, <3>1, <3>2, <3>3
  <2> QED BY <2>1, <2>2
<1>10. \A m \in DOMAIN lines' : GivesWord(m)' => Path(lines'[m].code) \in DOMAIN Value'
  <2> SUFFICES ASSUME NEW m \in DOMAIN lines', GivesWord(m)'
               PROVE  Path(lines'[m].code) \in DOMAIN Value'
    OBVIOUS
  <2>1. DOMAIN Value \subseteq DOMAIN Value'
    BY <1>1
  <2>2. CASE m = n + 1
    BY <1>1, <1>4, <1>7, <2>2
  <2>3. CASE m \in 1 .. n
    BY <1>3, <1>4, <1>6, <2>1, <2>3 DEF TextInv, DictionaryRead
  <2> QED BY <1>3, <1>4, <2>2, <2>3
<1>11. DictionaryRead'
  BY <1>4, <1>8, <1>9, <1>10 DEF DictionaryRead
<1>12. \A w \in DOMAIN Value' : ~IsPrefix(w, nH')
  <2> SUFFICES ASSUME NEW w \in DOMAIN Value', IsPrefix(w, nH') PROVE FALSE
    OBVIOUS
  <2>1. PICK m \in DOMAIN lines' : GivesWord(m)' /\ w = Path(lines'[m].code)
    BY <1>9
  <2>2. w \in Seq(Bit) /\ w # <<>>
    BY <1>4, <2>1, LineCodes DEF GivesWord
  <2>3. nH' = <<>>
    BY <1>2 DEF TextInv
  <2>4. Len(w) <= 0
    BY <2>3 DEF IsPrefix
  <2> QED BY <2>2, <2>4
<1>13. nH' \in nodes'
  BY <1>1, <1>2 DEF TextInv
<1> QED BY <1>2, <1>11, <1>12, <1>13 DEF TextInv

(* While a text is decoded the dictionary is the same.                     *)
LEMMA SameDictionary ==
    ASSUME UNCHANGED dictionaryVars
    PROVE  /\ Readable' = Readable
           /\ \A ns : Codes(ns)' = Codes(ns) /\ Words(ns)' = Words(ns)
           /\ DictionaryRead => DictionaryRead'
<1>1. lines' = lines /\ nodes' = nodes /\ Value' = Value
  BY DEF dictionaryVars
<1> QED BY <1>1 DEF Readable, Codes, Words, DictionaryRead, GivesWord

(* One line more whose code was found.                                     *)
LEMMA OneMore ==
    ASSUME TextInv, NEW ns \in Seq(Readable), NEW n \in Readable
    PROVE  LET path == Path(lines[n].code) IN
           /\ path \in Seq(Bit) /\ path # <<>> /\ path[Len(path)] = Last(lines[n].code)
           /\ Codes(ns) \in Seq(Bit)
           /\ Codes(Append(ns, n)) = Codes(ns) \o path
           /\ Words(Append(ns, n)) = Words(ns) \o Written(lines[n].word, Last(lines[n].code))
<1> DEFINE path == Path(lines[n].code)
           more == Append(ns, n)
           Word == {lines[m].word : m \in DOMAIN lines}
           paths == [k \in DOMAIN ns |-> Path(lines[ns[k]].code)]
           words == [k \in DOMAIN ns |-> Written(lines[ns[k]].word, Last(lines[ns[k]].code))]
           word == Written(lines[n].word, Last(lines[n].code))
<1>1. \A m \in Readable : m \in DOMAIN lines /\ GivesWord(m)
  BY DEF Readable
<1>2. \A m \in Readable : LET p == Path(lines[m].code) IN
        p \in Seq(Bit) /\ p # <<>> /\ p[Len(p)] = Last(lines[m].code)
  BY <1>1, LineCodes DEF GivesWord, TextInv, DictionaryRead
<1>3. /\ DOMAIN ns = 1 .. Len(ns) /\ Len(ns) \in Nat /\ DOMAIN more = 1 .. Len(ns) + 1
      /\ more[Len(ns) + 1] = n /\ \A k \in 1 .. Len(ns) : more[k] = ns[k] /\ ns[k] \in Readable
  OBVIOUS
<1> HIDE DEF more
<1>4. paths \in Seq(Seq(Bit))
  BY <1>2, <1>3
<1>5. \A m \in Readable : Written(lines[m].word, Last(lines[m].code)) \in Seq(Word)
  <2>1. <<>> \in Seq(Word) /\ \A v \in Word : <<v>> \in Seq(Word)
    OBVIOUS
  <2> SUFFICES ASSUME NEW m \in Readable
               PROVE  Written(lines[m].word, Last(lines[m].code)) \in Seq(Word)
    OBVIOUS
  <2>2. lines[m].word \in Word
    BY <1>1
  <2> HIDE DEF Word
  <2> QED BY <2>1, <2>2 DEF Written
<1>6. words \in Seq(Seq(Word))
  BY <1>3, <1>5
<1>7. [k \in DOMAIN more |-> Path(lines[more[k]].code)] = Append(paths, path)
  BY <1>3, <1>4
<1>8. [k \in DOMAIN more |-> Written(lines[more[k]].word, Last(lines[more[k]].code))]
        = Append(words, word)
  BY <1>3, <1>6
<1>9. Codes(ns) = FlattenSeq(paths) /\ Codes(more) = FlattenSeq(Append(paths, path))
  BY <1>7 DEF Codes
<1>10. Words(ns) = FlattenSeq(words) /\ Words(more) = FlattenSeq(Append(words, word))
  BY <1>8 DEF Words
<1> HIDE DEF paths, words, word, path, Word
<1>11. path \in Seq(Bit) /\ path # <<>> /\ path[Len(path)] = Last(lines[n].code)
  BY <1>2 DEF path
<1>12. word \in Seq(Word)
  BY <1>5 DEF word
<1>13. FlattenSeq(paths) \in Seq(Bit) /\ FlattenSeq(Append(paths, path)) = FlattenSeq(paths) \o path
  BY <1>4, <1>11, FlattenAppend
<1>14. FlattenSeq(Append(words, word)) = FlattenSeq(words) \o word
  BY <1>6, <1>12, FlattenAppend
<1> QED BY <1>9, <1>10, <1>11, <1>13, <1>14 DEF more, path, word

LEMMA NothingDecoded == Codes(<<>>) = <<>> /\ Words(<<>>) = <<>>
<1>1. \A f : Len(f) = 0 => FlattenSeq(f) = f
  BY DEF FlattenSeq
<1>2. /\ [k \in DOMAIN <<>> |-> Path(lines[<<>>[k]].code)] = <<>>
      /\ [k \in DOMAIN <<>> |-> Written(lines[<<>>[k]].word, Last(lines[<<>>[k]].code))] = <<>>
  OBVIOUS
<1>3. FlattenSeq(<<>>) = <<>>
  BY <1>1
<1> QED BY <1>2, <1>3 DEF Codes, Words

(* The empty path is no code's.                                            *)
LEMMA CodesAreLong ==
    ASSUME TextInv, NEW w \in DOMAIN Value
    PROVE  /\ w \in Seq(Bit) /\ w # <<>>
           /\ \E m \in DOMAIN lines :
                /\ GivesWord(m) /\ w = Path(lines[m].code) /\ Value[w] = lines[m].word
                /\ w[Len(w)] = Last(lines[m].code)
<1>1. PICK m \in DOMAIN lines : GivesWord(m) /\ w = Path(lines[m].code) /\ Value[w] = lines[m].word
  BY DEF TextInv, DictionaryRead
<1>2. w \in Seq(Bit) /\ w # <<>> /\ w[Len(w)] = Last(lines[m].code)
  BY <1>1, LineCodes DEF GivesWord, TextInv, DictionaryRead
<1> QED BY <1>1, <1>2

(* DecodeHuffmanCode is called: it begins at the root, with the third bit. *)
LEMMA DecodeStep == TextInv /\ Decode => TextInv'
<1> SUFFICES ASSUME TextInv, Decode PROVE TextInv'
  OBVIOUS
<1>1. /\ phase' = "decode" /\ data' \in Texts /\ pos' = FirstBit(data') /\ last' = pos'
      /\ nH' = <<>> /\ ~IsFound' /\ ~CodeError' /\ DecodeText' = <<>> /\ DecodeErrorText' = <<>>
      /\ UNCHANGED dictionaryVars
  BY DEF Decode
<1>2. /\ DictionaryRead' /\ nodes' = nodes /\ Value' = Value /\ Readable' = Readable
      /\ \A ns : Codes(ns)' = Codes(ns) /\ Words(ns)' = Words(ns)
  BY <1>1, SameDictionary DEF dictionaryVars, TextInv
<1>3. data' \in Seq(Bit) /\ Len(data') \in Nat /\ pos' \in 0 .. Len(data')
  BY <1>1, SkyTextAssumption DEF FirstBit
<1>4. \A w \in DOMAIN Value : ~IsPrefix(w, <<>>)
  BY CodesAreLong DEF IsPrefix
<1>5. nH' \in nodes' /\ nH' \in Seq(Bit)
  BY <1>1, <1>2 DEF TextInv, DictionaryRead
<1>6. DecodedTo(<<>>)'
  <2>1. Codes(<<>>)' = <<>> /\ Words(<<>>)' = <<>>
    BY <1>2, NothingDecoded
  <2>2. Start(<<>>)' = pos' /\ CodeStart' = pos'
    BY <1>1, <1>3, <2>1 DEF Start, CodeStart
  <2>3. FirstBit(data)' = pos' /\ pos' \in Nat /\ pos' <= Len(data')
    BY <1>1, <1>3
  <2>4. Follows(pos, <<>>)'
    BY <1>3, <2>3 DEF Follows
  <2> QED BY <1>1, <2>1, <2>2, <2>3, <2>4 DEF DecodedTo
<1>7. <<>> \in Seq(Readable')
  OBVIOUS
<1> QED BY <1>1, <1>2, <1>3, <1>4, <1>5, <1>6, <1>7 DEF TextInv

(* What begins a way that is longer by one begins the way, or is all of    *)
(* it.                                                                     *)
LEMMA PrefixOfAppend ==
    ASSUME NEW R, NEW w \in Seq(R), NEW s \in Seq(R), NEW e \in R, IsPrefix(w, Append(s, e))
    PROVE  IsPrefix(w, s) \/ w = Append(s, e)
<1> DEFINE t == Append(s, e)
<1>1. /\ Len(w) \in Nat /\ Len(s) \in Nat /\ t \in Seq(R) /\ Len(t) = Len(s) + 1
      /\ \A k \in 1 .. Len(s) : t[k] = s[k]
  OBVIOUS
<1> HIDE DEF t
<1>2. Len(w) <= Len(t) /\ \A k \in 1 .. Len(w) : w[k] = t[k]
  <2>1. IsPrefix(w, t)
    BY DEF t
  <2> QED BY <1>1, <2>1, PrefixTells
<1>3. CASE Len(w) = Len(t)
  BY <1>1, <1>2, <1>3 DEF t
<1>4. CASE Len(w) <= Len(s)
  BY <1>1, <1>2, <1>4, PrefixTells
<1> QED BY <1>1, <1>2, <1>3, <1>4

(* What is at a place of the text, with the bit that comes next.           *)
LEMMA FollowsFurther ==
    ASSUME data \in Seq(Bit), NEW from \in Nat, NEW s \in Seq(Bit), Follows(from, s),
           from + Len(s) < Len(data)
    PROVE  Follows(from, Append(s, data[from + Len(s) + 1]))
<1> DEFINE b == data[from + Len(s) + 1]
           t == Append(s, b)
<1>1. Len(s) \in Nat /\ Len(data) \in Nat
  OBVIOUS
<1>2. from + Len(s) + 1 \in 1 .. Len(data)
  BY <1>1
<1>3. b \in Bit
  BY <1>2
<1> HIDE DEF b
<1>4. Len(t) = Len(s) + 1 /\ t[Len(s) + 1] = b /\ \A k \in 1 .. Len(s) : t[k] = s[k]
  BY <1>3
<1> HIDE DEF t
<1>5. from + Len(t) <= Len(data)
  BY <1>1, <1>4
<1>6. ASSUME NEW k \in 1 .. Len(t) PROVE t[k] = data[from + k]
  <2>1. CASE k \in 1 .. Len(s)
    BY <1>4, <2>1 DEF Follows
  <2>2. CASE k = Len(s) + 1
    <3>1. from + k = from + Len(s) + 1
      BY <1>1, <2>2
    <3> QED BY <1>4, <2>2, <3>1 DEF b
  <2> QED BY <1>1, <1>4, <2>1, <2>2
<1> QED BY <1>5, <1>6 DEF Follows, t, b

(* What a concatenation is made of.                                        *)
LEMMA Concatenation ==
    ASSUME NEW R, NEW s \in Seq(R), NEW t \in Seq(R)
    PROVE  /\ Len(s \o t) = Len(s) + Len(t)
           /\ \A k \in 1 .. Len(s) : (s \o t)[k] = s[k]
           /\ \A k \in Len(s) + 1 .. Len(s) + Len(t) : (s \o t)[k] = t[k - Len(s)]
<1>1. Len(s) \in Nat /\ Len(t) \in Nat
  OBVIOUS
<1>2. Len(s \o t) = Len(s) + Len(t)
  OBVIOUS
<1>3. \A k \in 1 .. Len(s) : (s \o t)[k] = s[k]
  OBVIOUS
<1>4. \A k \in Len(s) + 1 .. Len(s) + Len(t) : (s \o t)[k] = t[k - Len(s)]
  OBVIOUS
<1> QED BY <1>2, <1>3, <1>4

(* DecodeHuffmanCode reads a bit: it goes on down the tree, perhaps to a   *)
(* word; or goes back to where the code began, as the tree has no such     *)
(* way; or copies the bit to the text of the error.                        *)
LEMMA ReadBitStep == TextInv /\ ReadBit => TextInv'
<1> SUFFICES ASSUME TextInv, ReadBit PROVE TextInv'
  OBVIOUS
<1>1. /\ phase = "decode" /\ pos < Len(data) /\ phase' = phase /\ data' = data
      /\ UNCHANGED dictionaryVars
  BY DEF ReadBit
<1>2. /\ DictionaryRead' /\ nodes' = nodes /\ Value' = Value /\ Readable' = Readable
      /\ \A ns : Codes(ns)' = Codes(ns) /\ Words(ns)' = Words(ns)
  BY <1>1, SameDictionary DEF dictionaryVars, TextInv
<1>3. PICK ns \in Seq(Readable) : DecodedTo(ns)
  BY <1>1 DEF TextInv
<1>4. PICK codes : codes = Codes(ns)
  OBVIOUS
<1>5. PICK words : words = Words(ns)
  OBVIOUS
<1>6. PICK st : st = FirstBit(data) + Len(codes)
  OBVIOUS
<1>7. PICK first : first = FirstBit(data)
  OBVIOUS
<1>8. /\ data \in Seq(Bit) /\ Len(data) \in Nat /\ pos \in Nat /\ pos + 1 \in 1 .. Len(data)
      /\ bit \in Bit /\ first \in Nat /\ bit = data[pos + 1]
      /\ nH \in Seq(Bit) /\ nH \in nodes /\ Len(nH) \in Nat
      /\ \A w \in DOMAIN Value : ~IsPrefix(w, nH)
  BY <1>1, <1>7 DEF TextInv, FirstBit, bit
<1>9. codes \in Seq(Bit) /\ Len(codes) \in Nat /\ Len(ns) \in Nat
  <2>1. CASE Readable = {}
    <3>1. ns = <<>>
      BY <2>1
    <3>2. codes = <<>> /\ <<>> \in Seq(Bit) /\ Len(<<>>) = 0
      BY <1>4, <3>1, NothingDecoded
    <3> QED BY <3>1, <3>2
  <2>2. CASE Readable # {}
    BY <1>4, <2>2, OneMore
  <2> QED BY <2>1, <2>2
<1>10. Start(ns) = st /\ Start(ns)' = st /\ st \in Nat /\ st = first + Len(codes)
  BY <1>1, <1>2, <1>4, <1>6, <1>7, <1>8, <1>9 DEF Start
<1>11. /\ Len(ns) <= Len(codes) /\ Follows(first, codes) /\ Follows(st, nH)
       /\ CodeError =>
            /\ DecodeText = Append(words, Marker)
            /\ DecodeErrorText \in Seq(Bit) /\ pos = st + Len(DecodeErrorText)
            /\ Follows(st, DecodeErrorText)
            /\ st + Len(nH) < Len(data)
            /\ Append(nH, data[st + Len(nH) + 1]) \notin nodes
       /\ ~CodeError =>
            /\ DecodeText = words /\ DecodeErrorText = <<>>
            /\ pos = st + Len(nH) /\ CodeStart = st
  BY <1>3, <1>4, <1>5, <1>7, <1>10 DEF DecodedTo
<1>12. \A from, s : Follows(from, s)' <=> Follows(from, s)
  BY <1>1 DEF Follows
<1>13. FirstBit(data') = first /\ FirstBit(data)' = first
  BY <1>1, <1>7
<1>14. CASE Follow
  <2>1. /\ ~CodeError /\ child \in nodes /\ child = Append(nH, bit)
        /\ IF child \in DOMAIN Value
           THEN /\ DecodeText' = DecodeText \o Written(Value[child], bit)
                /\ nH' = <<>> /\ IsFound' = TRUE
           ELSE nH' = child /\ IsFound' = FALSE /\ UNCHANGED DecodeText
        /\ last' = CodeStart /\ pos' = pos + 1
        /\ UNCHANGED <<CodeError, DecodeErrorText>>
    BY <1>14 DEF Follow, child
  <2>2. PICK way : way = child
    OBVIOUS
  <2>3. /\ way \in Seq(Bit) /\ Len(way) = Len(nH) + 1 /\ way[Len(way)] = bit
        /\ \A k \in 1 .. Len(nH) : way[k] = nH[k]
    BY <1>8, <2>1, <2>2
  <2>4. pos = st + Len(nH) /\ Follows(st, way) /\ CodeStart = st
        /\ DecodeText = words /\ DecodeErrorText = <<>>
    <3>1. pos = st + Len(nH) /\ CodeStart = st /\ DecodeText = words /\ DecodeErrorText = <<>>
      BY <1>11, <2>1
    <3>2. Follows(st, way)
      <4>1. Follows(st, nH) /\ st + Len(nH) < Len(data) /\ way = Append(nH, data[st + Len(nH) + 1])
        BY <1>8, <1>10, <1>11, <2>1, <2>2, <3>1
      <4> QED BY <1>8, <1>10, <4>1, FollowsFurther
    <3> QED BY <3>1, <3>2
  <2>5. CASE way \in DOMAIN Value
    <3>1. PICK m \in DOMAIN lines :
            /\ GivesWord(m) /\ way = Path(lines[m].code) /\ Value[way] = lines[m].word
            /\ bit = Last(lines[m].code)
      BY <2>3, <2>5, CodesAreLong
    <3>2. m \in Readable
      <4> SUFFICES ASSUME NEW l \in DOMAIN lines, GivesWord(l),
                          IsStrictPrefix(Path(lines[l].code), way)
                   PROVE  FALSE
        BY <3>1 DEF Readable
      <4> DEFINE w == Path(lines[l].code)
      <4>1. w \in DOMAIN Value /\ w \in Seq(Bit) /\ w # way /\ IsPrefix(w, way)
        BY CodesAreLong DEF TextInv, DictionaryRead, IsStrictPrefix
      <4>2. IsPrefix(w, nH)
        BY <1>8, <2>1, <2>2, <4>1, PrefixOfAppend
      <4> QED BY <1>8, <4>1, <4>2
    <3> DEFINE more == Append(ns, m)
    <3>3. /\ more \in Seq(Readable) /\ Len(more) = Len(ns) + 1
          /\ Codes(more) = codes \o way
          /\ Words(more) = words \o Written(Value[way], bit)
      <4>1. Codes(more) = Codes(ns) \o Path(lines[m].code)
        BY <3>2, OneMore
      <4>2. Words(more) = Words(ns) \o Written(lines[m].word, Last(lines[m].code))
        BY <3>2, OneMore
      <4>3. more \in Seq(Readable) /\ Len(more) = Len(ns) + 1
        BY <3>2
      <4> QED BY <1>4, <1>5, <3>1, <4>1, <4>2, <4>3
    <3>4. /\ Len(codes \o way) = Len(codes) + Len(way)
          /\ \A k \in 1 .. Len(codes) : (codes \o way)[k] = codes[k]
          /\ \A k \in Len(codes) + 1 .. Len(codes) + Len(way) : (codes \o way)[k] = way[k - Len(codes)]
      BY <1>9, <2>3, Concatenation
    <3>5. Follows(first, codes \o way)
      <4>1. first + Len(codes \o way) <= Len(data)
        BY <1>8, <1>9, <1>10, <2>3, <2>4, <3>4 DEF Follows
      <4>2. ASSUME NEW k \in 1 .. Len(codes \o way) PROVE (codes \o way)[k] = data[first + k]
        <5>1. CASE k <= Len(codes)
          BY <1>8, <1>9, <1>11, <2>3, <3>4, <5>1 DEF Follows
        <5>2. CASE k > Len(codes)
          <6>1. k - Len(codes) \in 1 .. Len(way) /\ k \in Len(codes) + 1 .. Len(codes) + Len(way)
            BY <1>8, <1>9, <2>3, <3>4, <5>2
          <6>2. way[k - Len(codes)] = data[st + (k - Len(codes))]
            BY <2>4, <6>1 DEF Follows
          <6>3. st + (k - Len(codes)) = first + k
            BY <1>8, <1>9, <1>10, <6>1
          <6> QED BY <3>4, <6>1, <6>2, <6>3
        <5> QED BY <1>9, <2>3, <3>4, <5>1, <5>2
      <4> QED BY <4>1, <4>2 DEF Follows
    <3> HIDE DEF more
    <3>6. Codes(more)' = codes \o way /\ Words(more)' = words \o Written(Value[way], bit)
      BY <1>2, <3>3
    <3>7. Start(more)' = pos + 1 /\ pos + 1 \in Nat /\ pos + 1 <= Len(data)
      <4>1. Start(more)' = first + Len(codes \o way)
        BY <1>13, <3>6 DEF Start
      <4>2. first + Len(codes \o way) = pos + 1
        BY <1>8, <1>9, <1>10, <2>3, <2>4, <3>4
      <4>3. pos + 1 \in Nat /\ pos + 1 <= Len(data)
        BY <1>8
      <4> QED BY <4>1, <4>2, <4>3
    <3>8. Follows(pos + 1, <<>>)
      BY <1>8 DEF Follows
    <3>9. CodeStart' = pos + 1 /\ nH' = <<>> /\ ~CodeError' /\ pos' = pos + 1
          /\ DecodeText' = words \o Written(Value[way], bit) /\ DecodeErrorText' = <<>>
      BY <2>1, <2>2, <2>4, <2>5 DEF CodeStart
    <3>10. Len(more) <= Len(codes \o way)
      BY <1>9, <1>11, <2>3, <3>3, <3>4
    <3>11. DecodedTo(more)'
      BY <1>2, <1>8, <1>12, <1>13, <3>3, <3>5, <3>6, <3>7, <3>8, <3>9, <3>10 DEF DecodedTo
    <3>12. <<>> \in nodes /\ <<>> \in Seq(Bit) /\ \A w \in DOMAIN Value : ~IsPrefix(w, <<>>)
      BY CodesAreLong DEF TextInv, DictionaryRead, IsPrefix
    <3> QED BY <1>1, <1>2, <1>8, <3>3, <3>9, <3>11, <3>12 DEF TextInv
  <2>6. CASE way \notin DOMAIN Value
    <3>1. /\ nH' = way /\ ~IsFound' /\ DecodeText' = words /\ last' = st /\ pos' = pos + 1
          /\ ~CodeError' /\ DecodeErrorText' = <<>> /\ CodeStart' = st
      BY <2>1, <2>2, <2>4, <2>6 DEF CodeStart
    <3>2. ASSUME NEW w \in DOMAIN Value PROVE ~IsPrefix(w, way)
      <4>1. w \in Seq(Bit) /\ w # way
        BY <2>6, CodesAreLong
      <4> QED BY <1>8, <2>1, <2>2, <4>1, PrefixOfAppend
    <3>3. pos' = st + Len(way)
      BY <1>8, <1>10, <2>3, <2>4, <3>1
    <3>4. DecodedTo(ns)'
      BY <1>2, <1>3, <1>4, <1>5, <1>10, <1>11, <1>12, <1>13, <2>4, <3>1, <3>3 DEF DecodedTo
    <3> QED BY <1>1, <1>2, <1>3, <1>8, <2>1, <2>2, <2>3, <3>1, <3>2, <3>4 DEF TextInv
  <2> QED BY <2>5, <2>6
<1>15. CASE GoBack
  <2>1. /\ ~CodeError /\ Append(nH, bit) \notin nodes
        /\ DecodeText' = Append(DecodeText, Marker) /\ pos' = CodeStart
        /\ CodeError' /\ UNCHANGED <<nH, DecodeErrorText>>
    BY <1>15 DEF GoBack, child
  <2>2. /\ pos' = st /\ st + Len(nH) < Len(data) /\ bit = data[st + Len(nH) + 1]
        /\ DecodeText' = Append(words, Marker) /\ DecodeErrorText' = <<>>
    BY <1>1, <1>8, <1>11, <2>1
  <2>3. Follows(st, <<>>) /\ <<>> \in Seq(Bit) /\ st = st + Len(<<>>)
    BY <1>8, <1>10, <2>2 DEF Follows
  <2>4. DecodedTo(ns)'
    BY <1>1, <1>2, <1>3, <1>4, <1>5, <1>10, <1>11, <1>12, <1>13, <2>1, <2>2, <2>3 DEF DecodedTo
  <2>5. pos' \in 0 .. Len(data)
    BY <1>8, <1>10, <2>2
  <2> QED BY <1>1, <1>2, <1>3, <1>8, <2>1, <2>4, <2>5 DEF TextInv
<1>16. CASE Unreadable
  <2>1. /\ CodeError /\ CodeError' /\ DecodeErrorText' = Append(DecodeErrorText, bit)
        /\ pos' = pos + 1 /\ UNCHANGED <<nH, DecodeText>>
    BY <1>16 DEF Unreadable
  <2>2. PICK read : read = DecodeErrorText
    OBVIOUS
  <2>3. read \in Seq(Bit) /\ pos = st + Len(read) /\ Follows(st, read) /\ Len(read) \in Nat
    BY <1>11, <2>1, <2>2
  <2>4. /\ DecodeErrorText' \in Seq(Bit) /\ Len(DecodeErrorText') = Len(read) + 1
        /\ DecodeErrorText'[Len(read) + 1] = bit
        /\ \A k \in 1 .. Len(read) : DecodeErrorText'[k] = read[k]
    BY <1>8, <2>1, <2>2, <2>3
  <2>5. Follows(st, DecodeErrorText')
    BY <1>1, <1>8, <1>10, <2>1, <2>2, <2>3, FollowsFurther
  <2>6. pos' = st + Len(DecodeErrorText')
    BY <1>10, <2>1, <2>3, <2>4
  <2>7. DecodedTo(ns)'
    BY <1>1, <1>2, <1>3, <1>4, <1>5, <1>10, <1>11, <1>12, <1>13, <2>1, <2>4, <2>5, <2>6 DEF DecodedTo
  <2> QED BY <1>1, <1>2, <1>3, <1>8, <2>1, <2>7 DEF TextInv
<1> QED BY <1>14, <1>15, <1>16 DEF ReadBit

(* Every step keeps what is known of the tree and of the text.             *)
LEMMA TextInvStep == TextInv /\ [TextNext]_textVars => TextInv'
<1> SUFFICES ASSUME TextInv, [TextNext]_textVars PROVE TextInv'
  OBVIOUS
<1>1. CASE Decoded
  <2>1. /\ phase' = "text" /\ pos = Len(data) /\ phase = "decode"
        /\ UNCHANGED <<dictionaryVars, decodeVars>>
    BY <1>1 DEF Decoded
  <2>2. /\ DictionaryRead' /\ nodes' = nodes /\ Value' = Value /\ Readable' = Readable
        /\ \A ns : Codes(ns)' = Codes(ns) /\ Words(ns)' = Words(ns)
    BY <2>1, SameDictionary DEF dictionaryVars, TextInv
  <2>3. \A ns : DecodedTo(ns)' <=> DecodedTo(ns)
    BY <2>1, <2>2 DEF DecodedTo, Start, Follows, CodeStart, decodeVars
  <2> QED BY <2>1, <2>2, <2>3 DEF TextInv, decodeVars
<1>2. CASE UNCHANGED textVars
  <2>1. phase' = phase /\ UNCHANGED <<dictionaryVars, decodeVars>>
    BY <1>2 DEF textVars
  <2>2. /\ DictionaryRead' /\ nodes' = nodes /\ Value' = Value /\ Readable' = Readable
        /\ \A ns : Codes(ns)' = Codes(ns) /\ Words(ns)' = Words(ns)
    BY <2>1, SameDictionary DEF dictionaryVars, TextInv
  <2>3. \A ns : DecodedTo(ns)' <=> DecodedTo(ns)
    BY <2>1, <2>2 DEF DecodedTo, Start, Follows, CodeStart, decodeVars
  <2> QED BY <2>1, <2>2, <2>3 DEF TextInv, decodeVars
<1> QED BY <1>1, <1>2, ReadLineStep, DecodeStep, ReadBitStep DEF TextNext

(* What is left of the bits when nothing more is to be read.               *)
LEMMA RestOfBits ==
    ASSUME data \in Seq(Bit), NEW first \in 0 .. Len(data), NEW n \in 0 .. Len(data) - first
    PROVE  LET bits == SubSeq(data, first + 1, Len(data))
               rest == SubSeq(bits, n + 1, Len(bits))
           IN  /\ bits \in Seq(Bit) /\ Len(bits) = Len(data) - first
               /\ \A k \in 1 .. Len(bits) : bits[k] = data[first + k]
               /\ rest \in Seq(Bit) /\ Len(rest) = Len(data) - (first + n)
               /\ \A k \in 1 .. Len(rest) : rest[k] = data[first + n + k]
<1> DEFINE bits == SubSeq(data, first + 1, Len(data))
           rest == SubSeq(bits, n + 1, Len(bits))
<1>1. Len(data) \in Nat /\ first \in Nat /\ n \in Nat
  OBVIOUS
<1>2. bits \in Seq(Bit) /\ Len(bits) = Len(data) - first
  BY <1>1
<1>3. \A k \in 1 .. Len(bits) : bits[k] = data[first + k]
  BY <1>1, <1>2
<1> HIDE DEF bits
<1>4. rest \in Seq(Bit) /\ Len(rest) = Len(bits) - n
  BY <1>1, <1>2
<1>5. \A k \in 1 .. Len(rest) : rest[k] = bits[n + k]
  BY <1>1, <1>2, <1>4
<1>6. ASSUME NEW k \in 1 .. Len(rest) PROVE rest[k] = data[first + n + k]
  <2>1. n + k \in 1 .. Len(bits)
    BY <1>1, <1>2, <1>4
  <2>2. first + (n + k) = first + n + k
    BY <1>1, <1>4
  <2> QED BY <1>3, <1>5, <2>1, <2>2
<1>7. Len(rest) = Len(data) - (first + n)
  BY <1>1, <1>2, <1>4
<1> QED BY <1>2, <1>3, <1>4, <1>6, <1>7 DEF bits

(* Whatever lines the dictionary has (codes that begin other codes,        *)
(* characters that are no bits and words that no node keeps included) and  *)
(* whatever the text: DecodeHuffmanCode writes the words of the codes, as  *)
(* many as there are, and what cannot be read is marked and kept as the    *)
(* text of the error to the last bit, from the place where the code began. *)
THEOREM TextsAreExact == TextSpec => []TextIsExact
<1>1. TextInv => TextIsExact
  <2> SUFFICES ASSUME TextInv, phase = "text" PROVE TextIsExact
    BY DEF TextIsExact
  <2>1. PICK ns \in Seq(Readable) : DecodedTo(ns)
    BY DEF TextInv
  <2> DEFINE first == FirstBit(data)
             codes == Codes(ns)
             bits == SubSeq(data, first + 1, Len(data))
             rest == SubSeq(bits, Len(codes) + 1, Len(bits))
             st == first + Len(codes)
             broken == \A l \in DOMAIN lines : ~IsPrefix(rest, Path(lines[l].code))
  <2>2. /\ data \in Seq(Bit) /\ Len(data) \in Nat /\ pos = Len(data)
        /\ nH \in Seq(Bit) /\ nH \in nodes /\ Len(nH) \in Nat
        /\ first \in 0 .. Len(data) /\ first \in Nat
    BY DEF TextInv, FirstBit
  <2>3. codes \in Seq(Bit) /\ Len(codes) \in Nat /\ Len(ns) \in Nat
    <3>1. CASE Readable = {}
      <4>1. ns = <<>>
        BY <3>1
      <4>2. Codes(ns) = <<>> /\ <<>> \in Seq(Bit) /\ Len(<<>>) = 0
        BY <4>1, NothingDecoded
      <4> QED BY <4>1, <4>2
    <3>2. CASE Readable # {}
      BY <3>2, OneMore
    <3> QED BY <3>1, <3>2
  <2>4. /\ Start(ns) = st /\ st \in Nat /\ Follows(first, codes) /\ Follows(st, nH)
        /\ Len(ns) <= Len(codes)
    BY <2>1, <2>2, <2>3 DEF DecodedTo, Start
  <2>5. Len(codes) \in 0 .. Len(data) - first
    BY <2>2, <2>3, <2>4 DEF Follows
  <2>s. st = first + Len(codes)
    OBVIOUS
  <2> HIDE DEF first, codes
  <2>6. /\ bits \in Seq(Bit) /\ Len(bits) = Len(data) - first
        /\ \A k \in 1 .. Len(bits) : bits[k] = data[first + k]
        /\ rest \in Seq(Bit) /\ Len(rest) = Len(data) - st
        /\ \A k \in 1 .. Len(rest) : rest[k] = data[st + k]
    BY <2>2, <2>5, RestOfBits
  <2> HIDE DEF bits, rest, st
  <2>7. IsPrefix(codes, bits)
    <3>1. Len(codes) <= Len(bits)
      BY <2>2, <2>5, <2>6
    <3>2. \A k \in 1 .. Len(codes) : codes[k] = bits[k]
      BY <2>2, <2>3, <2>4, <2>6, <3>1 DEF Follows
    <3> QED BY <2>3, <2>6, <3>1, <3>2, PrefixTells
  <2>8. ns \in BoundedSeq(Readable, Len(bits))
    <3>1. Len(ns) \in 0 .. Len(bits)
      BY <2>2, <2>3, <2>4, <2>5, <2>6
    <3>2. ns \in [1 .. Len(ns) -> Readable]
      OBVIOUS
    <3> QED BY <3>1, <3>2 DEF BoundedSeq, SeqOf
  <2>9. ASSUME NEW n \in Readable
        PROVE  LET p == Path(lines[n].code) IN p \in Seq(Bit) /\ p \in DOMAIN Value /\ ~IsPrefix(p, nH)
    BY LineCodes DEF Readable, TextInv, DictionaryRead
  <2>10. \A l \in DOMAIN lines : LET p == Path(lines[l].code) IN
           p \in Seq(Bit) /\ Prefixes(p) \subseteq nodes
    BY LineCodes DEF TextInv, DictionaryRead
  <2>11. CASE ~CodeError
    <3>1. DecodeText = Words(ns) /\ DecodeErrorText = <<>> /\ Len(data) = st + Len(nH)
      BY <2>1, <2>2, <2>4, <2>11 DEF DecodedTo
    <3>2. Len(rest) = Len(nH)
      BY <2>2, <2>4, <2>6, <3>1
    <3>3. rest = nH
      <4>1. \A k \in 1 .. Len(nH) : nH[k] = data[st + k]
        BY <2>4 DEF Follows
      <4>2. \A k \in 1 .. Len(nH) : rest[k] = nH[k]
        BY <2>6, <3>2, <4>1
      <4> QED BY <2>2, <2>6, <3>2, <4>2
    <3>4. ASSUME rest # <<>> PROVE ~broken
      <4>1. PICK l \in DOMAIN lines : nH \in Prefixes(Path(lines[l].code))
        BY <2>2, <3>3, <3>4 DEF TextInv, DictionaryRead
      <4>2. IsPrefix(nH, Path(lines[l].code))
        BY <2>2, <2>10, <4>1, PrefixesTell
      <4> QED BY <3>3, <4>2
    <3> HIDE DEF broken
    <3>5. \A n \in Readable : ~IsPrefix(Path(lines[n].code), rest)
      BY <2>9, <3>3
    <3> QED BY <2>7, <2>8, <3>1, <3>4, <3>5 DEF TextIsExact, first, codes, bits, rest, broken
  <2>12. CASE CodeError
    <3>1. /\ DecodeText = Append(Words(ns), Marker)
          /\ DecodeErrorText \in Seq(Bit) /\ Len(data) = st + Len(DecodeErrorText)
          /\ Follows(st, DecodeErrorText)
          /\ st + Len(nH) < Len(data)
          /\ Append(nH, data[st + Len(nH) + 1]) \notin nodes
      BY <2>1, <2>2, <2>4, <2>12 DEF DecodedTo
    <3>2. Len(rest) = Len(DecodeErrorText) /\ Len(DecodeErrorText) \in Nat
      <4>1. Len(DecodeErrorText) \in Nat
        BY <3>1
      <4> QED BY <2>2, <2>4, <2>6, <3>1, <4>1
    <3>3. DecodeErrorText = rest
      BY <2>6, <3>1, <3>2 DEF Follows
    <3> DEFINE bad == Append(nH, data[st + Len(nH) + 1])
    <3>4. bad \in Seq(Bit) /\ Len(bad) = Len(nH) + 1 /\ \A k \in 1 .. Len(nH) : bad[k] = nH[k]
      <4>1. st + Len(nH) + 1 \in 1 .. Len(data)
        BY <2>2, <2>4, <3>1
      <4>2. data[st + Len(nH) + 1] \in Bit
        BY <2>2, <4>1
      <4> QED BY <2>2, <4>2
    <3>5. Follows(st, bad)
      BY <2>2, <2>4, <3>1, FollowsFurther
    <3>6. bad \notin nodes
      BY <3>1
    <3> HIDE DEF bad
    <3>7. Len(bad) <= Len(rest) /\ \A k \in 1 .. Len(bad) : bad[k] = rest[k]
      <4>1. st + Len(bad) <= Len(data) /\ \A k \in 1 .. Len(bad) : bad[k] = data[st + k]
        BY <3>5 DEF Follows
      <4>2. Len(bad) \in Nat /\ Len(rest) \in Nat /\ Len(bad) <= Len(rest)
        BY <2>2, <2>4, <2>6, <3>4, <4>1
      <4>3. \A k \in 1 .. Len(bad) : k \in 1 .. Len(rest)
        BY <4>2
      <4> QED BY <2>6, <4>1, <4>2, <4>3
    <3>8. \A l \in DOMAIN lines : ~IsPrefix(bad, Path(lines[l].code))
      BY <2>10, <3>4, <3>6, PrefixesTell
    <3>9. broken
      <4> SUFFICES ASSUME NEW l \in DOMAIN lines, IsPrefix(rest, Path(lines[l].code)) PROVE FALSE
        OBVIOUS
      <4> DEFINE p == Path(lines[l].code)
      <4>1. p \in Seq(Bit) /\ Len(p) \in Nat
        BY <2>10
      <4> HIDE DEF p
      <4>2. Len(rest) <= Len(p) /\ \A k \in 1 .. Len(rest) : rest[k] = p[k]
        BY <2>6, <4>1, PrefixTells DEF p
      <4>3. IsPrefix(bad, p)
        <5>1. Len(bad) <= Len(p) /\ \A k \in 1 .. Len(bad) : bad[k] = p[k]
          BY <2>2, <3>2, <3>4, <3>7, <4>1, <4>2
        <5> QED BY <3>4, <4>1, <5>1, PrefixTells
      <4> QED BY <3>8, <4>3 DEF p
    <3>10. ASSUME NEW n \in Readable PROVE ~IsPrefix(Path(lines[n].code), rest)
      <4> SUFFICES ASSUME IsPrefix(Path(lines[n].code), rest) PROVE FALSE
        OBVIOUS
      <4> DEFINE p == Path(lines[n].code)
      <4>1. p \in Seq(Bit) /\ Len(p) \in Nat /\ ~IsPrefix(p, nH)
        BY <2>9
      <4>2. n \in DOMAIN lines
        BY DEF Readable
      <4> HIDE DEF p
      <4>3. Len(p) <= Len(rest) /\ \A k \in 1 .. Len(p) : p[k] = rest[k]
        BY <2>6, <4>1, PrefixTells DEF p
      <4>4. CASE Len(p) <= Len(nH)
        <5>1. \A k \in 1 .. Len(p) : p[k] = nH[k]
          BY <2>2, <3>4, <3>7, <4>1, <4>3, <4>4
        <5> QED BY <2>2, <4>1, <4>4, <5>1, PrefixTells
      <4>5. CASE Len(p) > Len(nH)
        <5>1. Len(bad) <= Len(p) /\ \A k \in 1 .. Len(bad) : bad[k] = p[k]
          <6>1. Len(bad) \in Nat /\ Len(bad) <= Len(p)
            BY <2>2, <3>4, <4>1, <4>5
          <6>2. \A k \in 1 .. Len(bad) : k \in 1 .. Len(p)
            BY <4>1, <6>1
          <6> QED BY <3>7, <4>3, <6>1, <6>2
        <5>2. IsPrefix(bad, p)
          BY <3>4, <4>1, <5>1, PrefixTells
        <5> QED BY <3>8, <4>2, <5>2 DEF p
      <4> QED BY <2>2, <4>1, <4>4, <4>5
    <3>11. rest # <<>>
      BY <2>2, <2>6, <3>4, <3>7
    <3> HIDE DEF broken
    <3> QED BY <2>7, <2>8, <3>1, <3>3, <3>9, <3>10, <3>11
            DEF TextIsExact, first, codes, bits, rest, broken
  <2> QED BY <2>11, <2>12
<1> QED BY <1>1, TextInvInit, TextInvStep, PTL DEF TextSpec
=============================================================================
