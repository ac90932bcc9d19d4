------------------------- MODULE ServerParts_proofs -------------------------
(* Parts of the MCP server.  Reading: however the provider answers, a read  *)
(* stays within its bounds, for every limit and every size of the pages,    *)
(* and says truly whether it is whole.  Reports: whatever is logged         *)
(* meanwhile, hours that were there throughout are accounted for and the    *)
(* totals agree.  Permissions: whatever is consented to, set up or imported *)
(* under whatever profiles, a server lists only tools that were granted,    *)
(* that its profile allows and that work; and no consent grants more than   *)
(* it is asked for.                                                         *)
EXTENDS ProviderReads, WorklogReports, Permissions, FiniteSetTheorems, SequenceTheorems, TLAPS

---------------------------------------------------------------------------
(* Reading a collection.                                                    *)

ReadRecords ==
    [kind : ReadKinds, wanted : Items \cup {NoItem}, items : Seq(Items), place : Nat,
     seen : SUBSET Nat, requests : Nat, outcome : Outcomes]

Pages ==
    [items : Seq(Items), start : Nat, total : Nat, last : BOOLEAN, next : Nat \cup {NoToken}]

ReadsTyped ==
    /\ read \in ReadRecords
    /\ list \in Seq(Items)
    /\ honest \in BOOLEAN

\* Why a read that counts no pages ends all the same: every page it goes on after
\* brought an item, and there is room for one more.  The pages of a limited search
\* bring one only while the provider follows the protocol.
BringsItems == read.kind = "offset" \/ (read.kind = "limited" /\ honest)

Progress ==
    BringsItems /\ read.outcome = "reading" =>
        /\ read.requests <= Len(read.items)
        /\ Len(read.items) < MaxItems

ReadInv == ReadsTyped /\ Progress /\ ReadsAreBounded

---------------------------------------------------------------------------
LEMMA LimitsAreNatural ==
    MaxItems \in Nat /\ MaxItems > 0 /\ PageSize \in Nat /\ OffsetMax \in Nat /\ NoToken \notin Nat
BY ReadsAssumption, SMT DEF ReadsAssumption

LEMMA RoomHolds ==
    ASSUME NEW a \in Nat, NEW b \in Nat, NEW m \in Nat, ~(b > m - a)
    PROVE  a + b <= m
BY SMT

LEMMA OneMore ==
    ASSUME NEW a \in Nat, NEW b \in Nat, NEW c \in Nat, NEW m \in Nat,
           a <= b, c # 0, b + c <= m, b + c # m
    PROVE  a + 1 <= b + c /\ b + c < m
BY SMT

LEMMA AlikeTyped == Alike \subseteq Seq(Items)
<1>1. \A n \in 0 .. PageSize + 1 : n \in Nat
  BY LimitsAreNatural, SMT
<1>. QED
  BY <1>1 DEF Alike

LEMMA Stretch ==
    ASSUME NEW s \in Seq(Items), NEW m \in Nat, NEW n \in Nat, n = 0 \/ m + n <= Len(s)
    PROVE  SubSeq(s, m + 1, m + n) \in Seq(Items) /\ Len(SubSeq(s, m + 1, m + n)) = n
<1>1. Len(s) \in Nat /\ DOMAIN s = 1 .. Len(s) /\ m + 1 \in Nat /\ m + n \in Nat
  BY SMT
<1>2. \A i \in m + 1 .. m + n : s[i] \in Items
  BY <1>1, ElementOfSeq, SMT
<1>. QED
  BY <1>1, <1>2, SubSeqProperties, SMT

\* A page is well formed whoever answers.  An honest one that is empty is the last.
LEMMA PagesTyped ==
    ASSUME ReadsTyped, NEW page \in IF honest THEN HonestPages ELSE AnyPages
    PROVE  /\ page \in Pages
           /\ honest /\ Len(page.items) = 0 => page.last
<1>. read.place \in Nat /\ list \in Seq(Items) /\ Len(list) \in Nat /\ honest \in BOOLEAN
  BY DEF ReadsTyped, ReadRecords
<1>1. CASE honest
  <2>1. PICK n \in 0 .. Asked :
           /\ n > 0 => read.place + n <= Len(list)
           /\ n = 0 => read.place >= Len(list)
           /\ page = PageOf(n)
    BY <1>1 DEF HonestPages
  <2>2. Asked \in Int
    <3>. Len(read.items) \in Nat
      BY DEF ReadsTyped, ReadRecords
    <3>. QED
      BY LimitsAreNatural, SMT DEF Asked, Room
  <2>3. n \in Nat
    BY <2>2, SMT
  <2>4. n = 0 \/ read.place + n <= Len(list)
    BY <2>1, <2>3, SMT
  <2>5. /\ SubSeq(list, read.place + 1, read.place + n) \in Seq(Items)
        /\ Len(SubSeq(list, read.place + 1, read.place + n)) = n
    BY <2>3, <2>4, Stretch
  <2>6. /\ PageOf(n).items = SubSeq(list, read.place + 1, read.place + n)
        /\ PageOf(n).last <=> (read.place + n >= Len(list))
    BY DEF PageOf
  <2>7. PageOf(n) \in Pages
    <3>1. (IF read.place + n >= Len(list) THEN NoToken ELSE read.place + n) \in Nat \cup {NoToken}
      BY <2>3, SMT
    <3>. QED
      BY <2>5, <3>1 DEF Pages, PageOf
  <2>8. Len(page.items) = 0 => page.last
    <3>1. CASE n = 0
      BY <2>1, <2>6, <3>1, SMT
    <3>2. CASE n # 0
      BY <2>1, <2>5, <2>6, <3>2
    <3>. QED
      BY <3>1, <3>2
  <2>. QED
    BY <2>1, <2>7, <2>8
<1>2. CASE ~honest
  <2>1. Tokens \subseteq Nat
    BY LimitsAreNatural, SMT DEF Tokens
  <2>2. 0 .. MaxItems + 1 \subseteq Nat /\ 0 \in Nat
    BY LimitsAreNatural, SMT
  <2>. QED
    BY <1>2, <2>1, <2>2, AlikeTyped DEF AnyPages, Pages
<1>. QED
  BY <1>1, <1>2

\* No page is collected beyond the limit.
LEMMA CollectedWithinLimit ==
    ASSUME ReadsTyped, NEW page \in Pages, Len(read.items) <= MaxItems, ~Overflows(page)
    PROVE  /\ Collected(page) \in Seq(Items)
           /\ Len(Collected(page)) <= MaxItems
           /\ read.kind # "first" => Len(Collected(page)) = Len(read.items) + Len(page.items)
<1>. /\ read.items \in Seq(Items) /\ page.items \in Seq(Items)
     /\ Len(read.items) \in Nat /\ Len(page.items) \in Nat
  BY DEF ReadsTyped, ReadRecords, Pages
<1>1. Room \in Nat /\ Room = MaxItems - Len(read.items)
  BY LimitsAreNatural, SMT DEF Room
<1>2. CASE Len(page.items) > Room
  <2>1. SubSeq(page.items, 1, Room) \in Seq(Items) /\ Len(SubSeq(page.items, 1, Room)) = Room
    BY <1>1, <1>2, SMT
  <2>2. read.kind = "first"
    BY <1>2 DEF Overflows
  <2>3. /\ read.items \o SubSeq(page.items, 1, Room) \in Seq(Items)
        /\ Len(read.items \o SubSeq(page.items, 1, Room)) = Len(read.items) + Room
    BY <1>1, <2>1, SMT
  <2>. QED
    <3>1. Collected(page) = read.items \o SubSeq(page.items, 1, Room)
      BY <1>2 DEF Collected
    <3>2. Len(read.items) + Room = MaxItems
      BY <1>1, LimitsAreNatural, SMT
    <3>. QED
      BY <2>2, <2>3, <3>1, <3>2, LimitsAreNatural, SMT
<1>3. CASE ~(Len(page.items) > Room)
  <2>1. /\ read.items \o page.items \in Seq(Items)
        /\ Len(read.items \o page.items) = Len(read.items) + Len(page.items)
    BY SMT
  <2>. QED
    <3>1. Collected(page) = read.items \o page.items
      BY <1>3 DEF Collected
    <3>2. Len(read.items) + Len(page.items) <= MaxItems
      BY <1>1, <1>3, LimitsAreNatural, RoomHolds
    <3>. QED
      BY <2>1, <3>1, <3>2
<1>. QED
  BY <1>2, <1>3

LEMMA ReadInitInv == ReadInit => ReadInv
<1>. SUFFICES ASSUME ReadInit PROVE ReadInv
  OBVIOUS
<1>1. PICK kind \in ReadKinds, wanted \in Items \cup {NoItem} :
         read = [kind |-> kind, wanted |-> wanted, items |-> <<>>, place |-> 0,
                 seen |-> IF kind \in UrlKinds THEN {0} ELSE {}, requests |-> 0,
                 outcome |-> "reading"]
  BY DEF ReadInit
<1>2. (IF kind \in UrlKinds THEN {0} ELSE {}) \in SUBSET Nat
  BY SMT
<1>3. read \in ReadRecords
  BY <1>1, <1>2 DEF ReadRecords, Outcomes
<1>4. list \in Seq(Items)
  <2>1. PICK n \in 0 .. MaxLength : list \in [1 .. n -> Items]
    BY DEF ReadInit, Lists
  <2>2. n \in Nat
    BY ReadsAssumption, SMT DEF ReadsAssumption
  <2>. QED
    BY <2>1, <2>2
<1>5. Len(read.items) = 0 /\ read.requests = 0
  BY <1>1
<1>. QED
  BY <1>3, <1>4, <1>5, LimitsAreNatural, SMT DEF ReadInv, ReadsTyped, Progress, ReadsAreBounded, ReadInit

\* A page: the loop ends with it, or goes on with room and, where pages are not
\* counted, with an item more.
LEMMA ReceiveKeepsInv ==
    ASSUME ReadInv, NEW page \in IF honest THEN HonestPages ELSE AnyPages, Receive(page)
    PROVE  ReadInv'
<1>. USE LimitsAreNatural
<1>1. ReadsTyped /\ Progress /\ ReadsAreBounded
  BY DEF ReadInv
<1>2. page \in Pages /\ (honest /\ Len(page.items) = 0 => page.last)
  BY <1>1, PagesTyped
<1>3. /\ read \in ReadRecords /\ read.requests \in Nat /\ read.kind \in ReadKinds
      /\ Len(read.items) \in Nat /\ Len(page.items) \in Nat
      /\ page.last \in BOOLEAN /\ honest \in BOOLEAN
  BY <1>1, <1>2 DEF ReadsTyped, ReadRecords, Pages
<1>4. list' = list /\ honest' = honest
  BY DEF Receive
<1>5. /\ Len(read.items) <= MaxItems
      /\ read.requests <= MaxItems \/ (read.kind = "limited" /\ ~honest)
  BY <1>1 DEF ReadsAreBounded
<1>6. /\ read.outcome = "reading"
      /\ read.kind \in Counted => read.requests < MaxItems
      /\ BringsItems => read.requests <= Len(read.items) /\ Len(read.items) < MaxItems
  BY <1>1 DEF Receive, Progress
<1>7. /\ read.requests + 1 \in Nat
      /\ read.requests + 1 <= MaxItems \/ (read.kind = "limited" /\ ~honest)
  <2>1. read.kind \in Counted \/ BringsItems \/ (read.kind = "limited" /\ ~honest)
    BY <1>3 DEF Counted, BringsItems
  <2>. QED
    BY <1>3, <1>6, <2>1, SMT
<1>8. CASE Overflows(page)
  <2>1. read' = [read EXCEPT !.requests = @ + 1, !.outcome = "refused"]
    BY <1>8 DEF Receive
  <2>2. /\ read' \in ReadRecords /\ read'.kind = read.kind /\ read'.items = read.items
        /\ read'.requests = read.requests + 1 /\ read'.outcome = "refused"
    BY <1>3, <1>7, <2>1 DEF ReadRecords, Outcomes
  <2>. QED
    BY <1>1, <1>4, <1>5, <1>7, <2>2 DEF ReadInv, ReadsTyped, Progress, ReadsAreBounded
<1>9. CASE ~Overflows(page)
  <2>. DEFINE all == Collected(page)
  <2>1. /\ all \in Seq(Items) /\ Len(all) \in Nat /\ Len(all) <= MaxItems
        /\ read.kind # "first" => Len(all) = Len(read.items) + Len(page.items)
    <3>1. /\ Collected(page) \in Seq(Items) /\ Len(Collected(page)) <= MaxItems
          /\ read.kind # "first" => Len(Collected(page)) = Len(read.items) + Len(page.items)
      BY <1>1, <1>2, <1>5, <1>9, CollectedWithinLimit
    <3>2. Len(Collected(page)) \in Nat
      BY <3>1, LenProperties
    <3>. QED
      BY <3>1, <3>2, Zenon
  <2>2. CASE ResultOf(page) # "none"
    <3>1. read' = [read EXCEPT !.requests = @ + 1, !.items = all, !.outcome = ResultOf(page)]
      BY <1>9, <2>2 DEF Receive
    <3>2. ResultOf(page) \in Outcomes \ {"reading"}
      BY <1>3, <2>2 DEF ResultOf, ReadKinds, Outcomes
    <3>. HIDE DEF all
    <3>3. /\ read' \in ReadRecords /\ read'.kind = read.kind /\ read'.items = all
          /\ read'.requests = read.requests + 1 /\ read'.outcome # "reading"
      BY <1>3, <1>7, <2>1, <3>1, <3>2 DEF ReadRecords
    <3>. QED
      BY <1>1, <1>4, <1>7, <2>1, <3>3 DEF ReadInv, ReadsTyped, Progress, ReadsAreBounded
  <2>3. CASE ResultOf(page) = "none" /\ CanGoOn(page)
    <3>1. read' = [read EXCEPT !.requests = @ + 1, !.items = all, !.place = PlaceAfter(page),
                               !.seen = @ \cup {PlaceAfter(page)}]
      BY <1>9, <2>3 DEF Receive
    <3>2. PlaceAfter(page) \in Nat
      <4>1. CASE read.kind = "offset"
        BY <1>2, <1>3, <4>1 DEF PlaceAfter, OffsetAfter, Pages
      <4>2. CASE read.kind # "offset"
        BY <2>3, <4>2 DEF PlaceAfter, CanGoOn, Tokens
      <4>. QED
        BY <4>1, <4>2
    <3>3. BringsItems => Len(page.items) # 0 /\ Len(all) # MaxItems
      <4>1. CASE read.kind = "offset"
        BY <2>3, <4>1 DEF ResultOf, CanGoOn, Full
      <4>2. CASE read.kind = "limited" /\ honest
        BY <1>2, <1>3, <2>3, <4>2 DEF ResultOf, Full
      <4>. QED
        BY <4>1, <4>2 DEF BringsItems
    <3>. HIDE DEF all
    <3>4. /\ read' \in ReadRecords /\ read'.kind = read.kind /\ read'.items = all
          /\ read'.requests = read.requests + 1
      <4>1. read.seen \cup {PlaceAfter(page)} \in SUBSET Nat
        BY <1>3, <3>2 DEF ReadRecords
      <4>. QED
        BY <1>3, <1>7, <2>1, <3>1, <3>2, <4>1 DEF ReadRecords
    <3>5. BringsItems => read.requests + 1 <= Len(all) /\ Len(all) < MaxItems
      <4>1. BringsItems => read.kind # "first"
        BY DEF BringsItems
      <4>. QED
        BY <1>3, <1>6, <2>1, <3>3, <4>1, OneMore
    <3>. QED
      BY <1>1, <1>4, <1>7, <2>1, <3>4, <3>5
      DEF ReadInv, ReadsTyped, Progress, ReadsAreBounded, BringsItems
  <2>4. CASE ResultOf(page) = "none" /\ ~CanGoOn(page)
    <3>1. read' = [read EXCEPT !.requests = @ + 1, !.outcome = "refused"]
      BY <1>9, <2>4 DEF Receive
    <3>2. /\ read' \in ReadRecords /\ read'.kind = read.kind /\ read'.items = read.items
          /\ read'.requests = read.requests + 1 /\ read'.outcome = "refused"
      BY <1>3, <1>7, <3>1 DEF ReadRecords, Outcomes
    <3>. QED
      BY <1>1, <1>4, <1>5, <1>7, <3>2 DEF ReadInv, ReadsTyped, Progress, ReadsAreBounded
  <2>. QED
    BY <2>2, <2>3, <2>4
<1>. QED
  BY <1>8, <1>9

LEMMA ReadStepKeepsInv == ReadInv /\ [ReadNext]_readVars => ReadInv'
<1>. SUFFICES ASSUME ReadInv, [ReadNext]_readVars PROVE ReadInv'
  OBVIOUS
<1>. USE LimitsAreNatural
<1>1. CASE \E page \in IF honest THEN HonestPages ELSE AnyPages : Receive(page)
  BY <1>1, ReceiveKeepsInv
<1>2. CASE TooManyPages
  <2>1. /\ read' \in ReadRecords /\ read'.kind = read.kind /\ read'.items = read.items
        /\ read'.requests = read.requests /\ read'.outcome = "refused"
        /\ list' = list /\ honest' = honest
    BY <1>2 DEF TooManyPages, ReadInv, ReadsTyped, ReadRecords, Outcomes
  <2>. QED
    BY <2>1 DEF ReadInv, ReadsTyped, Progress, ReadsAreBounded
<1>3. CASE PageFails
  <2>1. read.requests \in Nat /\ Len(read.items) \in Nat /\ read \in ReadRecords
        /\ honest \in BOOLEAN /\ read.kind \in ReadKinds
    BY DEF ReadInv, ReadsTyped, ReadRecords
  <2>2. /\ read' \in ReadRecords /\ read'.kind = read.kind /\ read'.items = read.items
        /\ read'.requests = read.requests + 1 /\ read'.outcome = "failed"
        /\ list' = list /\ honest' = honest
    <3>1. read.requests + 1 \in Nat /\ "failed" \in Outcomes
      BY <2>1 DEF Outcomes
    <3>2. read' = [read EXCEPT !.requests = @ + 1, !.outcome = "failed"]
          /\ list' = list /\ honest' = honest
      BY <1>3 DEF PageFails
    <3>. QED
      BY <2>1, <3>1, <3>2 DEF ReadRecords
  <2>3. read.requests < MaxItems \/ (read.kind = "limited" /\ ~honest)
    <3>1. read.kind \in Counted \/ BringsItems \/ (read.kind = "limited" /\ ~honest)
      BY <2>1 DEF Counted, BringsItems
    <3>2. read.kind \in Counted => read.requests < MaxItems
      BY <1>3 DEF PageFails
    <3>3. BringsItems => read.requests <= Len(read.items) /\ Len(read.items) < MaxItems
      BY <1>3 DEF PageFails, ReadInv, Progress
    <3>. QED
      BY <2>1, <3>1, <3>2, <3>3, SMT
  <2>4. Len(read.items) <= MaxItems
    BY DEF ReadInv, ReadsAreBounded
  <2>5. read.requests + 1 <= MaxItems \/ (read.kind = "limited" /\ ~honest)
    BY <2>1, <2>3, SMT
  <2>. QED
    BY <2>1, <2>2, <2>4, <2>5 DEF ReadInv, ReadsTyped, Progress, ReadsAreBounded
<1>4. CASE Added
  <2>1. list' \in Seq(Items)
    BY <1>4 DEF Added, ReadInv, ReadsTyped
  <2>. QED
    BY <1>4, <2>1 DEF Added, ReadInv, ReadsTyped, Progress, ReadsAreBounded, BringsItems
<1>5. CASE Strays
  <2>1. read' = read /\ list' \in Seq(Items) /\ honest' = FALSE /\ honest = TRUE
    BY <1>5 DEF Strays, ReadInv, ReadsTyped
  <2>2. ReadsTyped'
    BY <2>1 DEF ReadInv, ReadsTyped
  <2>3. Progress'
    BY <2>1 DEF ReadInv, Progress, BringsItems
  <2>4. ReadsAreBounded'
    BY <2>1 DEF ReadInv, ReadsAreBounded
  <2>. QED
    BY <2>2, <2>3, <2>4 DEF ReadInv
<1>6. CASE UNCHANGED readVars
  BY <1>6 DEF readVars, ReadInv, ReadsTyped, Progress, ReadsAreBounded, BringsItems
<1>. QED
  BY <1>1, <1>2, <1>3, <1>4, <1>5, <1>6 DEF ReadNext

\* Whatever the provider answers, a read holds at most as many items as it may, and
\* asks at most as often; a limited search, while the provider follows the protocol.
THEOREM ReadsEnd == ReadSpec => []ReadsAreBounded
<1>1. ReadInv => ReadsAreBounded
  BY DEF ReadInv
<1>. QED
  BY <1>1, ReadInitInv, ReadStepKeepsInv, PTL DEF ReadSpec

---------------------------------------------------------------------------
(* What a provider gives that follows the protocol.                         *)

\* The second sequence begins with the first.
Begins(s, t) == Len(s) <= Len(t) /\ \A i \in 1 .. Len(s) : s[i] = t[i]

\* A loop that goes on is where its items end, there is more to come, and it has been
\* nowhere beyond.
GoesOn ==
    /\ read.place = Len(read.items) /\ read.requests <= read.place
    /\ read.place > 0 => read.place < Len(list)
    /\ read.seen \subseteq 0 .. read.place

EndsRightly ==
    /\ read.outcome = "whole"   => Len(read.items) >= Len(first)
    /\ read.outcome = "part"    => Len(read.items) = MaxItems
    /\ read.outcome = "absent"  => \A i \in 1 .. Len(first) : first[i] # read.wanted
    /\ read.outcome = "refused" => Len(list) > MaxItems

ReadsFollow ==
    honest =>
        /\ first \in Seq(Items) /\ Len(list) <= MaxLength
        /\ Begins(first, list) /\ Begins(read.items, list)
        /\ read.outcome = "reading" => GoesOn
        /\ EndsRightly

\* The page holds the n items that come next.
Holds(page, n) ==
    /\ page.items \in Seq(Items) /\ Len(page.items) = n
    /\ \A i \in 1 .. n : page.items[i] = list[read.place + i]
    /\ page.start = read.place /\ page.total = Len(list)
    /\ read.place + n <= Len(list)
    /\ n = 0 => read.place = Len(list)
    /\ page.last <=> (read.place + n = Len(list))
    /\ page.next = NoToken <=> (read.place + n = Len(list))
    /\ page.next # NoToken => page.next = read.place + n

LEMMA StretchItems ==
    ASSUME NEW s \in Seq(Items), NEW m \in Nat, NEW n \in Nat, m + n <= Len(s)
    PROVE  \A i \in 1 .. n : SubSeq(s, m + 1, m + n)[i] = s[m + i]
<1>1. Len(s) \in Nat /\ DOMAIN s = 1 .. Len(s) /\ m + 1 \in Int /\ m + n \in Int
  BY SMT
<1>2. \A i \in m + 1 .. m + n : s[i] \in Items
  BY <1>1, ElementOfSeq, SMT
<1>3. \A i \in 1 .. (m + n) - (m + 1) + 1 : SubSeq(s, m + 1, m + n)[i] = s[(m + 1) + i - 1]
  BY <1>1, <1>2, SubSeqProperties
<1>4. ASSUME NEW i \in 1 .. n
      PROVE  SubSeq(s, m + 1, m + n)[i] = s[m + i]
  <2>1. i \in 1 .. (m + n) - (m + 1) + 1 /\ (m + 1) + i - 1 = m + i
    BY SMT
  <2>. QED
    BY <1>3, <2>1
<1>. QED
  BY <1>4

LEMMA HonestPagesHold ==
    ASSUME ReadsTyped, GoesOn, NEW page \in HonestPages
    PROVE  \E n \in Nat : Holds(page, n)
<1>. /\ read.place \in Nat /\ list \in Seq(Items) /\ Len(list) \in Nat
     /\ Len(read.items) \in Nat
  BY DEF ReadsTyped, ReadRecords
<1>1. PICK n \in 0 .. Asked :
         /\ n > 0 => read.place + n <= Len(list)
         /\ n = 0 => read.place >= Len(list)
         /\ page = PageOf(n)
  BY DEF HonestPages
<1>2. n \in Nat
  <2>1. Asked \in Int
    BY LimitsAreNatural, SMT DEF Asked, Room
  <2>. QED
    BY <2>1, SMT
<1>3. read.place + n <= Len(list) /\ (n = 0 => read.place = Len(list))
  BY <1>1, <1>2, SMT DEF GoesOn
<1>4. /\ page.items = SubSeq(list, read.place + 1, read.place + n)
      /\ page.start = read.place /\ page.total = Len(list)
      /\ page.last <=> (read.place + n >= Len(list))
      /\ page.next = IF read.place + n >= Len(list) THEN NoToken ELSE read.place + n
  BY <1>1 DEF PageOf
<1>5. /\ page.items \in Seq(Items) /\ Len(page.items) = n
      /\ \A i \in 1 .. n : page.items[i] = list[read.place + i]
  <2>1. /\ SubSeq(list, read.place + 1, read.place + n) \in Seq(Items)
        /\ Len(SubSeq(list, read.place + 1, read.place + n)) = n
    BY <1>2, <1>3, Stretch
  <2>2. \A i \in 1 .. n : SubSeq(list, read.place + 1, read.place + n)[i] = list[read.place + i]
    BY <1>2, <1>3, StretchItems
  <2>. QED
    BY <1>4, <2>1, <2>2
<1>6. (read.place + n >= Len(list)) <=> (read.place + n = Len(list))
  BY <1>2, <1>3, SMT
<1>7. read.place + n # NoToken
  BY <1>2, LimitsAreNatural
<1>. QED
  BY <1>2, <1>3, <1>4, <1>5, <1>6, <1>7 DEF Holds

\* The items of the page are added to those of the pages before, which they follow in
\* the collection.
LEMMA CollectedFollows ==
    ASSUME ReadsTyped, GoesOn, Len(read.items) <= MaxItems, Begins(read.items, list),
           NEW page, NEW n \in Nat, Holds(page, n)
    PROVE  /\ Collected(page) \in Seq(Items)
           /\ Len(Collected(page)) = IF n > Room THEN MaxItems ELSE read.place + n
           /\ Begins(Collected(page), list)
<1>. DEFINE taken == IF n > Room THEN SubSeq(page.items, 1, Room) ELSE page.items
            m == IF n > Room THEN Room ELSE n
<1>1. /\ read.items \in Seq(Items) /\ Len(read.items) \in Nat /\ read.place = Len(read.items)
      /\ list \in Seq(Items) /\ Len(list) \in Nat
  BY DEF ReadsTyped, ReadRecords, GoesOn
<1>2. Room \in Nat /\ Len(read.items) + Room = MaxItems
  BY <1>1, LimitsAreNatural, SMT DEF Room
<1>3. /\ page.items \in Seq(Items) /\ Len(page.items) = n
      /\ \A i \in 1 .. n : page.items[i] = list[read.place + i]
      /\ read.place + n <= Len(list)
  BY DEF Holds
<1>4. Collected(page) = read.items \o taken
  BY <1>3 DEF Collected
<1>5. /\ taken \in Seq(Items) /\ Len(taken) = m /\ m \in Nat /\ m <= n
      /\ \A i \in 1 .. m : taken[i] = page.items[i]
  <2>1. CASE n > Room
    <3>1. Room = 0 \/ 0 + Room <= Len(page.items)
      BY <1>2, <1>3, <2>1, SMT
    <3>2. SubSeq(page.items, 0 + 1, 0 + Room) \in Seq(Items)
          /\ Len(SubSeq(page.items, 0 + 1, 0 + Room)) = Room
      BY <1>2, <1>3, <3>1, Stretch
    <3>3. \A i \in 1 .. Room : SubSeq(page.items, 0 + 1, 0 + Room)[i] = page.items[0 + i]
      <4>1. 0 + Room <= Len(page.items)
        BY <1>2, <1>3, <2>1, SMT
      <4>. QED
        BY <1>2, <1>3, <4>1, StretchItems
    <3>4. 0 + 1 = 1 /\ 0 + Room = Room /\ \A i \in 1 .. Room : 0 + i = i
      BY <1>2, SMT
    <3>5. taken = SubSeq(page.items, 1, Room) /\ m = Room
      BY <2>1
    <3>6. Room <= n
      BY <1>2, <2>1, SMT
    <3>. QED
      BY <1>2, <3>2, <3>3, <3>4, <3>5, <3>6
  <2>2. CASE ~(n > Room)
    BY <1>3, <2>2
  <2>. QED
    BY <2>1, <2>2
<1>. HIDE DEF taken
<1>6. /\ Collected(page) \in Seq(Items)
      /\ Len(Collected(page)) = Len(read.items) + m
      /\ \A i \in 1 .. Len(read.items) + m :
           Collected(page)[i] = IF i <= Len(read.items) THEN read.items[i]
                                ELSE taken[i - Len(read.items)]
  <2>. HIDE DEF m
  <2>1. /\ read.items \o taken \in Seq(Items)
        /\ Len(read.items \o taken) = Len(read.items) + Len(taken)
        /\ \A i \in 1 .. Len(read.items) + Len(taken) :
             (read.items \o taken)[i] = IF i <= Len(read.items) THEN read.items[i]
                                        ELSE taken[i - Len(read.items)]
    BY <1>1, <1>5, ConcatProperties
  <2>. QED
    BY <1>4, <1>5, <2>1, Zenon
<1>7. Len(Collected(page)) = IF n > Room THEN MaxItems ELSE read.place + n
  BY <1>1, <1>2, <1>6
<1>. HIDE DEF m
<1>8. Len(read.items) + m <= Len(list)
  BY <1>1, <1>3, <1>5, SMT
<1>9. ASSUME NEW i \in 1 .. Len(read.items) + m
      PROVE  Collected(page)[i] = list[i]
  <2>1. CASE i <= Len(read.items)
    <3>1. i \in 1 .. Len(read.items)
      BY <1>1, <2>1, SMT
    <3>. QED
      BY <1>6, <2>1, <3>1 DEF Begins
  <2>2. CASE ~(i <= Len(read.items))
    <3>1. /\ i - Len(read.items) \in 1 .. m /\ i - Len(read.items) \in 1 .. n
          /\ read.place + (i - Len(read.items)) = i
      BY <1>1, <1>5, <2>2, SMT
    <3>. QED
      BY <1>3, <1>5, <1>6, <2>2, <3>1
  <2>. QED
    BY <2>1, <2>2
<1>. QED
  BY <1>6, <1>7, <1>8, <1>9 DEF Begins

\* Nothing is cut off but what goes beyond the limit.
LEMMA NothingCutOff ==
    ASSUME ReadsTyped, GoesOn, Len(read.items) <= MaxItems, Begins(read.items, list),
           NEW page, NEW n \in Nat, Holds(page, n), ~Overflows(page)
    PROVE  /\ Len(Collected(page)) = read.place + n \/ (read.kind = "first" /\ Full(page))
           /\ Full(page) <=> (Len(Collected(page)) = MaxItems)
<1>1. n > Room => read.kind = "first"
  BY DEF Overflows, Holds
<1>2. Len(Collected(page)) = IF n > Room THEN MaxItems ELSE read.place + n
  BY CollectedFollows
<1>. QED
  BY <1>1, <1>2 DEF Full

\* A loop without a result is not at the end of the collection.
LEMMA NotAtTheEnd ==
    ASSUME ReadsTyped, GoesOn, Len(read.items) <= MaxItems, Begins(read.items, list),
           Len(list) <= MaxLength,
           NEW page, NEW n \in Nat, Holds(page, n), ~Overflows(page), ResultOf(page) = "none"
    PROVE  /\ read.place + n < Len(list) /\ n > 0
           /\ Len(Collected(page)) = read.place + n
           /\ read.kind # "offset" => page.next = read.place + n
           /\ OffsetAfter(page) = read.place + n
<1>1. /\ read.place \in Nat /\ Len(list) \in Nat /\ read.kind \in ReadKinds
      /\ Len(list) <= OffsetMax
  BY LimitsAreNatural, ReadsAssumption, SMT DEF ReadsTyped, ReadRecords, ReadsAssumption
<1>2. /\ Len(page.items) = n /\ page.start = read.place /\ page.total = Len(list)
      /\ read.place + n <= Len(list)
      /\ n = 0 => read.place = Len(list)
      /\ page.last <=> (read.place + n = Len(list))
      /\ page.next = NoToken <=> (read.place + n = Len(list))
      /\ page.next # NoToken => page.next = read.place + n
  BY DEF Holds
<1>3. OffsetAfter(page) = read.place + n /\ read.place + n <= OffsetMax
  BY <1>1, <1>2, LimitsAreNatural, SMT DEF OffsetAfter
<1>4. read.place + n # Len(list)
  <2>1. CASE read.kind = "offset"
    <3>1. ~(OffsetAfter(page) >= page.total)
      BY <1>3, <2>1 DEF ResultOf
    <3>. QED
      BY <1>1, <1>2, <1>3, <3>1, SMT
  <2>2. CASE read.kind \in {"issues", "documents", "limited", "find"}
    <3>1. ~page.last
      BY <2>2 DEF ResultOf
    <3>. QED
      BY <1>2, <3>1
  <2>3. CASE read.kind \in {"pages", "first"}
    <3>1. page.next # NoToken
      BY <2>3 DEF ResultOf
    <3>. QED
      BY <1>2, <3>1
  <2>. QED
    BY <1>1, <2>1, <2>2, <2>3 DEF ReadKinds
<1>5. read.place + n < Len(list) /\ n > 0
  BY <1>1, <1>2, <1>4, SMT
<1>6. read.kind = "first" => ~Full(page)
  BY DEF ResultOf
<1>7. Len(Collected(page)) = read.place + n
  BY <1>6, NothingCutOff
<1>. QED
  BY <1>2, <1>3, <1>4, <1>5, <1>7

\* What the outcome says of the collection is true.
LEMMA ResultsAreRight ==
    ASSUME ReadsTyped, GoesOn, Len(read.items) <= MaxItems, Begins(read.items, list),
           Len(list) <= MaxLength, Begins(first, list), first \in Seq(Items),
           NEW page, NEW n \in Nat, Holds(page, n), ~Overflows(page)
    PROVE  /\ ResultOf(page) = "whole"  => Len(Collected(page)) >= Len(first)
           /\ ResultOf(page) = "part"   => Len(Collected(page)) = MaxItems
           /\ ResultOf(page) = "absent" => \A i \in 1 .. Len(first) : first[i] # read.wanted
           /\ ResultOf(page) # "refused"
<1>1. /\ read.place \in Nat /\ Len(list) \in Nat /\ Len(first) \in Nat
      /\ read.kind \in ReadKinds
  BY DEF ReadsTyped, ReadRecords
<1>2. /\ Len(page.items) = n /\ page.start = read.place /\ page.total = Len(list)
      /\ read.place + n <= Len(list)
      /\ n = 0 => read.place = Len(list)
      /\ page.last <=> (read.place + n = Len(list))
      /\ page.next = NoToken <=> (read.place + n = Len(list))
  BY DEF Holds
<1>3. /\ Len(Collected(page)) = read.place + n \/ (read.kind = "first" /\ Full(page))
      /\ Full(page) <=> (Len(Collected(page)) = MaxItems)
  BY NothingCutOff
<1>4. Len(first) <= Len(list) /\ \A i \in 1 .. Len(first) : first[i] = list[i]
  BY DEF Begins
<1>5. /\ Collected(page) \in Seq(Items)
      /\ Len(Collected(page)) \in Nat /\ DOMAIN Collected(page) = 1 .. Len(Collected(page))
      /\ \A i \in 1 .. Len(Collected(page)) : Collected(page)[i] = list[i]
  <2>1. Collected(page) \in Seq(Items) /\ Begins(Collected(page), list)
    BY CollectedFollows
  <2>. QED
    BY <2>1, LenProperties DEF Begins
<1>6. ResultOf(page) = "part" => Full(page)
  BY <1>1 DEF ResultOf, ReadKinds
<1>7. ASSUME ResultOf(page) = "whole"
      PROVE  Len(Collected(page)) >= Len(first)
  <2>1. CASE read.kind = "offset"
    <3>1. Len(page.items) = 0 \/ OffsetAfter(page) >= page.total \/ Full(page)
      BY <1>7, <2>1 DEF ResultOf
    <3>2. Len(Collected(page)) = read.place + n /\ Len(list) <= MaxItems
      <4>1. ~(page.total > MaxItems)
        BY <2>1 DEF Overflows
      <4>. QED
        BY <1>1, <1>2, <1>3, <2>1, <4>1, LimitsAreNatural, SMT
    <3>3. OffsetAfter(page) = read.place + n
      BY <1>2 DEF OffsetAfter
    <3>. QED
      BY <1>1, <1>2, <1>3, <1>4, <3>1, <3>2, <3>3, LimitsAreNatural, SMT
  <2>2. CASE read.kind \in {"issues", "documents", "limited", "find"}
    <3>1. page.last
      BY <1>7, <2>2 DEF ResultOf
    <3>. QED
      BY <1>1, <1>2, <1>3, <1>4, <2>2, <3>1, SMT
  <2>3. CASE read.kind \in {"pages", "first"}
    <3>1. page.next = NoToken /\ (read.kind = "first" => ~Full(page))
      BY <1>7, <2>3 DEF ResultOf
    <3>. QED
      BY <1>1, <1>2, <1>3, <1>4, <3>1, SMT
  <2>. QED
    BY <1>1, <2>1, <2>2, <2>3 DEF ReadKinds
<1>8. ASSUME ResultOf(page) = "absent", NEW i \in 1 .. Len(first)
      PROVE  first[i] # read.wanted
  <2>1. read.kind = "find"
    BY <1>1, <1>8 DEF ResultOf, ReadKinds
  <2>2. page.last /\ \A j \in DOMAIN Collected(page) : Collected(page)[j] # read.wanted
    BY <1>8, <2>1 DEF ResultOf
  <2>3. Len(Collected(page)) = Len(list)
    BY <1>2, <1>3, <2>1, <2>2
  <2>4. i \in 1 .. Len(Collected(page))
    BY <1>1, <1>4, <2>3, SMT
  <2>. QED
    BY <1>4, <1>5, <2>2, <2>4
<1>9. ResultOf(page) # "refused"
  BY <1>1 DEF ResultOf, ReadKinds
<1>. QED
  BY <1>3, <1>6, <1>7, <1>8, <1>9

LEMMA ReceiveFollows ==
    ASSUME ReadInv, ReadsFollow, honest, NEW page \in HonestPages, Receive(page)
    PROVE  ReadsFollow'
<1>1. /\ ReadsTyped /\ read \in ReadRecords /\ read.place \in Nat /\ read.requests \in Nat
      /\ Len(list) \in Nat /\ Len(read.items) \in Nat /\ Len(read.items) <= MaxItems
      /\ read.kind \in ReadKinds
  BY DEF ReadInv, ReadsAreBounded, ReadsTyped, ReadRecords
<1>2. list' = list /\ first' = first /\ honest' = honest /\ read.outcome = "reading"
  BY DEF Receive
<1>3. /\ first \in Seq(Items) /\ Len(list) <= MaxLength
      /\ Begins(first, list) /\ Begins(read.items, list) /\ GoesOn
  BY <1>2 DEF ReadsFollow
<1>4. PICK n \in Nat : Holds(page, n)
  BY <1>1, <1>3, HonestPagesHold
<1>5. /\ read.place = Len(read.items) /\ read.requests <= read.place
      /\ read.seen \subseteq 0 .. read.place
  BY <1>3 DEF GoesOn
<1>6. /\ Len(page.items) = n /\ page.total = Len(list) /\ read.place + n <= Len(list)
  BY <1>4 DEF Holds
<1>7. CASE Overflows(page)
  <2>1. read' = [read EXCEPT !.requests = @ + 1, !.outcome = "refused"]
    BY <1>7 DEF Receive
  <2>2. read'.items = read.items /\ read'.outcome = "refused"
    BY <1>1, <2>1 DEF ReadRecords
  <2>3. Len(list) > MaxItems
    BY <1>1, <1>5, <1>6, <1>7, LimitsAreNatural, SMT DEF Overflows, Room
  <2>. QED
    BY <1>2, <1>3, <2>2, <2>3 DEF ReadsFollow, EndsRightly
<1>8. CASE ~Overflows(page)
  <2>1. Begins(Collected(page), list)
    BY <1>1, <1>3, <1>4, CollectedFollows
  <2>2. CASE ResultOf(page) # "none"
    <3>1. read' = [read EXCEPT !.requests = @ + 1, !.items = Collected(page),
                               !.outcome = ResultOf(page)]
      BY <1>8, <2>2 DEF Receive
    <3>2. /\ read'.items = Collected(page) /\ read'.outcome = ResultOf(page)
          /\ read'.wanted = read.wanted
      BY <1>1, <3>1 DEF ReadRecords
    <3>3. ResultOf(page) # "reading"
      BY <1>1 DEF ResultOf, ReadKinds
    <3>4. /\ ResultOf(page) = "whole"  => Len(Collected(page)) >= Len(first)
          /\ ResultOf(page) = "part"   => Len(Collected(page)) = MaxItems
          /\ ResultOf(page) = "absent" => \A i \in 1 .. Len(first) : first[i] # read.wanted
          /\ ResultOf(page) # "refused"
      BY <1>1, <1>3, <1>4, <1>8, ResultsAreRight
    <3>. QED
      BY <1>2, <1>3, <2>1, <3>2, <3>3, <3>4 DEF ReadsFollow, EndsRightly
  <2>3. CASE ResultOf(page) = "none"
    <3>1. /\ read.place + n < Len(list) /\ n > 0
          /\ Len(Collected(page)) = read.place + n
          /\ read.kind # "offset" => page.next = read.place + n
          /\ OffsetAfter(page) = read.place + n
      BY <1>1, <1>3, <1>4, <1>8, <2>3, NotAtTheEnd
    <3>2. read.place + n \in Tokens \ read.seen /\ read.place + n <= OffsetMax
      <4>1. Len(list) <= OffsetMax
        BY <1>1, <1>3, ReadsAssumption, SMT DEF ReadsAssumption
      <4>2. read.place + n <= OffsetMax
        BY <1>1, <1>6, <4>1, LimitsAreNatural, SMT
      <4>3. read.place + n \notin 0 .. read.place
        BY <1>1, <3>1, SMT
      <4>. QED
        BY <1>1, <1>5, <4>2, <4>3, LimitsAreNatural, SMT DEF Tokens
    <3>3. CASE CanGoOn(page)
      <4>1. PlaceAfter(page) = read.place + n
        BY <3>1 DEF PlaceAfter
      <4>2. read' = [read EXCEPT !.requests = @ + 1, !.items = Collected(page),
                                 !.place = read.place + n,
                                 !.seen = @ \cup {read.place + n}]
        BY <1>8, <2>3, <3>3, <4>1 DEF Receive
      <4>3. /\ read'.items = Collected(page) /\ read'.outcome = "reading"
            /\ read'.place = read.place + n /\ read'.requests = read.requests + 1
            /\ read'.seen = read.seen \cup {read.place + n}
        BY <1>1, <1>2, <4>2 DEF ReadRecords
      <4>4. read.requests + 1 <= read.place + n
        BY <1>1, <1>5, <3>1, SMT
      <4>5. read.seen \cup {read.place + n} \subseteq 0 .. (read.place + n)
        <5>1. 0 .. read.place \subseteq 0 .. (read.place + n)
          BY <1>1, SMT
        <5>2. read.place + n \in 0 .. (read.place + n)
          BY <1>1, SMT
        <5>. QED
          BY <1>5, <5>1, <5>2, Zenon
      <4>6. GoesOn'
        BY <1>2, <3>1, <4>3, <4>4, <4>5 DEF GoesOn
      <4>. QED
        BY <1>2, <1>3, <2>1, <4>3, <4>6 DEF ReadsFollow, EndsRightly
    <3>4. CASE ~CanGoOn(page)
      <4>1. read' = [read EXCEPT !.requests = @ + 1, !.outcome = "refused"]
        BY <1>8, <2>3, <3>4 DEF Receive
      <4>2. read'.items = read.items /\ read'.outcome = "refused"
        BY <1>1, <4>1 DEF ReadRecords
      <4>3. Full(page)
        BY <3>1, <3>2, <3>4 DEF CanGoOn
      <4>4. Len(list) > MaxItems
        BY <1>1, <3>1, <4>3, LimitsAreNatural, SMT DEF Full
      <4>. QED
        BY <1>2, <1>3, <4>2, <4>4 DEF ReadsFollow, EndsRightly
    <3>. QED
      BY <3>3, <3>4
  <2>. QED
    BY <2>2, <2>3
<1>. QED
  BY <1>7, <1>8

LEMMA ReadInitFollows == ReadInit => ReadsFollow
<1>. SUFFICES ASSUME ReadInit PROVE ReadsFollow
  OBVIOUS
<1>1. PICK n \in 0 .. MaxLength : list \in [1 .. n -> Items]
  BY DEF ReadInit, Lists
<1>2. n \in Nat /\ n <= MaxLength
  BY ReadsAssumption, SMT DEF ReadsAssumption
<1>3. list \in Seq(Items) /\ Len(list) = n /\ first = list
  BY <1>1, <1>2 DEF ReadInit
<1>4. PICK kind \in ReadKinds, wanted \in Items \cup {NoItem} :
         read = [kind |-> kind, wanted |-> wanted, items |-> <<>>, place |-> 0,
                 seen |-> IF kind \in UrlKinds THEN {0} ELSE {}, requests |-> 0,
                 outcome |-> "reading"]
  BY DEF ReadInit
<1>5. /\ read.items = <<>> /\ Len(read.items) = 0 /\ read.place = 0 /\ read.requests = 0
      /\ read.outcome = "reading" /\ read.seen \subseteq {0}
  BY <1>4
<1>6. GoesOn
  BY <1>5, SMT DEF GoesOn
<1>7. Begins(read.items, list)
  BY <1>2, <1>3, <1>5, SMT DEF Begins
<1>8. Begins(first, list)
  BY <1>2, <1>3, SMT DEF Begins
<1>. QED
  BY <1>2, <1>3, <1>5, <1>6, <1>7, <1>8 DEF ReadsFollow, EndsRightly

LEMMA ReadStepFollows == ReadInv /\ ReadsFollow /\ [ReadNext]_readVars => ReadsFollow'
<1>. SUFFICES ASSUME ReadInv, ReadsFollow, [ReadNext]_readVars PROVE ReadsFollow'
  OBVIOUS
<1>1. /\ ReadsTyped /\ read \in ReadRecords /\ list \in Seq(Items) /\ Len(list) \in Nat
      /\ honest \in BOOLEAN /\ read.place \in Nat
  BY DEF ReadInv, ReadsTyped, ReadRecords
<1>2. CASE \E page \in IF honest THEN HonestPages ELSE AnyPages : Receive(page)
  <2>1. CASE honest
    BY <1>2, <2>1, ReceiveFollows
  <2>2. CASE ~honest
    BY <1>2, <2>2 DEF Receive, ReadsFollow
  <2>. QED
    BY <2>1, <2>2
<1>3. CASE TooManyPages
  <2>1. /\ read'.items = read.items /\ read'.outcome = "refused" /\ read.outcome = "reading"
        /\ list' = list /\ first' = first /\ honest' = honest /\ read.requests >= MaxItems
    BY <1>1, <1>3 DEF TooManyPages, ReadRecords
  <2>2. honest => Len(list) > MaxItems
    <3>1. read.requests \in Nat
      BY <1>1 DEF ReadRecords
    <3>. QED
      BY <1>1, <2>1, <3>1, LimitsAreNatural, SMT DEF ReadsFollow, GoesOn
  <2>. QED
    BY <2>1, <2>2 DEF ReadsFollow, EndsRightly
<1>4. CASE PageFails
  <2>1. /\ read'.items = read.items /\ read'.outcome = "failed"
        /\ list' = list /\ first' = first /\ honest' = honest
    BY <1>1, <1>4 DEF PageFails, ReadRecords
  <2>. QED
    BY <2>1 DEF ReadsFollow, EndsRightly
<1>5. CASE Added
  <2>1. PICK item \in Items : list' = Append(list, item)
    BY <1>5 DEF Added
  <2>2. read' = read /\ first' = first /\ honest' = honest /\ honest /\ Len(list) < MaxLength
    BY <1>5 DEF Added
  <2>3. Len(list') = Len(list) + 1 /\ \A i \in 1 .. Len(list) : list'[i] = list[i]
    BY <1>1, <2>1, AppendProperties
  <2>4. Len(list') \in Nat /\ Len(list') <= MaxLength
    BY <1>1, <2>2, <2>3, ReadsAssumption, SMT DEF ReadsAssumption
  <2>5. ASSUME NEW s \in Seq(Items), Begins(s, list)
        PROVE  Begins(s, list')
    BY <1>1, <2>3, <2>5 DEF Begins
  <2>6. read.items \in Seq(Items) /\ first \in Seq(Items)
    BY <1>1, <2>2 DEF ReadRecords, ReadsFollow
  <2>7. Begins(read.items, list') /\ Begins(first, list')
    BY <2>2, <2>5, <2>6 DEF ReadsFollow
  <2>8. read.outcome = "reading" => GoesOn'
    BY <1>1, <2>2, <2>3 DEF ReadsFollow, GoesOn
  <2>9. EndsRightly'
    BY <1>1, <2>2, <2>3, LimitsAreNatural DEF ReadsFollow, EndsRightly
  <2>. QED
    BY <2>2, <2>4, <2>6, <2>7, <2>8, <2>9 DEF ReadsFollow
<1>6. CASE Strays
  BY <1>6 DEF Strays, ReadsFollow
<1>7. CASE UNCHANGED readVars
  BY <1>7 DEF readVars, ReadsFollow, EndsRightly, GoesOn
<1>. QED
  BY <1>2, <1>3, <1>4, <1>5, <1>6, <1>7 DEF ReadNext

LEMMA FollowingIsComplete == ReadInv /\ ReadsFollow => ReadsAreComplete
<1>. SUFFICES ASSUME ReadInv, ReadsFollow, honest
              PROVE  /\ read.items = SubSeq(list, 1, Len(read.items))
                     /\ read.outcome = "whole"   => Len(read.items) >= Len(first)
                     /\ read.outcome = "part"    => Len(read.items) = MaxItems
                     /\ read.outcome = "absent"  => \A i \in DOMAIN first : first[i] # read.wanted
                     /\ read.outcome = "refused" => Len(list) > MaxItems
  BY DEF ReadsAreComplete
<1>1. /\ read.items \in Seq(Items) /\ list \in Seq(Items) /\ first \in Seq(Items)
      /\ Len(read.items) \in Nat /\ Len(list) \in Nat /\ DOMAIN first = 1 .. Len(first)
  BY DEF ReadInv, ReadsTyped, ReadRecords, ReadsFollow
<1>2. Begins(read.items, list) /\ EndsRightly
  BY DEF ReadsFollow
<1>. DEFINE m == Len(read.items)
            begin == SubSeq(list, 0 + 1, 0 + m)
<1>3. begin \in Seq(Items) /\ Len(begin) = m
  <2>1. m = 0 \/ 0 + m <= Len(list)
    BY <1>1, <1>2, SMT DEF Begins
  <2>. QED
    BY <1>1, <2>1, Stretch
<1>4. \A i \in 1 .. m : begin[i] = list[0 + i]
  <2>1. 0 + m <= Len(list)
    BY <1>1, <1>2, SMT DEF Begins
  <2>. QED
    BY <1>1, <2>1, StretchItems
<1>5. \A i \in 1 .. m : read.items[i] = begin[i]
  <2>1. \A i \in 1 .. m : 0 + i = i
    BY <1>1, SMT
  <2>. QED
    BY <1>2, <1>4, <2>1 DEF Begins
<1>6. read.items = begin
  <2>. HIDE DEF begin
  <2>. QED
    BY <1>1, <1>3, <1>5, SeqEqual
<1>7. begin = SubSeq(list, 1, Len(read.items))
  BY <1>1, SMT
<1>. QED
  BY <1>1, <1>2, <1>6, <1>7 DEF EndsRightly

\* While the provider follows the protocol and its collection only grows at the end:
\* what counts as whole holds everything that was there when the read began, once and
\* in order; a part is said to be one; an issue that was there is found; and only a
\* collection beyond the limit is refused.
THEOREM ReadsTellTheTruth == ReadSpec => []ReadsAreComplete
BY ReadInitInv, ReadStepKeepsInv, ReadInitFollows, ReadStepFollows, FollowingIsComplete, PTL
DEF ReadSpec

---------------------------------------------------------------------------
(* Sums in the arithmetic of a width.  What a fold computes is shown by      *)
(* induction: of the subsets for which it went wrong there would be one      *)
(* without a smaller one.                                                    *)

LEMMA WidthIsPositive == Width \in Nat \ {0}
BY ReportsAssumption, SMT DEF ReportsAssumption

LEMMA Quotients ==
    ASSUME NEW a \in Nat, NEW w \in Nat \ {0}
    PROVE  a % w \in 0 .. w - 1 /\ a \div w \in Nat /\ a = (w * (a \div w)) + (a % w)
BY SMT

LEMMA AtLeastOnce == ASSUME NEW q \in Int, NEW w \in Nat, q >= 1 PROVE w * q >= w
BY SMT

LEMMA OneRemainder ==
    ASSUME NEW w \in Nat \ {0}, NEW p \in Nat, NEW q \in Nat, NEW r \in 0 .. w - 1,
           NEW s \in 0 .. w - 1, w * p + r = w * q + s
    PROVE  r = s
<1>1. w * (p - q) = s - r /\ w * (q - p) = r - s
  BY SMT
<1>2. ~(p - q >= 1) /\ ~(q - p >= 1)
  <2>1. ASSUME p - q >= 1 PROVE FALSE
    BY <1>1, <2>1, AtLeastOnce, SMT
  <2>2. ASSUME q - p >= 1 PROVE FALSE
    BY <1>1, <2>2, AtLeastOnce, SMT
  <2>. QED BY <2>1, <2>2
<1>3. p = q
  BY <1>2, SMT
<1>. QED
  BY <1>3, SMT

LEMMA AddedRemainder ==
    ASSUME NEW a \in Nat, NEW b \in Nat, NEW w \in Nat \ {0}
    PROVE  (a + (b % w)) % w = (a + b) % w
<1>. DEFINE r == b % w
            q == b \div w
            u == (a + r) \div w
            v == (a + b) \div w
<1>1. r \in 0 .. w - 1 /\ q \in Nat /\ b = w * q + r
  BY Quotients
<1>2. u \in Nat /\ (a + r) % w \in 0 .. w - 1 /\ a + r = w * u + ((a + r) % w)
  <2>1. a + r \in Nat BY <1>1, SMT
  <2>. QED BY <2>1, Quotients
<1>3. v \in Nat /\ (a + b) % w \in 0 .. w - 1 /\ a + b = w * v + ((a + b) % w)
  <2>1. a + b \in Nat BY SMT
  <2>. QED BY <2>1, Quotients
<1>. HIDE DEF r, q, u, v
<1>4. w * (u + q) + ((a + r) % w) = w * v + ((a + b) % w)
  BY <1>1, <1>2, <1>3, SMT
<1>5. u + q \in Nat
  BY <1>1, <1>2, SMT
<1>6. (a + r) % w = (a + b) % w
  BY <1>2, <1>3, <1>4, <1>5, OneRemainder
<1>. QED
  BY <1>6 DEF r

\* The sum of the values of a function over a set.
SumOver(f, S) == FoldFunctionOnSet(LAMBDA a, b : (a + b) % Width, 0, f, S)

\* Every set of subsets of a finite set that has a member has one without a smaller one.
LEMMA SmallestSubset ==
    ASSUME NEW S, IsFiniteSet(S), NEW Bad \in SUBSET SUBSET S, Bad # {}
    PROVE  \E T \in Bad : \A U \in Bad : U \subseteq T => U = T
<1>1. IsWellFoundedOn(StrictSubsetOrdering(S), SUBSET S)
  BY FS_FiniteSubsetsOfFinite, FS_StrictSubsetOrderingWellFounded
<1>2. PICK T \in Bad : \A U \in Bad : ~(<<U, T>> \in StrictSubsetOrdering(S))
  BY <1>1, WFMin
<1>. QED
  BY <1>2, Zenon DEF StrictSubsetOrdering

\* The equations of a sum over the subsets of a set.
IsIteration(f, S, g) ==
    g = [s \in SUBSET S |-> IF s = {} THEN 0
                            ELSE (f[CHOOSE x \in s : TRUE] + g[s \ {CHOOSE x \in s : TRUE}]) % Width]

LEMMA SumIsIteration ==
    ASSUME NEW f, NEW S
    PROVE  SumOver(f, S) = (CHOOSE g : IsIteration(f, S, g))[S]
BY DEF SumOver, FoldFunctionOnSet, MapThenFoldSet, IsIteration

Least(s) == CHOOSE x \in s : TRUE

LEMMA LeastIn == ASSUME NEW s, s # {} PROVE Least(s) \in s
BY DEF Least

LEMMA IterationAt ==
    ASSUME NEW f, NEW S, NEW g, IsIteration(f, S, g), NEW s \in SUBSET S
    PROVE  g[s] = IF s = {} THEN 0 ELSE (f[Least(s)] + g[s \ {Least(s)}]) % Width
BY Zenon DEF IsIteration, Least

\* The equations have a solution: those for the subsets of up to so many elements have.
LEMMA IterationExists ==
    ASSUME NEW S, IsFiniteSet(S), NEW f
    PROVE  \E g : IsIteration(f, S, g)
<1>. DEFINE Upto(n) == {s \in SUBSET S : Cardinality(s) <= n}
            Good(n, g) == g = [s \in Upto(n) |-> IF s = {} THEN 0
                                ELSE (f[Least(s)] + g[s \ {Least(s)}]) % Width]
            Bad == {n \in Nat : ~ \E g : Good(n, g)}
<1>0. \A s \in SUBSET S : IsFiniteSet(s) /\ Cardinality(s) \in Nat /\ Cardinality(s) <= Cardinality(S)
  BY FS_Subset, FS_CardinalityType
<1>1. Bad = {}
  <2>1. SUFFICES ASSUME Bad # {} PROVE FALSE
    OBVIOUS
  <2>2. PICK n \in Bad : \A m \in Bad : ~(<<m, n>> \in OpToRel(<, Nat))
    BY <2>1, WFMin, NatLessThanWellFounded, Zenon
  <2>3. n \in Nat /\ \A m \in Nat : m < n => \E g : Good(m, g)
    <3>1. n \in Nat
      BY <2>2
    <3>2. ASSUME NEW m \in Nat, m < n PROVE m \notin Bad
      <4>1. <<m, n>> \in OpToRel(<, Nat)
        BY <3>1, <3>2, Zenon DEF OpToRel
      <4>. QED BY <4>1, <2>2
    <3>. QED BY <3>1, <3>2
  <2>4. CASE n = 0
    <3>1. Upto(0) = {{}}
      <4>1. \A s \in SUBSET S : Cardinality(s) <= 0 => s = {}
        BY <1>0, FS_EmptySet, SMT
      <4>2. Cardinality({}) <= 0
        BY FS_EmptySet, SMT
      <4>. QED BY <4>1, <4>2
    <3>2. Good(0, [s \in Upto(0) |-> 0])
      BY <3>1
    <3>. QED BY <2>2, <2>4, <3>2
  <2>5. CASE n # 0
    <3>1. n - 1 \in Nat /\ n - 1 < n
      BY <2>3, <2>5, SMT
    <3>2. PICK g : Good(n - 1, g)
      BY <3>1, <2>3
    <3>. DEFINE h == [s \in Upto(n) |-> IF s = {} THEN 0
                          ELSE (f[Least(s)] + g[s \ {Least(s)}]) % Width]
    <3>3. \A s \in Upto(n - 1) : h[s] = g[s]
      <4>1. Upto(n - 1) \subseteq Upto(n)
        BY <1>0, <2>3, SMT
      <4>2. ASSUME NEW s \in Upto(n - 1) PROVE h[s] = g[s]
        <5>1. s \in Upto(n)
          BY <4>1
        <5>2. h[s] = IF s = {} THEN 0 ELSE (f[Least(s)] + g[s \ {Least(s)}]) % Width
          BY <5>1
        <5>3. g[s] = IF s = {} THEN 0 ELSE (f[Least(s)] + g[s \ {Least(s)}]) % Width
          BY <3>2, Zenon
        <5>. QED BY <5>2, <5>3
      <4>. QED BY <4>2
    <3>4. \A s \in Upto(n) : s # {} => s \ {Least(s)} \in Upto(n - 1)
      <4>1. ASSUME NEW s \in Upto(n), s # {} PROVE s \ {Least(s)} \in Upto(n - 1)
        <5>1. Least(s) \in s /\ IsFiniteSet(s) /\ Cardinality(s) \in Nat /\ Cardinality(s) <= n
          BY <4>1, LeastIn, <1>0
        <5>2. Cardinality(s \ {Least(s)}) = Cardinality(s) - 1
          BY <5>1, FS_RemoveElement
        <5>3. Cardinality(s \ {Least(s)}) <= n - 1
          BY <5>1, <5>2, <2>3, SMT
        <5>. QED BY <5>3
      <4>. QED BY <4>1
    <3>5. \A s \in Upto(n) : (IF s = {} THEN 0 ELSE (f[Least(s)] + g[s \ {Least(s)}]) % Width)
                            = (IF s = {} THEN 0 ELSE (f[Least(s)] + h[s \ {Least(s)}]) % Width)
      BY <3>3, <3>4, Zenon
    <3>6. Good(n, h)
      <4>. HIDE DEF Upto
      <4>. DEFINE k == [s \in Upto(n) |-> IF s = {} THEN 0
                          ELSE (f[Least(s)] + h[s \ {Least(s)}]) % Width]
      <4>1. h = k
        BY <3>5, Zenon
      <4>. QED BY <4>1
    <3>. QED BY <2>2, <3>6
  <2>. QED BY <2>4, <2>5
<1>2. Cardinality(S) \in Nat
  BY FS_CardinalityType
<1>3. PICK g : Good(Cardinality(S), g)
  BY <1>1, <1>2
<1>4. Upto(Cardinality(S)) = SUBSET S
  BY <1>0
<1>5. g = [s \in SUBSET S |-> IF s = {} THEN 0
                            ELSE (f[CHOOSE x \in s : TRUE] + g[s \ {CHOOSE x \in s : TRUE}]) % Width]
  BY <1>3, <1>4, Zenon DEF Least
<1>. QED
  BY <1>5 DEF IsIteration

\* Solutions agree where they meet.
LEMMA IterationsAgree ==
    ASSUME NEW f, NEW S, IsFiniteSet(S), NEW T \in SUBSET S, NEW g, NEW h,
           IsIteration(f, S, g), IsIteration(f, T, h)
    PROVE  g[T] = h[T]
<1>. DEFINE Bad == {s \in SUBSET T : g[s] # h[s]}
<1>0. IsFiniteSet(T)
  BY FS_Subset
<1>1. SUFFICES ASSUME Bad # {} PROVE FALSE
  OBVIOUS
<1>2. PICK s \in Bad : \A u \in Bad : u \subseteq s => u = s
  <2>1. Bad \in SUBSET SUBSET T
    OBVIOUS
  <2>. HIDE DEF Bad
  <2>. QED BY <1>0, <1>1, <2>1, SmallestSubset
<1>3. s \in SUBSET T /\ s \in SUBSET S /\ g[s] # h[s]
  BY <1>2
<1>4. g[s] = IF s = {} THEN 0 ELSE (f[Least(s)] + g[s \ {Least(s)}]) % Width
  BY <1>3, IterationAt
<1>5. h[s] = IF s = {} THEN 0 ELSE (f[Least(s)] + h[s \ {Least(s)}]) % Width
  BY <1>3, IterationAt
<1>6. s # {} /\ Least(s) \in s
  BY <1>3, <1>4, <1>5, LeastIn
<1>7. s \ {Least(s)} \notin Bad
  BY <1>2, <1>6
<1>8. g[s \ {Least(s)}] = h[s \ {Least(s)}]
  BY <1>3, <1>7
<1>. QED
  BY <1>3, <1>4, <1>5, <1>8

LEMMA SumEquation ==
    ASSUME NEW S, IsFiniteSet(S), NEW f
    PROVE  SumOver(f, S) = IF S = {} THEN 0
                          ELSE (f[Least(S)] + SumOver(f, S \ {Least(S)})) % Width
<1>1. PICK g : IsIteration(f, S, g) /\ SumOver(f, S) = g[S]
  BY IterationExists, SumIsIteration
<1>2. SumOver(f, S) = IF S = {} THEN 0 ELSE (f[Least(S)] + g[S \ {Least(S)}]) % Width
  BY <1>1, IterationAt
<1>. DEFINE T == S \ {Least(S)}
<1>3. T \in SUBSET S /\ IsFiniteSet(T)
  BY FS_Subset
<1>4. PICK h : IsIteration(f, T, h) /\ SumOver(f, T) = h[T]
  BY <1>3, IterationExists, SumIsIteration
<1>5. g[T] = h[T]
  BY <1>1, <1>3, <1>4, IterationsAgree
<1>. QED
  BY <1>2, <1>4, <1>5

LEMMA SumTyped ==
    ASSUME NEW S, IsFiniteSet(S), NEW f, \A x \in S : f[x] \in Nat
    PROVE  SumOver(f, S) \in 0 .. Width - 1
<1>. DEFINE Bad == {s \in SUBSET S : SumOver(f, s) \notin 0 .. Width - 1}
<1>1. SUFFICES ASSUME Bad # {} PROVE FALSE
  OBVIOUS
<1>2. PICK s \in Bad : \A u \in Bad : u \subseteq s => u = s
  <2>1. Bad \in SUBSET SUBSET S
    OBVIOUS
  <2>. HIDE DEF Bad
  <2>. QED BY <1>1, <2>1, SmallestSubset
<1>3. s \in SUBSET S /\ IsFiniteSet(s) /\ SumOver(f, s) \notin 0 .. Width - 1
  BY <1>2, FS_Subset
<1>4. SumOver(f, s) = IF s = {} THEN 0 ELSE (f[Least(s)] + SumOver(f, s \ {Least(s)})) % Width
  BY <1>3, SumEquation
<1>5. s # {} /\ Least(s) \in s
  BY <1>3, <1>4, LeastIn, WidthIsPositive, SMT
<1>6. SumOver(f, s \ {Least(s)}) \in 0 .. Width - 1
  BY <1>2, <1>5
<1>7. f[Least(s)] + SumOver(f, s \ {Least(s)}) \in Nat
  BY <1>3, <1>5, <1>6, WidthIsPositive, SMT
<1>8. (f[Least(s)] + SumOver(f, s \ {Least(s)})) % Width \in 0 .. Width - 1
  BY <1>7, Quotients, WidthIsPositive
<1>. QED
  BY <1>3, <1>4, <1>5, <1>8

LEMMA SummandsSwap ==
    ASSUME NEW a \in Nat, NEW b \in Nat, NEW c \in Nat, NEW w \in Nat \ {0}
    PROVE  (a + ((b + c) % w)) % w = (b + ((a + c) % w)) % w
<1>1. (a + ((b + c) % w)) % w = (a + (b + c)) % w
  <2>1. b + c \in Nat BY SMT
  <2>. QED BY <2>1, AddedRemainder
<1>2. (b + ((a + c) % w)) % w = (b + (a + c)) % w
  <2>1. a + c \in Nat BY SMT
  <2>. QED BY <2>1, AddedRemainder
<1>3. a + (b + c) = b + (a + c)
  BY SMT
<1>. QED BY <1>1, <1>2, <1>3

\* Whichever element is taken first.
LEMMA SumOfOneAndOthers ==
    ASSUME NEW S, IsFiniteSet(S), NEW f, \A x \in S : f[x] \in Nat, NEW e \in S
    PROVE  SumOver(f, S) = (f[e] + SumOver(f, S \ {e})) % Width
<1>. DEFINE Bad == {s \in SUBSET S : \E x \in s : SumOver(f, s) # (f[x] + SumOver(f, s \ {x})) % Width}
<1>1. SUFFICES ASSUME Bad # {} PROVE FALSE
  OBVIOUS
<1>2. PICK s \in Bad : \A u \in Bad : u \subseteq s => u = s
  <2>1. Bad \in SUBSET SUBSET S
    OBVIOUS
  <2>. HIDE DEF Bad
  <2>. QED BY <1>1, <2>1, SmallestSubset
<1>3. s \in SUBSET S /\ IsFiniteSet(s)
  BY <1>2, FS_Subset
<1>4. PICK x \in s : SumOver(f, s) # (f[x] + SumOver(f, s \ {x})) % Width
  BY <1>2
<1>. DEFINE c == Least(s)
<1>5. c \in s /\ SumOver(f, s) = (f[c] + SumOver(f, s \ {c})) % Width
  BY <1>3, <1>4, SumEquation, LeastIn
<1>6. x # c
  BY <1>4, <1>5
<1>. HIDE DEF c
<1>. DEFINE rest == SumOver(f, (s \ {c}) \ {x})
<1>7. s \ {c} \notin Bad /\ s \ {x} \notin Bad
  BY <1>2, <1>4, <1>5
<1>8. SumOver(f, s \ {c}) = (f[x] + rest) % Width
  BY <1>3, <1>4, <1>6, <1>7
<1>9. SumOver(f, s \ {x}) = (f[c] + rest) % Width
  <2>1. (s \ {x}) \ {c} = (s \ {c}) \ {x}
    OBVIOUS
  <2>2. SumOver(f, s \ {x}) = (f[c] + SumOver(f, (s \ {x}) \ {c})) % Width
    BY <1>3, <1>5, <1>6, <1>7
  <2>. QED BY <2>1, <2>2
<1>10. rest \in Nat /\ f[x] \in Nat /\ f[c] \in Nat
  <2>1. IsFiniteSet((s \ {c}) \ {x})
    BY <1>3, FS_Subset
  <2>2. SumOver(f, (s \ {c}) \ {x}) \in 0 .. Width - 1
    BY <1>3, <2>1, SumTyped
  <2>. QED BY <1>3, <1>4, <1>5, <2>2, WidthIsPositive, SMT
<1>. HIDE DEF rest
<1>11. (f[c] + ((f[x] + rest) % Width)) % Width = (f[x] + ((f[c] + rest) % Width)) % Width
  <2>1. \A a, b, r \in Nat :
           (a + ((b + r) % Width)) % Width = (b + ((a + r) % Width)) % Width
    BY WidthIsPositive, SummandsSwap
  <2>. QED BY <1>10, <2>1, Zenon
<1>. QED
  BY <1>4, <1>5, <1>8, <1>9, <1>11

LEMMA SumsAgree ==
    ASSUME NEW S, IsFiniteSet(S), NEW f, NEW g, \A x \in S : f[x] = g[x]
    PROVE  SumOver(f, S) = SumOver(g, S)
<1>. DEFINE Bad == {s \in SUBSET S : SumOver(f, s) # SumOver(g, s)}
<1>1. SUFFICES ASSUME Bad # {} PROVE FALSE
  OBVIOUS
<1>2. PICK s \in Bad : \A u \in Bad : u \subseteq s => u = s
  <2>1. Bad \in SUBSET SUBSET S
    OBVIOUS
  <2>. HIDE DEF Bad
  <2>. QED BY <1>1, <2>1, SmallestSubset
<1>3. s \in SUBSET S /\ IsFiniteSet(s) /\ SumOver(f, s) # SumOver(g, s)
  BY <1>2, FS_Subset
<1>4. SumOver(f, s) = IF s = {} THEN 0 ELSE (f[Least(s)] + SumOver(f, s \ {Least(s)})) % Width
  BY <1>3, SumEquation
<1>5. SumOver(g, s) = IF s = {} THEN 0 ELSE (g[Least(s)] + SumOver(g, s \ {Least(s)})) % Width
  BY <1>3, SumEquation
<1>6. s # {} /\ Least(s) \in s
  BY <1>3, <1>4, <1>5, LeastIn
<1>7. SumOver(f, s \ {Least(s)}) = SumOver(g, s \ {Least(s)})
  BY <1>2, <1>6
<1>8. f[Least(s)] = g[Least(s)]
  BY <1>3, <1>6
<1>. QED
  BY <1>3, <1>4, <1>5, <1>6, <1>7, <1>8

LEMMA SumOfNothing ==
    ASSUME NEW S, IsFiniteSet(S), NEW f, \A x \in S : f[x] = 0
    PROVE  SumOver(f, S) = 0
<1>. DEFINE Bad == {s \in SUBSET S : SumOver(f, s) # 0}
<1>1. SUFFICES ASSUME Bad # {} PROVE FALSE
  OBVIOUS
<1>2. PICK s \in Bad : \A u \in Bad : u \subseteq s => u = s
  <2>1. Bad \in SUBSET SUBSET S
    OBVIOUS
  <2>. HIDE DEF Bad
  <2>. QED BY <1>1, <2>1, SmallestSubset
<1>3. s \in SUBSET S /\ IsFiniteSet(s) /\ SumOver(f, s) # 0
  BY <1>2, FS_Subset
<1>4. SumOver(f, s) = IF s = {} THEN 0 ELSE (f[Least(s)] + SumOver(f, s \ {Least(s)})) % Width
  BY <1>3, SumEquation
<1>5. s # {} /\ Least(s) \in s
  BY <1>3, <1>4, LeastIn
<1>6. SumOver(f, s \ {Least(s)}) = 0 /\ f[Least(s)] = 0
  BY <1>2, <1>3, <1>5
<1>7. (0 + 0) % Width = 0
  BY WidthIsPositive, SMT
<1>. QED
  BY <1>3, <1>4, <1>5, <1>6, <1>7

\* What is added to one value is added to the sum.
LEMMA SumIncreased ==
    ASSUME NEW S, IsFiniteSet(S), NEW f, NEW g, NEW d \in S, NEW c \in Nat,
           \A x \in S : f[x] \in Nat, \A x \in S \ {d} : g[x] = f[x],
           g[d] = (c + f[d]) % Width
    PROVE  SumOver(g, S) = (c + SumOver(f, S)) % Width
<1>. DEFINE r == SumOver(f, S \ {d})
            x == f[d]
<1>1. IsFiniteSet(S \ {d})
  BY FS_RemoveElement
<1>2. r \in Nat /\ x \in Nat
  <2>1. r \in 0 .. Width - 1
    BY <1>1, SumTyped
  <2>. QED BY <2>1, WidthIsPositive, SMT
<1>3. SumOver(g, S \ {d}) = r
  BY <1>1, SumsAgree
<1>4. g[d] \in Nat
  <2>1. c + x \in Nat
    BY <1>2, SMT
  <2>2. (c + x) % Width \in 0 .. Width - 1
    BY <2>1, WidthIsPositive, Quotients
  <2>. QED BY <2>2, WidthIsPositive, SMT
<1>5. SumOver(g, S) = (g[d] + r) % Width
  <2>1. \A y \in S : g[y] \in Nat
    BY <1>4
  <2>. QED BY <2>1, <1>3, SumOfOneAndOthers
<1>6. SumOver(f, S) = (x + r) % Width
  BY SumOfOneAndOthers
<1>. HIDE DEF r, x
<1>7. \A a, b \in Nat : (a + (b % Width)) % Width = (a + b) % Width
  BY WidthIsPositive, AddedRemainder
<1>8. (c + ((x + r) % Width)) % Width = (c + (x + r)) % Width
  <2>1. x + r \in Nat
    BY <1>2, SMT
  <2>. QED BY <2>1, <1>7, Zenon
<1>9. (r + ((c + x) % Width)) % Width = (r + (c + x)) % Width
  <2>1. c + x \in Nat
    BY <1>2, SMT
  <2>. QED BY <2>1, <1>2, <1>7, Zenon
<1>10. r + (c + x) = c + (x + r) /\ g[d] + r = r + g[d]
  BY <1>2, <1>4, SMT
<1>11. g[d] = (c + x) % Width
  BY DEF x
<1>. QED
  BY <1>5, <1>6, <1>8, <1>9, <1>10, <1>11

\* A sum by groups is the sum of all.
LEMMA SumByGroups ==
    ASSUME NEW S, IsFiniteSet(S), NEW D, IsFiniteSet(D), NEW f, \A x \in S : f[x] \in Nat,
           NEW group, \A x \in S : group[x] \in D
    PROVE  SumOver([d \in D |-> SumOver(f, {x \in S : group[x] = d})], D) = SumOver(f, S)
<1>. DEFINE Of(s, d) == {x \in s : group[x] = d}
            Sums(s) == [d \in D |-> SumOver(f, Of(s, d))]
            Bad == {s \in SUBSET S : SumOver(Sums(s), D) # SumOver(f, s)}
<1>1. SUFFICES ASSUME Bad # {} PROVE FALSE
  <2>1. Bad = {} => SumOver(Sums(S), D) = SumOver(f, S)
    OBVIOUS
  <2>. QED BY <2>1
<1>2. PICK s \in Bad : \A u \in Bad : u \subseteq s => u = s
  <2>1. Bad \in SUBSET SUBSET S
    OBVIOUS
  <2>. HIDE DEF Bad
  <2>. QED BY <1>1, <2>1, SmallestSubset
<1>3. s \in SUBSET S /\ IsFiniteSet(s) /\ SumOver(Sums(s), D) # SumOver(f, s)
  BY <1>2, FS_Subset
<1>4. \A t \in SUBSET S : \A d \in D : IsFiniteSet(Of(t, d)) /\ Sums(t)[d] \in 0 .. Width - 1
  <2>1. ASSUME NEW t \in SUBSET S, NEW d \in D PROVE IsFiniteSet(Of(t, d)) /\ Sums(t)[d] \in 0 .. Width - 1
    <3>1. Of(t, d) \in SUBSET S
      OBVIOUS
    <3>2. IsFiniteSet(Of(t, d))
      BY <3>1, FS_Subset
    <3>3. SumOver(f, Of(t, d)) \in 0 .. Width - 1
      BY <3>1, <3>2, SumTyped
    <3>. QED BY <3>2, <3>3
  <2>. QED BY <2>1
<1>5. CASE s = {}
  <2>1. \A d \in D : Sums(s)[d] = 0
    <3>1. \A d \in D : Of(s, d) = {}
      BY <1>5
    <3>2. SumOver(f, {}) = 0
      BY FS_EmptySet, SumEquation
    <3>. QED BY <3>1, <3>2
  <2>2. SumOver(Sums(s), D) = 0
    <3>. HIDE DEF Sums
    <3>. QED BY <2>1, SumOfNothing
  <2>3. SumOver(f, s) = 0
    BY <1>5, FS_EmptySet, SumEquation
  <2>. QED BY <1>3, <2>2, <2>3
<1>6. CASE s # {}
  <2>1. PICK e : e \in s
    BY <1>6
  <2>. DEFINE t == s \ {e}
  <2>2. t \in SUBSET S /\ t \notin Bad /\ e \in S /\ e \notin t
    BY <1>2, <1>3, <2>1
  <2>3. SumOver(Sums(t), D) = SumOver(f, t)
    BY <2>2
  <2>4. SumOver(f, s) = (f[e] + SumOver(f, t)) % Width
    BY <1>3, <2>1, SumOfOneAndOthers
  <2>5. \A d \in D \ {group[e]} : Sums(s)[d] = Sums(t)[d]
    <3>1. \A d \in D \ {group[e]} : Of(s, d) = Of(t, d)
      OBVIOUS
    <3>. QED BY <3>1
  <2>6. Sums(s)[group[e]] = (f[e] + Sums(t)[group[e]]) % Width
    <3>1. e \in Of(s, group[e]) /\ Of(s, group[e]) \ {e} = Of(t, group[e])
      BY <2>1
    <3>2. IsFiniteSet(Of(s, group[e])) /\ \A x \in Of(s, group[e]) : f[x] \in Nat
      <4>1. group[e] \in D
        BY <2>2
      <4>. QED BY <1>3, <1>4, <4>1
    <3>3. SumOver(f, Of(s, group[e])) = (f[e] + SumOver(f, Of(t, group[e]))) % Width
      <4>. DEFINE A == Of(s, group[e])
      <4>1. e \in A /\ IsFiniteSet(A) /\ (\A x \in A : f[x] \in Nat) /\ A \ {e} = Of(t, group[e])
        BY <3>1, <3>2
      <4>. HIDE DEF A, Of
      <4>2. SumOver(f, A) = (f[e] + SumOver(f, A \ {e})) % Width
        BY <4>1, SumOfOneAndOthers
      <4>. QED BY <4>1, <4>2 DEF A
    <3>4. group[e] \in D
      BY <2>2
    <3>. QED BY <3>3, <3>4
  <2>7. SumOver(Sums(s), D) = (f[e] + SumOver(Sums(t), D)) % Width
    <3>1. group[e] \in D /\ f[e] \in Nat
      BY <2>2
    <3>2. \A d \in D : Sums(t)[d] \in Nat
      <4>1. \A n \in 0 .. Width - 1 : n \in Nat
        BY WidthIsPositive, SMT
      <4>2. \A d \in D : Sums(t)[d] \in 0 .. Width - 1
        BY <1>4, <2>2
      <4>. HIDE DEF Sums, t
      <4>. QED BY <4>1, <4>2
    <3>. HIDE DEF Sums, t
    <3>. QED BY <2>5, <2>6, <3>1, <3>2, SumIncreased
  <2>. QED BY <1>3, <2>3, <2>4, <2>7
<1>. QED
  BY <1>5, <1>6

\* The progress is a full hundred when the target is reached.
LEMMA FullWeek ==
    ASSUME NEW l \in Nat, NEW t \in Nat \ {0}
    PROVE  ((l * 100) \div t < 100) <=> (l < t)
<1>. DEFINE q == (l * 100) \div t
            r == (l * 100) % t
<1>1. q \in Nat /\ r \in 0 .. t - 1 /\ l * 100 = (t * q) + r
  <2>1. l * 100 \in Nat
    BY SMT
  <2>. QED BY <2>1, Quotients
<1>. HIDE DEF q, r
<1>2. ASSUME q < 100 PROVE l < t
  <2>1. 99 - q \in Nat /\ t * (99 - q) >= 0
    BY <1>1, <1>2, SMT
  <2>2. t * (99 - q) = 99 * t - t * q
    BY <1>1, SMT
  <2>. QED BY <1>1, <2>1, <2>2, SMT
<1>3. ASSUME ~(q < 100) PROVE ~(l < t)
  <2>1. q - 100 \in Nat /\ t * (q - 100) >= 0
    BY <1>1, <1>3, SMT
  <2>2. t * (q - 100) = t * q - 100 * t
    BY <1>1, SMT
  <2>. QED BY <1>1, <2>1, <2>2, SMT
<1>4. (q < 100) <=> (l < t)
  BY <1>2, <1>3
<1>. QED
  BY <1>4 DEF q
---------------------------------------------------------------------------
(* Reports.                                                                 *)

ReportShaped ==
    report = [kind |-> report.kind, period |-> report.period, phase |-> report.phase,
              issues |-> report.issues, loads |-> report.loads, entries |-> report.entries,
              warned |-> report.warned, suggested |-> report.suggested,
              members |-> report.members, summary |-> report.summary]

\* Issues are listed once; a report on hours has those of every worklog of the period
\* that nobody touched.
IssuesFit ==
    /\ \A w \in kept : worklogs[w].there
    /\ report.phase # "refused" => report.period \in ReportPeriods
    /\ report.phase \in {"refused", "listing"} =>
         /\ report.issues = <<>> /\ report.loads = <<>>
         /\ report.entries = {} /\ report.suggested = {}
    /\ \A i, j \in DOMAIN report.issues : report.issues[i] = report.issues[j] => i = j
    /\ report.kind # "unlogged" /\ report.phase \in {"loading", "told"} =>
         \A w \in kept : InPeriod(report.period, worklogs[w].day) =>
             \E i \in DOMAIN report.issues : report.issues[i] = IssueOf[w]

\* An issue that was read has all its hours in the report that count, and one that
\* could not be read is named; hours come once, and from issues that were read.
LoadsFit ==
    /\ \A i \in DOMAIN report.issues :
         report.loads[i] = "read" /\ report.kind # "unlogged" =>
             \A w \in Worklogs : Counts(w) /\ IssueOf[w] = report.issues[i] =>
                 \E e \in report.entries : e.id = w
    /\ \A i \in DOMAIN report.issues :
         report.loads[i] = "warned" /\ report.kind # "unlogged" => report.issues[i] \in report.warned
    /\ \A e \in report.entries :
         /\ InPeriod(report.period, e.day)
         /\ \E i \in DOMAIN report.issues :
              report.issues[i] = IssueOf[e.id] /\ report.loads[i] = "read"
    /\ \A e, f \in report.entries : e.id = f.id => e = f

IsOwn(w, issue) ==
    /\ IssueOf[w] = issue /\ worklogs[w].there /\ worklogs[w].author = Me
    /\ InPeriod(report.period, worklogs[w].day)

\* An issue is suggested after its answer, and then as UnloggedSuggested says.
SuggestionsFit ==
    /\ report.kind = "unlogged" => \A i \in DOMAIN report.issues :
         report.loads[i] = "waiting" => report.issues[i] \notin report.suggested
    /\ report.kind = "unlogged" => \A i \in DOMAIN report.issues : report.loads[i] = "read" =>
         /\ report.issues[i] \in report.suggested =>
              \A w \in kept : IsOwn(w, report.issues[i]) => worklogs[w].condition # "fine"
         /\ report.issues[i] \notin report.suggested =>
              edits > 0 \/ \E w \in Worklogs : IsOwn(w, report.issues[i])

EndsFit ==
    /\ report.phase = "told" =>
         \A i \in DOMAIN report.issues :
             report.loads[i] = "read" \/ (report.loads[i] = "warned" /\ report.kind # "unlogged")
    /\ report.phase = "told" /\ report.kind = "own" => report.summary = Summary(report.entries)
    /\ report.phase = "failed" /\ report.kind # "unlogged" /\ report.loads # <<>> =>
         \E i \in DOMAIN report.loads : report.loads[i] = "fatal"

ReportsInv ==
    ReportShaped /\ ReportTypeOK /\ IssuesFit /\ LoadsFit /\ SuggestionsFit /\ EndsFit

LEMMA ReportNumbers ==
    /\ Today \in Nat /\ MaximumDays \in Nat /\ MaxEdits \in Nat /\ TargetSeconds \in Nat \ {0}
    /\ IsFiniteSet(Issues) /\ IsFiniteSet(Worklogs)
    /\ IssueOf \in [Worklogs -> Issues] /\ SecondsOf \in [Worklogs -> Nat \ {0}]
BY ReportsAssumption DEF ReportsAssumption

LEMMA PeriodsResolved ==
    ASSUME NEW request \in PeriodRequests, Resolved(request) # NoPeriod
    PROVE  Resolved(request) \in ReportPeriods
<1>1. CASE request.from = NoDay /\ request.to = NoDay
  <2>1. Today - (Today % 7) \in 0 .. Today /\ Today - (Today % 7) <= Today
    BY ReportNumbers, SMT
  <2>2. Resolved(request) = [from |-> Today - (Today % 7), to |-> Today]
    BY <1>1 DEF Resolved
  <2>. QED BY <2>1, <2>2, ReportNumbers, SMT DEF ReportPeriods, Days
<1>2. CASE ~(request.from = NoDay /\ request.to = NoDay)
  <2>1. /\ request.from # NoDay /\ request.to # NoDay
        /\ ~(request.to > Today) /\ ~(request.from > request.to)
        /\ Resolved(request) = request
    BY <1>2 DEF Resolved
  <2>2. /\ request.from \in 0 .. Today + 1 /\ request.to \in 0 .. Today + 1
        /\ request = [from |-> request.from, to |-> request.to]
    BY <2>1 DEF PeriodRequests
  <2>3. request.from \in Days /\ request.to \in Days /\ request.from <= request.to
    BY <2>1, <2>2, ReportNumbers, SMT DEF Days
  <2>. QED BY <2>1, <2>2, <2>3 DEF ReportPeriods
<1>. QED BY <1>1, <1>2

LEMMA ReportInitInv == ReportInit => ReportsInv
<1>. SUFFICES ASSUME ReportInit PROVE ReportsInv
  OBVIOUS
<1>1. PICK kind \in ReportKinds, request \in PeriodRequests :
        report = [kind |-> kind, period |-> Resolved(request),
                  phase |-> IF Resolved(request) = NoPeriod THEN "refused" ELSE "listing",
                  issues |-> <<>>, loads |-> <<>>, entries |-> {}, warned |-> {},
                  suggested |-> {}, members |-> {}, summary |-> NoSummary]
  BY DEF ReportInit
<1>2. /\ worklogs \in [Worklogs -> WorklogStates] /\ edits = 0
      /\ kept = {w \in Worklogs : worklogs[w].there}
  BY DEF ReportInit
<1>3. Resolved(request) \in ReportPeriods \cup {NoPeriod}
  BY PeriodsResolved
<1>4. /\ report.kind = kind /\ report.period = Resolved(request)
      /\ report.phase \in {"refused", "listing"}
      /\ report.phase # "refused" => report.period # NoPeriod
      /\ report.issues = <<>> /\ report.loads = <<>> /\ report.entries = {} /\ report.warned = {}
      /\ report.members = {} /\ report.suggested = {}
  BY <1>1
<1>5. DOMAIN <<>> = {}
  OBVIOUS
<1>6. ReportShaped
  BY <1>1 DEF ReportShaped
<1>7. ReportTypeOK
  <2>1. 0 \in 0 .. MaxEdits
    BY ReportNumbers, SMT
  <2>2. <<>> \in Seq(Issues)
    OBVIOUS
  <2>. QED BY <1>2, <1>3, <1>4, <1>5, <2>1, <2>2 DEF ReportTypeOK
<1>8. IssuesFit
  BY <1>2, <1>3, <1>4, <1>5 DEF IssuesFit
<1>9. LoadsFit
  BY <1>4, <1>5 DEF LoadsFit
<1>10. SuggestionsFit /\ EndsFit
  BY <1>4, <1>5 DEF SuggestionsFit, EndsFit
<1>. QED
  BY <1>6, <1>7, <1>8, <1>9, <1>10 DEF ReportsInv

\* An order of all elements of a finite set.
LEMMA OrderedSet ==
    ASSUME NEW S, IsFiniteSet(S), NEW order \in [1 .. Cardinality(S) -> S], IsInjective(order)
    PROVE  /\ order \in Seq(S) /\ DOMAIN order = 1 .. Cardinality(S)
           /\ \A i, j \in DOMAIN order : order[i] = order[j] => i = j
           /\ \A x \in S : \E i \in DOMAIN order : order[i] = x
<1>1. Cardinality(S) \in Nat
  BY FS_CardinalityType
<1>2. DOMAIN order = 1 .. Cardinality(S) /\ order \in Seq(S)
  BY <1>1
<1>3. \A i, j \in DOMAIN order : order[i] = order[j] => i = j
  BY DEF IsInjective
<1>4. order \in Injection(1 .. Cardinality(S), S)
  BY <1>2, <1>3, Zenon DEF Injection, IsInjective
<1>5. IsFiniteSet(1 .. Cardinality(S)) /\ Cardinality(1 .. Cardinality(S)) = Cardinality(S)
  BY <1>1, FS_Interval, SMT
<1>6. order \in Surjection(1 .. Cardinality(S), S)
  BY <1>4, <1>5, FS_Injection
<1>. QED
  BY <1>2, <1>3, <1>6 DEF Surjection

LEMMA ListIssuesKeeps == ReportsInv /\ ListIssues => ReportsInv'
<1>. SUFFICES ASSUME ReportsInv, ListIssues PROVE ReportsInv'
  OBVIOUS
<1>0. ReportShaped /\ ReportTypeOK /\ IssuesFit
  BY DEF ReportsInv
<1>1. PICK chosen \in IF report.kind = "unlogged" THEN SUBSET Issues
                     ELSE {{issue \in Issues : Returned(issue) # {}}} :
        \E order \in [1 .. Cardinality(chosen) -> chosen] :
         /\ IsInjective(order)
         /\ report' = [report EXCEPT !.issues = order, !.phase = "loading",
                                     !.loads = [i \in DOMAIN order |-> "waiting"]]
  BY DEF ListIssues
<1>2. PICK order \in [1 .. Cardinality(chosen) -> chosen] :
         /\ IsInjective(order)
         /\ report' = [report EXCEPT !.issues = order, !.phase = "loading",
                                     !.loads = [i \in DOMAIN order |-> "waiting"]]
  BY <1>1
<1>3. chosen \in SUBSET Issues /\ IsFiniteSet(chosen)
  <2>1. chosen \in SUBSET Issues
    OBVIOUS
  <2>. QED BY <2>1, ReportNumbers, FS_Subset
<1>4. /\ order \in Seq(chosen)
      /\ \A i, j \in DOMAIN order : order[i] = order[j] => i = j
      /\ \A x \in chosen : \E i \in DOMAIN order : order[i] = x
  BY <1>2, <1>3, OrderedSet
<1>5. order \in Seq(Issues)
  BY <1>3, <1>4
<1>6. /\ report' = [kind |-> report.kind, period |-> report.period, phase |-> "loading",
                    issues |-> order, loads |-> [i \in DOMAIN order |-> "waiting"],
                    entries |-> report.entries, warned |-> report.warned,
                    suggested |-> report.suggested, members |-> report.members,
                    summary |-> report.summary]
      /\ worklogs' = worklogs /\ kept' = kept /\ edits' = edits
      /\ report.phase = "listing"
  BY <1>0, <1>2, Zenon DEF ReportShaped, ListIssues
<1>7. /\ report.entries = {} /\ report.suggested = {} /\ report.period \in ReportPeriods
  BY <1>0, <1>6 DEF IssuesFit
<1>8. /\ report'.kind = report.kind /\ report'.period = report.period /\ report'.phase = "loading"
      /\ report'.issues = order /\ DOMAIN report'.loads = DOMAIN order
      /\ \A i \in DOMAIN order : report'.loads[i] = "waiting"
      /\ report'.entries = {} /\ report'.warned = report.warned
      /\ report'.members = report.members /\ report'.suggested = {}
  BY <1>6, <1>7
<1>9. ReportShaped'
  BY <1>6 DEF ReportShaped
<1>10. ReportTypeOK'
  BY <1>0, <1>5, <1>6, <1>7, <1>8 DEF ReportTypeOK, LoadStates
<1>11. IssuesFit'
  <2>1. ASSUME report.kind # "unlogged", NEW w \in kept, InPeriod(report.period, worklogs[w].day)
        PROVE  \E i \in DOMAIN order : order[i] = IssueOf[w]
    <3>1. w \in Worklogs /\ worklogs[w].there
      BY <1>0, <2>1 DEF IssuesFit, ReportTypeOK
    <3>2. w \in Returned(IssueOf[w]) /\ IssueOf[w] \in Issues
      BY <2>1, <3>1, ReportNumbers DEF Returned
    <3>3. IssueOf[w] \in chosen
      BY <2>1, <3>2, <1>1
    <3>. QED BY <3>3, <1>4
  <2>2. /\ \A w \in kept : worklogs[w].there
    BY <1>0 DEF IssuesFit
  <2>. QED BY <2>1, <2>2, <1>4, <1>6, <1>7, <1>8 DEF IssuesFit, InPeriod
<1>12. LoadsFit'
  BY <1>8 DEF LoadsFit
<1>13. SuggestionsFit' /\ EndsFit'
  BY <1>8 DEF SuggestionsFit, EndsFit
<1>. QED
  BY <1>9, <1>10, <1>11, <1>12, <1>13 DEF ReportsInv

LEMMA ListingFailsKeeps == ReportsInv /\ ListingFails => ReportsInv'
<1>. SUFFICES ASSUME ReportsInv, ListingFails PROVE ReportsInv'
  OBVIOUS
<1>1. ReportShaped /\ ReportTypeOK /\ IssuesFit /\ LoadsFit /\ SuggestionsFit
  BY DEF ReportsInv
<1>2. /\ report' = [kind |-> report.kind, period |-> report.period, phase |-> "failed",
                    issues |-> report.issues, loads |-> report.loads,
                    entries |-> report.entries, warned |-> report.warned,
                    suggested |-> report.suggested, members |-> report.members,
                    summary |-> report.summary]
      /\ worklogs' = worklogs /\ kept' = kept /\ edits' = edits
      /\ report.phase = "listing"
  BY <1>1, Zenon DEF ReportShaped, ListingFails
<1>3. /\ report.issues = <<>> /\ report.loads = <<>> /\ report.entries = {}
      /\ report.suggested = {} /\ report.period \in ReportPeriods
  BY <1>1, <1>2 DEF IssuesFit
<1>4. /\ report'.kind = report.kind /\ report'.period = report.period /\ report'.phase = "failed"
      /\ report'.issues = report.issues /\ report'.loads = report.loads
      /\ report'.entries = report.entries /\ report'.warned = report.warned
      /\ report'.members = report.members /\ report'.suggested = report.suggested
  BY <1>2
<1>5. ReportShaped'
  BY <1>2 DEF ReportShaped
<1>6. ReportTypeOK'
  BY <1>1, <1>2, <1>4 DEF ReportTypeOK
<1>7. IssuesFit'
  BY <1>1, <1>2, <1>3, <1>4 DEF IssuesFit
<1>8. DOMAIN <<>> = {}
  OBVIOUS
<1>9. LoadsFit' /\ SuggestionsFit' /\ EndsFit'
  BY <1>3, <1>4, <1>8 DEF LoadsFit, SuggestionsFit, EndsFit
<1>. QED
  BY <1>5, <1>6, <1>7, <1>9 DEF ReportsInv

\* An answer changes what became of one issue that waited, and what it brings is kept.
Answered(i, fate) ==
    /\ i \in DOMAIN report.issues /\ report.loads[i] = "waiting"
    /\ report.phase = "loading"
    /\ report'.kind = report.kind /\ report'.period = report.period
    /\ report'.phase = "loading" /\ report'.issues = report.issues
    /\ DOMAIN report'.loads = DOMAIN report.loads
    /\ report'.loads[i] = fate
    /\ \A j \in DOMAIN report.loads \ {i} : report'.loads[j] = report.loads[j]
    /\ report'.members = report.members /\ ReportShaped'
    /\ worklogs' = worklogs /\ kept' = kept /\ edits' = edits

LEMMA AnsweredKeeps ==
    ASSUME ReportsInv, NEW i, NEW fate \in LoadStates, fate # "waiting", Answered(i, fate)
    PROVE  IssuesFit' /\ EndsFit' /\
           (report'.entries \subseteq [id : Worklogs, author : Persons, day : Days]
            /\ report'.warned \subseteq Issues => ReportTypeOK')
<1>1. ReportTypeOK /\ IssuesFit /\ DOMAIN report.loads = DOMAIN report.issues
  BY DEF ReportsInv, ReportTypeOK
<1>2. IssuesFit'
  BY <1>1 DEF IssuesFit, Answered
<1>3. EndsFit'
  BY DEF EndsFit, Answered
<1>4. \A j \in DOMAIN report'.loads : report'.loads[j] \in LoadStates
  BY <1>1 DEF ReportTypeOK, Answered
<1>5. report'.entries \subseteq [id : Worklogs, author : Persons, day : Days]
            /\ report'.warned \subseteq Issues => ReportTypeOK'
  BY <1>1, <1>4 DEF ReportTypeOK, Answered
<1>. QED
  BY <1>2, <1>3, <1>5

LEMMA EntriesTyped ==
    ASSUME ReportTypeOK, NEW issue
    PROVE  /\ Entries(issue) \subseteq [id : Worklogs, author : Persons, day : Days]
           /\ \A e \in Entries(issue) :
                /\ e.id \in Returned(issue) /\ e.day = worklogs[e.id].day
                /\ e.author = worklogs[e.id].author
           /\ \A w \in Returned(issue) :
                worklogs[w].condition = "fine" /\ Relevant(report.kind, worklogs[w].author) =>
                    \E e \in Entries(issue) : e.id = w
<1>1. \A w \in Worklogs : worklogs[w].author \in Persons /\ worklogs[w].day \in Days
  BY DEF ReportTypeOK, WorklogStates
<1>2. Returned(issue) \subseteq Worklogs
  BY DEF Returned
<1>3. ASSUME NEW e \in Entries(issue)
      PROVE  /\ e \in [id : Worklogs, author : Persons, day : Days]
             /\ e.id \in Returned(issue) /\ e.day = worklogs[e.id].day
             /\ e.author = worklogs[e.id].author
  <2>1. PICK w \in Returned(issue) :
          e = [id |-> w, author |-> worklogs[w].author, day |-> worklogs[w].day]
    BY DEF Entries
  <2>. QED BY <1>1, <1>2, <2>1
<1>4. ASSUME NEW w \in Returned(issue), worklogs[w].condition = "fine",
             Relevant(report.kind, worklogs[w].author)
      PROVE  \E e \in Entries(issue) : e.id = w
  <2>. DEFINE e == [id |-> w, author |-> worklogs[w].author, day |-> worklogs[w].day]
  <2>1. e \in Entries(issue) /\ e.id = w
    BY <1>4 DEF Entries
  <2>. QED BY <2>1
<1>. QED
  BY <1>3, <1>4

LEMMA HoursAnswered ==
    ASSUME ReportsInv, NEW i, LoadIssue(i), report.kind # "unlogged"
    PROVE  ReportsInv'
<1>. DEFINE issue == report.issues[i]
            fate == IF Invalid(issue) THEN "warned" ELSE "read"
            entries == IF Invalid(issue) THEN report.entries ELSE report.entries \cup Entries(issue)
            warned == report.warned \cup WarnedOf(issue)
<1>1. ReportShaped /\ ReportTypeOK /\ IssuesFit /\ LoadsFit
  BY DEF ReportsInv
<1>2. /\ report.phase = "loading" /\ i \in DOMAIN report.loads /\ report.loads[i] = "waiting"
      /\ report' = [report EXCEPT
                     !.loads[i] = IF Invalid(issue) THEN "warned" ELSE "read",
                     !.entries = IF Invalid(issue) THEN @ ELSE @ \cup Entries(issue),
                     !.warned = @ \cup WarnedOf(issue)]
      /\ worklogs' = worklogs /\ kept' = kept /\ edits' = edits
  BY DEF LoadIssue, MayLoad
<1>3. report' = [kind |-> report.kind, period |-> report.period, phase |-> report.phase,
                 issues |-> report.issues, loads |-> [report.loads EXCEPT ![i] = fate],
                 entries |-> entries, warned |-> warned, suggested |-> report.suggested,
                 members |-> report.members, summary |-> report.summary]
  <2>. HIDE DEF issue
  <2>1. report' = [report EXCEPT !.loads = [report.loads EXCEPT ![i] = fate],
                                 !.entries = entries, !.warned = warned]
    BY <1>2
  <2>. HIDE DEF fate, entries, warned
  <2>. QED BY <1>1, <2>1 DEF ReportShaped
<1>4. DOMAIN report.loads = DOMAIN report.issues /\ issue \in Issues
  BY <1>1, <1>2 DEF ReportTypeOK
<1>5. report'.entries = entries /\ report'.warned = warned
  BY <1>3
<1>6. Answered(i, fate)
  <2>. DEFINE loads == [report.loads EXCEPT ![i] = fate]
  <2>1. DOMAIN loads = DOMAIN report.loads /\ loads[i] = fate
        /\ \A j \in DOMAIN report.loads \ {i} : loads[j] = report.loads[j]
    BY <1>2
  <2>. HIDE DEF fate, loads, entries, warned
  <2>2. /\ report'.kind = report.kind /\ report'.period = report.period
        /\ report'.phase = report.phase /\ report'.issues = report.issues
        /\ report'.loads = loads /\ report'.members = report.members
    BY <1>3 DEF loads
  <2>3. ReportShaped'
    BY <1>3 DEF ReportShaped
  <2>4. i \in DOMAIN report.issues
    BY <1>2, <1>4
  <2>. QED BY <1>2, <2>1, <2>2, <2>3, <2>4 DEF Answered
<1>7. WarnedOf(issue) \subseteq {issue} /\ (Invalid(issue) => WarnedOf(issue) = {issue})
  BY DEF WarnedOf
<1>8. ReportTypeOK' /\ IssuesFit' /\ EndsFit'
  <2>1. warned \subseteq Issues
    BY <1>1, <1>4, <1>7 DEF ReportTypeOK
  <2>2. entries \subseteq [id : Worklogs, author : Persons, day : Days]
    BY <1>1, EntriesTyped DEF ReportTypeOK
  <2>3. fate \in LoadStates /\ fate # "waiting"
    BY DEF LoadStates
  <2>. HIDE DEF fate, entries, warned
  <2>. QED BY <1>5, <1>6, <2>1, <2>2, <2>3, AnsweredKeeps
<1>9. LoadsFit'
  <2>1. ASSUME NEW j \in DOMAIN report.issues, report'.loads[j] = "read",
               NEW w \in Worklogs, Counts(w), IssueOf[w] = report.issues[j]
        PROVE  \E e \in entries : e.id = w
    <3>1. CASE j = i
      <4>1. ~Invalid(issue) /\ w \in Returned(issue)
        <5>1. ~Invalid(issue)
          BY <2>1, <3>1, <1>6 DEF Answered
        <5>2. worklogs[w].there
          BY <2>1, <1>1 DEF Counts, IssuesFit
        <5>. QED BY <5>1, <5>2, <2>1, <3>1 DEF Counts, Returned
      <4>2. \E e \in Entries(issue) : e.id = w
        BY <1>1, <2>1, <4>1, EntriesTyped DEF Counts
      <4>. QED BY <4>1, <4>2
    <3>2. CASE j # i
      <4>1. report.loads[j] = "read"
        BY <2>1, <3>2, <1>4, <1>6 DEF Answered
      <4>2. \E e \in report.entries : e.id = w
        BY <2>1, <4>1, <1>1 DEF LoadsFit
      <4>. QED BY <4>2
    <3>. QED BY <3>1, <3>2
  <2>2. ASSUME NEW j \in DOMAIN report.issues, report'.loads[j] = "warned"
        PROVE  report.issues[j] \in warned
    <3>1. CASE j = i
      BY <2>2, <3>1, <1>6, <1>7 DEF Answered
    <3>2. CASE j # i
      BY <2>2, <3>2, <1>1, <1>4, <1>6 DEF Answered, LoadsFit
    <3>. QED BY <3>1, <3>2
  <2>3. \A e \in entries :
          \/ e \in report.entries /\ IssueOf[e.id] # issue
          \/ /\ e \in Entries(issue) /\ ~Invalid(issue) /\ IssueOf[e.id] = issue
             /\ e = [id |-> e.id, author |-> worklogs[e.id].author, day |-> worklogs[e.id].day]
             /\ InPeriod(report.period, e.day)
    <3>1. ASSUME NEW e \in report.entries PROVE IssueOf[e.id] # issue
      <4>1. PICK j \in DOMAIN report.issues : report.issues[j] = IssueOf[e.id] /\ report.loads[j] = "read"
        BY <1>1, <3>1 DEF LoadsFit
      <4>2. j # i
        BY <1>2, <4>1
      <4>. QED BY <1>1, <1>2, <1>4, <4>1, <4>2 DEF IssuesFit
    <3>2. ASSUME NEW e \in Entries(issue)
          PROVE  /\ IssueOf[e.id] = issue /\ InPeriod(report.period, e.day)
                 /\ e = [id |-> e.id, author |-> worklogs[e.id].author, day |-> worklogs[e.id].day]
      BY DEF Entries, Returned
    <3>. QED BY <3>1, <3>2
  <2>4. ASSUME NEW e \in entries
        PROVE  /\ InPeriod(report.period, e.day)
               /\ \E j \in DOMAIN report.issues :
                    report.issues[j] = IssueOf[e.id] /\ report'.loads[j] = "read"
    <3>1. CASE e \in report.entries
      <4>1. PICK j \in DOMAIN report.issues : report.issues[j] = IssueOf[e.id] /\ report.loads[j] = "read"
        BY <1>1, <3>1 DEF LoadsFit
      <4>2. report'.loads[j] = "read"
        BY <1>2, <1>4, <1>6, <4>1 DEF Answered
      <4>. QED BY <1>1, <3>1, <4>1, <4>2 DEF LoadsFit
    <3>2. CASE e \notin report.entries
      <4>1. ~Invalid(issue) /\ IssueOf[e.id] = issue /\ InPeriod(report.period, e.day)
        BY <2>3, <3>2
      <4>. QED BY <1>2, <1>4, <1>6, <4>1 DEF Answered
    <3>. QED BY <3>1, <3>2
  <2>5. ASSUME NEW e \in entries, NEW f \in entries, e.id = f.id PROVE e = f
    <3>1. CASE e \in report.entries /\ f \in report.entries
      BY <1>1, <2>5, <3>1 DEF LoadsFit
    <3>2. CASE ~(e \in report.entries /\ f \in report.entries)
      <4>. HIDE DEF entries, issue
      <4>. QED BY <2>3, <2>5, <3>2
    <3>. QED BY <3>1, <3>2
  <2>. HIDE DEF entries, warned, fate
  <2>6. /\ \A j \in DOMAIN report'.issues :
             report'.loads[j] = "read" /\ report'.kind # "unlogged" =>
               \A w \in Worklogs : (Counts(w) /\ IssueOf[w] = report.issues[j])' =>
                   \E e \in report'.entries : e.id = w
    BY <1>5, <1>6, <2>1 DEF Answered, Counts
  <2>7. \A j \in DOMAIN report'.issues :
         report'.loads[j] = "warned" /\ report'.kind # "unlogged" => report'.issues[j] \in report'.warned
    BY <1>5, <1>6, <2>2 DEF Answered
  <2>8. \A e \in report'.entries :
         /\ InPeriod(report'.period, e.day)
         /\ \E j \in DOMAIN report'.issues :
              report'.issues[j] = IssueOf[e.id] /\ report'.loads[j] = "read"
    BY <1>5, <1>6, <2>4 DEF Answered
  <2>. QED BY <1>5, <2>5, <2>6, <2>7, <2>8 DEF LoadsFit
<1>10. SuggestionsFit'
  BY <1>6 DEF Answered, SuggestionsFit
<1>. QED
  BY <1>6, <1>8, <1>9, <1>10 DEF ReportsInv, Answered

LEMMA UnloggedAnswered ==
    ASSUME ReportsInv, NEW i, LoadIssue(i), report.kind = "unlogged"
    PROVE  ReportsInv'
<1>. DEFINE issue == report.issues[i]
            fate == IF Invalid(issue) \/ (Unmapped(issue) /\ ~HasOwnHours(issue)) THEN "warned" ELSE "read"
            suggested == IF HasOwnHours(issue) THEN report.suggested ELSE report.suggested \cup {issue}
<1>1. ReportShaped /\ ReportTypeOK /\ IssuesFit /\ LoadsFit /\ SuggestionsFit
  BY DEF ReportsInv
<1>2. /\ report.phase = "loading" /\ i \in DOMAIN report.loads /\ report.loads[i] = "waiting"
      /\ report' = [report EXCEPT
                     !.loads[i] = IF Invalid(issue) \/ (Unmapped(issue) /\ ~HasOwnHours(issue))
                                  THEN "warned" ELSE "read",
                     !.suggested = IF HasOwnHours(issue) THEN @ ELSE @ \cup {issue}]
      /\ worklogs' = worklogs /\ kept' = kept /\ edits' = edits
  BY DEF LoadIssue, MayLoad
<1>3. report' = [kind |-> report.kind, period |-> report.period, phase |-> report.phase,
                 issues |-> report.issues, loads |-> [report.loads EXCEPT ![i] = fate],
                 entries |-> report.entries, warned |-> report.warned, suggested |-> suggested,
                 members |-> report.members, summary |-> report.summary]
  <2>. HIDE DEF issue
  <2>1. report' = [report EXCEPT !.loads = [report.loads EXCEPT ![i] = fate],
                                 !.suggested = suggested]
    BY <1>2
  <2>. HIDE DEF fate, suggested
  <2>. QED BY <1>1, <2>1 DEF ReportShaped
<1>4. DOMAIN report.loads = DOMAIN report.issues /\ issue \in Issues
  BY <1>1, <1>2 DEF ReportTypeOK
<1>5. report'.entries = report.entries /\ report'.warned = report.warned
      /\ report'.suggested = suggested
  BY <1>3
<1>6. Answered(i, fate)
  <2>. DEFINE loads == [report.loads EXCEPT ![i] = fate]
  <2>1. DOMAIN loads = DOMAIN report.loads /\ loads[i] = fate
        /\ \A j \in DOMAIN report.loads \ {i} : loads[j] = report.loads[j]
    BY <1>2
  <2>. HIDE DEF fate, loads, suggested
  <2>2. /\ report'.kind = report.kind /\ report'.period = report.period
        /\ report'.phase = report.phase /\ report'.issues = report.issues
        /\ report'.loads = loads /\ report'.members = report.members
    BY <1>3 DEF loads
  <2>3. ReportShaped'
    BY <1>3 DEF ReportShaped
  <2>4. i \in DOMAIN report.issues
    BY <1>2, <1>4
  <2>. QED BY <1>2, <2>1, <2>2, <2>3, <2>4 DEF Answered
<1>7. ReportTypeOK' /\ IssuesFit' /\ EndsFit'
  <2>1. fate \in LoadStates /\ fate # "waiting"
    BY DEF LoadStates
  <2>. HIDE DEF fate, suggested
  <2>. QED BY <1>1, <1>5, <1>6, <2>1, AnsweredKeeps DEF ReportTypeOK
<1>8. LoadsFit'
  <2>. HIDE DEF fate, suggested
  <2>1. ASSUME NEW e \in report.entries
        PROVE  \E j \in DOMAIN report.issues :
                    report.issues[j] = IssueOf[e.id] /\ report'.loads[j] = "read"
    <3>1. PICK j \in DOMAIN report.issues : report.issues[j] = IssueOf[e.id] /\ report.loads[j] = "read"
      BY <1>1, <2>1 DEF LoadsFit
    <3>2. report'.loads[j] = "read"
      BY <1>2, <1>4, <1>6, <3>1 DEF Answered
    <3>. QED BY <3>1, <3>2
  <2>. QED BY <1>1, <1>5, <1>6, <2>1 DEF LoadsFit, Answered
<1>9. SuggestionsFit'
  <2>1. ASSUME NEW j \in DOMAIN report.issues, report'.loads[j] = "read",
               report.issues[j] \in suggested, NEW w \in kept, IsOwn(w, report.issues[j])
        PROVE  worklogs[w].condition # "fine"
    <3>1. CASE j = i
      <4>1. ~HasOwnHours(issue)
        BY <2>1, <3>1, <1>1, <1>2, <1>4 DEF SuggestionsFit
      <4>2. w \in Returned(issue) /\ worklogs[w].author = Me
        BY <2>1, <3>1, <1>1 DEF IsOwn, Returned, ReportTypeOK
      <4>. QED BY <4>1, <4>2 DEF HasOwnHours
    <3>2. CASE j # i
      <4>1. report.loads[j] = "read" /\ report.issues[j] # issue
        BY <2>1, <3>2, <1>1, <1>2, <1>4, <1>6 DEF Answered, IssuesFit
      <4>2. report.issues[j] \in report.suggested
        BY <2>1, <4>1
      <4>. QED BY <2>1, <4>1, <4>2, <1>1 DEF SuggestionsFit
    <3>. QED BY <3>1, <3>2
  <2>2. ASSUME NEW j \in DOMAIN report.issues, report'.loads[j] = "read",
               report.issues[j] \notin suggested
        PROVE  edits > 0 \/ \E w \in Worklogs : IsOwn(w, report.issues[j])
    <3>1. CASE j = i
      <4>1. HasOwnHours(issue)
        BY <2>2, <3>1
      <4>. QED BY <4>1, <3>1 DEF HasOwnHours, Returned, IsOwn
    <3>2. CASE j # i
      <4>1. report.loads[j] = "read"
        BY <2>2, <3>2, <1>4, <1>6 DEF Answered
      <4>2. report.issues[j] \notin report.suggested
        BY <2>2
      <4>. QED BY <4>1, <4>2, <1>1 DEF SuggestionsFit
    <3>. QED BY <3>1, <3>2
  <2>3. ASSUME NEW j \in DOMAIN report.issues, report'.loads[j] = "waiting"
        PROVE  report.issues[j] \notin suggested
    <3>1. j # i
      BY <2>3, <1>6 DEF Answered
    <3>2. report.loads[j] = "waiting" /\ report.issues[j] # issue
      BY <2>3, <3>1, <1>1, <1>2, <1>4, <1>6 DEF Answered, IssuesFit
    <3>. QED BY <3>2, <1>1, <1>2, <1>4 DEF SuggestionsFit
  <2>. HIDE DEF fate, suggested
  <2>. QED BY <1>5, <1>6, <2>1, <2>2, <2>3 DEF SuggestionsFit, Answered, IsOwn
<1>. QED
  BY <1>6, <1>7, <1>8, <1>9 DEF ReportsInv, Answered

LEMMA LoadFailsKeeps ==
    ASSUME ReportsInv, NEW i, LoadFails(i)
    PROVE  ReportsInv'
<1>. DEFINE issue == report.issues[i]
<1>1. ReportShaped /\ ReportTypeOK /\ IssuesFit /\ LoadsFit /\ SuggestionsFit
  BY DEF ReportsInv
<1>2. PICK fate \in {"warned", "fatal"} :
        report' = [report EXCEPT
                     !.loads[i] = fate,
                     !.warned = IF fate = "warned" THEN @ \cup {report.issues[i]} ELSE @]
  BY DEF LoadFails
<1>3. /\ report.phase = "loading" /\ i \in DOMAIN report.loads /\ report.loads[i] = "waiting"
      /\ worklogs' = worklogs /\ kept' = kept /\ edits' = edits
  BY DEF LoadFails, MayLoad
<1>. DEFINE warned == IF fate = "warned" THEN report.warned \cup {issue} ELSE report.warned
            loads == [report.loads EXCEPT ![i] = fate]
<1>4. report' = [kind |-> report.kind, period |-> report.period, phase |-> report.phase,
                 issues |-> report.issues, loads |-> loads,
                 entries |-> report.entries, warned |-> warned, suggested |-> report.suggested,
                 members |-> report.members, summary |-> report.summary]
  <2>1. report' = [report EXCEPT !.loads = loads, !.warned = warned]
    BY <1>2
  <2>. HIDE DEF loads, warned
  <2>. QED BY <1>1, <2>1 DEF ReportShaped
<1>5. DOMAIN report.loads = DOMAIN report.issues /\ issue \in Issues
  BY <1>1, <1>3 DEF ReportTypeOK
<1>6. /\ report'.entries = report.entries /\ report'.warned = warned
      /\ report'.suggested = report.suggested
  BY <1>4
<1>7. Answered(i, fate)
  <2>1. DOMAIN loads = DOMAIN report.loads /\ loads[i] = fate
        /\ \A j \in DOMAIN report.loads \ {i} : loads[j] = report.loads[j]
    BY <1>3
  <2>. HIDE DEF loads, warned
  <2>2. /\ report'.kind = report.kind /\ report'.period = report.period
        /\ report'.phase = report.phase /\ report'.issues = report.issues
        /\ report'.loads = loads /\ report'.members = report.members
    BY <1>4
  <2>3. ReportShaped'
    BY <1>4 DEF ReportShaped
  <2>4. i \in DOMAIN report.issues
    BY <1>3, <1>5
  <2>. QED BY <1>3, <2>1, <2>2, <2>3, <2>4 DEF Answered
<1>8. ReportTypeOK' /\ IssuesFit' /\ EndsFit'
  <2>1. fate \in LoadStates /\ fate # "waiting"
    BY DEF LoadStates
  <2>2. warned \subseteq Issues
    BY <1>1, <1>5 DEF ReportTypeOK
  <2>. HIDE DEF warned
  <2>. QED BY <1>1, <1>6, <1>7, <2>1, <2>2, AnsweredKeeps DEF ReportTypeOK
<1>9. \A j \in DOMAIN report.issues : j # i => report'.loads[j] = report.loads[j]
  BY <1>5, <1>7 DEF Answered
<1>10. LoadsFit'
  <2>1. ASSUME NEW e \in report.entries
        PROVE  \E j \in DOMAIN report.issues :
                    report.issues[j] = IssueOf[e.id] /\ report'.loads[j] = "read"
    <3>1. PICK j \in DOMAIN report.issues : report.issues[j] = IssueOf[e.id] /\ report.loads[j] = "read"
      BY <1>1, <2>1 DEF LoadsFit
    <3>2. report'.loads[j] = "read"
      BY <1>3, <1>9, <3>1
    <3>. QED BY <3>1, <3>2
  <2>2. ASSUME NEW j \in DOMAIN report.issues, report'.loads[j] = "read"
        PROVE  report.loads[j] = "read"
    BY <2>2, <1>7, <1>9 DEF Answered
  <2>3. ASSUME NEW j \in DOMAIN report.issues, report'.loads[j] = "warned", report.kind # "unlogged"
        PROVE  report.issues[j] \in warned
    <3>1. CASE j = i
      BY <3>1, <2>3, <1>7 DEF Answered
    <3>2. CASE j # i
      BY <3>2, <2>3, <1>1, <1>9 DEF LoadsFit
    <3>. QED BY <3>1, <3>2
  <2>. HIDE DEF warned
  <2>4. /\ \A j \in DOMAIN report'.issues :
             report'.loads[j] = "read" /\ report'.kind # "unlogged" =>
               \A w \in Worklogs : (Counts(w) /\ IssueOf[w] = report.issues[j])' =>
                   \E e \in report'.entries : e.id = w
    BY <1>1, <1>6, <1>7, <2>2 DEF Answered, Counts, LoadsFit
  <2>5. \A j \in DOMAIN report'.issues :
         report'.loads[j] = "warned" /\ report'.kind # "unlogged" => report'.issues[j] \in report'.warned
    BY <1>6, <1>7, <2>3 DEF Answered
  <2>6. \A e \in report'.entries :
         /\ InPeriod(report'.period, e.day)
         /\ \E j \in DOMAIN report'.issues :
              report'.issues[j] = IssueOf[e.id] /\ report'.loads[j] = "read"
    BY <1>1, <1>6, <1>7, <2>1 DEF Answered, LoadsFit
  <2>. QED BY <1>1, <1>6, <2>4, <2>5, <2>6 DEF LoadsFit
<1>11. SuggestionsFit'
  <2>1. ASSUME NEW j \in DOMAIN report.issues, report'.loads[j] \in {"read", "waiting"}
        PROVE  report.loads[j] = report'.loads[j]
    BY <2>1, <1>7, <1>9 DEF Answered
  <2>. QED BY <1>1, <1>6, <1>7, <2>1 DEF SuggestionsFit, Answered, IsOwn
<1>. QED
  BY <1>7, <1>8, <1>10, <1>11 DEF ReportsInv, Answered

LEMMA CollectKeeps == ReportsInv /\ Collect => ReportsInv'
<1>. SUFFICES ASSUME ReportsInv, Collect PROVE ReportsInv'
  OBVIOUS
<1>. DEFINE bad == IF report.kind = "unlogged" THEN {"warned", "fatal"} ELSE {"fatal"}
            isBad == \E i \in DOMAIN report.loads : report.loads[i] \in bad
<1>1. /\ ReportShaped /\ ReportTypeOK /\ IssuesFit /\ LoadsFit /\ SuggestionsFit
      /\ DOMAIN report.loads = DOMAIN report.issues
  BY DEF ReportsInv, ReportTypeOK
<1>2. /\ report.phase = "loading"
      /\ \A i \in DOMAIN report.loads : report.loads[i] # "waiting"
      /\ worklogs' = worklogs /\ kept' = kept /\ edits' = edits
  BY DEF Collect
<1>3. PICK phase, members, summary :
        /\ report' = [kind |-> report.kind, period |-> report.period, phase |-> phase,
                 issues |-> report.issues, loads |-> report.loads,
                 entries |-> report.entries, warned |-> report.warned,
                 suggested |-> report.suggested, members |-> members, summary |-> summary]
        /\ members \subseteq Persons
        /\ \/ phase = "failed" /\ isBad
           \/ phase = "told" /\ ~isBad /\ (report.kind = "own" => summary = Summary(report.entries))
  <2>1. CASE isBad
    <3>1. report' = [report EXCEPT !.phase = "failed"]
      BY <2>1 DEF Collect
    <3>2. report' = [kind |-> report.kind, period |-> report.period, phase |-> "failed",
                 issues |-> report.issues, loads |-> report.loads,
                 entries |-> report.entries, warned |-> report.warned,
                 suggested |-> report.suggested, members |-> report.members,
                 summary |-> report.summary]
      BY <1>1, <3>1, Zenon DEF ReportShaped
    <3>3. report.members \subseteq Persons
      BY <1>1 DEF ReportTypeOK
    <3>. HIDE DEF isBad
    <3>. QED BY <2>1, <3>2, <3>3
  <2>2. CASE ~isBad
    <3>1. PICK roster \in IF report.kind = "team" THEN SUBSET Persons ELSE {{}} :
            report' = [report EXCEPT
                    !.phase = "told",
                    !.members = IF report.kind = "team"
                                THEN roster \cup {e.author : e \in report.entries} ELSE {},
                    !.summary = IF report.kind = "own" THEN Summary(report.entries)
                                ELSE NoSummary]
      BY <2>2 DEF Collect
    <3>. DEFINE members == IF report.kind = "team"
                           THEN roster \cup {e.author : e \in report.entries} ELSE {}
                summary == IF report.kind = "own" THEN Summary(report.entries) ELSE NoSummary
    <3>2. members \subseteq Persons
      <4>1. roster \subseteq Persons
        OBVIOUS
      <4>2. \A e \in report.entries : e.author \in Persons
        BY <1>1 DEF ReportTypeOK
      <4>. QED BY <4>1, <4>2
    <3>3. report.kind = "own" => summary = Summary(report.entries)
      OBVIOUS
    <3>. HIDE DEF members, summary, isBad
    <3>4. report' = [report EXCEPT !.phase = "told", !.members = members, !.summary = summary]
      BY <3>1 DEF members, summary
    <3>5. report' = [kind |-> report.kind, period |-> report.period, phase |-> "told",
                 issues |-> report.issues, loads |-> report.loads,
                 entries |-> report.entries, warned |-> report.warned,
                 suggested |-> report.suggested, members |-> members,
                 summary |-> summary]
      BY <1>1, <3>4, Zenon DEF ReportShaped
    <3>. QED BY <2>2, <3>2, <3>3, <3>5
  <2>. QED BY <2>1, <2>2
<1>4. /\ report'.kind = report.kind /\ report'.period = report.period /\ report'.phase = phase
      /\ report'.issues = report.issues /\ report'.loads = report.loads
      /\ report'.entries = report.entries /\ report'.warned = report.warned
      /\ report'.suggested = report.suggested
      /\ report'.members = members /\ report'.summary = summary
  BY <1>3
<1>. HIDE DEF isBad
<1>5. ReportShaped'
  BY <1>3 DEF ReportShaped
<1>6. ReportTypeOK'
  BY <1>1, <1>2, <1>3, <1>4 DEF ReportTypeOK
<1>7. IssuesFit'
  BY <1>1, <1>2, <1>3, <1>4 DEF IssuesFit
<1>8. LoadsFit'
  BY <1>1, <1>2, <1>4 DEF LoadsFit, Counts
<1>9. SuggestionsFit'
  BY <1>1, <1>2, <1>4 DEF SuggestionsFit, IsOwn
<1>10. EndsFit'
  <2>1. Summary(report.entries)' = Summary(report.entries)
    BY <1>4 DEF Summary
  <2>2. phase = "told" => \A i \in DOMAIN report.issues :
             report.loads[i] = "read" \/ (report.loads[i] = "warned" /\ report.kind # "unlogged")
    <3>1. ASSUME phase = "told", NEW i \in DOMAIN report.issues
          PROVE  report.loads[i] = "read" \/ (report.loads[i] = "warned" /\ report.kind # "unlogged")
      <4>1. ~isBad
        BY <3>1, <1>3
      <4>2. report.loads[i] \notin bad /\ report.loads[i] \in LoadStates /\ report.loads[i] # "waiting"
        BY <4>1, <1>1, <1>2 DEF isBad, ReportTypeOK
      <4>. QED BY <4>2 DEF LoadStates
    <3>. QED BY <3>1
  <2>3. phase = "failed" /\ report.kind # "unlogged" =>
           \E i \in DOMAIN report.loads : report.loads[i] = "fatal"
    BY <1>3 DEF isBad
  <2>. QED BY <1>3, <1>4, <2>1, <2>2, <2>3 DEF EndsFit
<1>. QED
  BY <1>5, <1>6, <1>7, <1>8, <1>9, <1>10 DEF ReportsInv

LEMMA EditKeeps ==
    ASSUME ReportsInv, NEW w \in Worklogs, Edit(w)
    PROVE  ReportsInv'
<1>1. /\ ReportShaped /\ ReportTypeOK /\ IssuesFit /\ LoadsFit /\ SuggestionsFit /\ EndsFit
  BY DEF ReportsInv
<1>2. PICK new \in WorklogStates : worklogs' = [worklogs EXCEPT ![w] = new]
  BY DEF Edit
<1>3. /\ report.phase \in {"listing", "loading"} /\ edits < MaxEdits
      /\ kept' = kept \ {w} /\ edits' = edits + 1 /\ report' = report
  BY DEF Edit
<1>4. edits' \in 0 .. MaxEdits /\ edits' > 0
  BY <1>1, <1>3, ReportNumbers, SMT DEF ReportTypeOK
<1>5. /\ worklogs' \in [Worklogs -> WorklogStates]
      /\ \A v \in kept' : v \in kept /\ worklogs'[v] = worklogs[v]
  BY <1>1, <1>2, <1>3 DEF ReportTypeOK
<1>6. ReportShaped'
  BY <1>1, <1>3 DEF ReportShaped
<1>7. ReportTypeOK'
  BY <1>1, <1>3, <1>4, <1>5 DEF ReportTypeOK
<1>8. IssuesFit'
  BY <1>1, <1>3, <1>5 DEF IssuesFit
<1>9. LoadsFit'
  BY <1>1, <1>3, <1>5 DEF LoadsFit, Counts
<1>10. SuggestionsFit'
  BY <1>1, <1>3, <1>4, <1>5 DEF SuggestionsFit, IsOwn
<1>11. EndsFit'
  BY <1>3 DEF EndsFit
<1>. QED
  BY <1>6, <1>7, <1>8, <1>9, <1>10, <1>11 DEF ReportsInv

LEMMA ReportStepInv == ReportsInv /\ [ReportNext]_reportVars => ReportsInv'
<1>. SUFFICES ASSUME ReportsInv, [ReportNext]_reportVars PROVE ReportsInv'
  OBVIOUS
<1>1. CASE ListIssues \/ ListingFails \/ Collect
  BY <1>1, ListIssuesKeeps, ListingFailsKeeps, CollectKeeps
<1>2. ASSUME NEW i \in DOMAIN report.loads, LoadIssue(i) \/ LoadFails(i) PROVE ReportsInv'
  BY <1>2, HoursAnswered, UnloggedAnswered, LoadFailsKeeps
<1>3. ASSUME NEW w \in Worklogs, Edit(w) PROVE ReportsInv'
  BY <1>3, EditKeeps
<1>4. CASE UNCHANGED reportVars
  <2>1. worklogs' = worklogs /\ kept' = kept /\ edits' = edits /\ report' = report
    BY <1>4 DEF reportVars
  <2>. QED
    BY <2>1 DEF ReportsInv, ReportShaped, ReportTypeOK, IssuesFit, LoadsFit, SuggestionsFit, EndsFit,
                Counts, IsOwn, Summary
<1>. QED
  BY <1>1, <1>2, <1>3, <1>4 DEF ReportNext

LEMMA SumOfEntries ==
    ASSUME NEW entries
    PROVE  SumSeconds(entries) = SumOver(SecondsOf, {e.id : e \in entries})
BY DEF SumSeconds, SumOver

LEMMA SummaryFields ==
    ASSUME NEW entries
    PROVE  /\ Summary(entries).loaded = SumSeconds(entries)
           /\ Summary(entries).missing = IF SumSeconds(entries) < TargetSeconds
                                         THEN TargetSeconds - SumSeconds(entries) ELSE 0
           /\ Summary(entries).progress = IF (SumSeconds(entries) * 100) \div TargetSeconds < 100
                                          THEN (SumSeconds(entries) * 100) \div TargetSeconds ELSE 100
           /\ Summary(entries).days = [day \in report.period.from .. report.period.to |->
                                          SumSeconds({e \in entries : e.day = day})]
           /\ Summary(entries).tasks = [issue \in {IssueOf[e.id] : e \in entries} |->
                                          SumSeconds({e \in entries : IssueOf[e.id] = issue})]
BY DEF Summary

\* The totals by day and by task are those of the worklogs in groups.
LEMMA TotalsAgree ==
    ASSUME ReportsInv, report.phase # "refused"
    PROVE  LET summary == Summary(report.entries)
           IN  /\ summary.loaded \in Nat
               /\ summary.loaded = SumOver(summary.days, DOMAIN summary.days)
               /\ summary.loaded = SumOver(summary.tasks, DOMAIN summary.tasks)
<1>. DEFINE entries == report.entries
            ids == {e.id : e \in entries}
            dates == report.period.from .. report.period.to
            tasks == {IssueOf[e.id] : e \in entries}
            dateOf == [w \in ids |-> (CHOOSE e \in entries : e.id = w).day]
            days == [day \in dates |-> SumSeconds({e \in entries : e.day = day})]
            byTask == [issue \in tasks |-> SumSeconds({e \in entries : IssueOf[e.id] = issue})]
<1>1. /\ entries \subseteq [id : Worklogs, author : Persons, day : Days]
      /\ report.period \in ReportPeriods
      /\ \A e \in entries : InPeriod(report.period, e.day)
      /\ \A e, f \in entries : e.id = f.id => e = f
  BY DEF ReportsInv, ReportTypeOK, IssuesFit, LoadsFit
<1>2. ids \in SUBSET Worklogs /\ IsFiniteSet(ids) /\ \A w \in ids : SecondsOf[w] \in Nat
  <2>1. ids \in SUBSET Worklogs
    BY <1>1
  <2>. QED BY <2>1, ReportNumbers, FS_Subset
<1>3. IsFiniteSet(dates) /\ \A e \in entries : e.day \in dates
  <2>1. report.period.from \in Days /\ report.period.to \in Days
    BY <1>1 DEF ReportPeriods
  <2>2. report.period.from \in Int /\ report.period.to \in Int
    BY <2>1, ReportNumbers, SMT DEF Days
  <2>3. IsFiniteSet(dates)
    BY <2>2, FS_Interval
  <2>4. ASSUME NEW e \in entries PROVE e.day \in dates
    <3>1. e.day \in Int
      BY <1>1, ReportNumbers, SMT DEF Days
    <3>2. report.period.from <= e.day /\ e.day <= report.period.to
      BY <1>1 DEF InPeriod
    <3>. QED BY <2>2, <3>1, <3>2, SMT
  <2>. QED BY <2>3, <2>4
<1>4. IsFiniteSet(tasks) /\ \A w \in ids : IssueOf[w] \in tasks
  <2>1. tasks \in SUBSET Issues
    BY <1>1, ReportNumbers
  <2>. QED BY <2>1, ReportNumbers, FS_Subset
<1>5. \A e \in entries : dateOf[e.id] = e.day
  <2>1. ASSUME NEW e \in entries PROVE dateOf[e.id] = e.day
    <3>1. (CHOOSE f \in entries : f.id = e.id) = e
      BY <1>1
    <3>. QED BY <3>1
  <2>. QED BY <2>1
<1>6. days = [day \in dates |-> SumOver(SecondsOf, {w \in ids : dateOf[w] = day})]
  <2>1. ASSUME NEW day \in dates
        PROVE  SumSeconds({e \in entries : e.day = day})
                   = SumOver(SecondsOf, {w \in ids : dateOf[w] = day})
    <3>1. {e.id : e \in {e \in entries : e.day = day}} = {w \in ids : dateOf[w] = day}
      <4>. HIDE DEF dateOf
      <4>. QED BY <1>5
    <3>. HIDE DEF ids, dateOf
    <3>. QED BY <3>1, SumOfEntries
  <2>. HIDE DEF dates, ids, dateOf
  <2>. QED BY <2>1
<1>7. byTask = [issue \in tasks |-> SumOver(SecondsOf, {w \in ids : IssueOf[w] = issue})]
  <2>1. ASSUME NEW issue \in tasks
        PROVE  SumSeconds({e \in entries : IssueOf[e.id] = issue})
                   = SumOver(SecondsOf, {w \in ids : IssueOf[w] = issue})
    <3>1. {e.id : e \in {e \in entries : IssueOf[e.id] = issue}} = {w \in ids : IssueOf[w] = issue}
      OBVIOUS
    <3>. HIDE DEF ids
    <3>. QED BY <3>1, SumOfEntries
  <2>. HIDE DEF tasks, ids
  <2>. QED BY <2>1
<1>8. \A w \in ids : dateOf[w] \in dates
  <2>. HIDE DEF dateOf, dates
  <2>. QED BY <1>3, <1>5
<1>. DEFINE summary == Summary(report.entries)
<1>9. summary.loaded = SumOver(SecondsOf, ids) /\ summary.days = days /\ summary.tasks = byTask
  <2>1. SumSeconds(entries) = SumOver(SecondsOf, ids)
    BY SumOfEntries
  <2>. QED BY <2>1, SummaryFields
<1>. HIDE DEF days, byTask, dates, tasks, ids, dateOf, summary
<1>10. SumOver(SecondsOf, ids) \in Nat
  <2>1. SumOver(SecondsOf, ids) \in 0 .. Width - 1
    BY <1>2, SumTyped
  <2>. QED BY <2>1, WidthIsPositive, SMT
<1>11. SumOver(days, dates) = SumOver(SecondsOf, ids)
  BY <1>2, <1>3, <1>6, <1>8, SumByGroups
<1>12. SumOver(byTask, tasks) = SumOver(SecondsOf, ids)
  BY <1>2, <1>4, <1>7, SumByGroups
<1>13. DOMAIN days = dates /\ DOMAIN byTask = tasks
  BY <1>6, <1>7
<1>14. /\ summary.loaded \in Nat
       /\ summary.loaded = SumOver(summary.days, DOMAIN summary.days)
       /\ summary.loaded = SumOver(summary.tasks, DOMAIN summary.tasks)
  BY <1>9, <1>10, <1>11, <1>12, <1>13
<1>. QED
  BY <1>14 DEF summary

LEMMA ReportIsRight == ReportsInv => ReportsAreRight
<1>. SUFFICES ASSUME ReportsInv PROVE ReportsAreRight
  OBVIOUS
<1>1. ReportTypeOK /\ IssuesFit /\ LoadsFit /\ SuggestionsFit /\ EndsFit
  BY DEF ReportsInv
<1>2. ASSUME report.kind = "unlogged" PROVE UnloggedSuggested
  <2>1. SUFFICES ASSUME report.phase = "told", NEW i \in DOMAIN report.issues
        PROVE  LET issue == report.issues[i]
                   own == {w \in Worklogs : /\ IssueOf[w] = issue /\ worklogs[w].there
                                            /\ worklogs[w].author = Me
                                            /\ InPeriod(report.period, worklogs[w].day)}
               IN  /\ issue \in report.suggested =>
                          \A w \in own \cap kept : worklogs[w].condition # "fine"
                   /\ issue \notin report.suggested => own # {} \/ edits > 0
    BY DEF UnloggedSuggested
  <2>2. report.loads[i] = "read"
    BY <1>1, <1>2, <2>1 DEF EndsFit
  <2>3. /\ report.issues[i] \in report.suggested =>
              \A w \in kept : IsOwn(w, report.issues[i]) => worklogs[w].condition # "fine"
        /\ report.issues[i] \notin report.suggested =>
              edits > 0 \/ \E w \in Worklogs : IsOwn(w, report.issues[i])
    BY <1>1, <1>2, <2>2 DEF SuggestionsFit
  <2>. QED BY <2>3, Zenon DEF IsOwn
<1>3. ASSUME report.kind # "unlogged" PROVE HoursAccountedFor
  <2>1. ASSUME report.phase = "told", NEW w \in Worklogs, Counts(w)
        PROVE  (\E e \in report.entries : e.id = w) \/ IssueOf[w] \in report.warned
    <3>1. PICK i \in DOMAIN report.issues : report.issues[i] = IssueOf[w]
      BY <1>1, <1>3, <2>1 DEF IssuesFit, Counts
    <3>2. report.loads[i] \in {"read", "warned"}
      BY <1>1, <2>1 DEF EndsFit
    <3>. QED BY <1>1, <1>3, <2>1, <3>1, <3>2 DEF LoadsFit
  <2>2. ASSUME report.phase = "told", report.kind = "own"
        PROVE  /\ report.summary.loaded = SumOver(report.summary.days, DOMAIN report.summary.days)
               /\ report.summary.loaded = SumOver(report.summary.tasks, DOMAIN report.summary.tasks)
               /\ (report.summary.progress = 100) = (report.summary.missing = 0)
    <3>1. report.summary = Summary(report.entries)
      BY <1>1, <2>2 DEF EndsFit
    <3>2. /\ report.summary.loaded \in Nat
          /\ report.summary.loaded = SumOver(report.summary.days, DOMAIN report.summary.days)
          /\ report.summary.loaded = SumOver(report.summary.tasks, DOMAIN report.summary.tasks)
      BY <2>2, <3>1, TotalsAgree
    <3>. DEFINE l == SumSeconds(report.entries)
    <3>0. report.summary.loaded = l
      BY <3>1, SummaryFields
    <3>3. /\ report.summary.missing = IF l < TargetSeconds THEN TargetSeconds - l ELSE 0
          /\ report.summary.progress = IF (l * 100) \div TargetSeconds < 100
                                       THEN (l * 100) \div TargetSeconds ELSE 100
      <4>1. /\ Summary(report.entries).missing = IF l < TargetSeconds THEN TargetSeconds - l ELSE 0
            /\ Summary(report.entries).progress = IF (l * 100) \div TargetSeconds < 100
                                                   THEN (l * 100) \div TargetSeconds ELSE 100
        BY SummaryFields
      <4>. HIDE DEF l
      <4>. QED BY <3>1, <4>1
    <3>. HIDE DEF l
    <3>4. ((l * 100) \div TargetSeconds < 100) <=> (l < TargetSeconds)
      BY <3>0, <3>2, ReportNumbers, FullWeek
    <3>5. (report.summary.progress = 100) <=> ~(l < TargetSeconds)
      <4>1. (l * 100) \div TargetSeconds < 100 => (l * 100) \div TargetSeconds # 100
        <5>1. \A n : n < 100 => n # 100
          BY SMT
        <5>. QED BY <5>1, Zenon
      <4>. QED BY <3>3, <3>4, <4>1
    <3>6. (report.summary.missing = 0) <=> ~(l < TargetSeconds)
      <4>1. \A a, t \in Nat : a < t => t - a # 0
        BY SMT
      <4>2. l \in Nat /\ TargetSeconds \in Nat
        BY <3>0, <3>2, ReportNumbers
      <4>3. l < TargetSeconds => TargetSeconds - l # 0
        BY <4>1, <4>2, Zenon
      <4>4. /\ l < TargetSeconds => report.summary.missing = TargetSeconds - l
            /\ ~(l < TargetSeconds) => report.summary.missing = 0
        BY <3>3, Zenon
      <4>. QED BY <4>3, <4>4, Zenon
    <3>. QED BY <3>2, <3>5, <3>6
  <2>3. ASSUME report.phase = "failed", report.loads # <<>>
        PROVE  \E i \in DOMAIN report.loads : report.loads[i] = "fatal"
    BY <1>1, <1>3, <2>3 DEF EndsFit
  <2>4. \A f : FoldFunction(LAMBDA a, b : (a + b) % Width, 0, f) = SumOver(f, DOMAIN f)
    BY DEF FoldFunction, SumOver
  <2>. QED BY <2>1, <2>2, <2>3, <2>4 DEF HoursAccountedFor
<1>. QED
  BY <1>2, <1>3 DEF ReportsAreRight

\* Reports: what a report tells accounts for the hours that were there throughout, its
\* totals agree, and what it suggests has no hours, for any worklogs, any number of
\* issues and any width of the sums, whatever is logged meanwhile.
THEOREM ReportsAccountForHours == ReportSpec => []ReportsAreRight
<1>1. ReportSpec => []ReportsInv
  BY ReportInitInv, ReportStepInv, PTL DEF ReportSpec
<1>2. ReportsInv => ReportsAreRight
  BY ReportIsRight
<1>. QED
  BY <1>1, <1>2, PTL

---------------------------------------------------------------------------
(* Permissions.                                                             *)

\* What the program restricts and saves: a configuration whose grants nobody has
\* checked yet.
Raw == [jira : Extents, hours : Extents, bitbucket : Extents,
        modules : [Modules -> [enabled : BOOLEAN, capabilities : SUBSET Capabilities]]]

ClosedSets == {s \in SUBSET Capabilities : Closed(s)}

LEMMA ConfigurationsAreRaw == Configurations \subseteq Raw
BY DEF Configurations, Consents, Raw

\* The module of a configuration that is restricted to a profile.
LEMMA RestrictedModule ==
    ASSUME NEW k \in Raw, NEW p \in ProfileSet
    PROVE  /\ Restricted(k, p) \in Raw
           /\ Restricted(k, p).jira = k.jira /\ Restricted(k, p).hours = k.hours
           /\ Restricted(k, p).bitbucket = k.bitbucket
           /\ \A m \in Modules :
                /\ Restricted(k, p).modules[m].capabilities
                     = k.modules[m].capabilities \cap p.allowed
                /\ Restricted(k, p).modules[m].enabled
                     <=> /\ k.modules[m].enabled
                         /\ k.modules[m].capabilities \cap p.allowed # {}
<1>. DEFINE remains(m) == k.modules[m].capabilities \cap p.allowed
            limited == [m \in Modules |->
                          [enabled |-> k.modules[m].enabled /\ remains(m) # {},
                           capabilities |-> remains(m)]]
<1>1. Restricted(k, p) = [k EXCEPT !.modules = limited]
  BY DEF Restricted
<1>2. limited \in [Modules -> [enabled : BOOLEAN, capabilities : SUBSET Capabilities]]
  BY DEF Raw
<1>3. \A m \in Modules : /\ limited[m].capabilities = remains(m)
                         /\ limited[m].enabled <=> (k.modules[m].enabled /\ remains(m) # {})
  OBVIOUS
<1>. HIDE DEF limited
<1>4. /\ Restricted(k, p) \in Raw /\ Restricted(k, p).modules = limited
      /\ Restricted(k, p).jira = k.jira /\ Restricted(k, p).hours = k.hours
      /\ Restricted(k, p).bitbucket = k.bitbucket
  BY <1>1, <1>2 DEF Raw
<1>. QED
  BY <1>3, <1>4

\* What a restricted configuration grants.
LEMMA RestrictedGrants ==
    ASSUME NEW k \in Raw, NEW p \in ProfileSet
    PROVE  Granted(Restricted(k, p)) = Granted(k) \cap p.allowed
<1>1. \A c \in Capabilities : ModuleOf[c] \in Modules
  BY PermissionsAssumption DEF PermissionsAssumption
<1>2. ASSUME NEW c \in Capabilities
      PROVE  Enabled(Restricted(k, p), c) <=> Enabled(k, c) /\ c \in p.allowed
  BY <1>1, RestrictedModule DEF Enabled
<1>. QED
  BY <1>2 DEF Granted

\* Nothing is saved but configurations, and they grant what was chosen within the
\* profile.
LEMMA SavedConfigurations ==
    ASSUME document \in Configurations, NEW configurations \in SUBSET Raw,
           NEW p \in ProfileSet, NEW new \in Saved(configurations, p)
    PROVE  /\ new \in Configurations
           /\ \E k \in configurations : Granted(new) = Granted(k) \cap p.allowed
<1>1. PICK k \in configurations :
        /\ Valid(k) /\ WithinProfile(Restricted(k, p), p)
        /\ new = Stored(Restricted(k, p))
  BY DEF Saved
<1>. DEFINE r == Restricted(k, p)
<1>2. k \in Raw /\ r \in Raw
  BY RestrictedModule
<1>3. Valid(r)
  BY <1>1 DEF WithinProfile
<1>. HIDE DEF r
<1>4. r.modules \in Consents
  <2>1. \A m \in Modules : Closed(r.modules[m].capabilities)
    BY <1>3 DEF Valid
  <2>. QED
    BY <1>2, <2>1 DEF Raw, Consents
<1>5. Stored(r) \in Configurations /\ Stored(r).modules = r.modules
  BY <1>2, <1>4 DEF Stored, Configurations, Raw, Extents
<1>6. Granted(Stored(r)) = Granted(r)
  BY <1>5 DEF Granted, Enabled
<1>. QED
  BY <1>1, <1>2, <1>5, <1>6, RestrictedGrants DEF r
---------------------------------------------------------------------------
LEMMA ProfilesAreProfiles ==
    /\ Profiles \subseteq ProfileSet /\ Embedded \in Profiles
    /\ Imports \subseteq Configurations /\ NoProfile \notin Profiles
    /\ NoConfiguration \notin Configurations
    /\ ModuleOf \in [Capabilities -> Modules]
    /\ RequiredRead \in [Capabilities -> Capabilities \cup {NoCapability}]
    /\ NoCapability \notin Capabilities
BY PermissionsAssumption DEF PermissionsAssumption

LEMMA LoadedConfiguration ==
    ASSUME document \in Configurations
    PROVE  /\ Loaded # NoConfiguration => Loaded = document
           /\ CurrentModules \in Consents
<1>1. Loaded \in {NoConfiguration, document}
  BY DEF Loaded
<1>2. NothingConsented \in Consents
  <2>1. {} \in ClosedSets
    BY DEF ClosedSets, Closed
  <2>. QED
    BY <2>1 DEF NothingConsented, Consents, ClosedSets
<1>3. document.modules \in Consents
  BY DEF Configurations
<1>. QED
  BY <1>1, <1>2, <1>3 DEF CurrentModules

LEMMA ModulesOfCapability ==
    ASSUME NEW modules \in Consents, NEW c \in Capabilities, NEW on \in BOOLEAN
    PROVE  WithCapability(modules, c, on)
             \in [Modules -> [enabled : BOOLEAN, capabilities : SUBSET Capabilities]]
<1>1. ModuleOf[c] \in Modules /\ WithRead(c) \subseteq Capabilities
  BY ProfilesAreProfiles DEF WithRead
<1>2. /\ modules \in [Modules -> [enabled : BOOLEAN, capabilities : SUBSET Capabilities]]
      /\ modules[ModuleOf[c]].capabilities \in SUBSET Capabilities
  BY <1>1 DEF Consents
<1>. DEFINE now == modules[ModuleOf[c]].capabilities
            after == IF on THEN now \cup WithRead(c) ELSE now \ Needing(c)
<1>3. after \in SUBSET Capabilities
  BY <1>1, <1>2
<1>4. WithCapability(modules, c, on)
        = [modules EXCEPT ![ModuleOf[c]] = [enabled |-> after # {}, capabilities |-> after]]
  BY DEF WithCapability
<1>. HIDE DEF after
<1>5. [enabled |-> after # {}, capabilities |-> after]
        \in [enabled : BOOLEAN, capabilities : SUBSET Capabilities]
  BY <1>3
<1>. QED
  BY <1>1, <1>2, <1>4, <1>5

\* What the consent page and a setup save was made of well-formed parts.
LEMMA ConsentedConfigurations ==
    ASSUME PermissionsTypeOK, NEW c \in Capabilities, NEW on \in BOOLEAN,
           NEW new \in Consented(c, on)
    PROVE  /\ new \in Configurations
           /\ \E k \in Raw : /\ k.modules = WithCapability(CurrentModules, c, on)
                             /\ Granted(new) = Granted(k) \cap desktop.allowed
           /\ on => c \in desktop.allowed
<1>. DEFINE current == IF Loaded = NoConfiguration
                       THEN [jira |-> "missing", hours |-> "missing", bitbucket |-> "missing"]
                       ELSE Loaded
            jiras == IF current.jira = "missing" THEN {"within", "beyond"} ELSE {current.jira}
            borrowed == \/ current.jira = "missing"
                        \/ on /\ c = ReadOwnTimeEntries /\ current.hours = "missing"
            hours == IF borrowed THEN {"within", "beyond"} ELSE {current.hours}
            offered == [jira : jiras, hours : hours, bitbucket : {current.bitbucket},
                        modules : {WithCapability(CurrentModules, c, on)}]
<1>1. document \in Configurations /\ desktop \in ProfileSet
  BY ProfilesAreProfiles DEF PermissionsTypeOK
<1>2. new \in Saved(offered, desktop) /\ (on => c \in desktop.allowed)
  BY DEF Consented
<1>3. current.jira \in Extents /\ current.hours \in Extents /\ current.bitbucket \in Extents
  BY <1>1, LoadedConfiguration DEF Configurations, Extents
<1>. HIDE DEF current
<1>4. jiras \subseteq Extents /\ hours \subseteq Extents
  BY <1>3 DEF Extents
<1>. HIDE DEF jiras, hours
<1>5. offered \in SUBSET Raw
  BY <1>1, <1>3, <1>4, LoadedConfiguration, ModulesOfCapability DEF Raw
<1>6. \A k \in offered : k \in Raw /\ k.modules = WithCapability(CurrentModules, c, on)
  BY <1>5
<1>. HIDE DEF offered
<1>7. /\ new \in Configurations
      /\ \E k \in offered : Granted(new) = Granted(k) \cap desktop.allowed
  BY <1>1, <1>2, <1>5, SavedConfigurations
<1>. QED
  BY <1>2, <1>6, <1>7

LEMMA SetUpConfigurations ==
    ASSUME PermissionsTypeOK, NEW m \in Modules, NEW chosen \in Selections(m),
           NEW p \in Profiles, NEW new \in SetUpWith(m, chosen, p)
    PROVE  /\ new \in Configurations
           /\ \E k \in Raw :
                /\ k.modules = [CurrentModules EXCEPT ![m] =
                                   [enabled |-> chosen # {}, capabilities |-> chosen]]
                /\ Granted(new) = Granted(k) \cap p.allowed
<1>. DEFINE modules == [CurrentModules EXCEPT ![m] =
                          [enabled |-> chosen # {}, capabilities |-> chosen]]
            current == IF Loaded = NoConfiguration
                       THEN [jira |-> "missing", hours |-> "missing", bitbucket |-> "missing"]
                       ELSE Loaded
            offered == IF p.strict THEN {"within"} ELSE {"within", "beyond"}
            forJira == [jira : offered,
                        hours : IF ReadOwnTimeEntries \in chosen THEN offered ELSE {"missing"},
                        bitbucket : {current.bitbucket}, modules : {modules}]
            forBitbucket == [jira : {current.jira}, hours : {current.hours},
                             bitbucket : offered, modules : {modules}]
<1>1. document \in Configurations /\ p \in ProfileSet
  BY ProfilesAreProfiles DEF PermissionsTypeOK
<1>2. new \in Saved(forJira, p) \/ new \in Saved(forBitbucket, p)
  BY DEF SetUpWith
<1>3. current.jira \in Extents /\ current.hours \in Extents /\ current.bitbucket \in Extents
  BY <1>1, LoadedConfiguration DEF Configurations, Extents
<1>4. modules \in [Modules -> [enabled : BOOLEAN, capabilities : SUBSET Capabilities]]
  <2>1. [enabled |-> chosen # {}, capabilities |-> chosen]
          \in [enabled : BOOLEAN, capabilities : SUBSET Capabilities]
    BY DEF Selections, OfModule
  <2>2. CurrentModules \in [Modules -> [enabled : BOOLEAN, capabilities : SUBSET Capabilities]]
    BY <1>1, LoadedConfiguration DEF Consents
  <2>. QED
    BY <2>1, <2>2
<1>. HIDE DEF current, modules
<1>5. offered \subseteq Extents /\ "missing" \in Extents
  BY DEF Extents
<1>. HIDE DEF offered
<1>6. forJira \in SUBSET Raw /\ forBitbucket \in SUBSET Raw
  BY <1>3, <1>4, <1>5 DEF Raw
<1>7. \A k \in forJira \cup forBitbucket : k.modules = modules
  OBVIOUS
<1>. HIDE DEF forJira, forBitbucket
<1>8. /\ new \in Configurations
      /\ \E k \in forJira \cup forBitbucket : Granted(new) = Granted(k) \cap p.allowed
  <2>1. CASE new \in Saved(forJira, p)
    BY <1>1, <1>6, <2>1, SavedConfigurations
  <2>2. CASE new \in Saved(forBitbucket, p)
    <3>1. /\ new \in Configurations
          /\ \E k \in forBitbucket : Granted(new) = Granted(k) \cap p.allowed
      BY <1>1, <1>6, <2>2, SavedConfigurations
    <3>. QED
      BY <3>1
  <2>. QED
    BY <1>2, <2>1, <2>2
<1>. QED
  BY <1>6, <1>7, <1>8 DEF modules

\* What a settings editor saves.
LEMMA EditedConfigurations ==
    ASSUME PermissionsTypeOK, NEW m \in Modules, NEW chosen \in EditorSelections(m),
           NEW draft \in Drafts(m, chosen)
    PROVE  draft \in Configurations /\ Saved(Applied(draft, m), profile) \subseteq Configurations
<1>. DEFINE grants == [enabled |-> chosen # {}, capabilities |-> chosen]
            modules == [document.modules EXCEPT ![m] = grants]
<1>1. document \in Configurations /\ profile \in ProfileSet
  BY ProfilesAreProfiles DEF PermissionsTypeOK
<1>2. modules \in Consents
  <2>1. chosen \in SUBSET Capabilities /\ chosen \in SUBSET OfModule(m) /\ Closed(chosen)
    BY DEF EditorSelections, Selections, OfModule
  <2>2. document.modules \in Consents
    BY <1>1 DEF Configurations
  <2>. QED
    BY <2>1, <2>2 DEF Consents
<1>. HIDE DEF modules
<1>3. draft \in Configurations
  BY <1>1, <1>2 DEF Drafts, Configurations, Extents, modules
<1>4. Applied(draft, m) \in SUBSET Raw
  <2>. DEFINE only == [NothingConsented EXCEPT ![m] = draft.modules[m]]
  <2>1. only \in [Modules -> [enabled : BOOLEAN, capabilities : SUBSET Capabilities]]
    BY <1>3 DEF NothingConsented, Configurations, Consents
  <2>2. draft \in Raw
    BY <1>3, ConfigurationsAreRaw
  <2>. HIDE DEF only
  <2>3. /\ [draft EXCEPT !.modules = draft.modules] \in Raw
        /\ [draft EXCEPT !.modules = only] \in Raw
    BY <2>1, <2>2 DEF Raw
  <2>. QED
    BY <2>3 DEF Applied, only
<1>5. Saved(Applied(draft, m), profile) \subseteq Configurations
  BY <1>1, <1>4, SavedConfigurations
<1>. QED
  BY <1>3, <1>5

---------------------------------------------------------------------------
LEMMA PermissionsInitTyped == PermissionsInit => PermissionsTypeOK
<1>1. NothingConsented \in Consents
  BY DEF NothingConsented, Consents, Closed
<1>. QED
  BY <1>1, ProfilesAreProfiles DEF PermissionsInit, PermissionsTypeOK, Configurations, Extents

LEMMA PermissionsStepTyped == PermissionsTypeOK /\ [PermissionsNext]_permissionVars => PermissionsTypeOK'
<1>. SUFFICES ASSUME PermissionsTypeOK, [PermissionsNext]_permissionVars PROVE PermissionsTypeOK'
  OBVIOUS
<1>. USE ProfilesAreProfiles
<1>1. ASSUME NEW c \in Capabilities, NEW on \in BOOLEAN, Consent(c, on) PROVE PermissionsTypeOK'
  BY <1>1, ConsentedConfigurations DEF Consent, PermissionsTypeOK
<1>2. ASSUME NEW command \in CommandProfiles
      PROVE  command.used \in Profiles /\ command.arriving \in Profiles \cup {NoProfile}
  BY DEF CommandProfiles, PermissionsTypeOK
<1>3. ASSUME NEW m \in Modules, NEW chosen \in Selections(m), NEW command \in CommandProfiles,
             SetUp(m, chosen, command)
      PROVE  PermissionsTypeOK'
  <2>1. document' \in Configurations
    BY <1>2, <1>3, SetUpConfigurations DEF SetUp
  <2>. QED
    BY <1>2, <1>3, <2>1 DEF SetUp, PermissionsTypeOK
<1>4. ASSUME NEW configuration \in Imports, NEW command \in CommandProfiles,
             Import(configuration, command)
      PROVE  PermissionsTypeOK'
  <2>1. {configuration} \in SUBSET Raw
    BY ConfigurationsAreRaw
  <2>2. document' \in Configurations
    BY <1>2, <1>4, <2>1, SavedConfigurations DEF Import, PermissionsTypeOK
  <2>. QED
    BY <1>2, <1>4, <2>2 DEF Import, PermissionsTypeOK
<1>5. ASSUME NEW p \in Profiles, DesktopInstalls(p) PROVE PermissionsTypeOK'
  BY <1>5 DEF DesktopInstalls, PermissionsTypeOK
<1>6. CASE ProfileArrives
  BY <1>6 DEF ProfileArrives, PermissionsTypeOK
<1>7. CASE DesktopStarts
  BY <1>7 DEF DesktopStarts, PermissionsTypeOK
<1>8. ASSUME NEW m \in Modules, NEW chosen \in EditorSelections(m), EditSettings(m, chosen)
      PROVE  PermissionsTypeOK'
  <2>1. document' \in Configurations
    BY <1>8, EditedConfigurations DEF EditSettings
  <2>. QED
    BY <1>8, <2>1 DEF EditSettings, PermissionsTypeOK
<1>9. CASE Withdraw
  <2>1. NothingConsented \in Consents
    BY DEF NothingConsented, Consents, Closed
  <2>. QED
    BY <1>9, <2>1 DEF Withdraw, PermissionsTypeOK, Configurations
<1>10. CASE UNCHANGED permissionVars
  BY <1>10 DEF permissionVars, PermissionsTypeOK
<1>. QED
  BY <1>1, <1>3, <1>4, <1>5, <1>6, <1>7, <1>8, <1>9, <1>10 DEF PermissionsNext

LEMMA PermissionsTyped == PermissionsSpec => []PermissionsTypeOK
BY PermissionsInitTyped, PermissionsStepTyped, PTL DEF PermissionsSpec
\* What the server lists, of a document and a profile that are well formed.
LEMMA ServedTools ==
    ASSUME PermissionsTypeOK, CanServe
    PROVE  /\ Effective = Restricted(document, profile)
           /\ Effective \in Raw
           /\ Tools = Granted(document) \cap profile.allowed
           /\ Valid(Effective)
<1>1. document \in Raw /\ document \in Configurations /\ profile \in ProfileSet
  BY ProfilesAreProfiles, ConfigurationsAreRaw DEF PermissionsTypeOK
<1>2. Effective = Restricted(document, profile)
  BY <1>1, LoadedConfiguration DEF CanServe, Effective
<1>3. Effective \in Raw
  BY <1>1, <1>2, RestrictedModule
<1>4. Tools = Granted(document) \cap profile.allowed
  BY <1>1, <1>2, RestrictedGrants DEF Tools
<1>. QED
  BY <1>2, <1>3, <1>4 DEF CanServe, WithinProfile

\* A server that starts now lists nothing but tools that the person granted and the
\* installed profile allows; with a tool it lists the read that the tool needs, and it
\* has the backend the tool calls.
THEOREM ListedToolsAlwaysWork == PermissionsSpec => []ListedToolsWork
<1>1. PermissionsTypeOK => ListedToolsWork
  <2>. SUFFICES ASSUME PermissionsTypeOK, CanServe
                PROVE  /\ Tools \subseteq Granted(document) \cap profile.allowed
                       /\ \A c \in Tools : /\ BackendOf(c) \in Backends
                                           /\ RequiredRead[c] \in Tools \cup {NoCapability}
    BY DEF ListedToolsWork
  <2>. SUFFICES ASSUME NEW c \in Tools
                PROVE  BackendOf(c) \in Backends /\ RequiredRead[c] \in Tools \cup {NoCapability}
    BY ServedTools
  <2>1. c \in Capabilities /\ Enabled(Effective, c) /\ ModuleOf[c] \in Modules
    BY ProfilesAreProfiles DEF Tools, Granted
  <2>2. BackendOf(c) \in Backends
    BY <2>1 DEF BackendOf, Backends, Enabled, Modules
  <2>3. ASSUME RequiredRead[c] # NoCapability
        PROVE  RequiredRead[c] \in Tools
    <3>1. /\ RequiredRead[c] \in Capabilities
          /\ ModuleOf[RequiredRead[c]] = ModuleOf[c]
      BY <2>1, <2>3, PermissionsAssumption DEF PermissionsAssumption
    <3>2. Closed(Effective.modules[ModuleOf[c]].capabilities)
      BY <2>1, ServedTools DEF Valid
    <3>3. Enabled(Effective, RequiredRead[c])
      BY <2>1, <2>3, <3>1, <3>2 DEF Closed, Enabled
    <3>. QED
      BY <3>1, <3>3 DEF Tools, Granted
  <2>. QED
    BY <2>2, <2>3
<1>. QED
  BY <1>1, PermissionsTyped, PTL

---------------------------------------------------------------------------
\* The modules a consent starts from list nothing that the document does not.
LEMMA CurrentListed ==
    ASSUME PermissionsTypeOK, NEW m \in Modules
    PROVE  /\ CurrentModules[m].capabilities \subseteq document.modules[m].capabilities
           /\ CurrentModules[m].enabled => document.modules[m].enabled
           /\ Loaded # NoConfiguration => CurrentModules[m] = document.modules[m]
<1>1. document \in Configurations
  BY DEF PermissionsTypeOK
<1>2. CASE Loaded = NoConfiguration
  <2>1. CurrentModules[m] = [enabled |-> FALSE, capabilities |-> {}]
    BY <1>2 DEF CurrentModules, NothingConsented
  <2>. QED
    BY <1>2, <2>1
<1>3. CASE Loaded # NoConfiguration
  <2>1. CurrentModules[m] = document.modules[m]
    BY <1>1, <1>3, LoadedConfiguration DEF CurrentModules
  <2>. QED
    BY <2>1
<1>. QED
  BY <1>2, <1>3

\* A change of one module's consents alone.
LEMMA OneModuleChanged ==
    ASSUME PermissionsTypeOK, NEW m \in Modules, NEW consent, NEW k \in Raw,
           k.modules = [CurrentModules EXCEPT ![m] = consent], NEW d \in Capabilities
    PROVE  /\ ModuleOf[d] = m =>
                (d \in Granted(k) <=> consent.enabled /\ d \in consent.capabilities)
           /\ ModuleOf[d] # m =>
                /\ d \in Granted(k) => d \in Granted(document)
                /\ Loaded # NoConfiguration /\ d \in Granted(document) => d \in Granted(k)
<1>1. ModuleOf[d] \in Modules
  BY ProfilesAreProfiles
<1>2. CurrentModules \in Consents /\ DOMAIN CurrentModules = Modules
  BY LoadedConfiguration DEF PermissionsTypeOK, Consents
<1>3. CASE ModuleOf[d] = m
  <2>1. k.modules[ModuleOf[d]] = consent
    BY <1>2, <1>3
  <2>. QED
    BY <1>3, <2>1 DEF Granted, Enabled
<1>4. CASE ModuleOf[d] # m
  <2>1. k.modules[ModuleOf[d]] = CurrentModules[ModuleOf[d]]
    BY <1>1, <1>2, <1>4
  <2>. QED
    BY <1>1, <1>4, <2>1, CurrentListed DEF Granted, Enabled
<1>. QED
  BY <1>3, <1>4

\* A switch of the consent page grants what it names with its read, and what its module
\* listed while it was off; withdrawn, nothing that needs it is left; and the other
\* module keeps all that the profile allows.
LEMMA SwitchAsAsked ==
    ASSUME PermissionsTypeOK, NEW c \in Capabilities, NEW on \in BOOLEAN,
           NEW new \in Consented(c, on)
    PROVE  /\ Granted(new) \subseteq Granted(document) \cup Dormant(ModuleOf[c])
                                     \cup (IF on THEN WithRead(c) ELSE {})
           /\ on \/ Granted(new) \cap Needing(c) = {}
           /\ Loaded # NoConfiguration =>
                (Granted(document) \ OfModule(ModuleOf[c])) \cap desktop.allowed \subseteq Granted(new)
<1>. DEFINE m == ModuleOf[c]
            now == CurrentModules[m].capabilities
            after == IF on THEN now \cup WithRead(c) ELSE now \ Needing(c)
            consent == [enabled |-> after # {}, capabilities |-> after]
<1>1. m \in Modules
  BY ProfilesAreProfiles
<1>2. PICK k \in Raw :
         /\ k.modules = [CurrentModules EXCEPT ![m] = consent]
         /\ Granted(new) = Granted(k) \cap desktop.allowed
  <2>1. WithCapability(CurrentModules, c, on) = [CurrentModules EXCEPT ![m] = consent]
    BY DEF WithCapability
  <2>2. \E k \in Raw : /\ k.modules = WithCapability(CurrentModules, c, on)
                       /\ Granted(new) = Granted(k) \cap desktop.allowed
    BY ConsentedConfigurations
  <2>. HIDE DEF consent, m
  <2>. QED
    BY <2>1, <2>2
<1>3. consent.capabilities = after
  OBVIOUS
<1>4. now \subseteq document.modules[m].capabilities
  BY <1>1, CurrentListed
<1>. HIDE DEF consent, m
<1>5. ASSUME NEW d \in Granted(new), ModuleOf[d] = m
      PROVE  d \in after
  BY <1>1, <1>2, <1>3, <1>5, OneModuleChanged DEF Granted
<1>6. ASSUME NEW d \in Granted(new), ModuleOf[d] # m
      PROVE  d \in Granted(document)
  BY <1>1, <1>2, <1>6, OneModuleChanged DEF Granted
<1>7. ASSUME NEW d \in Granted(new)
      PROVE  d \in Granted(document) \cup Dormant(m) \cup (IF on THEN WithRead(c) ELSE {})
  <2>1. CASE ModuleOf[d] = m
    BY <1>4, <1>5, <2>1 DEF Dormant
  <2>. QED
    BY <1>6, <2>1
<1>8. ASSUME ~on, NEW d \in Granted(new) PROVE d \notin Needing(c)
  <2>1. CASE ModuleOf[d] = m
    BY <1>5, <1>8, <2>1
  <2>2. CASE ModuleOf[d] # m
    BY <2>2, PermissionsAssumption DEF PermissionsAssumption, Needing, m
  <2>. QED
    BY <2>1, <2>2
<1>9. ASSUME Loaded # NoConfiguration, NEW d \in (Granted(document) \ OfModule(m)) \cap desktop.allowed
      PROVE  d \in Granted(new)
  <2>1. d \in Capabilities /\ ModuleOf[d] # m
    BY DEF Granted, OfModule
  <2>. QED
    BY <1>1, <1>2, <1>9, <2>1, OneModuleChanged
<1>. QED
  BY <1>7, <1>8, <1>9 DEF m

\* A setup grants of its module what was chosen, and takes nothing from the other.
LEMMA SetUpAsAsked ==
    ASSUME PermissionsTypeOK, NEW m \in Modules, NEW chosen \in Selections(m),
           NEW p \in Profiles, NEW new \in SetUpWith(m, chosen, p)
    PROVE  /\ Granted(new) \subseteq (Granted(document) \ OfModule(m)) \cup chosen
           /\ Loaded # NoConfiguration =>
                (Granted(document) \ OfModule(m)) \cap p.allowed \subseteq Granted(new)
<1>. DEFINE consent == [enabled |-> chosen # {}, capabilities |-> chosen]
<1>1. PICK k \in Raw :
         /\ k.modules = [CurrentModules EXCEPT ![m] = consent]
         /\ Granted(new) = Granted(k) \cap p.allowed
  BY SetUpConfigurations
<1>2. consent.capabilities = chosen
  OBVIOUS
<1>. HIDE DEF consent
<1>3. ASSUME NEW d \in Granted(new)
      PROVE  d \in (Granted(document) \ OfModule(m)) \cup chosen
  <2>1. d \in Capabilities /\ d \in Granted(k)
    BY <1>1 DEF Granted
  <2>2. CASE ModuleOf[d] = m
    BY <1>1, <1>2, <2>1, <2>2, OneModuleChanged
  <2>3. CASE ModuleOf[d] # m
    BY <1>1, <2>1, <2>3, OneModuleChanged DEF OfModule
  <2>. QED
    BY <2>2, <2>3
<1>4. ASSUME Loaded # NoConfiguration, NEW d \in (Granted(document) \ OfModule(m)) \cap p.allowed
      PROVE  d \in Granted(new)
  <2>1. d \in Capabilities /\ ModuleOf[d] # m
    BY DEF Granted, OfModule
  <2>. QED
    BY <1>1, <1>4, <2>1, OneModuleChanged
<1>. QED
  BY <1>3, <1>4

\* Whatever state the settings and the profiles have come to: no switch of the consent
\* page and no setup grants or withdraws more than it names, but for what the profile
\* forbids and what was listed while it was off.
THEOREM ConsentIsAlwaysAskedFor == PermissionsSpec => []GrantsAreAskedFor
<1>1. PermissionsTypeOK => GrantsAreAskedFor
  BY SwitchAsAsked, SetUpAsAsked DEF GrantsAreAskedFor
<1>. QED
  BY <1>1, PermissionsTyped, PTL
===========================================================================
