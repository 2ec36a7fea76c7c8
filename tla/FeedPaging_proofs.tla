--------------------------- MODULE FeedPaging_proofs ---------------------------
(***************************************************************************)
(* Theorems about FeedPaging.  The first part is about its operators: what *)
(* ORDER BY, LIMIT and the selection of existing rows return.  The second  *)
(* ties each cursor to the pages a session has seen: nothing that has been *)
(* shown lies ahead of it, and what is wanted and was not shown does.      *)
(***************************************************************************)
EXTENDS FeedPaging, FiniteSetTheorems, SequenceTheorems, WellFoundedInduction, TLAPS

-----------------------------------------------------------------------------
(* Ranks in a finite set with a strict order R *)

Orders(R, S) ==
    /\ \A u \in S : <<u, u>> \notin R
    /\ \A u, v, w \in S : <<u, v>> \in R /\ <<v, w>> \in R => <<u, w>> \in R
    /\ \A u, v \in S : u # v => <<u, v>> \in R \/ <<v, u>> \in R

Below(R, S, v) == {w \in S : <<w, v>> \in R}

Ranks(R, S) == [v \in S |-> Cardinality(Below(R, S, v)) + 1]

LEMMA RanksGrow ==
  ASSUME NEW S, IsFiniteSet(S), NEW R, Orders(R, S)
  PROVE  /\ Cardinality(S) \in Nat
         /\ Ranks(R, S) \in [S -> 1 .. Cardinality(S)]
         /\ \A u, v \in S : <<u, v>> \in R => Ranks(R, S)[u] < Ranks(R, S)[v]
<1>1. \A v \in S : /\ IsFiniteSet(Below(R, S, v))
                   /\ Cardinality(Below(R, S, v)) \in Nat
                   /\ Cardinality(Below(R, S, v)) < Cardinality(S)
  <2> SUFFICES ASSUME NEW v \in S
               PROVE  /\ IsFiniteSet(Below(R, S, v))
                      /\ Cardinality(Below(R, S, v)) \in Nat
                      /\ Cardinality(Below(R, S, v)) < Cardinality(S)
    OBVIOUS
  <2>1. Below(R, S, v) \in SUBSET S /\ v \notin Below(R, S, v)
    BY DEF Below, Orders
  <2>2. /\ IsFiniteSet(Below(R, S, v))
        /\ Cardinality(Below(R, S, v)) <= Cardinality(S)
        /\ Cardinality(Below(R, S, v)) # Cardinality(S)
    BY <2>1, FS_Subset
  <2>3. Cardinality(S) \in Nat /\ Cardinality(Below(R, S, v)) \in Nat
    BY <2>2, FS_CardinalityType
  <2> QED
    BY <2>2, <2>3
<1>2. Cardinality(S) \in Nat
  BY FS_CardinalityType
<1>3. ASSUME NEW u \in S, NEW v \in S, <<u, v>> \in R
      PROVE  Cardinality(Below(R, S, u)) < Cardinality(Below(R, S, v))
  <2>1. Below(R, S, u) \in SUBSET Below(R, S, v)
    BY <1>3 DEF Below, Orders
  <2>2. u \in Below(R, S, v) /\ u \notin Below(R, S, u)
    BY <1>3 DEF Below, Orders
  <2>3. /\ Cardinality(Below(R, S, u)) <= Cardinality(Below(R, S, v))
        /\ Cardinality(Below(R, S, u)) # Cardinality(Below(R, S, v))
    BY <1>1, <2>1, <2>2, FS_Subset
  <2> QED
    BY <1>1, <2>3
<1>4. Ranks(R, S) \in [S -> 1 .. Cardinality(S)]
  <2>1. \A v \in S : Cardinality(Below(R, S, v)) + 1 \in 1 .. Cardinality(S)
    BY <1>1, <1>2
  <2> QED
    BY <2>1 DEF Ranks
<1> QED
  BY <1>1, <1>2, <1>3, <1>4 DEF Ranks

LEMMA RanksMatch ==
  ASSUME NEW S, IsFiniteSet(S), NEW R, Orders(R, S)
  PROVE  /\ \A u, v \in S : Ranks(R, S)[u] = Ranks(R, S)[v] => u = v
         /\ \A i \in 1 .. Cardinality(S) : \E v \in S : Ranks(R, S)[v] = i
<1> DEFINE n == Cardinality(S)
           rank == Ranks(R, S)
<1>1. /\ n \in Nat /\ rank \in [S -> 1 .. n]
      /\ \A u, v \in S : <<u, v>> \in R => rank[u] < rank[v]
  BY RanksGrow
<1> HIDE DEF n, rank
<1>2. \A u, v \in S : rank[u] = rank[v] => u = v
  <2>1. \A u \in S : rank[u] \in Int
    BY <1>1
  <2>2. \A u, v \in S : rank[u] = rank[v] => <<u, v>> \notin R
    BY <1>1, <2>1
  <2> QED
    BY <2>2 DEF Orders
<1>3. rank \in Injection(S, 1 .. n)
  BY <1>1, <1>2 DEF Injection, IsInjective
<1>4. IsFiniteSet(1 .. n) /\ Cardinality(1 .. n) = n
  BY <1>1, FS_Interval
<1>5. rank \in Surjection(S, 1 .. n)
  BY <1>3, <1>4, FS_Injection DEF n
<1>6. \A i \in 1 .. n : \E v \in S : rank[v] = i
  BY <1>5 DEF Surjection
<1> QED
  BY <1>2, <1>6 DEF n, rank

LEMMA FunctionIsSeq ==
  \A S : \A n \in Nat : \A t \in [1 .. n -> S] : t \in Seq(S) /\ Len(t) = n
  OBVIOUS

(* s lists the elements of S in the order R. *)
Lists(s, S, R) ==
    /\ s \in Seq(S) /\ Len(s) = Cardinality(S) /\ Cardinality(S) \in Nat
    /\ ToSet(s) = S
    /\ \A i, j \in 1 .. Len(s) : i < j => <<s[i], s[j]>> \in R

LEMMA RankedList ==
  ASSUME NEW S, IsFiniteSet(S), NEW R, Orders(R, S), NEW s,
         s = [i \in 1 .. Cardinality(S) |-> CHOOSE v \in S : Ranks(R, S)[v] = i]
  PROVE  Lists(s, S, R)
<1> DEFINE n == Cardinality(S)
           rank == Ranks(R, S)
<1>1. /\ n \in Nat /\ rank \in [S -> 1 .. n]
      /\ \A u, v \in S : <<u, v>> \in R => rank[u] < rank[v]
  BY RanksGrow
<1>2. /\ \A u, v \in S : rank[u] = rank[v] => u = v
      /\ \A i \in 1 .. n : \E v \in S : rank[v] = i
  BY RanksMatch
<1>3. \A i \in 1 .. n : s[i] \in S /\ rank[s[i]] = i
  BY <1>2
<1>4. DOMAIN s = 1 .. n
  OBVIOUS
<1>5. s = [i \in 1 .. n |-> s[i]]
  OBVIOUS
<1> HIDE DEF n, rank
<1>6. s \in [1 .. n -> S]
  BY <1>3, <1>4, <1>5
<1>7. s \in Seq(S) /\ Len(s) = n
  <2> HIDE <1>5
  <2>1. PICK t : t = s
    OBVIOUS
  <2>2. n \in Nat /\ t \in [1 .. n -> S]
    BY <1>1, <1>6, <2>1
  <2>3. t \in Seq(S) /\ Len(t) = n
    BY <2>2, FunctionIsSeq
  <2> QED
    BY <2>1, <2>3
<1>8. ToSet(s) = S
  <2>1. \A v \in S : rank[v] \in 1 .. n /\ s[rank[v]] = v
    BY <1>1, <1>2, <1>3
  <2>2. \A i \in DOMAIN s : s[i] \in S
    BY <1>3, <1>4
  <2>3. \A v \in S : \E i \in DOMAIN s : s[i] = v
    BY <1>4, <2>1
  <2> QED
    BY <2>2, <2>3 DEF ToSet
<1>9. ASSUME NEW i \in 1 .. n, NEW j \in 1 .. n, i < j PROVE <<s[i], s[j]>> \in R
  <2>1. s[i] \in S /\ s[j] \in S /\ rank[s[i]] = i /\ rank[s[j]] = j
    BY <1>3
  <2>2. PICK u, v : u = s[i] /\ v = s[j]
    OBVIOUS
  <2>3. u \in S /\ v \in S /\ rank[u] = i /\ rank[v] = j
    BY <2>1, <2>2
  <2>4. u # v
    BY <1>9, <2>3
  <2>5. <<v, u>> \notin R
    <3>1. \A x, y \in S : <<x, y>> \in R => rank[x] < rank[y]
      BY <1>1
    <3>2. i \in Int /\ j \in Int /\ ~(j < i)
      BY <1>1, <1>9
    <3> QED
      BY <2>3, <3>1, <3>2
  <2>6. <<u, v>> \in R
    BY <2>3, <2>4, <2>5 DEF Orders
  <2> QED
    BY <2>2, <2>6
<1> QED
  BY <1>1, <1>7, <1>8, <1>9 DEF Lists, n

-----------------------------------------------------------------------------
(* The orders of the lists *)

TimeOrder == {p \in Video \X Video : Newer(p[1], p[2])}
LikesOrder == {p \in Video \X Video : MoreLiked(p[1], p[2])}
PopularOrder == {p \in Video \X Video : MorePopular(p[1], p[2])}
PlaceOrder == {p \in Nat \X Nat : p[1] < p[2]}

(* The order of a box *)
ScoreOrder(score, place) ==
    {p \in Video \X Video :
        \/ score[p[1]] > score[p[2]]
        \/ score[p[1]] = score[p[2]] /\ place[p[1]] > place[p[2]]}

Scoring(score, place) ==
    /\ score \in [Video -> Nat \ {0}]
    /\ place \in [Video -> Nat]
    /\ \A v, w \in Video : place[v] = place[w] => v = w

LEMMA Scorings ==
  /\ \A source \in Source : Scoring(InboxScore, Place[source])
  /\ Scoring(OutboxScore, Place["outbox"])
<1>1. /\ InboxScore \in [Video -> Nat \ {0}] /\ OutboxScore \in [Video -> Nat \ {0}]
      /\ Place \in [{"mysql", "redis", "outbox"} -> [Video -> Nat]]
  BY PagingAssumption DEF PagingAssumption
<1>2. \A list \in {"mysql", "redis", "outbox"} :
         /\ Place[list] \in [Video -> Nat]
         /\ \A v, w \in Video : Place[list][v] = Place[list][w] => v = w
  <2>1. \A list \in DOMAIN Place : \A v, w \in Video : Place[list][v] = Place[list][w] => v = w
    BY PagingAssumption DEF PagingAssumption
  <2> QED
    BY <1>1, <2>1
<1> QED
  BY <1>1, <1>2 DEF Scoring, Source

LEMMA Times ==
  /\ IsFiniteSet(Video) /\ Video \subseteq Nat
  /\ \A v \in Video : v # 0 /\ CreateTime[v] \in Nat /\ CreateTime[v] # 0
  BY PagingAssumption DEF PagingAssumption

LEMMA TimeOrders == Orders(TimeOrder, Video)
  BY Times DEF Orders, TimeOrder, Newer

LEMMA LikesOrders == count \in [Video -> Nat] => Orders(LikesOrder, Video)
  BY Times DEF Orders, LikesOrder, MoreLiked

LEMMA PopularOrders == count \in [Video -> Nat] => Orders(PopularOrder, Video)
  BY Times DEF Orders, PopularOrder, MorePopular, Newer

LEMMA ScoreOrders ==
  ASSUME NEW score, NEW place, Scoring(score, place)
  PROVE  Orders(ScoreOrder(score, place), Video)
<1>1. \A v \in Video : score[v] \in Int /\ place[v] \in Int
  BY DEF Scoring
<1>2. \A v, w \in Video : v # w => place[v] # place[w]
  BY DEF Scoring
<1> QED
  BY <1>1, <1>2 DEF Orders, ScoreOrder

LEMMA PlaceOrders == Orders(PlaceOrder, Nat)
  BY DEF Orders, PlaceOrder

LEMMA OrdersPart ==
  ASSUME NEW R, NEW S, Orders(R, S), NEW T \in SUBSET S
  PROVE  Orders(R, T)
  BY DEF Orders

LEMMA FiniteVideos ==
  ASSUME NEW S \in SUBSET Video
  PROVE  IsFiniteSet(S)
  BY Times, FS_Subset

LEMMA SortedByTime ==
  ASSUME NEW S \in SUBSET Video
  PROVE  Lists(Sorted(S, Newer), S, TimeOrder)
<1> DEFINE s == [i \in 1 .. Cardinality(S) |-> CHOOSE v \in S : Ranks(TimeOrder, S)[v] = i]
<1>1. \A v \in S : {w \in S : Newer(w, v)} = Below(TimeOrder, S, v)
  BY DEF Below, TimeOrder
<1>2. \A v \in S : Ranks(TimeOrder, S)[v] = Cardinality({w \in S : Newer(w, v)}) + 1
  BY <1>1 DEF Ranks
<1>3. \A i : (CHOOSE v \in S : Cardinality({w \in S : Newer(w, v)}) + 1 = i) =
             (CHOOSE v \in S : Ranks(TimeOrder, S)[v] = i)
  BY <1>2
<1>4. Sorted(S, Newer) =
      [i \in 1 .. Cardinality(S) |-> CHOOSE v \in S : Cardinality({w \in S : Newer(w, v)}) + 1 = i]
  BY DEF Sorted
<1>5. Sorted(S, Newer) = s
  BY <1>3, <1>4, ZenonT(60)
<1> QED
  BY <1>5, TimeOrders, OrdersPart, FiniteVideos, RankedList

LEMMA SortedByLikes ==
  ASSUME count \in [Video -> Nat], NEW S \in SUBSET Video
  PROVE  Lists(Sorted(S, MoreLiked), S, LikesOrder)
<1> DEFINE s == [i \in 1 .. Cardinality(S) |-> CHOOSE v \in S : Ranks(LikesOrder, S)[v] = i]
<1>1. \A v \in S : {w \in S : MoreLiked(w, v)} = Below(LikesOrder, S, v)
  BY DEF Below, LikesOrder
<1>2. \A v \in S : Ranks(LikesOrder, S)[v] = Cardinality({w \in S : MoreLiked(w, v)}) + 1
  BY <1>1 DEF Ranks
<1>3. \A i : (CHOOSE v \in S : Cardinality({w \in S : MoreLiked(w, v)}) + 1 = i) =
             (CHOOSE v \in S : Ranks(LikesOrder, S)[v] = i)
  BY <1>2
<1>4. Sorted(S, MoreLiked) =
      [i \in 1 .. Cardinality(S) |->
         CHOOSE v \in S : Cardinality({w \in S : MoreLiked(w, v)}) + 1 = i]
  BY DEF Sorted
<1>5. Sorted(S, MoreLiked) = s
  BY <1>3, <1>4, ZenonT(60)
<1> QED
  BY <1>5, LikesOrders, OrdersPart, FiniteVideos, RankedList

LEMMA SortedByPopularity ==
  ASSUME count \in [Video -> Nat], NEW S \in SUBSET Video
  PROVE  Lists(Sorted(S, MorePopular), S, PopularOrder)
<1> DEFINE s == [i \in 1 .. Cardinality(S) |-> CHOOSE v \in S : Ranks(PopularOrder, S)[v] = i]
<1>1. \A v \in S : {w \in S : MorePopular(w, v)} = Below(PopularOrder, S, v)
  BY DEF Below, PopularOrder
<1>2. \A v \in S : Ranks(PopularOrder, S)[v] = Cardinality({w \in S : MorePopular(w, v)}) + 1
  BY <1>1 DEF Ranks
<1>3. \A i : (CHOOSE v \in S : Cardinality({w \in S : MorePopular(w, v)}) + 1 = i) =
             (CHOOSE v \in S : Ranks(PopularOrder, S)[v] = i)
  BY <1>2
<1>4. Sorted(S, MorePopular) =
      [i \in 1 .. Cardinality(S) |->
         CHOOSE v \in S : Cardinality({w \in S : MorePopular(w, v)}) + 1 = i]
  BY DEF Sorted
<1>5. Sorted(S, MorePopular) = s
  BY <1>3, <1>4, ZenonT(60)
<1> QED
  BY <1>5, PopularOrders, OrdersPart, FiniteVideos, RankedList

LEMMA SortedPlaces ==
  ASSUME NEW n \in Nat, NEW S \in SUBSET (1 .. n)
  PROVE  Lists(Sorted(S, <), S, PlaceOrder) /\ Cardinality(S) <= n
<1> DEFINE s == [i \in 1 .. Cardinality(S) |-> CHOOSE v \in S : Ranks(PlaceOrder, S)[v] = i]
<1>0. IsFiniteSet(S) /\ Cardinality(S) <= n
  <2>1. IsFiniteSet(1 .. n) /\ Cardinality(1 .. n) = n
    BY FS_Interval
  <2> QED
    BY <2>1, FS_Subset
<1>6. S \in SUBSET Nat
  OBVIOUS
<1>1. \A v \in S : {w \in S : w < v} = Below(PlaceOrder, S, v)
  BY <1>6 DEF Below, PlaceOrder
<1>2. \A v \in S : Ranks(PlaceOrder, S)[v] = Cardinality({w \in S : w < v}) + 1
  BY <1>1 DEF Ranks
<1>3. \A i : (CHOOSE v \in S : Cardinality({w \in S : w < v}) + 1 = i) =
             (CHOOSE v \in S : Ranks(PlaceOrder, S)[v] = i)
  BY <1>2
<1>4. Sorted(S, <) =
      [i \in 1 .. Cardinality(S) |-> CHOOSE v \in S : Cardinality({w \in S : w < v}) + 1 = i]
  BY DEF Sorted
<1>5. Sorted(S, <) = s
  BY <1>3, <1>4, ZenonT(60)
<1> QED
  BY <1>0, <1>5, <1>6, PlaceOrders, OrdersPart, RankedList

-----------------------------------------------------------------------------
(* LIMIT *)

InOrder(seq, R) == \A i, j \in 1 .. Len(seq) : i < j => <<seq[i], seq[j]>> \in R

(* rows are the first Limit elements of S in the order R. *)
IsTop(rows, S, R) ==
    /\ rows \in Seq(S) /\ Len(rows) \in Nat /\ Len(rows) <= Limit
    /\ \A i, j \in 1 .. Len(rows) : i < j => <<rows[i], rows[j]>> \in R
    /\ \A v \in S \ ToSet(rows) :
          Len(rows) = Limit /\ \A u \in ToSet(rows) : <<u, v>> \in R

LEMMA LimitType == Limit \in Nat /\ Limit > 0
  BY PagingAssumption DEF PagingAssumption

(* What a list returns of a sequence, from an offset on. *)
LEMMA SliceParts ==
  ASSUME NEW S, NEW s \in Seq(S), NEW offset \in Nat
  PROVE  /\ Slice(s, offset) \in Seq(S)
         /\ Len(Slice(s, offset)) \in Nat /\ Len(Slice(s, offset)) <= Limit
         /\ offset <= Len(s) => offset + Len(Slice(s, offset)) <= Len(s)
         /\ Len(Slice(s, offset)) < Limit => offset + Len(Slice(s, offset)) >= Len(s)
         /\ \A i \in 1 .. Len(Slice(s, offset)) :
               offset + i \in 1 .. Len(s) /\ Slice(s, offset)[i] = s[offset + i]
<1> DEFINE first == offset + 1
           last == IF offset + Limit < Len(s) THEN offset + Limit ELSE Len(s)
<1>1. Len(s) \in Nat /\ \A i \in 1 .. Len(s) : s[i] \in S
  BY LenProperties, ElementOfSeq
<1>2. first \in Int /\ last \in Int /\ first >= 1 /\ last <= Len(s)
  BY <1>1, LimitType
<1>3. Slice(s, offset) = SubSeq(s, first, last)
  BY DEF Slice
<1>4. \A i \in first .. last : s[i] \in S
  BY <1>1, <1>2
<1> HIDE DEF first, last
<1>5. /\ SubSeq(s, first, last) \in Seq(S)
      /\ Len(SubSeq(s, first, last)) = IF first <= last THEN last - first + 1 ELSE 0
      /\ \A i \in 1 .. last - first + 1 : SubSeq(s, first, last)[i] = s[first + i - 1]
  BY <1>2, <1>4, SubSeqProperties
<1>6. PICK r : r = Slice(s, offset)
  OBVIOUS
<1>7. PICK m : m = Len(r)
  OBVIOUS
<1>8. /\ r \in Seq(S)
      /\ m = IF first <= last THEN last - first + 1 ELSE 0
      /\ \A i \in 1 .. last - first + 1 : r[i] = s[first + i - 1]
  BY <1>3, <1>5, <1>6, <1>7
<1>9. m \in Nat /\ m <= Limit /\ (offset <= Len(s) => offset + m <= Len(s))
      /\ (m < Limit => offset + m >= Len(s))
  BY <1>1, <1>2, <1>8, LimitType DEF first, last
<1>10. ASSUME NEW i \in 1 .. m PROVE offset + i \in 1 .. Len(s) /\ r[i] = s[offset + i]
  <2>1. i \in 1 .. last - first + 1 /\ first <= last
    BY <1>2, <1>8, <1>10
  <2>2. first + i - 1 = offset + i /\ offset + i \in 1 .. Len(s)
    BY <1>1, <1>2, <2>1 DEF first
  <2> QED
    BY <1>8, <2>1, <2>2
<1> QED
  BY <1>6, <1>7, <1>8, <1>9, <1>10

LEMMA TopOfList ==
  ASSUME NEW S, NEW R, NEW s, Lists(s, S, R)
  PROVE  IsTop(Slice(s, 0), S, R)
<1>1. PICK rows : rows = Slice(s, 0)
  OBVIOUS
<1>2. /\ s \in Seq(S) /\ Len(s) \in Nat /\ ToSet(s) = S
      /\ \A i, j \in 1 .. Len(s) : i < j => <<s[i], s[j]>> \in R
  BY DEF Lists
<1>3. PICK m : m = Len(rows)
  OBVIOUS
<1>4. /\ rows \in Seq(S) /\ m \in Nat /\ m <= Limit
      /\ m < Limit => m >= Len(s)
      /\ \A i \in 1 .. m : i \in 1 .. Len(s) /\ rows[i] = s[i]
  <2>1. /\ rows \in Seq(S) /\ m \in Nat /\ m <= Limit
        /\ m < Limit => 0 + m >= Len(s)
        /\ \A i \in 1 .. m : 0 + i \in 1 .. Len(s) /\ rows[i] = s[0 + i]
    BY <1>1, <1>2, <1>3, SliceParts
  <2>2. 0 + m = m /\ \A i \in 1 .. m : 0 + i = i
    BY <2>1
  <2> QED
    BY <2>1, <2>2
<1>5. \A i, j \in 1 .. m : i < j => <<rows[i], rows[j]>> \in R
  BY <1>2, <1>4
<1>6. ToSet(rows) = {rows[i] : i \in 1 .. m}
  <2>1. DOMAIN rows = 1 .. m
    BY <1>3, <1>4, LenProperties
  <2> QED
    BY <2>1 DEF ToSet
<1>7. ASSUME NEW v \in S, v \notin ToSet(rows)
      PROVE  m = Limit /\ \A u \in ToSet(rows) : <<u, v>> \in R
  <2>0. DOMAIN s = 1 .. Len(s)
    BY <1>2, LenProperties
  <2>1. PICK k \in 1 .. Len(s) : s[k] = v
    BY <1>2, <2>0 DEF ToSet
  <2>2. ~(k <= m)
    <3> SUFFICES ASSUME k <= m PROVE FALSE
      OBVIOUS
    <3>1. k \in 1 .. m
      BY <1>4, <2>1
    <3> QED
      BY <1>4, <1>6, <1>7, <2>1, <3>1
  <2>3. m = Limit
    BY <1>2, <1>4, <2>1, <2>2, LimitType
  <2>4. ASSUME NEW u \in ToSet(rows) PROVE <<u, v>> \in R
    <3>1. PICK i \in 1 .. m : rows[i] = u
      BY <1>6
    <3>2. i \in 1 .. Len(s) /\ s[i] = u /\ i < k
      BY <1>4, <2>1, <2>2, <3>1
    <3> QED
      BY <1>2, <2>1, <3>2
  <2> QED
    BY <2>3, <2>4
<1> QED
  BY <1>1, <1>3, <1>4, <1>5, <1>7 DEF IsTop

LEMMA TopByTime ==
  ASSUME NEW S \in SUBSET Video
  PROVE  IsTop(Top(S, Newer), S, TimeOrder)
<1>1. Top(S, Newer) = Slice(Sorted(S, Newer), 0)
  BY DEF Top
<1> QED
  BY <1>1, SortedByTime, TopOfList

LEMMA TopByLikes ==
  ASSUME count \in [Video -> Nat], NEW S \in SUBSET Video
  PROVE  IsTop(Top(S, MoreLiked), S, LikesOrder)
<1>1. Top(S, MoreLiked) = Slice(Sorted(S, MoreLiked), 0)
  BY DEF Top
<1> QED
  BY <1>1, SortedByLikes, TopOfList

LEMMA TopByPopularity ==
  ASSUME count \in [Video -> Nat], NEW S \in SUBSET Video
  PROVE  IsTop(Top(S, MorePopular), S, PopularOrder)
<1>1. Top(S, MorePopular) = Slice(Sorted(S, MorePopular), 0)
  BY DEF Top
<1> QED
  BY <1>1, SortedByPopularity, TopOfList

BeforeScore(S, score, before) == {v \in S : before = 0 \/ score[v] < before}

LEMMA TopByScore ==
  ASSUME NEW score, NEW place, Scoring(score, place), NEW box \in SUBSET Video, NEW before
  PROVE  IsTop(Box(box, score, place, before), BeforeScore(box, score, before),
               ScoreOrder(score, place))
<1> DEFINE S == BeforeScore(box, score, before)
           R == ScoreOrder(score, place)
           Higher(v, w) == \/ score[v] > score[w]
                           \/ score[v] = score[w] /\ place[v] > place[w]
           ByRank(i) == CHOOSE v \in S : Ranks(R, S)[v] = i
           ByCount(i) == CHOOSE v \in S : Cardinality({w \in S : Higher(w, v)}) + 1 = i
           s == [i \in 1 .. Cardinality(S) |-> ByRank(i)]
           sorted == [i \in 1 .. Cardinality(S) |-> ByCount(i)]
<1>1. S \in SUBSET Video
  BY DEF BeforeScore
<1>2. Box(box, score, place, before) = Slice(sorted, 0)
  BY DEF Box, Top, Sorted, BeforeScore
<1>3. \A v \in S : {w \in S : Higher(w, v)} = Below(R, S, v)
  BY <1>1 DEF Below, ScoreOrder
<1> HIDE DEF Higher, S, R
<1>4. \A v \in S : Ranks(R, S)[v] = Cardinality({w \in S : Higher(w, v)}) + 1
  BY <1>3 DEF Ranks
<1>5. \A i : ByCount(i) = ByRank(i)
  BY <1>4
<1>6. sorted = s
  <2> HIDE DEF ByRank, ByCount
  <2> QED
    BY <1>5
<1>7. Orders(R, S)
  BY <1>1, ScoreOrders, OrdersPart DEF R
<1>8. Lists(s, S, R)
  BY <1>1, <1>7, FiniteVideos, RankedList
<1>9. IsTop(Slice(s, 0), S, R)
  BY <1>8, TopOfList
<1> QED
  BY <1>2, <1>6, <1>9 DEF S, R

-----------------------------------------------------------------------------
(* A selection keeps the order of its places. *)

(* r holds what stands at the places of s, in their order, and place[i] is  *)
(* where its element i comes from.                                          *)
Selects(r, s, S, places, place) ==
    /\ r \in Seq(S) /\ Len(r) \in Nat /\ Len(r) = Cardinality(places)
    /\ Len(r) <= Len(s)
    /\ place \in [1 .. Len(r) -> places]
    /\ \A i, j \in 1 .. Len(r) : i < j => place[i] < place[j]
    /\ \A k \in places : \E i \in 1 .. Len(r) : place[i] = k
    /\ \A i \in 1 .. Len(r) : r[i] = s[place[i]] /\ i <= place[i]

LEMMA PickedPlaces ==
  ASSUME NEW S, NEW s \in Seq(S), NEW places \in SUBSET (DOMAIN s)
  PROVE  \E place : Selects(Picked(s, places), s, S, places, place)
<1>1. PICK n : n = Len(s)
  OBVIOUS
<1>2. n \in Nat /\ DOMAIN s = 1 .. n /\ \A i \in 1 .. n : s[i] \in S
  BY <1>1, LenProperties, ElementOfSeq
<1>3. PICK place : place = Sorted(places, <)
  OBVIOUS
<1>4. Lists(place, places, PlaceOrder) /\ Cardinality(places) <= n
  <2>1. places \in SUBSET (1 .. n)
    BY <1>2
  <2> QED
    BY <1>2, <1>3, <2>1, SortedPlaces
<1>5. PICK m : m = Cardinality(places)
  OBVIOUS
<1>6. /\ m \in Nat /\ m <= n /\ place \in Seq(places) /\ Len(place) = m
      /\ ToSet(place) = places
      /\ \A i, j \in 1 .. m : i < j => place[i] < place[j]
  <2>1. /\ m \in Nat /\ m <= n /\ place \in Seq(places) /\ Len(place) = m
        /\ ToSet(place) = places
        /\ \A i, j \in 1 .. m : i < j => <<place[i], place[j]>> \in PlaceOrder
    BY <1>4, <1>5 DEF Lists
  <2>2. \A x, y : <<x, y>> \in PlaceOrder => x < y
    BY DEF PlaceOrder
  <2> QED
    BY <2>1, <2>2
<1>7. place \in [1 .. m -> places] /\ DOMAIN place = 1 .. m
  BY <1>6, LenProperties
<1>8. \A k \in places : \E i \in 1 .. m : place[i] = k
  BY <1>6, <1>7 DEF ToSet
<1>9. PICK r : r = Picked(s, places)
  OBVIOUS
<1>10. r = [i \in 1 .. m |-> s[place[i]]]
  BY <1>3, <1>7, <1>9 DEF Picked
<1>11. r \in Seq(S) /\ Len(r) = m
  <2>1. \A i \in 1 .. m : s[place[i]] \in S
    BY <1>2, <1>7
  <2>2. r \in [1 .. m -> S]
    BY <1>10, <2>1
  <2> QED
    BY <1>6, <2>2, FunctionIsSeq
<1>12. ASSUME NEW i \in 1 .. m PROVE i <= place[i]
  <2> DEFINE Before == {place[j] : j \in 1 .. i}
  <2>1. place[i] \in 1 .. n /\ place[i] \in Nat
    BY <1>2, <1>7
  <2>2. \A j \in 1 .. i : j \in 1 .. m /\ place[j] \in 1 .. place[i]
    <3> SUFFICES ASSUME NEW j \in 1 .. i PROVE j \in 1 .. m /\ place[j] \in 1 .. place[i]
      OBVIOUS
    <3>1. j \in 1 .. m
      BY <1>6, <1>12
    <3>2. place[j] \in 1 .. n
      BY <1>2, <1>7, <3>1
    <3>3. place[j] <= place[i]
      <4>1. CASE j = i
        BY <2>1, <4>1
      <4>2. CASE j # i
        <5>1. j < i
          BY <1>12, <4>2
        <5> QED
          BY <1>6, <2>1, <3>1, <3>2, <5>1
      <4> QED
        BY <4>1, <4>2
    <3> QED
      BY <2>1, <3>1, <3>2, <3>3
  <2>3. PICK f : f = [j \in 1 .. i |-> place[j]]
    OBVIOUS
  <2>4. f \in [1 .. i -> 1 .. place[i]]
    BY <2>2, <2>3
  <2>5. ASSUME NEW j \in 1 .. i, NEW k \in 1 .. i, f[j] = f[k] PROVE j = k
    <3>1. place[j] = place[k] /\ place[j] \in Int
      BY <2>2, <2>3, <2>5
    <3>2. ~(j < k) /\ ~(k < j)
      BY <1>6, <2>2, <3>1
    <3> QED
      BY <3>2
  <2>6. f \in Injection(1 .. i, 1 .. place[i])
    BY <2>4, <2>5 DEF Injection, IsInjective
  <2>7. /\ IsFiniteSet(1 .. place[i]) /\ Cardinality(1 .. place[i]) = place[i]
        /\ Cardinality(1 .. i) = i
    <3>1. PICK p : p = place[i]
      OBVIOUS
    <3>2. p \in Nat /\ i \in Nat
      BY <1>6, <2>1, <3>1
    <3>3. IsFiniteSet(1 .. p) /\ Cardinality(1 .. p) = p /\ Cardinality(1 .. i) = i
      BY <3>2, FS_Interval
    <3> QED
      BY <3>1, <3>3
  <2> QED
    BY <2>6, <2>7, FS_Injection
<1>13. \A i \in 1 .. m : r[i] = s[place[i]]
  BY <1>10
<1>14. Selects(r, s, S, places, place)
  BY <1>1, <1>5, <1>6, <1>7, <1>8, <1>11, <1>12, <1>13 DEF Selects
<1> QED
  BY <1>9, <1>14

(* The rows that exist are those of the ids that do, in their order. *)
LEMMA ExistingRows ==
  ASSUME NEW S, NEW ids \in Seq(S)
  PROVE  /\ Existing(ids) \in Seq(S) /\ Len(Existing(ids)) \in Nat
         /\ Len(Existing(ids)) <= Len(ids)
         /\ ToSet(Existing(ids)) = ToSet(ids) \cap videos
         /\ ToSet(ids) \subseteq videos => Len(Existing(ids)) = Len(ids)
         /\ \A R : InOrder(ids, R) => InOrder(Existing(ids), R)
<1> DEFINE places == {i \in DOMAIN ids : ids[i] \in videos}
<1>1. PICK r : r = Existing(ids)
  OBVIOUS
<1>2. r = Picked(ids, places)
  BY <1>1 DEF Existing
<1>3. PICK place : Selects(r, ids, S, places, place)
  <2>1. places \in SUBSET (DOMAIN ids)
    OBVIOUS
  <2> HIDE DEF places
  <2> QED
    BY <1>2, <2>1, PickedPlaces
<1>4. \A i \in DOMAIN ids : i \in places <=> ids[i] \in videos
  OBVIOUS
<1>5. \A i \in places : i \in DOMAIN ids
  OBVIOUS
<1>6. DOMAIN ids = 1 .. Len(ids) /\ Len(ids) \in Nat
  BY LenProperties
<1> HIDE DEF places
<1>7. r \in Seq(S) /\ Len(r) \in Nat /\ Len(r) <= Len(ids)
  BY <1>3 DEF Selects
<1>8. DOMAIN r = 1 .. Len(r)
  BY <1>7, LenProperties
<1>9. \A v \in ToSet(r) : v \in ToSet(ids) \cap videos
  <2>1. \A i \in 1 .. Len(r) : place[i] \in places /\ r[i] = ids[place[i]]
    BY <1>3 DEF Selects
  <2> QED
    BY <1>4, <1>5, <1>8, <2>1 DEF ToSet
<1>10. \A v \in ToSet(ids) \cap videos : v \in ToSet(r)
  <2>1. \A k \in places : \E i \in 1 .. Len(r) : r[i] = ids[k]
    BY <1>3 DEF Selects
  <2> QED
    BY <1>4, <1>8, <2>1 DEF ToSet
<1>11. ASSUME ToSet(ids) \subseteq videos PROVE Len(r) = Len(ids)
  <2>1. places = 1 .. Len(ids)
    BY <1>4, <1>5, <1>6, <1>11 DEF ToSet
  <2>2. Cardinality(1 .. Len(ids)) = Len(ids)
    <3>1. PICK n \in Nat : n = Len(ids)
      BY <1>6
    <3>2. Cardinality(1 .. n) = n
      <4>1. 1 \in Int /\ n \in Int
        OBVIOUS
      <4>2. Cardinality(1 .. n) = IF 1 > n THEN 0 ELSE n - 1 + 1
        BY <4>1, FS_Interval
      <4> QED
        BY <4>2
    <3> QED
      BY <3>1, <3>2
  <2> QED
    BY <1>3, <2>1, <2>2 DEF Selects
<1>12. ASSUME NEW R, InOrder(ids, R) PROVE InOrder(r, R)
  <2>1. \A i \in 1 .. Len(r) : place[i] \in 1 .. Len(ids) /\ r[i] = ids[place[i]]
    <3>1. \A i \in 1 .. Len(r) : place[i] \in places /\ r[i] = ids[place[i]]
      BY <1>3 DEF Selects
    <3> QED
      BY <1>5, <1>6, <3>1
  <2>2. \A i, j \in 1 .. Len(r) : i < j => place[i] < place[j]
    BY <1>3 DEF Selects
  <2> QED
    BY <1>12, <2>1, <2>2 DEF InOrder
<1> QED
  BY <1>1, <1>7, <1>9, <1>10, <1>11, <1>12

(* ZREM leaves the others in their order, none further back than it was. *)
LEMMA WithoutMember ==
  ASSUME NEW S, NEW members \in Seq(S), NEW v
  PROVE  /\ Without(members, v) \in Seq(S) /\ Len(Without(members, v)) \in Nat
         /\ ToSet(Without(members, v)) = ToSet(members) \ {v}
         /\ \A i \in 1 .. Len(Without(members, v)) :
               \E j \in 1 .. Len(members) : i <= j /\ Without(members, v)[i] = members[j]
         /\ (\A i, j \in 1 .. Len(members) : members[i] = members[j] => i = j) =>
            (\A i, j \in 1 .. Len(Without(members, v)) :
                Without(members, v)[i] = Without(members, v)[j] => i = j)
<1> DEFINE places == {i \in DOMAIN members : members[i] # v}
<1>1. PICK r : r = Without(members, v)
  OBVIOUS
<1>2. r = Picked(members, places)
  BY <1>1 DEF Without
<1>3. PICK place : Selects(r, members, S, places, place)
  <2>1. places \in SUBSET (DOMAIN members)
    OBVIOUS
  <2> HIDE DEF places
  <2> QED
    BY <1>2, <2>1, PickedPlaces
<1>4. \A i \in DOMAIN members : i \in places <=> members[i] # v
  OBVIOUS
<1>5. \A i \in places : i \in DOMAIN members
  OBVIOUS
<1>6. DOMAIN members = 1 .. Len(members) /\ Len(members) \in Nat
  BY LenProperties
<1> HIDE DEF places
<1>7. r \in Seq(S) /\ Len(r) \in Nat
  BY <1>3 DEF Selects
<1>8. DOMAIN r = 1 .. Len(r)
  BY <1>7, LenProperties
<1>9. \A i \in 1 .. Len(r) :
         place[i] \in places /\ place[i] \in 1 .. Len(members)
         /\ r[i] = members[place[i]] /\ i <= place[i]
  <2>1. \A i \in 1 .. Len(r) :
         place[i] \in places /\ r[i] = members[place[i]] /\ i <= place[i]
    BY <1>3 DEF Selects
  <2> QED
    BY <1>5, <1>6, <2>1
<1>10. \A u \in ToSet(r) : u \in ToSet(members) \ {v}
  BY <1>4, <1>5, <1>8, <1>9 DEF ToSet
<1>11. \A u \in ToSet(members) \ {v} : u \in ToSet(r)
  <2>1. \A k \in places : \E i \in 1 .. Len(r) : r[i] = members[k]
    BY <1>3 DEF Selects
  <2> QED
    BY <1>4, <1>8, <2>1 DEF ToSet
<1>12. ASSUME \A i, j \in 1 .. Len(members) : members[i] = members[j] => i = j,
              NEW i \in 1 .. Len(r), NEW j \in 1 .. Len(r), r[i] = r[j]
       PROVE  i = j
  <2>1. place[i] = place[j] /\ place[i] \in Int
    <3>1. /\ place[i] \in 1 .. Len(members) /\ place[j] \in 1 .. Len(members)
          /\ members[place[i]] = members[place[j]]
      BY <1>9, <1>12
    <3>2. \A k, l \in 1 .. Len(members) : members[k] = members[l] => k = l
      BY <1>12
    <3> QED
      BY <3>1, <3>2
  <2>2. ~(i < j) /\ ~(j < i)
    <3>1. \A k, l \in 1 .. Len(r) : k < l => place[k] < place[l]
      BY <1>3 DEF Selects
    <3> QED
      BY <2>1, <3>1
  <2> QED
    BY <1>7, <2>2
<1> QED
  BY <1>1, <1>7, <1>9, <1>10, <1>11, <1>12

-----------------------------------------------------------------------------
(* All pages in a row *)

LEMMA SmallestNumber ==
  ASSUME NEW B \in SUBSET Nat, B # {}
  PROVE  \E n \in B : \A m \in B : n <= m
<1> DEFINE R == OpToRel(<, Nat)
<1>1. R = {p \in Nat \X Nat : p[1] < p[2]}
  BY DEF OpToRel
<1>2. IsWellFoundedOn(R, Nat)
  BY NatLessThanWellFounded
<1> HIDE DEF R
<1>3. \E n \in B : \A m \in B : ~ (<<m, n>> \in R)
  BY <1>2, WFMin
<1>4. PICK n \in B : \A m \in B : ~ (<<m, n>> \in R)
  BY <1>3
<1>5. \A m \in B : ~ (m < n)
  BY <1>1, <1>4
<1>6. \A m \in B : m \in Int /\ n \in Int /\ n <= m
  BY <1>5
<1> QED
  BY <1>6

(* F[i] holds the first i of the n pages p in a row. *)
Rows(p, n, F) == F = [i \in 1 .. n |-> IF i = 1 THEN p[i] ELSE F[i - 1] \o p[i]]

LEMMA RowsExist ==
  ASSUME NEW p
  PROVE  \A n \in Nat : \E F : Rows(p, n, F)
<1> DEFINE Bad == {n \in Nat : ~ \E F : Rows(p, n, F)}
<1>1. 0 \notin Bad
  <2>1. PICK F : F = [i \in 1 .. 0 |-> p[i]]
    OBVIOUS
  <2>2. F = [i \in 1 .. 0 |-> IF i = 1 THEN p[i] ELSE F[i - 1] \o p[i]]
    BY <2>1
  <2> QED
    BY <2>2 DEF Rows
<1>2. ASSUME NEW n \in Nat, NEW F, Rows(p, n, F)
      PROVE  \E G : Rows(p, n + 1, G)
  <2>1. PICK G : G = [i \in 1 .. n + 1 |->
                        IF i = n + 1 THEN (IF i = 1 THEN p[i] ELSE F[i - 1] \o p[i]) ELSE F[i]]
    OBVIOUS
  <2>2. \A i \in 1 .. n : G[i] = F[i]
    <3>1. \A i \in 1 .. n : i \in 1 .. n + 1 /\ i # n + 1
      BY <1>2
    <3> QED
      BY <2>1, <3>1
  <2>3. \A i \in 1 .. n + 1 : G[i] = IF i = 1 THEN p[i] ELSE G[i - 1] \o p[i]
    <3> SUFFICES ASSUME NEW i \in 1 .. n + 1
                 PROVE  G[i] = IF i = 1 THEN p[i] ELSE G[i - 1] \o p[i]
      OBVIOUS
    <3>1. i # 1 => i - 1 \in 1 .. n
      BY <1>2
    <3>2. CASE i = n + 1
      <4>1. G[i] = IF i = 1 THEN p[i] ELSE F[i - 1] \o p[i]
        BY <2>1, <3>2
      <4> QED
        BY <2>2, <3>1, <4>1
    <3>3. CASE i # n + 1
      <4>1. i \in 1 .. n
        BY <1>2, <3>3
      <4>2. F[i] = IF i = 1 THEN p[i] ELSE F[i - 1] \o p[i]
        BY <1>2, <4>1 DEF Rows
      <4> QED
        BY <2>2, <3>1, <4>1, <4>2
    <3> QED
      BY <3>2, <3>3
  <2>4. G = [i \in 1 .. n + 1 |-> G[i]]
    BY <2>1
  <2>5. Rows(p, n + 1, G)
    BY <2>3, <2>4 DEF Rows
  <2> QED
    BY <2>5
<1>3. Bad = {}
  <2> SUFFICES ASSUME Bad # {} PROVE FALSE
    OBVIOUS
  <2>1. PICK n \in Bad : \A m \in Bad : n <= m
    BY SmallestNumber
  <2>2. n \in Nat /\ n # 0 /\ n - 1 \in Nat /\ n - 1 \notin Bad /\ (n - 1) + 1 = n
    BY <1>1, <2>1
  <2>3. PICK F : Rows(p, n - 1, F)
    BY <2>2
  <2> QED
    BY <1>2, <2>2, <2>3
<1> QED
  BY <1>3

(* The first n pages of p are those of q, and F and G put them in a row. *)
SameRows(p, q, n, m, F, G) ==
    /\ n \in Nat /\ m \in Nat /\ n <= m
    /\ \A i \in 1 .. n : p[i] = q[i]
    /\ Rows(p, n, F) /\ Rows(q, m, G)

LEMMA RowsAgree ==
  ASSUME NEW p, NEW q, NEW n, NEW m, NEW F, NEW G, SameRows(p, q, n, m, F, G)
  PROVE  \A i \in 1 .. n : F[i] = G[i]
<1>0. /\ n \in Nat /\ m \in Nat /\ n <= m
      /\ \A i \in 1 .. n : p[i] = q[i]
      /\ Rows(p, n, F) /\ Rows(q, m, G)
  BY DEF SameRows
<1> DEFINE Bad == {i \in Nat : i \in 1 .. n /\ F[i] # G[i]}
<1> SUFFICES ASSUME Bad # {} PROVE FALSE
  OBVIOUS
<1>1. PICK i \in Bad : \A j \in Bad : i <= j
  BY SmallestNumber
<1>2. i \in 1 .. n /\ i \in 1 .. m /\ F[i] # G[i] /\ (i # 1 => i - 1 \in 1 .. n)
  BY <1>0, <1>1
<1>3. i # 1 => F[i - 1] = G[i - 1]
  <2> SUFFICES ASSUME i # 1 PROVE i - 1 \notin Bad
    BY <1>2
  <2> QED
    BY <1>1, <1>2
<1>4. /\ F[i] = IF i = 1 THEN p[i] ELSE F[i - 1] \o p[i]
      /\ G[i] = IF i = 1 THEN q[i] ELSE G[i - 1] \o q[i]
  BY <1>0, <1>2 DEF Rows
<1>5. p[i] = q[i]
  BY <1>0, <1>2
<1> QED
  BY <1>2, <1>3, <1>4, <1>5

LEMMA FlattenIsRows ==
  ASSUME NEW p, NEW n \in Nat, Len(p) = n, n # 0
  PROVE  \E F : Rows(p, n, F) /\ FlattenSeq(p) = F[n]
<1> DEFINE F == CHOOSE F : F = [i \in 1 .. Len(p) |-> IF i = 1 THEN p[i] ELSE F[i - 1] \o p[i]]
<1>1. FlattenSeq(p) = F[Len(p)]
  BY DEF FlattenSeq
<1>2. \E G : G = [i \in 1 .. Len(p) |-> IF i = 1 THEN p[i] ELSE G[i - 1] \o p[i]]
  <2>1. PICK G : Rows(p, n, G)
    BY RowsExist
  <2> QED
    BY <2>1 DEF Rows
<1>3. F = [i \in 1 .. Len(p) |-> IF i = 1 THEN p[i] ELSE F[i - 1] \o p[i]]
  BY <1>2, Zenon
<1>4. Rows(p, n, F)
  BY <1>3, Zenon DEF Rows
<1> HIDE DEF F
<1> QED
  BY <1>1, <1>4

LEMMA FlattenOne ==
  ASSUME NEW S, NEW p \in Seq(Seq(S)), NEW t \in Seq(S), FlattenSeq(p) \in Seq(S)
  PROVE  FlattenSeq(Append(p, t)) = FlattenSeq(p) \o t
<1>1. PICK n : n = Len(p)
  OBVIOUS
<1>2. PICK q : q = Append(p, t)
  OBVIOUS
<1>3. /\ n \in Nat /\ Len(q) = n + 1 /\ q[n + 1] = t
      /\ \A i \in 1 .. n : p[i] = q[i]
  BY <1>1, <1>2, LenProperties, AppendProperties
<1>4. PICK G : Rows(q, n + 1, G) /\ FlattenSeq(q) = G[n + 1]
  <2>1. n + 1 \in Nat /\ n + 1 # 0
    BY <1>3
  <2> QED
    BY <1>3, <2>1, FlattenIsRows
<1>5. G[n + 1] = IF n + 1 = 1 THEN q[n + 1] ELSE G[(n + 1) - 1] \o q[n + 1]
  <2>1. n + 1 \in 1 .. n + 1
    BY <1>3
  <2> QED
    BY <1>4, <2>1 DEF Rows
<1>6. CASE n = 0
  <2>1. FlattenSeq(p) = p /\ p = <<>>
    <3>1. p = <<>>
      BY <1>1, <1>6, EmptySeq
    <3>2. Len(p) = 0
      BY <1>1, <1>6
    <3> QED
      BY <3>1, <3>2, Zenon DEF FlattenSeq
  <2>2. FlattenSeq(q) = t
    BY <1>3, <1>4, <1>5, <1>6
  <2>3. <<>> \o t = t
    BY ConcatEmptySeq
  <2> QED
    BY <1>2, <2>1, <2>2, <2>3
<1>7. CASE n # 0
  <2>1. PICK F : Rows(p, n, F) /\ FlattenSeq(p) = F[n]
    BY <1>1, <1>3, <1>7, FlattenIsRows
  <2>2. n <= n + 1 /\ n + 1 \in Nat /\ n \in 1 .. n /\ (n + 1) - 1 = n /\ n + 1 # 1
    BY <1>3, <1>7
  <2>3. F[n] = G[n]
    <3>1. PICK m : m = n + 1
      OBVIOUS
    <3>2. n \in Nat /\ m \in Nat /\ n <= m /\ (\A i \in 1 .. n : p[i] = q[i])
      BY <1>3, <2>2, <3>1
    <3>3. Rows(p, n, F) /\ Rows(q, m, G)
      BY <1>4, <2>1, <3>1
    <3>4. SameRows(p, q, n, m, F, G)
      BY <3>2, <3>3 DEF SameRows
    <3>5. \A i \in 1 .. n : F[i] = G[i]
      BY <3>4, RowsAgree
    <3> QED
      BY <2>2, <3>5
  <2> QED
    BY <1>2, <1>3, <1>4, <1>5, <2>1, <2>2, <2>3
<1> QED
  BY <1>6, <1>7

LEMMA FlattenNone == FlattenSeq(<<>>) = <<>>
  BY Zenon DEF FlattenSeq

-----------------------------------------------------------------------------
(* The pages of a session *)

LEMMA UnixType == \A t \in Nat : Unix(t) \in Nat
  BY DEF Unix

LEMMA UnixFloor == \A t \in Nat : Unix(t) * 1000 \in Nat /\ Unix(t) * 1000 <= t
  BY DEF Unix

LEMMA UnixPositive == \A t \in Nat : t >= 1000 => Unix(t) # 0
  BY DEF Unix

LEMMA UnixWhole == \A t \in Nat : Unix(t * 1000) = t
  BY DEF Unix

LEMMA UnixApart ==
  \A t, u \in Nat : u < t /\ Unix(t) # Unix(u) => u < Unix(t) * 1000
  BY DEF Unix

LEMMA LastRow ==
  ASSUME NEW S, NEW rows \in Seq(S)
  PROVE  /\ Len(rows) \in Nat /\ DOMAIN rows = 1 .. Len(rows)
         /\ rows = <<>> <=> Len(rows) = 0
         /\ ToSet(rows) = {rows[i] : i \in 1 .. Len(rows)} /\ ToSet(rows) \subseteq S
         /\ rows # <<>> => /\ Last(rows) = rows[Len(rows)] /\ Last(rows) \in S
                           /\ Last(rows) \in ToSet(rows)
<1>1. /\ Len(rows) \in Nat /\ DOMAIN rows = 1 .. Len(rows)
      /\ \A i \in 1 .. Len(rows) : rows[i] \in S
  BY LenProperties, ElementOfSeq
<1>2. ToSet(rows) = {rows[i] : i \in 1 .. Len(rows)} /\ ToSet(rows) \subseteq S
  BY <1>1 DEF ToSet
<1>3. rows = <<>> <=> Len(rows) = 0
  BY EmptySeq
<1>4. ASSUME rows # <<>>
      PROVE  /\ Last(rows) = rows[Len(rows)] /\ Last(rows) \in S
             /\ Last(rows) \in ToSet(rows)
  <2>1. Len(rows) \in 1 .. Len(rows)
    BY <1>1, <1>3, <1>4
  <2>2. Last(rows) = rows[Len(rows)]
    BY DEF Last
  <2> QED
    BY <1>1, <1>2, <2>1, <2>2
<1> QED
  BY <1>1, <1>2, <1>3, <1>4

(* The last row is not before any other. *)
LEMMA LastInOrder ==
  ASSUME NEW S, NEW rows, NEW R, IsTop(rows, S, R), rows # <<>>
  PROVE  /\ Last(rows) \in S /\ Last(rows) \in ToSet(rows)
         /\ \A u \in ToSet(rows) : u = Last(rows) \/ <<u, Last(rows)>> \in R
<1>1. /\ rows \in Seq(S)
      /\ \A i, j \in 1 .. Len(rows) : i < j => <<rows[i], rows[j]>> \in R
  BY DEF IsTop
<1>2. PICK n : n = Len(rows)
  OBVIOUS
<1>3. /\ n \in Nat /\ n # 0 /\ ToSet(rows) = {rows[i] : i \in 1 .. n}
      /\ Last(rows) = rows[n] /\ Last(rows) \in S /\ Last(rows) \in ToSet(rows)
  BY <1>1, <1>2, LastRow
<1>4. ASSUME NEW u \in ToSet(rows) PROVE u = Last(rows) \/ <<u, Last(rows)>> \in R
  <2>1. PICK i \in 1 .. n : rows[i] = u
    BY <1>3
  <2>2. i = n \/ (i < n /\ n \in 1 .. n)
    BY <1>3
  <2> QED
    BY <1>1, <1>2, <1>3, <2>1, <2>2
<1> QED
  BY <1>3, <1>4

LEMMA FullPage ==
  ASSUME NEW rows \in Seq(Video), Len(rows) = Limit
  PROVE  rows # <<>>
<1>1. Len(rows) # 0
  BY LimitType
<1> QED
  BY <1>1, LastRow

(* A page goes to the reader. *)
Turn(rows, source, next) ==
    /\ hasMore
    /\ pages' = Append(pages, rows)
    /\ cursor' = next
    /\ hasMore' = (Len(rows) = Limit)
    /\ sources' = sources \cup {source}
    /\ UNCHANGED <<kind, dataVars, start, changes>>

LEMMA Answering ==
  ASSUME NEW rows, NEW source, NEW next,
         Answered([rows |-> rows, source |-> source, cursor |-> next])
  PROVE  Turn(rows, source, next)
  BY DEF Answered, Turn

(* The state types, with what the boxes, the ranking and the cache hold. *)
Types ==
    /\ TypeOK
    /\ pages \in Seq(Seq(Video))
    /\ \A page \in listCache : Len(page.rows) <= Limit
    /\ sources = {} <=> pages = <<>>

Boxes ==
    /\ kind # "followings" => inbox = {}
    /\ ~ByFollowing => outbox = {}
    /\ \A i, j \in 1 .. Len(ranking) : ranking[i] = ranking[j] => i = j
    /\ \A v \in videos \cup inbox \cup outboxSoFar \cup start \cup ToSet(ranking) : v <= lastId

LatestNext(rows) ==
    IF rows = <<>> THEN cursor
    ELSE [cursor EXCEPT !.score = Unix(CreateTime[Last(rows)])]

TimelineNext(rows) ==
    [NoCursor EXCEPT !.score = IF rows = <<>> THEN 0 ELSE Unix(CreateTime[Last(rows)])]

BoxNext(entries, posts) ==
    [cursor EXCEPT !.score = NextScore(entries, InboxScore, @),
                   !.outboxScore = NextScore(posts, OutboxScore, @)]

LikesNext(rows) ==
    IF rows = <<>> THEN cursor
    ELSE [cursor EXCEPT !.score = count[Last(rows)], !.id = Last(rows)]

StoredNext(rows) ==
    IF rows = <<>> THEN cursor
    ELSE [cursor EXCEPT !.score = count[Last(rows)],
                        !.time = Unix(CreateTime[Last(rows)]),
                        !.id = Last(rows)]

RankedRows == Existing(Slice(ranking, cursor.offset))

(* The turns of each list *)
LatestTurn(rows) ==
    /\ kind = "latest" /\ rows = LatestRows
    /\ Turn(rows, "mysql", LatestNext(rows)) /\ listCache' = listCache

BoxTurn(source, entries, posts) ==
    /\ kind = "followings" /\ source \in InboxSources
    /\ entries = InboxEntries(source)
    /\ posts = Box(outbox, OutboxScore, Place["outbox"], cursor.outboxScore)
    /\ Turn(Merge(Existing(entries), Existing(posts)), source, BoxNext(entries, posts))
    /\ listCache' = listCache

LikesTurn(rows) ==
    /\ ByLikes /\ rows = LikesRows
    /\ Turn(rows, "mysql", LikesNext(rows)) /\ listCache' = listCache

StoredTurn(rows) ==
    /\ kind = "order_by_popularity" /\ rows = PopularRows(cursor.time * 1000)
    /\ Turn(rows, "mysql", StoredNext(rows)) /\ listCache' = listCache

RankedTurn(rows) ==
    /\ kind = "order_by_popularity" /\ rows = RankedRows
    /\ Turn(rows, "redis", [cursor EXCEPT !.offset = @ + Len(rows)]) /\ listCache' = listCache

HotStoredTurn(rows) ==
    /\ kind \in {"listByPopularity", "hotView"} /\ rows = PopularRows(cursor.time)
    /\ Turn(rows, "mysql", GivenBack(PlaceAfter(rows, 0))) /\ listCache' = listCache

HotRankedTurn(rows) ==
    /\ kind \in {"listByPopularity", "hotView"} /\ rows = RankedRows
    /\ Turn(rows, "redis", GivenBack(PlaceAfter(rows, cursor.offset + Len(rows))))
    /\ listCache' = listCache

TimelineTurn(rows) ==
    /\ kind \in Cached
    /\ Turn(rows, "mysql", TimelineNext(rows))
    /\ \/ rows \in CachedRows(cursor.score) /\ listCache' = listCache
       \/ /\ rows = TimelineRows(cursor.score)
          /\ listCache' \in {listCache, WithCached(cursor.score, rows)}

PageTurn ==
    \/ \E rows : LatestTurn(rows)
    \/ \E source, entries, posts : BoxTurn(source, entries, posts)
    \/ \E rows : LikesTurn(rows)
    \/ \E rows : StoredTurn(rows)
    \/ \E rows : RankedTurn(rows)
    \/ \E rows : HotStoredTurn(rows)
    \/ \E rows : HotRankedTurn(rows)
    \/ \E rows : TimelineTurn(rows)

LEMMA LikesPageTurn ==
  ASSUME ByLikes, Answered(LikesPage), listCache' = listCache
  PROVE  \E rows : LikesTurn(rows)
<1>1. LikesPage = [rows |-> LikesRows, source |-> "mysql", cursor |-> LikesNext(LikesRows)]
  BY DEF LikesPage, LikesNext
<1>2. Turn(LikesRows, "mysql", LikesNext(LikesRows))
  BY <1>1, Answering
<1> QED
  BY <1>2 DEF LikesTurn

LEMMA FetchFeedsTurn ==
  ASSUME FetchFeeds
  PROVE  PageTurn
<1>0. listCache' = listCache
  BY DEF FetchFeeds
<1>1. PICK answer \in Answers : Answered(answer)
  BY DEF FetchFeeds
<1>2. kind \in {"latest", "followings", "order_by_likes", "order_by_popularity"}
  BY DEF FetchFeeds, QueryType
<1>3. CASE kind = "latest"
  <2>1. answer = [rows |-> LatestRows, source |-> "mysql", cursor |-> LatestNext(LatestRows)]
    BY <1>1, <1>3 DEF Answers, LatestPage, LatestNext
  <2>2. Turn(LatestRows, "mysql", LatestNext(LatestRows))
    BY <1>1, <2>1, Answering
  <2>3. LatestTurn(LatestRows)
    BY <1>0, <1>3, <2>2 DEF LatestTurn
  <2> QED
    BY <2>3 DEF PageTurn
<1>4. CASE kind = "followings"
  <2>1. PICK source \in InboxSources : answer = FollowingsPage(source)
    BY <1>1, <1>4 DEF Answers
  <2>2. PICK entries, posts :
           /\ entries = InboxEntries(source)
           /\ posts = Box(outbox, OutboxScore, Place["outbox"], cursor.outboxScore)
    OBVIOUS
  <2>3. answer = [rows   |-> Merge(Existing(entries), Existing(posts)),
                  source |-> source,
                  cursor |-> BoxNext(entries, posts)]
    BY <2>1, <2>2 DEF FollowingsPage, BoxNext
  <2>4. Turn(Merge(Existing(entries), Existing(posts)), source, BoxNext(entries, posts))
    BY <1>1, <2>3, Answering
  <2>5. BoxTurn(source, entries, posts)
    BY <1>0, <1>4, <2>1, <2>2, <2>4 DEF BoxTurn
  <2> QED
    BY <2>5 DEF PageTurn
<1>5. CASE kind = "order_by_likes"
  <2>1. Answered(LikesPage)
    BY <1>1, <1>5 DEF Answers
  <2>2. \E rows : LikesTurn(rows)
    BY <1>0, <1>5, <2>1, LikesPageTurn DEF ByLikes
  <2> QED
    BY <2>2 DEF PageTurn
<1>6. CASE kind = "order_by_popularity"
  <2>1. answer = StoredPage \/ answer = RankedPage
    BY <1>1, <1>6 DEF Answers
  <2>2. CASE answer = StoredPage
    <3>1. PICK rows : rows = PopularRows(cursor.time * 1000)
      OBVIOUS
    <3>2. answer = [rows |-> rows, source |-> "mysql", cursor |-> StoredNext(rows)]
      BY <2>2, <3>1 DEF StoredPage, StoredNext
    <3>3. Turn(rows, "mysql", StoredNext(rows))
      BY <1>1, <3>2, Answering
    <3>4. StoredTurn(rows)
      BY <1>0, <1>6, <3>1, <3>3 DEF StoredTurn
    <3> QED
      BY <3>4 DEF PageTurn
  <2>3. CASE answer = RankedPage
    <3>1. PICK rows : rows = RankedRows
      OBVIOUS
    <3>2. answer = [rows |-> rows, source |-> "redis",
                    cursor |-> [cursor EXCEPT !.offset = @ + Len(rows)]]
      BY <2>3, <3>1 DEF RankedPage, RankedRows
    <3>3. Turn(rows, "redis", [cursor EXCEPT !.offset = @ + Len(rows)])
      BY <1>1, <3>2, Answering
    <3>4. RankedTurn(rows)
      BY <1>0, <1>6, <3>1, <3>3 DEF RankedTurn
    <3> QED
      BY <3>4 DEF PageTurn
  <2> QED
    BY <2>1, <2>2, <2>3
<1> QED
  BY <1>2, <1>3, <1>4, <1>5, <1>6

LEMMA FetchTimelineTurn ==
  ASSUME FetchTimeline
  PROVE  PageTurn
<1>1. ASSUME NEW rows, Answered(TimelinePage(rows))
      PROVE  Turn(rows, "mysql", TimelineNext(rows))
  <2>1. TimelinePage(rows) = [rows |-> rows, source |-> "mysql", cursor |-> TimelineNext(rows)]
    BY DEF TimelinePage, TimelineNext
  <2> QED
    BY <1>1, <2>1, Answering
<1>2. PICK fresh : fresh = TimelineRows(cursor.score)
  OBVIOUS
<1>3. /\ kind \in Cached
      /\ \/ \E rows \in CachedRows(cursor.score) : Answered(TimelinePage(rows))
            /\ listCache' = listCache
         \/ /\ Answered(TimelinePage(fresh))
            /\ listCache' \in {listCache, WithCached(cursor.score, fresh)}
  BY <1>2 DEF FetchTimeline
<1>4. CASE \E rows \in CachedRows(cursor.score) : Answered(TimelinePage(rows))
            /\ listCache' = listCache
  <2>1. PICK rows \in CachedRows(cursor.score) : Answered(TimelinePage(rows))
            /\ listCache' = listCache
    BY <1>4
  <2>2. TimelineTurn(rows)
    BY <1>1, <1>3, <2>1 DEF TimelineTurn
  <2> QED
    BY <2>2 DEF PageTurn
<1>5. CASE /\ Answered(TimelinePage(fresh))
           /\ listCache' \in {listCache, WithCached(cursor.score, fresh)}
  <2>1. TimelineTurn(fresh)
    BY <1>1, <1>2, <1>3, <1>5 DEF TimelineTurn
  <2> QED
    BY <2>1 DEF PageTurn
<1> QED
  BY <1>3, <1>4, <1>5

LEMMA ListByPopularityTurn ==
  ASSUME ListByPopularity
  PROVE  PageTurn
<1>0. kind \in {"listByPopularity", "hotView"} /\ listCache' = listCache
  BY DEF ListByPopularity
<1>1. CASE Answered(HotRankedPage)
  <2>1. PICK rows : rows = RankedRows
    OBVIOUS
  <2>2. HotRankedPage = [rows |-> rows, source |-> "redis",
                         cursor |-> GivenBack(PlaceAfter(rows, cursor.offset + Len(rows)))]
    BY <2>1 DEF HotRankedPage, RankedRows
  <2>3. Turn(rows, "redis", GivenBack(PlaceAfter(rows, cursor.offset + Len(rows))))
    BY <1>1, <2>2, Answering
  <2>4. HotRankedTurn(rows)
    BY <1>0, <2>1, <2>3 DEF HotRankedTurn
  <2> QED
    BY <2>4 DEF PageTurn
<1>2. CASE Answered(HotStoredPage)
  <2>1. PICK rows : rows = PopularRows(cursor.time)
    OBVIOUS
  <2>2. HotStoredPage = [rows |-> rows, source |-> "mysql",
                         cursor |-> GivenBack(PlaceAfter(rows, 0))]
    BY <2>1 DEF HotStoredPage
  <2>3. Turn(rows, "mysql", GivenBack(PlaceAfter(rows, 0)))
    BY <1>2, <2>2, Answering
  <2>4. HotStoredTurn(rows)
    BY <1>0, <2>1, <2>3 DEF HotStoredTurn
  <2> QED
    BY <2>4 DEF PageTurn
<1> QED
  BY <1>1, <1>2 DEF ListByPopularity

(* Every step is a page, a change, another reader's page or a stutter. *)
LEMMA Steps ==
  ASSUME [Next]_vars
  PROVE  \/ PageTurn
         \/ \E v \in Video : Change(v)
         \/ \E before \in {0} \cup {Unix(CreateTime[v]) : v \in Video} : CacheTimeline(before)
         \/ UNCHANGED vars
<1>1. CASE ListLikesCount
  <2>1. \E rows : LikesTurn(rows)
    BY <1>1, LikesPageTurn DEF ListLikesCount, ByLikes
  <2> QED
    BY <2>1 DEF PageTurn
<1> QED
  BY <1>1, FetchFeedsTurn, FetchTimelineTurn, ListByPopularityTurn DEF Next

-----------------------------------------------------------------------------
(* Merging two lists *)

(* How many of the first n rows are of a, when k of the first n - 1 are. *)
NextTaken(a, b, n, k) ==
    IF k + 1 <= Len(a) /\ (n - k <= Len(b) => CreateTime[a[k + 1]] > CreateTime[b[n - k]])
    THEN k + 1 ELSE (k + 1) - 1

Taken(a, b, length, F) ==
    F = [n \in 0 .. length |-> IF n = 0 THEN 0 ELSE NextTaken(a, b, n, F[n - 1])]

LEMMA TakenExists ==
  ASSUME NEW a, NEW b
  PROVE  \A length \in Nat : \E F : Taken(a, b, length, F)
<1> DEFINE Bad == {length \in Nat : ~ \E F : Taken(a, b, length, F)}
<1>1. 0 \notin Bad
  <2>1. PICK F : F = [n \in 0 .. 0 |-> 0]
    OBVIOUS
  <2>2. F = [n \in 0 .. 0 |-> IF n = 0 THEN 0 ELSE NextTaken(a, b, n, F[n - 1])]
    BY <2>1
  <2> QED
    BY <2>2 DEF Taken
<1>2. ASSUME NEW length \in Nat, NEW F, Taken(a, b, length, F)
      PROVE  \E G : Taken(a, b, length + 1, G)
  <2> HIDE DEF NextTaken
  <2>1. PICK G : G = [n \in 0 .. length + 1 |->
                        IF n = length + 1 THEN NextTaken(a, b, n, F[n - 1]) ELSE F[n]]
    OBVIOUS
  <2>2. \A n \in 0 .. length : G[n] = F[n]
    <3>1. \A n \in 0 .. length : n \in 0 .. length + 1 /\ n # length + 1
      BY <1>2
    <3> QED
      BY <2>1, <3>1
  <2>3. \A n \in 0 .. length + 1 : G[n] = IF n = 0 THEN 0 ELSE NextTaken(a, b, n, G[n - 1])
    <3> SUFFICES ASSUME NEW n \in 0 .. length + 1
                 PROVE  G[n] = IF n = 0 THEN 0 ELSE NextTaken(a, b, n, G[n - 1])
      OBVIOUS
    <3>1. n # 0 => n - 1 \in 0 .. length
      BY <1>2
    <3>2. CASE n = length + 1
      <4>1. G[n] = NextTaken(a, b, n, F[n - 1]) /\ n # 0
        BY <1>2, <2>1, <3>2
      <4> QED
        BY <2>2, <3>1, <4>1
    <3>3. CASE n # length + 1
      <4>1. n \in 0 .. length
        BY <1>2, <3>3
      <4>2. F[n] = IF n = 0 THEN 0 ELSE NextTaken(a, b, n, F[n - 1])
        BY <1>2, <4>1 DEF Taken
      <4> QED
        BY <2>2, <3>1, <4>1, <4>2
    <3> QED
      BY <3>2, <3>3
  <2>4. G = [n \in 0 .. length + 1 |-> G[n]]
    BY <2>1
  <2>5. Taken(a, b, length + 1, G)
    BY <2>3, <2>4 DEF Taken
  <2> QED
    BY <2>5
<1>3. Bad = {}
  <2> SUFFICES ASSUME Bad # {} PROVE FALSE
    OBVIOUS
  <2>1. PICK n \in Bad : \A m \in Bad : n <= m
    BY SmallestNumber
  <2>2. n \in Nat /\ n # 0 /\ n - 1 \in Nat /\ n - 1 \notin Bad /\ (n - 1) + 1 = n
    BY <1>1, <2>1
  <2>3. PICK F : Taken(a, b, n - 1, F)
    BY <2>2
  <2> QED
    BY <1>2, <2>2, <2>3
<1> QED
  BY <1>3

(* Row n of a merge is the next of a, created after the next of b, or the   *)
(* next of b, not created before the next of a.                             *)
MergeStep(a, b, rows, taken, n) ==
    \/ /\ taken[n] = taken[n - 1] + 1 /\ taken[n] \in 1 .. Len(a)
       /\ rows[n] = a[taken[n]]
       /\ n - taken[n - 1] \in 1 .. Len(b) =>
             CreateTime[a[taken[n]]] > CreateTime[b[n - taken[n - 1]]]
    \/ /\ taken[n] = taken[n - 1] /\ n - taken[n] \in 1 .. Len(b)
       /\ rows[n] = b[n - taken[n]]
       /\ taken[n] + 1 \in 1 .. Len(a) =>
             ~(CreateTime[a[taken[n] + 1]] > CreateTime[b[n - taken[n]]])

(* taken[n] counts those of a among the first n of rows. *)
Merges(rows, a, b, taken) ==
    /\ rows \in Seq(Video) /\ Len(rows) \in Nat
    /\ Len(rows) = IF Len(a) + Len(b) < Limit THEN Len(a) + Len(b) ELSE Limit
    /\ \A n \in 0 .. Len(rows) :
          /\ taken[n] \in Nat /\ taken[n] <= n
          /\ taken[n] <= Len(a) /\ n - taken[n] <= Len(b)
    /\ \A n \in 1 .. Len(rows) : MergeStep(a, b, rows, taken, n)

LEMMA MergeRows ==
  ASSUME NEW a \in Seq(Video), NEW b \in Seq(Video), NEW length \in Nat,
         length = IF Len(a) + Len(b) < Limit THEN Len(a) + Len(b) ELSE Limit
  PROVE  \E F : /\ Taken(a, b, length, F)
                /\ Merge(a, b) = [n \in 1 .. length |->
                      IF F[n] > F[n - 1] THEN a[F[n]] ELSE b[n - F[n]]]
<1> DEFINE l == IF Len(a) + Len(b) < Limit THEN Len(a) + Len(b) ELSE Limit
           F == CHOOSE taken : taken = [n \in 0 .. l |->
                  IF n = 0 THEN 0 ELSE NextTaken(a, b, n, taken[n - 1])]
<1>0. l = length
  OBVIOUS
<1>1. Merge(a, b) = [n \in 1 .. l |-> IF F[n] > F[n - 1] THEN a[F[n]] ELSE b[n - F[n]]]
  BY Zenon DEF Merge, NextTaken
<1> HIDE DEF l
<1>2. \E G : G = [n \in 0 .. l |-> IF n = 0 THEN 0 ELSE NextTaken(a, b, n, G[n - 1])]
  <2>1. PICK G : Taken(a, b, length, G)
    BY TakenExists
  <2> QED
    BY <1>0, <2>1, Zenon DEF Taken
<1>3. F = [n \in 0 .. l |-> IF n = 0 THEN 0 ELSE NextTaken(a, b, n, F[n - 1])]
  <2> HIDE DEF NextTaken
  <2> QED
    BY <1>2, Zenon
<1>4. Taken(a, b, length, F)
  BY <1>0, <1>3, Zenon DEF Taken
<1> HIDE DEF F
<1> QED
  BY <1>0, <1>1, <1>4

LEMMA MergeSteps ==
  ASSUME NEW a \in Seq(Video), NEW b \in Seq(Video)
  PROVE  \E taken : Merges(Merge(a, b), a, b, taken)
<1>1. PICK x, y, l : x = Len(a) /\ y = Len(b) /\ l = IF x + y < Limit THEN x + y ELSE Limit
  OBVIOUS
<1>2. /\ x \in Nat /\ y \in Nat /\ l \in Nat /\ l <= x + y /\ l <= Limit
      /\ \A i \in 1 .. x : a[i] \in Video
      /\ \A i \in 1 .. y : b[i] \in Video
  <2>1. x \in Nat /\ y \in Nat
    BY <1>1, LenProperties
  <2>2. (\A i \in 1 .. x : a[i] \in Video) /\ (\A i \in 1 .. y : b[i] \in Video)
    BY <1>1, ElementOfSeq
  <2>3. l = IF x + y < Limit THEN x + y ELSE Limit
    BY <1>1
  <2> QED
    BY <2>1, <2>2, <2>3, LimitType
<1>3. PICK F : /\ Taken(a, b, l, F)
               /\ Merge(a, b) = [n \in 1 .. l |-> IF F[n] > F[n - 1] THEN a[F[n]] ELSE b[n - F[n]]]
  <2>1. l \in Nat /\ l = IF Len(a) + Len(b) < Limit THEN Len(a) + Len(b) ELSE Limit
    BY <1>1, <1>2
  <2> HIDE DEF Taken
  <2> QED
    BY <2>1, MergeRows, ZenonT(60)
<1>4. PICK rows : rows = Merge(a, b)
  OBVIOUS
<1>5. \A n \in 0 .. l : F[n] = IF n = 0 THEN 0 ELSE NextTaken(a, b, n, F[n - 1])
  <2> HIDE DEF NextTaken
  <2> QED
    BY <1>3 DEF Taken
<1> DEFINE Good(n) == F[n] \in Nat /\ F[n] <= n /\ F[n] <= x /\ n - F[n] <= y
           Step(n) == \/ /\ F[n] = F[n - 1] + 1 /\ F[n] \in 1 .. x
                         /\ n - F[n - 1] \in 1 .. y =>
                               CreateTime[a[F[n]]] > CreateTime[b[n - F[n - 1]]]
                      \/ /\ F[n] = F[n - 1] /\ n - F[n] \in 1 .. y
                         /\ F[n] + 1 \in 1 .. x =>
                               ~(CreateTime[a[F[n] + 1]] > CreateTime[b[n - F[n]]])
<1>6. ASSUME NEW n \in 1 .. l, Good(n - 1) PROVE Good(n) /\ Step(n)
  <2>1. PICK k, f : k = F[n - 1] /\ f = F[n]
    OBVIOUS
  <2>2. n \in 0 .. l /\ n # 0
    BY <1>2
  <2>3. f = IF k + 1 <= x /\ (n - k <= y => CreateTime[a[k + 1]] > CreateTime[b[n - k]])
            THEN k + 1 ELSE (k + 1) - 1
    BY <1>1, <1>5, <2>1, <2>2 DEF NextTaken
  <2>4. k \in Nat /\ n \in Nat /\ n > 0 /\ n <= x + y /\ k <= n - 1 /\ k <= x /\ n - 1 - k <= y
    BY <1>2, <1>6, <2>1
  <2>5. k + 1 <= x \/ n - k <= y
    BY <1>2, <2>4
  <2>6. CASE k + 1 <= x /\ (n - k <= y => CreateTime[a[k + 1]] > CreateTime[b[n - k]])
    <3>1. f = k + 1
      BY <2>3, <2>6
    <3>2. f \in Nat /\ f <= n /\ f <= x /\ n - f <= y /\ f \in 1 .. x
      BY <1>2, <2>4, <2>6, <3>1
    <3>3. n - k \in 1 .. y => n - k <= y
      BY <1>2
    <3> QED
      BY <2>1, <2>6, <3>1, <3>2, <3>3
  <2>7. CASE ~(k + 1 <= x /\ (n - k <= y => CreateTime[a[k + 1]] > CreateTime[b[n - k]]))
    <3>1. f = k
      BY <2>3, <2>4, <2>7
    <3>2. n - k <= y /\ n - k \in 1 .. y
      BY <1>2, <2>4, <2>5, <2>7
    <3>3. f + 1 \in 1 .. x => ~(CreateTime[a[f + 1]] > CreateTime[b[n - f]])
      BY <1>2, <2>7, <3>1
    <3> QED
      BY <2>1, <2>4, <3>1, <3>2, <3>3
  <2> QED
    BY <2>6, <2>7
<1>7. Good(0)
  <2>1. 0 \in 0 .. l
    BY <1>2
  <2>2. F[0] = 0
    BY <1>5, <2>1
  <2> QED
    BY <1>2, <2>2
<1>8. ASSUME NEW n \in 0 .. l PROVE Good(n)
  <2> HIDE DEF Good, Step
  <2> DEFINE Bad == {m \in Nat : m <= l /\ ~Good(m)}
  <2>1. CASE Bad = {}
    BY <1>2, <2>1
  <2>2. CASE Bad # {}
    <3>1. PICK m \in Bad : \A k \in Bad : m <= k
      BY <2>2, SmallestNumber
    <3>2. m # 0
      BY <1>7, <3>1
    <3>3. m \in 1 .. l /\ m - 1 \in Nat /\ m - 1 <= l /\ ~(m <= m - 1)
      BY <1>2, <3>1, <3>2
    <3>4. Good(m - 1)
      BY <3>1, <3>3
    <3>5. Good(m)
      BY <1>6, <3>3, <3>4
    <3> QED
      BY <3>1, <3>5
  <2> QED
    BY <2>1, <2>2
<1>9. ASSUME NEW n \in 1 .. l
      PROVE  Step(n) /\ n \in 0 .. l /\ Good(n) /\ Good(n - 1)
  <2>1. n \in 0 .. l /\ n - 1 \in 0 .. l
    BY <1>2
  <2> HIDE DEF Good, Step
  <2> QED
    BY <1>6, <1>8, <2>1
<1>10. \A n \in 1 .. l : rows[n] = IF F[n] > F[n - 1] THEN a[F[n]] ELSE b[n - F[n]]
  BY <1>3, <1>4
<1>11. ASSUME NEW n \in 1 .. l
       PROVE  /\ rows[n] \in Video
              /\ \/ /\ F[n] = F[n - 1] + 1 /\ F[n] \in 1 .. x /\ rows[n] = a[F[n]]
                    /\ n - F[n - 1] \in 1 .. y =>
                          CreateTime[a[F[n]]] > CreateTime[b[n - F[n - 1]]]
                 \/ /\ F[n] = F[n - 1] /\ n - F[n] \in 1 .. y /\ rows[n] = b[n - F[n]]
                    /\ F[n] + 1 \in 1 .. x =>
                          ~(CreateTime[a[F[n] + 1]] > CreateTime[b[n - F[n]]])
  <2>1. F[n] \in Nat /\ F[n - 1] \in Nat
    BY <1>9
  <2>2. CASE F[n] = F[n - 1] + 1
    <3>1. F[n] > F[n - 1] /\ F[n] # F[n - 1]
      BY <2>1, <2>2
    <3>2. rows[n] = a[F[n]]
      BY <1>10, <3>1
    <3> QED
      BY <1>2, <1>9, <2>2, <3>1, <3>2
  <2>3. CASE F[n] = F[n - 1]
    <3>1. ~(F[n] > F[n - 1]) /\ F[n] # F[n - 1] + 1
      BY <2>1, <2>3
    <3>2. rows[n] = b[n - F[n]]
      BY <1>10, <3>1
    <3> QED
      BY <1>2, <1>9, <2>3, <3>1, <3>2
  <2> QED
    BY <1>9, <2>2, <2>3
<1>12. rows \in Seq(Video) /\ Len(rows) = l
  <2>1. rows \in [1 .. l -> Video]
    BY <1>3, <1>4, <1>11
  <2> QED
    BY <1>2, <2>1, FunctionIsSeq
<1>13. \A n \in 1 .. l : MergeStep(a, b, rows, F, n)
  BY <1>1, <1>11 DEF MergeStep
<1>14. \A n \in 0 .. l : F[n] \in Nat /\ F[n] <= n /\ F[n] <= x /\ n - F[n] <= y
  BY <1>8
<1>15. Merges(rows, a, b, F)
  BY <1>1, <1>2, <1>12, <1>13, <1>14 DEF Merges
<1> QED
  BY <1>4, <1>15

(* Not created before the other *)
Later == {p \in Video \X Video : CreateTime[p[1]] >= CreateTime[p[2]]}

LEMMA MergeTypes ==
  ASSUME NEW a \in Seq(Video), NEW b \in Seq(Video)
  PROVE  /\ Merge(a, b) \in Seq(Video) /\ Len(Merge(a, b)) \in Nat
         /\ Len(Merge(a, b)) <= Limit
         /\ ToSet(Merge(a, b)) \subseteq ToSet(a) \cup ToSet(b)
<1>1. PICK rows : rows = Merge(a, b)
  OBVIOUS
<1>2. PICK taken : Merges(rows, a, b, taken)
  BY <1>1, MergeSteps
<1>3. rows \in Seq(Video) /\ Len(rows) \in Nat
  BY <1>2 DEF Merges
<1>4. Len(rows) <= Limit
  <2>1. Len(rows) = IF Len(a) + Len(b) < Limit THEN Len(a) + Len(b) ELSE Limit
    BY <1>2 DEF Merges
  <2>2. Len(a) \in Nat /\ Len(b) \in Nat
    BY LenProperties
  <2> QED
    BY <2>1, <2>2, LimitType
<1>5. /\ ToSet(rows) = {rows[i] : i \in 1 .. Len(rows)}
      /\ ToSet(a) = {a[i] : i \in 1 .. Len(a)}
      /\ ToSet(b) = {b[i] : i \in 1 .. Len(b)}
  BY <1>3, LastRow
<1>6. \A n \in 1 .. Len(rows) : rows[n] \in ToSet(a) \cup ToSet(b)
  BY <1>2, <1>5 DEF Merges, MergeStep
<1> QED
  BY <1>1, <1>3, <1>4, <1>5, <1>6

(* With nothing on the other side a merge is the list itself. *)
LEMMA MergeOfOne ==
  ASSUME NEW a \in Seq(Video), Len(a) <= Limit
  PROVE  /\ Len(Merge(a, <<>>)) = Len(a) /\ ToSet(Merge(a, <<>>)) = ToSet(a)
         /\ Len(Merge(<<>>, a)) = Len(a) /\ ToSet(Merge(<<>>, a)) = ToSet(a)
<1>1. <<>> \in Seq(Video) /\ Len(<<>>) = 0
  OBVIOUS
<1>2. PICK x : x = Len(a)
  OBVIOUS
<1>3. x \in Nat /\ x <= Limit /\ ToSet(a) = {a[i] : i \in 1 .. x}
  BY <1>2, LastRow
<1>4. x = IF x + 0 < Limit THEN x + 0 ELSE Limit
  BY <1>3, LimitType
<1>5. x = IF 0 + x < Limit THEN 0 + x ELSE Limit
  BY <1>3, LimitType
<1>6. ASSUME NEW rows, NEW taken, Merges(rows, a, <<>>, taken)
      PROVE  Len(rows) = x /\ ToSet(rows) = ToSet(a)
  <2>1. rows \in Seq(Video) /\ Len(rows) = x
    BY <1>1, <1>2, <1>4, <1>6 DEF Merges
  <2>2. \A n \in 0 .. x : taken[n] \in Nat /\ taken[n] <= n /\ n - taken[n] <= 0
    BY <1>1, <1>6, <2>1 DEF Merges
  <2>3. \A n \in 0 .. x : taken[n] = n
    BY <1>3, <2>2
  <2>4. ASSUME NEW n \in 1 .. x PROVE rows[n] = a[n]
    <3>1. n \in 0 .. x /\ taken[n] = n
      BY <1>3, <2>3
    <3>2. MergeStep(a, <<>>, rows, taken, n)
      BY <1>6, <2>1 DEF Merges
    <3>3. n - taken[n] \notin 1 .. 0
      BY <3>1
    <3> QED
      BY <1>1, <3>1, <3>2, <3>3 DEF MergeStep
  <2>5. ToSet(rows) = {rows[i] : i \in 1 .. x}
    BY <2>1, LastRow
  <2> QED
    BY <1>3, <2>1, <2>4, <2>5
<1>7. ASSUME NEW rows, NEW taken, Merges(rows, <<>>, a, taken)
      PROVE  Len(rows) = x /\ ToSet(rows) = ToSet(a)
  <2>1. rows \in Seq(Video) /\ Len(rows) = x
    BY <1>1, <1>2, <1>5, <1>7 DEF Merges
  <2>2. \A n \in 0 .. x : taken[n] \in Nat /\ taken[n] <= 0
    BY <1>1, <1>7, <2>1 DEF Merges
  <2>3. \A n \in 0 .. x : taken[n] = 0
    BY <2>2
  <2>4. ASSUME NEW n \in 1 .. x PROVE rows[n] = a[n]
    <3>1. n \in 0 .. x /\ taken[n] = 0
      BY <1>3, <2>3
    <3>2. MergeStep(<<>>, a, rows, taken, n)
      BY <1>7, <2>1 DEF Merges
    <3>3. taken[n] \notin 1 .. 0 /\ n - taken[n] = n
      BY <1>3, <3>1
    <3> QED
      BY <1>1, <3>2, <3>3 DEF MergeStep
  <2>5. ToSet(rows) = {rows[i] : i \in 1 .. x}
    BY <2>1, LastRow
  <2> QED
    BY <1>3, <2>1, <2>4, <2>5
<1> QED
  BY <1>1, <1>2, <1>6, <1>7, MergeSteps

(* Of two lists from new to old the merge goes from new to old. *)
LEMMA MergeInOrder ==
  ASSUME NEW a \in Seq(Video), NEW b \in Seq(Video), InOrder(a, Later), InOrder(b, Later)
  PROVE  InOrder(Merge(a, b), Later)
<1>1. PICK rows, l, x, y : rows = Merge(a, b) /\ l = Len(rows) /\ x = Len(a) /\ y = Len(b)
  OBVIOUS
<1>2. PICK taken : Merges(rows, a, b, taken)
  BY <1>1, MergeSteps
<1>3. /\ rows \in Seq(Video) /\ l \in Nat /\ x \in Nat /\ y \in Nat
      /\ \A n \in 1 .. l : rows[n] \in Video
      /\ \A n \in 1 .. x : a[n] \in Video
      /\ \A n \in 1 .. y : b[n] \in Video
  <2>1. rows \in Seq(Video) /\ l \in Nat
    BY <1>1, <1>2 DEF Merges
  <2>2. \A s \in Seq(Video) : Len(s) \in Nat /\ \A n \in 1 .. Len(s) : s[n] \in Video
    BY LenProperties, ElementOfSeq
  <2> QED
    BY <1>1, <2>1, <2>2
<1> DEFINE Time(v) == CreateTime[v]
<1>4. /\ \A i, j \in 1 .. x : i < j => Time(a[i]) >= Time(a[j])
      /\ \A i, j \in 1 .. y : i < j => Time(b[i]) >= Time(b[j])
  BY <1>1 DEF InOrder, Later
<1>5. \A v \in Video : Time(v) \in Nat
  BY Times
<1>6. ASSUME NEW n \in 1 .. l, n + 1 \in 1 .. l
      PROVE  Time(rows[n]) >= Time(rows[n + 1])
  <2>1. PICK k, m, o : k = taken[n - 1] /\ m = taken[n] /\ o = taken[n + 1]
    OBVIOUS
  <2>2. n \in Nat /\ (n + 1) - 1 = n /\ n \in 0 .. l /\ n - 1 \in 0 .. l /\ n + 1 \in 0 .. l
    BY <1>3, <1>6
  <2>3. k \in Nat /\ m \in Nat /\ o \in Nat
    BY <1>1, <1>2, <2>1, <2>2 DEF Merges
  <2>4. \/ /\ m = k + 1 /\ m \in 1 .. x /\ rows[n] = a[m]
           /\ n - k \in 1 .. y => Time(a[m]) > Time(b[n - k])
        \/ /\ m = k /\ n - m \in 1 .. y /\ rows[n] = b[n - m]
           /\ m + 1 \in 1 .. x => ~(Time(a[m + 1]) > Time(b[n - m]))
    <3>1. MergeStep(a, b, rows, taken, n)
      BY <1>1, <1>2 DEF Merges
    <3> QED
      BY <1>1, <2>1, <3>1 DEF MergeStep
  <2>5. \/ o = m + 1 /\ o \in 1 .. x /\ rows[n + 1] = a[o]
        \/ o = m /\ (n + 1) - o \in 1 .. y /\ rows[n + 1] = b[(n + 1) - o]
    <3>1. MergeStep(a, b, rows, taken, n + 1)
      BY <1>1, <1>2, <1>6 DEF Merges
    <3> QED
      BY <1>1, <2>1, <2>2, <3>1 DEF MergeStep
  <2> HIDE DEF Time
  <2>6. CASE m = k + 1 /\ o = m + 1
    <3>1. m \in 1 .. x /\ rows[n] = a[m] /\ o \in 1 .. x /\ rows[n + 1] = a[o] /\ m < o
      BY <2>3, <2>4, <2>5, <2>6
    <3> QED
      BY <1>4, <3>1
  <2>7. CASE m = k + 1 /\ o = m
    <3>1. (n + 1) - o = n - k
      BY <2>2, <2>3, <2>7
    <3>2. /\ m \in 1 .. x /\ rows[n] = a[m] /\ n - k \in 1 .. y /\ rows[n + 1] = b[n - k]
          /\ Time(a[m]) > Time(b[n - k])
      BY <2>3, <2>4, <2>5, <2>7, <3>1
    <3>3. a[m] \in Video /\ b[n - k] \in Video
      BY <1>3, <3>2
    <3> QED
      BY <1>5, <3>2, <3>3
  <2>8. CASE m = k /\ o = m + 1
    <3>1. /\ n - m \in 1 .. y /\ rows[n] = b[n - m] /\ o \in 1 .. x /\ rows[n + 1] = a[o]
          /\ ~(Time(a[o]) > Time(b[n - m]))
      BY <2>3, <2>4, <2>5, <2>8
    <3>2. Time(a[o]) \in Nat /\ Time(b[n - m]) \in Nat
      BY <1>3, <1>5, <3>1
    <3>3. Time(b[n - m]) >= Time(a[o])
      BY <3>1, <3>2
    <3> QED
      BY <3>1, <3>3
  <2>9. CASE m = k /\ o = m
    <3>1. /\ n - m \in 1 .. y /\ rows[n] = b[n - m]
          /\ (n + 1) - m \in 1 .. y /\ rows[n + 1] = b[(n + 1) - m] /\ n - m < (n + 1) - m
      BY <2>2, <2>3, <2>4, <2>5, <2>9
    <3> QED
      BY <1>4, <3>1
  <2> QED
    BY <2>4, <2>5, <2>6, <2>7, <2>8, <2>9
<1>7. ASSUME NEW i \in 1 .. l, NEW j \in 1 .. l, i < j
      PROVE  Time(rows[i]) >= Time(rows[j])
  <2> HIDE DEF Time
  <2> DEFINE Bad == {k \in Nat : i < k /\ k <= l /\ ~(Time(rows[i]) >= Time(rows[k]))}
  <2>1. CASE Bad = {}
    BY <1>3, <1>7, <2>1
  <2>2. CASE Bad # {}
    <3>1. PICK k \in Bad : \A m \in Bad : k <= m
      BY <2>2, SmallestNumber
    <3>2. /\ k \in Nat /\ i < k /\ k <= l /\ ~(Time(rows[i]) >= Time(rows[k]))
          /\ k - 1 \in 1 .. l /\ (k - 1) + 1 = k /\ k \in 1 .. l
      BY <1>3, <1>7, <3>1
    <3>3. Time(rows[k - 1]) >= Time(rows[k])
      BY <1>6, <3>2
    <3>4. Time(rows[i]) \in Nat /\ Time(rows[k]) \in Nat /\ Time(rows[k - 1]) \in Nat
      BY <1>3, <1>5, <3>2
    <3>5. i # k - 1
      BY <3>2, <3>3
    <3>6. k - 1 \in Nat /\ i < k - 1 /\ k - 1 <= l /\ ~(k <= k - 1)
      BY <3>2, <3>5
    <3>7. Time(rows[i]) >= Time(rows[k - 1])
      BY <3>1, <3>6
    <3> QED
      BY <3>2, <3>3, <3>4, <3>7
  <2> QED
    BY <2>1, <2>2
<1>8. \A i, j \in 1 .. l : i < j => <<rows[i], rows[j]>> \in Later
  BY <1>3, <1>7 DEF Later
<1> QED
  BY <1>1, <1>8 DEF InOrder

(* Of a full list with nothing before t nothing before t is taken over. *)
LEMMA MergeBounded ==
  ASSUME NEW a \in Seq(Video), NEW b \in Seq(Video), NEW t \in Nat,
         \/ Len(a) = Limit /\ \A v \in ToSet(a) : CreateTime[v] >= t
         \/ Len(b) = Limit /\ \A v \in ToSet(b) : CreateTime[v] >= t
  PROVE  \A v \in ToSet(Merge(a, b)) : CreateTime[v] >= t
<1>1. PICK rows, l, x, y : rows = Merge(a, b) /\ l = Len(rows) /\ x = Len(a) /\ y = Len(b)
  OBVIOUS
<1>2. PICK taken : Merges(rows, a, b, taken)
  BY <1>1, MergeSteps
<1>3. /\ rows \in Seq(Video) /\ l \in Nat /\ l <= Limit /\ x \in Nat /\ y \in Nat
      /\ ToSet(rows) = {rows[n] : n \in 1 .. l}
      /\ \A n \in 1 .. x : a[n] \in Video /\ a[n] \in ToSet(a)
      /\ \A n \in 1 .. y : b[n] \in Video /\ b[n] \in ToSet(b)
  <2>1. rows \in Seq(Video) /\ l \in Nat /\ l <= Limit
    BY <1>1, MergeTypes
  <2>2. \A s \in Seq(Video) :
           Len(s) \in Nat /\ \A n \in 1 .. Len(s) : s[n] \in Video /\ s[n] \in ToSet(s)
    BY LastRow
  <2>3. ToSet(rows) = {rows[n] : n \in 1 .. l}
    BY <1>1, <2>1, LastRow
  <2> QED
    BY <1>1, <2>1, <2>2, <2>3
<1> SUFFICES ASSUME NEW n \in 1 .. l PROVE CreateTime[rows[n]] >= t
  BY <1>1, <1>3
<1>4. PICK k, m : k = taken[n - 1] /\ m = taken[n]
  OBVIOUS
<1>5. n \in Nat /\ n >= 1 /\ n <= Limit /\ n - 1 \in 0 .. l /\ n \in 0 .. l /\ Limit \in Nat
  BY <1>3, LimitType
<1>6. k \in Nat /\ m \in Nat /\ k <= n - 1
  BY <1>1, <1>2, <1>4, <1>5 DEF Merges
<1>7. \/ /\ m = k + 1 /\ m \in 1 .. x /\ rows[n] = a[m]
         /\ n - k \in 1 .. y => CreateTime[a[m]] > CreateTime[b[n - k]]
      \/ /\ m = k /\ n - m \in 1 .. y /\ rows[n] = b[n - m]
         /\ m + 1 \in 1 .. x => ~(CreateTime[a[m + 1]] > CreateTime[b[n - m]])
  <2>1. MergeStep(a, b, rows, taken, n)
    BY <1>1, <1>2 DEF Merges
  <2> QED
    BY <1>1, <1>4, <2>1 DEF MergeStep
<1>8. /\ \A i \in 1 .. x : CreateTime[a[i]] \in Nat
      /\ \A i \in 1 .. y : CreateTime[b[i]] \in Nat
  BY <1>3, Times
<1>9. CASE x = Limit /\ \A v \in ToSet(a) : CreateTime[v] >= t
  <2>1. \A i \in 1 .. x : CreateTime[a[i]] >= t
    BY <1>3, <1>9
  <2>2. CASE m \in 1 .. x /\ rows[n] = a[m]
    BY <2>1, <2>2
  <2>3. CASE /\ m = k /\ n - m \in 1 .. y /\ rows[n] = b[n - m]
             /\ m + 1 \in 1 .. x => ~(CreateTime[a[m + 1]] > CreateTime[b[n - m]])
    <3>1. m + 1 \in 1 .. x
      BY <1>5, <1>6, <1>9, <2>3
    <3> QED
      BY <1>8, <2>1, <2>3, <3>1
  <2> QED
    BY <1>7, <2>2, <2>3
<1>10. CASE y = Limit /\ \A v \in ToSet(b) : CreateTime[v] >= t
  <2>1. \A i \in 1 .. y : CreateTime[b[i]] >= t
    BY <1>3, <1>10
  <2>2. CASE n - m \in 1 .. y /\ rows[n] = b[n - m]
    BY <2>1, <2>2
  <2>3. CASE /\ m \in 1 .. x /\ rows[n] = a[m]
             /\ n - k \in 1 .. y => CreateTime[a[m]] > CreateTime[b[n - k]]
    <3>1. n - k \in 1 .. y
      BY <1>5, <1>6, <1>10
    <3> QED
      BY <1>8, <2>1, <2>3, <3>1
  <2> QED
    BY <1>7, <2>2, <2>3
<1> QED
  BY <1>1, <1>9, <1>10

-----------------------------------------------------------------------------
(* The rows of each list, and the types *)

BeforeSecond(S, second) == {v \in S : second = 0 \/ CreateTime[v] < second * 1000}
TimelineSet == {v \in videos : kind = "listByFollowing" => v \in outbox}
LikesSet ==
    {v \in videos : \/ cursor.id = 0
                    \/ count[v] < cursor.score
                    \/ count[v] = cursor.score /\ v < cursor.id}
PopularSet(time) ==
    {v \in videos :
        \/ cursor.id = 0
        \/ count[v] < cursor.score
        \/ count[v] = cursor.score /\ CreateTime[v] < time
        \/ /\ count[v] = cursor.score
           /\ CreateTime[v] = time
           /\ v < cursor.id}

Changes == {"arrival", "delivery", "deletion", "follow", "unfollow", "like", "unlike"}

LEMMA StateTypes ==
  ASSUME Types
  PROVE  /\ kind \in Kind /\ videos \subseteq Video /\ lastId \in Nat
         /\ count \in [Video -> Nat]
         /\ inbox \subseteq Video /\ inboxCache \subseteq inbox /\ outbox \subseteq Video
         /\ outbox \subseteq outboxSoFar /\ outboxSoFar \subseteq Video
         /\ ranking \in Seq(Video) /\ start \subseteq Video
         /\ cursor \in Cursor /\ cursor.score \in Nat /\ cursor.outboxScore \in Nat
         /\ cursor.time \in Nat /\ cursor.id \in Nat /\ cursor.offset \in Nat
         /\ hasMore \in BOOLEAN /\ sources \subseteq Source
         /\ pages \in Seq(Seq(Video))
         /\ \A page \in listCache :
               page.before \in Nat /\ page.rows \in Seq(Video) /\ Len(page.rows) <= Limit
         /\ changes \in Seq(Changes)
  BY DEF Types, TypeOK, Cursor, Changes

LEMMA TimeTops ==
  ASSUME Types
  PROVE  /\ IsTop(LatestRows, BeforeSecond(videos, cursor.score), TimeOrder)
         /\ \A before : IsTop(TimelineRows(before), BeforeSecond(TimelineSet, before), TimeOrder)
<1>1. IsTop(LatestRows, BeforeSecond(videos, cursor.score), TimeOrder)
  <2>1. BeforeSecond(videos, cursor.score) \in SUBSET Video
    BY StateTypes DEF BeforeSecond
  <2>2. LatestRows = Top(BeforeSecond(videos, cursor.score), Newer)
    BY DEF LatestRows, BeforeSecond
  <2> QED
    BY <2>1, <2>2, TopByTime
<1>2. ASSUME NEW before
      PROVE  IsTop(TimelineRows(before), BeforeSecond(TimelineSet, before), TimeOrder)
  <2>1. BeforeSecond(TimelineSet, before) \in SUBSET Video
    BY StateTypes DEF BeforeSecond, TimelineSet
  <2>2. BeforeSecond(TimelineSet, before) =
        {v \in videos : /\ kind = "listByFollowing" => v \in outbox
                        /\ before = 0 \/ CreateTime[v] < before * 1000}
    BY DEF BeforeSecond, TimelineSet
  <2>3. TimelineRows(before) = Top(BeforeSecond(TimelineSet, before), Newer)
    BY <2>2 DEF TimelineRows
  <2> QED
    BY <2>1, <2>3, TopByTime
<1> QED
  BY <1>1, <1>2

LEMMA CountTops ==
  ASSUME Types
  PROVE  /\ IsTop(LikesRows, LikesSet, LikesOrder)
         /\ \A time : IsTop(PopularRows(time), PopularSet(time), PopularOrder)
<1>1. IsTop(LikesRows, LikesSet, LikesOrder)
  <2>1. LikesSet \in SUBSET Video /\ count \in [Video -> Nat]
    BY StateTypes DEF LikesSet
  <2>2. LikesRows = Top(LikesSet, MoreLiked)
    BY DEF LikesRows, LikesSet
  <2> QED
    BY <2>1, <2>2, TopByLikes
<1>2. ASSUME NEW time PROVE IsTop(PopularRows(time), PopularSet(time), PopularOrder)
  <2>1. PopularSet(time) \in SUBSET Video /\ count \in [Video -> Nat]
    BY StateTypes DEF PopularSet
  <2>2. PopularRows(time) = Top(PopularSet(time), MorePopular)
    BY DEF PopularRows, PopularSet
  <2> QED
    BY <2>1, <2>2, TopByPopularity
<1> QED
  BY <1>1, <1>2

LEMMA SeqPart ==
  ASSUME NEW T, NEW S \in SUBSET T, NEW s \in Seq(S)
  PROVE  s \in Seq(T)
<1>1. Len(s) \in Nat /\ s \in [1 .. Len(s) -> S]
  BY LenProperties
<1>2. s \in [1 .. Len(s) -> T]
  BY <1>1
<1> QED
  BY <1>1, <1>2, FunctionIsSeq

LEMMA TopType ==
  ASSUME NEW S \in SUBSET Video, NEW R, NEW rows, IsTop(rows, S, R)
  PROVE  /\ rows \in Seq(Video) /\ Len(rows) \in Nat /\ Len(rows) <= Limit
         /\ ToSet(rows) \subseteq S
<1>1. rows \in Seq(S)
  BY DEF IsTop
<1> QED
  BY <1>1, SeqPart, LastRow DEF IsTop

InboxOrder(source) == ScoreOrder(InboxScore, Place[source])
OutboxOrder == ScoreOrder(OutboxScore, Place["outbox"])

(* The rows of a followings page: entries of an inbox and posts of the     *)
(* outboxes with their videos.                                             *)
LEMMA BoxRows ==
  ASSUME Types, NEW source, NEW entries, NEW posts, BoxTurn(source, entries, posts)
  PROVE  \E rows, box :
            /\ source \in Source
            /\ box = (IF source = "mysql" THEN inbox ELSE inboxCache)
            /\ Turn(rows, source, BoxNext(entries, posts))
            /\ IsTop(entries, BeforeScore(box, InboxScore, cursor.score), InboxOrder(source))
            /\ IsTop(posts, BeforeScore(outbox, OutboxScore, cursor.outboxScore), OutboxOrder)
            /\ entries \in Seq(Video) /\ posts \in Seq(Video)
            /\ rows = Merge(Existing(entries), Existing(posts))
            /\ rows \in Seq(Video) /\ Len(rows) <= Limit
            /\ ToSet(rows) \subseteq (ToSet(entries) \cup ToSet(posts)) \cap videos
<1>1. PICK rows : rows = Merge(Existing(entries), Existing(posts))
  OBVIOUS
<1>2. PICK box : box = IF source = "mysql" THEN inbox ELSE inboxCache
  OBVIOUS
<1>3. /\ source \in Source /\ entries = InboxEntries(source)
      /\ posts = Box(outbox, OutboxScore, Place["outbox"], cursor.outboxScore)
      /\ Turn(rows, source, BoxNext(entries, posts))
  BY <1>1 DEF BoxTurn, InboxSources
<1>4. entries = Box(box, InboxScore, Place[source], cursor.score)
  BY <1>2, <1>3 DEF InboxEntries
<1>5. box \in SUBSET Video /\ outbox \in SUBSET Video
  BY <1>2, StateTypes
<1>6. /\ IsTop(entries, BeforeScore(box, InboxScore, cursor.score), InboxOrder(source))
      /\ IsTop(posts, BeforeScore(outbox, OutboxScore, cursor.outboxScore), OutboxOrder)
  <2>1. Scoring(InboxScore, Place[source]) /\ Scoring(OutboxScore, Place["outbox"])
    BY <1>3, Scorings
  <2>2. IsTop(entries, BeforeScore(box, InboxScore, cursor.score), InboxOrder(source))
    BY <1>4, <1>5, <2>1, TopByScore DEF InboxOrder
  <2>3. IsTop(posts, BeforeScore(outbox, OutboxScore, cursor.outboxScore), OutboxOrder)
    BY <1>3, <1>5, <2>1, TopByScore DEF OutboxOrder
  <2> QED
    BY <2>2, <2>3
<1>7. /\ BeforeScore(box, InboxScore, cursor.score) \in SUBSET Video
      /\ BeforeScore(outbox, OutboxScore, cursor.outboxScore) \in SUBSET Video
  BY <1>5 DEF BeforeScore
<1>8. entries \in Seq(Video) /\ posts \in Seq(Video)
  BY <1>6, <1>7, TopType
<1>9. /\ Existing(entries) \in Seq(Video) /\ Existing(posts) \in Seq(Video)
      /\ ToSet(Existing(entries)) = ToSet(entries) \cap videos
      /\ ToSet(Existing(posts)) = ToSet(posts) \cap videos
  BY <1>8, ExistingRows
<1>10. /\ rows \in Seq(Video) /\ Len(rows) <= Limit
       /\ ToSet(rows) \subseteq (ToSet(entries) \cup ToSet(posts)) \cap videos
  BY <1>1, <1>9, MergeTypes
<1> QED
  BY <1>1, <1>2, <1>3, <1>6, <1>8, <1>10

(* The rows of the ranking: a stretch of it, without the lost members. *)
LEMMA RankRows ==
  ASSUME Types
  PROVE  \E ids :
            /\ ids \in Seq(Video) /\ Len(ids) \in Nat /\ Len(ids) <= Limit
            /\ cursor.offset <= Len(ranking) => cursor.offset + Len(ids) <= Len(ranking)
            /\ Len(ids) < Limit => cursor.offset + Len(ids) >= Len(ranking)
            /\ \A i \in 1 .. Len(ids) :
                  cursor.offset + i \in 1 .. Len(ranking) /\ ids[i] = ranking[cursor.offset + i]
            /\ RankedRows \in Seq(Video) /\ Len(RankedRows) \in Nat
            /\ Len(RankedRows) <= Len(ids)
            /\ ToSet(RankedRows) = ToSet(ids) \cap videos
            /\ ToSet(ids) \subseteq videos => Len(RankedRows) = Len(ids)
            /\ ToSet(ids) \subseteq ToSet(ranking)
<1>1. PICK ids : ids = Slice(ranking, cursor.offset)
  OBVIOUS
<1>2. ranking \in Seq(Video) /\ cursor.offset \in Nat
  BY StateTypes
<1>3. /\ ids \in Seq(Video) /\ Len(ids) \in Nat /\ Len(ids) <= Limit
      /\ cursor.offset <= Len(ranking) => cursor.offset + Len(ids) <= Len(ranking)
      /\ Len(ids) < Limit => cursor.offset + Len(ids) >= Len(ranking)
      /\ \A i \in 1 .. Len(ids) :
            cursor.offset + i \in 1 .. Len(ranking) /\ ids[i] = ranking[cursor.offset + i]
  BY <1>1, <1>2, SliceParts
<1>4. RankedRows = Existing(ids)
  BY <1>1 DEF RankedRows
<1>5. /\ RankedRows \in Seq(Video) /\ Len(RankedRows) \in Nat
      /\ Len(RankedRows) <= Len(ids)
      /\ ToSet(RankedRows) = ToSet(ids) \cap videos
      /\ ToSet(ids) \subseteq videos => Len(RankedRows) = Len(ids)
  BY <1>3, <1>4, ExistingRows
<1>6. ToSet(ids) \subseteq ToSet(ranking)
  <2>1. /\ ToSet(ids) = {ids[i] : i \in 1 .. Len(ids)}
        /\ ToSet(ranking) = {ranking[i] : i \in 1 .. Len(ranking)}
    BY <1>2, <1>3, LastRow
  <2> QED
    BY <1>3, <2>1
<1> QED
  BY <1>3, <1>5, <1>6

LEMMA NoCursorType == NoCursor \in Cursor
  BY DEF NoCursor, Cursor

LEMMA CursorScore ==
  ASSUME NEW c \in Cursor, NEW x \in Nat
  PROVE  [c EXCEPT !.score = x] \in Cursor
  BY DEF Cursor

LEMMA CursorScores ==
  ASSUME NEW c \in Cursor, NEW x \in Nat, NEW y \in Nat
  PROVE  [c EXCEPT !.score = x, !.outboxScore = y] \in Cursor
  BY DEF Cursor

LEMMA CursorLikes ==
  ASSUME NEW c \in Cursor, NEW x \in Nat, NEW y \in Nat
  PROVE  [c EXCEPT !.score = x, !.id = y] \in Cursor
  BY DEF Cursor

LEMMA CursorPlace ==
  ASSUME NEW c \in Cursor, NEW x \in Nat, NEW y \in Nat, NEW z \in Nat
  PROVE  [c EXCEPT !.score = x, !.time = y, !.id = z] \in Cursor
  BY DEF Cursor

LEMMA CursorOffset ==
  ASSUME NEW c \in Cursor, NEW n \in Nat
  PROVE  [c EXCEPT !.offset = n] \in Cursor
  BY DEF Cursor

LEMMA CursorAll ==
  ASSUME NEW c \in Cursor, NEW x \in Nat, NEW y \in Nat, NEW z \in Nat, NEW n \in Nat
  PROVE  [c EXCEPT !.offset = n, !.score = x, !.time = y, !.id = z] \in Cursor
  BY DEF Cursor

LEMMA RowValues ==
  ASSUME Types, NEW rows \in Seq(Video), rows # <<>>
  PROVE  /\ Last(rows) \in Video /\ Last(rows) \in Nat
         /\ CreateTime[Last(rows)] \in Nat /\ Unix(CreateTime[Last(rows)]) \in Nat
         /\ count[Last(rows)] \in Nat
<1>1. PICK v : v = Last(rows)
  OBVIOUS
<1>2. v \in Video
  BY <1>1, LastRow
<1>3. v \in Nat /\ CreateTime[v] \in Nat
  BY <1>2, Times
<1>4. Unix(CreateTime[v]) \in Nat
  BY <1>3, UnixType
<1>5. count[v] \in Nat
  BY <1>2, StateTypes
<1> QED
  BY <1>1, <1>2, <1>3, <1>4, <1>5

(* What every page has, whatever the list. *)
PageOf(rows, source, next) ==
    /\ Turn(rows, source, next)
    /\ rows \in Seq(Video) /\ Len(rows) <= Limit
    /\ source \in Source
    /\ next \in Cursor
    /\ listCache' \in {listCache, WithCached(cursor.score, rows)}

LEMMA PlaceType ==
  ASSUME Types, NEW rows \in Seq(Video), NEW offset \in Nat
  PROVE  /\ PlaceAfter(rows, offset) \in Cursor
         /\ GivenBack(PlaceAfter(rows, offset)) \in Cursor
<1>1. PlaceAfter(rows, offset) \in Cursor
  <2>1. CASE rows = <<>>
    BY <2>1, NoCursorType, CursorOffset DEF PlaceAfter
  <2>2. CASE rows # <<>>
    <3>1. PICK x, y, z : x = count[Last(rows)] /\ y = CreateTime[Last(rows)] /\ z = Last(rows)
      OBVIOUS
    <3>2. x \in Nat /\ y \in Nat /\ z \in Nat
      BY <2>2, <3>1, RowValues
    <3>3. [NoCursor EXCEPT !.offset = offset, !.score = x, !.time = y, !.id = z] \in Cursor
      BY <3>2, NoCursorType, CursorAll
    <3> QED
      BY <2>2, <3>1, <3>3 DEF PlaceAfter
  <2> QED
    BY <2>1, <2>2
<1>2. PlaceAfter(rows, offset).offset \in Nat
  BY <1>1 DEF Cursor
<1> QED
  BY <1>1, <1>2, NoCursorType, CursorOffset DEF GivenBack

LEMMA TimePageTypes ==
  ASSUME Types
  PROVE  /\ \A rows : LatestTurn(rows) => PageOf(rows, "mysql", LatestNext(rows))
         /\ \A rows : TimelineTurn(rows) => PageOf(rows, "mysql", TimelineNext(rows))
<1>0. cursor \in Cursor /\ "mysql" \in Source
  BY StateTypes DEF Source
<1>1. ASSUME NEW rows, LatestTurn(rows)
      PROVE  PageOf(rows, "mysql", LatestNext(rows))
  <2>1. BeforeSecond(videos, cursor.score) \in SUBSET Video
    BY StateTypes DEF BeforeSecond
  <2>2. rows \in Seq(Video) /\ Len(rows) <= Limit
    BY <1>1, <2>1, TimeTops, TopType DEF LatestTurn
  <2>3. rows # <<>> => Unix(CreateTime[Last(rows)]) \in Nat
    BY <2>2, RowValues
  <2>4. LatestNext(rows) \in Cursor
    BY <1>0, <2>3, CursorScore DEF LatestNext
  <2> QED
    BY <1>0, <1>1, <2>2, <2>4 DEF LatestTurn, PageOf
<1>2. ASSUME NEW rows, TimelineTurn(rows)
      PROVE  PageOf(rows, "mysql", TimelineNext(rows))
  <2>1. rows \in Seq(Video) /\ Len(rows) <= Limit
    <3>1. CASE rows \in CachedRows(cursor.score)
      BY <3>1, StateTypes DEF CachedRows
    <3>2. CASE rows = TimelineRows(cursor.score)
      <4>1. BeforeSecond(TimelineSet, cursor.score) \in SUBSET Video
        BY StateTypes DEF BeforeSecond, TimelineSet
      <4> QED
        BY <3>2, <4>1, TimeTops, TopType
    <3> QED
      BY <1>2, <3>1, <3>2 DEF TimelineTurn
  <2>2. rows # <<>> => Unix(CreateTime[Last(rows)]) \in Nat
    BY <2>1, RowValues
  <2>3. TimelineNext(rows) \in Cursor
    <3>1. PICK x : x = IF rows = <<>> THEN 0 ELSE Unix(CreateTime[Last(rows)])
      OBVIOUS
    <3>2. x \in Nat
      BY <2>2, <3>1
    <3>3. [NoCursor EXCEPT !.score = x] \in Cursor
      BY <3>2, NoCursorType, CursorScore
    <3> QED
      BY <3>1, <3>3 DEF TimelineNext
  <2>4. listCache' \in {listCache, WithCached(cursor.score, rows)}
    BY <1>2 DEF TimelineTurn
  <2> QED
    BY <1>0, <1>2, <2>1, <2>3, <2>4 DEF TimelineTurn, PageOf
<1> QED
  BY <1>1, <1>2

LEMMA BoxPageTypes ==
  ASSUME Types, NEW source, NEW entries, NEW posts, BoxTurn(source, entries, posts)
  PROVE  \E rows : PageOf(rows, source, BoxNext(entries, posts))
<1>1. PICK rows : /\ source \in Source
                  /\ Turn(rows, source, BoxNext(entries, posts))
                  /\ entries \in Seq(Video) /\ posts \in Seq(Video)
                  /\ rows \in Seq(Video) /\ Len(rows) <= Limit
  BY BoxRows
<1>2. ASSUME NEW es \in Seq(Video), NEW score \in [Video -> Nat \ {0}], NEW before \in Nat
      PROVE  NextScore(es, score, before) \in Nat
  BY <1>2, LastRow DEF NextScore
<1>3. /\ InboxScore \in [Video -> Nat \ {0}] /\ OutboxScore \in [Video -> Nat \ {0}]
      /\ cursor.score \in Nat /\ cursor.outboxScore \in Nat
  BY PagingAssumption, StateTypes DEF PagingAssumption
<1>4. /\ NextScore(entries, InboxScore, cursor.score) \in Nat
      /\ NextScore(posts, OutboxScore, cursor.outboxScore) \in Nat
  BY <1>1, <1>2, <1>3
<1>5. BoxNext(entries, posts) \in Cursor
  <2>1. PICK c : c = cursor
    OBVIOUS
  <2>2. PICK x, y : /\ x = NextScore(entries, InboxScore, cursor.score)
                    /\ y = NextScore(posts, OutboxScore, cursor.outboxScore)
    OBVIOUS
  <2>3. c \in Cursor /\ x \in Nat /\ y \in Nat
    BY <1>4, <2>1, <2>2, StateTypes
  <2>4. BoxNext(entries, posts) = [c EXCEPT !.score = x, !.outboxScore = y]
    BY <2>1, <2>2, <2>3 DEF BoxNext, Cursor
  <2>5. [c EXCEPT !.score = x, !.outboxScore = y] \in Cursor
    BY <2>3, CursorScores
  <2> QED
    BY <2>4, <2>5
<1>6. listCache' = listCache
  BY DEF BoxTurn
<1> QED
  BY <1>1, <1>5, <1>6 DEF PageOf

LEMMA CountPageTypes ==
  ASSUME Types
  PROVE  /\ \A rows : LikesTurn(rows) => PageOf(rows, "mysql", LikesNext(rows))
         /\ \A rows : StoredTurn(rows) => PageOf(rows, "mysql", StoredNext(rows))
         /\ \A rows : HotStoredTurn(rows) =>
               PageOf(rows, "mysql", GivenBack(PlaceAfter(rows, 0)))
<1>0. cursor \in Cursor /\ "mysql" \in Source
  BY StateTypes DEF Source
<1>1. ASSUME NEW rows, LikesTurn(rows)
      PROVE  PageOf(rows, "mysql", LikesNext(rows))
  <2>1. LikesSet \in SUBSET Video
    BY StateTypes DEF LikesSet
  <2>2. rows \in Seq(Video) /\ Len(rows) <= Limit
    BY <1>1, <2>1, CountTops, TopType DEF LikesTurn
  <2>3. rows # <<>> => count[Last(rows)] \in Nat /\ Last(rows) \in Nat
    BY <2>2, RowValues
  <2>4. LikesNext(rows) \in Cursor
    BY <1>0, <2>3, CursorLikes DEF LikesNext
  <2> QED
    BY <1>0, <1>1, <2>2, <2>4 DEF LikesTurn, PageOf
<1>2. ASSUME NEW rows, NEW time, rows = PopularRows(time)
      PROVE  /\ rows \in Seq(Video) /\ Len(rows) <= Limit
             /\ rows # <<>> => /\ count[Last(rows)] \in Nat /\ Last(rows) \in Nat
                               /\ CreateTime[Last(rows)] \in Nat
                               /\ Unix(CreateTime[Last(rows)]) \in Nat
  <2>1. PopularSet(time) \in SUBSET Video
    BY StateTypes DEF PopularSet
  <2>2. rows \in Seq(Video) /\ Len(rows) <= Limit
    BY <1>2, <2>1, CountTops, TopType
  <2> QED
    BY <2>2, RowValues
<1>3. ASSUME NEW rows, StoredTurn(rows)
      PROVE  PageOf(rows, "mysql", StoredNext(rows))
  <2>1. rows = PopularRows(cursor.time * 1000)
    BY <1>3 DEF StoredTurn
  <2>2. StoredNext(rows) \in Cursor
    <3>1. CASE rows = <<>>
      BY <1>0, <3>1 DEF StoredNext
    <3>2. CASE rows # <<>>
      <4>1. PICK x, y, z : /\ x = count[Last(rows)] /\ y = Unix(CreateTime[Last(rows)])
                           /\ z = Last(rows)
        OBVIOUS
      <4>2. x \in Nat /\ y \in Nat /\ z \in Nat
        BY <1>2, <2>1, <3>2, <4>1
      <4>3. [cursor EXCEPT !.score = x, !.time = y, !.id = z] \in Cursor
        BY <1>0, <4>2, CursorPlace
      <4> QED
        BY <3>2, <4>1, <4>3 DEF StoredNext
    <3> QED
      BY <3>1, <3>2
  <2> QED
    BY <1>0, <1>2, <1>3, <2>1, <2>2 DEF StoredTurn, PageOf
<1>4. ASSUME NEW rows, HotStoredTurn(rows)
      PROVE  PageOf(rows, "mysql", GivenBack(PlaceAfter(rows, 0)))
  <2>1. rows = PopularRows(cursor.time)
    BY <1>4 DEF HotStoredTurn
  <2>4. GivenBack(PlaceAfter(rows, 0)) \in Cursor
    BY <1>2, <2>1, PlaceType
  <2> QED
    BY <1>0, <1>2, <1>4, <2>1, <2>4 DEF HotStoredTurn, PageOf
<1> QED
  BY <1>1, <1>3, <1>4

LEMMA RankPageTypes ==
  ASSUME Types
  PROVE  /\ \A rows : RankedTurn(rows) =>
               PageOf(rows, "redis", [cursor EXCEPT !.offset = cursor.offset + Len(rows)])
         /\ \A rows : HotRankedTurn(rows) =>
               PageOf(rows, "redis", GivenBack(PlaceAfter(rows, cursor.offset + Len(rows))))
<1>0. cursor \in Cursor /\ "redis" \in Source /\ cursor.offset \in Nat
  BY StateTypes DEF Source
<1>1. ASSUME NEW rows, rows = RankedRows
      PROVE  rows \in Seq(Video) /\ Len(rows) <= Limit /\ cursor.offset + Len(rows) \in Nat
  <2>1. PICK ids : /\ Len(ids) \in Nat /\ Len(ids) <= Limit
                   /\ RankedRows \in Seq(Video) /\ Len(RankedRows) \in Nat
                   /\ Len(RankedRows) <= Len(ids)
    BY RankRows
  <2> QED
    BY <1>0, <1>1, <2>1, LimitType
<1>2. ASSUME NEW rows, RankedTurn(rows)
      PROVE  PageOf(rows, "redis", [cursor EXCEPT !.offset = cursor.offset + Len(rows)])
  <2>1. rows = RankedRows
    BY <1>2 DEF RankedTurn
  <2>2. [cursor EXCEPT !.offset = cursor.offset + Len(rows)] \in Cursor
    BY <1>0, <1>1, <2>1, CursorOffset
  <2>3. Turn(rows, "redis", [cursor EXCEPT !.offset = cursor.offset + Len(rows)])
        /\ listCache' = listCache
    BY <1>2 DEF RankedTurn
  <2> QED
    BY <1>0, <1>1, <2>1, <2>2, <2>3 DEF PageOf
<1>3. ASSUME NEW rows, HotRankedTurn(rows)
      PROVE  PageOf(rows, "redis", GivenBack(PlaceAfter(rows, cursor.offset + Len(rows))))
  <2>1. rows = RankedRows
    BY <1>3 DEF HotRankedTurn
  <2>2. PICK offset \in Nat : offset = cursor.offset + Len(rows)
    BY <1>1, <2>1
  <2>6. GivenBack(PlaceAfter(rows, offset)) \in Cursor
    BY <1>1, <2>1, PlaceType
  <2> QED
    BY <1>0, <1>1, <1>3, <2>1, <2>2, <2>6 DEF HotRankedTurn, PageOf
<1> QED
  BY <1>2, <1>3

LEMMA PageTypes ==
  ASSUME Types, PageTurn
  PROVE  \E rows, source, next : PageOf(rows, source, next)
  BY TimePageTypes, BoxPageTypes, CountPageTypes, RankPageTypes DEF PageTurn

(* A change of the data leaves the session where it is. *)
LEMMA ChangeParts ==
  ASSUME NEW v \in Video, Change(v)
  PROVE  /\ hasMore
         /\ UNCHANGED <<kind, listCache, cursor, pages, hasMore, sources, start>>
         /\ \E what \in Changes : changes' = Append(changes, what)
<1>1. \/ MayChange("arrival") \/ MayChange("delivery") \/ MayChange("deletion")
      \/ MayChange("follow") \/ MayChange("unfollow")
      \/ MayChange("like") \/ MayChange("unlike")
  BY DEF Change, Arrive, Deliver, DeleteVideo, Follow, Unfollow, LikeVideo, UnlikeVideo
<1>2. PICK what \in Changes : MayChange(what)
  BY <1>1 DEF Changes
<1> QED
  BY <1>2 DEF MayChange

LEMMA SwappedRanks ==
  ASSUME Types, Boxes, NEW i \in 1 .. Len(ranking) - 1, SwapRanks(i)
  PROVE  /\ ranking' \in Seq(Video) /\ Len(ranking') = Len(ranking)
         /\ \A j, k \in 1 .. Len(ranking') : ranking'[j] = ranking'[k] => j = k
         /\ ToSet(ranking') \subseteq ToSet(ranking)
<1>1. /\ ranking \in Seq(Video) /\ Len(ranking) \in Nat
      /\ \A j, k \in 1 .. Len(ranking) : ranking[j] = ranking[k] => j = k
      /\ ToSet(ranking) = {ranking[j] : j \in 1 .. Len(ranking)}
      /\ ranking \in [1 .. Len(ranking) -> Video]
  BY StateTypes, LastRow, LenProperties DEF Boxes
<1>2. PICK n : n = Len(ranking)
  OBVIOUS
<1>3. n \in Nat /\ i \in 1 .. n /\ i + 1 \in 1 .. n /\ i # i + 1
  BY <1>1, <1>2
<1>4. PICK r : r = ranking'
  OBVIOUS
<1>5. r = [ranking EXCEPT ![i] = ranking[i + 1], ![i + 1] = ranking[i]]
  BY <1>4 DEF SwapRanks
<1>6. /\ r \in [1 .. n -> Video]
      /\ \A j \in 1 .. n : r[j] = IF j = i + 1 THEN ranking[i]
                                  ELSE IF j = i THEN ranking[i + 1] ELSE ranking[j]
  BY <1>1, <1>2, <1>3, <1>5
<1>7. r \in Seq(Video) /\ Len(r) = n
  BY <1>3, <1>6, FunctionIsSeq
<1>8. \A j, k \in 1 .. n : r[j] = r[k] => j = k
  BY <1>1, <1>2, <1>3, <1>6
<1>9. ToSet(r) \subseteq ToSet(ranking)
  <2>1. ToSet(r) = {r[j] : j \in 1 .. n}
    BY <1>7, LastRow
  <2>2. \A j \in 1 .. n : r[j] \in ToSet(ranking)
    BY <1>1, <1>2, <1>3, <1>6
  <2> QED
    BY <2>1, <2>2
<1> QED
  BY <1>2, <1>4, <1>7, <1>8, <1>9

(* What a change does to the data. *)
LEMMA ChangeTypes ==
  ASSUME Types, Boxes, NEW v \in Video, Change(v)
  PROVE  /\ videos' \subseteq Video /\ lastId' \in Nat /\ count' \in [Video -> Nat]
         /\ inbox' \subseteq Video /\ inboxCache' \subseteq inbox'
         /\ outbox' \subseteq outboxSoFar' /\ outboxSoFar' \subseteq Video
         /\ inbox \subseteq inbox' /\ outboxSoFar \subseteq outboxSoFar'
         /\ ranking' \in Seq(Video)
         /\ \A i, j \in 1 .. Len(ranking') : ranking'[i] = ranking'[j] => i = j
         /\ ToSet(ranking') \subseteq ToSet(ranking)
         /\ lastId <= lastId'
<1>1. /\ videos \subseteq Video /\ lastId \in Nat /\ count \in [Video -> Nat]
      /\ inbox \subseteq Video /\ inboxCache \subseteq inbox
      /\ outbox \subseteq outboxSoFar /\ outboxSoFar \subseteq Video
      /\ ranking \in Seq(Video) /\ v \in Nat
      /\ \A i, j \in 1 .. Len(ranking) : ranking[i] = ranking[j] => i = j
  BY StateTypes, Times DEF Boxes
<1>2. CASE Arrive(v)
  <2>1. /\ v > lastId /\ lastId' = v /\ videos' = videos \cup {v}
        /\ inbox' \in {inbox, inbox \cup {v}} /\ outbox' \in {outbox, outbox \cup {v}}
        /\ outboxSoFar' = outboxSoFar \cup outbox'
        /\ count' = count /\ ranking' = ranking
    BY <1>2 DEF Arrive
  <2>2. inboxCache' \subseteq inbox'
    BY <1>1, <1>2 DEF Arrive
  <2>3. lastId <= lastId' /\ lastId' \in Nat
    BY <1>1, <2>1
  <2>4. /\ videos' \subseteq Video /\ inbox' \subseteq Video /\ inbox \subseteq inbox'
        /\ outbox' \subseteq outboxSoFar' /\ outboxSoFar' \subseteq Video
        /\ outboxSoFar \subseteq outboxSoFar'
    BY <1>1, <2>1
  <2> QED
    BY <1>1, <2>1, <2>2, <2>3, <2>4
<1>3. CASE DeleteVideo(v)
  <2>1. /\ videos' = videos \ {v} /\ ranking' \in {ranking, Without(ranking, v)}
        /\ UNCHANGED <<lastId, count, inbox, inboxCache, outbox, outboxSoFar>>
    BY <1>3 DEF DeleteVideo
  <2>2. PICK r : r = Without(ranking, v)
    OBVIOUS
  <2>3. /\ r \in Seq(Video) /\ ToSet(r) = ToSet(ranking) \ {v}
        /\ \A i, j \in 1 .. Len(r) : r[i] = r[j] => i = j
    <3>1. PICK m : m = ranking
      OBVIOUS
    <3>2. m \in Seq(Video) /\ \A i, j \in 1 .. Len(m) : m[i] = m[j] => i = j
      BY <1>1, <3>1
    <3>3. /\ Without(m, v) \in Seq(Video) /\ ToSet(Without(m, v)) = ToSet(m) \ {v}
          /\ (\A i, j \in 1 .. Len(m) : m[i] = m[j] => i = j) =>
             (\A i, j \in 1 .. Len(Without(m, v)) :
                 Without(m, v)[i] = Without(m, v)[j] => i = j)
      BY <3>2, WithoutMember
    <3> QED
      BY <2>2, <3>1, <3>2, <3>3
  <2> QED
    BY <1>1, <2>1, <2>2, <2>3
<1>4. CASE Follow(v)
  BY <1>1, <1>4 DEF Follow
<1>5. CASE Unfollow(v)
  BY <1>1, <1>5 DEF Unfollow
<1>6. ASSUME NEW n \in Nat, count' = [count EXCEPT ![v] = n],
             UNCHANGED <<videos, lastId, inbox, inboxCache, outbox, outboxSoFar>>,
             \/ ranking' = ranking
             \/ \E i \in 1 .. Len(ranking) - 1 : SwapRanks(i)
      PROVE  /\ videos' \subseteq Video /\ lastId' \in Nat /\ count' \in [Video -> Nat]
             /\ inbox' \subseteq Video /\ inboxCache' \subseteq inbox'
             /\ outbox' \subseteq outboxSoFar' /\ outboxSoFar' \subseteq Video
             /\ inbox \subseteq inbox' /\ outboxSoFar \subseteq outboxSoFar'
             /\ ranking' \in Seq(Video)
             /\ \A i, j \in 1 .. Len(ranking') : ranking'[i] = ranking'[j] => i = j
             /\ ToSet(ranking') \subseteq ToSet(ranking)
             /\ lastId <= lastId'
  <2>1. count' \in [Video -> Nat]
    BY <1>1, <1>6
  <2>2. CASE ranking' = ranking
    BY <1>1, <1>6, <2>1, <2>2
  <2>3. CASE \E i \in 1 .. Len(ranking) - 1 : SwapRanks(i)
    <3>1. /\ ranking' \in Seq(Video)
          /\ \A i, j \in 1 .. Len(ranking') : ranking'[i] = ranking'[j] => i = j
          /\ ToSet(ranking') \subseteq ToSet(ranking)
      BY <2>3, SwappedRanks
    <3> QED
      BY <1>1, <1>6, <2>1, <3>1
  <2> QED
    BY <1>6, <2>2, <2>3
<1>7. CASE LikeVideo(v)
  <2>1. count[v] + 1 \in Nat
    BY <1>1
  <2>2. /\ count' = [count EXCEPT ![v] = count[v] + 1]
        /\ UNCHANGED <<videos, lastId, inbox, inboxCache, outbox, outboxSoFar>>
        /\ ranking' = ranking \/ \E i \in 1 .. Len(ranking) - 1 : SwapRanks(i)
    BY <1>7 DEF LikeVideo
  <2> QED
    BY <1>6, <2>1, <2>2
<1>8. CASE UnlikeVideo(v)
  <2>1. count[v] - 1 \in Nat
    BY <1>1, <1>8 DEF UnlikeVideo
  <2>2. /\ count' = [count EXCEPT ![v] = count[v] - 1]
        /\ UNCHANGED <<videos, lastId, inbox, inboxCache, outbox, outboxSoFar>>
        /\ ranking' = ranking \/ \E i \in 1 .. Len(ranking) - 1 : SwapRanks(i)
    BY <1>8 DEF UnlikeVideo
  <2> QED
    BY <1>6, <2>1, <2>2
<1>9. CASE Deliver(v)
  <2>1. /\ UNCHANGED <<videos, lastId, count, ranking>> /\ {v} \subseteq Video
        /\ \/ /\ inbox' = inbox \cup {v}
              /\ inboxCache' \in {inboxCache, inboxCache \cup {v}}
              /\ UNCHANGED <<outbox, outboxSoFar>>
           \/ /\ outbox' = outbox \cup {v}
              /\ outboxSoFar' = outboxSoFar \cup {v}
              /\ UNCHANGED <<inbox, inboxCache>>
    BY <1>9 DEF Deliver
  <2>2. /\ inbox' \subseteq Video /\ inboxCache' \subseteq inbox'
        /\ outbox' \subseteq outboxSoFar' /\ outboxSoFar' \subseteq Video
        /\ inbox \subseteq inbox' /\ outboxSoFar \subseteq outboxSoFar'
    BY <1>1, <2>1
  <2> QED
    BY <1>1, <2>1, <2>2
<1> QED
  BY <1>2, <1>3, <1>4, <1>5, <1>7, <1>8, <1>9 DEF Change

NoRepeats == \A i, j \in DOMAIN pages : i < j => ToSet(pages[i]) \cap ToSet(pages[j]) = {}

(* Two pages share nothing but videos of S. *)
RepeatsIn(S) ==
    \A i, j \in DOMAIN pages : i < j => ToSet(pages[i]) \cap ToSet(pages[j]) \subseteq S

(* The pages in a row, and what they hold. *)
Flat ==
    /\ FlattenSeq(pages) \in Seq(Video)
    /\ ToSet(FlattenSeq(pages)) = Returned

LEMMA AppendPage ==
  ASSUME pages \in Seq(Seq(Video)), NEW rows \in Seq(Video), pages' = Append(pages, rows)
  PROVE  /\ pages' \in Seq(Seq(Video)) /\ pages' # <<>>
         /\ Len(pages) \in Nat
         /\ DOMAIN pages = 1 .. Len(pages) /\ DOMAIN pages' = 1 .. Len(pages) + 1
         /\ \A i \in 1 .. Len(pages) : pages'[i] = pages[i]
         /\ pages'[Len(pages) + 1] = rows
         /\ Returned' = Returned \cup ToSet(rows)
         /\ Returned \cap ToSet(rows) = {} /\ NoRepeats => NoRepeats'
         /\ \A S : Returned \cap ToSet(rows) \subseteq S /\ RepeatsIn(S) =>
               \A i, j \in DOMAIN pages' :
                  i < j => ToSet(pages'[i]) \cap ToSet(pages'[j]) \subseteq S
<1>1. PICK p, q : p = pages /\ q = pages'
  OBVIOUS
<1>2. PICK n : n = Len(p)
  OBVIOUS
<1>3. /\ p \in Seq(Seq(Video)) /\ q = Append(p, rows)
  BY <1>1
<1>4. /\ n \in Nat /\ DOMAIN p = 1 .. n /\ q \in Seq(Seq(Video)) /\ q # <<>> /\ Len(q) = n + 1
      /\ \A i \in 1 .. n : q[i] = p[i]
      /\ q[n + 1] = rows
  BY <1>2, <1>3, LenProperties, AppendProperties
<1>5. DOMAIN q = 1 .. n + 1
  BY <1>4, LenProperties
<1>6. /\ Returned = UNION {ToSet(p[i]) : i \in 1 .. n}
      /\ Returned' = UNION {ToSet(q[i]) : i \in 1 .. n + 1}
  BY <1>1, <1>4, <1>5 DEF Returned
<1>7. \A i \in 1 .. n + 1 : i \in 1 .. n \/ i = n + 1
  BY <1>4
<1>8. (\A i \in 1 .. n : i \in 1 .. n + 1) /\ n + 1 \in 1 .. n + 1
  BY <1>4
<1>9. Returned' = Returned \cup ToSet(rows)
  <2>1. \A v \in Returned' : v \in Returned \cup ToSet(rows)
    BY <1>4, <1>6, <1>7
  <2>2. \A v \in Returned \cup ToSet(rows) : v \in Returned'
    BY <1>4, <1>6, <1>8
  <2> QED
    BY <2>1, <2>2
<1>10. ASSUME NEW S, Returned \cap ToSet(rows) \subseteq S, RepeatsIn(S)
       PROVE  \A i, j \in DOMAIN q : i < j => ToSet(q[i]) \cap ToSet(q[j]) \subseteq S
  <2>1. \A i, j \in 1 .. n : i < j => ToSet(p[i]) \cap ToSet(p[j]) \subseteq S
    BY <1>1, <1>4, <1>10 DEF RepeatsIn
  <2>2. \A i \in 1 .. n : ToSet(p[i]) \cap ToSet(rows) \subseteq S
    BY <1>6, <1>10
  <2>3. ASSUME NEW i \in 1 .. n + 1, NEW j \in 1 .. n + 1, i < j
        PROVE  ToSet(q[i]) \cap ToSet(q[j]) \subseteq S
    <3>1. i \in 1 .. n
      BY <1>4, <2>3
    <3>2. CASE j \in 1 .. n
      BY <1>4, <2>1, <2>3, <3>1, <3>2
    <3>3. CASE j = n + 1
      BY <1>4, <2>2, <3>1, <3>3
    <3> QED
      BY <1>7, <3>2, <3>3
  <2> QED
    BY <1>5, <2>3
<1>11. ASSUME Returned \cap ToSet(rows) = {}, NoRepeats
       PROVE  NoRepeats'
  <2>1. RepeatsIn({})
    BY <1>11 DEF NoRepeats, RepeatsIn
  <2>2. \A i, j \in DOMAIN q : i < j => ToSet(q[i]) \cap ToSet(q[j]) \subseteq {}
    BY <1>10, <1>11, <2>1
  <2>3. \A i, j \in DOMAIN q : i < j => ToSet(q[i]) \cap ToSet(q[j]) = {}
    BY <2>2
  <2> QED
    BY <1>1, <2>3 DEF NoRepeats
<1>12. /\ pages' \in Seq(Seq(Video)) /\ pages' # <<>>
       /\ Len(pages) \in Nat
       /\ DOMAIN pages = 1 .. Len(pages) /\ DOMAIN pages' = 1 .. Len(pages) + 1
       /\ \A i \in 1 .. Len(pages) : pages'[i] = pages[i]
       /\ pages'[Len(pages) + 1] = rows
  BY <1>1, <1>2, <1>4, <1>5
<1>13. \A S : Returned \cap ToSet(rows) \subseteq S /\ RepeatsIn(S) =>
          \A i, j \in DOMAIN pages' :
             i < j => ToSet(pages'[i]) \cap ToSet(pages'[j]) \subseteq S
  BY <1>1, <1>10
<1> QED
  BY <1>9, <1>11, <1>12, <1>13

LEMMA AppendFlat ==
  ASSUME Types, Flat, NEW rows \in Seq(Video), pages' = Append(pages, rows)
  PROVE  Flat' /\ FlattenSeq(pages') = FlattenSeq(pages) \o rows
<1>1. PICK p, q, all : p = pages /\ q = pages' /\ all = FlattenSeq(pages)
  OBVIOUS
<1>2. p \in Seq(Seq(Video)) /\ q = Append(p, rows) /\ all \in Seq(Video)
      /\ all = FlattenSeq(p) /\ ToSet(all) = Returned
  BY <1>1, StateTypes DEF Flat
<1>3. FlattenSeq(q) = all \o rows
  BY <1>2, FlattenOne
<1>4. /\ all \o rows \in Seq(Video) /\ Len(all \o rows) = Len(all) + Len(rows)
      /\ \A i \in 1 .. Len(all) + Len(rows) :
            (all \o rows)[i] = IF i <= Len(all) THEN all[i] ELSE rows[i - Len(all)]
  BY <1>2, ConcatProperties
<1>5. Returned' = Returned \cup ToSet(rows)
  BY AppendPage, StateTypes
<1>6. /\ Len(all) \in Nat /\ Len(rows) \in Nat
      /\ ToSet(all) = {all[i] : i \in 1 .. Len(all)}
      /\ ToSet(rows) = {rows[i] : i \in 1 .. Len(rows)}
      /\ ToSet(all \o rows) = {(all \o rows)[i] : i \in 1 .. Len(all) + Len(rows)}
  <2>1. PICK c : c = all \o rows
    OBVIOUS
  <2>2. c \in Seq(Video) /\ Len(c) = Len(all) + Len(rows)
    BY <1>4, <2>1
  <2>3. ToSet(c) = {c[i] : i \in 1 .. Len(c)}
    BY <2>2, LastRow
  <2>4. Len(all) \in Nat /\ ToSet(all) = {all[i] : i \in 1 .. Len(all)}
    <3>1. all \in Seq(Video)
      BY <1>2
    <3> QED
      BY <3>1, LastRow
  <2>5. Len(rows) \in Nat /\ ToSet(rows) = {rows[i] : i \in 1 .. Len(rows)}
    BY LastRow
  <2> QED
    BY <2>1, <2>2, <2>3, <2>4, <2>5
<1>7. ToSet(all \o rows) = ToSet(all) \cup ToSet(rows)
  <2>1. PICK m, n, c : m = Len(all) /\ n = Len(rows) /\ c = all \o rows
    OBVIOUS
  <2>2. /\ m \in Nat /\ n \in Nat
        /\ \A i \in 1 .. m + n : c[i] = IF i <= m THEN all[i] ELSE rows[i - m]
    BY <1>4, <1>6, <2>1
  <2>3. \A i \in 1 .. m : i \in 1 .. m + n /\ c[i] = all[i]
    BY <2>2
  <2>4. \A i \in 1 .. n : i + m \in 1 .. m + n /\ c[i + m] = rows[i]
    <3> SUFFICES ASSUME NEW i \in 1 .. n PROVE i + m \in 1 .. m + n /\ c[i + m] = rows[i]
      OBVIOUS
    <3>1. i + m \in 1 .. m + n /\ ~(i + m <= m) /\ (i + m) - m = i
      BY <2>2
    <3> QED
      BY <2>2, <3>1
  <2>5. \A i \in 1 .. m + n : \/ i \in 1 .. m /\ c[i] = all[i]
                              \/ i - m \in 1 .. n /\ c[i] = rows[i - m]
    BY <2>2
  <2>6. /\ ToSet(all) = {all[i] : i \in 1 .. m} /\ ToSet(rows) = {rows[i] : i \in 1 .. n}
        /\ ToSet(c) = {c[i] : i \in 1 .. m + n}
    BY <1>6, <2>1
  <2>7. ToSet(c) = ToSet(all) \cup ToSet(rows)
    <3>1. \A x \in ToSet(c) : x \in ToSet(all) \cup ToSet(rows)
      BY <2>5, <2>6
    <3>2. \A x \in ToSet(all) : x \in ToSet(c)
      BY <2>3, <2>6
    <3>3. \A x \in ToSet(rows) : x \in ToSet(c)
      BY <2>4, <2>6
    <3> QED
      BY <3>1, <3>2, <3>3
  <2> QED
    BY <2>1, <2>7
<1> QED
  BY <1>1, <1>2, <1>3, <1>4, <1>5, <1>7 DEF Flat

LEMMA QuietPages ==
  ASSUME pages' = pages
  PROVE  /\ Returned' = Returned
         /\ NoRepeats => NoRepeats'
         /\ Flat => Flat'
  BY DEF Returned, NoRepeats, Flat

Basic == Types /\ Boxes /\ Flat

LEMMA BasicInit ==
  ASSUME Init
  PROVE  Basic
<1>1. pages = <<>> /\ listCache = {} /\ sources = {} /\ cursor = NoCursor /\ changes = <<>>
      /\ hasMore = TRUE /\ start = videos
  BY DEF Init
<1>2. /\ kind \in Kind /\ videos \subseteq Video /\ count \in [Video -> Nat]
      /\ inbox \subseteq Video /\ inboxCache \subseteq inbox
      /\ outbox \subseteq outboxSoFar /\ outboxSoFar \subseteq Video /\ outboxSoFar = outbox
  <2>1. Counts \subseteq Nat
    BY PagingAssumption DEF PagingAssumption
  <2>2. count \in [Video -> Nat]
    <3>1. PICK found : found = IF kind \in ByPopularity \cup {"order_by_likes", "listLikesCount"}
                               THEN Counts ELSE {0}
      OBVIOUS
    <3>2. found \subseteq Nat
      BY <2>1, <3>1
    <3>3. count \in [Video -> found]
      BY <3>1 DEF Init
    <3> QED
      BY <3>2, <3>3
  <2>3. inbox \subseteq Video
    BY DEF Init
  <2>4. outboxSoFar = outbox /\ outbox \subseteq Video
    <3>1. CASE kind = "followings"
      BY <3>1 DEF Init
    <3>2. CASE kind = "listByFollowing"
      BY <3>2 DEF Init
    <3>3. CASE kind # "followings" /\ kind # "listByFollowing"
      BY <3>3 DEF Init
    <3> QED
      BY <3>1, <3>2, <3>3
  <2> QED
    BY <2>2, <2>3, <2>4 DEF Init
<1>3. ranking \in Seq(Video) /\ \A i, j \in 1 .. Len(ranking) : ranking[i] = ranking[j] => i = j
  <2>1. CASE ranking \in Rankings
    <3>1. ranking \in Seq(Video)
          /\ \A i, j \in DOMAIN ranking : ranking[i] = ranking[j] => i = j
      BY <2>1, PagingAssumption DEF PagingAssumption
    <3> QED
      BY <3>1, LenProperties
  <2>2. CASE ranking = <<>>
    BY <2>2
  <2> QED
    BY <2>1, <2>2 DEF Init
<1>4. /\ lastId \in Nat
      /\ \A v \in videos \cup inbox \cup outboxSoFar \cup start \cup ToSet(ranking) : v <= lastId
  <2>1. ToSet(ranking) \subseteq Video
    BY <1>3, LastRow
  <2>2. PICK given : given = videos \cup inbox \cup outbox \cup ToSet(ranking)
    OBVIOUS
  <2>3. lastId \in given \cup {0} /\ \A v \in given : v <= lastId
    BY <2>2 DEF Init
  <2>4. given \subseteq Nat
    BY <1>2, <2>1, <2>2, Times
  <2> QED
    BY <1>1, <1>2, <2>2, <2>3, <2>4
<1>5. kind # "followings" => inbox = {}
  BY DEF Init
<1>6. ~ByFollowing => outbox = {}
  BY DEF Init, ByFollowing
<1>7. Boxes
  BY <1>1, <1>2, <1>3, <1>4, <1>5, <1>6 DEF Boxes
<1>8. pages \in Seq(Seq(Video)) /\ DOMAIN pages = {}
  BY <1>1
<1>9. TypeOK
  <2>1. cursor \in Cursor
    BY <1>1, NoCursorType
  <2>2. changes \in Seq({"arrival", "delivery", "deletion", "follow", "unfollow",
                          "like", "unlike"})
    BY <1>1
  <2> QED
    BY <1>1, <1>2, <1>3, <1>4, <1>8, <2>1, <2>2 DEF TypeOK
<1>10. Types
  BY <1>1, <1>8, <1>9 DEF Types
<1>11. Flat
  <2>1. FlattenSeq(pages) = <<>>
    BY <1>1, FlattenNone
  <2>2. Returned = {}
    BY <1>8 DEF Returned
  <2>3. <<>> \in Seq(Video) /\ ToSet(<<>>) = {}
    BY DEF ToSet
  <2> QED
    BY <2>1, <2>2, <2>3 DEF Flat
<1> QED
  BY <1>7, <1>10, <1>11 DEF Basic

LEMMA CacheTypes ==
  ASSUME Types, NEW before \in Nat, NEW rows \in Seq(Video), Len(rows) <= Limit
  PROVE  \A page \in WithCached(before, rows) :
            page.before \in Nat /\ page.rows \in Seq(Video) /\ Len(page.rows) <= Limit
  BY StateTypes DEF WithCached

LEMMA BasicPage ==
  ASSUME Basic, PageTurn
  PROVE  Basic'
<1>0. Types /\ Boxes /\ Flat
  BY DEF Basic
<1>1. PICK rows, source, next : PageOf(rows, source, next)
  BY <1>0, PageTypes
<1>2. /\ pages' = Append(pages, rows) /\ cursor' = next /\ hasMore' = (Len(rows) = Limit)
      /\ sources' = sources \cup {source}
      /\ UNCHANGED <<kind, dataVars, start, changes>>
      /\ rows \in Seq(Video) /\ Len(rows) <= Limit /\ source \in Source /\ next \in Cursor
      /\ listCache' \in {listCache, WithCached(cursor.score, rows)}
  BY <1>1 DEF PageOf, Turn
<1>3. /\ pages \in Seq(Seq(Video)) /\ sources \subseteq Source /\ cursor.score \in Nat
  BY <1>0, StateTypes
<1>4. /\ pages' \in Seq(Seq(Video)) /\ pages' # <<>> /\ Len(pages) \in Nat
      /\ DOMAIN pages = 1 .. Len(pages) /\ DOMAIN pages' = 1 .. Len(pages) + 1
      /\ \A i \in 1 .. Len(pages) : pages'[i] = pages[i]
      /\ pages'[Len(pages) + 1] = rows
  BY <1>2, <1>3, AppendPage
<1>5. Flat'
  BY <1>0, <1>2, AppendFlat
<1>6. Boxes'
  BY <1>0, <1>2 DEF Boxes, ByFollowing, dataVars
<1>7. \A i \in DOMAIN pages' : pages'[i] \in Seq(Video) /\ Len(pages'[i]) <= Limit
  <2>1. \A i \in DOMAIN pages : pages[i] \in Seq(Video) /\ Len(pages[i]) <= Limit
    BY <1>0 DEF Types, TypeOK
  <2>2. \A i \in 1 .. Len(pages) + 1 : i \in 1 .. Len(pages) \/ i = Len(pages) + 1
    BY <1>4
  <2> QED
    BY <1>2, <1>4, <2>1, <2>2
<1>8. \A page \in listCache' :
         page.before \in Nat /\ page.rows \in Seq(Video) /\ Len(page.rows) <= Limit
  BY <1>0, <1>2, <1>3, StateTypes, CacheTypes
<1>9. hasMore' \in BOOLEAN /\ sources' \subseteq Source /\ sources' # {}
  BY <1>2, <1>3
<1>10. TypeOK'
  <2>1. /\ kind' \in Kind /\ videos' \subseteq Video /\ lastId' \in Nat /\ count' \in [Video -> Nat]
        /\ inbox' \subseteq Video /\ inboxCache' \subseteq inbox'
        /\ outbox' \subseteq outboxSoFar' /\ outboxSoFar' \subseteq Video
        /\ ranking' \in Seq(Video) /\ start' \subseteq Video
        /\ changes' \in Seq(Changes)
    BY <1>0, <1>2, StateTypes DEF dataVars
  <2> QED
    BY <1>2, <1>7, <1>8, <1>9, <2>1 DEF TypeOK, Changes
<1>11. Types'
  BY <1>4, <1>8, <1>9, <1>10 DEF Types
<1> QED
  BY <1>5, <1>6, <1>11 DEF Basic

LEMMA BoxesChange ==
  ASSUME Types, Boxes, NEW v \in Video, Change(v)
  PROVE  Boxes'
<1>1. /\ \A i, j \in 1 .. Len(ranking') : ranking'[i] = ranking'[j] => i = j
      /\ ToSet(ranking') \subseteq ToSet(ranking) /\ lastId <= lastId'
      /\ lastId \in Nat /\ lastId' \in Nat /\ v \in Nat
  BY ChangeTypes, StateTypes, Times
<1>2. kind' = kind /\ start' = start /\ start \subseteq Video
  BY ChangeParts, StateTypes
<1>3. ASSUME NEW u, u \in videos' \cup inbox' \cup outboxSoFar'
      PROVE  u \in videos \cup inbox \cup outboxSoFar \/ (u = v /\ v <= lastId')
  <2>1. CASE Arrive(v)
    <3>1. /\ lastId' = v /\ videos' = videos \cup {v} /\ inbox' \in {inbox, inbox \cup {v}}
          /\ outbox' \in {outbox, outbox \cup {v}} /\ outboxSoFar' = outboxSoFar \cup outbox'
      BY <2>1 DEF Arrive
    <3>2. outbox \subseteq outboxSoFar
      BY StateTypes
    <3> QED
      BY <1>1, <1>3, <3>1, <3>2
  <2>2. CASE Deliver(v)
    BY <1>1, <1>3, <2>2 DEF Deliver
  <2>3. CASE DeleteVideo(v)
    BY <1>3, <2>3 DEF DeleteVideo
  <2>4. CASE Follow(v)
    BY <1>1, <1>3, <2>4 DEF Follow
  <2>5. CASE Unfollow(v) \/ LikeVideo(v) \/ UnlikeVideo(v)
    BY <1>3, <2>5 DEF Unfollow, LikeVideo, UnlikeVideo
  <2> QED
    BY <2>1, <2>2, <2>3, <2>4, <2>5 DEF Change
<1>4. /\ kind # "followings" => inbox' = inbox
      /\ ~ByFollowing => outbox' = outbox
  BY DEF Change, Arrive, Deliver, DeleteVideo, Follow, Unfollow, LikeVideo, UnlikeVideo,
         ByFollowing
<1>5. \A u \in videos \cup inbox \cup outboxSoFar \cup start \cup ToSet(ranking) :
         u <= lastId /\ u \in Nat
  BY StateTypes, LastRow, Times DEF Boxes
<1>6. \A u \in videos' \cup inbox' \cup outboxSoFar' \cup start' \cup ToSet(ranking') : u <= lastId'
  BY <1>1, <1>2, <1>3, <1>5
<1> QED
  BY <1>1, <1>2, <1>4, <1>6 DEF Boxes, ByFollowing

LEMMA BasicChange ==
  ASSUME Basic, NEW v \in Video, Change(v)
  PROVE  Basic'
<1>0. Types /\ Boxes /\ Flat
  BY DEF Basic
<1>1. /\ UNCHANGED <<kind, listCache, cursor, pages, hasMore, sources, start>>
      /\ \E what \in Changes : changes' = Append(changes, what)
  BY ChangeParts
<1>2. Boxes' /\ Flat'
  BY <1>0, <1>1, BoxesChange, QuietPages
<1>3. changes' \in Seq({"arrival", "delivery", "deletion", "follow", "unfollow", "like", "unlike"})
  BY <1>0, <1>1, StateTypes, AppendProperties DEF Changes
<1>4. TypeOK'
  <2>1. /\ videos' \subseteq Video /\ lastId' \in Nat /\ count' \in [Video -> Nat]
        /\ inbox' \subseteq Video /\ inboxCache' \subseteq inbox'
        /\ outbox' \subseteq outboxSoFar' /\ outboxSoFar' \subseteq Video
        /\ ranking' \in Seq(Video)
    BY <1>0, ChangeTypes
  <2>2. TypeOK
    BY <1>0 DEF Types
  <2> QED
    BY <1>1, <1>3, <2>1, <2>2 DEF TypeOK
<1>5. Types'
  BY <1>0, <1>1, <1>4 DEF Types
<1> QED
  BY <1>2, <1>5 DEF Basic

LEMMA BasicCache ==
  ASSUME Basic, NEW before \in {0} \cup {Unix(CreateTime[v]) : v \in Video}, CacheTimeline(before)
  PROVE  Basic'
<1>0. Types /\ Boxes /\ Flat
  BY DEF Basic
<1>1. /\ UNCHANGED <<kind, dataVars, cursor, pages, hasMore, sources, start, changes>>
      /\ listCache' = WithCached(before, TimelineRows(before))
  BY DEF CacheTimeline
<1>2. before \in Nat
  BY Times, UnixType
<1>3. TimelineRows(before) \in Seq(Video) /\ Len(TimelineRows(before)) <= Limit
  <2>1. BeforeSecond(TimelineSet, before) \in SUBSET Video
    BY <1>0, StateTypes DEF BeforeSecond, TimelineSet
  <2> QED
    BY <1>0, <2>1, TimeTops, TopType
<1>4. \A page \in listCache' :
         page.before \in Nat /\ page.rows \in Seq(Video) /\ Len(page.rows) <= Limit
  BY <1>0, <1>1, <1>2, <1>3, CacheTypes
<1>5. Boxes' /\ Flat'
  BY <1>0, <1>1, QuietPages DEF Boxes, ByFollowing, dataVars
<1>6. TypeOK'
  BY <1>0, <1>1, <1>4 DEF Types, TypeOK, dataVars
<1>7. Types'
  BY <1>0, <1>1, <1>4, <1>6 DEF Types
<1> QED
  BY <1>5, <1>7 DEF Basic

LEMMA BasicStep ==
  ASSUME Basic, [Next]_vars
  PROVE  Basic'
<1>1. CASE UNCHANGED vars
  <2>1. pages' = pages
    BY <1>1 DEF vars
  <2>2. Types' /\ Boxes'
    BY <1>1 DEF Basic, Types, TypeOK, Boxes, ByFollowing, vars, dataVars
  <2> QED
    BY <2>1, <2>2, QuietPages DEF Basic
<1> QED
  BY <1>1, Steps, BasicPage, BasicChange, BasicCache

(* The lists of a session keep their types, a page never has more rows than *)
(* the limit, and the sorted set of an inbox holds entries of the inbox.    *)
THEOREM SessionTypeCorrect == Spec => []TypeOK
<1>1. Init => Basic
  BY BasicInit
<1>2. Basic /\ [Next]_vars => Basic'
  BY BasicStep
<1>3. Basic => TypeOK
  BY DEF Basic, Types
<1> QED
  BY <1>1, <1>2, <1>3, PTL DEF Spec

-----------------------------------------------------------------------------
(* Cursors and pages *)

LEMMA TurnOfKind ==
  ASSUME PageTurn
  PROVE  /\ WholeSeconds => \E rows : LatestTurn(rows) \/ TimelineTurn(rows)
         /\ kind = "followings" => \E source, entries, posts : BoxTurn(source, entries, posts)
         /\ ByLikes => \E rows : LikesTurn(rows)
         /\ kind = "order_by_popularity" => \E rows : StoredTurn(rows) \/ RankedTurn(rows)
         /\ kind \in {"listByPopularity", "hotView"} =>
               \E rows : HotStoredTurn(rows) \/ HotRankedTurn(rows)
<1> DEFINE Time == kind = "latest" \/ kind = "listLatest" \/ kind = "listByFollowing"
           Count == kind = "order_by_likes" \/ kind = "listLikesCount"
           Hot == kind = "listByPopularity" \/ kind = "hotView"
<1>1. /\ WholeSeconds <=> Time
      /\ ByLikes <=> Count
      /\ kind \in {"listByPopularity", "hotView"} <=> Hot
  BY DEF WholeSeconds, Cached, ByLikes
<1>2. /\ \A rows : LatestTurn(rows) => kind = "latest"
      /\ \A rows : TimelineTurn(rows) => kind = "listLatest" \/ kind = "listByFollowing"
      /\ \A source, entries, posts : BoxTurn(source, entries, posts) => kind = "followings"
      /\ \A rows : LikesTurn(rows) => Count
      /\ \A rows : StoredTurn(rows) => kind = "order_by_popularity"
      /\ \A rows : RankedTurn(rows) => kind = "order_by_popularity"
      /\ \A rows : HotStoredTurn(rows) => Hot
      /\ \A rows : HotRankedTurn(rows) => Hot
  BY DEF LatestTurn, TimelineTurn, BoxTurn, LikesTurn, StoredTurn, RankedTurn,
         HotStoredTurn, HotRankedTurn, Cached, ByLikes
<1>3. CASE \E rows : LatestTurn(rows)
  BY <1>1, <1>2, <1>3
<1>4. CASE \E source, entries, posts : BoxTurn(source, entries, posts)
  BY <1>1, <1>2, <1>4
<1>5. CASE \E rows : LikesTurn(rows)
  BY <1>1, <1>2, <1>5
<1>6. CASE \E rows : StoredTurn(rows)
  BY <1>1, <1>2, <1>6
<1>7. CASE \E rows : RankedTurn(rows)
  BY <1>1, <1>2, <1>7
<1>8. CASE \E rows : HotStoredTurn(rows)
  BY <1>1, <1>2, <1>8
<1>9. CASE \E rows : HotRankedTurn(rows)
  BY <1>1, <1>2, <1>9
<1>10. CASE \E rows : TimelineTurn(rows)
  BY <1>1, <1>2, <1>10
<1> QED
  BY <1>3, <1>4, <1>5, <1>6, <1>7, <1>8, <1>9, <1>10 DEF PageTurn

(* What a turn leaves as it is. *)
LEMMA TurnKeeps ==
  ASSUME NEW rows, NEW source, NEW next, Turn(rows, source, next)
  PROVE  /\ kind' = kind /\ videos' = videos /\ lastId' = lastId /\ count' = count
         /\ inbox' = inbox /\ inboxCache' = inboxCache /\ outbox' = outbox
         /\ outboxSoFar' = outboxSoFar
         /\ ranking' = ranking /\ start' = start /\ changes' = changes
         /\ pages' = Append(pages, rows) /\ cursor' = next
         /\ hasMore /\ hasMore' = (Len(rows) = Limit)
         /\ sources' = sources \cup {source}
         /\ \A what : Happened(what)' <=> Happened(what)
         /\ Static' <=> Static
  BY DEF Turn, dataVars, Happened, Static

LEMMA ChangeKeeps ==
  ASSUME Basic, NEW v \in Video, Change(v)
  PROVE  /\ hasMore /\ hasMore' = hasMore
         /\ kind' = kind /\ listCache' = listCache /\ cursor' = cursor /\ pages' = pages
         /\ sources' = sources /\ start' = start
         /\ Returned' = Returned /\ FlattenSeq(pages)' = FlattenSeq(pages)
         /\ NoRepeats => NoRepeats'
         /\ \A what : Happened(what) => Happened(what)'
         /\ ~Static'
<1>1. /\ hasMore
      /\ UNCHANGED <<kind, listCache, cursor, pages, hasMore, sources, start>>
      /\ \E what \in Changes : changes' = Append(changes, what)
  BY ChangeParts
<1>2. PICK done \in Changes : changes' = Append(changes, done)
  BY <1>1
<1>3. changes \in Seq(Changes)
  BY StateTypes DEF Basic
<1>4. /\ changes' # <<>> /\ changes' \in Seq(Changes) /\ Len(changes') = Len(changes) + 1
      /\ Len(changes) \in Nat
      /\ \A i \in 1 .. Len(changes) : changes'[i] = changes[i]
      /\ DOMAIN changes = 1 .. Len(changes) /\ DOMAIN changes' = 1 .. Len(changes')
  BY <1>2, <1>3, AppendProperties, LenProperties
<1>5. \A what : Happened(what) => Happened(what)'
  <2>1. \A i \in DOMAIN changes : i \in DOMAIN changes' /\ changes'[i] = changes[i]
    BY <1>4
  <2> QED
    BY <2>1 DEF Happened
<1> QED
  BY <1>1, <1>4, <1>5, QuietPages DEF Static

LEMMA CacheKeeps ==
  ASSUME NEW before, CacheTimeline(before)
  PROVE  /\ kind \in Cached
         /\ kind' = kind /\ videos' = videos /\ lastId' = lastId /\ count' = count
         /\ inbox' = inbox /\ inboxCache' = inboxCache /\ outbox' = outbox
         /\ outboxSoFar' = outboxSoFar
         /\ ranking' = ranking /\ start' = start /\ changes' = changes
         /\ pages' = pages /\ cursor' = cursor /\ hasMore' = hasMore /\ sources' = sources
         /\ listCache' = WithCached(before, TimelineRows(before))
         /\ Returned' = Returned /\ FlattenSeq(pages)' = FlattenSeq(pages)
         /\ NoRepeats => NoRepeats'
         /\ Static' <=> Static
  BY QuietPages DEF CacheTimeline, dataVars, Static


LEMMA AppendOrder ==
  ASSUME NEW S, NEW a \in Seq(S), NEW b \in Seq(S), NEW R, InOrder(a, R), InOrder(b, R),
         \A u \in ToSet(a), v \in ToSet(b) : <<u, v>> \in R
  PROVE  InOrder(a \o b, R)
<1>1. PICK m, n, c : m = Len(a) /\ n = Len(b) /\ c = a \o b
  OBVIOUS
<1>2. /\ m \in Nat /\ n \in Nat
      /\ ToSet(a) = {a[i] : i \in 1 .. m} /\ ToSet(b) = {b[i] : i \in 1 .. n}
  BY <1>1, LastRow
<1>3. Len(c) = m + n /\ \A i \in 1 .. m + n : c[i] = IF i <= m THEN a[i] ELSE b[i - m]
  BY <1>1, ConcatProperties
<1>4. ASSUME NEW i \in 1 .. m + n, NEW j \in 1 .. m + n, i < j
      PROVE  <<c[i], c[j]>> \in R
  <2>1. CASE j <= m
    <3>1. i \in 1 .. m /\ j \in 1 .. m /\ c[i] = a[i] /\ c[j] = a[j]
      BY <1>2, <1>3, <1>4, <2>1
    <3> QED
      BY <1>1, <1>4, <3>1 DEF InOrder
  <2>2. CASE i <= m /\ ~(j <= m)
    <3>1. i \in 1 .. m /\ j - m \in 1 .. n /\ c[i] = a[i] /\ c[j] = b[j - m]
      BY <1>2, <1>3, <1>4, <2>2
    <3> QED
      BY <1>2, <3>1
  <2>3. CASE ~(i <= m) /\ ~(j <= m)
    <3>1. /\ i - m \in 1 .. n /\ j - m \in 1 .. n /\ i - m < j - m
          /\ c[i] = b[i - m] /\ c[j] = b[j - m]
      BY <1>2, <1>3, <1>4, <2>3
    <3>2. PICK x, y : x = i - m /\ y = j - m
      OBVIOUS
    <3>3. <<b[x], b[y]>> \in R
      BY <1>1, <3>1, <3>2 DEF InOrder
    <3> QED
      BY <3>1, <3>2, <3>3
  <2>4. (j <= m) \/ (i <= m /\ ~(j <= m)) \/ (~(i <= m) /\ ~(j <= m))
    BY <1>2, <1>4
  <2> QED
    BY <2>1, <2>2, <2>3, <2>4
<1> QED
  BY <1>1, <1>3, <1>4 DEF InOrder

LEMMA TopInOrder ==
  ASSUME NEW S, NEW rows, NEW R, IsTop(rows, S, R)
  PROVE  InOrder(rows, R) /\ rows \in Seq(S) /\ ToSet(rows) \subseteq S
<1>1. rows \in Seq(S)
  BY DEF IsTop
<1> QED
  BY <1>1, LastRow DEF IsTop, InOrder

-----------------------------------------------------------------------------
(* The lists whose cursor is a whole second *)

ShownByTime(v) == cursor.score # 0 /\ CreateTime[v] >= cursor.score * 1000

TimeRows(rows, before) ==
    /\ InOrder(rows, TimeOrder)
    /\ before # 0 => \A v \in ToSet(rows) : CreateTime[v] < before * 1000

TimeInv == WholeSeconds =>
    /\ NoRepeats
    /\ InOrder(FlattenSeq(pages), TimeOrder)
    /\ \A page \in listCache : TimeRows(page.rows, page.before)
    /\ hasMore => \A v \in Returned : ShownByTime(v)

LEMMA TopTimeRows ==
  ASSUME NEW S, NEW before, NEW rows, IsTop(rows, BeforeSecond(S, before), TimeOrder)
  PROVE  TimeRows(rows, before)
  BY TopInOrder DEF TimeRows, BeforeSecond

(* A page of a list by time, whoever made it. *)
LEMMA TimePage ==
  ASSUME Basic, TimeInv, WholeSeconds, hasMore,
         NEW rows \in Seq(Video), TimeRows(rows, cursor.score),
         pages' = Append(pages, rows),
         hasMore' => rows # <<>> /\ cursor'.score = Unix(CreateTime[Last(rows)])
  PROVE  /\ NoRepeats'
         /\ InOrder(FlattenSeq(pages'), TimeOrder)
         /\ hasMore' => \A v \in Returned' : ShownByTime(v)'
<1>1. /\ NoRepeats /\ InOrder(FlattenSeq(pages), TimeOrder)
      /\ \A v \in Returned : cursor.score # 0 /\ CreateTime[v] >= cursor.score * 1000
  BY DEF TimeInv, ShownByTime
<1>2. /\ cursor.score \in Nat /\ pages \in Seq(Seq(Video)) /\ Flat /\ Types
      /\ ToSet(rows) \subseteq Video
  BY StateTypes, LastRow DEF Basic
<1>3. Returned \subseteq Video /\ FlattenSeq(pages) \in Seq(Video)
  BY <1>2, LastRow DEF Flat
<1>4. \A u \in Returned, v \in ToSet(rows) : CreateTime[u] > CreateTime[v]
  <2> SUFFICES ASSUME NEW u \in Returned, NEW v \in ToSet(rows)
               PROVE  CreateTime[u] > CreateTime[v]
    OBVIOUS
  <2>1. CreateTime[u] \in Nat /\ CreateTime[v] \in Nat
    BY <1>2, <1>3, Times
  <2>2. CreateTime[u] >= cursor.score * 1000 /\ CreateTime[v] < cursor.score * 1000
    BY <1>1 DEF TimeRows
  <2>3. cursor.score * 1000 \in Nat
    BY <1>2
  <2> QED
    BY <2>1, <2>2, <2>3
<1>5. \A v \in Video : CreateTime[v] \in Nat /\ CreateTime[v] >= 1000
  BY Times, PagingAssumption DEF PagingAssumption
<1>6. Returned \cap ToSet(rows) = {}
  <2> SUFFICES ASSUME NEW u \in Returned, u \in ToSet(rows) PROVE FALSE
    OBVIOUS
  <2>1. CreateTime[u] > CreateTime[u] /\ CreateTime[u] \in Nat
    BY <1>3, <1>4, <1>5
  <2> QED
    BY <2>1
<1>7. NoRepeats' /\ Returned' = Returned \cup ToSet(rows)
  BY <1>1, <1>2, <1>6, AppendPage
<1>8. InOrder(FlattenSeq(pages'), TimeOrder)
  <2>1. FlattenSeq(pages') = FlattenSeq(pages) \o rows /\ ToSet(FlattenSeq(pages)) = Returned
    BY <1>2, AppendFlat DEF Flat
  <2>2. \A u \in Returned, v \in ToSet(rows) : <<u, v>> \in TimeOrder
    BY <1>2, <1>3, <1>4 DEF TimeOrder, Newer
  <2>3. InOrder(rows, TimeOrder)
    BY DEF TimeRows
  <2>4. PICK a : a = FlattenSeq(pages)
    OBVIOUS
  <2>5. a \in Seq(Video) /\ InOrder(a, TimeOrder)
        /\ \A u \in ToSet(a), v \in ToSet(rows) : <<u, v>> \in TimeOrder
    BY <1>1, <1>3, <2>1, <2>2, <2>4
  <2>6. InOrder(a \o rows, TimeOrder)
    BY <2>3, <2>5, AppendOrder
  <2> QED
    BY <2>1, <2>4, <2>6
<1>9. ASSUME hasMore', NEW v \in Returned'
      PROVE  ShownByTime(v)'
  <2>1. PICK l : l = Last(rows)
    OBVIOUS
  <2>2. /\ l \in ToSet(rows) /\ l \in Video /\ CreateTime[l] \in Nat /\ CreateTime[l] >= 1000
        /\ cursor'.score = Unix(CreateTime[l])
    BY <1>5, <1>9, <2>1, LastRow
  <2>3. /\ cursor'.score \in Nat /\ cursor'.score # 0
        /\ cursor'.score * 1000 <= CreateTime[l] /\ cursor'.score * 1000 \in Nat
    <3>1. PICK t \in Nat : t = CreateTime[l] /\ t >= 1000
      BY <2>2
    <3>2. Unix(t) \in Nat /\ Unix(t) # 0 /\ Unix(t) * 1000 \in Nat /\ Unix(t) * 1000 <= t
      <4>1. Unix(t) \in Nat
        BY UnixType
      <4>2. Unix(t) # 0
        BY <3>1, UnixPositive
      <4>3. Unix(t) * 1000 \in Nat /\ Unix(t) * 1000 <= t
        BY DEF Unix
      <4> QED
        BY <4>1, <4>2, <4>3
    <3> QED
      BY <2>2, <3>1, <3>2
  <2>4. CreateTime[v] >= CreateTime[l] /\ CreateTime[v] \in Nat
    <3>1. CASE v \in Returned
      BY <1>3, <1>4, <1>5, <2>2, <3>1
    <3>2. CASE v \in ToSet(rows)
      <4>1. PICK n : n = Len(rows)
        OBVIOUS
      <4>2. /\ n \in Nat /\ n # 0 /\ ToSet(rows) = {rows[i] : i \in 1 .. n} /\ l = rows[n]
        BY <1>9, <2>1, <4>1, LastRow
      <4>3. PICK i \in 1 .. n : rows[i] = v
        BY <3>2, <4>2
      <4>4. CASE i = n
        BY <2>2, <4>2, <4>3, <4>4
      <4>5. CASE i # n
        <5>1. i < n /\ n \in 1 .. n
          BY <4>2, <4>5
        <5>2. <<rows[i], rows[n]>> \in TimeOrder
          BY <4>1, <5>1 DEF TimeRows, InOrder
        <5>3. CreateTime[v] > CreateTime[l] \/ CreateTime[v] = CreateTime[l]
          BY <4>2, <4>3, <5>2 DEF TimeOrder, Newer
        <5> QED
          BY <1>2, <1>5, <2>2, <3>2, <5>3
      <4> QED
        BY <4>4, <4>5
    <3> QED
      BY <1>7, <3>1, <3>2
  <2> QED
    BY <2>2, <2>3, <2>4 DEF ShownByTime
<1> QED
  BY <1>7, <1>8, <1>9

LEMMA TimePageStep ==
  ASSUME Basic, TimeInv, PageTurn
  PROVE  TimeInv'
<1>0. Types /\ cursor \in Cursor /\ cursor.score \in Nat
  BY StateTypes DEF Basic
<1>1. CASE ~WholeSeconds
  <2>1. kind' = kind
    <3>1. PICK rows, source, next : PageOf(rows, source, next)
      BY <1>0, PageTypes
    <3> QED
      BY <3>1, TurnKeeps DEF PageOf
  <2> QED
    BY <1>1, <2>1 DEF TimeInv, WholeSeconds
<1>2. CASE WholeSeconds
  <2>1. PICK rows : LatestTurn(rows) \/ TimelineTurn(rows)
    BY <1>2, TurnOfKind
  <2>2. CASE LatestTurn(rows)
    <3>1. PageOf(rows, "mysql", LatestNext(rows))
      BY <1>0, <2>2, TimePageTypes
    <3>2. /\ Turn(rows, "mysql", LatestNext(rows)) /\ listCache' = listCache
          /\ rows = LatestRows
      BY <2>2 DEF LatestTurn
    <3>3. rows \in Seq(Video)
      BY <3>1 DEF PageOf
    <3>4. TimeRows(rows, cursor.score)
      BY <1>0, <3>2, TimeTops, TopTimeRows
    <3>5. /\ hasMore /\ pages' = Append(pages, rows) /\ cursor' = LatestNext(rows)
          /\ hasMore' = (Len(rows) = Limit) /\ kind' = kind
      BY <3>2, TurnKeeps
    <3>6. hasMore' => rows # <<>> /\ cursor'.score = Unix(CreateTime[Last(rows)])
      <4>1. hasMore' => rows # <<>>
        BY <3>3, <3>5, FullPage
      <4> QED
        BY <1>0, <3>5, <4>1 DEF LatestNext, Cursor
    <3>7. /\ NoRepeats'
          /\ InOrder(FlattenSeq(pages'), TimeOrder)
          /\ hasMore' => \A v \in Returned' : ShownByTime(v)'
      BY <1>2, <3>3, <3>4, <3>5, <3>6, TimePage
    <3>8. \A page \in listCache' : TimeRows(page.rows, page.before)
      BY <1>2, <3>2 DEF TimeInv
    <3> QED
      BY <3>7, <3>8 DEF TimeInv, TimeRows, TimeOrder, Newer
  <2>3. CASE TimelineTurn(rows)
    <3>1. PageOf(rows, "mysql", TimelineNext(rows))
      BY <1>0, <2>3, TimePageTypes
    <3>2. Turn(rows, "mysql", TimelineNext(rows))
      BY <2>3 DEF TimelineTurn
    <3>3. rows \in Seq(Video)
      BY <3>1 DEF PageOf
    <3>4. TimeRows(rows, cursor.score)
      <4>1. CASE rows \in CachedRows(cursor.score)
        BY <1>2, <4>1 DEF CachedRows, TimeInv
      <4>2. CASE rows = TimelineRows(cursor.score)
        BY <1>0, <4>2, TimeTops, TopTimeRows
      <4> QED
        BY <2>3, <4>1, <4>2 DEF TimelineTurn
    <3>5. /\ hasMore /\ pages' = Append(pages, rows) /\ cursor' = TimelineNext(rows)
          /\ hasMore' = (Len(rows) = Limit) /\ kind' = kind
      BY <3>2, TurnKeeps
    <3>6. hasMore' => rows # <<>> /\ cursor'.score = Unix(CreateTime[Last(rows)])
      <4>1. hasMore' => rows # <<>>
        BY <3>3, <3>5, FullPage
      <4> QED
        BY <3>5, <4>1 DEF TimelineNext, NoCursor
    <3>7. /\ NoRepeats'
          /\ InOrder(FlattenSeq(pages'), TimeOrder)
          /\ hasMore' => \A v \in Returned' : ShownByTime(v)'
      BY <1>2, <3>3, <3>4, <3>5, <3>6, TimePage
    <3>8. \A page \in listCache' : TimeRows(page.rows, page.before)
      <4>1. \A page \in WithCached(cursor.score, rows) :
               page \in listCache \/ (page.rows = rows /\ page.before = cursor.score)
        BY DEF WithCached
      <4>2. listCache' \in {listCache, WithCached(cursor.score, rows)}
        BY <3>1 DEF PageOf
      <4> QED
        BY <1>2, <3>4, <4>1, <4>2 DEF TimeInv
    <3> QED
      BY <3>7, <3>8 DEF TimeInv, TimeRows, TimeOrder, Newer
  <2> QED
    BY <2>1, <2>2, <2>3
<1> QED
  BY <1>1, <1>2

LEMMA TimeQuietStep ==
  ASSUME Basic, TimeInv,
         \/ \E v \in Video : Change(v)
         \/ \E before \in {0} \cup {Unix(CreateTime[v]) : v \in Video} : CacheTimeline(before)
         \/ UNCHANGED vars
  PROVE  TimeInv'
<1>1. ASSUME NEW v \in Video, Change(v) PROVE TimeInv'
  <2>1. /\ hasMore' = hasMore /\ kind' = kind /\ listCache' = listCache /\ cursor' = cursor
        /\ Returned' = Returned /\ FlattenSeq(pages)' = FlattenSeq(pages)
        /\ NoRepeats => NoRepeats'
    BY <1>1, ChangeKeeps
  <2> QED
    BY <2>1 DEF TimeInv, WholeSeconds, TimeRows, InOrder, TimeOrder, Newer, ShownByTime
<1>2. ASSUME NEW before, CacheTimeline(before) PROVE TimeInv'
  <2>1. /\ hasMore' = hasMore /\ kind' = kind /\ cursor' = cursor /\ kind \in Cached
        /\ listCache' = WithCached(before, TimelineRows(before))
        /\ Returned' = Returned /\ FlattenSeq(pages)' = FlattenSeq(pages)
        /\ NoRepeats => NoRepeats'
    BY <1>2, CacheKeeps
  <2>2. TimeRows(TimelineRows(before), before)
    BY TimeTops, TopTimeRows DEF Basic
  <2>3. WholeSeconds
    BY <2>1 DEF WholeSeconds
  <2>4. \A page \in listCache' :
           page \in listCache \/ (page.rows = TimelineRows(before) /\ page.before = before)
    BY <2>1 DEF WithCached
  <2>5. \A page \in listCache' : TimeRows(page.rows, page.before)
    BY <2>2, <2>3, <2>4 DEF TimeInv
  <2> QED
    BY <2>1, <2>3, <2>5 DEF TimeInv, TimeRows, InOrder, TimeOrder, Newer, ShownByTime
<1>3. CASE UNCHANGED vars
  <2>1. /\ hasMore' = hasMore /\ kind' = kind /\ listCache' = listCache /\ cursor' = cursor
        /\ Returned' = Returned /\ FlattenSeq(pages)' = FlattenSeq(pages)
        /\ NoRepeats => NoRepeats'
    BY <1>3, QuietPages DEF vars
  <2>2. /\ TimeOrder' = TimeOrder /\ (WholeSeconds' <=> WholeSeconds)
        /\ \A v : ShownByTime(v)' <=> ShownByTime(v)
        /\ \A seq : InOrder(seq, TimeOrder)' <=> InOrder(seq, TimeOrder)
    BY <2>1 DEF WholeSeconds, TimeOrder, Newer, ShownByTime, InOrder
  <2>3. \A rows, before : TimeRows(rows, before)' <=> TimeRows(rows, before)
    BY <2>2 DEF TimeRows, InOrder
  <2> QED
    BY <2>1, <2>2, <2>3 DEF TimeInv, InOrder
<1> QED
  BY <1>1, <1>2, <1>3

-----------------------------------------------------------------------------
(* The list of two boxes with a cursor each *)

(* The next score leaves what has not been fetched, and loses only what has *)
(* the score of an entry that has been.                                     *)
LEMMA NextEntries ==
  ASSUME NEW S \in SUBSET Video, NEW score, NEW place, Scoring(score, place),
         NEW before \in Nat, NEW es,
         IsTop(es, BeforeScore(S, score, before), ScoreOrder(score, place))
  PROVE  /\ NextScore(es, score, before) \in Nat
         /\ \A e \in ToSet(es) : /\ NextScore(es, score, before) # 0
                                /\ score[e] >= NextScore(es, score, before)
         /\ before # 0 => /\ NextScore(es, score, before) # 0
                          /\ NextScore(es, score, before) <= before
         /\ BeforeScore(S, score, NextScore(es, score, before)) \subseteq
               BeforeScore(S, score, before) \ ToSet(es)
         /\ (\A v, w \in S : score[v] = score[w] => v = w) =>
               BeforeScore(S, score, before) \ ToSet(es) \subseteq
                  BeforeScore(S, score, NextScore(es, score, before))
<1> DEFINE A == BeforeScore(S, score, before)
<1>0. /\ A \in SUBSET Video
      /\ \A v \in Video : v \in A <=> v \in S /\ (before = 0 \/ score[v] < before)
  BY DEF BeforeScore
<1>1. \A v \in Video : score[v] \in Nat /\ score[v] # 0
  BY DEF Scoring
<1>2. CASE es = <<>>
  <2>1. NextScore(es, score, before) = before
    BY <1>2 DEF NextScore
  <2>2. ToSet(es) = {} /\ Len(es) = 0
    BY <1>2 DEF ToSet
  <2> QED
    BY <2>1, <2>2
<1>3. CASE es # <<>>
  <2>1. PICK l : l = Last(es)
    OBVIOUS
  <2>2. NextScore(es, score, before) = score[l]
    BY <1>3, <2>1 DEF NextScore
  <2>3. /\ l \in A /\ l \in ToSet(es)
        /\ \A e \in ToSet(es) : e = l \/ <<e, l>> \in ScoreOrder(score, place)
    BY <1>3, <2>1, LastInOrder
  <2>4. l \in Video /\ score[l] \in Nat /\ score[l] # 0 /\ (before = 0 \/ score[l] < before)
    BY <1>0, <1>1, <2>3
  <2>5. ToSet(es) \subseteq A
    BY TopInOrder
  <2>6. \A e \in ToSet(es) : score[e] >= score[l]
    <3>1. \A e \in ToSet(es) : e = l \/ score[e] > score[l] \/ score[e] = score[l]
      BY <2>3 DEF ScoreOrder
    <3>2. \A e \in ToSet(es) : score[e] \in Nat
      BY <1>0, <1>1, <2>5
    <3> QED
      BY <2>4, <3>1, <3>2
  <2>7. \A v \in BeforeScore(S, score, score[l]) : v \in A /\ v \notin ToSet(es)
    <3> SUFFICES ASSUME NEW v \in BeforeScore(S, score, score[l])
                 PROVE  v \in A /\ v \notin ToSet(es)
      OBVIOUS
    <3>1. v \in S /\ v \in Video /\ score[v] < score[l] /\ score[v] \in Nat
      BY <1>1, <2>4 DEF BeforeScore
    <3>2. before = 0 \/ score[v] < before
      BY <2>4, <3>1
    <3>3. v \notin ToSet(es)
      BY <2>4, <2>6, <3>1
    <3> QED
      BY <1>0, <3>1, <3>2, <3>3
  <2>8. ASSUME \A v, w \in S : score[v] = score[w] => v = w, NEW v \in A, v \notin ToSet(es)
        PROVE  v \in BeforeScore(S, score, score[l])
    <3>1. <<l, v>> \in ScoreOrder(score, place)
      BY <2>3, <2>8 DEF IsTop
    <3>2. v \in S /\ l \in S /\ v # l /\ v \in Video
      BY <1>0, <2>3, <2>8
    <3>3. score[l] > score[v] \/ score[l] = score[v]
      BY <3>1 DEF ScoreOrder
    <3>4. score[v] < score[l]
      BY <1>1, <2>4, <2>8, <3>2, <3>3
    <3> QED
      BY <3>2, <3>4 DEF BeforeScore
  <2>9. before # 0 => score[l] <= before
    BY <2>4
  <2> QED
    BY <2>2, <2>4, <2>6, <2>7, <2>8, <2>9
<1> QED
  BY <1>2, <1>3

(* A page of the followings list: what it fetched, what it shows and where *)
(* its cursors go.                                                         *)
BoxPage(source, entries, posts, rows, box, score, outboxScore) ==
    /\ source \in Source
    /\ box = (IF source = "mysql" THEN inbox ELSE inboxCache)
    /\ box \subseteq inbox /\ outbox \subseteq outboxSoFar
    /\ outbox \subseteq Video /\ inbox \subseteq Video
    /\ score = cursor'.score /\ outboxScore = cursor'.outboxScore
    /\ score = NextScore(entries, InboxScore, cursor.score)
    /\ outboxScore = NextScore(posts, OutboxScore, cursor.outboxScore)
    /\ cursor.score \in Nat /\ cursor.outboxScore \in Nat
    /\ Scoring(InboxScore, Place[source]) /\ Scoring(OutboxScore, Place["outbox"])
    /\ Turn(rows, source, BoxNext(entries, posts))
    /\ rows = Merge(Existing(entries), Existing(posts)) /\ rows \in Seq(Video)
    /\ entries \in Seq(Video) /\ posts \in Seq(Video)
    /\ IsTop(entries, BeforeScore(box, InboxScore, cursor.score), InboxOrder(source))
    /\ IsTop(posts, BeforeScore(outbox, OutboxScore, cursor.outboxScore), OutboxOrder)
    /\ ToSet(rows) \subseteq (ToSet(entries) \cup ToSet(posts)) \cap videos
    /\ ToSet(entries) \subseteq BeforeScore(box, InboxScore, cursor.score)
    /\ ToSet(posts) \subseteq BeforeScore(outbox, OutboxScore, cursor.outboxScore)

LEMMA BoxTurnParts ==
  ASSUME Types, NEW source, NEW entries, NEW posts, BoxTurn(source, entries, posts)
  PROVE  \E rows, box, score, outboxScore :
            BoxPage(source, entries, posts, rows, box, score, outboxScore)
<1>1. PICK rows, box :
            /\ source \in Source
            /\ box = (IF source = "mysql" THEN inbox ELSE inboxCache)
            /\ Turn(rows, source, BoxNext(entries, posts))
            /\ IsTop(entries, BeforeScore(box, InboxScore, cursor.score), InboxOrder(source))
            /\ IsTop(posts, BeforeScore(outbox, OutboxScore, cursor.outboxScore), OutboxOrder)
            /\ entries \in Seq(Video) /\ posts \in Seq(Video)
            /\ rows = Merge(Existing(entries), Existing(posts))
            /\ rows \in Seq(Video)
            /\ ToSet(rows) \subseteq (ToSet(entries) \cup ToSet(posts)) \cap videos
  BY BoxRows
<1>2. /\ inboxCache \subseteq inbox /\ inbox \subseteq Video /\ outbox \subseteq Video
      /\ outbox \subseteq outboxSoFar /\ cursor \in Cursor
      /\ cursor.score \in Nat /\ cursor.outboxScore \in Nat
  BY StateTypes
<1>3. box \subseteq inbox
  BY <1>1, <1>2
<1>4. cursor' = BoxNext(entries, posts)
  BY <1>1, TurnKeeps
<1>5. /\ cursor'.score = NextScore(entries, InboxScore, cursor.score)
      /\ cursor'.outboxScore = NextScore(posts, OutboxScore, cursor.outboxScore)
  BY <1>2, <1>4 DEF BoxNext, Cursor
<1>6. Scoring(InboxScore, Place[source]) /\ Scoring(OutboxScore, Place["outbox"])
  BY <1>1, Scorings
<1>7. /\ ToSet(entries) \subseteq BeforeScore(box, InboxScore, cursor.score)
      /\ ToSet(posts) \subseteq BeforeScore(outbox, OutboxScore, cursor.outboxScore)
  BY <1>1, TopInOrder
<1>8. PICK score, outboxScore : score = cursor'.score /\ outboxScore = cursor'.outboxScore
  OBVIOUS
<1>9. BoxPage(source, entries, posts, rows, box, score, outboxScore)
  BY <1>1, <1>2, <1>3, <1>5, <1>6, <1>7, <1>8 DEF BoxPage
<1> QED
  BY <1>9

(* What the next scores say of the entries and posts of a page. *)
LEMMA BoxScores ==
  ASSUME NEW source, NEW entries, NEW posts, NEW rows, NEW box, NEW score, NEW outboxScore,
         BoxPage(source, entries, posts, rows, box, score, outboxScore)
  PROVE  /\ score \in Nat /\ outboxScore \in Nat
         /\ \A e \in ToSet(entries) : score # 0 /\ InboxScore[e] >= score
         /\ \A e \in ToSet(posts) : outboxScore # 0 /\ OutboxScore[e] >= outboxScore
         /\ cursor.score # 0 => score # 0 /\ score <= cursor.score
         /\ cursor.outboxScore # 0 => outboxScore # 0 /\ outboxScore <= cursor.outboxScore
         /\ BeforeScore(box, InboxScore, score) \subseteq
               BeforeScore(box, InboxScore, cursor.score) \ ToSet(entries)
         /\ BeforeScore(outbox, OutboxScore, outboxScore) \subseteq
               BeforeScore(outbox, OutboxScore, cursor.outboxScore) \ ToSet(posts)
         /\ (\A v, w \in box : InboxScore[v] = InboxScore[w] => v = w) =>
               BeforeScore(box, InboxScore, cursor.score) \ ToSet(entries) \subseteq
                  BeforeScore(box, InboxScore, score)
         /\ (\A v, w \in outbox : OutboxScore[v] = OutboxScore[w] => v = w) =>
               BeforeScore(outbox, OutboxScore, cursor.outboxScore) \ ToSet(posts) \subseteq
                  BeforeScore(outbox, OutboxScore, outboxScore)
<1>1. PICK c, d, p, q : /\ c = cursor.score /\ d = cursor.outboxScore
                        /\ p = Place[source] /\ q = Place["outbox"]
  OBVIOUS
<1>2. /\ box \in SUBSET Video /\ outbox \in SUBSET Video /\ c \in Nat /\ d \in Nat
      /\ Scoring(InboxScore, p) /\ Scoring(OutboxScore, q)
      /\ score = NextScore(entries, InboxScore, c)
      /\ outboxScore = NextScore(posts, OutboxScore, d)
      /\ IsTop(entries, BeforeScore(box, InboxScore, c), ScoreOrder(InboxScore, p))
      /\ IsTop(posts, BeforeScore(outbox, OutboxScore, d), ScoreOrder(OutboxScore, q))
  BY <1>1 DEF BoxPage, InboxOrder, OutboxOrder
<1>3. /\ score \in Nat
      /\ \A e \in ToSet(entries) : score # 0 /\ InboxScore[e] >= score
      /\ c # 0 => score # 0 /\ score <= c
      /\ BeforeScore(box, InboxScore, score) \subseteq BeforeScore(box, InboxScore, c) \ ToSet(entries)
      /\ (\A v, w \in box : InboxScore[v] = InboxScore[w] => v = w) =>
            BeforeScore(box, InboxScore, c) \ ToSet(entries) \subseteq BeforeScore(box, InboxScore, score)
  BY <1>2, NextEntries
<1>4. /\ outboxScore \in Nat
      /\ \A e \in ToSet(posts) : outboxScore # 0 /\ OutboxScore[e] >= outboxScore
      /\ d # 0 => outboxScore # 0 /\ outboxScore <= d
      /\ BeforeScore(outbox, OutboxScore, outboxScore) \subseteq
            BeforeScore(outbox, OutboxScore, d) \ ToSet(posts)
      /\ (\A v, w \in outbox : OutboxScore[v] = OutboxScore[w] => v = w) =>
            BeforeScore(outbox, OutboxScore, d) \ ToSet(posts) \subseteq
               BeforeScore(outbox, OutboxScore, outboxScore)
  BY <1>2, NextEntries
<1> QED
  BY <1>1, <1>3, <1>4

(* A video that was shown lies behind the cursor of a box that has it or    *)
(* had it.                                                                  *)
ShownInBoxes(v) ==
    \/ v \in inbox /\ cursor.score # 0 /\ InboxScore[v] >= cursor.score
    \/ v \in outboxSoFar /\ cursor.outboxScore # 0 /\ OutboxScore[v] >= cursor.outboxScore

BoxInv == kind = "followings" => RepeatsIn(Overlap) /\ (\A v \in Returned : ShownInBoxes(v))

LEMMA ReturnedType == Basic => Returned \subseteq Video /\ pages \in Seq(Seq(Video))
  BY StateTypes, LastRow DEF Basic, Flat

LEMMA BoxPageStep ==
  ASSUME Basic, BoxInv, PageTurn
  PROVE  BoxInv'
<1>0. Types /\ Boxes /\ Returned \subseteq Video /\ pages \in Seq(Seq(Video))
  BY ReturnedType DEF Basic
<1>1. CASE kind # "followings"
  <2>1. kind' = kind
    <3>1. PICK rows, source, next : PageOf(rows, source, next)
      BY <1>0, PageTypes
    <3> QED
      BY <3>1, TurnKeeps DEF PageOf
  <2> QED
    BY <1>1, <2>1 DEF BoxInv
<1>2. CASE kind = "followings"
  <2>1. PICK source, entries, posts : BoxTurn(source, entries, posts)
    BY <1>2, TurnOfKind
  <2>2. PICK rows, box, score, outboxScore :
            BoxPage(source, entries, posts, rows, box, score, outboxScore)
    BY <1>0, <2>1, BoxTurnParts
  <2>3. /\ box \subseteq inbox /\ outbox \subseteq Video /\ inbox \subseteq Video
        /\ outbox \subseteq outboxSoFar
        /\ score = cursor'.score /\ outboxScore = cursor'.outboxScore
        /\ cursor.score \in Nat /\ cursor.outboxScore \in Nat
        /\ Turn(rows, source, BoxNext(entries, posts)) /\ rows \in Seq(Video)
        /\ ToSet(rows) \subseteq ToSet(entries) \cup ToSet(posts)
        /\ ToSet(entries) \subseteq BeforeScore(box, InboxScore, cursor.score)
        /\ ToSet(posts) \subseteq BeforeScore(outbox, OutboxScore, cursor.outboxScore)
    BY <2>2 DEF BoxPage
  <2>4. /\ score \in Nat /\ outboxScore \in Nat
        /\ \A e \in ToSet(entries) : score # 0 /\ InboxScore[e] >= score
        /\ \A e \in ToSet(posts) : outboxScore # 0 /\ OutboxScore[e] >= outboxScore
        /\ cursor.score # 0 => score # 0 /\ score <= cursor.score
        /\ cursor.outboxScore # 0 => outboxScore # 0 /\ outboxScore <= cursor.outboxScore
    BY <2>2, BoxScores
  <2>5. /\ inbox' = inbox /\ outboxSoFar' = outboxSoFar /\ kind' = kind
        /\ pages' = Append(pages, rows)
    BY <2>3, TurnKeeps
  <2>6. RepeatsIn(Overlap) /\ \A v \in Returned : ShownInBoxes(v)
    BY <1>2 DEF BoxInv
  <2>7. \A v \in Video : InboxScore[v] \in Nat /\ OutboxScore[v] \in Nat
    BY PagingAssumption DEF PagingAssumption
  <2>8. /\ \A e \in ToSet(entries) :
              e \in inbox /\ e \in Video /\ (cursor.score = 0 \/ InboxScore[e] < cursor.score)
        /\ \A e \in ToSet(posts) :
              /\ e \in outbox /\ e \in outboxSoFar /\ e \in Video
              /\ cursor.outboxScore = 0 \/ OutboxScore[e] < cursor.outboxScore
    BY <2>3 DEF BeforeScore
  <2>9. ASSUME NEW v \in Returned, v \in ToSet(rows) PROVE v \in Overlap
    <3>1. InboxScore[v] \in Nat /\ OutboxScore[v] \in Nat /\ ShownInBoxes(v)
      BY <1>0, <2>6, <2>7
    <3>2. CASE v \in ToSet(entries)
      <4>1. v \in outboxSoFar
        BY <2>3, <2>8, <3>1, <3>2 DEF ShownInBoxes
      <4> QED
        BY <2>8, <3>2, <4>1 DEF Overlap
    <3>3. CASE v \in ToSet(posts)
      <4>1. v \in inbox
        BY <2>3, <2>8, <3>1, <3>3 DEF ShownInBoxes
      <4> QED
        BY <2>8, <3>3, <4>1 DEF Overlap
    <3> QED
      BY <2>3, <2>9, <3>2, <3>3
  <2>10. Overlap' = Overlap
    BY <2>5 DEF Overlap
  <2>11. RepeatsIn(Overlap)' /\ Returned' = Returned \cup ToSet(rows)
    <3>1. PICK S : S = Overlap
      OBVIOUS
    <3>2. Returned \cap ToSet(rows) \subseteq S /\ RepeatsIn(S)
      BY <2>6, <2>9, <3>1
    <3>3. /\ \A i, j \in DOMAIN pages' :
                 i < j => ToSet(pages'[i]) \cap ToSet(pages'[j]) \subseteq S
          /\ Returned' = Returned \cup ToSet(rows)
      BY <1>0, <2>3, <2>5, <3>2, AppendPage
    <3> QED
      BY <2>10, <3>1, <3>3 DEF RepeatsIn
  <2>12. ASSUME NEW v \in Returned' PROVE ShownInBoxes(v)'
    <3>1. CASE v \in Returned
      <4>1. InboxScore[v] \in Nat /\ OutboxScore[v] \in Nat /\ ShownInBoxes(v)
        BY <1>0, <2>6, <2>7, <3>1
      <4>2. CASE v \in inbox /\ cursor.score # 0 /\ InboxScore[v] >= cursor.score
        <5>1. score # 0 /\ InboxScore[v] >= score
          BY <2>3, <2>4, <4>1, <4>2
        <5> QED
          BY <2>3, <2>5, <4>2, <5>1 DEF ShownInBoxes
      <4>3. CASE /\ v \in outboxSoFar /\ cursor.outboxScore # 0
                 /\ OutboxScore[v] >= cursor.outboxScore
        <5>1. outboxScore # 0 /\ OutboxScore[v] >= outboxScore
          BY <2>3, <2>4, <4>1, <4>3
        <5> QED
          BY <2>3, <2>5, <4>3, <5>1 DEF ShownInBoxes
      <4> QED
        BY <4>1, <4>2, <4>3 DEF ShownInBoxes
    <3>2. CASE v \in ToSet(entries)
      BY <2>3, <2>4, <2>5, <2>8, <3>2 DEF ShownInBoxes
    <3>3. CASE v \in ToSet(posts)
      BY <2>3, <2>4, <2>5, <2>8, <3>3 DEF ShownInBoxes
    <3> QED
      BY <2>3, <2>11, <3>1, <3>2, <3>3
  <2> QED
    BY <2>11, <2>12 DEF BoxInv
<1> QED
  BY <1>1, <1>2

(* The boxes of the session only gain. *)
LEMMA BoxQuietStep ==
  ASSUME Basic, BoxInv,
         \/ \E v \in Video : Change(v)
         \/ \E before \in {0} \cup {Unix(CreateTime[v]) : v \in Video} : CacheTimeline(before)
         \/ UNCHANGED vars
  PROVE  BoxInv'
<1>1. ASSUME kind' = kind, cursor' = cursor, pages' = pages,
             inbox \subseteq inbox', outboxSoFar \subseteq outboxSoFar'
      PROVE  BoxInv'
  <2>1. Returned' = Returned
    BY <1>1, QuietPages
  <2>2. \A v : ShownInBoxes(v) => ShownInBoxes(v)'
    BY <1>1 DEF ShownInBoxes
  <2>3. Overlap \subseteq Overlap'
    BY <1>1 DEF Overlap
  <2>4. RepeatsIn(Overlap) => RepeatsIn(Overlap)'
    BY <1>1, <2>3 DEF RepeatsIn
  <2> QED
    BY <1>1, <2>1, <2>2, <2>4 DEF BoxInv
<1>2. ASSUME NEW v \in Video, Change(v) PROVE BoxInv'
  BY <1>1, <1>2, ChangeKeeps, ChangeTypes DEF Basic
<1>3. ASSUME NEW before, CacheTimeline(before) PROVE BoxInv'
  BY <1>3, CacheKeeps DEF BoxInv, Cached
<1>4. CASE UNCHANGED vars
  BY <1>1, <1>4 DEF vars, dataVars
<1> QED
  BY <1>2, <1>3, <1>4

(* The entries of a box whose scores follow the times. *)
LEMMA ScoresFollow ==
  ASSUME NEW score, NEW place, Scoring(score, place), NEW S \in SUBSET Video,
         \A v, w \in S : CreateTime[v] > CreateTime[w] => score[v] > score[w],
         NEW v \in S, NEW w \in S, <<v, w>> \in ScoreOrder(score, place)
  PROVE  <<v, w>> \in Later
<1>1. /\ v \in Video /\ w \in Video /\ score[v] \in Nat /\ score[w] \in Nat
      /\ CreateTime[v] \in Nat /\ CreateTime[w] \in Nat
  BY Times DEF Scoring
<1>2. score[v] > score[w] \/ score[v] = score[w]
  BY DEF ScoreOrder
<1>3. ~(score[w] > score[v])
  BY <1>1, <1>2
<1>4. ~(CreateTime[w] > CreateTime[v])
  BY <1>3
<1> QED
  BY <1>1, <1>4 DEF Later

(* One side of the merge: its rows are in order, and when it leaves any     *)
(* behind it is full and has nothing that is older than those.              *)
LEMMA SideInOrder ==
  ASSUME NEW score, NEW place, Scoring(score, place), NEW S \in SUBSET Video,
         \A v, w \in S : CreateTime[v] > CreateTime[w] => score[v] > score[w],
         NEW A \in SUBSET S, NEW es \in Seq(Video), IsTop(es, A, ScoreOrder(score, place)),
         A \subseteq videos
  PROVE  /\ Existing(es) \in Seq(Video) /\ InOrder(Existing(es), Later)
         /\ \A x \in A \ ToSet(es) :
               /\ Len(Existing(es)) = Limit
               /\ \A v \in ToSet(Existing(es)) : CreateTime[v] >= CreateTime[x]
<1>1. ToSet(es) \subseteq A /\ es \in Seq(A) /\ InOrder(es, ScoreOrder(score, place))
  BY TopInOrder
<1>2. \A i \in 1 .. Len(es) : es[i] \in S
  BY <1>1, ElementOfSeq
<1>3. \A v, w \in S : <<v, w>> \in ScoreOrder(score, place) => <<v, w>> \in Later
  BY ScoresFollow
<1>4. InOrder(es, Later)
  BY <1>1, <1>2, <1>3 DEF InOrder
<1>5. /\ Existing(es) \in Seq(Video) /\ InOrder(Existing(es), Later)
      /\ ToSet(Existing(es)) = ToSet(es) \cap videos
      /\ ToSet(es) \subseteq videos => Len(Existing(es)) = Len(es)
  BY <1>4, ExistingRows
<1>6. ASSUME NEW x \in A \ ToSet(es)
      PROVE  /\ Len(Existing(es)) = Limit
             /\ \A v \in ToSet(Existing(es)) : CreateTime[v] >= CreateTime[x]
  <2>1. Len(es) = Limit /\ \A v \in ToSet(es) : <<v, x>> \in ScoreOrder(score, place)
    BY <1>6 DEF IsTop
  <2>2. \A v \in ToSet(es) : <<v, x>> \in Later
    BY <1>1, <1>3, <2>1
  <2> QED
    BY <1>1, <1>5, <2>1, <2>2 DEF Later
<1> QED
  BY <1>5, <1>6

StartOrder ==
    {p \in Video \X Video :
        {p[1], p[2]} \subseteq start => CreateTime[p[1]] >= CreateTime[p[2]]}

From(source) == IF source = "mysql" THEN inbox ELSE inboxCache

(* What a followings list still has to show. *)
Left(source) ==
    BeforeScore(From(source), InboxScore, cursor.score)
       \cup BeforeScore(outbox, OutboxScore, cursor.outboxScore)

BoxesInOrder ==
    /\ kind = "followings" /\ BoxesExist /\ ScoresFollowTimes
    /\ ~Happened("follow") /\ ~Happened("delivery")

BoxOrderInv == BoxesInOrder =>
    \A source \in Source :
       (sources \subseteq {source} \/ inboxCache = inbox) =>
          /\ InOrder(FlattenSeq(pages), StartOrder)
          /\ \A u \in Returned \cap start, x \in Left(source) \cap start :
                CreateTime[u] >= CreateTime[x]

LEMMA BoxOrderPage ==
  ASSUME Basic, BoxOrderInv, PageTurn, BoxesInOrder, NEW other \in Source,
         sources' \subseteq {other} \/ inboxCache' = inbox'
  PROVE  /\ InOrder(FlattenSeq(pages'), StartOrder')
         /\ \A u \in Returned' \cap start', x \in Left(other)' \cap start' :
               CreateTime[u] >= CreateTime[x]
<1>0. /\ Types /\ Boxes /\ Flat /\ Returned \subseteq Video /\ start \subseteq Video
      /\ pages \in Seq(Seq(Video)) /\ kind = "followings"
  BY ReturnedType, StateTypes DEF Basic, BoxesInOrder
<1>1. PICK source, entries, posts : BoxTurn(source, entries, posts)
  BY <1>0, TurnOfKind
<1>2. PICK rows, box, score, outboxScore :
            BoxPage(source, entries, posts, rows, box, score, outboxScore)
  BY <1>0, <1>1, BoxTurnParts
<1>3. /\ box \subseteq inbox /\ outbox \subseteq outboxSoFar
      /\ outbox \subseteq Video /\ inbox \subseteq Video
      /\ score = cursor'.score /\ outboxScore = cursor'.outboxScore
      /\ rows \in Seq(Video) /\ rows = Merge(Existing(entries), Existing(posts))
      /\ entries \in Seq(Video) /\ posts \in Seq(Video)
      /\ Scoring(InboxScore, Place[source]) /\ Scoring(OutboxScore, Place["outbox"])
      /\ ToSet(rows) \subseteq ToSet(entries) \cup ToSet(posts)
  BY <1>2 DEF BoxPage
<1>4. /\ IsTop(entries, BeforeScore(box, InboxScore, cursor.score), ScoreOrder(InboxScore, Place[source]))
      /\ IsTop(posts, BeforeScore(outbox, OutboxScore, cursor.outboxScore),
               ScoreOrder(OutboxScore, Place["outbox"]))
      /\ ToSet(entries) \subseteq BeforeScore(box, InboxScore, cursor.score)
      /\ ToSet(posts) \subseteq BeforeScore(outbox, OutboxScore, cursor.outboxScore)
  BY <1>2 DEF BoxPage, InboxOrder, OutboxOrder
<1>5. /\ Turn(rows, source, BoxNext(entries, posts)) /\ source \in Source
      /\ box = IF source = "mysql" THEN inbox ELSE inboxCache
  BY <1>2 DEF BoxPage
<1>6. /\ inbox' = inbox /\ inboxCache' = inboxCache /\ outbox' = outbox /\ start' = start
      /\ pages' = Append(pages, rows) /\ sources' = sources \cup {source}
  BY <1>5, TurnKeeps
<1>7. sources \subseteq {other} \/ inboxCache = inbox
  BY <1>6
<1>8. box = From(other)
  <2>1. CASE inboxCache = inbox
    BY <1>5, <2>1 DEF From
  <2>2. CASE sources' \subseteq {other}
    <3>1. source = other
      BY <1>6, <2>2
    <3> QED
      BY <1>5, <3>1 DEF From
  <2> QED
    BY <1>6, <2>1, <2>2
<1>9. /\ inbox \cup outboxSoFar \subseteq videos
      /\ \A v, w \in inbox : CreateTime[v] > CreateTime[w] => InboxScore[v] > InboxScore[w]
      /\ \A v, w \in outboxSoFar : CreateTime[v] > CreateTime[w] => OutboxScore[v] > OutboxScore[w]
      /\ InOrder(FlattenSeq(pages), StartOrder)
      /\ \A u \in Returned \cap start, x \in Left(other) \cap start : CreateTime[u] >= CreateTime[x]
  BY <1>7 DEF BoxOrderInv, BoxesInOrder, BoxesExist, ScoresFollowTimes
<1> DEFINE A == BeforeScore(box, InboxScore, cursor.score)
           B == BeforeScore(outbox, OutboxScore, cursor.outboxScore)
<1>10. /\ A \in SUBSET Video /\ B \in SUBSET Video /\ A \subseteq videos /\ B \subseteq videos
       /\ A \subseteq inbox /\ B \subseteq outboxSoFar
  BY <1>3, <1>9 DEF BeforeScore
<1>11. Left(other) = A \cup B
  BY <1>8 DEF Left
<1>12. /\ BeforeScore(box, InboxScore, score) \subseteq A \ ToSet(entries)
       /\ BeforeScore(outbox, OutboxScore, outboxScore) \subseteq B \ ToSet(posts)
  BY <1>2, BoxScores
<1>13. Left(other)' \subseteq (A \ ToSet(entries)) \cup (B \ ToSet(posts))
  <2>1. Left(other)' = BeforeScore(box, InboxScore, score)
                          \cup BeforeScore(outbox, OutboxScore, outboxScore)
    BY <1>3, <1>6, <1>8 DEF Left, From, BeforeScore
  <2> QED
    BY <1>12, <2>1
<1> DEFINE a == Existing(entries)
           b == Existing(posts)
<1> HIDE DEF A, B, a, b
<1>14. /\ a \in Seq(Video) /\ InOrder(a, Later)
       /\ \A x \in A \ ToSet(entries) :
             Len(a) = Limit /\ \A v \in ToSet(a) : CreateTime[v] >= CreateTime[x]
  <2>1. PICK place : place = Place[source]
    OBVIOUS
  <2>2. IsTop(entries, A, ScoreOrder(InboxScore, place)) /\ Scoring(InboxScore, place)
    BY <1>3, <1>4, <2>1 DEF A
  <2> QED
    BY <1>3, <1>9, <1>10, <2>2, SideInOrder DEF a
<1>15. /\ b \in Seq(Video) /\ InOrder(b, Later)
       /\ \A x \in B \ ToSet(posts) :
             Len(b) = Limit /\ \A v \in ToSet(b) : CreateTime[v] >= CreateTime[x]
  <2>1. PICK place, S : place = Place["outbox"] /\ S = outboxSoFar
    OBVIOUS
  <2>2. IsTop(posts, B, ScoreOrder(OutboxScore, place)) /\ Scoring(OutboxScore, place)
    BY <1>3, <1>4, <2>1 DEF B
  <2>3. S \in SUBSET Video /\ B \in SUBSET S
        /\ \A v, w \in S : CreateTime[v] > CreateTime[w] => OutboxScore[v] > OutboxScore[w]
    BY <1>0, <1>9, <1>10, <2>1, StateTypes
  <2> QED
    BY <1>3, <1>10, <2>2, <2>3, SideInOrder DEF b
<1>16. \A u \in ToSet(rows), x \in Left(other)' : CreateTime[u] >= CreateTime[x]
  <2> SUFFICES ASSUME NEW u \in ToSet(rows), NEW x \in Left(other)'
               PROVE  CreateTime[u] >= CreateTime[x]
    OBVIOUS
  <2>1. PICK t : t = CreateTime[x]
    OBVIOUS
  <2>2. t \in Nat /\ rows = Merge(a, b)
    BY <1>3, <1>10, <1>13, <2>1, Times DEF a, b
  <2>3. \/ Len(a) = Limit /\ \A v \in ToSet(a) : CreateTime[v] >= t
        \/ Len(b) = Limit /\ \A v \in ToSet(b) : CreateTime[v] >= t
    BY <1>13, <1>14, <1>15, <2>1
  <2>4. \A v \in ToSet(Merge(a, b)) : CreateTime[v] >= t
    BY <1>14, <1>15, <2>2, <2>3, MergeBounded
  <2> QED
    BY <2>1, <2>2, <2>4
<1>17. Returned' = Returned \cup ToSet(rows)
  BY <1>0, <1>3, <1>6, AppendPage
<1>18. \A u \in Returned' \cap start', x \in Left(other)' \cap start' : CreateTime[u] >= CreateTime[x]
  BY <1>6, <1>9, <1>11, <1>13, <1>16, <1>17
<1>19. StartOrder' = StartOrder
  BY <1>6 DEF StartOrder
<1>20. InOrder(rows, StartOrder)
  <2>1. InOrder(rows, Later)
    BY <1>3, <1>14, <1>15, MergeInOrder DEF a, b
  <2>2. \A p \in Later : p \in StartOrder
    BY DEF Later, StartOrder
  <2> QED
    BY <2>1, <2>2 DEF InOrder
<1>21. \A u \in Returned, v \in ToSet(rows) : <<u, v>> \in StartOrder
  <2> SUFFICES ASSUME NEW u \in Returned, NEW v \in ToSet(rows) PROVE <<u, v>> \in StartOrder
    OBVIOUS
  <2>1. u \in Video /\ v \in Video /\ v \in Left(other)
    BY <1>0, <1>3, <1>4, <1>10, <1>11 DEF A, B
  <2>2. {u, v} \subseteq start => CreateTime[u] >= CreateTime[v]
    BY <1>9, <2>1
  <2> QED
    BY <2>1, <2>2 DEF StartOrder
<1>22. InOrder(FlattenSeq(pages'), StartOrder)
  <2>1. PICK all : all = FlattenSeq(pages)
    OBVIOUS
  <2>2. FlattenSeq(pages') = all \o rows
    BY <1>0, <1>3, <1>6, <2>1, AppendFlat
  <2>3. all \in Seq(Video) /\ ToSet(all) = Returned /\ InOrder(all, StartOrder)
    BY <1>0, <1>9, <2>1 DEF Flat
  <2>4. \A u \in ToSet(all), v \in ToSet(rows) : <<u, v>> \in StartOrder
    BY <1>21, <2>3
  <2>5. InOrder(all \o rows, StartOrder)
    BY <1>3, <1>20, <2>3, <2>4, AppendOrder
  <2> QED
    BY <2>2, <2>5
<1> QED
  BY <1>18, <1>19, <1>22

LEMMA TurnFrame ==
  ASSUME Basic, PageTurn
  PROVE  /\ kind' = kind /\ videos' = videos /\ count' = count
         /\ inbox' = inbox /\ inboxCache' = inboxCache /\ outbox' = outbox
         /\ outboxSoFar' = outboxSoFar
         /\ ranking' = ranking /\ start' = start /\ changes' = changes
         /\ sources \subseteq sources'
         /\ hasMore
         /\ \A what : Happened(what)' <=> Happened(what)
         /\ Static' <=> Static
<1>1. PICK rows, source, next : PageOf(rows, source, next)
  BY PageTypes DEF Basic
<1> QED
  BY <1>1, TurnKeeps DEF PageOf

LEMMA BoxOrderPageStep ==
  ASSUME Basic, BoxOrderInv, PageTurn
  PROVE  BoxOrderInv'
<1>1. BoxesInOrder' <=> BoxesInOrder
  <2>1. /\ kind' = kind /\ videos' = videos /\ inbox' = inbox /\ outboxSoFar' = outboxSoFar
        /\ \A what : Happened(what)' <=> Happened(what)
    BY TurnFrame
  <2> QED
    BY <2>1 DEF BoxesInOrder, BoxesExist, ScoresFollowTimes
<1>2. CASE ~BoxesInOrder
  BY <1>1, <1>2 DEF BoxOrderInv
<1>3. CASE BoxesInOrder
  <2>1. ASSUME NEW other \in Source, sources' \subseteq {other} \/ inboxCache' = inbox'
        PROVE  /\ InOrder(FlattenSeq(pages'), StartOrder')
               /\ \A u \in Returned' \cap start', x \in Left(other)' \cap start' :
                     CreateTime[u] >= CreateTime[x]
    BY <1>3, <2>1, BoxOrderPage
  <2> QED
    BY <1>3, <2>1 DEF BoxOrderInv, InOrder
<1> QED
  BY <1>2, <1>3

LEMMA ChangeHappens ==
  ASSUME Basic, NEW what \in Changes, MayChange(what)
  PROVE  Happened(what)'
<1>1. changes' = Append(changes, what) /\ changes \in Seq(Changes)
  BY StateTypes DEF Basic, MayChange
<1>2. /\ changes' \in Seq(Changes) /\ Len(changes') = Len(changes) + 1 /\ Len(changes) \in Nat
      /\ changes'[Len(changes) + 1] = what
  BY <1>1, AppendProperties, LenProperties
<1>3. DOMAIN changes' = 1 .. Len(changes')
  BY <1>2, LenProperties
<1>4. Len(changes) + 1 \in DOMAIN changes'
  BY <1>2, <1>3
<1> QED
  BY <1>2, <1>4 DEF Happened

LEMMA ChangesHappen ==
  ASSUME Basic, NEW v \in Video
  PROVE  /\ DeleteVideo(v) => Happened("deletion")'
         /\ Follow(v) => Happened("follow")'
         /\ Deliver(v) => Happened("delivery")'
         /\ LikeVideo(v) => Happened("like")'
         /\ UnlikeVideo(v) => Happened("unlike")'
<1>1. {"deletion", "follow", "delivery", "like", "unlike"} \subseteq Changes
  BY DEF Changes
<1> QED
  BY <1>1, ChangeHappens DEF DeleteVideo, Follow, Deliver, LikeVideo, UnlikeVideo

LEMMA BoxOrderChange ==
  ASSUME Basic, BoxOrderInv, NEW v \in Video, Change(v)
  PROVE  BoxOrderInv'
<1>0. Types /\ Boxes /\ lastId \in Nat /\ v \in Nat
  BY StateTypes, Times DEF Basic
<1>1. /\ kind' = kind /\ cursor' = cursor /\ sources' = sources /\ start' = start
      /\ Returned' = Returned /\ FlattenSeq(pages)' = FlattenSeq(pages)
      /\ \A what : Happened(what) => Happened(what)'
  BY ChangeKeeps
<1>2. inbox \subseteq inbox' /\ outboxSoFar \subseteq outboxSoFar'
  BY <1>0, ChangeTypes
<1> SUFFICES ASSUME BoxesInOrder' PROVE BoxOrderInv'
  BY DEF BoxOrderInv
<1>3. /\ kind = "followings" /\ inbox' \cup outboxSoFar' \subseteq videos'
      /\ ~Happened("follow")' /\ ~Happened("delivery")'
  BY <1>1 DEF BoxesInOrder, BoxesExist
<1>4. Arrive(v) \/ DeleteVideo(v) \/ Unfollow(v) \/ LikeVideo(v) \/ UnlikeVideo(v)
  BY <1>3, ChangesHappen DEF Change
<1>5. /\ \A x \in videos' : x \in videos \/ (x = v /\ v > lastId)
      /\ \/ inbox' = inbox /\ inboxCache' = inboxCache
         \/ /\ v > lastId /\ inbox' = inbox \cup {v}
            /\ inboxCache' \in {inboxCache, inboxCache \cup {v}}
      /\ \A x \in outbox' : x \in outbox \/ (x = v /\ v > lastId)
  BY <1>4 DEF Arrive, DeleteVideo, Unfollow, LikeVideo, UnlikeVideo
<1>6. v > lastId => v \notin inbox /\ v \notin outboxSoFar /\ v \notin start
  BY <1>0 DEF Boxes
<1>7. BoxesInOrder
  <2>1. BoxesExist
    BY <1>2, <1>3, <1>5, <1>6 DEF BoxesExist
  <2>2. ScoresFollowTimes
    BY <1>2 DEF BoxesInOrder, ScoresFollowTimes
  <2> QED
    BY <1>1, <1>3, <2>1, <2>2 DEF BoxesInOrder
<1>8. inboxCache \subseteq inbox
  BY <1>0, StateTypes
<1>9. inboxCache' = inbox' => inboxCache = inbox
  <2>1. CASE inbox' = inbox /\ inboxCache' = inboxCache
    BY <2>1
  <2>2. CASE /\ v > lastId /\ inbox' = inbox \cup {v}
             /\ inboxCache' \in {inboxCache, inboxCache \cup {v}}
    <3>1. v \notin inbox /\ v \notin inboxCache
      BY <1>6, <1>8, <2>2
    <3> QED
      BY <2>2, <3>1
  <2> QED
    BY <1>5, <2>1, <2>2
<1>10. ASSUME NEW source \in Source PROVE Left(source)' \cap start' \subseteq Left(source) \cap start
  <2>1. \A x \in From(source)' : x \in From(source) \/ (x = v /\ v > lastId)
    BY <1>5 DEF From
  <2>2. \A x : x = v /\ v > lastId => x \notin start'
    BY <1>1, <1>6
  <2> QED
    BY <1>1, <1>5, <2>1, <2>2 DEF Left, BeforeScore
<1>11. StartOrder' = StartOrder
  BY <1>1 DEF StartOrder
<1>12. ASSUME NEW source \in Source, sources' \subseteq {source} \/ inboxCache' = inbox'
       PROVE  /\ InOrder(FlattenSeq(pages), StartOrder)'
              /\ \A u \in Returned' \cap start', x \in Left(source)' \cap start' :
                    CreateTime[u] >= CreateTime[x]
  <2>1. sources \subseteq {source} \/ inboxCache = inbox
    BY <1>1, <1>9, <1>12
  <2>2. /\ InOrder(FlattenSeq(pages), StartOrder)
        /\ \A u \in Returned \cap start, x \in Left(source) \cap start :
              CreateTime[u] >= CreateTime[x]
    BY <1>7, <2>1 DEF BoxOrderInv
  <2>3. InOrder(FlattenSeq(pages), StartOrder)'
    BY <1>1, <1>11, <2>2 DEF InOrder
  <2> QED
    BY <1>1, <1>10, <2>2, <2>3
<1> QED
  BY <1>12 DEF BoxOrderInv

LEMMA BoxOrderQuietStep ==
  ASSUME Basic, BoxOrderInv,
         \/ \E v \in Video : Change(v)
         \/ \E before \in {0} \cup {Unix(CreateTime[v]) : v \in Video} : CacheTimeline(before)
         \/ UNCHANGED vars
  PROVE  BoxOrderInv'
<1>1. ASSUME NEW before, CacheTimeline(before) PROVE BoxOrderInv'
  BY <1>1, CacheKeeps DEF BoxOrderInv, BoxesInOrder, Cached
<1>2. CASE UNCHANGED vars
  <2>1. /\ kind' = kind /\ cursor' = cursor /\ inbox' = inbox /\ inboxCache' = inboxCache
        /\ outbox' = outbox /\ outboxSoFar' = outboxSoFar /\ videos' = videos
        /\ sources' = sources /\ start' = start
        /\ Returned' = Returned /\ FlattenSeq(pages)' = FlattenSeq(pages)
    BY <1>2, QuietPages DEF vars, dataVars
  <2>2. \A what : Happened(what)' <=> Happened(what)
    BY <1>2 DEF vars, Happened
  <2>3. StartOrder' = StartOrder /\ \A source : Left(source)' = Left(source)
    BY <2>1 DEF StartOrder, Left, From, BeforeScore
  <2>4. BoxesInOrder' <=> BoxesInOrder
    BY <2>1, <2>2 DEF BoxesInOrder, BoxesExist, ScoresFollowTimes
  <2> QED
    BY <2>1, <2>3, <2>4 DEF BoxOrderInv, InOrder
<1> QED
  BY <1>1, <1>2, BoxOrderChange

-----------------------------------------------------------------------------
(* A quiet session of one box misses nothing. *)

(* The rows of two sides of which one has nothing to give. *)
LEMMA OneSideRows ==
  ASSUME NEW es \in Seq(Video), Len(es) <= Limit, ToSet(es) \subseteq videos,
         NEW none \in Seq(Video), ToSet(none) = {}
  PROVE  /\ ToSet(Merge(Existing(es), Existing(none))) = ToSet(es)
         /\ Len(Merge(Existing(es), Existing(none))) = Len(es)
         /\ ToSet(Merge(Existing(none), Existing(es))) = ToSet(es)
         /\ Len(Merge(Existing(none), Existing(es))) = Len(es)
<1>1. PICK a, b : a = Existing(es) /\ b = Existing(none)
  OBVIOUS
<1>2. a \in Seq(Video) /\ Len(a) = Len(es) /\ ToSet(a) = ToSet(es)
  BY <1>1, ExistingRows
<1>3. b \in Seq(Video) /\ ToSet(b) = {}
  BY <1>1, ExistingRows
<1>4. b = <<>>
  <2>1. b # <<>> => Len(b) \in Nat /\ Len(b) # 0
    BY <1>3, LastRow
  <2>2. ToSet(b) = {b[i] : i \in 1 .. Len(b)}
    BY <1>3, LastRow
  <2>3. b # <<>> => b[1] \in ToSet(b)
    BY <2>1, <2>2
  <2> QED
    BY <1>3, <2>3
<1>5. Len(a) <= Limit
  BY <1>2
<1> QED
  BY <1>1, <1>2, <1>4, <1>5, MergeOfOne

QuietBoxes ==
    /\ Static /\ kind = "followings"
    /\ BoxesExist /\ DistinctScores
    /\ inbox = {} \/ outbox = {}
    /\ "redis" \in sources => inboxCache = inbox

MissBoxes == QuietBoxes =>
    IF hasMore
    THEN inbox \cup outbox \subseteq
         Returned \cup BeforeScore(inbox, InboxScore, cursor.score)
                  \cup BeforeScore(outbox, OutboxScore, cursor.outboxScore)
    ELSE inbox \cup outbox \subseteq Returned

LEMMA MissBoxesPageStep ==
  ASSUME Basic, MissBoxes, PageTurn
  PROVE  MissBoxes'
<1>0. /\ Types /\ Boxes /\ Returned \subseteq Video
      /\ pages \in Seq(Seq(Video))
  BY ReturnedType DEF Basic
<1>1. /\ kind' = kind /\ inbox' = inbox /\ outbox' = outbox /\ inboxCache' = inboxCache
      /\ outboxSoFar' = outboxSoFar /\ videos' = videos
      /\ sources \subseteq sources' /\ hasMore
      /\ Static' <=> Static
  BY TurnFrame
<1>2. QuietBoxes' => QuietBoxes
  BY <1>1 DEF QuietBoxes, BoxesExist, DistinctScores
<1> SUFFICES ASSUME QuietBoxes'
             PROVE  IF hasMore'
                    THEN inbox \cup outbox \subseteq
                         Returned' \cup BeforeScore(inbox, InboxScore, cursor'.score)
                                   \cup BeforeScore(outbox, OutboxScore, cursor'.outboxScore)
                    ELSE inbox \cup outbox \subseteq Returned'
  BY <1>1 DEF MissBoxes, BeforeScore
<1>3. /\ Static /\ kind = "followings" /\ BoxesExist /\ DistinctScores
      /\ inbox = {} \/ outbox = {}
  BY <1>2 DEF QuietBoxes
<1>4. "redis" \in sources' => inboxCache = inbox
  BY <1>1 DEF QuietBoxes
<1>5. PICK source, entries, posts : BoxTurn(source, entries, posts)
  BY <1>3, TurnOfKind
<1>6. PICK rows, box, score, outboxScore :
            BoxPage(source, entries, posts, rows, box, score, outboxScore)
  BY <1>0, <1>5, BoxTurnParts
<1>7. /\ source \in Source /\ box = (IF source = "mysql" THEN inbox ELSE inboxCache)
      /\ Turn(rows, source, BoxNext(entries, posts))
      /\ outbox \subseteq outboxSoFar /\ outbox \subseteq Video /\ inbox \subseteq Video
      /\ score = cursor'.score /\ outboxScore = cursor'.outboxScore
      /\ rows \in Seq(Video) /\ entries \in Seq(Video) /\ posts \in Seq(Video)
      /\ rows = Merge(Existing(entries), Existing(posts))
  BY <1>6 DEF BoxPage
<1>8. /\ sources' = sources \cup {source} /\ pages' = Append(pages, rows)
      /\ hasMore' = (Len(rows) = Limit)
  BY <1>7, TurnKeeps
<1>9. box = inbox
  BY <1>4, <1>7, <1>8 DEF Source
<1> DEFINE A == BeforeScore(inbox, InboxScore, cursor.score)
           B == BeforeScore(outbox, OutboxScore, cursor.outboxScore)
<1>10. A \subseteq inbox /\ B \subseteq outbox
  BY DEF BeforeScore
<1>11. /\ IsTop(entries, A, InboxOrder(source)) /\ ToSet(entries) \subseteq A
       /\ IsTop(posts, B, OutboxOrder) /\ ToSet(posts) \subseteq B
  BY <1>6, <1>9 DEF BoxPage
<1>12. /\ A \ ToSet(entries) \subseteq BeforeScore(inbox, InboxScore, score)
       /\ B \ ToSet(posts) \subseteq BeforeScore(outbox, OutboxScore, outboxScore)
  <2>1. /\ \A v, w \in box : InboxScore[v] = InboxScore[w] => v = w
        /\ \A v, w \in outbox : OutboxScore[v] = OutboxScore[w] => v = w
    BY <1>3, <1>7, <1>9 DEF DistinctScores
  <2>2. /\ BeforeScore(box, InboxScore, cursor.score) \ ToSet(entries) \subseteq
              BeforeScore(box, InboxScore, score)
        /\ BeforeScore(outbox, OutboxScore, cursor.outboxScore) \ ToSet(posts) \subseteq
              BeforeScore(outbox, OutboxScore, outboxScore)
    BY <1>6, <2>1, BoxScores
  <2> QED
    BY <1>9, <2>2
<1>13. inbox \cup outbox \subseteq Returned \cup A \cup B
  BY <1>1, <1>2 DEF MissBoxes
<1>14. Returned' = Returned \cup ToSet(rows)
  BY <1>0, <1>7, <1>8, AppendPage
<1>15. /\ ToSet(entries) \subseteq videos /\ ToSet(posts) \subseteq videos
       /\ Len(entries) <= Limit /\ Len(posts) <= Limit
  BY <1>3, <1>7, <1>10, <1>11 DEF BoxesExist, IsTop
<1> HIDE DEF A, B
<1>16. /\ ToSet(rows) = ToSet(entries) \cup ToSet(posts)
       /\ A # {} => Len(rows) = Len(entries)
       /\ B # {} => Len(rows) = Len(posts)
  <2>1. CASE outbox = {}
    <3>1. B = {} /\ ToSet(posts) = {}
      BY <1>10, <1>11, <2>1
    <3>2. ToSet(rows) = ToSet(entries) /\ Len(rows) = Len(entries)
      BY <1>7, <1>15, <3>1, OneSideRows
    <3> QED
      BY <3>1, <3>2
  <2>2. CASE inbox = {}
    <3>1. A = {} /\ ToSet(entries) = {}
      BY <1>10, <1>11, <2>2
    <3>2. ToSet(rows) = ToSet(posts) /\ Len(rows) = Len(posts)
      BY <1>7, <1>15, <3>1, OneSideRows
    <3> QED
      BY <3>1, <3>2
  <2> QED
    BY <1>3, <2>1, <2>2
<1>17. CASE hasMore'
  BY <1>7, <1>12, <1>13, <1>14, <1>16, <1>17
<1>18. CASE ~hasMore'
  <2>1. Len(rows) # Limit
    BY <1>8, <1>18
  <2>2. A \subseteq ToSet(entries)
    BY <1>11, <1>16, <2>1 DEF IsTop
  <2>3. B \subseteq ToSet(posts)
    BY <1>11, <1>16, <2>1 DEF IsTop
  <2> QED
    BY <1>13, <1>14, <1>16, <1>18, <2>2, <2>3
<1> QED
  BY <1>17, <1>18

LEMMA MissBoxesQuietStep ==
  ASSUME Basic, MissBoxes,
         \/ \E v \in Video : Change(v)
         \/ \E before \in {0} \cup {Unix(CreateTime[v]) : v \in Video} : CacheTimeline(before)
         \/ UNCHANGED vars
  PROVE  MissBoxes'
<1>1. ASSUME NEW before, CacheTimeline(before) PROVE MissBoxes'
  BY <1>1, CacheKeeps DEF MissBoxes, QuietBoxes, Cached
<1>2. CASE UNCHANGED vars
  <2>1. /\ kind' = kind /\ cursor' = cursor /\ inbox' = inbox /\ inboxCache' = inboxCache
        /\ outbox' = outbox /\ hasMore' = hasMore /\ sources' = sources
        /\ outboxSoFar' = outboxSoFar /\ videos' = videos
        /\ Returned' = Returned /\ (Static' <=> Static)
    BY <1>2, QuietPages DEF vars, dataVars, Static
  <2>2. QuietBoxes' <=> QuietBoxes
    BY <2>1 DEF QuietBoxes, BoxesExist, DistinctScores
  <2> QED
    BY <2>1, <2>2 DEF MissBoxes, BeforeScore
<1>3. ASSUME NEW v \in Video, Change(v) PROVE MissBoxes'
  BY <1>3, ChangeKeeps DEF MissBoxes, QuietBoxes
<1> QED
  BY <1>1, <1>2, <1>3

-----------------------------------------------------------------------------
(* The lists by likes: the cursor is the last row. *)

LikesAhead(v, c) ==
    \/ c.id = 0
    \/ count[v] < c.score
    \/ count[v] = c.score /\ v < c.id

LikesInv == (ByLikes /\ ~Happened("unlike")) =>
    NoRepeats /\ (\A v \in Returned : ~LikesAhead(v, cursor))

MissLikes == Static /\ ByLikes =>
    IF hasMore THEN \A v \in videos : v \in Returned \/ LikesAhead(v, cursor)
               ELSE videos \subseteq Returned

(* The cursor moves to the end of the page, not further. *)
LEMMA LikesMove ==
  ASSUME Types, NEW rows, NEW next, rows = LikesRows, next = LikesNext(rows)
  PROVE  /\ rows \in Seq(Video)
         /\ \A v \in ToSet(rows) : v \in Video /\ LikesAhead(v, cursor) /\ ~LikesAhead(v, next)
         /\ \A v \in Video : LikesAhead(v, next) => LikesAhead(v, cursor)
         /\ \A v \in videos : LikesAhead(v, cursor) /\ v \notin ToSet(rows) =>
               LikesAhead(v, next) /\ Len(rows) = Limit
<1>1. /\ videos \subseteq Video /\ count \in [Video -> Nat] /\ cursor \in Cursor
      /\ cursor.score \in Nat /\ cursor.id \in Nat
  BY StateTypes
<1>2. \A v : v \in LikesSet <=> v \in videos /\ LikesAhead(v, cursor)
  BY DEF LikesSet, LikesAhead
<1>3. LikesSet \in SUBSET Video
  BY <1>1, <1>2
<1>4. IsTop(rows, LikesSet, LikesOrder)
  BY CountTops
<1>5. rows \in Seq(Video) /\ ToSet(rows) \subseteq LikesSet
  BY <1>3, <1>4, TopType
<1>6. \A v \in LikesSet \ ToSet(rows) :
         Len(rows) = Limit /\ \A u \in ToSet(rows) : <<u, v>> \in LikesOrder
  BY <1>4 DEF IsTop
<1>7. CASE rows = <<>>
  <2>1. Len(rows) = 0 /\ ToSet(rows) = {} /\ next = cursor
    BY <1>7 DEF ToSet, LikesNext
  <2>2. LikesSet = {}
    BY <1>6, <2>1, LimitType
  <2> QED
    BY <1>2, <1>5, <2>1, <2>2
<1>8. CASE rows # <<>>
  <2>1. PICK l : l = Last(rows)
    OBVIOUS
  <2>2. /\ l \in LikesSet /\ l \in ToSet(rows)
        /\ \A u \in ToSet(rows) : u = l \/ <<u, l>> \in LikesOrder
    BY <1>4, <1>8, <2>1, LastInOrder
  <2>3. next.score = count[l] /\ next.id = l
    BY <1>1, <1>8, <2>1 DEF LikesNext, Cursor
  <2>4. /\ l \in Video /\ l \in Nat /\ l # 0 /\ LikesAhead(l, cursor)
    BY <1>1, <1>2, <2>2, Times
  <2>5. \A v \in Video : v \in Nat /\ count[v] \in Nat
    BY <1>1, Times
  <2>6. \A v \in ToSet(rows) : ~LikesAhead(v, next)
    <3>1. \A v \in ToSet(rows) : v \in Video /\ (v = l \/ MoreLiked(v, l))
      BY <1>3, <1>5, <2>2 DEF LikesOrder
    <3> SUFFICES ASSUME NEW v \in ToSet(rows) PROVE ~LikesAhead(v, next)
      OBVIOUS
    <3>2. v \in Nat /\ count[v] \in Nat /\ count[l] \in Nat
      BY <2>4, <2>5, <3>1
    <3>3. CASE v = l
      BY <2>3, <2>4, <3>2, <3>3 DEF LikesAhead
    <3>4. CASE count[v] > count[l] \/ (count[v] = count[l] /\ v > l)
      BY <2>3, <2>4, <3>2, <3>4 DEF LikesAhead
    <3> QED
      BY <3>1, <3>3, <3>4 DEF MoreLiked
  <2>7. \A v \in Video : LikesAhead(v, next) => LikesAhead(v, cursor)
    BY <1>1, <2>3, <2>4, <2>5 DEF LikesAhead
  <2>8. \A v \in LikesSet \ ToSet(rows) : LikesAhead(v, next) /\ Len(rows) = Limit
    <3>1. \A v \in LikesSet \ ToSet(rows) : Len(rows) = Limit /\ v \in Video /\ MoreLiked(l, v)
      BY <1>3, <1>6, <2>2 DEF LikesOrder
    <3> QED
      BY <2>3, <2>4, <2>5, <3>1 DEF LikesAhead, MoreLiked
  <2> QED
    BY <1>1, <1>2, <1>5, <2>6, <2>7, <2>8
<1> QED
  BY <1>7, <1>8

LEMMA LikesPageStep ==
  ASSUME Basic, LikesInv, MissLikes, PageTurn
  PROVE  LikesInv' /\ MissLikes'
<1>0. Types /\ Returned \subseteq Video /\ pages \in Seq(Seq(Video))
  BY ReturnedType DEF Basic
<1>1. /\ kind' = kind /\ videos' = videos /\ count' = count /\ hasMore
      /\ \A what : Happened(what)' <=> Happened(what)
      /\ Static' <=> Static
  BY TurnFrame
<1>2. ByLikes' <=> ByLikes
  BY <1>1 DEF ByLikes
<1> SUFFICES ASSUME ByLikes PROVE LikesInv' /\ MissLikes'
  BY <1>2 DEF LikesInv, MissLikes
<1>3. PICK rows : LikesTurn(rows)
  BY TurnOfKind
<1>4. PICK next : next = LikesNext(rows)
  OBVIOUS
<1>5. rows = LikesRows /\ Turn(rows, "mysql", next)
  BY <1>3, <1>4 DEF LikesTurn
<1>6. pages' = Append(pages, rows) /\ cursor' = next /\ hasMore' = (Len(rows) = Limit)
  BY <1>5, TurnKeeps
<1>7. /\ rows \in Seq(Video)
      /\ \A v \in ToSet(rows) : v \in Video /\ LikesAhead(v, cursor) /\ ~LikesAhead(v, next)
      /\ \A v \in Video : LikesAhead(v, next) => LikesAhead(v, cursor)
      /\ \A v \in videos : LikesAhead(v, cursor) /\ v \notin ToSet(rows) =>
            LikesAhead(v, next) /\ Len(rows) = Limit
  BY <1>0, <1>4, <1>5, LikesMove
<1>8. /\ Returned' = Returned \cup ToSet(rows)
      /\ Returned \cap ToSet(rows) = {} /\ NoRepeats => NoRepeats'
  BY <1>0, <1>6, <1>7, AppendPage
<1>9. \A v : LikesAhead(v, next) <=> LikesAhead(v, cursor)'
  BY <1>1, <1>6 DEF LikesAhead
<1>10. LikesInv'
  <2> SUFFICES ASSUME ~Happened("unlike") PROVE NoRepeats' /\ \A v \in Returned' : ~LikesAhead(v, cursor)'
    BY <1>1 DEF LikesInv
  <2>1. NoRepeats /\ \A v \in Returned : ~LikesAhead(v, cursor)
    BY DEF LikesInv
  <2>2. Returned \cap ToSet(rows) = {}
    BY <1>7, <2>1
  <2> QED
    BY <1>0, <1>7, <1>8, <1>9, <2>1, <2>2
<1>11. MissLikes'
  <2> SUFFICES ASSUME Static
               PROVE  IF hasMore' THEN \A v \in videos : v \in Returned' \/ LikesAhead(v, cursor)'
                                  ELSE videos \subseteq Returned'
    BY <1>1 DEF MissLikes
  <2>1. \A v \in videos : v \in Returned \/ LikesAhead(v, cursor)
    BY <1>1 DEF MissLikes
  <2>2. \A v \in videos : v \in Returned' \/ (LikesAhead(v, next) /\ hasMore')
    BY <1>6, <1>7, <1>8, <2>1
  <2> QED
    BY <1>9, <2>2
<1> QED
  BY <1>10, <1>11

(* A like lifts a video that has been shown further from the cursor. *)
LEMMA LikesOnlyRaise ==
  ASSUME Basic, NEW v \in Video, Change(v), ~UnlikeVideo(v)
  PROVE  count' \in [Video -> Nat] /\ \A u \in Video : count[u] <= count'[u]
<1>1. count \in [Video -> Nat] /\ count' \in [Video -> Nat]
  BY StateTypes, ChangeTypes DEF Basic
<1>2. count' = count \/ count' = [count EXCEPT ![v] = count[v] + 1]
  BY DEF Change, Arrive, Deliver, DeleteVideo, Follow, Unfollow, LikeVideo
<1> QED
  BY <1>1, <1>2

LEMMA LikesQuietStep ==
  ASSUME Basic, LikesInv, MissLikes,
         \/ \E v \in Video : Change(v)
         \/ \E before \in {0} \cup {Unix(CreateTime[v]) : v \in Video} : CacheTimeline(before)
         \/ UNCHANGED vars
  PROVE  LikesInv' /\ MissLikes'
<1>1. ASSUME NEW before, CacheTimeline(before) PROVE LikesInv' /\ MissLikes'
  <2>1. ~ByLikes /\ (ByLikes' <=> ByLikes)
    BY <1>1, CacheKeeps DEF ByLikes, Cached
  <2> QED
    BY <2>1 DEF LikesInv, MissLikes
<1>2. CASE UNCHANGED vars
  <2>1. /\ kind' = kind /\ cursor' = cursor /\ videos' = videos /\ count' = count
        /\ hasMore' = hasMore /\ Returned' = Returned /\ (NoRepeats => NoRepeats')
        /\ (Static' <=> Static) /\ (Happened("unlike")' <=> Happened("unlike"))
    BY <1>2, QuietPages DEF vars, dataVars, Static, Happened
  <2> QED
    BY <2>1 DEF LikesInv, MissLikes, ByLikes, LikesAhead
<1>3. ASSUME NEW v \in Video, Change(v) PROVE LikesInv' /\ MissLikes'
  <2>1. /\ kind' = kind /\ cursor' = cursor /\ Returned' = Returned
        /\ NoRepeats => NoRepeats'
        /\ Happened("unlike") => Happened("unlike")'
        /\ ~Static'
    BY <1>3, ChangeKeeps
  <2>2. MissLikes'
    BY <2>1 DEF MissLikes
  <2>3. ASSUME ByLikes', ~Happened("unlike")'
        PROVE  NoRepeats' /\ \A u \in Returned' : ~LikesAhead(u, cursor)'
    <3>1. ByLikes /\ ~Happened("unlike")
      BY <2>1, <2>3 DEF ByLikes
    <3>2. NoRepeats /\ \A u \in Returned : ~LikesAhead(u, cursor)
      BY <3>1 DEF LikesInv
    <3>3. ~UnlikeVideo(v)
      BY <2>3, ChangesHappen
    <3>4. count' \in [Video -> Nat] /\ \A u \in Video : count[u] <= count'[u]
      BY <1>3, <3>3, LikesOnlyRaise
    <3>5. count \in [Video -> Nat] /\ cursor.score \in Nat /\ Returned \subseteq Video
      BY StateTypes, ReturnedType DEF Basic
    <3>6. ASSUME NEW u \in Returned PROVE ~LikesAhead(u, cursor)'
      <4>1. /\ count[u] \in Nat /\ count'[u] \in Nat /\ count[u] <= count'[u]
            /\ ~LikesAhead(u, cursor)
        BY <3>2, <3>4, <3>5, <3>6
      <4> QED
        BY <2>1, <3>5, <4>1 DEF LikesAhead
    <3> QED
      BY <2>1, <3>2, <3>6
  <2> QED
    BY <2>2, <2>3 DEF LikesInv
<1> QED
  BY <1>1, <1>2, <1>3

-----------------------------------------------------------------------------
(* The lists by popularity from the table *)

PopularAhead(v, c, time) ==
    \/ c.id = 0
    \/ count[v] < c.score
    \/ count[v] = c.score /\ CreateTime[v] < time
    \/ count[v] = c.score /\ CreateTime[v] = time /\ v < c.id

(* The lister's cursor keeps whole seconds. *)
PlaceTime(c) == IF kind = "order_by_popularity" THEN c.time * 1000 ELSE c.time

PopularInv ==
    /\ kind \in {"order_by_popularity", "listByPopularity"}
    /\ sources \subseteq {"mysql"}
    /\ ~Happened("unlike")
    =>
    /\ NoRepeats
    /\ hasMore => \A v \in Returned : ~PopularAhead(v, cursor, PlaceTime(cursor))

MissPopular ==
    /\ Static /\ kind \in ByPopularity /\ sources \subseteq {"mysql"}
    /\ kind = "order_by_popularity" => SeparateSeconds
    =>
    IF hasMore
    THEN \A v \in videos : v \in Returned \/ PopularAhead(v, cursor, PlaceTime(cursor))
    ELSE videos \subseteq Returned

HotHasNoPlace == kind = "hotView" => cursor.id = 0

(* Created between the time the cursor was cut to and its video l. *)
CutOff(v, l, t) ==
    /\ v # l /\ t < CreateTime[l]
    /\ t <= CreateTime[v] /\ CreateTime[v] <= CreateTime[l]

(* The cursor moves to the end of the page, or before it where the time is *)
(* cut to the second.                                                      *)
LEMMA PopularMove ==
  ASSUME Types, NEW time \in Nat, NEW rows, rows = PopularRows(time), NEW next, NEW t \in Nat,
         rows # <<>> => /\ next.score = count[Last(rows)] /\ next.id = Last(rows)
                        /\ t <= CreateTime[Last(rows)]
  PROVE  /\ rows \in Seq(Video)
         /\ \A v \in ToSet(rows) : v \in videos /\ PopularAhead(v, cursor, time)
         /\ rows # <<>> =>
               /\ Last(rows) \in videos
               /\ \A v \in ToSet(rows) : ~PopularAhead(v, next, t)
               /\ \A v \in Video : PopularAhead(v, next, t) => PopularAhead(v, cursor, time)
         /\ \A v \in videos : PopularAhead(v, cursor, time) /\ v \notin ToSet(rows) =>
               /\ Len(rows) = Limit
               /\ CutOff(v, Last(rows), t) \/ PopularAhead(v, next, t)
<1>1. /\ videos \subseteq Video /\ count \in [Video -> Nat] /\ cursor \in Cursor
      /\ cursor.score \in Nat /\ cursor.id \in Nat
  BY StateTypes
<1>2. \A v : v \in PopularSet(time) <=> v \in videos /\ PopularAhead(v, cursor, time)
  BY DEF PopularSet, PopularAhead
<1>3. PopularSet(time) \in SUBSET Video
  BY <1>1, <1>2
<1>4. IsTop(rows, PopularSet(time), PopularOrder)
  BY CountTops
<1>5. rows \in Seq(Video) /\ ToSet(rows) \subseteq PopularSet(time)
  BY <1>3, <1>4, TopType
<1>6. \A v \in PopularSet(time) \ ToSet(rows) :
         Len(rows) = Limit /\ \A u \in ToSet(rows) : <<u, v>> \in PopularOrder
  BY <1>4 DEF IsTop
<1>7. CASE rows = <<>>
  <2>1. Len(rows) = 0 /\ ToSet(rows) = {}
    BY <1>7 DEF ToSet
  <2>2. PopularSet(time) = {}
    BY <1>6, <2>1, LimitType
  <2> QED
    BY <1>2, <1>5, <1>7, <2>1, <2>2
<1>8. CASE rows # <<>>
  <2>1. PICK l : l = Last(rows)
    OBVIOUS
  <2>2. /\ l \in PopularSet(time) /\ l \in ToSet(rows)
        /\ \A u \in ToSet(rows) : u = l \/ <<u, l>> \in PopularOrder
    BY <1>4, <1>8, <2>1, LastInOrder
  <2>3. next.score = count[l] /\ next.id = l /\ t <= CreateTime[l]
    BY <1>8, <2>1
  <2>4. /\ l \in Video /\ l \in Nat /\ l # 0 /\ PopularAhead(l, cursor, time)
        /\ count[l] \in Nat /\ CreateTime[l] \in Nat
    BY <1>1, <1>2, <2>2, Times
  <2>5. \A v \in Video : v \in Nat /\ count[v] \in Nat /\ CreateTime[v] \in Nat
    BY <1>1, Times
  <2>6. ASSUME NEW v \in ToSet(rows) PROVE ~PopularAhead(v, next, t)
    <3>1. v \in Video /\ (v = l \/ MorePopular(v, l))
      BY <1>3, <1>5, <2>2, <2>6 DEF PopularOrder
    <3>2. v \in Nat /\ count[v] \in Nat /\ CreateTime[v] \in Nat
      BY <2>5, <3>1
    <3>3. CASE v = l
      BY <2>3, <2>4, <3>2, <3>3 DEF PopularAhead
    <3>4. CASE count[v] > count[l] \/ (count[v] = count[l] /\ CreateTime[v] > CreateTime[l])
      BY <2>3, <2>4, <3>2, <3>4 DEF PopularAhead
    <3>5. CASE count[v] = count[l] /\ CreateTime[v] = CreateTime[l] /\ v > l
      BY <2>3, <2>4, <3>2, <3>5 DEF PopularAhead
    <3> QED
      BY <3>1, <3>3, <3>4, <3>5 DEF MorePopular, Newer
  <2>7. ASSUME NEW v \in Video, PopularAhead(v, next, t)
        PROVE  PopularAhead(v, cursor, time)
    <3>1. v \in Nat /\ count[v] \in Nat /\ CreateTime[v] \in Nat
      BY <2>5
    <3>2. \/ count[v] < count[l]
          \/ count[v] = count[l] /\ CreateTime[v] < t
          \/ count[v] = count[l] /\ CreateTime[v] = t /\ v < l
      BY <2>3, <2>4, <2>7 DEF PopularAhead
    <3>3. \/ count[v] < count[l]
          \/ count[v] = count[l] /\ CreateTime[v] < CreateTime[l]
          \/ count[v] = count[l] /\ CreateTime[v] = CreateTime[l] /\ v < l
      BY <2>3, <2>4, <3>1, <3>2
    <3>4. \/ cursor.id = 0
          \/ count[l] < cursor.score
          \/ count[l] = cursor.score /\ CreateTime[l] < time
          \/ count[l] = cursor.score /\ CreateTime[l] = time /\ l < cursor.id
      BY <2>4 DEF PopularAhead
    <3>5. \/ cursor.id = 0
          \/ count[v] < cursor.score
          \/ count[v] = cursor.score /\ CreateTime[v] < time
          \/ count[v] = cursor.score /\ CreateTime[v] = time /\ v < cursor.id
      BY <1>1, <2>4, <3>1, <3>3, <3>4
    <3> QED
      BY <3>5 DEF PopularAhead
  <2>8. ASSUME NEW v \in PopularSet(time) \ ToSet(rows)
        PROVE  /\ Len(rows) = Limit
               /\ CutOff(v, l, t) \/ PopularAhead(v, next, t)
    <3>1. Len(rows) = Limit /\ v \in Video /\ MorePopular(l, v)
      BY <1>3, <1>6, <2>2, <2>8 DEF PopularOrder
    <3>2. v \in Nat /\ count[v] \in Nat /\ CreateTime[v] \in Nat
      BY <2>5, <3>1
    <3>3. \/ count[v] < count[l]
          \/ count[v] = count[l] /\ CreateTime[v] < CreateTime[l]
          \/ count[v] = count[l] /\ CreateTime[v] = CreateTime[l] /\ v < l
      BY <2>4, <3>1, <3>2 DEF MorePopular, Newer
    <3>4. v # l
      BY <2>2, <2>8
    <3> QED
      BY <2>3, <2>4, <3>1, <3>2, <3>3, <3>4 DEF PopularAhead, CutOff
  <2> QED
    BY <1>2, <1>5, <1>8, <2>1, <2>2, <2>6, <2>7, <2>8
<1> QED
  BY <1>7, <1>8

(* A page of the table in a list by popularity. *)
PopularPage(rows) ==
    /\ rows = PopularRows(PlaceTime(cursor)) /\ rows \in Seq(Video)
    /\ pages' = Append(pages, rows) /\ hasMore' = (Len(rows) = Limit)
    /\ kind = "hotView" => cursor'.id = 0
    /\ kind # "hotView" /\ rows # <<>> =>
          /\ cursor'.score = count[Last(rows)] /\ cursor'.id = Last(rows)
          /\ PlaceTime(cursor') = IF kind = "order_by_popularity"
                                  THEN Unix(CreateTime[Last(rows)]) * 1000
                                  ELSE CreateTime[Last(rows)]

LEMMA PopularTurn ==
  ASSUME Types, PageTurn, kind \in ByPopularity, sources' \subseteq {"mysql"}
  PROVE  \E rows : PopularPage(rows)
<1>1. cursor \in Cursor
  BY StateTypes
<1>2. "redis" \notin sources'
  OBVIOUS
<1>3. CASE kind = "order_by_popularity"
  <2>1. PICK rows : StoredTurn(rows) \/ RankedTurn(rows)
    BY <1>3, TurnOfKind
  <2>2. ~RankedTurn(rows)
    BY <1>2, TurnKeeps DEF RankedTurn
  <2>3. rows = PopularRows(cursor.time * 1000) /\ Turn(rows, "mysql", StoredNext(rows))
    BY <2>1, <2>2 DEF StoredTurn
  <2>4. PageOf(rows, "mysql", StoredNext(rows))
    BY <2>1, <2>2, CountPageTypes
  <2>5. /\ pages' = Append(pages, rows) /\ hasMore' = (Len(rows) = Limit)
        /\ cursor' = StoredNext(rows)
    BY <2>3, TurnKeeps
  <2>6. rows # <<>> => /\ cursor'.score = count[Last(rows)] /\ cursor'.id = Last(rows)
                       /\ cursor'.time = Unix(CreateTime[Last(rows)])
    BY <1>1, <2>5 DEF StoredNext, Cursor
  <2>7. PopularPage(rows)
    BY <1>3, <2>3, <2>4, <2>5, <2>6 DEF PopularPage, PageOf, PlaceTime
  <2> QED
    BY <2>7
<1>4. CASE kind \in {"listByPopularity", "hotView"}
  <2>1. PICK rows : HotStoredTurn(rows) \/ HotRankedTurn(rows)
    BY <1>4, TurnOfKind
  <2>2. ~HotRankedTurn(rows)
    BY <1>2, TurnKeeps DEF HotRankedTurn
  <2>3. /\ rows = PopularRows(cursor.time)
        /\ Turn(rows, "mysql", GivenBack(PlaceAfter(rows, 0)))
    BY <2>1, <2>2 DEF HotStoredTurn
  <2>4. PageOf(rows, "mysql", GivenBack(PlaceAfter(rows, 0)))
    BY <2>1, <2>2, CountPageTypes
  <2>5. /\ pages' = Append(pages, rows) /\ hasMore' = (Len(rows) = Limit)
        /\ cursor' = GivenBack(PlaceAfter(rows, 0))
    BY <2>3, TurnKeeps
  <2>6. kind = "hotView" => cursor'.id = 0
    BY <2>5 DEF GivenBack, NoCursor
  <2>7. kind # "hotView" /\ rows # <<>> =>
           /\ cursor'.score = count[Last(rows)] /\ cursor'.id = Last(rows)
           /\ cursor'.time = CreateTime[Last(rows)]
    BY <2>5 DEF GivenBack, PlaceAfter, NoCursor
  <2>8. kind # "order_by_popularity"
    BY <1>4
  <2>9. PopularPage(rows)
    BY <2>3, <2>4, <2>5, <2>6, <2>7, <2>8 DEF PopularPage, PageOf, PlaceTime
  <2> QED
    BY <2>9
<1> QED
  BY <1>3, <1>4 DEF ByPopularity

LEMMA PopularPageStep ==
  ASSUME Basic, PopularInv, MissPopular, HotHasNoPlace, PageTurn
  PROVE  PopularInv' /\ MissPopular'
<1>0. /\ Types /\ Returned \subseteq Video /\ pages \in Seq(Seq(Video))
      /\ videos \subseteq Video /\ cursor.time \in Nat
  BY StateTypes, ReturnedType DEF Basic
<1>1. /\ kind' = kind /\ videos' = videos /\ count' = count /\ hasMore
      /\ sources \subseteq sources'
      /\ \A what : Happened(what)' <=> Happened(what)
      /\ Static' <=> Static
  BY TurnFrame
<1>2. SeparateSeconds' <=> SeparateSeconds
  BY <1>1 DEF SeparateSeconds
<1> SUFFICES ASSUME kind \in ByPopularity, sources' \subseteq {"mysql"}
             PROVE  PopularInv' /\ MissPopular'
  BY <1>1 DEF PopularInv, MissPopular, ByPopularity
<1>3. PICK rows : PopularPage(rows)
  BY <1>0, PopularTurn
<1>4. PICK next, time, t : next = cursor' /\ time = PlaceTime(cursor) /\ t = PlaceTime(cursor')
  OBVIOUS
<1>5. /\ rows = PopularRows(time) /\ rows \in Seq(Video)
      /\ pages' = Append(pages, rows) /\ hasMore' = (Len(rows) = Limit)
      /\ kind = "hotView" => next.id = 0
      /\ kind # "hotView" /\ rows # <<>> =>
            /\ next.score = count[Last(rows)] /\ next.id = Last(rows)
            /\ t = IF kind = "order_by_popularity"
                   THEN Unix(CreateTime[Last(rows)]) * 1000 ELSE CreateTime[Last(rows)]
  BY <1>3, <1>4 DEF PopularPage
<1>6. time \in Nat
  BY <1>0, <1>4 DEF PlaceTime
<1>7. hasMore' => rows # <<>>
  BY <1>5, FullPage
<1>8. /\ Returned' = Returned \cup ToSet(rows)
      /\ Returned \cap ToSet(rows) = {} /\ NoRepeats => NoRepeats'
  BY <1>0, <1>5, AppendPage
<1>9. \A v : PopularAhead(v, next, t) <=> PopularAhead(v, cursor, PlaceTime(cursor))'
  BY <1>1, <1>4 DEF PopularAhead, PlaceTime
<1>10. rows # <<>> => Last(rows) \in Video
  BY <1>5, LastRow
<1>11. kind # "hotView" /\ rows # <<>> => t \in Nat /\ t <= CreateTime[Last(rows)]
  <2> SUFFICES ASSUME kind # "hotView", rows # <<>>
               PROVE  t \in Nat /\ t <= CreateTime[Last(rows)]
    OBVIOUS
  <2>1. PICK x \in Nat : x = CreateTime[Last(rows)]
    BY <1>10, Times
  <2>2. Unix(x) * 1000 \in Nat /\ Unix(x) * 1000 <= x
    BY DEF Unix
  <2> QED
    BY <1>5, <2>1, <2>2
(* What the last page of any of the lists holds, and every page of HotView. *)
<1>12. /\ \A v \in ToSet(rows) : v \in videos /\ PopularAhead(v, cursor, time)
       /\ \A v \in videos : PopularAhead(v, cursor, time) /\ v \notin ToSet(rows) => hasMore'
  <2>1. PICK c : rows # <<>> => c.score = count[Last(rows)] /\ c.id = Last(rows)
    <3>1. PICK c : c = [score |-> count[Last(rows)], id |-> Last(rows)]
      OBVIOUS
    <3>2. c.score = count[Last(rows)] /\ c.id = Last(rows)
      BY <3>1
    <3> QED
      BY <3>2
  <2>2. 0 \in Nat /\ (rows # <<>> => 0 <= CreateTime[Last(rows)])
    <3>1. rows # <<>> => CreateTime[Last(rows)] \in Nat
      BY <1>10, Times
    <3> QED
      BY <3>1
  <2>3. /\ \A v \in ToSet(rows) : v \in videos /\ PopularAhead(v, cursor, time)
        /\ \A v \in videos : PopularAhead(v, cursor, time) /\ v \notin ToSet(rows) =>
              Len(rows) = Limit
    <3>1. rows # <<>> => /\ c.score = count[Last(rows)] /\ c.id = Last(rows)
                         /\ 0 <= CreateTime[Last(rows)]
      BY <2>1, <2>2
    <3>2. PICK z \in Nat : z = 0
      OBVIOUS
    <3> QED
      BY <1>0, <1>5, <1>6, <3>1, <3>2, PopularMove
  <2> QED
    BY <1>5, <2>3
<1>13. ASSUME kind # "hotView", rows # <<>>
       PROVE  /\ Last(rows) \in videos
              /\ \A v \in ToSet(rows) : ~PopularAhead(v, next, t)
              /\ \A v \in Video : PopularAhead(v, next, t) => PopularAhead(v, cursor, time)
              /\ \A v \in videos : PopularAhead(v, cursor, time) /\ v \notin ToSet(rows) =>
                    CutOff(v, Last(rows), t) \/ PopularAhead(v, next, t)
  <2>1. rows # <<>> => /\ next.score = count[Last(rows)] /\ next.id = Last(rows)
                       /\ t <= CreateTime[Last(rows)]
    BY <1>5, <1>11, <1>13
  <2>2. t \in Nat
    BY <1>11, <1>13
  <2> QED
    BY <1>0, <1>5, <1>6, <1>13, <2>1, <2>2, PopularMove
<1>14. PopularInv'
  <2> SUFFICES ASSUME kind \in {"order_by_popularity", "listByPopularity"}, ~Happened("unlike")
               PROVE  /\ NoRepeats'
                      /\ hasMore' => \A v \in Returned' : ~PopularAhead(v, cursor, PlaceTime(cursor))'
    BY <1>1 DEF PopularInv
  <2>1. NoRepeats /\ \A v \in Returned : ~PopularAhead(v, cursor, time)
    BY <1>1, <1>4 DEF PopularInv
  <2>2. Returned \cap ToSet(rows) = {}
    BY <1>12, <2>1
  <2>3. kind # "hotView"
    OBVIOUS
  <2>4. hasMore' => \A v \in Returned' : ~PopularAhead(v, next, t)
    BY <1>0, <1>7, <1>8, <1>13, <2>1, <2>3
  <2> QED
    BY <1>8, <1>9, <2>1, <2>2, <2>4
<1>15. MissPopular'
  <2> SUFFICES ASSUME Static, kind = "order_by_popularity" => SeparateSeconds
               PROVE  IF hasMore'
                      THEN \A v \in videos : \/ v \in Returned'
                                             \/ PopularAhead(v, cursor, PlaceTime(cursor))'
                      ELSE videos \subseteq Returned'
    BY <1>1, <1>2 DEF MissPopular
  <2>1. \A v \in videos : v \in Returned \/ PopularAhead(v, cursor, time)
    BY <1>1, <1>4 DEF MissPopular
  <2>2. CASE ~hasMore'
    BY <1>8, <1>12, <2>1, <2>2
  <2>3. CASE hasMore' /\ kind = "hotView"
    BY <1>5, <1>9, <2>3 DEF PopularAhead
  <2>4. CASE hasMore' /\ kind # "hotView"
    <3> SUFFICES ASSUME NEW v \in videos PROVE v \in Returned' \/ PopularAhead(v, next, t)
      BY <1>9, <2>4
    <3>1. CASE v \in Returned \/ v \in ToSet(rows)
      BY <1>8, <3>1
    <3>2. CASE v \notin Returned /\ v \notin ToSet(rows)
      <4>1. /\ Last(rows) \in videos
            /\ CutOff(v, Last(rows), t) \/ PopularAhead(v, next, t)
        BY <1>7, <1>13, <2>1, <2>4, <3>2
      <4>2. ~CutOff(v, Last(rows), t)
        <5> SUFFICES ASSUME v # Last(rows), t < CreateTime[Last(rows)], t <= CreateTime[v],
                            CreateTime[v] <= CreateTime[Last(rows)]
                     PROVE  FALSE
          BY DEF CutOff
        <5>1. PICK x \in Nat, y \in Nat : x = CreateTime[Last(rows)] /\ y = CreateTime[v]
          BY <1>0, <4>1, Times
        <5>2. t = IF kind = "order_by_popularity" THEN Unix(x) * 1000 ELSE x
          BY <1>5, <1>7, <2>4, <5>1
        <5>3. CASE kind = "order_by_popularity"
          <6>1. Unix(x) # Unix(y)
            BY <4>1, <5>1, <5>3 DEF SeparateSeconds
          <6>2. x # y
            BY <6>1
          <6>3. y < Unix(x) * 1000
            BY <5>1, <6>1, <6>2, UnixApart
          <6>4. Unix(x) * 1000 \in Nat
            BY DEF Unix
          <6> QED
            BY <5>1, <5>2, <5>3, <6>3, <6>4
        <5>4. CASE kind # "order_by_popularity"
          BY <5>1, <5>2, <5>4
        <5> QED
          BY <5>3, <5>4
      <4> QED
        BY <4>1, <4>2
    <3> QED
      BY <3>1, <3>2
  <2> QED
    BY <2>2, <2>3, <2>4
<1> QED
  BY <1>14, <1>15

LEMMA HotPageStep ==
  ASSUME Basic, HotHasNoPlace, PageTurn
  PROVE  HotHasNoPlace'
<1>1. kind' = kind
  BY TurnFrame
<1> SUFFICES ASSUME kind = "hotView" PROVE cursor'.id = 0
  BY <1>1 DEF HotHasNoPlace
<1>2. PICK rows : HotStoredTurn(rows) \/ HotRankedTurn(rows)
  BY TurnOfKind
<1>3. \E next : cursor' = GivenBack(next)
  BY <1>2, TurnKeeps DEF HotStoredTurn, HotRankedTurn
<1> QED
  BY <1>3 DEF GivenBack, NoCursor

LEMMA PopularQuietStep ==
  ASSUME Basic, PopularInv, MissPopular, HotHasNoPlace,
         \/ \E v \in Video : Change(v)
         \/ \E before \in {0} \cup {Unix(CreateTime[v]) : v \in Video} : CacheTimeline(before)
         \/ UNCHANGED vars
  PROVE  PopularInv' /\ MissPopular' /\ HotHasNoPlace'
<1>1. ASSUME NEW before, CacheTimeline(before)
      PROVE PopularInv' /\ MissPopular' /\ HotHasNoPlace'
  BY <1>1, CacheKeeps DEF PopularInv, MissPopular, HotHasNoPlace, Cached, ByPopularity
<1>2. CASE UNCHANGED vars
  <2>1. /\ kind' = kind /\ cursor' = cursor /\ videos' = videos /\ count' = count
        /\ hasMore' = hasMore /\ Returned' = Returned /\ (NoRepeats => NoRepeats')
        /\ sources' = sources
        /\ (Static' <=> Static) /\ (Happened("unlike")' <=> Happened("unlike"))
    BY <1>2, QuietPages DEF vars, dataVars, Static, Happened
  <2> QED
    BY <2>1 DEF PopularInv, MissPopular, HotHasNoPlace, PopularAhead, PlaceTime, SeparateSeconds
<1>3. ASSUME NEW v \in Video, Change(v) PROVE PopularInv' /\ MissPopular' /\ HotHasNoPlace'
  <2>1. /\ kind' = kind /\ cursor' = cursor /\ Returned' = Returned /\ hasMore' = hasMore
        /\ sources' = sources
        /\ NoRepeats => NoRepeats'
        /\ Happened("unlike") => Happened("unlike")'
        /\ ~Static'
    BY <1>3, ChangeKeeps
  <2>2. MissPopular' /\ HotHasNoPlace'
    BY <2>1 DEF MissPopular, HotHasNoPlace
  <2>3. ASSUME kind' \in {"order_by_popularity", "listByPopularity"},
               sources' \subseteq {"mysql"}, ~Happened("unlike")'
        PROVE  /\ NoRepeats'
               /\ hasMore' => \A u \in Returned' : ~PopularAhead(u, cursor, PlaceTime(cursor))'
    <3>1. /\ NoRepeats
          /\ hasMore => \A u \in Returned : ~PopularAhead(u, cursor, PlaceTime(cursor))
      BY <2>1, <2>3 DEF PopularInv
    <3>3. ~UnlikeVideo(v)
      BY <2>3, ChangesHappen
    <3>4. count' \in [Video -> Nat] /\ \A u \in Video : count[u] <= count'[u]
      BY <1>3, <3>3, LikesOnlyRaise
    <3>5. count \in [Video -> Nat] /\ cursor.score \in Nat /\ Returned \subseteq Video
      BY StateTypes, ReturnedType DEF Basic
    <3>6. ASSUME hasMore, NEW u \in Returned PROVE ~PopularAhead(u, cursor, PlaceTime(cursor))'
      <4>1. /\ count[u] \in Nat /\ count'[u] \in Nat /\ count[u] <= count'[u]
            /\ ~PopularAhead(u, cursor, PlaceTime(cursor))
        BY <3>1, <3>4, <3>5, <3>6
      <4>2. PlaceTime(cursor)' = PlaceTime(cursor)
        BY <2>1 DEF PlaceTime
      <4> QED
        BY <2>1, <3>5, <4>1, <4>2 DEF PopularAhead
    <3> QED
      BY <2>1, <3>1, <3>6
  <2> QED
    BY <2>2, <2>3 DEF PopularInv
<1> QED
  BY <1>1, <1>2, <1>3

-----------------------------------------------------------------------------
(* The ranking: the offset is the number of members that have been shown. *)

RankInv ==
    /\ kind \in ByPopularity /\ sources \subseteq {"redis"}
    /\ RankingExists /\ ~Happened("like") /\ ~Happened("unlike")
    =>
    /\ NoRepeats
    /\ \A i \in 1 .. Len(ranking) : i > cursor.offset => ranking[i] \notin Returned

MissRanks ==
    Static /\ kind \in ByPopularity /\ sources \subseteq {"redis"} /\ RankingExists =>
    /\ cursor.offset <= Len(ranking)
    /\ \A i \in 1 .. Len(ranking) : i <= cursor.offset => ranking[i] \in Returned
    /\ ~hasMore => cursor.offset = Len(ranking)

(* A page of a ranking whose members all exist is a stretch of it. *)
RankPage(rows, n) ==
    /\ rows \in Seq(Video) /\ n = Len(rows) /\ n \in Nat /\ n <= Limit
    /\ pages' = Append(pages, rows) /\ hasMore' = (n = Limit)
    /\ cursor'.offset = cursor.offset + n
    /\ cursor.offset <= Len(ranking) => cursor.offset + n <= Len(ranking)
    /\ n < Limit => cursor.offset + n >= Len(ranking)
    /\ \A v \in ToSet(rows) : \E i \in 1 .. n :
          cursor.offset + i \in 1 .. Len(ranking) /\ v = ranking[cursor.offset + i]
    /\ \A i \in 1 .. n : ranking[cursor.offset + i] \in ToSet(rows)

LEMMA RankTurn ==
  ASSUME Types, PageTurn, kind \in ByPopularity, sources' \subseteq {"redis"}, RankingExists
  PROVE  \E rows, n : RankPage(rows, n)
<1>1. cursor \in Cursor /\ cursor.offset \in Nat
  BY StateTypes
<1>2. "mysql" \notin sources'
  OBVIOUS
<1>3. \E rows : /\ rows = RankedRows
                /\ pages' = Append(pages, rows) /\ hasMore' = (Len(rows) = Limit)
                /\ cursor'.offset = cursor.offset + Len(rows)
  <2>1. CASE kind = "order_by_popularity"
    <3>1. PICK rows : StoredTurn(rows) \/ RankedTurn(rows)
      BY <2>1, TurnOfKind
    <3>2. ~StoredTurn(rows)
      BY <1>2, TurnKeeps DEF StoredTurn
    <3>3. rows = RankedRows /\ Turn(rows, "redis", [cursor EXCEPT !.offset = @ + Len(rows)])
      BY <3>1, <3>2 DEF RankedTurn
    <3>4. /\ pages' = Append(pages, rows) /\ hasMore' = (Len(rows) = Limit)
          /\ cursor' = [cursor EXCEPT !.offset = @ + Len(rows)]
      BY <3>3, TurnKeeps
    <3>5. cursor'.offset = cursor.offset + Len(rows)
      BY <1>1, <3>4 DEF Cursor
    <3> QED
      BY <3>3, <3>4, <3>5
  <2>2. CASE kind \in {"listByPopularity", "hotView"}
    <3>1. PICK rows : HotStoredTurn(rows) \/ HotRankedTurn(rows)
      BY <2>2, TurnOfKind
    <3>2. ~HotStoredTurn(rows)
      BY <1>2, TurnKeeps DEF HotStoredTurn
    <3>3. PICK offset : offset = cursor.offset + Len(rows)
      OBVIOUS
    <3>4. rows = RankedRows /\ Turn(rows, "redis", GivenBack(PlaceAfter(rows, offset)))
      BY <3>1, <3>2, <3>3 DEF HotRankedTurn
    <3>5. /\ pages' = Append(pages, rows) /\ hasMore' = (Len(rows) = Limit)
          /\ cursor' = GivenBack(PlaceAfter(rows, offset))
      BY <3>4, TurnKeeps
    <3>6. PlaceAfter(rows, offset).offset = offset
      BY DEF PlaceAfter, NoCursor
    <3>7. cursor'.offset = offset
      BY <3>5, <3>6 DEF GivenBack, NoCursor
    <3> QED
      BY <3>3, <3>4, <3>5, <3>7
  <2> QED
    BY <2>1, <2>2 DEF ByPopularity
<1>4. PICK rows : /\ rows = RankedRows
                  /\ pages' = Append(pages, rows) /\ hasMore' = (Len(rows) = Limit)
                  /\ cursor'.offset = cursor.offset + Len(rows)
  BY <1>3
<1>5. PICK ids :
            /\ ids \in Seq(Video) /\ Len(ids) \in Nat /\ Len(ids) <= Limit
            /\ cursor.offset <= Len(ranking) => cursor.offset + Len(ids) <= Len(ranking)
            /\ Len(ids) < Limit => cursor.offset + Len(ids) >= Len(ranking)
            /\ \A i \in 1 .. Len(ids) :
                  cursor.offset + i \in 1 .. Len(ranking) /\ ids[i] = ranking[cursor.offset + i]
            /\ RankedRows \in Seq(Video)
            /\ ToSet(RankedRows) = ToSet(ids) \cap videos
            /\ ToSet(ids) \subseteq videos => Len(RankedRows) = Len(ids)
            /\ ToSet(ids) \subseteq ToSet(ranking)
  BY RankRows
<1>6. ToSet(ids) \subseteq videos
  BY <1>5 DEF RankingExists
<1>7. PICK n : n = Len(rows)
  OBVIOUS
<1>8. rows \in Seq(Video) /\ n = Len(ids) /\ ToSet(rows) = ToSet(ids)
  BY <1>4, <1>5, <1>6, <1>7
<1>9. ToSet(ids) = {ids[i] : i \in 1 .. n}
  BY <1>5, <1>8, LastRow
<1>10. /\ \A v \in ToSet(rows) : \E i \in 1 .. n :
             cursor.offset + i \in 1 .. Len(ranking) /\ v = ranking[cursor.offset + i]
       /\ \A i \in 1 .. n : ranking[cursor.offset + i] \in ToSet(rows)
  BY <1>5, <1>8, <1>9
<1>11. RankPage(rows, n)
  BY <1>4, <1>5, <1>7, <1>8, <1>10 DEF RankPage
<1> QED
  BY <1>11

LEMMA RankPageStep ==
  ASSUME Basic, RankInv, MissRanks, PageTurn
  PROVE  RankInv' /\ MissRanks'
<1>0. /\ Types /\ Returned \subseteq Video /\ pages \in Seq(Seq(Video))
      /\ ranking \in Seq(Video) /\ Len(ranking) \in Nat /\ cursor.offset \in Nat
      /\ \A i, j \in 1 .. Len(ranking) : ranking[i] = ranking[j] => i = j
  BY StateTypes, ReturnedType, LenProperties DEF Basic, Boxes
<1>1. /\ kind' = kind /\ videos' = videos /\ ranking' = ranking /\ hasMore
      /\ sources \subseteq sources'
      /\ \A what : Happened(what)' <=> Happened(what)
      /\ Static' <=> Static
  BY TurnFrame
<1>2. RankingExists' <=> RankingExists
  BY <1>1 DEF RankingExists
<1> SUFFICES ASSUME kind \in ByPopularity, sources' \subseteq {"redis"}, RankingExists
             PROVE  RankInv' /\ MissRanks'
  BY <1>1, <1>2 DEF RankInv, MissRanks, ByPopularity
<1>3. PICK rows, n : RankPage(rows, n)
  BY <1>0, RankTurn
<1>4. PICK offset, len : offset = cursor.offset /\ len = Len(ranking)
  OBVIOUS
<1>5. /\ rows \in Seq(Video) /\ n \in Nat /\ n <= Limit
      /\ pages' = Append(pages, rows) /\ hasMore' = (n = Limit)
      /\ cursor'.offset = offset + n
      /\ offset <= len => offset + n <= len
      /\ n < Limit => offset + n >= len
      /\ \A v \in ToSet(rows) : \E i \in 1 .. n :
            offset + i \in 1 .. len /\ v = ranking[offset + i]
      /\ \A i \in 1 .. n : ranking[offset + i] \in ToSet(rows)
  BY <1>3, <1>4 DEF RankPage
<1>6. offset \in Nat /\ len \in Nat
  BY <1>0, <1>4
<1>7. /\ Returned' = Returned \cup ToSet(rows)
      /\ Returned \cap ToSet(rows) = {} /\ NoRepeats => NoRepeats'
  BY <1>0, <1>5, AppendPage
<1>8. RankInv'
  <2> SUFFICES ASSUME ~Happened("like"), ~Happened("unlike")
               PROVE  /\ NoRepeats'
                      /\ \A i \in 1 .. len : i > offset + n => ranking[i] \notin Returned'
    BY <1>1, <1>4, <1>5 DEF RankInv
  <2>1. NoRepeats /\ \A i \in 1 .. len : i > offset => ranking[i] \notin Returned
    BY <1>1, <1>4 DEF RankInv
  <2>2. ASSUME NEW v \in ToSet(rows) PROVE v \notin Returned
    <3>1. PICK i \in 1 .. n : offset + i \in 1 .. len /\ v = ranking[offset + i]
      BY <1>5, <2>2
    <3>2. offset + i > offset
      BY <1>6
    <3> QED
      BY <2>1, <3>1, <3>2
  <2>3. ASSUME NEW i \in 1 .. len, i > offset + n PROVE ranking[i] \notin Returned'
    <3>1. i > offset
      BY <1>5, <1>6, <2>3
    <3>2. ranking[i] \notin ToSet(rows)
      <4> SUFFICES ASSUME ranking[i] \in ToSet(rows) PROVE FALSE
        OBVIOUS
      <4>1. PICK j \in 1 .. n : offset + j \in 1 .. len /\ ranking[i] = ranking[offset + j]
        BY <1>5
      <4>2. i = offset + j
        BY <1>0, <1>4, <4>1
      <4> QED
        BY <1>5, <1>6, <2>3, <4>2
    <3> QED
      BY <1>7, <2>1, <3>1, <3>2
  <2> QED
    BY <1>7, <2>1, <2>2, <2>3
<1>9. MissRanks'
  <2> SUFFICES ASSUME Static
               PROVE  /\ offset + n <= len
                      /\ \A i \in 1 .. len : i <= offset + n => ranking[i] \in Returned'
                      /\ ~hasMore' => offset + n = len
    BY <1>1, <1>4, <1>5 DEF MissRanks
  <2>1. /\ offset <= len
        /\ \A i \in 1 .. len : i <= offset => ranking[i] \in Returned
    BY <1>1, <1>4 DEF MissRanks
  <2>2. offset + n <= len
    BY <1>5, <2>1
  <2>3. ASSUME NEW i \in 1 .. len, i <= offset + n PROVE ranking[i] \in Returned'
    <3>1. CASE i <= offset
      BY <1>7, <2>1, <3>1
    <3>2. CASE ~(i <= offset)
      <4>1. PICK j : j = i - offset
        OBVIOUS
      <4>2. j \in 1 .. n /\ offset + j = i
        BY <1>5, <1>6, <2>3, <3>2, <4>1
      <4> QED
        BY <1>5, <1>7, <4>2
    <3> QED
      BY <3>1, <3>2
  <2>4. ASSUME ~hasMore' PROVE offset + n = len
    <3>1. n # Limit
      BY <1>5, <2>4
    <3>2. n < Limit
      BY <1>5, <3>1, LimitType
    <3> QED
      BY <1>5, <1>6, <2>2, <3>2
  <2> QED
    BY <2>2, <2>3, <2>4
<1> QED
  BY <1>8, <1>9

(* Without likes a ranking whose members exist has had no others, and none *)
(* of its members has moved back.                                          *)
LEMMA RankingKeeps ==
  ASSUME Basic, NEW v \in Video, Change(v), ~LikeVideo(v), ~UnlikeVideo(v), RankingExists'
  PROVE  /\ RankingExists
         /\ \A i \in 1 .. Len(ranking') :
               \E j \in 1 .. Len(ranking) : i <= j /\ ranking'[i] = ranking[j]
<1>1. /\ ranking \in Seq(Video) /\ Len(ranking) \in Nat
      /\ ToSet(ranking') \subseteq videos'
      /\ lastId \in Nat /\ v \in Nat
      /\ \A u \in ToSet(ranking) : u <= lastId
  BY StateTypes, LenProperties, Times DEF Basic, Boxes, RankingExists
<1>2. CASE ranking' = ranking
  <2>1. \A i \in 1 .. Len(ranking) : i <= i
    BY <1>1
  <2>2. \A u \in videos' : u \in videos \/ (u = v /\ v > lastId)
    BY DEF Change, Arrive, Deliver, DeleteVideo, Follow, Unfollow, LikeVideo, UnlikeVideo
  <2>3. v > lastId => v \notin ToSet(ranking)
    BY <1>1
  <2> QED
    BY <1>1, <1>2, <2>1, <2>2, <2>3 DEF RankingExists
<1>3. CASE ranking' # ranking
  <2>1. v \in videos /\ videos' = videos \ {v} /\ ranking' = Without(ranking, v)
    BY <1>3 DEF Change, Arrive, Deliver, DeleteVideo, Follow, Unfollow
  <2>2. PICK m : m = ranking
    OBVIOUS
  <2>3. /\ ToSet(Without(m, v)) = ToSet(m) \ {v}
        /\ \A i \in 1 .. Len(Without(m, v)) :
               \E j \in 1 .. Len(m) : i <= j /\ Without(m, v)[i] = m[j]
    BY <1>1, <2>2, WithoutMember
  <2>4. RankingExists
    BY <1>1, <2>1, <2>2, <2>3 DEF RankingExists
  <2> QED
    BY <2>1, <2>2, <2>3, <2>4
<1> QED
  BY <1>2, <1>3

LEMMA RankQuietStep ==
  ASSUME Basic, RankInv, MissRanks,
         \/ \E v \in Video : Change(v)
         \/ \E before \in {0} \cup {Unix(CreateTime[v]) : v \in Video} : CacheTimeline(before)
         \/ UNCHANGED vars
  PROVE  RankInv' /\ MissRanks'
<1>1. ASSUME NEW before, CacheTimeline(before) PROVE RankInv' /\ MissRanks'
  BY <1>1, CacheKeeps DEF RankInv, MissRanks, Cached, ByPopularity
<1>2. CASE UNCHANGED vars
  <2>1. /\ kind' = kind /\ cursor' = cursor /\ videos' = videos /\ ranking' = ranking
        /\ hasMore' = hasMore /\ Returned' = Returned /\ (NoRepeats => NoRepeats')
        /\ sources' = sources /\ (Static' <=> Static)
        /\ (Happened("unlike")' <=> Happened("unlike"))
        /\ (Happened("like")' <=> Happened("like"))
    BY <1>2, QuietPages DEF vars, dataVars, Static, Happened
  <2> QED
    BY <2>1 DEF RankInv, MissRanks, RankingExists
<1>3. ASSUME NEW v \in Video, Change(v) PROVE RankInv' /\ MissRanks'
  <2>1. /\ kind' = kind /\ cursor' = cursor /\ Returned' = Returned /\ sources' = sources
        /\ NoRepeats => NoRepeats'
        /\ Happened("like") => Happened("like")'
        /\ Happened("unlike") => Happened("unlike")'
        /\ ~Static'
    BY <1>3, ChangeKeeps
  <2>2. MissRanks'
    BY <2>1 DEF MissRanks
  <2>3. ASSUME kind' \in ByPopularity, sources' \subseteq {"redis"}, RankingExists',
               ~Happened("like")', ~Happened("unlike")'
        PROVE  /\ NoRepeats'
               /\ \A i \in 1 .. Len(ranking') : i > cursor'.offset => ranking'[i] \notin Returned'
    <3>1. ~LikeVideo(v) /\ ~UnlikeVideo(v)
      BY <2>3, ChangesHappen
    <3>2. /\ RankingExists
          /\ \A i \in 1 .. Len(ranking') :
                \E j \in 1 .. Len(ranking) : i <= j /\ ranking'[i] = ranking[j]
      BY <1>3, <2>3, <3>1, RankingKeeps
    <3>3. /\ NoRepeats
          /\ \A i \in 1 .. Len(ranking) : i > cursor.offset => ranking[i] \notin Returned
      BY <2>1, <2>3, <3>2 DEF RankInv
    <3>4. ASSUME NEW i \in 1 .. Len(ranking'), i > cursor.offset
          PROVE  ranking'[i] \notin Returned
      <4>1. PICK j \in 1 .. Len(ranking) : i <= j /\ ranking'[i] = ranking[j]
        BY <3>2
      <4>2. cursor.offset \in Nat /\ i \in Int /\ j \in Int
        BY StateTypes DEF Basic
      <4>3. j > cursor.offset
        BY <3>4, <4>1, <4>2
      <4> QED
        BY <3>3, <4>1, <4>3
    <3> QED
      BY <2>1, <3>3, <3>4
  <2>4. RankInv'
    BY <2>3 DEF RankInv, ByPopularity
  <2> QED
    BY <2>2, <2>4
<1> QED
  BY <1>1, <1>2, <1>3

-----------------------------------------------------------------------------
(* A quiet session of a list whose cursor is a whole second misses nothing *)
(* as long as no two videos share one.                                     *)

TimeAhead(v, score) == score = 0 \/ CreateTime[v] < score * 1000

MissTime == Static /\ WholeSeconds =>
    /\ outbox \subseteq videos
    /\ \A page \in listCache :
          IsTop(page.rows, BeforeSecond(TimelineSet, page.before), TimeOrder)
    /\ SeparateSeconds =>
          \A v \in TimelineSet : v \in Returned \/ (hasMore /\ TimeAhead(v, cursor.score))

LEMMA SetFrame ==
  ASSUME kind' = kind, videos' = videos, outbox' = outbox
  PROVE  /\ TimelineSet' = TimelineSet
         /\ SeparateSeconds' <=> SeparateSeconds
         /\ WholeSeconds' <=> WholeSeconds
         /\ TimeOrder' = TimeOrder
         /\ \A rows, before : IsTop(rows, BeforeSecond(TimelineSet, before), TimeOrder)'
                              <=> IsTop(rows, BeforeSecond(TimelineSet, before), TimeOrder)
  BY DEF TimelineSet, SeparateSeconds, WholeSeconds, TimeOrder, Newer, IsTop, BeforeSecond

(* A page of such a list in a quiet session, cached or not, is the top of  *)
(* what lies before its cursor.                                            *)
TimePageOf(rows) ==
    /\ rows \in Seq(Video) /\ pages' = Append(pages, rows)
    /\ hasMore' = (Len(rows) = Limit)
    /\ rows # <<>> => cursor'.score = Unix(CreateTime[Last(rows)])
    /\ IsTop(rows, BeforeSecond(TimelineSet, cursor.score), TimeOrder)
    /\ listCache' \in {listCache, WithCached(cursor.score, rows)}

LEMMA TimeTurn ==
  ASSUME Types, MissTime, Static, WholeSeconds, PageTurn
  PROVE  \E rows : TimePageOf(rows)
<1>0. cursor \in Cursor
  BY StateTypes
<1>1. PICK rows : LatestTurn(rows) \/ TimelineTurn(rows)
  BY TurnOfKind
<1>2. CASE LatestTurn(rows)
  <2>1. /\ Turn(rows, "mysql", LatestNext(rows)) /\ listCache' = listCache
        /\ rows = LatestRows /\ kind = "latest"
    BY <1>2 DEF LatestTurn
  <2>2. rows \in Seq(Video)
    BY <1>2, TimePageTypes DEF PageOf
  <2>3. TimelineSet = videos
    BY <2>1 DEF TimelineSet
  <2>4. IsTop(rows, BeforeSecond(TimelineSet, cursor.score), TimeOrder)
    BY <2>1, <2>3, TimeTops
  <2>5. /\ pages' = Append(pages, rows) /\ hasMore' = (Len(rows) = Limit)
        /\ cursor' = LatestNext(rows)
    BY <2>1, TurnKeeps
  <2>6. rows # <<>> => cursor'.score = Unix(CreateTime[Last(rows)])
    BY <1>0, <2>5 DEF LatestNext, Cursor
  <2>7. TimePageOf(rows)
    BY <2>1, <2>2, <2>4, <2>5, <2>6 DEF TimePageOf
  <2> QED
    BY <2>7
<1>3. CASE TimelineTurn(rows)
  <2>1. Turn(rows, "mysql", TimelineNext(rows))
    BY <1>3 DEF TimelineTurn
  <2>2. /\ rows \in Seq(Video)
        /\ listCache' \in {listCache, WithCached(cursor.score, rows)}
    BY <1>3, TimePageTypes DEF PageOf
  <2>4. IsTop(rows, BeforeSecond(TimelineSet, cursor.score), TimeOrder)
    <3>1. CASE rows \in CachedRows(cursor.score)
      BY <3>1 DEF CachedRows, MissTime
    <3>2. CASE rows = TimelineRows(cursor.score)
      BY <3>2, TimeTops
    <3> QED
      BY <1>3, <3>1, <3>2 DEF TimelineTurn
  <2>5. /\ pages' = Append(pages, rows) /\ hasMore' = (Len(rows) = Limit)
        /\ cursor' = TimelineNext(rows)
    BY <2>1, TurnKeeps
  <2>6. rows # <<>> => cursor'.score = Unix(CreateTime[Last(rows)])
    BY <2>5 DEF TimelineNext, NoCursor
  <2>7. TimePageOf(rows)
    BY <2>2, <2>4, <2>5, <2>6 DEF TimePageOf
  <2> QED
    BY <2>7
<1> QED
  BY <1>1, <1>2, <1>3

LEMMA MissTimePageStep ==
  ASSUME Basic, MissTime, PageTurn
  PROVE  MissTime'
<1>0. Types /\ pages \in Seq(Seq(Video)) /\ videos \subseteq Video
  BY StateTypes, ReturnedType DEF Basic
<1>1. /\ kind' = kind /\ videos' = videos /\ outbox' = outbox /\ hasMore
      /\ Static' <=> Static
  BY TurnFrame
<1>2. /\ TimelineSet' = TimelineSet
      /\ SeparateSeconds' <=> SeparateSeconds
      /\ WholeSeconds' <=> WholeSeconds
      /\ \A rows, before : IsTop(rows, BeforeSecond(TimelineSet, before), TimeOrder)'
                           <=> IsTop(rows, BeforeSecond(TimelineSet, before), TimeOrder)
  BY <1>1, SetFrame
<1> SUFFICES ASSUME Static, WholeSeconds PROVE MissTime'
  BY <1>1, <1>2 DEF MissTime
<1>3. PICK rows : TimePageOf(rows)
  BY <1>0, TimeTurn
<1>4. /\ rows \in Seq(Video) /\ pages' = Append(pages, rows)
      /\ hasMore' = (Len(rows) = Limit)
      /\ rows # <<>> => cursor'.score = Unix(CreateTime[Last(rows)])
      /\ listCache' \in {listCache, WithCached(cursor.score, rows)}
  BY <1>3 DEF TimePageOf
<1>5. IsTop(rows, BeforeSecond(TimelineSet, cursor.score), TimeOrder)
  BY <1>3 DEF TimePageOf
<1>6. Returned' = Returned \cup ToSet(rows)
  BY <1>0, <1>4, AppendPage
<1>7. outbox \subseteq videos
  BY DEF MissTime
<1>8. ASSUME NEW page \in listCache'
      PROVE  IsTop(page.rows, BeforeSecond(TimelineSet, page.before), TimeOrder)
  <2>1. page \in listCache \/ (page.rows = rows /\ page.before = cursor.score)
    BY <1>4, <1>8 DEF WithCached
  <2> QED
    BY <1>5, <2>1 DEF MissTime
<1>9. ASSUME SeparateSeconds, NEW v \in TimelineSet
      PROVE  v \in Returned' \/ (hasMore' /\ TimeAhead(v, cursor'.score))
  <2>1. v \in Returned \/ TimeAhead(v, cursor.score)
    BY <1>9 DEF MissTime
  <2>2. CASE v \in Returned \/ v \in ToSet(rows)
    BY <1>6, <2>2
  <2>3. CASE v \notin Returned /\ v \notin ToSet(rows)
    <3>1. v \in BeforeSecond(TimelineSet, cursor.score) \ ToSet(rows)
      BY <2>1, <2>3 DEF BeforeSecond, TimeAhead
    <3>2. Len(rows) = Limit /\ \A u \in ToSet(rows) : <<u, v>> \in TimeOrder
      BY <1>5, <3>1 DEF IsTop
    <3>3. rows # <<>>
      BY <1>4, <3>2, FullPage
    <3>4. PICK l : l = Last(rows)
      OBVIOUS
    <3>5. l \in BeforeSecond(TimelineSet, cursor.score) /\ l \in ToSet(rows)
      BY <1>5, <3>3, <3>4, LastInOrder
    <3>6. l \in videos /\ v \in videos /\ CreateTime[l] >= CreateTime[v]
      <4>1. l \in videos /\ v \in videos /\ Newer(l, v)
        BY <3>2, <3>5 DEF BeforeSecond, TimelineSet, TimeOrder
      <4>2. CreateTime[l] \in Nat /\ CreateTime[v] \in Nat
        BY <1>0, <4>1, Times
      <4> QED
        BY <4>1, <4>2 DEF Newer
    <3>7. PICK x \in Nat, y \in Nat : x = CreateTime[l] /\ y = CreateTime[v]
      BY <1>0, <3>6, Times
    <3>8. Unix(x) # Unix(y) /\ y < x
      <4>1. l # v
        BY <2>3, <3>5
      <4>2. Unix(x) # Unix(y)
        BY <1>9, <3>6, <3>7, <4>1 DEF SeparateSeconds
      <4>3. x # y
        BY <4>2
      <4> QED
        BY <3>6, <3>7, <4>2, <4>3
    <3>9. y < Unix(x) * 1000
      BY <3>8, UnixApart
    <3>10. cursor'.score = Unix(x)
      BY <1>4, <3>3, <3>4, <3>7
    <3>11. TimeAhead(v, cursor'.score)
      BY <3>7, <3>9, <3>10 DEF TimeAhead
    <3>12. hasMore'
      BY <1>4, <3>2
    <3> QED
      BY <3>11, <3>12
  <2> QED
    BY <2>2, <2>3
<1>10. \A page \in listCache' :
          IsTop(page.rows, BeforeSecond(TimelineSet, page.before), TimeOrder)'
  BY <1>2, <1>8
<1> QED
  BY <1>1, <1>2, <1>7, <1>9, <1>10 DEF MissTime, TimeAhead

LEMMA MissTimeQuietStep ==
  ASSUME Basic, MissTime,
         \/ \E v \in Video : Change(v)
         \/ \E before \in {0} \cup {Unix(CreateTime[v]) : v \in Video} : CacheTimeline(before)
         \/ UNCHANGED vars
  PROVE  MissTime'
<1>1. ASSUME NEW before, CacheTimeline(before) PROVE MissTime'
  <2>1. /\ kind' = kind /\ videos' = videos /\ outbox' = outbox /\ kind \in Cached
        /\ cursor' = cursor /\ hasMore' = hasMore /\ Returned' = Returned
        /\ Static' <=> Static
        /\ listCache' = WithCached(before, TimelineRows(before))
    BY <1>1, CacheKeeps
  <2>2. /\ TimelineSet' = TimelineSet
        /\ SeparateSeconds' <=> SeparateSeconds
        /\ WholeSeconds' <=> WholeSeconds
        /\ \A rows, score : IsTop(rows, BeforeSecond(TimelineSet, score), TimeOrder)'
                            <=> IsTop(rows, BeforeSecond(TimelineSet, score), TimeOrder)
    BY <2>1, SetFrame
  <2> SUFFICES ASSUME Static, WholeSeconds PROVE MissTime'
    BY <2>1, <2>2 DEF MissTime
  <2>3. IsTop(TimelineRows(before), BeforeSecond(TimelineSet, before), TimeOrder)
    BY TimeTops DEF Basic
  <2>4. \A page \in listCache' :
           page \in listCache \/ (page.rows = TimelineRows(before) /\ page.before = before)
    BY <2>1 DEF WithCached
  <2>5. \A page \in listCache' :
           IsTop(page.rows, BeforeSecond(TimelineSet, page.before), TimeOrder)
    BY <2>3, <2>4 DEF MissTime
  <2>6. /\ outbox \subseteq videos
        /\ SeparateSeconds =>
              \A v \in TimelineSet : v \in Returned \/ (hasMore /\ TimeAhead(v, cursor.score))
    BY DEF MissTime
  <2>7. \A page \in listCache' :
           IsTop(page.rows, BeforeSecond(TimelineSet, page.before), TimeOrder)'
    BY <2>2, <2>5
  <2> QED
    BY <2>1, <2>2, <2>6, <2>7 DEF MissTime, TimeAhead
<1>2. CASE UNCHANGED vars
  <2>1. /\ kind' = kind /\ videos' = videos /\ outbox' = outbox /\ listCache' = listCache
        /\ cursor' = cursor /\ hasMore' = hasMore /\ Returned' = Returned
        /\ Static' <=> Static
    BY <1>2, QuietPages DEF vars, dataVars, Static
  <2>2. /\ TimelineSet' = TimelineSet
        /\ SeparateSeconds' <=> SeparateSeconds
        /\ WholeSeconds' <=> WholeSeconds
        /\ \A rows, score : IsTop(rows, BeforeSecond(TimelineSet, score), TimeOrder)'
                            <=> IsTop(rows, BeforeSecond(TimelineSet, score), TimeOrder)
    BY <2>1, SetFrame
  <2>3. \A page \in listCache' : page \in listCache
    BY <2>1
  <2> SUFFICES ASSUME Static, WholeSeconds PROVE MissTime'
    BY <2>1, <2>2 DEF MissTime
  <2>4. \A page \in listCache' :
           IsTop(page.rows, BeforeSecond(TimelineSet, page.before), TimeOrder)'
    BY <2>2, <2>3 DEF MissTime
  <2> QED
    BY <2>1, <2>2, <2>4 DEF MissTime, TimeAhead
<1>3. ASSUME NEW v \in Video, Change(v) PROVE MissTime'
  BY <1>3, ChangeKeeps DEF MissTime
<1> QED
  BY <1>1, <1>2, <1>3

-----------------------------------------------------------------------------
(* The inductive invariant of a session *)

(* Only an answer ends a session. *)
Begun == pages = <<>> => hasMore

ShownInv == TimeInv /\ BoxInv /\ BoxOrderInv /\ LikesInv /\ PopularInv /\ HotHasNoPlace /\ RankInv

MissInv == Begun /\ MissTime /\ MissBoxes /\ MissLikes /\ MissPopular /\ MissRanks

SessionInv == Basic /\ ShownInv /\ MissInv

LEMMA SessionInit ==
  ASSUME Init
  PROVE  SessionInv
<1>1. Basic
  BY BasicInit
<1>2. /\ pages = <<>> /\ listCache = {} /\ sources = {} /\ cursor = NoCursor /\ changes = <<>>
      /\ hasMore = TRUE /\ start = videos /\ ranking \in Seq(Video)
      /\ inbox \subseteq Video /\ outbox \subseteq Video
      /\ kind # "followings" => outbox \subseteq videos
  BY StateTypes, BasicInit DEF Init, Basic
<1>3. /\ Returned = {} /\ FlattenSeq(pages) = <<>> /\ NoRepeats
      /\ InOrder(FlattenSeq(pages), TimeOrder) /\ InOrder(FlattenSeq(pages), StartOrder)
  <2>1. Returned = {} /\ NoRepeats
    BY <1>2 DEF Returned, NoRepeats
  <2>2. FlattenSeq(pages) = <<>>
    BY <1>2, FlattenNone
  <2>3. \A R : InOrder(<<>>, R)
    BY DEF InOrder
  <2> QED
    BY <2>1, <2>2, <2>3
<1>4. /\ cursor.score = 0 /\ cursor.outboxScore = 0 /\ cursor.id = 0 /\ cursor.offset = 0
  BY <1>2 DEF NoCursor
<1>5. TimeInv
  BY <1>2, <1>3 DEF TimeInv
<1>6. BoxInv /\ LikesInv /\ PopularInv /\ HotHasNoPlace /\ RankInv
  BY <1>3, <1>4 DEF BoxInv, RepeatsIn, NoRepeats, LikesInv, PopularInv, HotHasNoPlace, RankInv
<1>7. BoxOrderInv
  BY <1>2, <1>3 DEF BoxOrderInv
<1>8. Begun /\ MissLikes /\ MissPopular
  BY <1>2, <1>4 DEF Begun, MissLikes, MissPopular, LikesAhead, PopularAhead
<1>9. MissTime
  BY <1>2, <1>4 DEF MissTime, TimeAhead, WholeSeconds, Cached
<1>10. MissBoxes
  BY <1>2, <1>4 DEF MissBoxes, BeforeScore
<1>11. MissRanks
  <2>1. Len(ranking) \in Nat
    BY <1>2, LenProperties
  <2> QED
    BY <1>2, <1>4, <2>1 DEF MissRanks
<1> QED
  BY <1>1, <1>5, <1>6, <1>7, <1>8, <1>9, <1>10, <1>11 DEF SessionInv, ShownInv, MissInv

LEMMA SessionStep ==
  ASSUME SessionInv, [Next]_vars
  PROVE  SessionInv'
<1>0. /\ Basic /\ TimeInv /\ BoxInv /\ BoxOrderInv /\ LikesInv /\ PopularInv
      /\ HotHasNoPlace /\ RankInv
      /\ Begun /\ MissTime /\ MissBoxes /\ MissLikes /\ MissPopular /\ MissRanks
  BY DEF SessionInv, ShownInv, MissInv
<1>1. Basic'
  BY <1>0, BasicStep
<1>2. CASE PageTurn
  <2>1. TimeInv' /\ BoxInv' /\ BoxOrderInv'
    BY <1>0, <1>2, TimePageStep, BoxPageStep, BoxOrderPageStep
  <2>2. LikesInv' /\ MissLikes'
    BY <1>0, <1>2, LikesPageStep
  <2>3. PopularInv' /\ MissPopular' /\ HotHasNoPlace'
    BY <1>0, <1>2, PopularPageStep, HotPageStep
  <2>4. RankInv' /\ MissRanks'
    BY <1>0, <1>2, RankPageStep
  <2>5. MissTime' /\ MissBoxes'
    BY <1>0, <1>2, MissTimePageStep, MissBoxesPageStep
  <2>6. Begun'
    <3>1. PICK rows, source, next : PageOf(rows, source, next)
      BY <1>0, <1>2, PageTypes DEF Basic
    <3>2. pages' = Append(pages, rows) /\ rows \in Seq(Video)
      BY <3>1, TurnKeeps DEF PageOf
    <3>3. pages' # <<>>
      BY <1>0, <3>2, ReturnedType, AppendPage
    <3> QED
      BY <3>3 DEF Begun
  <2> QED
    BY <1>1, <2>1, <2>2, <2>3, <2>4, <2>5, <2>6 DEF SessionInv, ShownInv, MissInv
<1>3. CASE \/ \E v \in Video : Change(v)
           \/ \E before \in {0} \cup {Unix(CreateTime[v]) : v \in Video} : CacheTimeline(before)
           \/ UNCHANGED vars
  <2>1. TimeInv'
    BY <1>0, <1>3, TimeQuietStep
  <2>2. BoxInv'
    BY <1>0, <1>3, BoxQuietStep
  <2>3. BoxOrderInv'
    BY <1>0, <1>3, BoxOrderQuietStep
  <2>4. LikesInv' /\ MissLikes'
    BY <1>0, <1>3, LikesQuietStep
  <2>5. PopularInv' /\ MissPopular' /\ HotHasNoPlace'
    BY <1>0, <1>3, PopularQuietStep
  <2>6. RankInv' /\ MissRanks'
    BY <1>0, <1>3, RankQuietStep
  <2>7. MissTime'
    BY <1>0, <1>3, MissTimeQuietStep
  <2>8. MissBoxes'
    BY <1>0, <1>3, MissBoxesQuietStep
  <2>9. Begun'
    <3>1. ASSUME NEW v \in Video, Change(v) PROVE pages' = pages /\ hasMore' = hasMore
      BY <1>0, <3>1, ChangeKeeps
    <3>2. ASSUME NEW before, CacheTimeline(before) PROVE pages' = pages /\ hasMore' = hasMore
      BY <3>2, CacheKeeps
    <3>3. UNCHANGED vars => pages' = pages /\ hasMore' = hasMore
      BY DEF vars
    <3>4. pages' = pages /\ hasMore' = hasMore
      BY <1>3, <3>1, <3>2, <3>3
    <3> QED
      BY <1>0, <3>4 DEF Begun
  <2> QED
    BY <1>1, <2>1, <2>2, <2>3, <2>4, <2>5, <2>6, <2>7, <2>8, <2>9
       DEF SessionInv, ShownInv, MissInv
<1> QED
  BY <1>2, <1>3, Steps

LEMMA Kinds ==
  ASSUME Basic
  PROVE  \/ WholeSeconds /\ kind # "followings" /\ ~ByLikes /\ kind \notin ByPopularity
         \/ kind = "followings" /\ ~ByLikes /\ kind \notin ByPopularity
         \/ ByLikes /\ ~ByFollowing /\ kind \notin ByPopularity
         \/ kind \in ByPopularity /\ ~ByFollowing
<1>1. kind \in Kind
  BY StateTypes DEF Basic
<1> QED
  BY <1>1 DEF Kind, QueryType, Cached, ByPopularity, WholeSeconds, ByLikes, ByFollowing

LEMMA OneSourceOf ==
  ASSUME sources \subseteq Source, OneSource
  PROVE  sources \subseteq {"redis"} \/ sources \subseteq {"mysql"}
<1> SUFFICES ASSUME "redis" \in sources, "mysql" \in sources PROVE FALSE
  BY DEF Source
<1>1. sources = {"redis", "mysql"}
  BY DEF Source
<1>2. IsFiniteSet({"redis"}) /\ Cardinality({"redis"}) = 1
  BY FS_Singleton
<1>3. Cardinality({"redis"} \cup {"mysql"}) = 2
  BY <1>2, FS_AddElement
<1>4. sources = {"redis"} \cup {"mysql"}
  BY <1>1
<1> QED
  BY <1>3, <1>4 DEF OneSource

-----------------------------------------------------------------------------
(* No video comes twice: a cursor leaves everything behind it that it has  *)
(* shown, for the lists and under the conditions the property names; a     *)
(* followings list repeats only what both boxes hold or have held (the     *)
(* FetchVideoList of four listers, mergeByCreateTime, the List... of       *)
(* FeedService).                                                           *)
THEOREM PagesNeverRepeat == Spec => []PagesDoNotRepeat
<1>1. Init => SessionInv
  BY SessionInit
<1>2. SessionInv /\ [Next]_vars => SessionInv'
  BY SessionStep
<1>3. SessionInv => PagesDoNotRepeat
  <2> SUFFICES ASSUME SessionInv PROVE PagesDoNotRepeat
    OBVIOUS
  <2>1. Basic /\ TimeInv /\ BoxInv /\ LikesInv /\ PopularInv /\ RankInv
    BY DEF SessionInv, ShownInv
  <2>2. NoRepeats => PagesDoNotRepeat
    BY DEF NoRepeats, PagesDoNotRepeat
  <2>7. RepeatsIn(Overlap) => PagesDoNotRepeat
    BY DEF RepeatsIn, PagesDoNotRepeat
  <2>3. CASE WholeSeconds
    BY <2>1, <2>2, <2>3 DEF TimeInv
  <2>4. CASE kind = "followings"
    BY <2>1, <2>7, <2>4 DEF BoxInv
  <2>5. CASE ByLikes
    <3>1. ~Happened("unlike") => NoRepeats
      BY <2>1, <2>5 DEF LikesInv
    <3> QED
      BY <2>2, <2>5, <3>1 DEF PagesDoNotRepeat
  <2>6. CASE kind \in ByPopularity
    <3>1. CASE /\ kind = "hotView" \/ sources # {"mysql"} \/ Happened("unlike")
               /\ \/ sources # {"redis"}
                  \/ ~RankingExists
                  \/ Happened("like") \/ Happened("unlike")
      BY <2>6, <3>1 DEF PagesDoNotRepeat
    <3>2. CASE kind # "hotView" /\ sources = {"mysql"} /\ ~Happened("unlike")
      <4>1. kind \in {"order_by_popularity", "listByPopularity"}
        BY <2>6, <3>2 DEF ByPopularity
      <4> QED
        BY <2>1, <2>2, <3>2, <4>1 DEF PopularInv
    <3>3. CASE /\ sources = {"redis"} /\ RankingExists
               /\ ~Happened("like") /\ ~Happened("unlike")
      BY <2>1, <2>2, <2>6, <3>3 DEF RankInv
    <3> QED
      BY <3>1, <3>2, <3>3
  <2> QED
    BY <2>1, <2>3, <2>4, <2>5, <2>6, Kinds
<1> QED
  BY <1>1, <1>2, <1>3, PTL DEF Spec

(* The lists by time go from new to old across their pages, cached pages   *)
(* of several ages included, and two boxes with a cursor each as long as   *)
(* their events were stamped in the order of creation and the property's   *)
(* other conditions hold (latestLister, FetchTimeline, followingsLister,   *)
(* fetchInbox, mergeByCreateTime).                                         *)
THEOREM PagesStayInOrder == Spec => []PagesGoBackInTime
<1>1. Init => SessionInv
  BY SessionInit
<1>2. SessionInv /\ [Next]_vars => SessionInv'
  BY SessionStep
<1>3. SessionInv => PagesGoBackInTime
  <2> SUFFICES ASSUME SessionInv PROVE PagesGoBackInTime
    OBVIOUS
  <2>1. /\ Basic /\ TimeInv /\ BoxOrderInv
        /\ FlattenSeq(pages) \in Seq(Video) /\ sources \subseteq Source
    BY StateTypes DEF SessionInv, ShownInv, Basic, Flat
  <2>2. PICK all : all = FlattenSeq(pages)
    OBVIOUS
  <2>3. DOMAIN all = 1 .. Len(all) /\ \A m \in DOMAIN all : all[m] \in Video
    BY <2>1, <2>2, LenProperties, ElementOfSeq
  <2> SUFFICES ASSUME \/ WholeSeconds
                      \/ BoxesInOrder /\ (OneSource \/ inboxCache = inbox),
                      NEW m \in DOMAIN all, NEW n \in DOMAIN all, m < n,
                      {all[m], all[n]} \subseteq start
               PROVE  CreateTime[all[m]] >= CreateTime[all[n]]
    BY <2>2 DEF PagesGoBackInTime, BoxesInOrder
  <2>4. CASE WholeSeconds
    <3>1. InOrder(all, TimeOrder)
      BY <2>1, <2>2, <2>4 DEF TimeInv
    <3>2. Newer(all[m], all[n])
      BY <2>3, <3>1 DEF InOrder, TimeOrder
    <3>3. CreateTime[all[m]] \in Nat /\ CreateTime[all[n]] \in Nat
      BY <2>3, Times
    <3> QED
      BY <3>2, <3>3 DEF Newer
  <2>5. CASE BoxesInOrder /\ (OneSource \/ inboxCache = inbox)
    <3>1. \E source \in Source : sources \subseteq {source} \/ inboxCache = inbox
      <4>1. "redis" \in Source /\ "mysql" \in Source
        BY DEF Source
      <4> QED
        BY <2>1, <2>5, <4>1, OneSourceOf
    <3>2. InOrder(all, StartOrder)
      BY <2>1, <2>2, <2>5, <3>1 DEF BoxOrderInv
    <3> QED
      BY <2>3, <3>2 DEF InOrder, StartOrder
  <2> QED
    BY <2>4, <2>5
<1> QED
  BY <1>1, <1>2, <1>3, PTL DEF Spec

(* A quiet session has shown everything it has to when it ends: what has   *)
(* not been shown lies ahead of the cursor, and the last page leaves       *)
(* nothing there (the same code).                                          *)
THEOREM PagesAreComplete == Spec => []PagesMissNothing
<1>1. Init => SessionInv
  BY SessionInit
<1>2. SessionInv /\ [Next]_vars => SessionInv'
  BY SessionStep
<1>3. SessionInv => PagesMissNothing
  <2> SUFFICES ASSUME SessionInv, ~hasMore, Static
               PROVE  \/ /\ kind = "followings"
                         /\ \/ inbox # {} /\ outbox # {}
                            \/ "redis" \in sources /\ inboxCache # inbox
                            \/ ~BoxesExist
                            \/ ~DistinctScores
                      \/ WholeSeconds /\ ~SeparateSeconds
                      \/ kind = "order_by_popularity" /\ sources = {"mysql"} /\ ~SeparateSeconds
                      \/ kind \in ByPopularity /\ ~(OneSource /\ RankingExists)
                      \/ Wanted \subseteq Returned
    BY DEF PagesMissNothing
  <2>1. /\ Basic /\ Begun /\ MissTime /\ MissBoxes /\ MissLikes /\ MissPopular /\ MissRanks
        /\ sources \subseteq Source /\ ranking \in Seq(Video)
    BY StateTypes DEF SessionInv, MissInv, Basic
  <2>2. CASE kind = "followings"
    <3>1. Wanted = inbox \cup outbox
      <4>1. ByFollowing /\ kind \notin ByPopularity
        BY <2>2 DEF ByFollowing, ByPopularity
      <4> QED
        BY <4>1 DEF Wanted
    <3>2. /\ BoxesExist /\ DistinctScores
          /\ inbox = {} \/ outbox = {}
          /\ "redis" \in sources => inboxCache = inbox
          => inbox \cup outbox \subseteq Returned
      BY <2>1, <2>2 DEF MissBoxes, QuietBoxes
    <3> QED
      BY <2>2, <3>1, <3>2
  <2>3. CASE WholeSeconds /\ kind # "followings" /\ kind \notin ByPopularity
    <3>1. SeparateSeconds => TimelineSet \subseteq Returned
      BY <2>1, <2>3 DEF MissTime
    <3>2. outbox \subseteq videos
      BY <2>1, <2>3 DEF MissTime
    <3>3. Wanted \subseteq TimelineSet
      <4>1. CASE kind = "listByFollowing"
        <5>1. Wanted = inbox \cup outbox
          <6>1. ByFollowing /\ kind \notin ByPopularity
            BY <4>1 DEF ByFollowing, ByPopularity
          <6> QED
            BY <6>1 DEF Wanted
        <5>2. inbox = {}
          BY <2>1, <2>3 DEF Basic, Boxes
        <5> QED
          BY <3>2, <5>1, <5>2 DEF TimelineSet
      <4>2. CASE kind # "listByFollowing"
        <5>1. Wanted = videos
          BY <2>3, <4>2 DEF Wanted, ByFollowing
        <5> QED
          BY <4>2, <5>1 DEF TimelineSet
      <4> QED
        BY <4>1, <4>2
    <3> QED
      BY <2>3, <3>1, <3>3
  <2>4. CASE ByLikes /\ ~ByFollowing /\ kind \notin ByPopularity
    <3>1. Wanted = videos
      BY <2>4 DEF Wanted
    <3>2. videos \subseteq Returned
      BY <2>1, <2>4 DEF MissLikes
    <3> QED
      BY <3>1, <3>2
  <2>5. CASE kind \in ByPopularity /\ ~ByFollowing
    <3> SUFFICES ASSUME OneSource, RankingExists,
                        kind = "order_by_popularity" /\ sources = {"mysql"} => SeparateSeconds
                 PROVE  Wanted \subseteq Returned
      BY <2>5
    <3>1. sources # {}
      BY <2>1 DEF Begun, Basic, Types
    <3>2. sources = {"redis"} \/ sources = {"mysql"}
      BY <2>1, <3>1, OneSourceOf
    <3>3. CASE sources = {"redis"}
      <4>1. Wanted = ToSet(ranking)
        BY <2>5, <3>3 DEF Wanted
      <4>2. /\ \A i \in 1 .. Len(ranking) : i <= cursor.offset => ranking[i] \in Returned
            /\ cursor.offset = Len(ranking)
        BY <2>1, <2>5, <3>3 DEF MissRanks
      <4>3. ToSet(ranking) = {ranking[i] : i \in 1 .. Len(ranking)} /\ Len(ranking) \in Nat
        BY <2>1, LastRow
      <4> QED
        BY <4>1, <4>2, <4>3
    <3>4. CASE sources = {"mysql"}
      <4>1. Wanted = videos
        BY <2>5, <3>4 DEF Wanted
      <4>2. videos \subseteq Returned
        BY <2>1, <2>5, <3>4 DEF MissPopular
      <4> QED
        BY <4>1, <4>2
    <3> QED
      BY <3>2, <3>3, <3>4
  <2> QED
    BY <2>1, <2>2, <2>3, <2>4, <2>5, Kinds
<1> QED
  BY <1>1, <1>2, <1>3, PTL DEF Spec
=============================================================================
