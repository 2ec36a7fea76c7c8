--------------------------- MODULE Engagement_proofs ---------------------------
(***************************************************************************)
(* Theorems about Engagement, for any number of accounts, videos, requests *)
(* and workers, and any number of redeliveries and publish errors: the     *)
(* counters, the rows and the ranking keep up with the requests.           *)
(***************************************************************************)
EXTENDS Engagement, FiniteSetTheorems, TLAPS

-----------------------------------------------------------------------------
(* Sets that differ in one element, and sequences one longer or shorter *)

Bit(P) == IF P THEN 1 ELSE 0

LEMMA SetMoves ==
  ASSUME NEW A, NEW B, NEW x, IsFiniteSet(A), A \ {x} = B \ {x}
  PROVE  /\ IsFiniteSet(B)
         /\ Cardinality(A) \in Nat /\ Cardinality(B) \in Nat
         /\ Cardinality(B) = Cardinality(A) + Bit(x \in B) - Bit(x \in A)
<1> DEFINE C == A \ {x}
<1>1. IsFiniteSet(C) /\ Cardinality(C) = Cardinality(A) - Bit(x \in A)
  <2>1. Cardinality(A) \in Nat
    BY FS_CardinalityType
  <2> QED
    BY <2>1, FS_RemoveElement DEF Bit
<1>2. x \notin C
  OBVIOUS
<1>3. B = IF x \in B THEN C \cup {x} ELSE C
  OBVIOUS
<1>4. Cardinality(C) \in Nat /\ Cardinality(A) \in Nat
  BY <1>1, FS_CardinalityType
<1> HIDE DEF C
<1>5. IsFiniteSet(B) /\ Cardinality(B) = Cardinality(C) + Bit(x \in B)
  BY <1>1, <1>2, <1>3, <1>4, FS_AddElement DEF Bit
<1> QED
  BY <1>1, <1>4, <1>5 DEF Bit

LEMMA Appended ==
  ASSUME NEW S, NEW s \in Seq(S), NEW e \in S
  PROVE  /\ Append(s, e) \in Seq(S)
         /\ DOMAIN s = 1 .. Len(s) /\ Len(s) \in Nat
         /\ DOMAIN Append(s, e) = 1 .. Len(s) + 1
         /\ \A j \in DOMAIN s : Append(s, e)[j] = s[j]
         /\ Append(s, e)[Len(s) + 1] = e
  OBVIOUS

LEMMA Headed ==
  ASSUME NEW S, NEW s \in Seq(S), s # << >>
  PROVE  /\ Head(s) \in S /\ Head(s) = s[1]
         /\ Tail(s) \in Seq(S)
         /\ Len(s) \in Nat \ {0} /\ DOMAIN s = 1 .. Len(s)
         /\ DOMAIN Tail(s) = 1 .. Len(s) - 1
         /\ \A j \in DOMAIN Tail(s) : Tail(s)[j] = s[j + 1]
  OBVIOUS

LEMMA Joined ==
  ASSUME NEW S, NEW s \in Seq(S), NEW t \in Seq(S)
  PROVE  /\ s \o t \in Seq(S) /\ Len(s \o t) = Len(s) + Len(t)
         /\ \A j \in 1 .. Len(s) + Len(t) :
               (s \o t)[j] = IF j <= Len(s) THEN s[j] ELSE t[j - Len(s)]
  OBVIOUS

(* t is s with e put in at place i. *)
Widens(t, s, i, e) ==
    /\ DOMAIN s = 1 .. Len(s) /\ Len(s) \in Nat
    /\ DOMAIN t = 1 .. Len(s) + 1
    /\ \A j \in 1 .. Len(s) + 1 :
          t[j] = IF j < i THEN s[j] ELSE IF j = i THEN e ELSE s[j - 1]

LEMMA Inserted ==
  ASSUME NEW S, NEW s \in Seq(S), NEW e \in S, NEW i \in 1 .. Len(s) + 1,
         NEW t, t = InsertAt(s, i, e)
  PROVE  t \in Seq(S) /\ Widens(t, s, i, e)
<1> DEFINE a == SubSeq(s, 1, i - 1)
           b == SubSeq(s, i, Len(s))
<1>1. Len(s) \in Nat /\ DOMAIN s = 1 .. Len(s)
  OBVIOUS
<1>2. /\ a \in Seq(S) /\ Len(a) = i - 1
      /\ \A j \in 1 .. i - 1 : a[j] = s[j]
  BY <1>1
<1>3. /\ b \in Seq(S) /\ Len(b) = Len(s) - i + 1
      /\ \A j \in 1 .. Len(s) - i + 1 : b[j] = s[i + j - 1]
  BY <1>1
<1> HIDE DEF a, b
<1>4. PICK u : u = <<e>>
  OBVIOUS
<1>5. u \in Seq(S) /\ Len(u) = 1 /\ u[1] = e
  BY <1>4
<1>5a. PICK c : c = a \o u
  OBVIOUS
<1>6. /\ c \in Seq(S) /\ Len(c) = i
      /\ \A j \in 1 .. i : c[j] = IF j < i THEN s[j] ELSE e
  <2>1. /\ c \in Seq(S) /\ Len(c) = Len(a) + 1
        /\ \A j \in 1 .. Len(a) + 1 : c[j] = IF j <= Len(a) THEN a[j] ELSE u[j - Len(a)]
    <3>1. a \in Seq(S) /\ u \in Seq(S)
      BY <1>2, <1>5
    <3>2. /\ a \o u \in Seq(S) /\ Len(a \o u) = Len(a) + Len(u)
          /\ \A j \in 1 .. Len(a) + Len(u) :
                (a \o u)[j] = IF j <= Len(a) THEN a[j] ELSE u[j - Len(a)]
      BY ONLY <3>1, Joined
    <3> QED
      BY <1>5, <1>5a, <3>2
  <2>2. ASSUME NEW j \in 1 .. i PROVE c[j] = IF j < i THEN s[j] ELSE e
    <3>1. j - Len(a) = 1 \/ j < i
      BY <1>2
    <3> QED
      BY <1>2, <1>5, <2>1, <3>1
  <2> QED
    BY <1>2, <2>1, <2>2
<1>7. PICK d : d = c \o b
  OBVIOUS
<1>8. /\ d \in Seq(S) /\ Len(d) = Len(s) + 1
      /\ \A j \in 1 .. Len(s) + 1 : d[j] = IF j <= i THEN c[j] ELSE b[j - i]
  <2>1. /\ d \in Seq(S) /\ Len(d) = Len(c) + Len(b)
        /\ \A j \in 1 .. Len(c) + Len(b) : d[j] = IF j <= Len(c) THEN c[j] ELSE b[j - Len(c)]
    BY <1>3, <1>6, <1>7, Joined
  <2> QED
    BY <1>1, <1>3, <1>6, <2>1
<1>9. ASSUME NEW j \in 1 .. Len(s) + 1
      PROVE  d[j] = IF j < i THEN s[j] ELSE IF j = i THEN e ELSE s[j - 1]
  <2>1. CASE j <= i
    BY <1>1, <1>6, <1>8, <2>1
  <2>2. CASE j > i
    <3>1. j - i \in 1 .. Len(s) - i + 1
      BY <1>1, <2>2
    <3>2. b[j - i] = s[i + (j - i) - 1] /\ i + (j - i) - 1 = j - 1
      BY <1>3, <3>1
    <3> QED
      BY <1>8, <2>2, <3>2
  <2> QED
    BY <1>1, <2>1, <2>2
<1>10. DOMAIN d = 1 .. Len(s) + 1
  BY <1>8
<1>11. d = t
  BY <1>4, <1>7, <1>5a DEF InsertAt, a, b
<1> QED
  BY <1>1, <1>8, <1>9, <1>10, <1>11 DEF Widens

(***************************************************************************)
(* The places of a sequence that hold an element of A: one more when such  *)
(* an element is appended or put in anywhere, one less when it is the head *)
(* and taken out.                                                          *)
(***************************************************************************)
Places(s, A) == {i \in DOMAIN s : s[i] \in A}

LEMMA PlacesFinite ==
  ASSUME NEW S, NEW s \in Seq(S), NEW A
  PROVE  IsFiniteSet(Places(s, A)) /\ Cardinality(Places(s, A)) \in Nat
<1>1. Places(s, A) \in SUBSET (1 .. Len(s)) /\ Len(s) \in Int
  BY DEF Places
<1>2. IsFiniteSet(1 .. Len(s))
  BY <1>1, FS_Interval
<1>3. IsFiniteSet(Places(s, A))
  BY <1>1, <1>2, FS_Subset
<1> QED
  BY <1>3, FS_CardinalityType

LEMMA PlacesShift ==
  ASSUME NEW S, NEW s \in Seq(S), NEW t \in Seq(S), NEW A,
         NEW i \in 1 .. Len(t), Len(t) = Len(s) + 1,
         \A j \in 1 .. Len(s) : s[j] = IF j < i THEN t[j] ELSE t[j + 1]
  PROVE  /\ Cardinality(Places(s, A)) \in Nat
         /\ Cardinality(Places(t, A)) = Cardinality(Places(s, A)) + Bit(t[i] \in A)
<1> DEFINE P == Places(s, A)
           Q == Places(t, A) \ {i}
           f == [j \in P |-> IF j < i THEN j ELSE j + 1]
<1>1. /\ Len(s) \in Nat /\ DOMAIN s = 1 .. Len(s)
      /\ DOMAIN t = 1 .. Len(s) + 1
  OBVIOUS
<1>2. ASSUME NEW j \in P PROVE f[j] \in Q
  BY <1>1, <1>2 DEF Places
<1>3. ASSUME NEW k \in Q PROVE \E j \in P : f[j] = k
  <2>1. k \in 1 .. Len(s) + 1 /\ k # i /\ t[k] \in A /\ i \in 1 .. Len(s) + 1
    BY <1>1, <1>3 DEF Places
  <2>2. CASE k < i
    <3>1. k \in P /\ f[k] = k
      BY <1>1, <2>1, <2>2 DEF Places
    <3> QED
      BY <3>1
  <2>3. CASE k > i
    <3>1. k - 1 \in 1 .. Len(s) /\ ~(k - 1 < i) /\ (k - 1) + 1 = k
      BY <1>1, <2>1, <2>3
    <3>2. k - 1 \in P
      BY <1>1, <2>1, <3>1 DEF Places
    <3> QED
      BY <3>1, <3>2
  <2> QED
    BY <1>1, <2>1, <2>2, <2>3
<1>4. ASSUME NEW j \in P, NEW k \in P, f[j] = f[k] PROVE j = k
  BY <1>1, <1>4 DEF Places
<1>5. f \in Bijection(P, Q)
  BY <1>2, <1>3, <1>4 DEF Bijection, Injection, Surjection, IsInjective, f
<1>6. IsFiniteSet(P) /\ Cardinality(P) \in Nat
  BY PlacesFinite
<1>7. Cardinality(Q) = Cardinality(P)
  BY <1>5, <1>6, FS_Bijection DEF ExistsBijection
<1>8. IsFiniteSet(Places(t, A)) /\ Cardinality(Places(t, A)) \in Nat
  BY PlacesFinite
<1>9. i \in Places(t, A) <=> t[i] \in A
  BY <1>1 DEF Places
<1> HIDE DEF P, Q, f
<1>10. Cardinality(Places(t, A) \ {i}) = Cardinality(Places(t, A)) - Bit(t[i] \in A)
  <2>1. CASE t[i] \in A
    BY <1>8, <1>9, <2>1, FS_RemoveElement DEF Bit
  <2>2. CASE t[i] \notin A
    <3>1. Places(t, A) \ {i} = Places(t, A)
      BY <1>9, <2>2
    <3>2. Cardinality(Places(t, A) \ {i}) = Cardinality(Places(t, A)) /\ Bit(t[i] \in A) = 0
      BY <2>2, <3>1 DEF Bit
    <3> QED
      BY <1>8, <3>2
  <2> QED
    BY <2>1, <2>2
<1> QED
  BY <1>6, <1>7, <1>8, <1>10 DEF P, Q, Bit

LEMMA PlacesAppended ==
  ASSUME NEW S, NEW s \in Seq(S), NEW e \in S, NEW A
  PROVE  Cardinality(Places(Append(s, e), A)) = Cardinality(Places(s, A)) + Bit(e \in A)
<1>1. PICK t : t = Append(s, e)
  OBVIOUS
<1>2. t \in Seq(S) /\ Len(s) \in Nat /\ Len(t) = Len(s) + 1 /\ t[Len(t)] = e
  BY <1>1
<1>3. \A j \in 1 .. Len(s) : s[j] = t[j] /\ j < Len(t)
  BY <1>1
<1>4. Len(t) \in 1 .. Len(t)
  BY <1>2
<1>5. Cardinality(Places(t, A)) = Cardinality(Places(s, A)) + Bit(t[Len(t)] \in A)
  BY <1>2, <1>3, <1>4, PlacesShift
<1> QED
  BY <1>1, <1>2, <1>5

LEMMA PlacesTail ==
  ASSUME NEW S, NEW s \in Seq(S), s # << >>, NEW A
  PROVE  Cardinality(Places(s, A)) = Cardinality(Places(Tail(s), A)) + Bit(Head(s) \in A)
<1>1. PICK t : t = Tail(s)
  OBVIOUS
<1>2. t \in Seq(S) /\ Len(s) \in Nat /\ Len(s) = Len(t) + 1 /\ s[1] = Head(s)
  BY <1>1
<1>3. \A j \in 1 .. Len(t) : t[j] = IF j < 1 THEN s[j] ELSE s[j + 1]
  BY <1>1
<1>4. 1 \in 1 .. Len(s)
  BY <1>2
<1>5. Cardinality(Places(s, A)) = Cardinality(Places(t, A)) + Bit(s[1] \in A)
  BY <1>2, <1>3, <1>4, PlacesShift
<1> QED
  BY <1>1, <1>2, <1>5

LEMMA PlacesInserted ==
  ASSUME NEW S, NEW s \in Seq(S), NEW e \in S, NEW A, NEW i \in 1 .. Len(s) + 1,
         NEW t, t = InsertAt(s, i, e)
  PROVE  Cardinality(Places(t, A)) = Cardinality(Places(s, A)) + Bit(e \in A)
<1>1. t \in Seq(S) /\ Widens(t, s, i, e)
  BY Inserted
<1>2. Len(t) = Len(s) + 1
  BY <1>1 DEF Widens
<1>3. ASSUME NEW j \in 1 .. Len(s) PROVE s[j] = IF j < i THEN t[j] ELSE t[j + 1]
  BY <1>1 DEF Widens
<1>4. t[i] = e /\ i \in 1 .. Len(t)
  BY <1>1, <1>2 DEF Widens
<1>5. Cardinality(Places(t, A)) = Cardinality(Places(s, A)) + Bit(t[i] \in A)
  BY <1>1, <1>2, <1>3, <1>4, PlacesShift
<1> QED
  BY <1>4, <1>5

-----------------------------------------------------------------------------
(* The counters and the ranking *)

LEMMA ChangeType ==
  /\ GiftWeight \in Nat /\ GiftWeight >= 2
  /\ Change \subseteq Int
  /\ 1 \in Change /\ -1 \in Change /\ GiftWeight \in Change
  /\ \A change \in Change : -GiftWeight <= change /\ change <= GiftWeight
  BY StatsAssumption DEF StatsAssumption, Change

(* Column d is column c with what v has there changed by n, or by more     *)
(* where GREATEST keeps it at 0.                                           *)
Moved(d, c, v, n) ==
    /\ d \in [Video -> Int]
    /\ c \in [Video -> Nat] => d \in [Video -> Nat]
    /\ \A u \in Video : d[u] >= 0 \/ d[u] = c[u] \/ c[u] < 0
    /\ \A u \in videos :
          d[u] \in IF u = v THEN {c[u] + n, Greatest0(c[u] + n)} ELSE {c[u]}

LEMMA NatColumn ==
  ASSUME NEW column \in [Video -> Nat]
  PROVE  column \in [Video -> Int]
  OBVIOUS

LEMMA MovedAt ==
  ASSUME NEW d, NEW c, NEW u, NEW n \in Int, Moved(d, c, u, n),
         NEW v \in videos, c[v] \in Int, NEW m, m = IF v = u THEN n ELSE 0
  PROVE  d[v] \in {c[v] + m, Greatest0(c[v] + m)}
<1>1. CASE v = u
  BY <1>1 DEF Moved
<1>2. CASE v # u
  <2>1. d[v] = c[v]
    BY <1>2 DEF Moved
  <2> QED
    BY <1>2, <2>1
<1> QED
  BY <1>1, <1>2

LEMMA ShiftedColumn ==
  ASSUME NEW column \in [Video -> Int], NEW v \in Video, NEW n \in Int,
         videos \subseteq Video
  PROVE  Moved(Shifted(column, v, n), column, v, n)
<1>1. CASE v \in videos
  <2>1. PICK d : d = [column EXCEPT ![v] = Greatest0(@ + n)]
    OBVIOUS
  <2>2. Shifted(column, v, n) = d
    BY <1>1, <2>1 DEF Shifted
  <2>3. Greatest0(column[v] + n) \in Nat
    BY DEF Greatest0
  <2>4. d \in [Video -> Int] /\ \A u \in Video :
           d[u] = IF u = v THEN Greatest0(column[u] + n) ELSE column[u]
    BY <2>1, <2>3
  <2>5. column \in [Video -> Nat] => d \in [Video -> Nat]
    BY <2>1, <2>3
  <2> QED
    BY <2>2, <2>3, <2>4, <2>5 DEF Moved
<1>2. CASE v \notin videos
  BY <1>2 DEF Shifted, Moved
<1> QED
  BY <1>1, <1>2

LEMMA RaisedColumn ==
  ASSUME NEW column \in [Video -> Int], NEW v \in Video, NEW n \in Nat,
         videos \subseteq Video
  PROVE  Moved(Raised(column, v, n), column, v, n)
<1>1. CASE v \in videos
  <2>1. PICK d : d = [column EXCEPT ![v] = @ + n]
    OBVIOUS
  <2>2. Raised(column, v, n) = d
    BY <1>1, <2>1 DEF Raised
  <2>3. d \in [Video -> Int] /\ \A u \in Video :
           d[u] = IF u = v THEN column[u] + n ELSE column[u]
    BY <2>1
  <2>4. column \in [Video -> Nat] => d \in [Video -> Nat]
    BY <2>1
  <2> QED
    BY <2>2, <2>3, <2>4 DEF Moved
<1>2. CASE v \notin videos
  BY <1>2 DEF Raised, Moved
<1> QED
  BY <1>1, <1>2

LEMMA CountedColumn ==
  ASSUME NEW column \in [Video -> Int], NEW event \in LikeEvent, videos \subseteq Video
  PROVE  Moved(Counted(column, event), column, event.video, ChangeOf(event))
<1>1. event.video \in Video /\ event.action \in {"like", "unlike"}
  BY DEF LikeEvent
<1>2. CASE event.action = "like"
  BY <1>1, <1>2, RaisedColumn DEF Counted, ChangeOf
<1>3. CASE event.action # "like"
  BY <1>1, <1>3, ShiftedColumn DEF Counted, ChangeOf
<1> QED
  BY <1>2, <1>3

HotOK ==
    /\ DOMAIN hot \subseteq Video
    /\ hot \in [DOMAIN hot -> Int]
    /\ hotQueue \in [Video \X Change -> Nat]

(* What the ranking gives v once the queue is empty. *)
Heated(v) == Score(v) + Queued(v)

LEMMA ScoreType == HotOK => \A v \in Video : Score(v) \in Int /\ Queued(v) \in Int /\ Heated(v) \in Int
<1> SUFFICES ASSUME HotOK, NEW v \in Video
             PROVE  Score(v) \in Int /\ Queued(v) \in Int /\ Heated(v) \in Int
  OBVIOUS
<1>1. /\ hotQueue[<<v, 1>>] \in Nat /\ hotQueue[<<v, -1>>] \in Nat
      /\ hotQueue[<<v, GiftWeight>>] \in Nat /\ GiftWeight \in Nat
  BY ChangeType DEF HotOK
<1>2. Score(v) \in Int
  BY DEF HotOK, Score
<1> QED
  BY <1>1, <1>2 DEF Queued, Heated

(* The step adds change to the ranking of v, now or by the queue. *)
Heats(v, change) ==
    /\ HotOK'
    /\ \A u \in Video : Heated(u)' = Heated(u) + (IF u = v THEN change ELSE 0)

LEMMA HotUpdated ==
  ASSUME HotOK, NEW v \in Video, NEW change \in Change, UpdatePopularityCache(v, change)
  PROVE  /\ DOMAIN hot' \subseteq Video /\ hot' \in [DOMAIN hot' -> Int]
         /\ \A u \in Video : Score(u)' = Score(u) + (IF u = v THEN change ELSE 0)
<1>1. Score(v) + change \in Int
  BY ScoreType, ChangeType
<1>2. /\ DOMAIN hot' = DOMAIN hot \cup {v}
      /\ \A u \in DOMAIN hot' : hot'[u] = IF u = v THEN Score(v) + change ELSE hot[u]
      /\ hot' = [u \in DOMAIN hot' |-> hot'[u]]
  BY DEF UpdatePopularityCache
<1>3. hot' \in [DOMAIN hot' -> Int]
  BY <1>1, <1>2 DEF HotOK
<1>4. ASSUME NEW u \in Video PROVE Score(u)' = Score(u) + (IF u = v THEN change ELSE 0)
  <2>1. Score(u) \in Int /\ change \in Int
    BY ScoreType, ChangeType
  <2> QED
    BY <1>2, <2>1 DEF Score
<1> QED
  BY <1>2, <1>3, <1>4 DEF HotOK

(* The queue of v changes by the event of that change. *)
LEMMA QueueMoves ==
  ASSUME HotOK, NEW v \in Video, NEW change \in Change, NEW d \in {1, -1},
         hotQueue[<<v, change>>] + d \in Nat,
         hotQueue' = [hotQueue EXCEPT ![<<v, change>>] = @ + d]
  PROVE  /\ hotQueue' \in [Video \X Change -> Nat]
         /\ \A u \in Video : Queued(u)' = Queued(u) + (IF u = v THEN change * d ELSE 0)
<1>1. hotQueue' \in [Video \X Change -> Nat]
  BY DEF HotOK
<1>2. ASSUME NEW u \in Video, NEW c \in Change
      PROVE  /\ hotQueue[<<u, c>>] \in Nat
             /\ hotQueue'[<<u, c>>] =
                   IF u = v /\ c = change THEN hotQueue[<<u, c>>] + d ELSE hotQueue[<<u, c>>]
  BY DEF HotOK
<1>3. ASSUME NEW u \in Video
      PROVE  Queued(u)' = Queued(u) + (IF u = v THEN change * d ELSE 0)
  <2>1. /\ GiftWeight \in Nat /\ GiftWeight >= 2
        /\ change = 1 \/ change = -1 \/ change = GiftWeight
    BY ChangeType DEF Change
  <2>2. PICK a, b, g : /\ a = hotQueue[<<u, 1>>] /\ b = hotQueue[<<u, -1>>]
                       /\ g = hotQueue[<<u, GiftWeight>>]
    OBVIOUS
  <2>3. PICK x, y, z : /\ x = hotQueue'[<<u, 1>>] /\ y = hotQueue'[<<u, -1>>]
                       /\ z = hotQueue'[<<u, GiftWeight>>]
    OBVIOUS
  <2>4. /\ a \in Nat /\ b \in Nat /\ g \in Nat
        /\ x = (IF u = v /\ 1 = change THEN a + d ELSE a)
        /\ y = (IF u = v /\ -1 = change THEN b + d ELSE b)
        /\ z = (IF u = v /\ GiftWeight = change THEN g + d ELSE g)
    BY <1>2, <2>2, <2>3, ChangeType
  <2>5. Queued(u) = a - b + GiftWeight * g /\ Queued(u)' = x - y + GiftWeight * z
    BY <2>2, <2>3 DEF Queued
  <2>6. PICK p, q : p = GiftWeight * g /\ q = GiftWeight * d
    OBVIOUS
  <2>7. p \in Int /\ q \in Int /\ GiftWeight * (g + d) = p + q
    BY <2>1, <2>4, <2>6
  <2>8. CASE u = v /\ change = GiftWeight
    <3>1. x = a /\ y = b /\ z = g + d
      BY <2>1, <2>4, <2>8
    <3>2. Queued(u)' = a - b + (p + q) /\ Queued(u) = a - b + p
      BY <2>5, <2>6, <2>7, <3>1
    <3> QED
      BY <2>4, <2>6, <2>7, <2>8, <3>2
  <2>9. CASE u = v /\ change # GiftWeight
    <3>1. z = g /\ Queued(u)' = x - y + p /\ Queued(u) = a - b + p
      BY <2>4, <2>5, <2>6, <2>9
    <3>2. x - y = a - b + change * d
      BY <2>1, <2>4, <2>9
    <3> QED
      BY <2>1, <2>4, <2>7, <2>9, <3>1, <3>2
  <2>10. CASE u # v
    <3>1. x = a /\ y = b /\ z = g
      BY <2>4, <2>10
    <3> QED
      BY <2>4, <2>5, <2>6, <2>7, <2>10, <3>1
  <2> QED
    BY <2>8, <2>9, <2>10
<1> QED
  BY <1>1, <1>3

LEMMA Enqueued ==
  ASSUME HotOK, NEW v \in Video, NEW change \in Change, Enqueue(v, change), UNCHANGED hot
  PROVE  Heats(v, change)
<1>1. hotQueue[<<v, change>>] + 1 \in Nat
  BY DEF HotOK
<1>2. /\ hotQueue' \in [Video \X Change -> Nat]
      /\ \A u \in Video : Queued(u)' = Queued(u) + (IF u = v THEN change * 1 ELSE 0)
  BY <1>1, QueueMoves DEF Enqueue
<1>3. \A u \in Video : Score(u)' = Score(u) /\ Score(u) \in Int /\ Queued(u) \in Int
  BY ScoreType DEF Score
<1>4. change \in Int /\ change * 1 = change
  BY ChangeType
<1> QED
  BY <1>2, <1>3, <1>4 DEF Heats, HotOK, Heated

LEMMA UpdatedHot ==
  ASSUME HotOK, NEW v \in Video, NEW change \in Change,
         UpdatePopularityCache(v, change), UNCHANGED hotQueue
  PROVE  Heats(v, change)
<1>1. \A u \in Video : Queued(u)' = Queued(u) /\ Score(u) \in Int /\ Queued(u) \in Int
  BY ScoreType DEF Queued
<1>2. change \in Int
  BY ChangeType
<1> QED
  BY <1>1, <1>2, HotUpdated DEF Heats, HotOK, Heated

(* One publish error, at most, that the bound still allows. *)
MayFailToPublish ==
    \/ UNCHANGED publishFailures
    \/ publishFailures < MaxPublishFailures /\ publishFailures' = publishFailures + 1

LEMMA HeatHeats ==
  ASSUME HotOK, NEW v \in Video, NEW change \in Change, Heat(v, change)
  PROVE  Heats(v, change) /\ MayFailToPublish
  BY Enqueued, UpdatedHot DEF Heat, PublishFails, MayFailToPublish

LEMMA NotHeated ==
  ASSUME HotOK, UNCHANGED hotVars
  PROVE  HotOK' /\ \A u \in Video : Heated(u)' = Heated(u)
  BY DEF HotOK, hotVars, Heated, Score, Queued

(* A gift's event is published, or lost with a publish error. *)
LEMMA HeatGiven ==
  ASSUME HotOK, NEW v \in Video, HeatGift(v)
  PROVE  /\ HotOK' /\ MayFailToPublish
         /\ \/ Heats(v, GiftWeight) /\ UNCHANGED publishFailures
            \/ /\ \A u \in Video : Heated(u)' = Heated(u)
               /\ publishFailures' = publishFailures + 1
<1>1. CASE Enqueue(v, GiftWeight) /\ UNCHANGED publishFailures
  <2>1. Heats(v, GiftWeight)
    BY <1>1, Enqueued, ChangeType DEF HeatGift
  <2> QED
    BY <1>1, <2>1 DEF Heats, MayFailToPublish
<1>2. CASE PublishFails /\ UNCHANGED hotQueue
  <2>1. HotOK' /\ \A u \in Video : Heated(u)' = Heated(u)
    BY <1>2, NotHeated DEF HeatGift, hotVars
  <2> QED
    BY <1>2, <2>1 DEF PublishFails, MayFailToPublish
<1> QED
  BY <1>1, <1>2 DEF HeatGift

-----------------------------------------------------------------------------
(* Types, and what else every step keeps: finite tables, ids of rows that   *)
(* were given out, jobs that fit their events, and no video in the table    *)
(* that is still to be removed from the ranking.                            *)

RowsOK ==
    /\ videos \subseteq Video
    /\ likesCount \in [Video -> Int]
    /\ \A v \in Video : likesCount[v] < 0 => v \in overwritten
    /\ popularity \in [Video -> Nat]
    /\ gifting \in [Video -> Nat]
    /\ gifted \in [Video -> Nat]
    /\ overwritten \subseteq Video
    /\ given \in [Video -> Int]
    /\ removing \subseteq Video
    /\ removing \cap videos = {}

BoundsOK ==
    /\ requests \in 0 .. MaxRequests
    /\ publishFailures \in 0 .. MaxPublishFailures
    /\ faults \in 0 .. MaxFaults

StatsOK == RowsOK /\ HotOK /\ accepted \in [Video -> Int] /\ BoundsOK

LikesOK == LikesTypeOK /\ IsFiniteSet(likes)

IdsGiven ==
    /\ \A row \in comments : row.id <= created
    /\ \A w \in CommentConsumer :
          commentJob[w].at \in {"remove", "lower"} => commentJob[w].comment.id <= created

JobsFit ==
    \A w \in CommentConsumer :
       /\ commentJob[w].at = "insert" => commentJob[w].event.action = "publish"
       /\ commentJob[w].at \in {"remove", "lower"} => commentJob[w].event.action = "delete"

CommentsOK == CommentsTypeOK /\ IsFiniteSet(comments) /\ IdsGiven /\ JobsFit

WorkOK == StatsOK /\ LikesOK /\ CommentsOK

LEMMA TypeOfWork == WorkOK => TypeOK
  BY DEF WorkOK, StatsOK, RowsOK, HotOK, BoundsOK, LikesOK, CommentsOK, TypeOK, StatsTypeOK

LEMMA StatsStart == StatsInit => StatsOK
<1> SUFFICES ASSUME StatsInit PROVE StatsOK
  OBVIOUS
<1>1. RowsOK
  BY DEF StatsInit, RowsOK
<1>2. HotOK
  BY DEF StatsInit, HotOK
<1>3. BoundsOK
  BY StatsAssumption DEF StatsInit, BoundsOK, StatsAssumption
<1> QED
  BY <1>1, <1>2, <1>3 DEF StatsInit, StatsOK

LEMMA WorkStart == Init => WorkOK
<1> SUFFICES ASSUME Init PROVE WorkOK
  OBVIOUS
<1>1. LikesOK
  BY FS_EmptySet DEF Init, LikesInit, LikesOK, LikesTypeOK, LikeCall, LikeJob
<1>2. CommentsOK
  BY FS_EmptySet DEF Init, CommentsInit, CommentsOK, CommentsTypeOK, CommentCall, CommentJob,
     IdsGiven, JobsFit, Quiet
<1> QED
  BY <1>1, <1>2, StatsStart DEF Init, WorkOK

LEMMA FaultBound == BoundsOK /\ Fault => faults' = faults + 1 /\ faults' \in 0 .. MaxFaults
  BY StatsAssumption DEF BoundsOK, Fault, StatsAssumption

LEMMA MayFailBound ==
  BoundsOK /\ MayFailToPublish =>
     /\ publishFailures' \in 0 .. MaxPublishFailures
     /\ publishFailures \in Nat /\ publishFailures' \in {publishFailures, publishFailures + 1}
  BY StatsAssumption DEF BoundsOK, MayFailToPublish, StatsAssumption

(* The steps of the ranking and of the deletion of videos *)
LEMMA StatsKept == StatsOK /\ StatsNext => StatsOK'
<1> SUFFICES ASSUME StatsOK, StatsNext PROVE StatsOK'
  OBVIOUS
<1>0. RowsOK /\ HotOK /\ BoundsOK /\ accepted \in [Video -> Int]
  BY DEF StatsOK
<1>1. ASSUME NEW v \in Video, NEW change \in Change, ApplyPopularity(v, change) PROVE StatsOK'
  <2>1. hotQueue[<<v, change>>] + (-1) \in Nat
    BY <1>0, <1>1 DEF HotOK, ApplyPopularity
  <2>2. hotQueue' = [hotQueue EXCEPT ![<<v, change>>] = @ + (-1)]
    BY <1>0, <1>1 DEF ApplyPopularity, HotOK
  <2>3. HotOK'
    BY <1>0, <1>1, <2>1, <2>2, HotUpdated, QueueMoves DEF ApplyPopularity, HotOK
  <2> QED
    BY <1>0, <1>1, <2>3 DEF ApplyPopularity, StatsOK, RowsOK, rowVars, otherVars, BoundsOK
<1>2. ASSUME NEW v \in Video, NEW change \in Change, RepeatPopularity(v, change) PROVE StatsOK'
  <2>1. HotOK'
    BY <1>0, <1>2, HotUpdated DEF RepeatPopularity, HotOK
  <2>2. BoundsOK'
    BY <1>0, <1>2, FaultBound DEF RepeatPopularity, BoundsOK
  <2> QED
    BY <1>0, <1>2, <2>1, <2>2 DEF RepeatPopularity, StatsOK, RowsOK, rowVars, otherVars
<1>3. ASSUME NEW v \in Video, NEW change \in Change, MissPopularity(v, change) PROVE StatsOK'
  <2>1. hotQueue[<<v, change>>] + (-1) \in Nat
    BY <1>0, <1>3 DEF HotOK, MissPopularity
  <2>2. hotQueue' = [hotQueue EXCEPT ![<<v, change>>] = @ + (-1)]
    BY <1>0, <1>3 DEF MissPopularity, HotOK
  <2>3. HotOK'
    BY <1>0, <1>3, <2>1, <2>2, QueueMoves DEF MissPopularity, HotOK
  <2>4. BoundsOK'
    BY <1>0, <1>3, FaultBound DEF MissPopularity, BoundsOK
  <2> QED
    BY <1>0, <1>3, <2>3, <2>4 DEF MissPopularity, StatsOK, RowsOK, rowVars, otherVars
<1>4. ASSUME NEW v \in Video, DeleteVideo(v) PROVE StatsOK'
  <2>1. RowsOK'
    BY <1>0, <1>4 DEF DeleteVideo, RowsOK, otherVars
  <2>2. HotOK'
    BY <1>0, <1>4, NotHeated DEF DeleteVideo
  <2> QED
    BY <1>0, <1>4, <2>1, <2>2 DEF DeleteVideo, StatsOK, BoundsOK
<1>5. ASSUME NEW v \in Video, RemoveFromRanking(v) PROVE StatsOK'
  <2>1. RowsOK'
    BY <1>0, <1>5 DEF RemoveFromRanking, RowsOK, otherVars
  <2>2. HotOK'
    BY <1>0, <1>5 DEF RemoveFromRanking, HotOK
  <2> QED
    BY <1>0, <1>5, <2>1, <2>2 DEF RemoveFromRanking, StatsOK, BoundsOK
<1>6. ASSUME NEW v \in Video, NEW n \in LikesCountValue, UpdateLikesCount(v, n) PROVE StatsOK'
  <2>1. n \in Int
    BY StatsAssumption DEF StatsAssumption
  <2>2. RowsOK'
    BY <1>0, <1>6, <2>1 DEF UpdateLikesCount, RowsOK
  <2>3. HotOK'
    BY <1>0, <1>6, NotHeated DEF UpdateLikesCount
  <2> QED
    BY <1>0, <1>6, <2>2, <2>3, StatsAssumption
       DEF UpdateLikesCount, StatsOK, BoundsOK, StatsAssumption
<1>7. ASSUME NEW v \in Video, SendGift(v) PROVE StatsOK'
  <2>1. popularity' \in [Video -> Nat]
    <3>1. popularity \in [Video -> Nat] /\ videos \subseteq Video /\ GiftWeight \in Nat
      BY <1>0, ChangeType DEF RowsOK
    <3>2. Moved(popularity', popularity, v, GiftWeight)
      BY <1>7, <3>1, NatColumn, RaisedColumn DEF SendGift
    <3> QED
      BY <3>1, <3>2 DEF Moved
  <2>2. RowsOK'
    <3>1. /\ gifted \in [Video -> Nat] /\ gifting \in [Video -> Nat]
          /\ gifted[v] + GiftWeight \in Nat /\ gifting[v] + 1 \in Nat
      BY <1>0, ChangeType DEF RowsOK
    <3>2. gifted' \in [Video -> Nat] /\ gifting' \in [Video -> Nat]
      BY <1>7, <3>1 DEF SendGift
    <3> QED
      BY <1>0, <1>7, <2>1, <3>2 DEF SendGift, RowsOK
  <2>3. HotOK'
    BY <1>0, <1>7, NotHeated DEF SendGift
  <2> QED
    BY <1>0, <1>7, <2>2, <2>3, StatsAssumption
       DEF SendGift, StatsOK, BoundsOK, StatsAssumption
<1>8. ASSUME NEW v \in Video, HeatGift(v) PROVE StatsOK'
  <2>1. RowsOK'
    BY <1>0, <1>8 DEF HeatGift, RowsOK
  <2>2. HotOK' /\ MayFailToPublish
    BY <1>0, <1>8, HeatGiven
  <2>3. accepted' \in [Video -> Int]
    BY <1>0, <1>8, ChangeType DEF HeatGift
  <2> QED
    BY <1>0, <1>8, <2>1, <2>2, <2>3, MayFailBound DEF HeatGift, StatsOK, BoundsOK
<1> QED
  BY <1>1, <1>2, <1>3, <1>4, <1>5, <1>6, <1>7, <1>8 DEF StatsNext

LEMMA StatsUnchanged == StatsOK /\ UNCHANGED statVars => StatsOK'
<1> SUFFICES ASSUME StatsOK, UNCHANGED statVars PROVE StatsOK'
  OBVIOUS
<1>1. RowsOK' /\ BoundsOK' /\ accepted' \in [Video -> Int]
  BY DEF StatsOK, RowsOK, BoundsOK, statVars, rowVars, otherVars
<1>2. HotOK'
  BY NotHeated DEF StatsOK, statVars
<1> QED
  BY <1>1, <1>2 DEF StatsOK

-----------------------------------------------------------------------------
(* Where the requests and the consumers of likes go *)

LEMMA EventOfLike ==
  ASSUME NEW event \in LikeEvent
  PROVE  /\ event.video \in Video /\ event.account \in Account
         /\ event.action \in {"like", "unlike"}
         /\ ChangeOf(event) \in {1, -1} /\ ChangeOf(event) \in Change
         /\ Key(event) \in Account \X Video
         /\ Key(event)[2] = event.video
         /\ LikesAfter(event) \ {Key(event)} = likes \ {Key(event)}
         /\ Key(event) \in LikesAfter(event) <=> event.action = "like"
  BY DEF LikeEvent, ChangeOf, Change, Key, LikesAfter

LEMMA LikesWritten ==
  ASSUME LikesOK, NEW event \in LikeEvent, likes' = LikesAfter(event)
  PROVE  likes' \subseteq Account \X Video /\ IsFiniteSet(likes')
<1>1. likes' \ {Key(event)} = likes \ {Key(event)} /\ Key(event) \in Account \X Video
  BY EventOfLike
<1>2. IsFiniteSet(likes')
  BY <1>1, SetMoves DEF LikesOK
<1> QED
  BY <1>1, <1>2 DEF LikesOK, LikesTypeOK

(* Caller c goes on as x, consumer w as j. *)
CallGoes(c, x) ==
    /\ likeCall' \in [LikeCaller -> LikeCall]
    /\ likeCall'[c] = x
    /\ \A d \in LikeCaller : d # c => likeCall'[d] = likeCall[d]

JobGoes(w, j) ==
    /\ likeJob' \in [LikeConsumer -> LikeJob]
    /\ likeJob'[w] = j
    /\ \A x \in LikeConsumer : x # w => likeJob'[x] = likeJob[x]

LEMMA CallEvent ==
  ASSUME LikesOK, NEW c \in LikeCaller, likeCall[c].at \in {"publish", "write"}
  PROVE  /\ likeCall[c].event \in LikeEvent /\ likeCall[c].heated \in BOOLEAN
         /\ likeCall[c] # Idle
  BY DEF LikesOK, LikesTypeOK, LikeCall, Idle

LEMMA JobEvent ==
  ASSUME LikesOK, NEW w \in LikeConsumer,
         likeJob[w].at \in {"row", "likes", "popularity", "ack"} \/ likeJob[w] # Idle
  PROVE  /\ likeJob[w].event \in LikeEvent
         /\ likeJob[w] = [at |-> likeJob[w].at, event |-> likeJob[w].event]
         /\ likeJob[w].at \in {"row", "likes", "popularity", "ack"}
<1>1. likeJob[w] \in LikeJob
  BY DEF LikesOK, LikesTypeOK
<1>2. likeJob[w] # Idle
  BY DEF Idle
<1> QED
  BY <1>1, <1>2 DEF LikeJob

LEMMA CallTo ==
  ASSUME LikesOK, NEW c \in LikeCaller, NEW x \in LikeCall,
         likeCall' = [likeCall EXCEPT ![c] = x]
  PROVE  CallGoes(c, x)
  BY DEF LikesOK, LikesTypeOK, CallGoes

LEMMA JobTo ==
  ASSUME LikesOK, NEW w \in LikeConsumer, NEW j \in LikeJob,
         likeJob' = [likeJob EXCEPT ![w] = j]
  PROVE  JobGoes(w, j)
  BY DEF LikesOK, LikesTypeOK, JobGoes

LEMMA JobToAt ==
  ASSUME LikesOK, NEW w \in LikeConsumer, likeJob[w].at \in {"row", "likes", "popularity", "ack"},
         NEW at \in {"row", "likes", "popularity", "ack"},
         likeJob' = [likeJob EXCEPT ![w].at = at]
  PROVE  JobGoes(w, [at |-> at, event |-> likeJob[w].event])
<1> DEFINE j == [at |-> at, event |-> likeJob[w].event]
<1>1. /\ likeJob[w].event \in LikeEvent
      /\ likeJob[w] = [at |-> likeJob[w].at, event |-> likeJob[w].event]
  BY JobEvent
<1>2. j \in LikeJob
  BY <1>1 DEF LikeJob
<1>3. [likeJob[w] EXCEPT !.at = at] = j
  BY <1>1
<1>4. likeJob' = [likeJob EXCEPT ![w] = j]
  BY <1>3
<1> HIDE DEF j
<1> QED
  BY <1>2, <1>4, JobTo DEF j

(***************************************************************************)
(* Every step of a request or a consumer, with the types of what it        *)
(* carries and where it goes.                                              *)
(***************************************************************************)
Checking(c) ==
    /\ \E event \in LikeEvent :
          likeCall[c] = Idle /\ CallGoes(c, [at |-> "publish", event |-> event, heated |-> FALSE])
    /\ requests' \in 0 .. MaxRequests
    /\ UNCHANGED <<likes, likeQueue, likeJob, last, rowVars, hotVars, accepted,
                   publishFailures, faults>>

Publishing(c, event) ==
    /\ likeCall[c].at = "publish" /\ event = likeCall[c].event
    /\ CallGoes(c, Idle)
    /\ likeQueue' = Append(likeQueue, event)
    /\ Heats(event.video, ChangeOf(event)) /\ MayFailToPublish
    /\ Accept(event)
    /\ UNCHANGED <<likes, likeJob, rowVars, requests, faults>>

Failing(c, event, heated) ==
    /\ likeCall[c].at = "publish" /\ event = likeCall[c].event
    /\ CallGoes(c, [at |-> "write", event |-> event, heated |-> heated])
    /\ PublishFails
    /\ HotOK'
    /\ \A v \in Video :
          Heated(v)' = Heated(v) + (IF heated /\ v = event.video THEN ChangeOf(event) ELSE 0)
    /\ UNCHANGED <<likes, likeQueue, likeJob, last, rowVars, hot, accepted, requests, faults>>

WritingLike(c, event) ==
    /\ likeCall[c].at = "write" /\ event = likeCall[c].event
    /\ CallGoes(c, Idle)
    /\ event.action = "like" => event.video \in videos
    /\ Effective(event)
    /\ likes' = LikesAfter(event)
    /\ likesCount' = Counted(likesCount, event)
    /\ popularity' = Counted(popularity, event)
    /\ HotOK'
    /\ \A v \in Video :
          Heated(v)' = Heated(v) +
             (IF ~likeCall[c].heated /\ v = event.video THEN ChangeOf(event) ELSE 0)
    /\ Accept(event)
    /\ UNCHANGED <<likeQueue, likeJob, videos, removing, otherVars, requests, publishFailures,
                   faults>>

Refusing(c) ==
    /\ likeCall[c].at = "write"
    /\ CallGoes(c, Idle)
    /\ UNCHANGED <<likes, likeQueue, likeJob, last, statVars>>

Delivering(w) ==
    /\ likeJob[w] = Idle
    /\ likeQueue # << >>
    /\ likeQueue' = Tail(likeQueue)
    /\ JobGoes(w, IF Head(likeQueue).video \in videos
                  THEN [at |-> "row", event |-> Head(likeQueue)] ELSE Idle)
    /\ UNCHANGED <<likes, likeCall, last, statVars>>

Applying(w, event) ==
    /\ likeJob[w].at = "row" /\ event = likeJob[w].event
    /\ likes' = LikesAfter(event)
    /\ JobGoes(w, [at |-> IF Effective(event) THEN "likes" ELSE "ack", event |-> event])
    /\ UNCHANGED <<likeCall, likeQueue, last, statVars>>

CountingLike(w, event) ==
    /\ likeJob[w].at = "likes" /\ event = likeJob[w].event
    /\ likesCount' = Shifted(likesCount, event.video, ChangeOf(event))
    /\ JobGoes(w, [at |-> "popularity", event |-> event])
    /\ UNCHANGED <<likes, likeCall, likeQueue, last, videos, popularity, removing, otherVars,
                   hotVars, accepted, requests, publishFailures, faults>>

RatingLike(w, event) ==
    /\ likeJob[w].at = "popularity" /\ event = likeJob[w].event
    /\ popularity' = Shifted(popularity, event.video, ChangeOf(event))
    /\ JobGoes(w, [at |-> "ack", event |-> event])
    /\ UNCHANGED <<likes, likeCall, likeQueue, last, videos, likesCount, removing, otherVars,
                   hotVars, accepted, requests, publishFailures, faults>>

Acking(w) ==
    /\ likeJob[w].at = "ack"
    /\ JobGoes(w, Idle)
    /\ UNCHANGED <<likes, likeCall, likeQueue, last, statVars>>

Requeuing(w, event) ==
    /\ likeJob[w] # Idle /\ event = likeJob[w].event
    /\ JobGoes(w, Idle)
    /\ faults' = faults + 1 /\ faults' \in 0 .. MaxFaults
    /\ likeQueue' \in Seq(LikeEvent)
    /\ UNCHANGED <<likes, likeCall, last, rowVars, hotVars, accepted, requests, publishFailures>>

LikesStep ==
    \/ \E c \in LikeCaller : Checking(c) \/ Refusing(c)
    \/ \E c \in LikeCaller, event \in LikeEvent :
          \/ Publishing(c, event)
          \/ \E heated \in BOOLEAN : Failing(c, event, heated)
          \/ WritingLike(c, event)
    \/ \E w \in LikeConsumer : Delivering(w) \/ Acking(w)
    \/ \E w \in LikeConsumer, event \in LikeEvent :
          \/ Applying(w, event) \/ CountingLike(w, event) \/ RatingLike(w, event)
          \/ Requeuing(w, event)

LEMMA StepOfLikes == LikesOK /\ StatsOK /\ LikesNext => LikesStep
<1> SUFFICES ASSUME LikesOK, StatsOK, LikesNext PROVE LikesStep
  OBVIOUS
<1>0. /\ HotOK /\ BoundsOK
      /\ Idle \in LikeCall /\ Idle \in LikeJob
      /\ likeQueue \in Seq(LikeEvent)
  BY DEF StatsOK, LikeCall, LikeJob, LikesOK, LikesTypeOK
<1>1. ASSUME NEW c \in LikeCaller, NEW event \in LikeEvent, CheckLike(c, event) PROVE LikesStep
  <2>1. [at |-> "publish", event |-> event, heated |-> FALSE] \in LikeCall
    BY DEF LikeCall
  <2>2. CallGoes(c, [at |-> "publish", event |-> event, heated |-> FALSE])
    BY <1>1, <2>1, CallTo DEF CheckLike
  <2>3. requests' \in 0 .. MaxRequests
    BY <1>0, <1>1, StatsAssumption DEF CheckLike, BoundsOK, StatsAssumption
  <2>4. Checking(c)
    BY <1>1, <2>2, <2>3 DEF CheckLike, Checking
  <2> QED
    BY <2>4 DEF LikesStep
<1>2. ASSUME NEW c \in LikeCaller, PublishLike(c) PROVE LikesStep
  <2>1. PICK event \in LikeEvent : event = likeCall[c].event
    BY <1>2, CallEvent DEF PublishLike
  <2>2. CallGoes(c, Idle)
    BY <1>0, <1>2, CallTo DEF PublishLike
  <2>3. Heats(event.video, ChangeOf(event)) /\ MayFailToPublish
    BY <1>0, <1>2, <2>1, EventOfLike, HeatHeats DEF PublishLike
  <2>4. Publishing(c, event)
    BY <1>2, <2>1, <2>2, <2>3 DEF PublishLike, Publishing
  <2> QED
    BY <2>4 DEF LikesStep
<1>3. ASSUME NEW c \in LikeCaller, FailToPublishLike(c) PROVE LikesStep
  <2>1. PICK event \in LikeEvent : event = likeCall[c].event
    BY <1>3, CallEvent DEF FailToPublishLike
  <2>2. PICK heated \in BOOLEAN :
           /\ IF heated THEN Enqueue(event.video, ChangeOf(event)) ELSE UNCHANGED hotQueue
           /\ likeCall' = [likeCall EXCEPT ![c] =
                 [at |-> "write", event |-> event, heated |-> heated]]
    BY <1>3, <2>1 DEF FailToPublishLike
  <2>3. [at |-> "write", event |-> event, heated |-> heated] \in LikeCall
    BY DEF LikeCall
  <2>4. CallGoes(c, [at |-> "write", event |-> event, heated |-> heated])
    BY <2>2, <2>3, CallTo
  <2>5. /\ HotOK'
        /\ \A v \in Video :
              Heated(v)' = Heated(v) + (IF heated /\ v = event.video THEN ChangeOf(event) ELSE 0)
    <3>1. UNCHANGED hot /\ event.video \in Video /\ ChangeOf(event) \in Change
      BY <1>3, EventOfLike DEF FailToPublishLike
    <3>2. CASE heated
      BY <1>0, <2>2, <3>1, <3>2, Enqueued DEF Heats
    <3>3. CASE ~heated
      BY <1>0, <2>2, <3>1, <3>3, NotHeated, ScoreType DEF hotVars
    <3> QED
      BY <3>2, <3>3
  <2>6. Failing(c, event, heated)
    BY <1>3, <2>1, <2>4, <2>5 DEF FailToPublishLike, Failing
  <2> QED
    BY <2>6 DEF LikesStep
<1>4. ASSUME NEW c \in LikeCaller, WriteLike(c) PROVE LikesStep
  <2>1. PICK event \in LikeEvent : event = likeCall[c].event
    BY <1>4, CallEvent DEF WriteLike
  <2>2. CallGoes(c, Idle)
    BY <1>0, <1>4, CallTo DEF WriteLike
  <2>3. likeCall[c].heated \in BOOLEAN /\ event.video \in Video /\ ChangeOf(event) \in Change
    BY <1>4, CallEvent, EventOfLike DEF WriteLike
  <2>4. UNCHANGED hotQueue
    BY <1>4 DEF WriteLike
  <2>5. /\ HotOK'
        /\ \A v \in Video :
              Heated(v)' = Heated(v) +
                 (IF ~likeCall[c].heated /\ v = event.video THEN ChangeOf(event) ELSE 0)
    <3>1. CASE likeCall[c].heated
      <4>1. UNCHANGED hotVars
        BY <1>4, <2>4, <3>1 DEF WriteLike, hotVars
      <4> QED
        BY <1>0, <3>1, <4>1, NotHeated, ScoreType
    <3>2. CASE ~likeCall[c].heated
      <4>1. UpdatePopularityCache(event.video, ChangeOf(event))
        BY <1>4, <2>1, <3>2 DEF WriteLike
      <4>2. Heats(event.video, ChangeOf(event))
        BY <1>0, <2>3, <2>4, <4>1, UpdatedHot
      <4> QED
        BY <3>2, <4>2 DEF Heats
    <3> QED
      BY <3>1, <3>2
  <2>6. WritingLike(c, event)
    BY <1>4, <2>1, <2>2, <2>5 DEF WriteLike, WritingLike
  <2> QED
    BY <2>6 DEF LikesStep
<1>5. ASSUME NEW c \in LikeCaller, RefuseLike(c) PROVE LikesStep
  <2>1. CallGoes(c, Idle)
    BY <1>0, <1>5, CallTo DEF RefuseLike
  <2> QED
    BY <1>5, <2>1 DEF RefuseLike, Refusing, LikesStep
<1>6. ASSUME NEW w \in LikeConsumer, DeliverLike(w) PROVE LikesStep
  <2>1. likeQueue # << >> /\ Head(likeQueue) \in LikeEvent
    BY <1>0, <1>6, Headed DEF DeliverLike
  <2>2. PICK j : j = IF Head(likeQueue).video \in videos
                     THEN [at |-> "row", event |-> Head(likeQueue)] ELSE Idle
    OBVIOUS
  <2>3. j \in LikeJob
    BY <1>0, <2>1, <2>2 DEF LikeJob
  <2>4. likeJob' = [likeJob EXCEPT ![w] = j]
    BY <1>6, <2>2 DEF DeliverLike
  <2>5. JobGoes(w, j)
    BY <2>3, <2>4, JobTo
  <2> QED
    BY <1>6, <2>2, <2>5 DEF DeliverLike, Delivering, LikesStep
<1>7. ASSUME NEW w \in LikeConsumer, ApplyLike(w) PROVE LikesStep
  <2>1. PICK event \in LikeEvent : event = likeJob[w].event
    BY <1>7, JobEvent DEF ApplyLike
  <2>2. PICK at : at = IF Effective(event) THEN "likes" ELSE "ack"
    OBVIOUS
  <2>3. at \in {"row", "likes", "popularity", "ack"}
    BY <2>2
  <2>4. likeJob' = [likeJob EXCEPT ![w].at = at] /\ likeJob[w].at = "row"
    BY <1>7, <2>1, <2>2 DEF ApplyLike
  <2>5. JobGoes(w, [at |-> at, event |-> event])
    BY <2>1, <2>3, <2>4, JobToAt
  <2>6. Applying(w, event)
    BY <1>7, <2>1, <2>2, <2>5 DEF ApplyLike, Applying
  <2> QED
    BY <2>6 DEF LikesStep
<1>8. ASSUME NEW w \in LikeConsumer, ChangeLikesCount(w) PROVE LikesStep
  <2>1. PICK event \in LikeEvent : event = likeJob[w].event
    BY <1>8, JobEvent DEF ChangeLikesCount
  <2>2. JobGoes(w, [at |-> "popularity", event |-> event])
    BY <1>8, <2>1, JobToAt DEF ChangeLikesCount
  <2>3. CountingLike(w, event)
    BY <1>8, <2>1, <2>2 DEF ChangeLikesCount, CountingLike
  <2> QED
    BY <2>3 DEF LikesStep
<1>9. ASSUME NEW w \in LikeConsumer, ChangePopularityOfLike(w) PROVE LikesStep
  <2>1. PICK event \in LikeEvent : event = likeJob[w].event
    BY <1>9, JobEvent DEF ChangePopularityOfLike
  <2>2. JobGoes(w, [at |-> "ack", event |-> event])
    BY <1>9, <2>1, JobToAt DEF ChangePopularityOfLike
  <2>3. RatingLike(w, event)
    BY <1>9, <2>1, <2>2 DEF ChangePopularityOfLike, RatingLike
  <2> QED
    BY <2>3 DEF LikesStep
<1>10. ASSUME NEW w \in LikeConsumer, AckLike(w) PROVE LikesStep
  <2>1. JobGoes(w, Idle)
    BY <1>0, <1>10, JobTo DEF AckLike
  <2> QED
    BY <1>10, <2>1 DEF AckLike, Acking, LikesStep
<1>11. ASSUME NEW w \in LikeConsumer, RequeueLike(w) PROVE LikesStep
  <2>1. PICK event \in LikeEvent : event = likeJob[w].event
    BY <1>11, JobEvent DEF RequeueLike
  <2>2. JobGoes(w, Idle)
    BY <1>0, <1>11, JobTo DEF RequeueLike
  <2>3. PICK i \in 1 .. Len(likeQueue) + 1 : likeQueue' = InsertAt(likeQueue, i, event)
    BY <1>11, <2>1 DEF RequeueLike
  <2>4. likeQueue' \in Seq(LikeEvent)
    BY <1>0, <2>3, Inserted
  <2>5. faults' = faults + 1 /\ faults' \in 0 .. MaxFaults
    BY <1>0, <1>11, FaultBound DEF RequeueLike
  <2>6. Requeuing(w, event)
    BY <1>11, <2>1, <2>2, <2>4, <2>5 DEF RequeueLike, Requeuing
  <2> QED
    BY <2>6 DEF LikesStep
<1> QED
  BY <1>1, <1>2, <1>3, <1>4, <1>5, <1>6, <1>7, <1>8, <1>9, <1>10, <1>11
     DEF LikesNext, LikeCallerStep, LikeConsumerStep

LEMMA AcceptType ==
  ASSUME LikesOK, StatsOK, NEW event \in LikeEvent, Accept(event)
  PROVE  /\ last' \in [Account \X Video -> {"none", "like", "unlike"}]
         /\ accepted' \in [Video -> Int]
         /\ \A v \in Video :
               accepted'[v] = accepted[v] + (IF v = event.video THEN ChangeOf(event) ELSE 0)
<1>1. /\ event.video \in Video /\ event.action \in {"like", "unlike"}
      /\ Key(event) \in Account \X Video /\ ChangeOf(event) \in {1, -1}
  BY EventOfLike
<1>2. last \in [Account \X Video -> {"none", "like", "unlike"}] /\ accepted \in [Video -> Int]
  BY DEF LikesOK, LikesTypeOK, StatsOK
<1> QED
  BY <1>1, <1>2 DEF Accept

(* The counters that a step writes keep their types. *)
ColumnsMoved ==
    /\ likesCount' \in [Video -> Int] /\ popularity' \in [Video -> Nat]
    /\ \A v \in Video : likesCount'[v] < 0 => likesCount[v] < 0

LEMMA ColumnsStillOK ==
  ASSUME RowsOK, NEW v, NEW n,
         Moved(likesCount', likesCount, v, n) \/ likesCount' = likesCount,
         Moved(popularity', popularity, v, n) \/ popularity' = popularity
  PROVE  ColumnsMoved
<1>1. likesCount \in [Video -> Int] /\ popularity \in [Video -> Nat]
  BY DEF RowsOK
<1>2. popularity' \in [Video -> Nat] /\ likesCount' \in [Video -> Int]
  BY <1>1 DEF Moved
<1>3. ASSUME NEW u \in Video, likesCount'[u] < 0 PROVE likesCount[u] < 0
  <2>1. likesCount'[u] \in Int /\ likesCount[u] \in Int
    BY <1>1, <1>2
  <2>2. likesCount'[u] >= 0 \/ likesCount'[u] = likesCount[u] \/ likesCount[u] < 0
    BY DEF Moved
  <2> QED
    BY <1>3, <2>1, <2>2
<1> QED
  BY <1>2, <1>3 DEF ColumnsMoved

LEMMA LikesKept == LikesOK /\ StatsOK /\ LikesStep => LikesOK' /\ StatsOK'
<1> SUFFICES ASSUME LikesOK, StatsOK, LikesStep PROVE LikesOK' /\ StatsOK'
  OBVIOUS
<1>0. /\ RowsOK /\ HotOK /\ BoundsOK /\ accepted \in [Video -> Int]
      /\ LikesTypeOK /\ IsFiniteSet(likes)
  BY DEF StatsOK, LikesOK
<1>1. ASSUME NEW c \in LikeCaller, Checking(c) PROVE LikesOK' /\ StatsOK'
  <2>1. RowsOK' /\ HotOK' /\ BoundsOK' /\ accepted' \in [Video -> Int]
    BY <1>0, <1>1, NotHeated DEF Checking, RowsOK, rowVars, otherVars, BoundsOK
  <2> QED
    BY <1>0, <1>1, <2>1 DEF Checking, CallGoes, StatsOK, LikesOK, LikesTypeOK
<1>2. ASSUME NEW c \in LikeCaller, Refusing(c) PROVE LikesOK' /\ StatsOK'
  BY <1>0, <1>2, StatsUnchanged DEF Refusing, CallGoes, LikesOK, LikesTypeOK
<1>3. ASSUME NEW c \in LikeCaller, NEW event \in LikeEvent, Publishing(c, event)
      PROVE  LikesOK' /\ StatsOK'
  <2>1. RowsOK' /\ HotOK' /\ BoundsOK' /\ accepted' \in [Video -> Int]
    BY <1>0, <1>3, AcceptType, MayFailBound DEF Publishing, Heats, RowsOK, rowVars, otherVars, BoundsOK
  <2>2. likeQueue' \in Seq(LikeEvent)
    BY <1>0, <1>3, Appended DEF Publishing, LikesTypeOK
  <2> QED
    BY <1>0, <1>3, <2>1, <2>2, AcceptType DEF Publishing, CallGoes, StatsOK, LikesOK, LikesTypeOK
<1>4. ASSUME NEW c \in LikeCaller, NEW event \in LikeEvent, NEW heated \in BOOLEAN,
             Failing(c, event, heated)
      PROVE  LikesOK' /\ StatsOK'
  <2>1. RowsOK' /\ HotOK' /\ BoundsOK' /\ accepted' \in [Video -> Int]
    BY <1>0, <1>4, MayFailBound DEF Failing, PublishFails, MayFailToPublish, RowsOK, rowVars, otherVars,
       BoundsOK
  <2> QED
    BY <1>0, <1>4, <2>1 DEF Failing, CallGoes, StatsOK, LikesOK, LikesTypeOK
<1>5. ASSUME NEW c \in LikeCaller, NEW event \in LikeEvent, WritingLike(c, event)
      PROVE  LikesOK' /\ StatsOK'
  <2>1. event.video \in Video /\ ChangeOf(event) \in Int
    BY EventOfLike
  <2>2. ColumnsMoved
    <3>1. /\ Moved(likesCount', likesCount, event.video, ChangeOf(event))
          /\ Moved(popularity', popularity, event.video, ChangeOf(event))
      BY <1>0, <1>5, CountedColumn DEF WritingLike, RowsOK
    <3> QED
      BY <1>0, <3>1, ColumnsStillOK
  <2>3. RowsOK' /\ HotOK' /\ BoundsOK' /\ accepted' \in [Video -> Int]
    BY <1>0, <1>5, <2>2, AcceptType DEF WritingLike, RowsOK, BoundsOK, otherVars, ColumnsMoved
  <2> QED
    BY <1>0, <1>5, <2>3, AcceptType, LikesWritten
       DEF WritingLike, CallGoes, StatsOK, LikesOK, LikesTypeOK
<1>6. ASSUME NEW w \in LikeConsumer, Delivering(w) PROVE LikesOK' /\ StatsOK'
  <2>1. likeQueue' \in Seq(LikeEvent)
    BY <1>0, <1>6, Headed DEF Delivering, LikesTypeOK
  <2> QED
    BY <1>0, <1>6, <2>1, StatsUnchanged DEF Delivering, JobGoes, LikesOK, LikesTypeOK
<1>7. ASSUME NEW w \in LikeConsumer, Acking(w) PROVE LikesOK' /\ StatsOK'
  BY <1>0, <1>7, StatsUnchanged DEF Acking, JobGoes, LikesOK, LikesTypeOK
<1>8. ASSUME NEW w \in LikeConsumer, NEW event \in LikeEvent, Applying(w, event)
      PROVE  LikesOK' /\ StatsOK'
  BY <1>0, <1>8, StatsUnchanged, LikesWritten DEF Applying, JobGoes, LikesOK, LikesTypeOK
<1>9. ASSUME NEW w \in LikeConsumer, NEW event \in LikeEvent,
             CountingLike(w, event) \/ RatingLike(w, event)
      PROVE  LikesOK' /\ StatsOK'
  <2>1. event.video \in Video /\ ChangeOf(event) \in Int
    BY EventOfLike
  <2>2. ColumnsMoved
    <3>1. CASE CountingLike(w, event)
      <4>1. /\ Moved(likesCount', likesCount, event.video, ChangeOf(event))
            /\ popularity' = popularity
        BY <1>0, <2>1, <3>1, ShiftedColumn DEF CountingLike, RowsOK
      <4> QED
        BY <1>0, <4>1, ColumnsStillOK
    <3>2. CASE RatingLike(w, event)
      <4>1. /\ Moved(popularity', popularity, event.video, ChangeOf(event))
            /\ likesCount' = likesCount
        BY <1>0, <2>1, <3>2, ShiftedColumn DEF RatingLike, RowsOK
      <4> QED
        BY <1>0, <4>1, ColumnsStillOK
    <3> QED
      BY <1>9, <3>1, <3>2
  <2>3. RowsOK' /\ HotOK' /\ BoundsOK' /\ accepted' \in [Video -> Int]
    BY <1>0, <1>9, <2>2, NotHeated
       DEF CountingLike, RatingLike, RowsOK, BoundsOK, otherVars, ColumnsMoved
  <2> QED
    BY <1>0, <1>9, <2>3 DEF CountingLike, RatingLike, JobGoes, StatsOK, LikesOK, LikesTypeOK
<1>10. ASSUME NEW w \in LikeConsumer, NEW event \in LikeEvent, Requeuing(w, event)
       PROVE  LikesOK' /\ StatsOK'
  <2>1. RowsOK' /\ HotOK' /\ BoundsOK' /\ accepted' \in [Video -> Int]
    BY <1>0, <1>10, NotHeated DEF Requeuing, RowsOK, rowVars, otherVars, BoundsOK
  <2> QED
    BY <1>0, <1>10, <2>1 DEF Requeuing, JobGoes, StatsOK, LikesOK, LikesTypeOK
<1> QED
  BY <1>1, <1>2, <1>3, <1>4, <1>5, <1>6, <1>7, <1>8, <1>9, <1>10 DEF LikesStep

-----------------------------------------------------------------------------
(* Where the requests and the consumers of comments go *)

CommentCallGoes(c, x) ==
    /\ commentCall' \in [CommentCaller -> CommentCall]
    /\ commentCall'[c] = x
    /\ \A d \in CommentCaller : d # c => commentCall'[d] = commentCall[d]

CommentJobGoes(w, j) ==
    /\ commentJob' \in [CommentConsumer -> CommentJob]
    /\ commentJob'[w] = j
    /\ \A x \in CommentConsumer : x # w => commentJob'[x] = commentJob[x]

(* An accepted request changes what its video was given by change. *)
Accepted(v, change) ==
    /\ accepted' \in [Video -> Int]
    /\ \A u \in Video : accepted'[u] = accepted[u] + (IF u = v THEN change ELSE 0)

LEMMA CommentCallTo ==
  ASSUME CommentsOK, NEW c \in CommentCaller, NEW x \in CommentCall,
         commentCall' = [commentCall EXCEPT ![c] = x]
  PROVE  CommentCallGoes(c, x)
  BY DEF CommentsOK, CommentsTypeOK, CommentCallGoes

LEMMA CommentJobTo ==
  ASSUME CommentsOK, NEW w \in CommentConsumer, NEW j \in CommentJob,
         commentJob' = [commentJob EXCEPT ![w] = j]
  PROVE  CommentJobGoes(w, j)
  BY DEF CommentsOK, CommentsTypeOK, CommentJobGoes

LEMMA CallVideo ==
  ASSUME CommentsOK, NEW c \in CommentCaller, commentCall[c].at \in {"publish", "write"}
  PROVE  commentCall[c].video \in Video /\ commentCall[c].heated \in BOOLEAN
  BY DEF CommentsOK, CommentsTypeOK, CommentCall, Quiet

LEMMA CallRow ==
  ASSUME CommentsOK, NEW c \in CommentCaller, commentCall[c].at = "delete"
  PROVE  commentCall[c].comment \in Comment
  BY DEF CommentsOK, CommentsTypeOK, CommentCall, Quiet

LEMMA CommentJobKinds ==
  ASSUME CommentsOK, NEW w \in CommentConsumer
  PROVE  \/ commentJob[w] = Quiet /\ commentJob[w].at = "idle"
         \/ /\ commentJob[w].at \in {"insert", "raise", "acked"}
            /\ commentJob[w].event \in CommentEvent /\ commentJob[w].video \in Video
            /\ commentJob[w] = [at |-> commentJob[w].at, event |-> commentJob[w].event,
                                video |-> commentJob[w].video]
            /\ commentJob[w] # Quiet
         \/ /\ commentJob[w].at \in {"remove", "lower"}
            /\ commentJob[w].event \in CommentEvent /\ commentJob[w].comment \in Comment
            /\ commentJob[w] = [at |-> commentJob[w].at, event |-> commentJob[w].event,
                                comment |-> commentJob[w].comment]
            /\ commentJob[w] # Quiet
<1>1. commentJob[w] \in CommentJob
  BY DEF CommentsOK, CommentsTypeOK
<1> QED
  BY <1>1 DEF CommentJob, Quiet

(* What a delivered event is made of *)
LEMMA JobOfEvent ==
  ASSUME CommentsOK, NEW e \in CommentEvent
  PROVE  /\ JobOf(e) \in CommentJob
         /\ JobOf(e).at \in {"idle", "insert", "remove"}
         /\ JobOf(e).at = "idle" => JobOf(e) = Quiet
         /\ JobOf(e).at = "insert" <=> e.action = "publish" /\ e.video \in videos
         /\ JobOf(e).at = "remove" =>
               e.action = "delete" /\ JobOf(e).comment \in comments /\ JobOf(e).event = e
         /\ JobOf(e).at = "insert" => JobOf(e).event = e /\ JobOf(e).video = e.video
<1>1. CASE e.action = "publish"
  <2>1. e.video \in Video
    BY <1>1 DEF CommentEvent
  <2>2. CASE e.video \in videos
    <3>1. JobOf(e) = [at |-> "insert", event |-> e, video |-> e.video]
      BY <1>1, <2>2 DEF JobOf
    <3> QED
      BY <1>1, <2>1, <2>2, <3>1 DEF CommentJob
  <2>3. CASE e.video \notin videos
    <3>1. JobOf(e) = Quiet
      BY <1>1, <2>3 DEF JobOf
    <3> QED
      BY <1>1, <2>3, <3>1 DEF CommentJob, Quiet
  <2> QED
    BY <2>2, <2>3
<1>2. CASE e.action # "publish"
  <2>1. e.action = "delete"
    BY <1>2 DEF CommentEvent
  <2> DEFINE found == {row \in comments : row.id = e.id}
  <2>2. CASE found = {}
    <3>1. JobOf(e) = Quiet
      BY <1>2, <2>2 DEF JobOf
    <3> QED
      BY <1>2, <3>1 DEF CommentJob, Quiet
  <2>3. CASE found # {}
    <3>1. PICK row : row = (CHOOSE r \in found : TRUE)
      OBVIOUS
    <3>2. row \in comments /\ row \in Comment
      BY <2>3, <3>1 DEF CommentsOK, CommentsTypeOK
    <3>3. JobOf(e) = [at |-> "remove", event |-> e, comment |-> row]
      BY <1>2, <2>3, <3>1 DEF JobOf
    <3> QED
      BY <1>2, <2>1, <3>2, <3>3 DEF CommentJob
  <2> QED
    BY <2>2, <2>3
<1> QED
  BY <1>1, <1>2

(***************************************************************************)
(* Every step of a request or a consumer, with the types of what it        *)
(* carries and where it goes.                                              *)
(***************************************************************************)
Asking(c) ==
    /\ commentCall[c] = Quiet
    /\ \E x \in CommentCall : x.at \in {"publish", "delete"} /\ CommentCallGoes(c, x)
    /\ requests' \in 0 .. MaxRequests
    /\ UNCHANGED <<comments, created, published, commentQueue, commentJob, rowVars, hotVars,
                   accepted, publishFailures, faults>>

PublishingComment(c, v) ==
    /\ commentCall[c].at = "publish" /\ v = commentCall[c].video
    /\ CommentCallGoes(c, Quiet)
    /\ commentQueue' = Append(commentQueue, [action |-> "publish", video |-> v])
    /\ Heats(v, 1) /\ MayFailToPublish
    /\ published' = published + 1
    /\ Accepted(v, 1)
    /\ UNCHANGED <<comments, created, commentJob, rowVars, requests, faults>>

FailingComment(c, v, heated) ==
    /\ commentCall[c].at = "publish" /\ v = commentCall[c].video
    /\ CommentCallGoes(c, [at |-> "write", video |-> v, heated |-> heated])
    /\ PublishFails
    /\ HotOK'
    /\ \A u \in Video : Heated(u)' = Heated(u) + (IF heated /\ u = v THEN 1 ELSE 0)
    /\ UNCHANGED <<comments, created, published, commentQueue, commentJob, rowVars, accepted,
                   requests, faults>>

WritingComment(c, v) ==
    /\ commentCall[c].at = "write" /\ v = commentCall[c].video
    /\ CommentCallGoes(c, Quiet)
    /\ v \in videos
    /\ InsertComment(v)
    /\ popularity' = Raised(popularity, v, 1)
    /\ HotOK'
    /\ \A u \in Video :
          Heated(u)' = Heated(u) + (IF ~commentCall[c].heated /\ u = v THEN 1 ELSE 0)
    /\ published' = published + 1
    /\ Accepted(v, 1)
    /\ UNCHANGED <<commentQueue, commentJob, videos, likesCount, removing, otherVars,
                   requests, publishFailures, faults>>

RefusingComment(c) ==
    /\ commentCall[c].at = "write"
    /\ CommentCallGoes(c, Quiet)
    /\ UNCHANGED <<comments, created, published, commentQueue, commentJob, statVars>>

Deleting(c, row) ==
    /\ commentCall[c].at = "delete" /\ row = commentCall[c].comment
    /\ CommentCallGoes(c, Quiet)
    /\ \/ /\ commentQueue' = Append(commentQueue, [action |-> "delete", id |-> row.id])
          /\ MayFailToPublish
          /\ UNCHANGED comments
       \/ /\ comments' = comments \ {row}
          /\ PublishFails
          /\ UNCHANGED commentQueue
    /\ Heats(row.video, -1)
    /\ Accepted(row.video, -1)
    /\ UNCHANGED <<created, published, commentJob, rowVars, requests, faults>>

RefusingDelete(c) ==
    /\ commentCall[c].at = "delete"
    /\ PublishFails
    /\ CommentCallGoes(c, Quiet)
    /\ UNCHANGED <<comments, created, published, commentQueue, commentJob, rowVars, hotVars,
                   accepted, requests, faults>>

DeliveringComment(w) ==
    /\ commentJob[w] = Quiet
    /\ commentQueue # << >>
    /\ commentQueue' = Tail(commentQueue)
    /\ CommentJobGoes(w, JobOf(Head(commentQueue)))
    /\ UNCHANGED <<comments, created, published, commentCall, statVars>>

Inserting(w, v) ==
    /\ commentJob[w].at = "insert" /\ v = commentJob[w].video
    /\ InsertComment(v)
    /\ CommentJobGoes(w, [at |-> "raise", event |-> commentJob[w].event, video |-> v])
    /\ UNCHANGED <<published, commentCall, commentQueue, statVars>>

Removing(w, row) ==
    /\ commentJob[w].at = "remove" /\ row = commentJob[w].comment
    /\ comments' = comments \ {row}
    /\ CommentJobGoes(w, [at |-> "lower", event |-> commentJob[w].event, comment |-> row])
    /\ UNCHANGED <<created, published, commentCall, commentQueue, statVars>>

(* The counter of v changes for the row that w has inserted or removed. *)
RatingComment(w, v, change) ==
    /\ \/ commentJob[w].at = "raise" /\ v = commentJob[w].video /\ change = 1
       \/ commentJob[w].at = "lower" /\ v = commentJob[w].comment.video /\ change = -1
    /\ popularity' = Shifted(popularity, v, change)
    /\ CommentJobGoes(w, [at |-> "acked", event |-> commentJob[w].event, video |-> v])
    /\ UNCHANGED <<comments, created, published, commentCall, commentQueue, videos, likesCount,
                   removing, otherVars, hotVars, accepted, requests, publishFailures, faults>>

AckingComment(w) ==
    /\ commentJob[w].at = "acked"
    /\ CommentJobGoes(w, Quiet)
    /\ UNCHANGED <<comments, created, published, commentCall, commentQueue, statVars>>

RequeuingComment(w, i) ==
    /\ commentJob[w] # Quiet
    /\ CommentJobGoes(w, Quiet)
    /\ faults' = faults + 1 /\ faults' \in 0 .. MaxFaults
    /\ commentQueue' = InsertAt(commentQueue, i, commentJob[w].event)
    /\ UNCHANGED <<comments, created, published, commentCall, rowVars, hotVars, accepted,
                   requests, publishFailures>>

CommentsStep ==
    \/ \E c \in CommentCaller : Asking(c) \/ RefusingComment(c) \/ RefusingDelete(c)
    \/ \E c \in CommentCaller, v \in Video :
          \/ PublishingComment(c, v)
          \/ \E heated \in BOOLEAN : FailingComment(c, v, heated)
          \/ WritingComment(c, v)
    \/ \E c \in CommentCaller, row \in Comment : Deleting(c, row)
    \/ \E w \in CommentConsumer : DeliveringComment(w) \/ AckingComment(w)
    \/ \E w \in CommentConsumer, v \in Video :
          Inserting(w, v) \/ \E change \in Change : RatingComment(w, v, change)
    \/ \E w \in CommentConsumer, row \in Comment : Removing(w, row)
    \/ \E w \in CommentConsumer, i \in 1 .. Len(commentQueue) + 1 : RequeuingComment(w, i)

LEMMA AcceptedFor ==
  ASSUME StatsOK, NEW v \in Video, NEW change \in {1, -1},
         accepted' = [accepted EXCEPT ![v] = @ + change]
  PROVE  Accepted(v, change)
  BY DEF StatsOK, Accepted

LEMMA StepOfComments == CommentsOK /\ StatsOK /\ CommentsNext => CommentsStep
<1> SUFFICES ASSUME CommentsOK, StatsOK, CommentsNext PROVE CommentsStep
  OBVIOUS
<1>0. /\ HotOK /\ BoundsOK
      /\ Quiet \in CommentCall /\ Quiet \in CommentJob
      /\ commentQueue \in Seq(CommentEvent) /\ comments \subseteq Comment
      /\ 1 \in Change /\ -1 \in Change
      /\ accepted \in [Video -> Int]
  BY DEF StatsOK, CommentCall, CommentJob, CommentsOK, CommentsTypeOK, Change
<1>1. ASSUME NEW c \in CommentCaller, NEW x \in CommentCall, x.at \in {"publish", "delete"},
             commentCall[c] = Quiet,
             commentCall' = [commentCall EXCEPT ![c] = x],
             requests < MaxRequests, requests' = requests + 1,
             UNCHANGED <<comments, created, published, commentQueue, commentJob, rowVars,
                         hotVars, accepted, publishFailures, faults>>
      PROVE  CommentsStep
  <2>1. CommentCallGoes(c, x)
    BY <1>1, CommentCallTo
  <2>2. requests' \in 0 .. MaxRequests
    BY <1>0, <1>1, StatsAssumption DEF BoundsOK, StatsAssumption
  <2> QED
    BY <1>1, <2>1, <2>2 DEF Asking, CommentsStep
<1>2. ASSUME NEW c \in CommentCaller, NEW v \in Video, CheckComment(c, v) PROVE CommentsStep
  <2>1. [at |-> "publish", video |-> v, heated |-> FALSE] \in CommentCall
    BY DEF CommentCall
  <2> QED
    BY <1>1, <1>2, <2>1 DEF CheckComment
<1>3. ASSUME NEW c \in CommentCaller, NEW row \in comments, CheckDelete(c, row)
      PROVE  CommentsStep
  <2>1. [at |-> "delete", comment |-> row] \in CommentCall
    BY <1>0 DEF CommentCall
  <2> QED
    BY <1>1, <1>3, <2>1 DEF CheckDelete
<1>4. ASSUME NEW c \in CommentCaller, PublishComment(c) PROVE CommentsStep
  <2>1. PICK v \in Video : v = commentCall[c].video
    BY <1>4, CallVideo DEF PublishComment
  <2>2. CommentCallGoes(c, Quiet)
    BY <1>0, <1>4, CommentCallTo DEF PublishComment
  <2>3. Heats(v, 1) /\ MayFailToPublish
    BY <1>0, <1>4, <2>1, HeatHeats DEF PublishComment
  <2>4. Accepted(v, 1)
    BY <1>4, <2>1, AcceptedFor DEF PublishComment
  <2>5. PublishingComment(c, v)
    BY <1>4, <2>1, <2>2, <2>3, <2>4 DEF PublishComment, PublishingComment
  <2> QED
    BY <2>5 DEF CommentsStep
<1>5. ASSUME NEW c \in CommentCaller, FailToPublishComment(c) PROVE CommentsStep
  <2>1. PICK v \in Video : v = commentCall[c].video
    BY <1>5, CallVideo DEF FailToPublishComment
  <2>2. PICK heated \in BOOLEAN :
           /\ IF heated THEN Enqueue(v, 1) ELSE UNCHANGED hotQueue
           /\ commentCall' = [commentCall EXCEPT ![c] =
                 [at |-> "write", video |-> v, heated |-> heated]]
    BY <1>5, <2>1 DEF FailToPublishComment
  <2>3. [at |-> "write", video |-> v, heated |-> heated] \in CommentCall
    BY DEF CommentCall
  <2>4. CommentCallGoes(c, [at |-> "write", video |-> v, heated |-> heated])
    BY <2>2, <2>3, CommentCallTo
  <2>5. /\ HotOK'
        /\ \A u \in Video : Heated(u)' = Heated(u) + (IF heated /\ u = v THEN 1 ELSE 0)
    <3>1. UNCHANGED hot
      BY <1>5 DEF FailToPublishComment
    <3>2. CASE heated
      BY <1>0, <2>2, <3>1, <3>2, Enqueued DEF Heats
    <3>3. CASE ~heated
      BY <1>0, <2>2, <3>1, <3>3, NotHeated, ScoreType DEF hotVars
    <3> QED
      BY <3>2, <3>3
  <2>6. FailingComment(c, v, heated)
    BY <1>5, <2>1, <2>4, <2>5 DEF FailToPublishComment, FailingComment
  <2> QED
    BY <2>6 DEF CommentsStep
<1>6. ASSUME NEW c \in CommentCaller, WriteComment(c) PROVE CommentsStep
  <2>1. PICK v \in Video : v = commentCall[c].video
    BY <1>6, CallVideo DEF WriteComment
  <2>2. CommentCallGoes(c, Quiet)
    BY <1>0, <1>6, CommentCallTo DEF WriteComment
  <2>3. commentCall[c].heated \in BOOLEAN /\ UNCHANGED hotQueue
    BY <1>6, CallVideo DEF WriteComment
  <2>4. /\ HotOK'
        /\ \A u \in Video :
              Heated(u)' = Heated(u) + (IF ~commentCall[c].heated /\ u = v THEN 1 ELSE 0)
    <3>1. CASE commentCall[c].heated
      <4>1. UNCHANGED hotVars
        BY <1>6, <2>3, <3>1 DEF WriteComment, hotVars
      <4> QED
        BY <1>0, <3>1, <4>1, NotHeated, ScoreType
    <3>2. CASE ~commentCall[c].heated
      <4>1. UpdatePopularityCache(v, 1)
        BY <1>6, <2>1, <3>2 DEF WriteComment
      <4>2. Heats(v, 1)
        BY <1>0, <2>3, <4>1, UpdatedHot
      <4> QED
        BY <3>2, <4>2 DEF Heats
    <3> QED
      BY <2>3, <3>1, <3>2
  <2>5. Accepted(v, 1)
    BY <1>6, <2>1, AcceptedFor DEF WriteComment
  <2>6. WritingComment(c, v)
    BY <1>6, <2>1, <2>2, <2>4, <2>5 DEF WriteComment, WritingComment
  <2> QED
    BY <2>6 DEF CommentsStep
<1>7. ASSUME NEW c \in CommentCaller, RefuseComment(c) PROVE CommentsStep
  <2>1. CommentCallGoes(c, Quiet)
    BY <1>0, <1>7, CommentCallTo DEF RefuseComment
  <2> QED
    BY <1>7, <2>1 DEF RefuseComment, RefusingComment, CommentsStep
<1>8. ASSUME NEW c \in CommentCaller, DeleteComment(c) PROVE CommentsStep
  <2>1. PICK row \in Comment : row = commentCall[c].comment
    BY <1>8, CallRow DEF DeleteComment
  <2>2. row.video \in Video
    BY DEF Comment
  <2>3. CommentCallGoes(c, Quiet)
    BY <1>0, <1>8, CommentCallTo DEF DeleteComment
  <2>4. Accepted(row.video, -1)
    <3>1. accepted' = [accepted EXCEPT ![row.video] = @ + (-1)]
      BY <1>0, <1>8, <2>1, <2>2 DEF DeleteComment
    <3> QED
      BY <2>2, <3>1, AcceptedFor
  <2>5. CASE /\ commentQueue' = Append(commentQueue, [action |-> "delete", id |-> row.id])
             /\ Heat(row.video, -1)
             /\ UNCHANGED comments
    <3>1. Heats(row.video, -1) /\ MayFailToPublish
      BY <1>0, <2>2, <2>5, HeatHeats
    <3>2. Deleting(c, row)
      BY <1>8, <2>1, <2>3, <2>4, <2>5, <3>1 DEF DeleteComment, Deleting
    <3> QED
      BY <3>2 DEF CommentsStep
  <2>6. CASE /\ comments' = comments \ {row}
             /\ PublishFails
             /\ \/ Enqueue(row.video, -1) /\ UNCHANGED hot
                \/ UpdatePopularityCache(row.video, -1) /\ UNCHANGED hotQueue
             /\ UNCHANGED commentQueue
    <3>1. Heats(row.video, -1)
      BY <1>0, <2>2, <2>6, Enqueued, UpdatedHot
    <3>2. Deleting(c, row)
      BY <1>8, <2>1, <2>3, <2>4, <2>6, <3>1 DEF DeleteComment, Deleting
    <3> QED
      BY <3>2 DEF CommentsStep
  <2> QED
    BY <1>8, <2>1, <2>5, <2>6 DEF DeleteComment
<1>9. ASSUME NEW c \in CommentCaller, RefuseDelete(c) PROVE CommentsStep
  <2>1. CommentCallGoes(c, Quiet)
    BY <1>0, <1>9, CommentCallTo DEF RefuseDelete
  <2> QED
    BY <1>9, <2>1 DEF RefuseDelete, RefusingDelete, CommentsStep
<1>10. ASSUME NEW w \in CommentConsumer, DeliverComment(w) PROVE CommentsStep
  <2>1. commentQueue # << >> /\ Head(commentQueue) \in CommentEvent
    BY <1>0, <1>10, Headed DEF DeliverComment
  <2>2. CommentJobGoes(w, JobOf(Head(commentQueue)))
    BY <1>10, <2>1, JobOfEvent, CommentJobTo DEF DeliverComment
  <2> QED
    BY <1>10, <2>2 DEF DeliverComment, DeliveringComment, CommentsStep
<1>11. ASSUME NEW w \in CommentConsumer, ApplyPublish(w) PROVE CommentsStep
  <2>1. /\ commentJob[w].event \in CommentEvent /\ commentJob[w].video \in Video
        /\ commentJob[w] = [at |-> "insert", event |-> commentJob[w].event,
                            video |-> commentJob[w].video]
    BY <1>11, CommentJobKinds DEF ApplyPublish
  <2>2. PICK v \in Video : v = commentJob[w].video
    BY <2>1
  <2>3. PICK j : j = [at |-> "raise", event |-> commentJob[w].event, video |-> v]
    OBVIOUS
  <2>4. j \in CommentJob
    BY <2>1, <2>3 DEF CommentJob
  <2>5. [commentJob[w] EXCEPT !.at = "raise"] = j
    BY <2>1, <2>2, <2>3
  <2>6. commentJob' = [commentJob EXCEPT ![w] = j]
    BY <1>11, <2>5 DEF ApplyPublish
  <2>7. CommentJobGoes(w, j)
    BY <2>4, <2>6, CommentJobTo
  <2>8. Inserting(w, v)
    BY <1>11, <2>2, <2>3, <2>7 DEF ApplyPublish, Inserting
  <2> QED
    BY <2>8 DEF CommentsStep
<1>12. ASSUME NEW w \in CommentConsumer, ApplyDelete(w) PROVE CommentsStep
  <2>1. /\ commentJob[w].event \in CommentEvent /\ commentJob[w].comment \in Comment
        /\ commentJob[w] = [at |-> "remove", event |-> commentJob[w].event,
                            comment |-> commentJob[w].comment]
    BY <1>12, CommentJobKinds DEF ApplyDelete
  <2>2. PICK row \in Comment : row = commentJob[w].comment
    BY <2>1
  <2>3. PICK j : j = [at |-> "lower", event |-> commentJob[w].event, comment |-> row]
    OBVIOUS
  <2>4. j \in CommentJob
    BY <2>1, <2>3 DEF CommentJob
  <2>5. [commentJob[w] EXCEPT !.at = "lower"] = j
    BY <2>1, <2>2, <2>3
  <2>6. commentJob' = [commentJob EXCEPT ![w] = j]
    BY <1>12, <2>5 DEF ApplyDelete
  <2>7. CommentJobGoes(w, j)
    BY <2>4, <2>6, CommentJobTo
  <2>8. Removing(w, row)
    BY <1>12, <2>2, <2>3, <2>7 DEF ApplyDelete, Removing
  <2> QED
    BY <2>8 DEF CommentsStep
<1>13. ASSUME NEW w \in CommentConsumer, ChangePopularityOfComment(w) PROVE CommentsStep
  <2>1. PICK v, change :
           /\ \/ commentJob[w].at = "raise" /\ v = commentJob[w].video /\ change = 1
              \/ commentJob[w].at = "lower" /\ v = commentJob[w].comment.video /\ change = -1
           /\ popularity' = Shifted(popularity, v, change)
           /\ commentJob' = [commentJob EXCEPT ![w] =
                 [at |-> "acked", event |-> commentJob[w].event, video |-> v]]
    BY <1>13 DEF ChangePopularityOfComment
  <2>2. v \in Video /\ change \in Change /\ commentJob[w].event \in CommentEvent
    BY <1>0, <2>1, CommentJobKinds DEF Comment
  <2>3. PICK j : j = [at |-> "acked", event |-> commentJob[w].event, video |-> v]
    OBVIOUS
  <2>4. j \in CommentJob
    BY <2>2, <2>3 DEF CommentJob
  <2>5. CommentJobGoes(w, j)
    BY <2>1, <2>3, <2>4, CommentJobTo
  <2>6. RatingComment(w, v, change)
    BY <1>13, <2>1, <2>3, <2>5 DEF ChangePopularityOfComment, RatingComment
  <2> QED
    BY <2>2, <2>6 DEF CommentsStep
<1>14. ASSUME NEW w \in CommentConsumer, AckComment(w) PROVE CommentsStep
  <2>1. CommentJobGoes(w, Quiet)
    BY <1>0, <1>14, CommentJobTo DEF AckComment
  <2> QED
    BY <1>14, <2>1 DEF AckComment, AckingComment, CommentsStep
<1>15. ASSUME NEW w \in CommentConsumer, RequeueComment(w) PROVE CommentsStep
  <2>1. CommentJobGoes(w, Quiet)
    BY <1>0, <1>15, CommentJobTo DEF RequeueComment
  <2>2. faults' = faults + 1 /\ faults' \in 0 .. MaxFaults
    BY <1>0, <1>15, FaultBound DEF RequeueComment
  <2>3. PICK i \in 1 .. Len(commentQueue) + 1 :
           commentQueue' = InsertAt(commentQueue, i, commentJob[w].event)
    BY <1>15 DEF RequeueComment
  <2>4. RequeuingComment(w, i)
    BY <1>15, <2>1, <2>2, <2>3 DEF RequeueComment, RequeuingComment
  <2> QED
    BY <2>4 DEF CommentsStep
<1> QED
  BY <1>2, <1>3, <1>4, <1>5, <1>6, <1>7, <1>8, <1>9, <1>10, <1>11, <1>12, <1>13, <1>14, <1>15
     DEF CommentsNext, CommentCallerStep, CommentConsumerStep

(***************************************************************************)
(* A step keeps the ids and the jobs in order if it writes only rows with  *)
(* the next id, and a consumer takes up, or goes on with, a row that was   *)
(* there, or an event of the right kind.                                   *)
(***************************************************************************)
RowsFollow ==
    /\ IsFiniteSet(comments') /\ comments' \subseteq Comment
    /\ \A row \in comments' : row \in comments \/ row.id <= created'
    /\ created' \in {created, created + 1}

JobFollows(w) ==
    \/ commentJob'[w] = commentJob[w]
    \/ commentJob'[w].at \in {"idle", "raise", "acked"}
    \/ commentJob'[w].at = "insert" /\ commentJob'[w].event.action = "publish"
    \/ /\ commentJob'[w].at \in {"remove", "lower"}
       /\ commentJob'[w].event.action = "delete"
       /\ \/ commentJob'[w].comment \in comments
          \/ commentJob[w].at = "remove" /\ commentJob'[w].comment = commentJob[w].comment

LEMMA TableKept ==
  ASSUME CommentsOK, RowsFollow, \A w \in CommentConsumer : JobFollows(w)
  PROVE  IsFiniteSet(comments') /\ comments' \subseteq Comment /\ created' \in Nat
         /\ IdsGiven' /\ JobsFit'
<1>1. /\ comments \subseteq Comment /\ created \in Nat
      /\ \A row \in comments : row.id \in Nat /\ row.id <= created
      /\ \A w \in CommentConsumer :
            commentJob[w].at \in {"remove", "lower"} =>
               commentJob[w].comment.id \in Nat /\ commentJob[w].comment.id <= created
  BY CommentJobKinds DEF CommentsOK, CommentsTypeOK, IdsGiven, Comment
<1>2. created' \in Nat /\ created <= created'
  BY <1>1 DEF RowsFollow
<1>3. ASSUME NEW row \in comments' PROVE row.id <= created'
  BY <1>1, <1>2 DEF RowsFollow
<1>4. ASSUME NEW w \in CommentConsumer, commentJob'[w].at \in {"remove", "lower"}
      PROVE  commentJob'[w].comment.id <= created'
  <2>1. commentJob'[w].comment.id \in Nat /\ commentJob'[w].comment.id <= created
    BY <1>1, <1>4 DEF JobFollows
  <2> QED
    BY <1>1, <1>2, <2>1
<1>5. JobsFit'
  BY DEF JobFollows, JobsFit, CommentsOK
<1> QED
  BY <1>2, <1>3, <1>4, <1>5 DEF IdsGiven, RowsFollow

LEMMA RowInserted ==
  ASSUME CommentsOK, NEW v \in Video, InsertComment(v)
  PROVE  RowsFollow
<1>1. created \in Nat /\ comments \subseteq Comment /\ IsFiniteSet(comments)
  BY DEF CommentsOK, CommentsTypeOK
<1>2. PICK row : row = [id |-> created + 1, video |-> v]
  OBVIOUS
<1>3. row \in Comment /\ row.id = created + 1
  BY <1>1, <1>2 DEF Comment
<1>4. comments' = comments \cup {row} /\ created' = created + 1
  BY <1>2 DEF InsertComment
<1>5. IsFiniteSet(comments')
  BY <1>1, <1>4, FS_AddElement
<1> QED
  BY <1>1, <1>3, <1>4, <1>5 DEF RowsFollow

LEMMA RowRemoved ==
  ASSUME CommentsOK, NEW row, comments' = comments \ {row}, UNCHANGED created
  PROVE  RowsFollow
<1>1. IsFiniteSet(comments')
  BY FS_Subset DEF CommentsOK
<1> QED
  BY <1>1 DEF RowsFollow, CommentsOK, CommentsTypeOK

LEMMA RowsStay ==
  CommentsOK /\ UNCHANGED <<comments, created>> => RowsFollow
  BY DEF RowsFollow, CommentsOK, CommentsTypeOK

(* The rest of the state of comments after a step *)
CommentsGoOn ==
    /\ RowsFollow /\ \A w \in CommentConsumer : JobFollows(w)
    /\ published' \in Nat
    /\ commentCall' \in [CommentCaller -> CommentCall]
    /\ commentQueue' \in Seq(CommentEvent)
    /\ commentJob' \in [CommentConsumer -> CommentJob]

LEMMA CommentsGoneOn == CommentsOK /\ CommentsGoOn => CommentsOK'
  BY TableKept DEF CommentsGoOn, CommentsOK, CommentsTypeOK

LEMMA CommentsKept == CommentsOK /\ StatsOK /\ CommentsStep => CommentsOK' /\ StatsOK'
<1> SUFFICES ASSUME CommentsOK, StatsOK, CommentsStep PROVE CommentsOK' /\ StatsOK'
  OBVIOUS
<1>0. /\ RowsOK /\ HotOK /\ BoundsOK /\ accepted \in [Video -> Int]
      /\ CommentsTypeOK /\ published \in Nat /\ published + 1 \in Nat
  BY DEF StatsOK, CommentsOK, CommentsTypeOK
<1>1. ASSUME NEW c \in CommentCaller, Asking(c) PROVE CommentsOK' /\ StatsOK'
  <2>1. RowsOK' /\ HotOK' /\ BoundsOK' /\ accepted' \in [Video -> Int]
    BY <1>0, <1>1, NotHeated DEF Asking, RowsOK, rowVars, otherVars, BoundsOK
  <2>2. CommentsGoOn
    BY <1>0, <1>1, RowsStay
       DEF Asking, CommentsGoOn, JobFollows, CommentsTypeOK, CommentCallGoes
  <2> QED
    BY <2>1, <2>2, CommentsGoneOn DEF StatsOK
<1>2. ASSUME NEW c \in CommentCaller, RefusingComment(c) PROVE CommentsOK' /\ StatsOK'
  <2>1. CommentsGoOn
    BY <1>0, <1>2, RowsStay
       DEF RefusingComment, CommentsGoOn, JobFollows, CommentsTypeOK, CommentCallGoes
  <2> QED
    BY <1>2, <2>1, CommentsGoneOn, StatsUnchanged DEF RefusingComment
<1>3. ASSUME NEW c \in CommentCaller, RefusingDelete(c) PROVE CommentsOK' /\ StatsOK'
  <2>1. RowsOK' /\ HotOK' /\ BoundsOK' /\ accepted' \in [Video -> Int]
    BY <1>0, <1>3, NotHeated, MayFailBound
       DEF RefusingDelete, PublishFails, MayFailToPublish, RowsOK, rowVars, otherVars, BoundsOK
  <2>2. CommentsGoOn
    BY <1>0, <1>3, RowsStay
       DEF RefusingDelete, CommentsGoOn, JobFollows, CommentsTypeOK, CommentCallGoes
  <2> QED
    BY <2>1, <2>2, CommentsGoneOn DEF StatsOK
<1>4. ASSUME NEW c \in CommentCaller, NEW v \in Video, PublishingComment(c, v)
      PROVE  CommentsOK' /\ StatsOK'
  <2>1. RowsOK' /\ HotOK' /\ BoundsOK' /\ accepted' \in [Video -> Int]
    BY <1>0, <1>4, MayFailBound
       DEF PublishingComment, Heats, Accepted, RowsOK, rowVars, otherVars, BoundsOK
  <2>2. [action |-> "publish", video |-> v] \in CommentEvent
    BY DEF CommentEvent
  <2>3. commentQueue' \in Seq(CommentEvent)
    BY <1>0, <1>4, <2>2, Appended DEF PublishingComment, CommentsTypeOK
  <2>4. CommentsGoOn
    BY <1>0, <1>4, <2>3, RowsStay
       DEF PublishingComment, CommentsGoOn, JobFollows, CommentsTypeOK, CommentCallGoes
  <2> QED
    BY <2>1, <2>4, CommentsGoneOn DEF StatsOK
<1>5. ASSUME NEW c \in CommentCaller, NEW v \in Video, NEW heated \in BOOLEAN,
             FailingComment(c, v, heated)
      PROVE  CommentsOK' /\ StatsOK'
  <2>1. RowsOK' /\ HotOK' /\ BoundsOK' /\ accepted' \in [Video -> Int]
    BY <1>0, <1>5, MayFailBound
       DEF FailingComment, PublishFails, MayFailToPublish, RowsOK, rowVars, otherVars, BoundsOK
  <2>2. CommentsGoOn
    BY <1>0, <1>5, RowsStay
       DEF FailingComment, CommentsGoOn, JobFollows, CommentsTypeOK, CommentCallGoes
  <2> QED
    BY <2>1, <2>2, CommentsGoneOn DEF StatsOK
<1>6. ASSUME NEW c \in CommentCaller, NEW v \in Video, WritingComment(c, v)
      PROVE  CommentsOK' /\ StatsOK'
  <2>1. popularity' \in [Video -> Nat]
    <3>1. popularity \in [Video -> Nat] /\ videos \subseteq Video
      BY <1>0 DEF RowsOK
    <3>2. Moved(popularity', popularity, v, 1)
      BY <1>6, <3>1, NatColumn, RaisedColumn DEF WritingComment
    <3> QED
      BY <3>1, <3>2 DEF Moved
  <2>2. RowsOK' /\ HotOK' /\ BoundsOK' /\ accepted' \in [Video -> Int]
    BY <1>0, <1>6, <2>1 DEF WritingComment, Accepted, RowsOK, BoundsOK, otherVars
  <2>3. CommentsGoOn
    BY <1>0, <1>6, RowInserted
       DEF WritingComment, CommentsGoOn, JobFollows, CommentsTypeOK, CommentCallGoes
  <2> QED
    BY <2>2, <2>3, CommentsGoneOn DEF StatsOK
<1>7. ASSUME NEW c \in CommentCaller, NEW row \in Comment, Deleting(c, row)
      PROVE  CommentsOK' /\ StatsOK'
  <2>1. MayFailToPublish
    BY <1>7 DEF Deleting, PublishFails, MayFailToPublish
  <2>2. RowsOK' /\ HotOK' /\ BoundsOK' /\ accepted' \in [Video -> Int]
    BY <1>0, <1>7, <2>1, MayFailBound DEF Deleting, Heats, Accepted, RowsOK, rowVars, otherVars, BoundsOK
  <2>3. PICK e \in CommentEvent : e = [action |-> "delete", id |-> row.id]
    BY DEF CommentEvent, Comment
  <2>4. commentQueue' \in Seq(CommentEvent)
    <3>1. commentQueue' = Append(commentQueue, e) \/ UNCHANGED commentQueue
      BY <1>7, <2>3 DEF Deleting
    <3> QED
      BY <1>0, <3>1, Appended DEF CommentsTypeOK
  <2>5. RowsFollow
    BY <1>7, RowsStay, RowRemoved DEF Deleting
  <2>6. CommentsGoOn
    BY <1>0, <1>7, <2>4, <2>5
       DEF Deleting, CommentsGoOn, JobFollows, CommentsTypeOK, CommentCallGoes
  <2> QED
    BY <2>2, <2>6, CommentsGoneOn DEF StatsOK
<1>8. ASSUME NEW w \in CommentConsumer, DeliveringComment(w) PROVE CommentsOK' /\ StatsOK'
  <2>1. commentQueue' \in Seq(CommentEvent) /\ Head(commentQueue) \in CommentEvent
    BY <1>0, <1>8, Headed DEF DeliveringComment, CommentsTypeOK
  <2>2. JobFollows(w)
    BY <1>8, <2>1, JobOfEvent DEF DeliveringComment, CommentJobGoes, JobFollows
  <2>3. CommentsGoOn
    BY <1>0, <1>8, <2>1, <2>2, RowsStay
       DEF DeliveringComment, CommentsGoOn, JobFollows, CommentsTypeOK, CommentJobGoes
  <2> QED
    BY <1>8, <2>3, CommentsGoneOn, StatsUnchanged DEF DeliveringComment
<1>9. ASSUME NEW w \in CommentConsumer, AckingComment(w) PROVE CommentsOK' /\ StatsOK'
  <2>1. CommentsGoOn
    BY <1>0, <1>9, RowsStay
       DEF AckingComment, CommentsGoOn, JobFollows, CommentsTypeOK, CommentJobGoes, Quiet
  <2> QED
    BY <1>9, <2>1, CommentsGoneOn, StatsUnchanged DEF AckingComment
<1>10. ASSUME NEW w \in CommentConsumer, NEW v \in Video, Inserting(w, v)
       PROVE  CommentsOK' /\ StatsOK'
  <2>1. CommentsGoOn
    BY <1>0, <1>10, RowInserted
       DEF Inserting, CommentsGoOn, JobFollows, CommentsTypeOK, CommentJobGoes
  <2> QED
    BY <1>10, <2>1, CommentsGoneOn, StatsUnchanged DEF Inserting
<1>11. ASSUME NEW w \in CommentConsumer, NEW v \in Video, NEW change \in Change,
              RatingComment(w, v, change)
       PROVE  CommentsOK' /\ StatsOK'
  <2>1. popularity' \in [Video -> Nat]
    <3>1. popularity \in [Video -> Nat] /\ videos \subseteq Video /\ change \in Int
      BY <1>0, ChangeType DEF RowsOK
    <3>2. Moved(popularity', popularity, v, change)
      BY <1>11, <3>1, NatColumn, ShiftedColumn DEF RatingComment
    <3> QED
      BY <3>1, <3>2 DEF Moved
  <2>2. RowsOK' /\ HotOK' /\ BoundsOK' /\ accepted' \in [Video -> Int]
    BY <1>0, <1>11, <2>1, NotHeated DEF RatingComment, RowsOK, BoundsOK, otherVars
  <2>3. CommentsGoOn
    BY <1>0, <1>11, RowsStay
       DEF RatingComment, CommentsGoOn, JobFollows, CommentsTypeOK, CommentJobGoes
  <2> QED
    BY <2>2, <2>3, CommentsGoneOn DEF StatsOK
<1>12. ASSUME NEW w \in CommentConsumer, NEW row \in Comment, Removing(w, row)
       PROVE  CommentsOK' /\ StatsOK'
  <2>1. RowsFollow
    BY <1>12, RowRemoved DEF Removing
  <2>2. commentJob[w].event.action = "delete"
    BY <1>12 DEF Removing, CommentsOK, JobsFit
  <2>3. CommentsGoOn
    BY <1>0, <1>12, <2>1, <2>2
       DEF Removing, CommentsGoOn, JobFollows, CommentsTypeOK, CommentJobGoes
  <2> QED
    BY <1>12, <2>3, CommentsGoneOn, StatsUnchanged DEF Removing
<1>13. ASSUME NEW w \in CommentConsumer, NEW i \in 1 .. Len(commentQueue) + 1,
              RequeuingComment(w, i)
       PROVE  CommentsOK' /\ StatsOK'
  <2>1. RowsOK' /\ HotOK' /\ BoundsOK' /\ accepted' \in [Video -> Int]
    BY <1>0, <1>13, NotHeated DEF RequeuingComment, RowsOK, rowVars, otherVars, BoundsOK
  <2>2. commentJob[w].event \in CommentEvent
    BY <1>13, CommentJobKinds DEF RequeuingComment
  <2>3. commentQueue' \in Seq(CommentEvent)
    BY <1>0, <1>13, <2>2, Inserted DEF RequeuingComment, CommentsTypeOK
  <2>4. CommentsGoOn
    BY <1>0, <1>13, <2>3, RowsStay
       DEF RequeuingComment, CommentsGoOn, JobFollows, CommentsTypeOK, CommentJobGoes, Quiet
  <2> QED
    BY <2>1, <2>4, CommentsGoneOn DEF StatsOK
<1> QED
  BY <1>1, <1>2, <1>3, <1>4, <1>5, <1>6, <1>7, <1>8, <1>9, <1>10, <1>11, <1>12, <1>13
     DEF CommentsStep

-----------------------------------------------------------------------------
(* A step of the whole is a step of one part; the others stay. *)

WorkStep ==
    \/ StatsNext /\ UNCHANGED <<likeVars, commentVars>>
    \/ LikesStep /\ UNCHANGED commentVars
    \/ CommentsStep /\ UNCHANGED likeVars
    \/ UNCHANGED vars

LEMMA StepOfWork == WorkOK /\ [Next]_vars => WorkStep
  BY StepOfLikes, StepOfComments DEF Next, WorkStep, WorkOK

LEMMA LikesUnchanged == LikesOK /\ UNCHANGED likeVars => LikesOK'
  BY DEF likeVars, LikesOK, LikesTypeOK

LEMMA CommentsUnchanged == CommentsOK /\ UNCHANGED commentVars => CommentsOK'
  BY DEF commentVars, CommentsOK, CommentsTypeOK, IdsGiven, JobsFit

LEMMA WorkKept == WorkOK /\ WorkStep => WorkOK'
<1> SUFFICES ASSUME WorkOK, WorkStep PROVE WorkOK'
  OBVIOUS
<1>1. CASE StatsNext /\ UNCHANGED <<likeVars, commentVars>>
  BY <1>1, StatsKept, LikesUnchanged, CommentsUnchanged DEF WorkOK
<1>2. CASE LikesStep /\ UNCHANGED commentVars
  BY <1>2, LikesKept, CommentsUnchanged DEF WorkOK
<1>3. CASE CommentsStep /\ UNCHANGED likeVars
  BY <1>3, CommentsKept, LikesUnchanged DEF WorkOK
<1>4. CASE UNCHANGED vars
  BY <1>4, StatsUnchanged, LikesUnchanged, CommentsUnchanged DEF WorkOK, vars
<1> QED
  BY <1>1, <1>2, <1>3, <1>4 DEF WorkStep

LEMMA WorkAlways == Spec => []WorkOK
<1>1. WorkOK /\ [Next]_vars => WorkOK'
  BY StepOfWork, WorkKept
<1> QED
  BY <1>1, WorkStart, PTL DEF Spec

(* Every table, column, queue, job and score keeps its type, and every      *)
(* bounded count its bound (likeworker.go, commentworker.go, popularity     *)
(* worker.go and the services).                                             *)
THEOREM WorkTypeCorrect == Spec => []TypeOK
  BY WorkAlways, TypeOfWork, PTL

-----------------------------------------------------------------------------
(***************************************************************************)
(* What a column of table videos owes to the rows of likes.  A job that    *)
(* has written or deleted a row and has still to change the column is due; *)
(* "at" names the statements of the column that are to come.               *)
(***************************************************************************)
Lowering(v, at) ==
    {w \in LikeConsumer : /\ likeJob[w].at \in at
                          /\ likeJob[w].event.video = v
                          /\ likeJob[w].event.action = "unlike"}

LikesDue(v, at) == Cardinality(Uncounted(v, at)) - Cardinality(Lowering(v, at))
LikesOwed(v, at) == Cardinality(LikesOf(v)) - LikesDue(v, at)

(* The part of one job in it *)
DueOf(j, v, at) ==
    IF j.at \in at /\ j.event.video = v THEN ChangeOf(j.event) ELSE 0

Columns == {{"likes"}, {"likes", "popularity"}}

LEMMA LikesCounted ==
  LikesOK => \A v, at : /\ IsFiniteSet(LikesOf(v)) /\ Cardinality(LikesOf(v)) \in Nat
                        /\ IsFiniteSet(Uncounted(v, at)) /\ Cardinality(Uncounted(v, at)) \in Nat
                        /\ IsFiniteSet(Lowering(v, at)) /\ Cardinality(Lowering(v, at)) \in Nat
                        /\ LikesDue(v, at) \in Int /\ LikesOwed(v, at) \in Int
<1> SUFFICES ASSUME LikesOK, NEW v, NEW at
             PROVE  /\ IsFiniteSet(LikesOf(v)) /\ Cardinality(LikesOf(v)) \in Nat
                    /\ IsFiniteSet(Uncounted(v, at)) /\ Cardinality(Uncounted(v, at)) \in Nat
                    /\ IsFiniteSet(Lowering(v, at)) /\ Cardinality(Lowering(v, at)) \in Nat
                    /\ LikesDue(v, at) \in Int /\ LikesOwed(v, at) \in Int
  OBVIOUS
<1>1. /\ LikesOf(v) \subseteq likes /\ IsFiniteSet(likes)
      /\ Uncounted(v, at) \subseteq LikeConsumer /\ Lowering(v, at) \subseteq LikeConsumer
      /\ IsFiniteSet(LikeConsumer)
  BY LikesAssumption DEF LikesOf, LikesOK, Uncounted, Lowering, LikesAssumption
<1>2. /\ IsFiniteSet(LikesOf(v)) /\ IsFiniteSet(Uncounted(v, at))
      /\ IsFiniteSet(Lowering(v, at))
  BY <1>1, FS_Subset
<1>3. /\ Cardinality(LikesOf(v)) \in Nat /\ Cardinality(Uncounted(v, at)) \in Nat
      /\ Cardinality(Lowering(v, at)) \in Nat
  BY <1>2, FS_CardinalityType
<1> QED
  BY <1>2, <1>3 DEF LikesDue, LikesOwed

LEMMA RowsCounted ==
  ASSUME LikesOK, NEW event \in LikeEvent, likes' = LikesAfter(event)
  PROVE  \A v : Cardinality(LikesOf(v)') =
                   Cardinality(LikesOf(v))
                     + (IF Effective(event) /\ v = event.video THEN ChangeOf(event) ELSE 0)
<1> SUFFICES ASSUME NEW v
             PROVE  Cardinality(LikesOf(v)') =
                      Cardinality(LikesOf(v))
                        + (IF Effective(event) /\ v = event.video THEN ChangeOf(event) ELSE 0)
  OBVIOUS
<1>1. PICK k : k = Key(event)
  OBVIOUS
<1>2. /\ k[2] = event.video /\ event.action \in {"like", "unlike"}
      /\ likes' \ {k} = likes \ {k}
      /\ k \in likes' <=> event.action = "like"
  BY <1>1, EventOfLike
<1>3. LikesOf(v) \ {k} = LikesOf(v)' \ {k}
  BY <1>2 DEF LikesOf
<1>4. /\ k \in LikesOf(v)' <=> event.action = "like" /\ v = event.video
      /\ k \in LikesOf(v) <=> Present(event) /\ v = event.video
  BY <1>1, <1>2 DEF LikesOf, Present
<1>5. /\ Cardinality(LikesOf(v)) \in Nat
      /\ Cardinality(LikesOf(v)') =
           Cardinality(LikesOf(v)) + Bit(k \in LikesOf(v)') - Bit(k \in LikesOf(v))
  BY <1>3, LikesCounted, SetMoves
<1>6. Present(event) \in BOOLEAN
  BY DEF Present
<1>7. CASE v = event.video
  <2>1. /\ Bit(k \in LikesOf(v)') = (IF event.action = "like" THEN 1 ELSE 0)
        /\ Bit(k \in LikesOf(v)) = (IF Present(event) THEN 1 ELSE 0)
    BY <1>4, <1>7 DEF Bit
  <2> QED
    BY <1>2, <1>5, <1>6, <1>7, <2>1 DEF Effective, ChangeOf
<1>8. CASE v # event.video
  BY <1>4, <1>5, <1>8 DEF Bit
<1> QED
  BY <1>7, <1>8

LEMMA DueMoves ==
  ASSUME LikesOK, NEW w \in LikeConsumer, NEW j \in LikeJob, JobGoes(w, j)
  PROVE  \A v \in Video, at \in Columns :
            LikesDue(v, at)' = LikesDue(v, at) + DueOf(j, v, at) - DueOf(likeJob[w], v, at)
<1> SUFFICES ASSUME NEW v \in Video, NEW at \in Columns
             PROVE  LikesDue(v, at)' =
                       LikesDue(v, at) + DueOf(j, v, at) - DueOf(likeJob[w], v, at)
  OBVIOUS
<1>1. /\ Uncounted(v, at) \ {w} = Uncounted(v, at)' \ {w}
      /\ w \in Uncounted(v, at)' <=> j.at \in at /\ j.event.video = v /\ j.event.action = "like"
  BY DEF JobGoes, Uncounted
<1>2. /\ Lowering(v, at) \ {w} = Lowering(v, at)' \ {w}
      /\ w \in Lowering(v, at)' <=> j.at \in at /\ j.event.video = v /\ j.event.action = "unlike"
  BY DEF JobGoes, Lowering
<1>3. /\ Cardinality(Uncounted(v, at)) \in Nat /\ Cardinality(Uncounted(v, at)') \in Nat
      /\ Cardinality(Uncounted(v, at)') = Cardinality(Uncounted(v, at))
            + Bit(w \in Uncounted(v, at)') - Bit(w \in Uncounted(v, at))
  BY <1>1, LikesCounted, SetMoves
<1>4. /\ Cardinality(Lowering(v, at)) \in Nat /\ Cardinality(Lowering(v, at)') \in Nat
      /\ Cardinality(Lowering(v, at)') = Cardinality(Lowering(v, at))
            + Bit(w \in Lowering(v, at)') - Bit(w \in Lowering(v, at))
  BY <1>2, LikesCounted, SetMoves
<1>5. ASSUME NEW i \in LikeJob
      PROVE  i.at \in at => i.event.action \in {"like", "unlike"}
  BY DEF LikeJob, Idle, LikeEvent, Columns
<1>6. DueOf(j, v, at) = Bit(w \in Uncounted(v, at)') - Bit(w \in Lowering(v, at)')
  BY <1>1, <1>2, <1>5 DEF DueOf, Bit, ChangeOf
<1>7. likeJob[w] \in LikeJob
  BY DEF LikesOK, LikesTypeOK
<1>8. DueOf(likeJob[w], v, at) = Bit(w \in Uncounted(v, at)) - Bit(w \in Lowering(v, at))
  BY <1>5, <1>7 DEF DueOf, Bit, ChangeOf, Uncounted, Lowering
<1>9. /\ Bit(w \in Uncounted(v, at)') \in Int /\ Bit(w \in Uncounted(v, at)) \in Int
      /\ Bit(w \in Lowering(v, at)') \in Int /\ Bit(w \in Lowering(v, at)) \in Int
  BY DEF Bit
<1>10. LikesDue(v, at)' = Cardinality(Uncounted(v, at)') - Cardinality(Lowering(v, at)')
  BY DEF LikesDue
<1> QED
  BY <1>3, <1>4, <1>6, <1>8, <1>9, <1>10 DEF LikesDue

(***************************************************************************)
(* A column goes from c to d while what it owes changes by m: both change  *)
(* alike, or the step is a redelivery, or a publish error.                 *)
(***************************************************************************)
Together(c, d, m) == m \in {-1, 0, 1} /\ d \in {c + m, Greatest0(c + m)}

MovesWith(c, d, m) ==
    \/ Together(c, d, m) /\ faults' \in {faults, faults + 1}
    \/ faults' = faults + 1 /\ d = c /\ m \in Int /\ m <= 1
    \/ publishFailures' = publishFailures + 1 /\ faults' = faults /\ d = c /\ m \in Int /\ m <= 0

LEMMA StillCovered ==
  ASSUME NEW c \in Int, NEW d, NEW n \in Int, NEW m, MovesWith(c, d, m), faults \in Nat,
         c + faults >= n
  PROVE  d + faults' >= n + m
  BY DEF MovesWith, Together, Greatest0

(* The step of a likes service or worker, seen by the columns *)
LikesFollowed ==
    /\ videos' = videos
    /\ \A v \in videos :
          /\ MovesWith(likesCount[v], likesCount'[v],
                     LikesOwed(v, {"likes"})' - LikesOwed(v, {"likes"}))
          /\ MovesWith(popularity[v], popularity'[v],
                     LikesOwed(v, {"likes", "popularity"})' - LikesOwed(v, {"likes", "popularity"}))

LEMMA OwedMoves ==
  ASSUME LikesOK, NEW v, NEW at, NEW r \in Int, NEW d \in Int,
         Cardinality(LikesOf(v)') = Cardinality(LikesOf(v)) + r,
         LikesDue(v, at)' = LikesDue(v, at) + d
  PROVE  LikesOwed(v, at)' - LikesOwed(v, at) = r - d
  BY LikesCounted DEF LikesOwed

LEMMA StillTogether ==
  ASSUME NEW c \in Int, UNCHANGED faults
  PROVE  MovesWith(c, c, 0)
  BY DEF MovesWith, Together, Greatest0

LEMMA NothingOwed ==
  ASSUME LikesOK, StatsOK, UNCHANGED <<videos, likesCount, popularity, faults>>,
         \A v \in Video, at \in Columns : LikesOwed(v, at)' - LikesOwed(v, at) = 0
  PROVE  LikesFollowed
<1>1. /\ videos \subseteq Video /\ {"likes"} \in Columns /\ {"likes", "popularity"} \in Columns
      /\ likesCount \in [Video -> Int] /\ popularity \in [Video -> Nat]
  BY DEF StatsOK, RowsOK, Columns
<1>2. ASSUME NEW v \in videos
      PROVE  /\ MovesWith(likesCount[v], likesCount'[v],
                          LikesOwed(v, {"likes"})' - LikesOwed(v, {"likes"}))
             /\ MovesWith(popularity[v], popularity'[v],
                          LikesOwed(v, {"likes", "popularity"})'
                            - LikesOwed(v, {"likes", "popularity"}))
  <2>1. /\ likesCount[v] \in Int /\ popularity[v] \in Int
        /\ likesCount'[v] = likesCount[v] /\ popularity'[v] = popularity[v]
        /\ LikesOwed(v, {"likes"})' - LikesOwed(v, {"likes"}) = 0
        /\ LikesOwed(v, {"likes", "popularity"})' - LikesOwed(v, {"likes", "popularity"}) = 0
    BY <1>1
  <2> QED
    BY <2>1, StillTogether
<1> QED
  BY <1>2 DEF LikesFollowed

LEMMA OwedStays ==
  ASSUME LikesOK, UNCHANGED <<likes, likeJob>>
  PROVE  \A v, at : LikesOwed(v, at)' - LikesOwed(v, at) = 0
<1>1. ASSUME NEW v, NEW at PROVE LikesOwed(v, at)' - LikesOwed(v, at) = 0
  <2>1. LikesOwed(v, at)' = LikesOwed(v, at)
    BY DEF LikesOwed, LikesDue, LikesOf, Uncounted, Lowering
  <2> QED
    BY <2>1, LikesCounted
<1> QED
  BY <1>1

LEMMA DueType ==
  ASSUME NEW j, NEW v \in Video, NEW at \in Columns
  PROVE  /\ DueOf(j, v, at) \in {-1, 0, 1}
         /\ j.at \notin {"likes", "popularity"} => DueOf(j, v, at) = 0
  BY DEF DueOf, ChangeOf, Columns

LEMMA OwedByJob ==
  ASSUME LikesOK, NEW w \in LikeConsumer, NEW j \in LikeJob, JobGoes(w, j), UNCHANGED likes
  PROVE  \A v \in Video, at \in Columns :
            LikesOwed(v, at)' - LikesOwed(v, at) = DueOf(likeJob[w], v, at) - DueOf(j, v, at)
<1>1. ASSUME NEW v \in Video, NEW at \in Columns
      PROVE  LikesOwed(v, at)' - LikesOwed(v, at) = DueOf(likeJob[w], v, at) - DueOf(j, v, at)
  <2>1. Cardinality(LikesOf(v)') = Cardinality(LikesOf(v)) + 0
    <3>1. LikesOf(v)' = LikesOf(v)
      BY DEF LikesOf
    <3> QED
      BY <3>1, LikesCounted
  <2>2. PICK d : d = DueOf(j, v, at) - DueOf(likeJob[w], v, at)
    OBVIOUS
  <2>3. d \in Int /\ DueOf(j, v, at) \in Int /\ DueOf(likeJob[w], v, at) \in Int
    BY <2>2, DueType
  <2>4. LikesDue(v, at)' = LikesDue(v, at) + d
    BY <2>2, <2>3, DueMoves, LikesCounted
  <2>5. LikesOwed(v, at)' - LikesOwed(v, at) = 0 - d
    BY <2>1, <2>3, <2>4, OwedMoves
  <2> QED
    BY <2>2, <2>3, <2>5
<1> QED
  BY <1>1

LEMMA FollowedByLikes == LikesOK /\ StatsOK /\ LikesStep => LikesFollowed
<1> SUFFICES ASSUME LikesOK, StatsOK, LikesStep PROVE LikesFollowed
  OBVIOUS
<1>0. /\ videos \subseteq Video /\ {"likes"} \in Columns /\ {"likes", "popularity"} \in Columns
      /\ likesCount \in [Video -> Int] /\ popularity \in [Video -> Nat]
      /\ faults \in Nat
  BY StatsAssumption DEF StatsOK, RowsOK, BoundsOK, Columns, StatsAssumption
<1>1. CASE UNCHANGED <<videos, likesCount, popularity, faults, likes, likeJob>>
  BY <1>1, OwedStays, NothingOwed
<1>2. ASSUME NEW w \in LikeConsumer, Delivering(w) \/ Acking(w) PROVE LikesFollowed
  <2>1. PICK j \in LikeJob : j = likeJob'[w]
    BY <1>2 DEF Delivering, Acking, JobGoes
  <2>2. /\ JobGoes(w, j) /\ j.at \notin {"likes", "popularity"}
        /\ likeJob[w].at \notin {"likes", "popularity"}
    BY <1>2, <2>1 DEF Delivering, Acking, JobGoes, Idle
  <2>3. UNCHANGED <<likes, videos, likesCount, popularity, faults>>
    BY <1>2 DEF Delivering, Acking, statVars, rowVars, otherVars
  <2>4. \A v \in Video, at \in Columns :
           LikesOwed(v, at)' - LikesOwed(v, at) = DueOf(likeJob[w], v, at) - DueOf(j, v, at)
    BY <2>2, <2>3, OwedByJob
  <2>5. \A v \in Video, at \in Columns : LikesOwed(v, at)' - LikesOwed(v, at) = 0
    BY <2>2, <2>4, DueType
  <2> QED
    BY <2>3, <2>5, NothingOwed
<1>3. ASSUME NEW w \in LikeConsumer, NEW event \in LikeEvent, Applying(w, event)
      PROVE  LikesFollowed
  <2>1. PICK j : j = [at |-> IF Effective(event) THEN "likes" ELSE "ack", event |-> event]
    OBVIOUS
  <2>2. j \in LikeJob /\ JobGoes(w, j)
    BY <1>3, <2>1 DEF Applying, LikeJob
  <2>3. ASSUME NEW v \in Video, NEW at \in Columns
        PROVE  LikesOwed(v, at)' - LikesOwed(v, at) = 0
    <3>1. PICK r : r = IF Effective(event) /\ v = event.video THEN ChangeOf(event) ELSE 0
      OBVIOUS
    <3>2. r \in Int
      BY <3>1 DEF ChangeOf
    <3>3. Cardinality(LikesOf(v)') = Cardinality(LikesOf(v)) + r
      BY <1>3, <3>1, RowsCounted DEF Applying
    <3>4. DueOf(j, v, at) = r
      BY <1>0, <2>1, <3>1 DEF DueOf, Columns
    <3>5. DueOf(likeJob[w], v, at) = 0
      BY <1>3, DueType DEF Applying
    <3>6. LikesDue(v, at)' = LikesDue(v, at) + r
      BY <2>2, <3>2, <3>4, <3>5, DueMoves, LikesCounted
    <3>7. LikesOwed(v, at)' - LikesOwed(v, at) = r - r
      BY <3>2, <3>3, <3>6, OwedMoves
    <3> QED
      BY <3>2, <3>7
  <2> QED
    BY <1>3, <2>3, NothingOwed DEF Applying, statVars, rowVars, otherVars
<1>4. ASSUME NEW w \in LikeConsumer, NEW event \in LikeEvent, CountingLike(w, event)
      PROVE  LikesFollowed
  <2>1. PICK j : j = [at |-> "popularity", event |-> event]
    OBVIOUS
  <2>2. j \in LikeJob /\ JobGoes(w, j) /\ UNCHANGED likes /\ likeJob[w].at = "likes"
        /\ likeJob[w].event = event
    BY <1>4, <2>1 DEF CountingLike, LikeJob
  <2>3. event.video \in Video /\ ChangeOf(event) \in {1, -1}
    BY EventOfLike
  <2>4. ASSUME NEW v \in videos
        PROVE  /\ MovesWith(likesCount[v], likesCount'[v],
                            LikesOwed(v, {"likes"})' - LikesOwed(v, {"likes"}))
               /\ MovesWith(popularity[v], popularity'[v],
                            LikesOwed(v, {"likes", "popularity"})'
                              - LikesOwed(v, {"likes", "popularity"}))
    <3>1. PICK m : m = IF v = event.video THEN ChangeOf(event) ELSE 0
      OBVIOUS
    <3>2. m \in {-1, 0, 1} /\ v \in Video
      BY <1>0, <2>3, <3>1
    <3>3. /\ DueOf(likeJob[w], v, {"likes"}) = m /\ DueOf(j, v, {"likes"}) = 0
          /\ DueOf(likeJob[w], v, {"likes", "popularity"}) = m
          /\ DueOf(j, v, {"likes", "popularity"}) = m
      BY <2>1, <2>2, <3>1 DEF DueOf
    <3>4. /\ LikesOwed(v, {"likes"})' - LikesOwed(v, {"likes"}) = m
          /\ LikesOwed(v, {"likes", "popularity"})' - LikesOwed(v, {"likes", "popularity"}) = 0
      BY <1>0, <2>2, <3>2, <3>3, OwedByJob
    <3>5. likesCount'[v] \in {likesCount[v] + m, Greatest0(likesCount[v] + m)}
      <4>1. Moved(likesCount', likesCount, event.video, ChangeOf(event))
        BY <1>0, <1>4, <2>3, ShiftedColumn DEF CountingLike
      <4> QED
        BY <1>0, <2>3, <3>1, <3>2, <4>1, MovedAt
    <3>6. MovesWith(likesCount[v], likesCount'[v], m)
      BY <1>4, <3>2, <3>5 DEF MovesWith, Together, CountingLike
    <3>7. popularity[v] \in Nat /\ popularity'[v] = popularity[v]
      BY <1>0, <1>4, <3>2 DEF CountingLike
    <3>8. MovesWith(popularity[v], popularity'[v], 0)
      BY <1>4, <3>7, StillTogether DEF CountingLike
    <3> QED
      BY <3>4, <3>6, <3>8
  <2> QED
    BY <1>4, <2>4 DEF LikesFollowed, CountingLike
<1>5. ASSUME NEW w \in LikeConsumer, NEW event \in LikeEvent, RatingLike(w, event)
      PROVE  LikesFollowed
  <2>1. PICK j : j = [at |-> "ack", event |-> event]
    OBVIOUS
  <2>2. j \in LikeJob /\ JobGoes(w, j) /\ UNCHANGED likes /\ likeJob[w].at = "popularity"
        /\ likeJob[w].event = event
    BY <1>5, <2>1 DEF RatingLike, LikeJob
  <2>3. event.video \in Video /\ ChangeOf(event) \in {1, -1}
    BY EventOfLike
  <2>4. ASSUME NEW v \in videos
        PROVE  /\ MovesWith(likesCount[v], likesCount'[v],
                            LikesOwed(v, {"likes"})' - LikesOwed(v, {"likes"}))
               /\ MovesWith(popularity[v], popularity'[v],
                            LikesOwed(v, {"likes", "popularity"})'
                              - LikesOwed(v, {"likes", "popularity"}))
    <3>1. PICK m : m = IF v = event.video THEN ChangeOf(event) ELSE 0
      OBVIOUS
    <3>2. m \in {-1, 0, 1} /\ v \in Video
      BY <1>0, <2>3, <3>1
    <3>3. /\ DueOf(likeJob[w], v, {"likes"}) = 0 /\ DueOf(j, v, {"likes"}) = 0
          /\ DueOf(likeJob[w], v, {"likes", "popularity"}) = m
          /\ DueOf(j, v, {"likes", "popularity"}) = 0
      BY <2>1, <2>2, <3>1 DEF DueOf
    <3>4. /\ LikesOwed(v, {"likes"})' - LikesOwed(v, {"likes"}) = 0
          /\ LikesOwed(v, {"likes", "popularity"})' - LikesOwed(v, {"likes", "popularity"}) = m
      BY <1>0, <2>2, <3>2, <3>3, OwedByJob
    <3>5. popularity'[v] \in {popularity[v] + m, Greatest0(popularity[v] + m)}
      <4>1. Moved(popularity', popularity, event.video, ChangeOf(event))
        BY <1>0, <1>5, <2>3, NatColumn, ShiftedColumn DEF RatingLike
      <4> QED
        BY <1>0, <2>3, <3>1, <3>2, <4>1, MovedAt
    <3>6. MovesWith(popularity[v], popularity'[v], m)
      BY <1>5, <3>2, <3>5 DEF MovesWith, Together, RatingLike
    <3>7. likesCount[v] \in Int /\ likesCount'[v] = likesCount[v]
      BY <1>0, <1>5, <3>2 DEF RatingLike
    <3>8. MovesWith(likesCount[v], likesCount'[v], 0)
      BY <1>5, <3>7, StillTogether DEF RatingLike
    <3> QED
      BY <3>4, <3>6, <3>8
  <2> QED
    BY <1>5, <2>4 DEF LikesFollowed, RatingLike
<1>6. ASSUME NEW w \in LikeConsumer, NEW event \in LikeEvent, Requeuing(w, event)
      PROVE  LikesFollowed
  <2>1. Idle \in LikeJob /\ JobGoes(w, Idle) /\ UNCHANGED likes /\ faults' = faults + 1
    BY <1>6 DEF Requeuing, LikeJob
  <2>2. ASSUME NEW v \in Video, NEW at \in Columns
        PROVE  LikesOwed(v, at)' - LikesOwed(v, at) \in {-1, 0, 1}
    <3>1. LikesOwed(v, at)' - LikesOwed(v, at) = DueOf(likeJob[w], v, at) - DueOf(Idle, v, at)
      BY <2>1, OwedByJob
    <3>2. DueOf(likeJob[w], v, at) \in {-1, 0, 1} /\ DueOf(Idle, v, at) = 0
      BY DueType DEF Idle
    <3> QED
      BY <3>1, <3>2
  <2>3. UNCHANGED <<videos, likesCount, popularity>>
    BY <1>6 DEF Requeuing, rowVars, otherVars
  <2>4. ASSUME NEW m \in {-1, 0, 1}, NEW c PROVE MovesWith(c, c, m)
    BY <2>1 DEF MovesWith
  <2> QED
    BY <1>0, <2>2, <2>3, <2>4 DEF LikesFollowed
<1>7. ASSUME NEW c \in LikeCaller, NEW event \in LikeEvent, WritingLike(c, event)
      PROVE  LikesFollowed
  <2>1. event.video \in Video /\ ChangeOf(event) \in {1, -1}
    BY EventOfLike
  <2>2. ASSUME NEW v \in videos
        PROVE  /\ MovesWith(likesCount[v], likesCount'[v],
                            LikesOwed(v, {"likes"})' - LikesOwed(v, {"likes"}))
               /\ MovesWith(popularity[v], popularity'[v],
                            LikesOwed(v, {"likes", "popularity"})'
                              - LikesOwed(v, {"likes", "popularity"}))
    <3>1. PICK m : m = IF v = event.video THEN ChangeOf(event) ELSE 0
      OBVIOUS
    <3>2. m \in {-1, 0, 1} /\ v \in Video
      BY <1>0, <2>1, <3>1
    <3>3. Cardinality(LikesOf(v)') = Cardinality(LikesOf(v)) + m
      BY <1>7, <3>1, RowsCounted DEF WritingLike
    <3>4. ASSUME NEW at \in Columns PROVE LikesOwed(v, at)' - LikesOwed(v, at) = m
      <4>1. LikesDue(v, at)' = LikesDue(v, at) + 0
        <5>1. LikesDue(v, at)' = LikesDue(v, at)
          BY <1>7 DEF WritingLike, LikesDue, Uncounted, Lowering
        <5> QED
          BY <5>1, LikesCounted
      <4>2. m \in Int
        BY <3>2
      <4>3. LikesOwed(v, at)' - LikesOwed(v, at) = m - 0
        BY <3>3, <4>1, <4>2, OwedMoves
      <4> QED
        BY <4>2, <4>3
    <3>5. /\ likesCount'[v] \in {likesCount[v] + m, Greatest0(likesCount[v] + m)}
          /\ popularity'[v] \in {popularity[v] + m, Greatest0(popularity[v] + m)}
      <4>1. /\ Moved(likesCount', likesCount, event.video, ChangeOf(event))
            /\ Moved(popularity', popularity, event.video, ChangeOf(event))
        BY <1>0, <1>7, NatColumn, CountedColumn DEF WritingLike
      <4> QED
        BY <1>0, <2>1, <3>1, <3>2, <4>1, MovedAt
    <3>6. /\ MovesWith(likesCount[v], likesCount'[v], m)
          /\ MovesWith(popularity[v], popularity'[v], m)
      BY <1>7, <3>2, <3>5 DEF MovesWith, Together, WritingLike
    <3> QED
      BY <1>0, <3>4, <3>6
  <2> QED
    BY <1>7, <2>2 DEF LikesFollowed, WritingLike
<1>8. ASSUME NEW c \in LikeCaller, Checking(c) \/ Refusing(c) PROVE LikesFollowed
  BY <1>1, <1>8 DEF Checking, Refusing, statVars, rowVars, otherVars
<1>9. ASSUME NEW c \in LikeCaller, NEW event \in LikeEvent,
             Publishing(c, event) \/ \E heated \in BOOLEAN : Failing(c, event, heated)
      PROVE  LikesFollowed
  BY <1>1, <1>9 DEF Publishing, Failing, rowVars, otherVars
<1> QED
  BY <1>2, <1>3, <1>4, <1>5, <1>6, <1>7, <1>8, <1>9 DEF LikesStep

-----------------------------------------------------------------------------
(***************************************************************************)
(* What popularity owes to the rows of comments when one consumer works on *)
(* them: a row it has inserted is still to be counted, and a row it has    *)
(* removed, or found and somebody else removed, is still to be taken off.  *)
(***************************************************************************)
Unlowered(v) ==
    {w \in CommentConsumer : commentJob[w].at = "lower" /\ commentJob[w].comment.video = v}

Doomed(v) ==
    {w \in CommentConsumer : /\ commentJob[w].at = "remove"
                             /\ commentJob[w].comment.video = v
                             /\ commentJob[w].comment \notin comments}

CommentsOwed(v) ==
    Cardinality(CommentsOf(v)) + Cardinality(Unlowered(v)) + Cardinality(Doomed(v))
      - Cardinality(Unraised(v))

(* The part of one job in it, when the table is rows *)
PartOf(j, v, rows) ==
    IF j.at = "raise" /\ j.video = v THEN 1
    ELSE IF (j.at = "lower" \/ (j.at = "remove" /\ j.comment \notin rows)) /\ j.comment.video = v
    THEN -1 ELSE 0

LEMMA OneConsumer ==
  ASSUME Cardinality(CommentConsumer) = 1
  PROVE  \E w : CommentConsumer = {w}
  BY CommentsAssumption, FS_Singleton DEF CommentsAssumption

LEMMA PartOfOne ==
  ASSUME NEW w, NEW S, S \subseteq {w}
  PROVE  Cardinality(S) = Bit(w \in S)
<1>1. CASE w \in S
  <2>1. S = {w}
    BY <1>1
  <2> QED
    BY <1>1, <2>1, FS_Singleton DEF Bit
<1>2. CASE w \notin S
  <2>1. S = {}
    BY <1>2
  <2> QED
    BY <1>2, <2>1, FS_EmptySet DEF Bit
<1> QED
  BY <1>1, <1>2

LEMMA CommentsCounted ==
  CommentsOK => \A v : /\ IsFiniteSet(CommentsOf(v)) /\ Cardinality(CommentsOf(v)) \in Nat
                       /\ CommentsOwed(v) \in Int
<1> SUFFICES ASSUME CommentsOK, NEW v
             PROVE  /\ IsFiniteSet(CommentsOf(v)) /\ Cardinality(CommentsOf(v)) \in Nat
                    /\ CommentsOwed(v) \in Int
  OBVIOUS
<1>1. /\ CommentsOf(v) \subseteq comments /\ IsFiniteSet(comments)
      /\ Unraised(v) \subseteq CommentConsumer /\ Unlowered(v) \subseteq CommentConsumer
      /\ Doomed(v) \subseteq CommentConsumer /\ IsFiniteSet(CommentConsumer)
  BY CommentsAssumption
     DEF CommentsOf, CommentsOK, Unraised, Unlowered, Doomed, CommentsAssumption
<1>2. /\ IsFiniteSet(CommentsOf(v)) /\ IsFiniteSet(Unraised(v))
      /\ IsFiniteSet(Unlowered(v)) /\ IsFiniteSet(Doomed(v))
  BY <1>1, FS_Subset
<1>3. /\ Cardinality(CommentsOf(v)) \in Nat /\ Cardinality(Unraised(v)) \in Nat
      /\ Cardinality(Unlowered(v)) \in Nat /\ Cardinality(Doomed(v)) \in Nat
  BY <1>2, FS_CardinalityType
<1> QED
  BY <1>2, <1>3 DEF CommentsOwed

LEMMA OwedOfOne ==
  ASSUME NEW w, CommentConsumer = {w}, NEW v, CommentsOK
  PROVE  CommentsOwed(v) = Cardinality(CommentsOf(v)) - PartOf(commentJob[w], v, comments)
<1>1. /\ Unraised(v) \subseteq {w} /\ Unlowered(v) \subseteq {w} /\ Doomed(v) \subseteq {w}
  BY DEF Unraised, Unlowered, Doomed
<1>2. /\ Cardinality(Unraised(v)) = Bit(w \in Unraised(v))
      /\ Cardinality(Unlowered(v)) = Bit(w \in Unlowered(v))
      /\ Cardinality(Doomed(v)) = Bit(w \in Doomed(v))
  BY <1>1, PartOfOne
<1>3. /\ w \in Unraised(v) <=> commentJob[w].at = "raise" /\ commentJob[w].video = v
      /\ w \in Unlowered(v) <=> commentJob[w].at = "lower" /\ commentJob[w].comment.video = v
      /\ w \in Doomed(v) <=>
            /\ commentJob[w].at = "remove" /\ commentJob[w].comment \notin comments
            /\ commentJob[w].comment.video = v
  BY DEF Unraised, Unlowered, Doomed
<1>4. PartOf(commentJob[w], v, comments) =
         Bit(w \in Unraised(v)) - Bit(w \in Unlowered(v)) - Bit(w \in Doomed(v))
  BY <1>3 DEF PartOf, Bit
<1>5. /\ Bit(w \in Unraised(v)) \in Int /\ Bit(w \in Unlowered(v)) \in Int
      /\ Bit(w \in Doomed(v)) \in Int
  BY DEF Bit
<1>6. Cardinality(CommentsOf(v)) \in Nat
  BY CommentsCounted
<1> QED
  BY <1>2, <1>4, <1>5, <1>6 DEF CommentsOwed

LEMMA OwedOfOneNext ==
  ASSUME CommentsOK, CommentsOK', NEW w, CommentConsumer = {w}, NEW v,
         NEW j, j = commentJob'[w], NEW r \in Int,
         Cardinality(CommentsOf(v)') = Cardinality(CommentsOf(v)) + r
  PROVE  CommentsOwed(v)' - CommentsOwed(v) =
            r - PartOf(j, v, comments') + PartOf(commentJob[w], v, comments)
<1>1. CommentsOwed(v) = Cardinality(CommentsOf(v)) - PartOf(commentJob[w], v, comments)
  BY OwedOfOne
<1>2. CommentsOwed(v)' = Cardinality(CommentsOf(v)') - PartOf(j, v, comments')
  <2>1. (CommentConsumer = {w} /\ CommentsOK =>
            CommentsOwed(v) = Cardinality(CommentsOf(v)) - PartOf(commentJob[w], v, comments))'
    BY OwedOfOne, PTL
  <2>2. PartOf(commentJob[w], v, comments)' = PartOf(j, v, comments')
    BY DEF PartOf
  <2> QED
    BY <2>1, <2>2
<1>3. Cardinality(CommentsOf(v)) \in Nat
  BY CommentsCounted
<1>4. PartOf(j, v, comments') \in Int /\ PartOf(commentJob[w], v, comments) \in Int
  BY DEF PartOf
<1> QED
  BY <1>1, <1>2, <1>3, <1>4

LEMMA RowAdded ==
  ASSUME CommentsOK, NEW v \in Video, InsertComment(v)
  PROVE  /\ \A u : Cardinality(CommentsOf(u)') =
                      Cardinality(CommentsOf(u)) + (IF u = v THEN 1 ELSE 0)
         /\ \A row \in Comment : row.id <= created => (row \in comments' <=> row \in comments)
<1>1. PICK n : n = [id |-> created + 1, video |-> v]
  OBVIOUS
<1>2. /\ comments' = comments \cup {n} /\ n.video = v /\ n.id = created + 1
      /\ created \in Nat /\ comments \subseteq Comment
      /\ \A row \in comments : row.id <= created
  BY <1>1 DEF InsertComment, CommentsOK, CommentsTypeOK, IdsGiven
<1>3. \A row \in Comment : row.id <= created => row # n
  BY <1>2 DEF Comment
<1>4. n \notin comments
  BY <1>2, <1>3
<1>5. ASSUME NEW u
      PROVE  Cardinality(CommentsOf(u)') = Cardinality(CommentsOf(u)) + (IF u = v THEN 1 ELSE 0)
  <2>1. /\ CommentsOf(u) \ {n} = CommentsOf(u)' \ {n}
        /\ n \notin CommentsOf(u) /\ (n \in CommentsOf(u)' <=> u = v)
    BY <1>2, <1>4 DEF CommentsOf
  <2>2. /\ Cardinality(CommentsOf(u)) \in Nat
        /\ Cardinality(CommentsOf(u)') =
             Cardinality(CommentsOf(u)) + Bit(n \in CommentsOf(u)') - Bit(n \in CommentsOf(u))
    BY <2>1, CommentsCounted, SetMoves
  <2> QED
    BY <2>1, <2>2 DEF Bit
<1> QED
  BY <1>2, <1>3, <1>5

LEMMA RowTaken ==
  ASSUME CommentsOK, NEW row, comments' = comments \ {row}
  PROVE  \A u : Cardinality(CommentsOf(u)') =
                   Cardinality(CommentsOf(u))
                     + (IF row \in comments /\ row.video = u THEN -1 ELSE 0)
<1>1. ASSUME NEW u
      PROVE  Cardinality(CommentsOf(u)') =
                Cardinality(CommentsOf(u)) + (IF row \in comments /\ row.video = u THEN -1 ELSE 0)
  <2>1. /\ CommentsOf(u) \ {row} = CommentsOf(u)' \ {row}
        /\ row \notin CommentsOf(u)'
        /\ row \in CommentsOf(u) <=> row \in comments /\ row.video = u
    BY DEF CommentsOf
  <2>2. /\ Cardinality(CommentsOf(u)) \in Nat
        /\ Cardinality(CommentsOf(u)') = Cardinality(CommentsOf(u))
             + Bit(row \in CommentsOf(u)') - Bit(row \in CommentsOf(u))
    BY <2>1, CommentsCounted, SetMoves
  <2> QED
    BY <2>1, <2>2 DEF Bit
<1> QED
  BY <1>1

(* The step of a comments service or worker, seen by the columns *)
CommentsFollowed ==
    /\ UNCHANGED <<videos, likesCount>>
    /\ faults' \in {faults, faults + 1}
    /\ Cardinality(CommentConsumer) = 1 =>
          \A v \in videos : MovesWith(popularity[v], popularity'[v],
                                      CommentsOwed(v)' - CommentsOwed(v))

LEMMA NoCommentOwed ==
  ASSUME StatsOK, UNCHANGED <<videos, likesCount, popularity>>,
         UNCHANGED faults,
         \A v \in Video : CommentsOwed(v)' - CommentsOwed(v) = 0
  PROVE  CommentsFollowed
<1>1. ASSUME NEW v \in videos
      PROVE  MovesWith(popularity[v], popularity'[v], CommentsOwed(v)' - CommentsOwed(v))
  <2>1. /\ popularity[v] \in Nat /\ popularity'[v] = popularity[v]
        /\ CommentsOwed(v)' - CommentsOwed(v) = 0
    BY DEF StatsOK, RowsOK
  <2> QED
    BY <2>1, StillTogether
<1> QED
  BY <1>1 DEF CommentsFollowed

LEMMA CommentsOwedStay ==
  ASSUME CommentsOK, UNCHANGED <<comments, commentJob>>
  PROVE  \A v : CommentsOwed(v)' - CommentsOwed(v) = 0
<1>1. ASSUME NEW v PROVE CommentsOwed(v)' - CommentsOwed(v) = 0
  <2>1. CommentsOwed(v)' = CommentsOwed(v)
    BY DEF CommentsOwed, CommentsOf, Unraised, Unlowered, Doomed
  <2> QED
    BY <2>1, CommentsCounted
<1> QED
  BY <1>1

LEMMA FollowedByComments == CommentsOK /\ StatsOK /\ CommentsStep => CommentsFollowed
<1> SUFFICES ASSUME CommentsOK, StatsOK, CommentsStep PROVE CommentsFollowed
  OBVIOUS
<1>0. /\ videos \subseteq Video /\ popularity \in [Video -> Nat] /\ faults \in Nat
      /\ CommentsOK'
  BY CommentsKept, StatsAssumption DEF StatsOK, RowsOK, BoundsOK, StatsAssumption
<1>1. CASE UNCHANGED <<videos, likesCount, popularity, faults, comments, commentJob>>
  BY <1>1, CommentsOwedStay, NoCommentOwed
<1>a. SUFFICES ASSUME NEW w, CommentConsumer = {w},
                      ~ UNCHANGED <<videos, likesCount, popularity, faults, comments, commentJob>>
               PROVE  \A v \in videos :
                         MovesWith(popularity[v], popularity'[v],
                                   CommentsOwed(v)' - CommentsOwed(v))
  <2>1. UNCHANGED <<videos, likesCount>> /\ faults' \in {faults, faults + 1}
    BY <1>0 DEF CommentsStep, Asking, RefusingComment, RefusingDelete, PublishingComment,
       FailingComment, WritingComment, Deleting, DeliveringComment, AckingComment, Inserting,
       RatingComment, Removing, RequeuingComment, rowVars, otherVars, statVars
  <2> QED
    BY <1>1, <2>1, OneConsumer DEF CommentsFollowed
<1> TAKE v \in videos
<1>b. v \in Video /\ popularity[v] \in Nat
  BY <1>0
<1>2. PICK j : j = commentJob'[w]
  OBVIOUS
<1>3. ASSUME NEW r \in Int, Cardinality(CommentsOf(v)') = Cardinality(CommentsOf(v)) + r
      PROVE  CommentsOwed(v)' - CommentsOwed(v) =
                r - PartOf(j, v, comments') + PartOf(commentJob[w], v, comments)
  BY <1>0, <1>2, <1>3, <1>a, OwedOfOneNext
<1>4. ASSUME UNCHANGED comments
      PROVE  CommentsOwed(v)' - CommentsOwed(v) =
                PartOf(commentJob[w], v, comments) - PartOf(j, v, comments)
  <2>1. CommentsOf(v)' = CommentsOf(v)
    BY <1>4 DEF CommentsOf
  <2>2. Cardinality(CommentsOf(v)') = Cardinality(CommentsOf(v)) + 0
    BY <2>1, CommentsCounted
  <2>3. CommentsOwed(v)' - CommentsOwed(v) =
           0 - PartOf(j, v, comments) + PartOf(commentJob[w], v, comments)
    BY <1>3, <1>4, <2>2
  <2>4. PartOf(j, v, comments) \in Int /\ PartOf(commentJob[w], v, comments) \in Int
    BY DEF PartOf
  <2> QED
    BY <2>3, <2>4
<1>5. ASSUME UNCHANGED <<popularity, faults>>, CommentsOwed(v)' - CommentsOwed(v) = 0
      PROVE  MovesWith(popularity[v], popularity'[v], CommentsOwed(v)' - CommentsOwed(v))
  BY <1>5, <1>b, StillTogether
<1>6. ASSUME NEW c \in CommentCaller, NEW u \in Video, WritingComment(c, u)
      PROVE  MovesWith(popularity[v], popularity'[v], CommentsOwed(v)' - CommentsOwed(v))
  <2>1. PICK m : m = IF v = u THEN 1 ELSE 0
    OBVIOUS
  <2>2. m \in Int /\ Cardinality(CommentsOf(v)') = Cardinality(CommentsOf(v)) + m
    BY <1>6, <2>1, RowAdded DEF WritingComment
  <2>3. j = commentJob[w] /\ PartOf(j, v, comments') = PartOf(j, v, comments)
    <3>1. j = commentJob[w]
      BY <1>2, <1>6 DEF WritingComment
    <3>2. CASE j.at = "remove"
      <4>1. j.comment \in Comment /\ j.comment.id <= created
        BY <1>a, <3>1, <3>2, CommentJobKinds DEF CommentsOK, IdsGiven, Quiet
      <4>2. j.comment \in comments' <=> j.comment \in comments
        BY <1>6, <4>1, RowAdded DEF WritingComment
      <4> QED
        BY <3>1, <4>2 DEF PartOf
    <3>3. CASE j.at # "remove"
      BY <3>1, <3>3 DEF PartOf
    <3> QED
      BY <3>2, <3>3
  <2>4. PartOf(j, v, comments) \in Int
    BY DEF PartOf
  <2>5. CommentsOwed(v)' - CommentsOwed(v) = m
    BY <1>3, <2>2, <2>3, <2>4
  <2>6. popularity'[v] \in {popularity[v] + m, Greatest0(popularity[v] + m)}
    <3>1. Moved(popularity', popularity, u, 1)
      BY <1>0, <1>6, NatColumn, RaisedColumn DEF WritingComment
    <3> QED
      BY <1>b, <2>1, <3>1, MovedAt
  <2>7. faults' = faults
    BY <1>6 DEF WritingComment
  <2>8. m \in {-1, 0, 1}
    BY <2>1
  <2> QED
    BY <2>5, <2>6, <2>7, <2>8 DEF MovesWith, Together
<1>7. ASSUME NEW c \in CommentCaller, NEW row \in Comment, Deleting(c, row)
      PROVE  MovesWith(popularity[v], popularity'[v], CommentsOwed(v)' - CommentsOwed(v))
  <2>1. UNCHANGED <<popularity, faults, commentJob>> /\ j = commentJob[w]
    BY <1>2, <1>7 DEF Deleting, rowVars, otherVars
  <2>2. CASE UNCHANGED comments
    BY <1>5, <2>1, <2>2, CommentsOwedStay
  <2>3. CASE comments' = comments \ {row} /\ PublishFails
    <3>1. PICK r : r = IF row \in comments /\ row.video = v THEN -1 ELSE 0
      OBVIOUS
    <3>2. r \in Int /\ Cardinality(CommentsOf(v)') = Cardinality(CommentsOf(v)) + r
      BY <2>3, <3>1, RowTaken
    <3>3. CommentsOwed(v)' - CommentsOwed(v) =
             r - PartOf(j, v, comments') + PartOf(j, v, comments)
      BY <1>3, <2>1, <3>2
    <3>4. \/ PartOf(j, v, comments') = PartOf(j, v, comments)
          \/ PartOf(j, v, comments') = -1 /\ PartOf(j, v, comments) = 0 /\ r = -1
      BY <2>3, <3>1 DEF PartOf
    <3>5. PartOf(j, v, comments) \in Int
      BY DEF PartOf
    <3>6. CommentsOwed(v)' - CommentsOwed(v) \in {-1, 0}
      BY <3>1, <3>3, <3>4, <3>5
    <3>7. publishFailures' = publishFailures + 1
      BY <2>3 DEF PublishFails
    <3> QED
      BY <2>1, <3>6, <3>7 DEF MovesWith
  <2> QED
    BY <1>7, <2>2, <2>3 DEF Deleting
<1>8. ASSUME DeliveringComment(w)
      PROVE  MovesWith(popularity[v], popularity'[v], CommentsOwed(v)' - CommentsOwed(v))
  <2>1. UNCHANGED <<comments, popularity, faults>>
    BY <1>8 DEF DeliveringComment, statVars, rowVars, otherVars
  <2>2. commentJob[w].at = "idle"
    BY <1>8 DEF DeliveringComment, Quiet
  <2>3. Head(commentQueue) \in CommentEvent
    BY <1>8, Headed DEF DeliveringComment, CommentsOK, CommentsTypeOK
  <2>4. j = JobOf(Head(commentQueue))
    BY <1>2, <1>8 DEF DeliveringComment, CommentJobGoes
  <2>5. j.at \in {"idle", "insert"} \/ (j.at = "remove" /\ j.comment \in comments)
    BY <2>3, <2>4, JobOfEvent
  <2>6. PartOf(j, v, comments) = 0 /\ PartOf(commentJob[w], v, comments) = 0
    BY <2>2, <2>5 DEF PartOf
  <2> QED
    BY <1>4, <1>5, <2>1, <2>6
<1>9. ASSUME AckingComment(w)
      PROVE  MovesWith(popularity[v], popularity'[v], CommentsOwed(v)' - CommentsOwed(v))
  <2>1. UNCHANGED <<comments, popularity, faults>>
    BY <1>9 DEF AckingComment, statVars, rowVars, otherVars
  <2>2. PartOf(j, v, comments) = 0 /\ PartOf(commentJob[w], v, comments) = 0
    BY <1>2, <1>9 DEF AckingComment, CommentJobGoes, PartOf, Quiet
  <2> QED
    BY <1>4, <1>5, <2>1, <2>2
<1>10. ASSUME NEW u \in Video, Inserting(w, u)
       PROVE  MovesWith(popularity[v], popularity'[v], CommentsOwed(v)' - CommentsOwed(v))
  <2>1. UNCHANGED <<popularity, faults>>
    BY <1>10 DEF Inserting, statVars, rowVars, otherVars
  <2>2. PICK r : r = IF v = u THEN 1 ELSE 0
    OBVIOUS
  <2>3. r \in Int /\ Cardinality(CommentsOf(v)') = Cardinality(CommentsOf(v)) + r
    BY <1>10, <2>2, RowAdded DEF Inserting
  <2>4. j.at = "raise" /\ j.video = u /\ commentJob[w].at = "insert"
    BY <1>2, <1>10 DEF Inserting, CommentJobGoes
  <2>5. PartOf(j, v, comments') = r /\ PartOf(commentJob[w], v, comments) = 0
    BY <2>2, <2>4 DEF PartOf
  <2>6. CommentsOwed(v)' - CommentsOwed(v) = 0
    BY <1>3, <2>3, <2>5
  <2> QED
    BY <1>5, <2>1, <2>6
<1>11. ASSUME NEW row \in Comment, Removing(w, row)
       PROVE  MovesWith(popularity[v], popularity'[v], CommentsOwed(v)' - CommentsOwed(v))
  <2>1. UNCHANGED <<popularity, faults>>
    BY <1>11 DEF Removing, statVars, rowVars, otherVars
  <2>2. PICK r : r = IF row \in comments /\ row.video = v THEN -1 ELSE 0
    OBVIOUS
  <2>3. r \in Int /\ Cardinality(CommentsOf(v)') = Cardinality(CommentsOf(v)) + r
    BY <1>11, <2>2, RowTaken DEF Removing
  <2>4. /\ j.at = "lower" /\ j.comment = row
        /\ commentJob[w].at = "remove" /\ commentJob[w].comment = row
    BY <1>2, <1>11 DEF Removing, CommentJobGoes
  <2>5. /\ PartOf(j, v, comments') = IF row.video = v THEN -1 ELSE 0
        /\ PartOf(commentJob[w], v, comments) =
              IF row \notin comments /\ row.video = v THEN -1 ELSE 0
    BY <2>4 DEF PartOf
  <2>6. CommentsOwed(v)' - CommentsOwed(v) = 0
    BY <1>3, <2>2, <2>3, <2>5
  <2> QED
    BY <1>5, <2>1, <2>6
<1>12. ASSUME NEW u \in Video, NEW change \in Change, RatingComment(w, u, change)
       PROVE  MovesWith(popularity[v], popularity'[v], CommentsOwed(v)' - CommentsOwed(v))
  <2>1. PICK m : m = IF v = u THEN change ELSE 0
    OBVIOUS
  <2>2. m \in {-1, 0, 1} /\ UNCHANGED <<comments, faults>> /\ j.at = "acked"
    BY <1>2, <1>12, <2>1 DEF RatingComment, CommentJobGoes
  <2>3. PartOf(commentJob[w], v, comments) = m /\ PartOf(j, v, comments) = 0
    BY <1>12, <2>1, <2>2 DEF RatingComment, PartOf
  <2>4. CommentsOwed(v)' - CommentsOwed(v) = m
    BY <1>4, <2>2, <2>3
  <2>5. popularity'[v] \in {popularity[v] + m, Greatest0(popularity[v] + m)}
    <3>1. Moved(popularity', popularity, u, change)
      BY <1>0, <1>12, NatColumn, ShiftedColumn, ChangeType DEF RatingComment
    <3> QED
      BY <1>b, <2>1, <3>1, ChangeType, MovedAt
  <2> QED
    BY <2>2, <2>4, <2>5 DEF MovesWith, Together
<1>13. ASSUME NEW i, RequeuingComment(w, i)
       PROVE  MovesWith(popularity[v], popularity'[v], CommentsOwed(v)' - CommentsOwed(v))
  <2>1. UNCHANGED <<comments, popularity>> /\ faults' = faults + 1 /\ j.at = "idle"
    BY <1>2, <1>13 DEF RequeuingComment, rowVars, otherVars, CommentJobGoes, Quiet
  <2>2. PartOf(j, v, comments) = 0 /\ PartOf(commentJob[w], v, comments) \in {-1, 0, 1}
    BY <2>1 DEF PartOf
  <2>3. CommentsOwed(v)' - CommentsOwed(v) \in {-1, 0, 1}
    BY <1>4, <2>1, <2>2
  <2> QED
    BY <2>1, <2>3 DEF MovesWith
<1>14. ASSUME NEW c \in CommentCaller,
              Asking(c) \/ RefusingComment(c) \/ RefusingDelete(c)
       PROVE  FALSE
  BY <1>14, <1>a DEF Asking, RefusingComment, RefusingDelete, statVars, rowVars, otherVars
<1>15. ASSUME NEW c \in CommentCaller, NEW u \in Video,
              PublishingComment(c, u) \/ \E heated \in BOOLEAN : FailingComment(c, u, heated)
       PROVE  FALSE
  BY <1>15, <1>a DEF PublishingComment, FailingComment, rowVars, otherVars
<1> QED
  BY <1>a, <1>6, <1>7, <1>8, <1>9, <1>10, <1>11, <1>12, <1>13, <1>14, <1>15 DEF CommentsStep

-----------------------------------------------------------------------------
(* The columns of table videos keep up with the rows. *)

LikesCovered ==
    \A v \in videos : likesCount[v] + faults >= LikesOwed(v, {"likes"}) + given[v]

PopularityCovered ==
    Cardinality(CommentConsumer) = 1 =>
    \A v \in videos :
        popularity[v] + faults >=
           LikesOwed(v, {"likes", "popularity"}) + CommentsOwed(v) + gifted[v]

(* What the ranking worker, the deletion of a video, a gift and             *)
(* updateLikesCount do to the columns                                       *)
StatsFollowed ==
    /\ videos' \subseteq videos
    /\ overwritten \subseteq overwritten'
    /\ \A v \in videos' :
          \E n, g \in Int :
             /\ likesCount'[v] = likesCount[v] + n /\ given'[v] = given[v] + n
             /\ v \notin overwritten' => n = 0
             /\ popularity'[v] = popularity[v] + g /\ gifted'[v] = gifted[v] + g
    /\ faults' \in {faults, faults + 1}
    /\ publishFailures' \in {publishFailures, publishFailures + 1}

LEMMA FollowedByStats == StatsOK /\ (StatsNext \/ UNCHANGED statVars) => StatsFollowed
<1> SUFFICES ASSUME StatsOK, StatsNext \/ UNCHANGED statVars PROVE StatsFollowed
  OBVIOUS
<1>0. /\ likesCount \in [Video -> Int] /\ popularity \in [Video -> Nat]
      /\ given \in [Video -> Int] /\ gifted \in [Video -> Nat]
      /\ videos \subseteq Video /\ HotOK
  BY DEF StatsOK, RowsOK
<1>1. ASSUME videos' \subseteq videos, UNCHANGED <<overwritten, given, gifted>>,
             \A v \in videos' : likesCount'[v] = likesCount[v] /\ popularity'[v] = popularity[v],
             UNCHANGED publishFailures, faults' \in {faults, faults + 1}
      PROVE  StatsFollowed
  <2>1. ASSUME NEW v \in videos'
        PROVE  \E n, g \in Int :
                  /\ likesCount'[v] = likesCount[v] + n /\ given'[v] = given[v] + n
                  /\ v \notin overwritten' => n = 0
                  /\ popularity'[v] = popularity[v] + g /\ gifted'[v] = gifted[v] + g
    <3>1. v \in Video
      BY <1>0, <1>1
    <3>2. /\ likesCount[v] \in Int /\ given[v] \in Int
          /\ popularity[v] \in Int /\ gifted[v] \in Int
      BY <1>0, <3>1
    <3>3. /\ likesCount'[v] = likesCount[v] + 0 /\ given'[v] = given[v] + 0
          /\ popularity'[v] = popularity[v] + 0 /\ gifted'[v] = gifted[v] + 0
      BY <1>1, <3>2
    <3> QED
      BY <3>3
  <2> QED
    BY <1>1, <2>1 DEF StatsFollowed
<1>2. ASSUME NEW v \in Video, DeleteVideo(v) PROVE StatsFollowed
  BY <1>0, <1>1, <1>2 DEF DeleteVideo, otherVars
<1>3. ASSUME NEW v \in Video, NEW change \in Change,
             ApplyPopularity(v, change) \/ RepeatPopularity(v, change) \/ MissPopularity(v, change)
      PROVE  StatsFollowed
  BY <1>1, <1>3
     DEF ApplyPopularity, RepeatPopularity, MissPopularity, Fault, rowVars, otherVars
<1>4. ASSUME NEW v \in Video, RemoveFromRanking(v) PROVE StatsFollowed
  BY <1>1, <1>4 DEF RemoveFromRanking, otherVars
<1>5. CASE UNCHANGED statVars
  BY <1>1, <1>5 DEF statVars, rowVars, otherVars
<1>6. ASSUME NEW v \in Video, NEW n \in LikesCountValue, UpdateLikesCount(v, n)
      PROVE  StatsFollowed
  <2>1. n \in Int
    BY StatsAssumption DEF StatsAssumption
  <2>2. ASSUME NEW u \in videos
        PROVE  \E m, g \in Int :
                  /\ likesCount'[u] = likesCount[u] + m /\ given'[u] = given[u] + m
                  /\ u \notin overwritten' => m = 0
                  /\ popularity'[u] = popularity[u] + g /\ gifted'[u] = gifted[u] + g
    <3>1. PICK m : m = IF u = v THEN n - likesCount[u] ELSE 0
      OBVIOUS
    <3>2. /\ u \in Video /\ likesCount[u] \in Int /\ given[u] \in Int
          /\ popularity[u] \in Int /\ gifted[u] \in Int
      BY <1>0
    <3>3. /\ m \in Int /\ likesCount'[u] = likesCount[u] + m /\ given'[u] = given[u] + m
          /\ u \notin overwritten' => m = 0
      BY <1>0, <1>6, <2>1, <3>1, <3>2 DEF UpdateLikesCount
    <3>4. popularity'[u] = popularity[u] + 0 /\ gifted'[u] = gifted[u] + 0
      BY <1>6, <3>2 DEF UpdateLikesCount
    <3> QED
      BY <3>3, <3>4
  <2> QED
    BY <1>6, <2>2 DEF UpdateLikesCount, StatsFollowed
<1>7. ASSUME NEW v \in Video, SendGift(v) PROVE StatsFollowed
  <2>1. ASSUME NEW u \in videos
        PROVE  \E m, g \in Int :
                  /\ likesCount'[u] = likesCount[u] + m /\ given'[u] = given[u] + m
                  /\ u \notin overwritten' => m = 0
                  /\ popularity'[u] = popularity[u] + g /\ gifted'[u] = gifted[u] + g
    <3>1. PICK g : g = IF u = v THEN GiftWeight ELSE 0
      OBVIOUS
    <3>2. /\ u \in Video /\ likesCount[u] \in Int /\ given[u] \in Int
          /\ popularity[u] \in Int /\ gifted[u] \in Int /\ GiftWeight \in Int
      BY <1>0, ChangeType
    <3>3. g \in Int /\ popularity'[u] = popularity[u] + g /\ gifted'[u] = gifted[u] + g
      BY <1>0, <1>7, <3>1, <3>2 DEF SendGift, Raised
    <3>4. likesCount'[u] = likesCount[u] + 0 /\ given'[u] = given[u] + 0
      BY <1>7, <3>2 DEF SendGift
    <3> QED
      BY <3>3, <3>4
  <2> QED
    BY <1>7, <2>1 DEF SendGift, StatsFollowed
<1>8. ASSUME NEW v \in Video, HeatGift(v) PROVE StatsFollowed
  <2>1. publishFailures' \in {publishFailures, publishFailures + 1}
    BY <1>0, <1>8, HeatGiven DEF MayFailToPublish
  <2>2. /\ UNCHANGED <<videos, likesCount, popularity, overwritten, given, gifted, faults>>
    BY <1>8 DEF HeatGift
  <2>3. ASSUME NEW u \in videos
        PROVE  \E m, g \in Int :
                  /\ likesCount'[u] = likesCount[u] + m /\ given'[u] = given[u] + m
                  /\ u \notin overwritten' => m = 0
                  /\ popularity'[u] = popularity[u] + g /\ gifted'[u] = gifted[u] + g
    <3>1. /\ likesCount[u] \in Int /\ given[u] \in Int
          /\ popularity[u] \in Int /\ gifted[u] \in Int
      BY <1>0
    <3>2. /\ likesCount'[u] = likesCount[u] + 0 /\ given'[u] = given[u] + 0
          /\ popularity'[u] = popularity[u] + 0 /\ gifted'[u] = gifted[u] + 0
      BY <2>2, <3>1
    <3> QED
      BY <3>2
  <2> QED
    BY <2>1, <2>2, <2>3 DEF StatsFollowed
<1> QED
  BY <1>2, <1>3, <1>4, <1>5, <1>6, <1>7, <1>8 DEF StatsNext

(* Requests and workers leave gifts and updateLikesCount alone. *)
LEMMA OthersStay == LikesStep \/ CommentsStep => UNCHANGED <<overwritten, given, gifted>>
<1>1. ASSUME LikesStep PROVE UNCHANGED <<overwritten, given, gifted>>
  <2>1. ASSUME NEW c \in LikeCaller, NEW event, NEW heated,
               \/ Checking(c) \/ Refusing(c) \/ Publishing(c, event)
               \/ Failing(c, event, heated) \/ WritingLike(c, event)
        PROVE  UNCHANGED <<overwritten, given, gifted>>
    BY <2>1 DEF Checking, Refusing, Publishing, Failing, WritingLike, statVars, rowVars, otherVars
  <2>2. ASSUME NEW w \in LikeConsumer, NEW event,
               \/ Delivering(w) \/ Acking(w) \/ Applying(w, event)
               \/ CountingLike(w, event) \/ RatingLike(w, event) \/ Requeuing(w, event)
        PROVE  UNCHANGED <<overwritten, given, gifted>>
    BY <2>2 DEF Delivering, Acking, Applying, CountingLike, RatingLike, Requeuing,
                statVars, rowVars, otherVars
  <2> QED
    BY <1>1, <2>1, <2>2 DEF LikesStep
<1>2. ASSUME CommentsStep PROVE UNCHANGED <<overwritten, given, gifted>>
  <2>1. ASSUME NEW c \in CommentCaller, NEW v, NEW heated, NEW row,
               \/ Asking(c) \/ RefusingComment(c) \/ RefusingDelete(c)
               \/ PublishingComment(c, v) \/ FailingComment(c, v, heated)
               \/ WritingComment(c, v) \/ Deleting(c, row)
        PROVE  UNCHANGED <<overwritten, given, gifted>>
    BY <2>1 DEF Asking, RefusingComment, RefusingDelete, PublishingComment, FailingComment,
                WritingComment, Deleting, statVars, rowVars, otherVars
  <2>2. ASSUME NEW w \in CommentConsumer, NEW v, NEW change, NEW row,
               \/ DeliveringComment(w) \/ AckingComment(w) \/ Inserting(w, v)
               \/ RatingComment(w, v, change) \/ Removing(w, row)
        PROVE  UNCHANGED <<overwritten, given, gifted>>
    BY <2>2 DEF DeliveringComment, AckingComment, Inserting, RatingComment, Removing,
                statVars, rowVars, otherVars
  <2>3. ASSUME NEW w \in CommentConsumer, NEW i, RequeuingComment(w, i)
        PROVE  UNCHANGED <<overwritten, given, gifted>>
    BY <2>3 DEF RequeuingComment, rowVars, otherVars
  <2> QED
    BY <1>2, <2>1, <2>2, <2>3 DEF CommentsStep
<1> QED
  BY <1>1, <1>2

LEMMA LikesOwedStay ==
  UNCHANGED likeVars => \A v, at : LikesOwed(v, at)' = LikesOwed(v, at)
  BY DEF likeVars, LikesOwed, LikesDue, LikesOf, Uncounted, Lowering

LEMMA CommentsOwedAsBefore ==
  UNCHANGED commentVars => \A v : CommentsOwed(v)' = CommentsOwed(v)
  BY DEF commentVars, CommentsOwed, CommentsOf, Unraised, Unlowered, Doomed

LEMMA FaultsType == WorkOK => faults \in Nat /\ publishFailures \in Nat
  BY StatsAssumption DEF WorkOK, StatsOK, BoundsOK, StatsAssumption

LEMMA ColumnTypes ==
  WorkOK => /\ \A v \in videos : /\ v \in Video
                                  /\ likesCount[v] \in Int /\ popularity[v] \in Nat
                                  /\ given[v] \in Int /\ gifted[v] \in Nat
            /\ \A v, at : LikesOwed(v, at) \in Int
            /\ \A v : CommentsOwed(v) \in Int
  BY LikesCounted, CommentsCounted DEF WorkOK, StatsOK, RowsOK

LEMMA OwedTypesNext ==
  WorkOK' => \A v, at : LikesOwed(v, at)' \in Int /\ CommentsOwed(v)' \in Int
<1>1. WorkOK => \A v, at : LikesOwed(v, at) \in Int /\ CommentsOwed(v) \in Int
  BY ColumnTypes
<1>2. (WorkOK => \A v, at : LikesOwed(v, at) \in Int /\ CommentsOwed(v) \in Int)'
  BY <1>1, PTL
<1> QED
  BY <1>2

LEMMA CoveredKept ==
  WorkOK /\ WorkStep /\ LikesCovered /\ PopularityCovered =>
     LikesCovered' /\ PopularityCovered'
<1> SUFFICES ASSUME WorkOK, WorkStep, LikesCovered, PopularityCovered
             PROVE  LikesCovered' /\ PopularityCovered'
  OBVIOUS
<1>0. WorkOK' /\ LikesOK /\ StatsOK /\ CommentsOK /\ faults \in Nat
  BY WorkKept, FaultsType DEF WorkOK
<1>1. CASE (StatsNext \/ UNCHANGED statVars) /\ UNCHANGED <<likeVars, commentVars>>
  <2>1. StatsFollowed
    BY <1>0, <1>1, FollowedByStats
  <2>2. /\ \A v, at : LikesOwed(v, at)' = LikesOwed(v, at) /\ LikesOwed(v, at) \in Int
        /\ \A v : CommentsOwed(v)' = CommentsOwed(v) /\ CommentsOwed(v) \in Int
    BY <1>1, LikesOwedStay, CommentsOwedAsBefore, ColumnTypes
  <2>3. faults <= faults' /\ faults' \in Nat
    BY <1>0, <2>1 DEF StatsFollowed
  <2>4. ASSUME NEW v \in videos'
        PROVE  likesCount'[v] + faults' >= LikesOwed(v, {"likes"})' + given'[v]
    <3>1. PICK n \in Int : likesCount'[v] = likesCount[v] + n /\ given'[v] = given[v] + n
      BY <2>1 DEF StatsFollowed
    <3>2. /\ v \in videos /\ likesCount[v] \in Int /\ given[v] \in Int
          /\ likesCount[v] + faults >= LikesOwed(v, {"likes"}) + given[v]
      BY <2>1, ColumnTypes DEF StatsFollowed, LikesCovered
    <3> QED
      BY <1>0, <2>2, <2>3, <3>1, <3>2
  <2>5. ASSUME Cardinality(CommentConsumer) = 1, NEW v \in videos'
        PROVE  popularity'[v] + faults' >=
                  LikesOwed(v, {"likes", "popularity"})' + CommentsOwed(v)' + gifted'[v]
    <3>1. PICK g \in Int : popularity'[v] = popularity[v] + g /\ gifted'[v] = gifted[v] + g
      BY <2>1 DEF StatsFollowed
    <3>2. /\ v \in videos /\ popularity[v] \in Int /\ gifted[v] \in Int
          /\ popularity[v] + faults >=
                LikesOwed(v, {"likes", "popularity"}) + CommentsOwed(v) + gifted[v]
      BY <2>1, <2>5, ColumnTypes DEF StatsFollowed, PopularityCovered
    <3> QED
      BY <1>0, <2>2, <2>3, <3>1, <3>2
  <2> QED
    BY <2>4, <2>5 DEF LikesCovered, PopularityCovered
<1>2. CASE LikesStep /\ UNCHANGED commentVars
  <2>1. LikesFollowed /\ UNCHANGED <<given, gifted>>
    BY <1>0, <1>2, FollowedByLikes, OthersStay
  <2>2. ASSUME NEW v \in videos'
        PROVE  likesCount'[v] + faults' >= LikesOwed(v, {"likes"})' + given'[v]
    <3>1. PICK n, m : n = LikesOwed(v, {"likes"}) /\ m = LikesOwed(v, {"likes"})' - n
      OBVIOUS
    <3>2. /\ v \in videos /\ likesCount[v] \in Int /\ n \in Int
          /\ given[v] \in Int /\ n + given[v] \in Int
          /\ MovesWith(likesCount[v], likesCount'[v], m)
          /\ likesCount[v] + faults >= n + given[v]
      BY <2>1, <3>1, ColumnTypes DEF LikesFollowed, LikesCovered
    <3>3. likesCount'[v] + faults' >= n + given[v] + m
      BY <1>0, <3>2, StillCovered
    <3>4. LikesOwed(v, {"likes"})' \in Int
      BY <1>0, OwedTypesNext
    <3> QED
      BY <2>1, <3>1, <3>2, <3>3, <3>4
  <2>3. ASSUME Cardinality(CommentConsumer) = 1, NEW v \in videos'
        PROVE  popularity'[v] + faults' >=
                  LikesOwed(v, {"likes", "popularity"})' + CommentsOwed(v)' + gifted'[v]
    <3>1. PICK n, m, k : /\ n = LikesOwed(v, {"likes", "popularity"})
                         /\ m = LikesOwed(v, {"likes", "popularity"})' - n
                         /\ k = CommentsOwed(v)
      OBVIOUS
    <3>2. /\ v \in videos /\ popularity[v] \in Int /\ n \in Int /\ k \in Int
          /\ gifted[v] \in Int /\ n + k + gifted[v] \in Int
          /\ MovesWith(popularity[v], popularity'[v], m)
          /\ popularity[v] + faults >= n + k + gifted[v]
      BY <2>1, <2>3, <3>1, ColumnTypes DEF LikesFollowed, PopularityCovered
    <3>3. popularity'[v] + faults' >= n + k + gifted[v] + m
      BY <1>0, <3>2, StillCovered
    <3>4. LikesOwed(v, {"likes", "popularity"})' \in Int /\ CommentsOwed(v)' = k
      BY <1>0, <1>2, <3>1, OwedTypesNext, CommentsOwedAsBefore
    <3> QED
      BY <2>1, <3>1, <3>2, <3>3, <3>4
  <2> QED
    BY <2>2, <2>3 DEF LikesCovered, PopularityCovered
<1>3. CASE CommentsStep /\ UNCHANGED likeVars
  <2>1. CommentsFollowed /\ UNCHANGED <<given, gifted>>
    BY <1>0, <1>3, FollowedByComments, OthersStay
  <2>2. ASSUME NEW v \in videos'
        PROVE  likesCount'[v] + faults' >= LikesOwed(v, {"likes"})' + given'[v]
    <3>1. LikesOwed(v, {"likes"})' = LikesOwed(v, {"likes"}) /\ LikesOwed(v, {"likes"}) \in Int
      BY <1>3, LikesOwedStay, ColumnTypes
    <3> QED
      BY <1>0, <2>1, <3>1, ColumnTypes DEF CommentsFollowed, LikesCovered
  <2>3. ASSUME Cardinality(CommentConsumer) = 1, NEW v \in videos'
        PROVE  popularity'[v] + faults' >=
                  LikesOwed(v, {"likes", "popularity"})' + CommentsOwed(v)' + gifted'[v]
    <3>1. PICK n, m, k : /\ n = CommentsOwed(v) /\ m = CommentsOwed(v)' - n
                         /\ k = LikesOwed(v, {"likes", "popularity"})
      OBVIOUS
    <3>2. /\ v \in videos /\ popularity[v] \in Int /\ n \in Int /\ k \in Int
          /\ gifted[v] \in Int /\ n + k + gifted[v] \in Int
          /\ MovesWith(popularity[v], popularity'[v], m)
          /\ popularity[v] + faults >= k + n + gifted[v]
      BY <2>1, <2>3, <3>1, ColumnTypes DEF CommentsFollowed, PopularityCovered
    <3>3. popularity'[v] + faults' >= n + k + gifted[v] + m
      BY <1>0, <3>2, StillCovered
    <3>4. CommentsOwed(v)' \in Int /\ LikesOwed(v, {"likes", "popularity"})' = k
      BY <1>0, <1>3, <3>1, OwedTypesNext, LikesOwedStay
    <3> QED
      BY <2>1, <3>1, <3>2, <3>3, <3>4
  <2> QED
    BY <2>2, <2>3 DEF LikesCovered, PopularityCovered
<1> QED
  BY <1>1, <1>2, <1>3 DEF WorkStep, vars

LEMMA NothingAtStart ==
  Init => \A v, at : /\ LikesOf(v) = {} /\ CommentsOf(v) = {}
                     /\ (at \in Columns => Uncounted(v, at) = {} /\ Lowering(v, at) = {})
                     /\ Unraised(v) = {} /\ Unlowered(v) = {} /\ Doomed(v) = {}
  BY DEF Init, LikesInit, CommentsInit, LikesOf, CommentsOf, Uncounted, Lowering, Unraised,
     Unlowered, Doomed, Columns, Idle, Quiet

LEMMA NothingOwedAtStart ==
  Init => \A v : /\ LikesOwed(v, {"likes"}) = 0 /\ LikesOwed(v, {"likes", "popularity"}) = 0
                 /\ CommentsOwed(v) = 0
<1> SUFFICES ASSUME Init, NEW v
             PROVE  /\ LikesOwed(v, {"likes"}) = 0 /\ LikesOwed(v, {"likes", "popularity"}) = 0
                    /\ CommentsOwed(v) = 0
  OBVIOUS
<1>1. {"likes"} \in Columns /\ {"likes", "popularity"} \in Columns
  BY DEF Columns
<1> QED
  BY <1>1, NothingAtStart, FS_EmptySet DEF LikesOwed, LikesDue, CommentsOwed

LEMMA CoveredAlways == Spec => [](WorkOK /\ LikesCovered /\ PopularityCovered)
<1>1. Init => LikesCovered /\ PopularityCovered
  <2> SUFFICES ASSUME Init PROVE LikesCovered /\ PopularityCovered
    OBVIOUS
  <2>1. \A v \in videos : /\ likesCount[v] = 0 /\ popularity[v] = 0 /\ faults = 0
                           /\ given[v] = 0 /\ gifted[v] = 0
    BY DEF Init, StatsInit
  <2> QED
    BY <2>1, NothingOwedAtStart DEF LikesCovered, PopularityCovered
<1>2. WorkOK /\ LikesCovered /\ PopularityCovered /\ [Next]_vars =>
         LikesCovered' /\ PopularityCovered'
  BY StepOfWork, CoveredKept
<1> QED
  BY <1>1, <1>2, WorkAlways, PTL DEF Spec

(* What likes and unlikes made of likes_count is short of the rows of table *)
(* likes by no more than the rows that are being counted and the            *)
(* redeliveries so far, however many requests and workers there are and     *)
(* whatever updateLikesCount sets it to (LikeService, LikeWorker).          *)
THEOREM LikesAreCounted == Spec => []LikesCountKeepsUp
<1>1. WorkOK /\ LikesCovered => LikesCountKeepsUp
  <2> SUFFICES ASSUME WorkOK, LikesCovered, NEW v \in videos
               PROVE  likesCount[v] - given[v] + Cardinality(Uncounted(v, {"likes"})) + faults
                         >= Cardinality(LikesOf(v))
    BY DEF LikesCountKeepsUp
  <2>1. /\ Cardinality(LikesOf(v)) \in Nat /\ Cardinality(Uncounted(v, {"likes"})) \in Nat
        /\ Cardinality(Lowering(v, {"likes"})) \in Nat
        /\ likesCount[v] \in Int /\ given[v] \in Int /\ faults \in Nat
    BY LikesCounted, ColumnTypes, FaultsType DEF WorkOK
  <2>2. likesCount[v] + faults >= LikesOwed(v, {"likes"}) + given[v]
    BY DEF LikesCovered
  <2> QED
    BY <2>1, <2>2 DEF LikesOwed, LikesDue
<1> QED
  BY <1>1, CoveredAlways, PTL

(* The same for popularity, which likes, comments and gifts share, with the *)
(* one comment worker of docker-compose.yml.                                *)
THEOREM PopularityIsCounted == Spec => []PopularityKeepsUp
<1>1. WorkOK /\ PopularityCovered => PopularityKeepsUp
  <2> SUFFICES ASSUME WorkOK, PopularityCovered, Cardinality(CommentConsumer) = 1,
                      NEW v \in videos
               PROVE  popularity[v] + Cardinality(Uncounted(v, {"likes", "popularity"}))
                                    + Cardinality(Unraised(v)) + faults
                         >= Cardinality(LikesOf(v)) + Cardinality(CommentsOf(v)) + gifted[v]
    BY DEF PopularityKeepsUp
  <2>1. /\ Cardinality(LikesOf(v)) \in Nat
        /\ Cardinality(Uncounted(v, {"likes", "popularity"})) \in Nat
        /\ Cardinality(Lowering(v, {"likes", "popularity"})) \in Nat
        /\ popularity[v] \in Nat /\ gifted[v] \in Nat /\ faults \in Nat
    BY LikesCounted, ColumnTypes, FaultsType DEF WorkOK
  <2>2. /\ Cardinality(CommentsOf(v)) \in Nat
        /\ Cardinality(Unraised(v)) \in Nat /\ Cardinality(Unlowered(v)) \in Nat
        /\ Cardinality(Doomed(v)) \in Nat
    <3>1. /\ Unraised(v) \subseteq CommentConsumer /\ Unlowered(v) \subseteq CommentConsumer
          /\ Doomed(v) \subseteq CommentConsumer
      BY DEF Unraised, Unlowered, Doomed
    <3> QED
      BY <3>1, CommentsCounted, CommentsAssumption, FS_Subset, FS_CardinalityType
         DEF WorkOK, CommentsAssumption
  <2>3. popularity[v] + faults >=
           LikesOwed(v, {"likes", "popularity"}) + CommentsOwed(v) + gifted[v]
    BY DEF PopularityCovered
  <2> QED
    BY <2>1, <2>2, <2>3 DEF LikesOwed, LikesDue, CommentsOwed
<1> QED
  BY <1>1, CoveredAlways, PTL

-----------------------------------------------------------------------------
(***************************************************************************)
(* Undisturbed, no request is in its fallback, and the rows that consumers *)
(* are counting or about to remove are there: only the consumer itself     *)
(* takes them away.  So no column is ever kept at 0 by GREATEST, and each  *)
(* is what it owes; but likes_count need not be once it was set by         *)
(* updateLikesCount.                                                       *)
(***************************************************************************)
LikesThere ==
    /\ \A c \in LikeCaller : likeCall[c].at # "write"
    /\ \A w \in LikeConsumer :
          likeJob[w].at \in {"likes", "popularity"} /\ likeJob[w].event.action = "like"
             => Present(likeJob[w].event)

CommentsThere ==
    /\ \A c \in CommentCaller : commentCall[c].at # "write"
    /\ \A w \in CommentConsumer :
          /\ commentJob[w].at = "raise" => CommentsOf(commentJob[w].video) # {}
          /\ commentJob[w].at = "remove" => commentJob[w].comment \in comments

ColumnsExact ==
    \A v \in videos :
       /\ v \notin overwritten => likesCount[v] = LikesOwed(v, {"likes"})
       /\ popularity[v] = LikesOwed(v, {"likes", "popularity"}) + CommentsOwed(v) + gifted[v]

Exact == Undisturbed => LikesThere /\ CommentsThere /\ ColumnsExact

LEMMA OneLikeConsumer ==
  ASSUME Cardinality(LikeConsumer) = 1
  PROVE  \E w : LikeConsumer = {w}
  BY LikesAssumption, FS_Singleton DEF LikesAssumption

LEMMA FaultsGrow ==
  WorkOK /\ WorkStep => /\ faults' \in {faults, faults + 1}
                        /\ publishFailures' \in {publishFailures, publishFailures + 1}
<1> SUFFICES ASSUME WorkOK, WorkStep
             PROVE  /\ faults' \in {faults, faults + 1}
                    /\ publishFailures' \in {publishFailures, publishFailures + 1}
  OBVIOUS
<1>0. LikesOK /\ StatsOK /\ CommentsOK
  BY DEF WorkOK
<1>1. CASE StatsNext \/ UNCHANGED statVars
  BY <1>0, <1>1, FollowedByStats DEF StatsFollowed
<1>2. CASE LikesStep
  <2>1. ASSUME NEW c \in LikeCaller, Checking(c) \/ Refusing(c)
        PROVE  UNCHANGED <<faults, publishFailures>>
    BY <2>1 DEF Checking, Refusing, statVars
  <2>2. ASSUME NEW c \in LikeCaller, NEW event, NEW heated,
               Publishing(c, event) \/ Failing(c, event, heated) \/ WritingLike(c, event)
        PROVE  /\ faults' = faults
               /\ publishFailures' \in {publishFailures, publishFailures + 1}
    BY <2>2 DEF Publishing, Failing, WritingLike, MayFailToPublish, PublishFails
  <2>3. ASSUME NEW w \in LikeConsumer, NEW event,
               \/ Delivering(w) \/ Acking(w) \/ Applying(w, event)
               \/ CountingLike(w, event) \/ RatingLike(w, event)
        PROVE  UNCHANGED <<faults, publishFailures>>
    BY <2>3 DEF Delivering, Acking, Applying, CountingLike, RatingLike, statVars
  <2>4. ASSUME NEW w \in LikeConsumer, NEW event, Requeuing(w, event)
        PROVE  faults' = faults + 1 /\ publishFailures' = publishFailures
    BY <2>4 DEF Requeuing
  <2> QED
    BY <1>2, <2>1, <2>2, <2>3, <2>4 DEF LikesStep
<1>3. CASE CommentsStep
  BY <1>3 DEF CommentsStep, Asking, RefusingComment, RefusingDelete, PublishingComment,
     FailingComment, WritingComment, Deleting, DeliveringComment, AckingComment, Inserting,
     RatingComment, Removing, RequeuingComment, MayFailToPublish, PublishFails, statVars
<1> QED
  BY <1>1, <1>2, <1>3 DEF WorkStep, vars

LEMMA StillUndisturbed ==
  WorkOK /\ WorkStep /\ Undisturbed' =>
     Undisturbed /\ UNCHANGED <<faults, publishFailures>>
  BY FaultsGrow, FaultsType DEF Undisturbed

LEMMA LikesThereKept ==
  ASSUME WorkOK, LikesStep, LikesThere, UNCHANGED <<faults, publishFailures>>,
         NEW w, LikeConsumer = {w}
  PROVE  LikesThere'
<1>0. faults # faults + 1 /\ publishFailures # publishFailures + 1 /\ LikesOK
  BY FaultsType DEF WorkOK
<1>1. ASSUME NEW c \in LikeCaller, Checking(c) PROVE LikesThere'
  BY <1>1 DEF Checking, CallGoes, LikesThere, Present
<1>2. ASSUME NEW c \in LikeCaller, NEW event \in LikeEvent, Publishing(c, event)
      PROVE  LikesThere'
  BY <1>2 DEF Publishing, CallGoes, LikesThere, Present, Idle
<1>3. ASSUME Delivering(w) \/ Acking(w) PROVE LikesThere'
  <2>1. likeJob'[w].at \notin {"likes", "popularity"} /\ UNCHANGED likeCall
    BY <1>3 DEF Delivering, Acking, JobGoes, Idle
  <2> QED
    BY <2>1 DEF LikesThere
<1>4. ASSUME NEW event \in LikeEvent, Applying(w, event) PROVE LikesThere'
  <2>1. likeJob'[w].event = event /\ UNCHANGED likeCall /\ likes' = LikesAfter(event)
    BY <1>4 DEF Applying, JobGoes
  <2>2. event.action = "like" => Key(event) \in likes'
    BY <2>1, EventOfLike
  <2> QED
    BY <2>1, <2>2 DEF LikesThere, Present
<1>5. ASSUME NEW event \in LikeEvent, CountingLike(w, event) \/ RatingLike(w, event)
      PROVE  LikesThere'
  <2>1. likeJob'[w].event = event /\ UNCHANGED <<likeCall, likes>>
        /\ likeJob[w].event = event /\ likeJob[w].at \in {"likes", "popularity"}
    BY <1>5 DEF CountingLike, RatingLike, JobGoes
  <2> QED
    BY <2>1 DEF LikesThere, Present
<1>6. ASSUME NEW c \in LikeCaller, NEW event \in LikeEvent,
             WritingLike(c, event) \/ \E heated \in BOOLEAN : Failing(c, event, heated)
      PROVE  FALSE
  BY <1>0, <1>6 DEF LikesThere, WritingLike, Failing, PublishFails
<1>7. ASSUME NEW c \in LikeCaller, Refusing(c) PROVE FALSE
  BY <1>7 DEF LikesThere, Refusing
<1>8. ASSUME NEW x \in LikeConsumer, NEW event \in LikeEvent, Requeuing(x, event) PROVE FALSE
  BY <1>0, <1>8 DEF Requeuing
<1> QED
  BY <1>1, <1>2, <1>3, <1>4, <1>5, <1>6, <1>7, <1>8 DEF LikesStep

LEMMA CommentsThereKept ==
  ASSUME WorkOK, CommentsStep, CommentsThere, UNCHANGED <<faults, publishFailures>>,
         NEW w, CommentConsumer = {w}
  PROVE  CommentsThere'
<1>0. faults # faults + 1 /\ publishFailures # publishFailures + 1 /\ CommentsOK
  BY FaultsType DEF WorkOK
<1>1. ASSUME NEW c \in CommentCaller, Asking(c) PROVE CommentsThere'
  BY <1>1 DEF Asking, CommentCallGoes, CommentsThere, CommentsOf
<1>2. ASSUME NEW c \in CommentCaller, NEW v \in Video, PublishingComment(c, v)
      PROVE  CommentsThere'
  BY <1>2 DEF PublishingComment, CommentCallGoes, CommentsThere, CommentsOf, Quiet
<1>3. ASSUME NEW c \in CommentCaller, NEW row \in Comment, Deleting(c, row)
      PROVE  CommentsThere'
  <2>1. UNCHANGED <<comments, commentJob>>
    BY <1>0, <1>3 DEF Deleting, PublishFails
  <2> QED
    BY <1>3, <2>1 DEF Deleting, CommentCallGoes, CommentsThere, CommentsOf, Quiet
<1>4. ASSUME DeliveringComment(w) PROVE CommentsThere'
  <2>1. Head(commentQueue) \in CommentEvent
    BY <1>0, <1>4, Headed DEF DeliveringComment, CommentsOK, CommentsTypeOK
  <2>2. commentJob'[w] = JobOf(Head(commentQueue)) /\ UNCHANGED <<comments, commentCall>>
    BY <1>4 DEF DeliveringComment, CommentJobGoes
  <2>3. /\ commentJob'[w].at # "raise"
        /\ commentJob'[w].at = "remove" => commentJob'[w].comment \in comments
    BY <1>0, <2>1, <2>2, JobOfEvent
  <2> QED
    BY <2>2, <2>3 DEF CommentsThere
<1>5. ASSUME AckingComment(w) PROVE CommentsThere'
  BY <1>5 DEF AckingComment, CommentJobGoes, CommentsThere, Quiet
<1>6. ASSUME NEW v \in Video, Inserting(w, v) PROVE CommentsThere'
  <2>1. /\ commentJob'[w].at = "raise" /\ commentJob'[w].video = v /\ UNCHANGED commentCall
        /\ [id |-> created + 1, video |-> v] \in comments'
    BY <1>6 DEF Inserting, CommentJobGoes, InsertComment
  <2>2. CommentsOf(v)' # {}
    BY <2>1 DEF CommentsOf
  <2>3. CommentsOf(commentJob[w].video)' = CommentsOf(v)'
    BY <2>1 DEF CommentsOf
  <2> QED
    BY <2>1, <2>2, <2>3 DEF CommentsThere
<1>7. ASSUME NEW row \in Comment, Removing(w, row) PROVE CommentsThere'
  BY <1>7 DEF Removing, CommentJobGoes, CommentsThere
<1>8. ASSUME NEW v \in Video, NEW change \in Change, RatingComment(w, v, change)
      PROVE  CommentsThere'
  BY <1>8 DEF RatingComment, CommentJobGoes, CommentsThere
<1>9. ASSUME NEW c \in CommentCaller, NEW v \in Video,
             WritingComment(c, v) \/ \E heated \in BOOLEAN : FailingComment(c, v, heated)
      PROVE  FALSE
  BY <1>0, <1>9 DEF CommentsThere, WritingComment, FailingComment, PublishFails
<1>10. ASSUME NEW c \in CommentCaller, RefusingComment(c) \/ RefusingDelete(c) PROVE FALSE
  BY <1>0, <1>10 DEF CommentsThere, RefusingComment, RefusingDelete, PublishFails
<1>11. ASSUME NEW x \in CommentConsumer, NEW i, RequeuingComment(x, i) PROVE FALSE
  BY <1>0, <1>11 DEF RequeuingComment
<1> QED
  BY <1>1, <1>2, <1>3, <1>4, <1>5, <1>6, <1>7, <1>8, <1>9, <1>10, <1>11 DEF CommentsStep

LEMMA NotNegative ==
  ASSUME WorkOK, LikesThere, CommentsThere, Cardinality(LikeConsumer) = 1,
         Cardinality(CommentConsumer) = 1, NEW v \in Video
  PROVE  /\ \A at \in Columns : LikesOwed(v, at) >= 0
         /\ CommentsOwed(v) >= 0
<1>0. LikesOK /\ CommentsOK
  BY DEF WorkOK
<1>1. ASSUME NEW at \in Columns PROVE LikesOwed(v, at) >= 0
  <2>1. PICK w : LikeConsumer = {w}
    BY OneLikeConsumer
  <2>2. Cardinality(Uncounted(v, at)) = Bit(w \in Uncounted(v, at))
    BY <2>1, PartOfOne DEF Uncounted
  <2>3. /\ Cardinality(LikesOf(v)) \in Nat /\ Cardinality(Lowering(v, at)) \in Nat
        /\ IsFiniteSet(LikesOf(v))
    BY <1>0, LikesCounted
  <2>4. w \in Uncounted(v, at) => Cardinality(LikesOf(v)) >= 1
    <3> SUFFICES ASSUME w \in Uncounted(v, at) PROVE Cardinality(LikesOf(v)) # 0
      BY <2>3
    <3>1. PICK event : event = likeJob[w].event
      OBVIOUS
    <3>2. /\ likeJob[w].at \in {"likes", "popularity"} /\ event.action = "like"
          /\ event.video = v
      BY <3>1 DEF Uncounted, Columns
    <3>3. event \in LikeEvent /\ Present(event)
      BY <1>0, <2>1, <3>1, <3>2, JobEvent DEF LikesThere
    <3>4. Key(event) \in LikesOf(v)
      BY <3>2, <3>3, EventOfLike DEF LikesOf, Present
    <3> QED
      BY <2>3, <3>4, FS_EmptySet
  <2> QED
    BY <2>2, <2>3, <2>4 DEF LikesOwed, LikesDue, Bit
<1>2. CommentsOwed(v) >= 0
  <2>1. PICK w : CommentConsumer = {w}
    BY OneConsumer
  <2>2. CommentsOwed(v) = Cardinality(CommentsOf(v)) - PartOf(commentJob[w], v, comments)
    BY <1>0, <2>1, OwedOfOne
  <2>3. Cardinality(CommentsOf(v)) \in Nat /\ IsFiniteSet(CommentsOf(v))
    BY <1>0, CommentsCounted
  <2>4. CASE commentJob[w].at = "raise" /\ commentJob[w].video = v
    <3>1. CommentsOf(v) # {}
      BY <2>1, <2>4 DEF CommentsThere
    <3>2. Cardinality(CommentsOf(v)) # 0
      BY <2>3, <3>1, FS_EmptySet
    <3> QED
      BY <2>2, <2>3, <2>4, <3>2 DEF PartOf
  <2>5. CASE ~(commentJob[w].at = "raise" /\ commentJob[w].video = v)
    <3>1. PartOf(commentJob[w], v, comments) \in {-1, 0}
      BY <2>5 DEF PartOf
    <3> QED
      BY <2>2, <2>3, <3>1
  <2> QED
    BY <2>4, <2>5
<1> QED
  BY <1>1, <1>2

LEMMA TogetherWhenCalm ==
  ASSUME NEW c, NEW d, NEW m, MovesWith(c, d, m), UNCHANGED <<faults, publishFailures>>,
         faults \in Nat, publishFailures \in Nat
  PROVE  m \in Int /\ d \in {c + m, Greatest0(c + m)}
  BY DEF MovesWith, Together

LEMMA ThereUnchanged ==
  /\ UNCHANGED likeVars => (LikesThere => LikesThere')
  /\ UNCHANGED commentVars => (CommentsThere => CommentsThere')
<1>1. UNCHANGED likeVars => (LikesThere => LikesThere')
  BY DEF likeVars, LikesThere, Present
<1>2. UNCHANGED commentVars => (CommentsThere => CommentsThere')
  BY DEF commentVars, CommentsThere, CommentsOf
<1> QED
  BY <1>1, <1>2

Positive ==
    \A v \in Video : /\ LikesOwed(v, {"likes"}) >= 0
                     /\ LikesOwed(v, {"likes", "popularity"}) >= 0
                     /\ CommentsOwed(v) >= 0

LEMMA PositiveWhenCalm == WorkOK /\ LikesThere /\ CommentsThere /\ Undisturbed => Positive
<1>1. {"likes"} \in Columns /\ {"likes", "popularity"} \in Columns
  BY DEF Columns
<1> QED
  BY <1>1, NotNegative DEF Undisturbed, Positive

LEMMA NotNegativeNext ==
  ASSUME WorkOK', LikesThere', CommentsThere', Undisturbed', NEW v \in Video
  PROVE  /\ LikesOwed(v, {"likes"})' >= 0
         /\ LikesOwed(v, {"likes", "popularity"})' >= 0
         /\ CommentsOwed(v)' >= 0
<1>1. (WorkOK /\ LikesThere /\ CommentsThere /\ Undisturbed => Positive)'
  BY PositiveWhenCalm, PTL
<1> QED
  BY <1>1 DEF Positive

LEMMA ExactKept == WorkOK /\ WorkStep /\ Exact => Exact'
<1> SUFFICES ASSUME WorkOK, WorkStep, Exact, Undisturbed'
             PROVE  LikesThere' /\ CommentsThere' /\ ColumnsExact'
  BY DEF Exact
<1>0. /\ WorkOK' /\ LikesOK /\ StatsOK /\ CommentsOK /\ faults \in Nat /\ publishFailures \in Nat
      /\ Undisturbed /\ UNCHANGED <<faults, publishFailures>>
      /\ LikesThere /\ CommentsThere /\ ColumnsExact
      /\ Cardinality(CommentConsumer) = 1
  BY WorkKept, FaultsType, StillUndisturbed DEF WorkOK, Exact, Undisturbed
<1>1. CASE (StatsNext \/ UNCHANGED statVars) /\ UNCHANGED <<likeVars, commentVars>>
  <2>1. StatsFollowed
    BY <1>0, <1>1, FollowedByStats
  <2>2. /\ \A v, at : LikesOwed(v, at)' = LikesOwed(v, at)
        /\ \A v : CommentsOwed(v)' = CommentsOwed(v)
    BY <1>1, LikesOwedStay, CommentsOwedAsBefore
  <2>3. ASSUME NEW v \in videos'
        PROVE  /\ v \notin overwritten' => likesCount'[v] = LikesOwed(v, {"likes"})'
               /\ popularity'[v] =
                     LikesOwed(v, {"likes", "popularity"})' + CommentsOwed(v)' + gifted'[v]
    <3>1. PICK n \in Int, g \in Int :
             /\ likesCount'[v] = likesCount[v] + n
             /\ v \notin overwritten' => n = 0
             /\ popularity'[v] = popularity[v] + g /\ gifted'[v] = gifted[v] + g
      BY <2>1 DEF StatsFollowed
    <3>2. /\ v \in videos /\ likesCount[v] \in Int /\ gifted[v] \in Int
          /\ LikesOwed(v, {"likes", "popularity"}) \in Int /\ CommentsOwed(v) \in Int
      BY <1>0, <2>1, ColumnTypes DEF StatsFollowed
    <3>3. /\ v \notin overwritten => likesCount[v] = LikesOwed(v, {"likes"})
          /\ popularity[v] =
                LikesOwed(v, {"likes", "popularity"}) + CommentsOwed(v) + gifted[v]
      BY <1>0, <3>2 DEF ColumnsExact
    <3>4. v \notin overwritten' => v \notin overwritten
      BY <2>1 DEF StatsFollowed
    <3> QED
      BY <2>2, <3>1, <3>2, <3>3, <3>4
  <2> QED
    BY <1>0, <1>1, <2>3, ThereUnchanged DEF ColumnsExact
<1>2. CASE LikesStep /\ UNCHANGED commentVars
  <2>1. LikesFollowed /\ UNCHANGED <<overwritten, gifted>>
    BY <1>0, <1>2, FollowedByLikes, OthersStay
  <2>2. PICK w : LikeConsumer = {w}
    BY <1>0, OneLikeConsumer DEF Undisturbed
  <2>3. LikesThere' /\ CommentsThere'
    BY <1>0, <1>2, <2>2, LikesThereKept, ThereUnchanged
  <2>4. ASSUME NEW v \in videos'
        PROVE  /\ v \notin overwritten' => likesCount'[v] = LikesOwed(v, {"likes"})'
               /\ popularity'[v] =
                     LikesOwed(v, {"likes", "popularity"})' + CommentsOwed(v)' + gifted'[v]
    <3>1. PICK n, p, k : /\ n = LikesOwed(v, {"likes"})
                         /\ p = LikesOwed(v, {"likes", "popularity"})
                         /\ k = CommentsOwed(v)
      OBVIOUS
    <3>2. PICK m, q : /\ m = LikesOwed(v, {"likes"})' - n
                      /\ q = LikesOwed(v, {"likes", "popularity"})' - p
      OBVIOUS
    <3>3. /\ v \in videos /\ v \in Video
          /\ n \in Int /\ p \in Int /\ k \in Int
          /\ likesCount[v] \in Int /\ popularity[v] \in Nat /\ gifted[v] \in Nat
          /\ LikesOwed(v, {"likes"})' \in Int /\ LikesOwed(v, {"likes", "popularity"})' \in Int
      BY <1>0, <2>1, <3>1, ColumnTypes, OwedTypesNext DEF LikesFollowed
    <3>4. /\ MovesWith(likesCount[v], likesCount'[v], m)
          /\ MovesWith(popularity[v], popularity'[v], q)
      BY <2>1, <3>1, <3>2, <3>3 DEF LikesFollowed
    <3>5. /\ m \in Int /\ likesCount'[v] \in {likesCount[v] + m, Greatest0(likesCount[v] + m)}
          /\ q \in Int /\ popularity'[v] \in {popularity[v] + q, Greatest0(popularity[v] + q)}
      BY <1>0, <3>4, TogetherWhenCalm
    <3>6. (v \notin overwritten => likesCount[v] = n) /\ popularity[v] = p + k + gifted[v]
      BY <1>0, <3>1, <3>3 DEF ColumnsExact
    <3>7. CommentsOwed(v)' = k
      BY <1>2, <3>1, CommentsOwedAsBefore
    <3>8. n + m >= 0 /\ p + q >= 0 /\ k >= 0
      BY <1>0, <2>3, <3>2, <3>3, <3>7, NotNegativeNext
    <3>9. v \notin overwritten => likesCount'[v] = n + m
      BY <3>3, <3>5, <3>6, <3>8 DEF Greatest0
    <3>10. popularity'[v] = p + q + k + gifted[v]
      BY <3>3, <3>5, <3>6, <3>8 DEF Greatest0
    <3> QED
      BY <2>1, <3>1, <3>2, <3>3, <3>5, <3>7, <3>9, <3>10
  <2> QED
    BY <2>3, <2>4 DEF ColumnsExact
<1>3. CASE CommentsStep /\ UNCHANGED likeVars
  <2>1. CommentsFollowed /\ UNCHANGED <<overwritten, gifted>>
    BY <1>0, <1>3, FollowedByComments, OthersStay
  <2>2. PICK w : CommentConsumer = {w}
    BY <1>0, OneConsumer
  <2>3. LikesThere' /\ CommentsThere'
    BY <1>0, <1>3, <2>2, CommentsThereKept, ThereUnchanged
  <2>4. ASSUME NEW v \in videos'
        PROVE  /\ v \notin overwritten' => likesCount'[v] = LikesOwed(v, {"likes"})'
               /\ popularity'[v] =
                     LikesOwed(v, {"likes", "popularity"})' + CommentsOwed(v)' + gifted'[v]
    <3>1. PICK p, k : /\ p = LikesOwed(v, {"likes", "popularity"})
                      /\ k = CommentsOwed(v)
      OBVIOUS
    <3>2. PICK m : m = CommentsOwed(v)' - k
      OBVIOUS
    <3>3. /\ v \in videos /\ v \in Video /\ p \in Int /\ k \in Int /\ CommentsOwed(v)' \in Int
          /\ popularity[v] \in Nat /\ gifted[v] \in Nat
      BY <1>0, <2>1, <3>1, ColumnTypes, OwedTypesNext DEF CommentsFollowed
    <3>4. MovesWith(popularity[v], popularity'[v], m)
      BY <1>0, <2>1, <3>1, <3>2, <3>3 DEF CommentsFollowed
    <3>5. m \in Int /\ popularity'[v] \in {popularity[v] + m, Greatest0(popularity[v] + m)}
      BY <1>0, <3>4, TogetherWhenCalm
    <3>6. /\ popularity[v] = p + k + gifted[v]
          /\ v \notin overwritten => likesCount'[v] = LikesOwed(v, {"likes"})
      BY <1>0, <2>1, <3>1, <3>3 DEF ColumnsExact, CommentsFollowed
    <3>7. /\ LikesOwed(v, {"likes", "popularity"})' = p
          /\ LikesOwed(v, {"likes"})' = LikesOwed(v, {"likes"})
      BY <1>3, <3>1, LikesOwedStay
    <3>8. k + m >= 0 /\ p >= 0
      BY <1>0, <2>3, <3>2, <3>3, <3>7, NotNegativeNext
    <3>9. popularity'[v] = p + k + m + gifted[v]
      BY <3>3, <3>5, <3>6, <3>8 DEF Greatest0
    <3> QED
      BY <2>1, <3>1, <3>2, <3>3, <3>5, <3>6, <3>7, <3>9
  <2> QED
    BY <2>3, <2>4 DEF ColumnsExact
<1> QED
  BY <1>1, <1>2, <1>3 DEF WorkStep, vars

LEMMA ExactAlways == Spec => [](WorkOK /\ Exact)
<1>1. Init => Exact
  <2> SUFFICES ASSUME Init PROVE LikesThere /\ CommentsThere /\ ColumnsExact
    BY DEF Exact
  <2>1. LikesThere /\ CommentsThere
    BY DEF Init, LikesInit, CommentsInit, LikesThere, CommentsThere, Idle, Quiet
  <2>2. \A v \in videos : likesCount[v] = 0 /\ popularity[v] = 0 /\ gifted[v] = 0
    BY DEF Init, StatsInit
  <2> QED
    BY <2>1, <2>2, NothingOwedAtStart DEF ColumnsExact
<1>2. WorkOK /\ Exact /\ [Next]_vars => Exact'
  BY StepOfWork, ExactKept
<1> QED
  BY <1>1, <1>2, WorkAlways, PTL DEF Spec

(* Without redelivery or publish error, and with one worker per queue,      *)
(* popularity is exact whenever all work is done, and so is the likes_count *)
(* that updateLikesCount never set.                                         *)
THEOREM CountsAreExact == Spec => []CountsExact
<1>1. WorkOK /\ Exact => CountsExact
  <2> SUFFICES ASSUME WorkOK, Exact, AtRest, Undisturbed, NEW v \in videos
               PROVE  /\ v \notin overwritten => likesCount[v] = Cardinality(LikesOf(v))
                      /\ popularity[v] =
                            Cardinality(LikesOf(v)) + Cardinality(CommentsOf(v)) + gifted[v]
    BY DEF CountsExact
  <2>1. ASSUME NEW at \in Columns PROVE Uncounted(v, at) = {} /\ Lowering(v, at) = {}
    BY DEF AtRest, LikesAtRest, Uncounted, Lowering, Columns, Idle
  <2>2. Unraised(v) = {} /\ Unlowered(v) = {} /\ Doomed(v) = {}
    BY DEF AtRest, CommentsAtRest, Unraised, Unlowered, Doomed, Quiet
  <2>3. {"likes"} \in Columns /\ {"likes", "popularity"} \in Columns
    BY DEF Columns
  <2>4. Cardinality(LikesOf(v)) \in Nat /\ Cardinality(CommentsOf(v)) \in Nat
    BY LikesCounted, CommentsCounted DEF WorkOK
  <2>5. /\ LikesOwed(v, {"likes"}) = Cardinality(LikesOf(v))
        /\ LikesOwed(v, {"likes", "popularity"}) = Cardinality(LikesOf(v))
        /\ CommentsOwed(v) = Cardinality(CommentsOf(v))
    <3>1. ASSUME NEW at \in Columns PROVE LikesOwed(v, at) = Cardinality(LikesOf(v))
      BY <2>1, <2>4, FS_EmptySet DEF LikesOwed, LikesDue
    <3>2. CommentsOwed(v) = Cardinality(CommentsOf(v))
      BY <2>2, <2>4, FS_EmptySet DEF CommentsOwed
    <3> QED
      BY <2>3, <3>1, <3>2
  <2> QED
    BY <2>5 DEF Exact, ColumnsExact
<1> QED
  BY <1>1, ExactAlways, PTL

-----------------------------------------------------------------------------
(***************************************************************************)
(* The ranking.  A request that published its popularity event and then    *)
(* failed has changed the ranking early; it leads the ranking off by one   *)
(* at most, whether it is accepted later or refused, and has paid for it   *)
(* with a publish error.                                                   *)
(***************************************************************************)
EarlyLike(x, v, action) ==
    /\ x.at = "write" /\ x.heated
    /\ x.event.video = v /\ x.event.action = action

EarlyComment(x, v) == x.at = "write" /\ x.heated /\ x.video = v

EarlyLikes(v, action) == {c \in LikeCaller : EarlyLike(likeCall[c], v, action)}
EarlyComments(v) == {c \in CommentCaller : EarlyComment(commentCall[c], v)}

Ups(v) == Cardinality(EarlyLikes(v, "like")) + Cardinality(EarlyComments(v))
Downs(v) == Cardinality(EarlyLikes(v, "unlike"))

Over(v) == Heated(v) - accepted[v] + 2 * Downs(v)
Under(v) == accepted[v] - Heated(v) + 2 * Ups(v)

Slack == GiftWeight * (faults + publishFailures)

RankingKept == \A v \in videos : Over(v) <= Slack /\ Under(v) <= Slack

LEMMA EarlyCounted ==
  \A v : /\ \A action : /\ IsFiniteSet(EarlyLikes(v, action))
                        /\ Cardinality(EarlyLikes(v, action)) \in Nat
         /\ IsFiniteSet(EarlyComments(v)) /\ Cardinality(EarlyComments(v)) \in Nat
         /\ Ups(v) \in Nat /\ Downs(v) \in Nat
<1> SUFFICES ASSUME NEW v
             PROVE  /\ \A action : /\ IsFiniteSet(EarlyLikes(v, action))
                                   /\ Cardinality(EarlyLikes(v, action)) \in Nat
                    /\ IsFiniteSet(EarlyComments(v)) /\ Cardinality(EarlyComments(v)) \in Nat
                    /\ Ups(v) \in Nat /\ Downs(v) \in Nat
  OBVIOUS
<1>1. IsFiniteSet(LikeCaller) /\ IsFiniteSet(CommentCaller)
  BY LikesAssumption, CommentsAssumption DEF LikesAssumption, CommentsAssumption
<1>2. \A action : EarlyLikes(v, action) \subseteq LikeCaller
  BY DEF EarlyLikes
<1>3. EarlyComments(v) \subseteq CommentCaller
  BY DEF EarlyComments
<1>4. /\ \A action : IsFiniteSet(EarlyLikes(v, action))
      /\ IsFiniteSet(EarlyComments(v))
  BY <1>1, <1>2, <1>3, FS_Subset
<1>5. /\ \A action : Cardinality(EarlyLikes(v, action)) \in Nat
      /\ Cardinality(EarlyComments(v)) \in Nat
  BY <1>4, FS_CardinalityType
<1> QED
  BY <1>4, <1>5 DEF Ups, Downs

LEMMA EarlyLikesMove ==
  ASSUME NEW c \in LikeCaller, NEW x, CallGoes(c, x)
  PROVE  \A v, action :
            Cardinality(EarlyLikes(v, action)') =
               Cardinality(EarlyLikes(v, action)) + Bit(EarlyLike(x, v, action))
                  - Bit(EarlyLike(likeCall[c], v, action))
<1> SUFFICES ASSUME NEW v, NEW action
             PROVE  Cardinality(EarlyLikes(v, action)') =
                       Cardinality(EarlyLikes(v, action)) + Bit(EarlyLike(x, v, action))
                          - Bit(EarlyLike(likeCall[c], v, action))
  OBVIOUS
<1>1. /\ EarlyLikes(v, action) \ {c} = EarlyLikes(v, action)' \ {c}
      /\ c \in EarlyLikes(v, action)' <=> EarlyLike(x, v, action)
      /\ c \in EarlyLikes(v, action) <=> EarlyLike(likeCall[c], v, action)
  BY DEF EarlyLikes, CallGoes, EarlyLike
<1>2. Cardinality(EarlyLikes(v, action)') =
         Cardinality(EarlyLikes(v, action)) + Bit(c \in EarlyLikes(v, action)')
            - Bit(c \in EarlyLikes(v, action))
  BY SMTT(60), <1>1, EarlyCounted, SetMoves
<1>3. /\ Bit(c \in EarlyLikes(v, action)') = Bit(EarlyLike(x, v, action))
      /\ Bit(c \in EarlyLikes(v, action)) = Bit(EarlyLike(likeCall[c], v, action))
  BY <1>1 DEF Bit
<1> QED
  BY <1>2, <1>3

LEMMA EarlyCommentsMove ==
  ASSUME NEW c \in CommentCaller, NEW x, CommentCallGoes(c, x)
  PROVE  \A v : Cardinality(EarlyComments(v)') =
                   Cardinality(EarlyComments(v)) + Bit(EarlyComment(x, v))
                      - Bit(EarlyComment(commentCall[c], v))
<1> SUFFICES ASSUME NEW v
             PROVE  Cardinality(EarlyComments(v)') =
                       Cardinality(EarlyComments(v)) + Bit(EarlyComment(x, v))
                          - Bit(EarlyComment(commentCall[c], v))
  OBVIOUS
<1>1. /\ EarlyComments(v) \ {c} = EarlyComments(v)' \ {c}
      /\ c \in EarlyComments(v)' <=> EarlyComment(x, v)
      /\ c \in EarlyComments(v) <=> EarlyComment(commentCall[c], v)
  BY DEF EarlyComments, CommentCallGoes, EarlyComment
<1>2. Cardinality(EarlyComments(v)') =
         Cardinality(EarlyComments(v)) + Bit(c \in EarlyComments(v)')
            - Bit(c \in EarlyComments(v))
  BY <1>1, EarlyCounted, SetMoves
<1>3. /\ Bit(c \in EarlyComments(v)') = Bit(EarlyComment(x, v))
      /\ Bit(c \in EarlyComments(v)) = Bit(EarlyComment(commentCall[c], v))
  BY <1>1 DEF Bit
<1> QED
  BY <1>2, <1>3

LEMMA EarlyStay ==
  /\ UNCHANGED likeCall => \A v, action : EarlyLikes(v, action)' = EarlyLikes(v, action)
  /\ UNCHANGED commentCall => \A v : EarlyComments(v)' = EarlyComments(v)
  BY DEF EarlyLikes, EarlyComments, EarlyLike, EarlyComment

(* The step moves the ranking of v by h, what was accepted by a, the early *)
(* requests by u and d, and the faults by f.  One fault, or the lost event *)
(* of a gift, is worth the weight of a gift at most.                       *)
Shifts(v, h, a, u, d, f) ==
    /\ h \in Int /\ a \in Int /\ u \in Int /\ d \in Int /\ f \in Int
    /\ Heated(v)' = Heated(v) + h
    /\ accepted'[v] = accepted[v] + a
    /\ Ups(v)' = Ups(v) + u
    /\ Downs(v)' = Downs(v) + d
    /\ faults' + publishFailures' = faults + publishFailures + f
    /\ \/ h - a + 2 * d <= f /\ a - h + 2 * u <= f
       \/ f >= 1 /\ h - a + 2 * d <= GiftWeight /\ a - h + 2 * u <= GiftWeight

LEMMA SlackGrows ==
  ASSUME WorkOK, WorkStep
  PROVE  \E f, s \in Nat : /\ faults' + publishFailures' = faults + publishFailures + f
                           /\ Slack' = Slack + s /\ f <= s
                           /\ f >= 1 => GiftWeight <= s
                           /\ Slack \in Nat
<1>1. /\ faults \in Nat /\ publishFailures \in Nat
      /\ faults' \in {faults, faults + 1}
      /\ publishFailures' \in {publishFailures, publishFailures + 1}
      /\ GiftWeight \in Nat /\ GiftWeight >= 2
  BY FaultsType, FaultsGrow, ChangeType
<1>2. PICK n, m : n = faults + publishFailures /\ m = faults' + publishFailures'
  OBVIOUS
<1>a. n \in Nat
  BY <1>1, <1>2
<1>b. faults' = faults \/ faults' = faults + 1
  BY <1>1
<1>c. publishFailures' = publishFailures \/ publishFailures' = publishFailures + 1
  BY <1>1
<1>3. PICK f \in {0, 1, 2} : m = n + f
  <2>1. CASE UNCHANGED faults /\ UNCHANGED publishFailures
    BY <1>1, <1>2, <2>1
  <2>2. CASE UNCHANGED faults /\ publishFailures' = publishFailures + 1
    BY <1>1, <1>2, <2>2
  <2>3. CASE faults' = faults + 1 /\ UNCHANGED publishFailures
    BY <1>1, <1>2, <2>3
  <2>4. CASE faults' = faults + 1 /\ publishFailures' = publishFailures + 1
    BY <1>1, <1>2, <2>4
  <2> QED
    BY <1>b, <1>c, <2>1, <2>2, <2>3, <2>4
<1>4. Slack = GiftWeight * n /\ Slack' = GiftWeight * m
  BY <1>2 DEF Slack
<1>5. PICK p : p = GiftWeight * n
  OBVIOUS
<1>6. p \in Nat
  BY <1>1, <1>a, <1>5
<1>7. /\ GiftWeight * (n + 0) = p
      /\ GiftWeight * (n + 1) = p + GiftWeight
      /\ GiftWeight * (n + 2) = p + 2 * GiftWeight
  BY <1>1, <1>a, <1>5
<1>8. PICK s : s = IF f = 0 THEN 0 ELSE IF f = 1 THEN GiftWeight ELSE 2 * GiftWeight
  OBVIOUS
<1>9. s \in Nat /\ f \in Nat /\ f <= s /\ (f >= 1 => GiftWeight <= s)
  BY <1>1, <1>3, <1>8
<1>10. Slack = p /\ Slack' = p + s
  <2>1. CASE f = 0
    BY <1>1, <1>3, <1>4, <1>5, <1>6, <1>7, <1>8, <2>1
  <2>2. CASE f = 1
    BY <1>1, <1>3, <1>4, <1>5, <1>6, <1>7, <1>8, <2>2
  <2>3. CASE f = 2
    BY <1>1, <1>3, <1>4, <1>5, <1>6, <1>7, <1>8, <2>3
  <2> QED
    BY <2>1, <2>2, <2>3
<1> QED
  BY <1>2, <1>3, <1>6, <1>9, <1>10

LEMMA ShiftsKeep ==
  ASSUME WorkOK, WorkStep, RankingKept, NEW v \in videos, NEW h, NEW a, NEW u, NEW d, NEW f,
         Shifts(v, h, a, u, d, f)
  PROVE  Over(v)' <= Slack' /\ Under(v)' <= Slack'
<1>1. /\ Heated(v) \in Int /\ accepted[v] \in Int
      /\ faults \in Nat /\ publishFailures \in Nat /\ Ups(v) \in Nat /\ Downs(v) \in Nat
      /\ GiftWeight \in Nat
  BY ScoreType, FaultsType, EarlyCounted, ChangeType DEF WorkOK, StatsOK, RowsOK
<1>2. /\ Heated(v) - accepted[v] + 2 * Downs(v) <= Slack
      /\ accepted[v] - Heated(v) + 2 * Ups(v) <= Slack
  BY DEF RankingKept, Over, Under
<1>3. /\ Over(v)' = Heated(v)' - accepted'[v] + 2 * Downs(v)'
      /\ Under(v)' = accepted'[v] - Heated(v)' + 2 * Ups(v)'
  BY DEF Over, Under
<1>4. PICK g \in Nat, s \in Nat :
         /\ faults' + publishFailures' = faults + publishFailures + g
         /\ Slack' = Slack + s /\ g <= s /\ (g >= 1 => GiftWeight <= s)
         /\ Slack \in Nat
  BY SlackGrows
<1>5. f = g
  BY <1>1, <1>4 DEF Shifts
<1>6. h - a + 2 * d <= s /\ a - h + 2 * u <= s
  BY <1>1, <1>4, <1>5 DEF Shifts
<1> QED
  BY <1>1, <1>2, <1>3, <1>4, <1>6 DEF Shifts

RankingFollows ==
    /\ videos' \subseteq videos
    /\ \A v \in videos' : \E h, a, u, d, f : Shifts(v, h, a, u, d, f)

LEMMA RankingTypes ==
  WorkOK => /\ \A v \in Video : Heated(v) \in Int /\ accepted[v] \in Int
            /\ videos \subseteq Video
            /\ LikesOK /\ StatsOK /\ CommentsOK /\ HotOK /\ RowsOK
  BY ScoreType DEF WorkOK, StatsOK, RowsOK

(* Nothing that the ranking follows has changed, but more faults perhaps. *)
LEMMA ShiftsByNothing ==
  ASSUME WorkOK, WorkStep, NEW v \in Video, UNCHANGED <<accepted, likeCall, commentCall>>,
         NEW h \in Int, -GiftWeight <= h, h <= GiftWeight, Heated(v)' = Heated(v) + h,
         h # 0 => faults' = faults + 1
  PROVE  \E a, u, d, f : Shifts(v, h, a, u, d, f)
<1>1. Ups(v)' = Ups(v) /\ Downs(v)' = Downs(v) /\ Ups(v) \in Nat /\ Downs(v) \in Nat
  BY EarlyStay, EarlyCounted DEF Ups, Downs
<1>2. /\ accepted'[v] = accepted[v] + 0 /\ faults \in Nat /\ publishFailures \in Nat
      /\ Heated(v)' = Heated(v) + h
  BY RankingTypes, FaultsType
<1>3. PICK p \in {0, 1}, q \in {0, 1} :
         faults' = faults + p /\ publishFailures' = publishFailures + q
  BY <1>2, FaultsGrow
<1>4. h # 0 => p = 1
  BY <1>2, <1>3
<1>5. PICK f : f = p + q
  OBVIOUS
<1>6. faults' + publishFailures' = faults + publishFailures + f
  BY <1>2, <1>3, <1>5
<1>7. /\ f \in Int
      /\ \/ h - 0 + 2 * 0 <= f /\ 0 - h + 2 * 0 <= f
         \/ f >= 1 /\ h - 0 + 2 * 0 <= GiftWeight /\ 0 - h + 2 * 0 <= GiftWeight
  BY <1>4, <1>5, ChangeType
<1>8. Ups(v)' = Ups(v) + 0 /\ Downs(v)' = Downs(v) + 0
  BY <1>1
<1>9. Shifts(v, h, 0, 0, 0, f)
  BY <1>2, <1>6, <1>7, <1>8 DEF Shifts
<1> QED
  BY <1>9

LEMMA RankingFollowsStats ==
  ASSUME WorkOK, WorkStep,
         (StatsNext /\ UNCHANGED <<likeVars, commentVars>>) \/ UNCHANGED vars
  PROVE  RankingFollows
<1>0. /\ videos' \subseteq videos /\ videos \subseteq Video /\ HotOK
      /\ UNCHANGED <<likeCall, commentCall>>
  BY RankingTypes, FollowedByStats DEF StatsFollowed, vars, likeVars, commentVars
<1>c. ASSUME NEW change \in Change
      PROVE  /\ change \in Int /\ change * (-1) = -change
             /\ -GiftWeight <= change /\ change <= GiftWeight
             /\ -GiftWeight <= -change /\ -change <= GiftWeight
  BY ChangeType
<1>z. 0 \in Int /\ -GiftWeight <= 0 /\ 0 <= GiftWeight
  BY ChangeType
<1>1. ASSUME UNCHANGED accepted,
             \A v \in videos' : \E h \in Int :
                /\ -GiftWeight <= h /\ h <= GiftWeight
                /\ Heated(v)' = Heated(v) + h
                /\ h # 0 => faults' = faults + 1
      PROVE  RankingFollows
  BY <1>0, <1>1, ShiftsByNothing DEF RankingFollows
<1>2. CASE UNCHANGED <<hot, hotQueue, accepted>>
  <2>1. \A v \in Video : Heated(v)' = Heated(v) + 0
    BY <1>0, <1>2, NotHeated, ScoreType DEF hotVars
  <2> QED
    BY <1>0, <1>1, <1>2, <1>z, <2>1
<1>3. ASSUME NEW u \in Video, NEW change \in Change, ApplyPopularity(u, change)
      PROVE  RankingFollows
  <2>1. hotQueue[<<u, change>>] + (-1) \in Nat
    BY <1>0, <1>3 DEF HotOK, ApplyPopularity
  <2>2. hotQueue' = [hotQueue EXCEPT ![<<u, change>>] = @ + (-1)]
    BY <1>0, <1>3 DEF ApplyPopularity, HotOK
  <2>3. \A v \in Video : Heated(v)' = Heated(v) + 0
    <3>1. \A v \in Video : Queued(v)' = Queued(v) + (IF v = u THEN change * (-1) ELSE 0)
      BY <1>0, <2>1, <2>2, QueueMoves
    <3>2. \A v \in Video : Score(v)' = Score(v) + (IF v = u THEN change ELSE 0)
      BY <1>0, <1>3, HotUpdated DEF ApplyPopularity
    <3> QED
      BY <1>0, <1>c, <3>1, <3>2, ScoreType DEF Heated
  <2>4. UNCHANGED accepted
    BY <1>3 DEF ApplyPopularity
  <2> QED
    BY <1>0, <1>1, <1>z, <2>3, <2>4
<1>4. ASSUME NEW u \in Video, NEW change \in Change, RepeatPopularity(u, change)
      PROVE  RankingFollows
  <2>1. \A v \in Video : Score(v)' = Score(v) + (IF v = u THEN change ELSE 0)
    BY <1>0, <1>4, HotUpdated DEF RepeatPopularity
  <2>2. \A v \in Video : Queued(v)' = Queued(v)
    BY <1>4 DEF RepeatPopularity, Queued
  <2>3. \A v \in Video : Heated(v)' = Heated(v) + (IF v = u THEN change ELSE 0)
    BY <1>0, <1>c, <2>1, <2>2, ScoreType DEF Heated
  <2>4. UNCHANGED accepted /\ faults' = faults + 1
    BY <1>4 DEF RepeatPopularity, Fault
  <2> QED
    BY <1>0, <1>1, <1>c, <1>z, <2>3, <2>4
<1>5. ASSUME NEW u \in Video, NEW change \in Change, MissPopularity(u, change)
      PROVE  RankingFollows
  <2>1. hotQueue[<<u, change>>] + (-1) \in Nat
    BY <1>0, <1>5 DEF HotOK, MissPopularity
  <2>2. hotQueue' = [hotQueue EXCEPT ![<<u, change>>] = @ + (-1)]
    BY <1>0, <1>5 DEF MissPopularity, HotOK
  <2>3. \A v \in Video : Queued(v)' = Queued(v) + (IF v = u THEN change * (-1) ELSE 0)
    BY <1>0, <2>1, <2>2, QueueMoves
  <2>4. \A v \in Video : Score(v)' = Score(v)
    BY <1>5 DEF MissPopularity, Score
  <2>5. \A v \in Video : Heated(v)' = Heated(v) + (IF v = u THEN -change ELSE 0)
    BY <1>0, <1>c, <2>3, <2>4, ScoreType DEF Heated
  <2>6. UNCHANGED accepted /\ faults' = faults + 1
    BY <1>5 DEF MissPopularity, Fault
  <2> QED
    BY <1>0, <1>1, <1>c, <1>z, <2>5, <2>6
<1>6. ASSUME NEW u \in Video, DeleteVideo(u) PROVE RankingFollows
  BY <1>2, <1>6 DEF DeleteVideo, hotVars
<1>7. ASSUME NEW u \in Video, RemoveFromRanking(u) PROVE RankingFollows
  <2>1. u \notin videos' /\ UNCHANGED <<accepted, hotQueue>>
    BY <1>7, RankingTypes DEF RemoveFromRanking, RowsOK
  <2>2. \A v \in videos' : Heated(v)' = Heated(v)
    BY <1>7, <2>1 DEF RemoveFromRanking, Heated, Score, Queued
  <2>3. \A v \in videos' : Heated(v)' = Heated(v) + 0
    BY <1>0, <2>2, ScoreType
  <2> QED
    BY <1>1, <1>z, <2>1, <2>3
<1>8. CASE UNCHANGED vars
  BY <1>2, <1>8 DEF vars, statVars, hotVars
<1>9. ASSUME NEW u \in Video,
             SendGift(u) \/ \E n \in LikesCountValue : UpdateLikesCount(u, n)
      PROVE  RankingFollows
  BY <1>2, <1>9 DEF SendGift, UpdateLikesCount, hotVars
<1>10. ASSUME NEW u \in Video, HeatGift(u) PROVE RankingFollows
  <2>1. \/ Heats(u, GiftWeight) /\ UNCHANGED publishFailures
        \/ /\ \A v \in Video : Heated(v)' = Heated(v)
           /\ publishFailures' = publishFailures + 1
    BY <1>0, <1>10, HeatGiven
  <2>2. /\ UNCHANGED <<videos, faults>> /\ faults \in Nat /\ publishFailures \in Nat
        /\ accepted' = [accepted EXCEPT ![u] = @ + GiftWeight]
    BY <1>10, FaultsType DEF HeatGift
  <2>3. ASSUME NEW v \in videos
        PROVE  \E h, a, x, d, f : Shifts(v, h, a, x, d, f)
    <3>1. PICK g \in Int : g = IF v = u THEN GiftWeight ELSE 0
      BY ChangeType
    <3>2. /\ v \in Video /\ Heated(v) \in Int /\ accepted[v] \in Int
          /\ Ups(v) \in Nat /\ Downs(v) \in Nat
          /\ accepted'[v] = accepted[v] + g
          /\ Ups(v)' = Ups(v) + 0 /\ Downs(v)' = Downs(v) + 0
      <4>1. Ups(v)' = Ups(v) /\ Downs(v)' = Downs(v)
        BY <1>0, EarlyStay DEF Ups, Downs
      <4>2. accepted \in [Video -> Int]
        BY DEF WorkOK, StatsOK
      <4> QED
        BY <1>0, <2>2, <3>1, <4>1, <4>2, RankingTypes, EarlyCounted
    <3>3. CASE Heats(u, GiftWeight) /\ UNCHANGED publishFailures
      <4>1. Heated(v)' = Heated(v) + g
        BY <3>1, <3>2, <3>3 DEF Heats
      <4>2. faults' + publishFailures' = faults + publishFailures + 0
        BY <2>2, <3>3
      <4>3. Shifts(v, g, g, 0, 0, 0)
        BY <3>2, <4>1, <4>2 DEF Shifts
      <4> QED
        BY <4>3
    <3>4. CASE /\ \A w \in Video : Heated(w)' = Heated(w)
               /\ publishFailures' = publishFailures + 1
      <4>1. Heated(v)' = Heated(v) + 0
        BY <3>2, <3>4
      <4>2. faults' + publishFailures' = faults + publishFailures + 1
        BY <2>2, <3>4
      <4>3. 0 - g + 2 * 0 <= GiftWeight /\ g - 0 + 2 * 0 <= GiftWeight
        BY <3>1, ChangeType
      <4>4. Shifts(v, 0, g, 0, 0, 1)
        BY <3>2, <4>1, <4>2, <4>3 DEF Shifts
      <4> QED
        BY <4>4
    <3> QED
      BY <2>1, <3>3, <3>4
  <2> QED
    BY <2>2, <2>3 DEF RankingFollows
<1> QED
  BY <1>3, <1>4, <1>5, <1>6, <1>7, <1>8, <1>9, <1>10 DEF StatsNext

LEMMA RankingFollowsLikes ==
  ASSUME WorkOK, WorkStep, LikesStep, UNCHANGED commentVars
  PROVE  RankingFollows
<1>0. /\ UNCHANGED commentCall /\ LikesOK /\ HotOK
      /\ videos \subseteq Video /\ \A v \in Video : Heated(v) \in Int /\ accepted[v] \in Int
      /\ faults \in Nat /\ publishFailures \in Nat
  BY RankingTypes, FaultsType DEF commentVars
<1>1. CASE UNCHANGED <<videos, hot, hotQueue, accepted, likeCall>>
  <2>1. \A v \in Video : Heated(v)' = Heated(v) + 0
    BY <1>0, <1>1, NotHeated DEF hotVars
  <2>2. \A v \in Video : \E a, u, d, f : Shifts(v, 0, a, u, d, f)
    BY <1>0, <1>1, <2>1, ShiftsByNothing, ChangeType
  <2> QED
    BY <1>0, <1>1, <2>2 DEF RankingFollows
<1>2. ASSUME NEW c \in LikeCaller, NEW x, CallGoes(c, x), NEW v,
             NEW i, i = Bit(EarlyLike(x, v, "like")) - Bit(EarlyLike(likeCall[c], v, "like")),
             NEW j, j = Bit(EarlyLike(x, v, "unlike")) - Bit(EarlyLike(likeCall[c], v, "unlike"))
      PROVE  Ups(v)' = Ups(v) + i /\ Downs(v)' = Downs(v) + j /\ i \in Int /\ j \in Int
  <2>1. /\ Cardinality(EarlyLikes(v, "like")') = Cardinality(EarlyLikes(v, "like")) + i
        /\ Cardinality(EarlyLikes(v, "unlike")') = Cardinality(EarlyLikes(v, "unlike")) + j
        /\ i \in Int /\ j \in Int
    BY <1>2, EarlyCounted, EarlyLikesMove DEF Bit
  <2>2. EarlyComments(v)' = EarlyComments(v)
    BY <1>0, EarlyStay
  <2>3. /\ Ups(v)' = Cardinality(EarlyLikes(v, "like")') + Cardinality(EarlyComments(v)')
        /\ Downs(v)' = Cardinality(EarlyLikes(v, "unlike")')
    BY DEF Ups, Downs
  <2> QED
    BY <2>1, <2>2, <2>3, EarlyCounted DEF Ups, Downs
<1>3. ASSUME NEW c \in LikeCaller, Checking(c) PROVE RankingFollows
  <2>1. UNCHANGED <<videos, hot, hotQueue, accepted, faults, publishFailures>>
    BY <1>3 DEF Checking, rowVars, otherVars, hotVars
  <2>2. PICK x : CallGoes(c, x) /\ x.at = "publish" /\ likeCall[c] = Idle
    BY <1>3 DEF Checking
  <2>3. ASSUME NEW v \in videos PROVE Shifts(v, 0, 0, 0, 0, 0)
    <3>1. Ups(v)' = Ups(v) + 0 /\ Downs(v)' = Downs(v) + 0
      BY <1>2, <2>2 DEF Bit, EarlyLike, Idle
    <3>2. Heated(v)' = Heated(v)
      BY <1>0, <2>1, NotHeated DEF hotVars
    <3> QED
      BY <1>0, <2>1, <3>1, <3>2 DEF Shifts
  <2> QED
    BY <2>1, <2>3 DEF RankingFollows
<1>4. ASSUME NEW c \in LikeCaller, Refusing(c) PROVE RankingFollows
  <2>1. UNCHANGED <<videos, hot, hotQueue, accepted, faults, publishFailures>>
    BY <1>4 DEF Refusing, statVars, rowVars, otherVars, hotVars
  <2>2. ASSUME NEW v \in videos PROVE \E u, d : Shifts(v, 0, 0, u, d, 0)
    <3>1. PICK i, j :
             /\ i = Bit(EarlyLike(Idle, v, "like")) - Bit(EarlyLike(likeCall[c], v, "like"))
             /\ j = Bit(EarlyLike(Idle, v, "unlike")) - Bit(EarlyLike(likeCall[c], v, "unlike"))
      OBVIOUS
    <3>2. Ups(v)' = Ups(v) + i /\ Downs(v)' = Downs(v) + j
      BY <1>2, <1>4, <3>1 DEF Refusing
    <3>3. i \in {0, -1} /\ j \in {0, -1}
      BY <3>1 DEF Bit, EarlyLike, Idle
    <3>4. Heated(v)' = Heated(v)
      BY <1>0, <2>1, NotHeated DEF hotVars
    <3>5. Shifts(v, 0, 0, i, j, 0)
      BY <1>0, <2>1, <3>2, <3>3, <3>4 DEF Shifts
    <3> QED
      BY <3>5
  <2> QED
    BY <2>1, <2>2 DEF RankingFollows
<1>5. ASSUME NEW c \in LikeCaller, NEW event \in LikeEvent, Publishing(c, event)
      PROVE  RankingFollows
  <2>1. UNCHANGED <<videos, faults>>
    BY <1>5 DEF Publishing, rowVars, otherVars
  <2>2. PICK f \in {0, 1} : publishFailures' = publishFailures + f
    BY <1>0, <1>5 DEF Publishing, MayFailToPublish
  <2>3. ASSUME NEW v \in videos PROVE \E m : Shifts(v, m, m, 0, 0, f)
    <3>1. PICK m : m = IF v = event.video THEN ChangeOf(event) ELSE 0
      OBVIOUS
    <3>2. m \in Int /\ v \in Video
      BY <1>0, <3>1 DEF ChangeOf
    <3>3. Heated(v)' = Heated(v) + m /\ accepted'[v] = accepted[v] + m
      BY <1>0, <1>5, <3>1, <3>2, AcceptType, RankingTypes DEF Publishing, Heats
    <3>4. Ups(v)' = Ups(v) + 0 /\ Downs(v)' = Downs(v) + 0
      BY <1>2, <1>5 DEF Publishing, Bit, EarlyLike, Idle
    <3>5. Shifts(v, m, m, 0, 0, f)
      BY <1>0, <2>1, <2>2, <3>2, <3>3, <3>4 DEF Shifts
    <3> QED
      BY <3>5
  <2> QED
    BY <2>1, <2>3 DEF RankingFollows
<1>6. ASSUME NEW c \in LikeCaller, NEW event \in LikeEvent, NEW heated \in BOOLEAN,
             Failing(c, event, heated)
      PROVE  RankingFollows
  <2>1. UNCHANGED <<videos, accepted, faults>> /\ publishFailures' = publishFailures + 1
    BY <1>6 DEF Failing, rowVars, otherVars, PublishFails
  <2>2. PICK x : x = [at |-> "write", event |-> event, heated |-> heated]
    OBVIOUS
  <2>3. ASSUME NEW v \in videos PROVE \E h, u, d : Shifts(v, h, 0, u, d, 1)
    <3>1. PICK m : m = IF heated /\ v = event.video THEN ChangeOf(event) ELSE 0
      OBVIOUS
    <3>2. PICK i, j :
             /\ i = Bit(EarlyLike(x, v, "like")) - Bit(EarlyLike(likeCall[c], v, "like"))
             /\ j = Bit(EarlyLike(x, v, "unlike")) - Bit(EarlyLike(likeCall[c], v, "unlike"))
      OBVIOUS
    <3>3. Ups(v)' = Ups(v) + i /\ Downs(v)' = Downs(v) + j
      BY <1>2, <1>6, <2>2, <3>2 DEF Failing
    <3>4. \/ m = 0 /\ i = 0 /\ j = 0
          \/ m = 1 /\ i = 1 /\ j = 0
          \/ m = -1 /\ i = 0 /\ j = 1
      <4>1. likeCall[c].at = "publish" /\ event.action \in {"like", "unlike"}
        BY <1>6, EventOfLike DEF Failing
      <4> QED
        BY <2>2, <3>1, <3>2, <4>1 DEF Bit, EarlyLike, ChangeOf
    <3>5. v \in Video /\ Heated(v)' = Heated(v) + m
      BY <1>0, <1>6, <3>1 DEF Failing
    <3>6. /\ m \in Int /\ i \in Int /\ j \in Int
          /\ m - 0 + 2 * j <= 1 /\ 0 - m + 2 * i <= 1
      BY <3>4
    <3>7. /\ accepted'[v] = accepted[v] + 0
          /\ faults' + publishFailures' = faults + publishFailures + 1
      BY <1>0, <2>1, <3>5
    <3>8. Shifts(v, m, 0, i, j, 1)
      BY <3>3, <3>5, <3>6, <3>7 DEF Shifts
    <3> QED
      BY <3>8
  <2> QED
    BY <2>1, <2>3 DEF RankingFollows
<1>7. ASSUME NEW c \in LikeCaller, NEW event \in LikeEvent, WritingLike(c, event)
      PROVE  RankingFollows
  <2>1. UNCHANGED <<videos, faults, publishFailures>>
    BY <1>7 DEF WritingLike
  <2>2. ASSUME NEW v \in videos PROVE \E h, a, u, d : Shifts(v, h, a, u, d, 0)
    <3>1. PICK m, n :
             /\ m = (IF ~likeCall[c].heated /\ v = event.video THEN ChangeOf(event) ELSE 0)
             /\ n = (IF v = event.video THEN ChangeOf(event) ELSE 0)
      OBVIOUS
    <3>2. PICK i, j :
             /\ i = Bit(EarlyLike(Idle, v, "like")) - Bit(EarlyLike(likeCall[c], v, "like"))
             /\ j = Bit(EarlyLike(Idle, v, "unlike")) - Bit(EarlyLike(likeCall[c], v, "unlike"))
      OBVIOUS
    <3>3. Ups(v)' = Ups(v) + i /\ Downs(v)' = Downs(v) + j
      BY <1>2, <1>7, <3>2 DEF WritingLike
    <3>4. \/ m = n /\ n \in {-1, 0, 1} /\ i = 0 /\ j = 0
          \/ m = 0 /\ n = 1 /\ i = -1 /\ j = 0
          \/ m = 0 /\ n = -1 /\ i = 0 /\ j = -1
      <4>1. /\ likeCall[c].at = "write" /\ event = likeCall[c].event
            /\ event.action \in {"like", "unlike"} /\ likeCall[c].heated \in BOOLEAN
        BY <1>0, <1>7, EventOfLike, CallEvent DEF WritingLike
      <4> QED
        BY <3>1, <3>2, <4>1 DEF Bit, EarlyLike, ChangeOf, Idle
    <3>5. /\ v \in Video /\ Heated(v)' = Heated(v) + m
          /\ accepted'[v] = accepted[v] + n
      BY <1>0, <1>7, <3>1, AcceptType, RankingTypes DEF WritingLike
    <3>6. Shifts(v, m, n, i, j, 0)
      BY <1>0, <2>1, <3>3, <3>4, <3>5 DEF Shifts
    <3> QED
      BY <3>6
  <2> QED
    BY <2>1, <2>2 DEF RankingFollows
<1>8. ASSUME NEW w \in LikeConsumer, NEW event \in LikeEvent,
             \/ Applying(w, event) \/ CountingLike(w, event) \/ RatingLike(w, event)
             \/ Requeuing(w, event)
      PROVE  RankingFollows
  BY <1>1, <1>8 DEF Applying, CountingLike, RatingLike, Requeuing, statVars, rowVars, otherVars, hotVars
<1>9. ASSUME NEW w \in LikeConsumer, Delivering(w) \/ Acking(w) PROVE RankingFollows
  BY <1>1, <1>9 DEF Delivering, Acking, statVars, rowVars, otherVars, hotVars
<1> QED
  BY <1>3, <1>4, <1>5, <1>6, <1>7, <1>8, <1>9 DEF LikesStep

LEMMA RankingFollowsComments ==
  ASSUME WorkOK, WorkStep, CommentsStep, UNCHANGED likeVars
  PROVE  RankingFollows
<1>0. /\ UNCHANGED likeCall /\ CommentsOK /\ HotOK
      /\ videos \subseteq Video /\ \A v \in Video : Heated(v) \in Int /\ accepted[v] \in Int
      /\ faults \in Nat /\ publishFailures \in Nat
  BY RankingTypes, FaultsType DEF likeVars
<1>1. CASE UNCHANGED <<videos, hot, hotQueue, accepted, commentCall>>
  <2>1. \A v \in Video : Heated(v)' = Heated(v) + 0
    BY <1>0, <1>1, NotHeated DEF hotVars
  <2>2. \A v \in Video : \E a, u, d, f : Shifts(v, 0, a, u, d, f)
    BY <1>0, <1>1, <2>1, ShiftsByNothing, ChangeType
  <2> QED
    BY <1>0, <1>1, <2>2 DEF RankingFollows
<1>2. ASSUME NEW c \in CommentCaller, NEW x, CommentCallGoes(c, x), NEW v,
             NEW i, i = Bit(EarlyComment(x, v)) - Bit(EarlyComment(commentCall[c], v))
      PROVE  Ups(v)' = Ups(v) + i /\ Downs(v)' = Downs(v) + 0 /\ i \in Int
  <2>1. /\ Cardinality(EarlyComments(v)') = Cardinality(EarlyComments(v)) + i
        /\ i \in Int
    BY <1>2, EarlyCounted, EarlyCommentsMove DEF Bit
  <2>2. \A action : EarlyLikes(v, action)' = EarlyLikes(v, action)
    BY <1>0, EarlyStay
  <2>3. /\ Ups(v)' = Cardinality(EarlyLikes(v, "like")') + Cardinality(EarlyComments(v)')
        /\ Downs(v)' = Cardinality(EarlyLikes(v, "unlike")')
    BY DEF Ups, Downs
  <2> QED
    BY <2>1, <2>2, <2>3, EarlyCounted DEF Ups, Downs
<1>3. ASSUME NEW c \in CommentCaller, Asking(c) \/ RefusingComment(c) \/ RefusingDelete(c)
      PROVE  RankingFollows
  <2>1. UNCHANGED <<videos, hot, hotQueue, accepted, faults>>
    BY <1>3 DEF Asking, RefusingComment, RefusingDelete, statVars, rowVars, otherVars, hotVars
  <2>2. PICK f \in {0, 1} : publishFailures' = publishFailures + f
    BY <1>0, <1>3 DEF Asking, RefusingComment, RefusingDelete, PublishFails, statVars
  <2>3. PICK x : CommentCallGoes(c, x) /\ x.at # "write"
    BY <1>3 DEF Asking, RefusingComment, RefusingDelete, Quiet
  <2>4. ASSUME NEW v \in videos PROVE \E u : Shifts(v, 0, 0, u, 0, f)
    <3>1. PICK i : i = Bit(EarlyComment(x, v)) - Bit(EarlyComment(commentCall[c], v))
      OBVIOUS
    <3>2. Ups(v)' = Ups(v) + i /\ Downs(v)' = Downs(v) + 0
      BY <1>2, <2>3, <3>1
    <3>3. i \in {0, -1}
      BY <2>3, <3>1 DEF Bit, EarlyComment
    <3>4. Heated(v)' = Heated(v) + 0 /\ accepted'[v] = accepted[v] + 0
      BY <1>0, <2>1, NotHeated DEF hotVars
    <3>5. Shifts(v, 0, 0, i, 0, f)
      BY <1>0, <2>1, <2>2, <3>2, <3>3, <3>4 DEF Shifts
    <3> QED
      BY <3>5
  <2> QED
    BY <2>1, <2>4 DEF RankingFollows
<1>4. ASSUME NEW c \in CommentCaller, NEW u \in Video, PublishingComment(c, u)
      PROVE  RankingFollows
  <2>1. UNCHANGED <<videos, faults>>
    BY <1>4 DEF PublishingComment, rowVars, otherVars
  <2>2. PICK f \in {0, 1} : publishFailures' = publishFailures + f
    BY <1>0, <1>4 DEF PublishingComment, MayFailToPublish
  <2>3. ASSUME NEW v \in videos PROVE \E m : Shifts(v, m, m, 0, 0, f)
    <3>1. PICK m : m = IF v = u THEN 1 ELSE 0
      OBVIOUS
    <3>2. Heated(v)' = Heated(v) + m /\ accepted'[v] = accepted[v] + m /\ m \in Int
      BY <1>0, <1>4, <3>1 DEF PublishingComment, Heats, Accepted
    <3>3. Ups(v)' = Ups(v) + 0 /\ Downs(v)' = Downs(v) + 0
      BY <1>2, <1>4 DEF PublishingComment, Bit, EarlyComment, Quiet
    <3>4. Shifts(v, m, m, 0, 0, f)
      BY <1>0, <2>1, <2>2, <3>2, <3>3 DEF Shifts
    <3> QED
      BY <3>4
  <2> QED
    BY <2>1, <2>3 DEF RankingFollows
<1>5. ASSUME NEW c \in CommentCaller, NEW u \in Video, NEW heated \in BOOLEAN,
             FailingComment(c, u, heated)
      PROVE  RankingFollows
  <2>1. UNCHANGED <<videos, accepted, faults>> /\ publishFailures' = publishFailures + 1
    BY <1>5 DEF FailingComment, rowVars, otherVars, PublishFails
  <2>2. PICK x : x = [at |-> "write", video |-> u, heated |-> heated]
    OBVIOUS
  <2>3. ASSUME NEW v \in videos PROVE \E m : Shifts(v, m, 0, m, 0, 1)
    <3>1. PICK m : m = IF heated /\ v = u THEN 1 ELSE 0
      OBVIOUS
    <3>2. PICK i : i = Bit(EarlyComment(x, v)) - Bit(EarlyComment(commentCall[c], v))
      OBVIOUS
    <3>3. Ups(v)' = Ups(v) + i /\ Downs(v)' = Downs(v) + 0
      BY <1>2, <1>5, <2>2, <3>2 DEF FailingComment
    <3>4. i = m /\ m \in {0, 1}
      BY <1>5, <2>2, <3>1, <3>2 DEF FailingComment, Bit, EarlyComment
    <3>5. /\ Heated(v)' = Heated(v) + m /\ accepted'[v] = accepted[v] + 0
          /\ faults' + publishFailures' = faults + publishFailures + 1
      BY <1>0, <1>5, <2>1, <3>1 DEF FailingComment
    <3>6. m \in Int /\ m - 0 + 2 * 0 <= 1 /\ 0 - m + 2 * m <= 1
      BY <3>4
    <3>7. Shifts(v, m, 0, m, 0, 1)
      BY <3>3, <3>4, <3>5, <3>6 DEF Shifts
    <3> QED
      BY <3>7
  <2> QED
    BY <2>1, <2>3 DEF RankingFollows
<1>6. ASSUME NEW c \in CommentCaller, NEW u \in Video, WritingComment(c, u)
      PROVE  RankingFollows
  <2>1. UNCHANGED <<videos, faults, publishFailures>>
    BY <1>6 DEF WritingComment
  <2>2. ASSUME NEW v \in videos PROVE \E m, n, i : Shifts(v, m, n, i, 0, 0)
    <3>1. PICK m, n, i :
             /\ m = (IF ~commentCall[c].heated /\ v = u THEN 1 ELSE 0)
             /\ n = (IF v = u THEN 1 ELSE 0)
             /\ i = Bit(EarlyComment(Quiet, v)) - Bit(EarlyComment(commentCall[c], v))
      OBVIOUS
    <3>2. Ups(v)' = Ups(v) + i /\ Downs(v)' = Downs(v) + 0
      BY <1>2, <1>6, <3>1 DEF WritingComment
    <3>3. \/ m = n /\ n \in {0, 1} /\ i = 0
          \/ m = 0 /\ n = 1 /\ i = -1
      <4>1. /\ commentCall[c].at = "write" /\ u = commentCall[c].video
            /\ commentCall[c].heated \in BOOLEAN
        BY <1>0, <1>6, CallVideo DEF WritingComment
      <4>2. /\ Bit(EarlyComment(Quiet, v)) = 0
            /\ Bit(EarlyComment(commentCall[c], v)) =
                  IF commentCall[c].heated /\ v = u THEN 1 ELSE 0
        BY <4>1 DEF Bit, EarlyComment, Quiet
      <4>3. CASE v # u
        <5>1. m = 0 /\ n = 0
          BY <3>1, <4>3
        <5>2. i = 0 - 0
          BY <3>1, <4>2, <4>3
        <5> QED
          BY <5>1, <5>2
      <4>4. CASE v = u /\ commentCall[c].heated
        BY <3>1, <4>2, <4>4
      <4>5. CASE v = u /\ ~commentCall[c].heated
        <5>1. m = 1 /\ n = 1
          BY <3>1, <4>5
        <5>2. i = 0 - 0
          BY <3>1, <4>2, <4>5
        <5> QED
          BY <5>1, <5>2
      <4> QED
        BY <4>3, <4>4, <4>5
    <3>4. /\ Heated(v)' = Heated(v) + m /\ accepted'[v] = accepted[v] + n
          /\ faults' + publishFailures' = faults + publishFailures + 0
      BY <1>0, <1>6, <2>1, <3>1 DEF WritingComment, Accepted
    <3>5. /\ m \in Int /\ n \in Int /\ i \in Int
          /\ m - n + 2 * 0 <= 0 /\ n - m + 2 * i <= 0
      BY <3>3
    <3>6. Shifts(v, m, n, i, 0, 0)
      BY <3>2, <3>4, <3>5 DEF Shifts
    <3> QED
      BY <3>6
  <2> QED
    BY <2>1, <2>2 DEF RankingFollows
<1>7. ASSUME NEW c \in CommentCaller, NEW row \in Comment, Deleting(c, row)
      PROVE  RankingFollows
  <2>1. UNCHANGED <<videos, faults>>
    BY <1>7 DEF Deleting, rowVars, otherVars
  <2>2. PICK f \in {0, 1} : publishFailures' = publishFailures + f
    BY <1>0, <1>7 DEF Deleting, MayFailToPublish, PublishFails
  <2>3. ASSUME NEW v \in videos PROVE \E m : Shifts(v, m, m, 0, 0, f)
    <3>1. PICK m : m = IF v = row.video THEN -1 ELSE 0
      OBVIOUS
    <3>2. Heated(v)' = Heated(v) + m /\ accepted'[v] = accepted[v] + m /\ m \in Int
      BY <1>0, <1>7, <3>1 DEF Deleting, Heats, Accepted
    <3>3. Ups(v)' = Ups(v) + 0 /\ Downs(v)' = Downs(v) + 0
      BY <1>2, <1>7 DEF Deleting, Bit, EarlyComment, Quiet
    <3>4. Shifts(v, m, m, 0, 0, f)
      BY <1>0, <2>1, <2>2, <3>2, <3>3 DEF Shifts
    <3> QED
      BY <3>4
  <2> QED
    BY <2>1, <2>3 DEF RankingFollows
<1>8. ASSUME NEW w \in CommentConsumer, DeliveringComment(w) \/ AckingComment(w)
      PROVE  RankingFollows
  BY <1>1, <1>8 DEF DeliveringComment, AckingComment, statVars, rowVars, otherVars, hotVars
<1>9. ASSUME NEW w \in CommentConsumer, NEW v \in Video,
             Inserting(w, v) \/ \E change \in Change : RatingComment(w, v, change)
      PROVE  RankingFollows
  BY <1>1, <1>9 DEF Inserting, RatingComment, statVars, rowVars, otherVars, hotVars
<1>10. ASSUME NEW w \in CommentConsumer, NEW row \in Comment, Removing(w, row)
       PROVE  RankingFollows
  BY <1>1, <1>10 DEF Removing, statVars, rowVars, otherVars, hotVars
<1>11. ASSUME NEW w \in CommentConsumer, NEW i \in 1 .. Len(commentQueue) + 1,
              RequeuingComment(w, i)
       PROVE  RankingFollows
  BY <1>1, <1>11 DEF RequeuingComment, rowVars, otherVars, hotVars
<1> QED
  BY <1>3, <1>4, <1>5, <1>6, <1>7, <1>8, <1>9, <1>10, <1>11 DEF CommentsStep

LEMMA RankingStaysKept == WorkOK /\ WorkStep /\ RankingKept => RankingKept'
<1> SUFFICES ASSUME WorkOK, WorkStep, RankingKept PROVE RankingKept'
  OBVIOUS
<1>1. RankingFollows
  BY RankingFollowsStats, RankingFollowsLikes, RankingFollowsComments DEF WorkStep
<1> QED
  BY <1>1, ShiftsKeep DEF RankingFollows, RankingKept

LEMMA RankingAlways == Spec => [](WorkOK /\ RankingKept)
<1>1. Init => RankingKept
  <2> SUFFICES ASSUME Init, NEW v \in videos
               PROVE  Over(v) <= Slack /\ Under(v) <= Slack
    BY DEF RankingKept
  <2>1. v \in Video /\ Score(v) = 0 /\ Queued(v) = 0 /\ accepted[v] = 0
        /\ faults = 0 /\ publishFailures = 0
    BY ChangeType DEF Init, StatsInit, Score, Queued
  <2>2. EarlyComments(v) = {} /\ \A action : EarlyLikes(v, action) = {}
    BY DEF Init, LikesInit, CommentsInit, EarlyComments, EarlyLikes, EarlyComment, EarlyLike,
       Idle, Quiet
  <2>3. Ups(v) = 0 /\ Downs(v) = 0
    BY <2>2, FS_EmptySet DEF Ups, Downs
  <2> QED
    BY <2>1, <2>3, ChangeType DEF Over, Under, Heated, Slack
<1>2. WorkOK /\ RankingKept /\ [Next]_vars => RankingKept'
  BY StepOfWork, RankingStaysKept
<1> QED
  BY <1>1, <1>2, WorkAlways, PTL DEF Spec

(* The score of a video and the events in its queue add up to what accepted *)
(* requests and gifts asked for, but for one change per redelivery, missed  *)
(* update or publish error, however many there are (Heat, HeatGift,         *)
(* PopularityWorker).                                                       *)
THEOREM RankingIsFollowed == Spec => []RankingFollowsRequests
<1>1. WorkOK /\ RankingKept => RankingFollowsRequests
  <2> SUFFICES ASSUME WorkOK, RankingKept, NEW v \in videos
               PROVE  Distance(Score(v) + Queued(v), accepted[v]) <= Slack
    BY DEF RankingFollowsRequests, Slack
  <2>1. /\ Heated(v) \in Int /\ accepted[v] \in Int /\ Ups(v) \in Nat /\ Downs(v) \in Nat
        /\ Slack \in Nat
    BY RankingTypes, EarlyCounted, FaultsType, ChangeType DEF Slack
  <2>2. /\ Heated(v) - accepted[v] + 2 * Downs(v) <= Slack
        /\ accepted[v] - Heated(v) + 2 * Ups(v) <= Slack
    BY DEF RankingKept, Over, Under
  <2>3. Heated(v) - accepted[v] <= Slack
        /\ accepted[v] - Heated(v) <= Slack
    BY <2>1, <2>2
  <2>4. Distance(Heated(v), accepted[v]) <= Slack
    BY <2>1, <2>3 DEF Distance
  <2> QED
    BY <2>4 DEF Heated
<1> QED
  BY <1>1, RankingAlways, PTL

-----------------------------------------------------------------------------
(***************************************************************************)
(* Comments land: rows written, publish events queued and events being     *)
(* inserted together follow the accepted requests; only a redelivery adds  *)
(* to them, and only a deleted video takes an event away.                  *)
(***************************************************************************)
Publishes == {e \in CommentEvent : e.action = "publish"}
Queueing == Places(commentQueue, Publishes)
Writing == {w \in CommentConsumer : commentJob[w].at = "insert"}
Landing == created + Cardinality(Queueing) + Cardinality(Writing)

Landed ==
    /\ Landing <= published + faults
    /\ videos = Video => Landing >= published

LEMMA LandingCounted ==
  CommentsOK => /\ created \in Nat /\ published \in Nat
                /\ Cardinality(Queueing) \in Nat
                /\ IsFiniteSet(Writing) /\ Cardinality(Writing) \in Nat
<1> SUFFICES ASSUME CommentsOK
             PROVE  /\ created \in Nat /\ published \in Nat
                    /\ Cardinality(Queueing) \in Nat
                    /\ IsFiniteSet(Writing) /\ Cardinality(Writing) \in Nat
  OBVIOUS
<1>1. created \in Nat /\ published \in Nat /\ commentQueue \in Seq(CommentEvent)
  BY DEF CommentsOK, CommentsTypeOK
<1>2. Writing \subseteq CommentConsumer /\ IsFiniteSet(CommentConsumer)
  BY CommentsAssumption DEF Writing, CommentsAssumption
<1>3. IsFiniteSet(Writing)
  BY <1>2, FS_Subset
<1> QED
  BY <1>1, <1>3, PlacesFinite, FS_CardinalityType DEF Queueing

LEMMA WritingMoves ==
  ASSUME CommentsOK, NEW w \in CommentConsumer, NEW j, CommentJobGoes(w, j)
  PROVE  Cardinality(Writing') =
            Cardinality(Writing) + Bit(j.at = "insert") - Bit(commentJob[w].at = "insert")
<1>1. /\ Writing \ {w} = Writing' \ {w}
      /\ w \in Writing' <=> j.at = "insert"
      /\ w \in Writing <=> commentJob[w].at = "insert"
  BY DEF Writing, CommentJobGoes
<1>2. Cardinality(Writing') = Cardinality(Writing) + Bit(w \in Writing') - Bit(w \in Writing)
  BY <1>1, LandingCounted, SetMoves
<1> QED
  BY <1>1, <1>2 DEF Bit

(* The step moves the rows by r, the queue by q, the events being inserted *)
(* by i, the accepted requests by p and the faults by f.                   *)
Lands(r, q, i, p, f) ==
    /\ {r, q, i, p, f} \subseteq Int
    /\ created' = created + r
    /\ Cardinality(Queueing') = Cardinality(Queueing) + q
    /\ Cardinality(Writing') = Cardinality(Writing) + i
    /\ published' = published + p
    /\ faults' = faults + f
    /\ r + q + i <= p + f
    /\ videos' \subseteq videos
    /\ videos = Video => r + q + i >= p

LEMMA LandsKeeps ==
  ASSUME WorkOK, Landed, NEW r, NEW q, NEW i, NEW p, NEW f, Lands(r, q, i, p, f)
  PROVE  Landed'
<1>1. /\ created \in Nat /\ published \in Nat /\ Cardinality(Queueing) \in Nat
      /\ Cardinality(Writing) \in Nat /\ faults \in Nat /\ videos \subseteq Video
      /\ r \in Int /\ q \in Int /\ i \in Int /\ p \in Int /\ f \in Int
  BY LandingCounted, FaultsType, RankingTypes DEF WorkOK, Lands
<1>2. Landing' = created' + Cardinality(Queueing') + Cardinality(Writing')
  BY DEF Landing
<1>3. Landing' <= published' + faults'
  BY <1>1, <1>2 DEF Lands, Landed, Landing
<1>4. ASSUME videos' = Video PROVE Landing' >= published'
  <2>1. videos = Video
    BY <1>1, <1>4 DEF Lands
  <2> QED
    BY <1>1, <1>2, <2>1 DEF Lands, Landed, Landing
<1> QED
  BY <1>3, <1>4 DEF Landed

LEMMA LandingStays ==
  ASSUME WorkOK, WorkStep, videos' \subseteq videos,
         UNCHANGED <<created, commentQueue, commentJob, published>>, Landed
  PROVE  Landed'
<1>1. Queueing' = Queueing /\ Writing' = Writing
  BY DEF Queueing, Writing
<1>2. PICK f \in {0, 1} : faults' = faults + f
  BY FaultsGrow, FaultsType
<1>3. /\ created \in Nat /\ published \in Nat /\ Cardinality(Queueing) \in Nat
      /\ Cardinality(Writing) \in Nat
  BY LandingCounted DEF WorkOK
<1>4. Lands(0, 0, 0, 0, f)
  BY <1>1, <1>2, <1>3 DEF Lands
<1> QED
  BY <1>4, LandsKeeps

LEMMA LandedByComments ==
  ASSUME WorkOK, WorkStep, CommentsStep, Landed
  PROVE  Landed'
<1>0. /\ CommentsOK /\ StatsOK /\ commentQueue \in Seq(CommentEvent) /\ faults \in Nat
      /\ created \in Nat /\ published \in Nat /\ Cardinality(Queueing) \in Nat
      /\ Cardinality(Writing) \in Nat
  BY LandingCounted, FaultsType DEF WorkOK, CommentsOK, CommentsTypeOK
<1>1. UNCHANGED videos
  BY <1>0, FollowedByComments DEF CommentsFollowed
<1>2. CASE UNCHANGED <<created, commentQueue, commentJob, published>>
  BY <1>1, <1>2, LandingStays
<1>3. ASSUME UNCHANGED commentQueue
      PROVE  Cardinality(Queueing') = Cardinality(Queueing) + 0
  <2>1. Queueing' = Queueing
    BY <1>3 DEF Queueing
  <2> QED
    BY <1>0, <2>1
<1>4. ASSUME UNCHANGED commentJob
      PROVE  Cardinality(Writing') = Cardinality(Writing) + 0
  <2>1. Writing' = Writing
    BY <1>4 DEF Writing
  <2> QED
    BY <1>0, <2>1
<1>5. ASSUME NEW e \in CommentEvent, commentQueue' = Append(commentQueue, e)
      PROVE  Cardinality(Queueing') = Cardinality(Queueing) + Bit(e \in Publishes)
  <2>1. Queueing' = Places(Append(commentQueue, e), Publishes)
    BY <1>5 DEF Queueing
  <2> QED
    BY <1>0, <2>1, PlacesAppended DEF Queueing
<1>6. ASSUME NEW c \in CommentCaller, NEW v \in Video, PublishingComment(c, v) PROVE Landed'
  <2>1. PICK e : e = [action |-> "publish", video |-> v]
    OBVIOUS
  <2>2. e \in CommentEvent /\ e \in Publishes
    BY <2>1 DEF CommentEvent, Publishes
  <2>3. Cardinality(Queueing') = Cardinality(Queueing) + 1
    BY <1>5, <1>6, <2>1, <2>2 DEF PublishingComment, Bit
  <2>4. Lands(0, 1, 0, 1, 0)
    BY <1>0, <1>1, <1>4, <1>6, <2>3 DEF PublishingComment, Lands
  <2> QED
    BY <2>4, LandsKeeps
<1>7. ASSUME NEW c \in CommentCaller, NEW v \in Video, WritingComment(c, v) PROVE Landed'
  <2>1. Lands(1, 0, 0, 1, 0)
    BY <1>0, <1>1, <1>3, <1>4, <1>7 DEF WritingComment, InsertComment, Lands
  <2> QED
    BY <2>1, LandsKeeps
<1>8. ASSUME NEW c \in CommentCaller, NEW row \in Comment, Deleting(c, row) PROVE Landed'
  <2>1. PICK e : e = [action |-> "delete", id |-> row.id]
    OBVIOUS
  <2>2. e \in CommentEvent /\ e \notin Publishes
    BY <2>1 DEF CommentEvent, Publishes, Comment
  <2>3. UNCHANGED <<created, commentJob, published>>
    BY <1>8 DEF Deleting
  <2>4. CASE commentQueue' = Append(commentQueue, e)
    <3>1. Cardinality(Queueing') = Cardinality(Queueing) + 0
      BY <1>5, <2>2, <2>4 DEF Bit
    <3>2. Lands(0, 0, 0, 0, 0)
      BY <1>0, <1>1, <1>4, <1>8, <2>3, <3>1 DEF Deleting, Lands
    <3> QED
      BY <3>2, LandsKeeps
  <2>5. CASE UNCHANGED commentQueue
    BY <1>2, <2>3, <2>5
  <2> QED
    BY <1>8, <2>1, <2>4, <2>5 DEF Deleting
<1>9. ASSUME NEW w \in CommentConsumer, DeliveringComment(w) PROVE Landed'
  <2>1. PICK e : e = Head(commentQueue)
    OBVIOUS
  <2>2. e \in CommentEvent /\ commentQueue # << >>
    BY <1>0, <1>9, <2>1, Headed DEF DeliveringComment
  <2>3. Cardinality(Queueing) = Cardinality(Places(Tail(commentQueue), Publishes))
                                   + Bit(e \in Publishes)
    BY <1>0, <2>1, <2>2, PlacesTail DEF Queueing
  <2>4. Queueing' = Places(Tail(commentQueue), Publishes)
    BY <1>9 DEF DeliveringComment, Queueing
  <2>5. commentJob[w].at = "idle" /\ CommentJobGoes(w, JobOf(e))
    BY <1>9, <2>1 DEF DeliveringComment, Quiet
  <2>6. Cardinality(Writing') = Cardinality(Writing) + Bit(JobOf(e).at = "insert")
                                   - Bit(commentJob[w].at = "insert")
    BY <1>0, <2>5, WritingMoves
  <2>7. JobOf(e).at = "insert" <=> e.action = "publish" /\ e.video \in videos
    BY <1>0, <2>2, JobOfEvent
  <2>8. e \in Publishes <=> e.action = "publish"
    BY <2>2 DEF Publishes
  <2>9. e.action = "publish" => e.video \in Video
    BY <2>2 DEF CommentEvent
  <2>10. PICK q : q = 0 - Bit(e \in Publishes)
    OBVIOUS
  <2>11. PICK i : i = Bit(JobOf(e).at = "insert")
    OBVIOUS
  <2>12. q \in Int /\ i \in Int /\ q + i <= 0 /\ (videos = Video => q + i >= 0)
    BY <2>7, <2>8, <2>9, <2>10, <2>11 DEF Bit
  <2>13. Cardinality(Queueing') = Cardinality(Queueing) + q
    <3>1. Cardinality(Places(Tail(commentQueue), Publishes)) \in Nat
      BY <1>0, <2>2, Headed, PlacesFinite
    <3> QED
      BY <2>3, <2>4, <2>10, <3>1 DEF Bit
  <2>14. Cardinality(Writing') = Cardinality(Writing) + i
    BY <1>0, <2>5, <2>6, <2>11 DEF Bit
  <2>15. Lands(0, q, i, 0, 0)
    BY <1>0, <1>1, <1>9, <2>12, <2>13, <2>14 DEF DeliveringComment, Lands, statVars
  <2> QED
    BY <2>15, LandsKeeps
<1>10. ASSUME NEW w \in CommentConsumer, NEW v \in Video, Inserting(w, v) PROVE Landed'
  <2>1. Cardinality(Writing') = Cardinality(Writing) + (-1)
    <3>1. PICK j : j.at = "raise" /\ CommentJobGoes(w, j) /\ commentJob[w].at = "insert"
      BY <1>10 DEF Inserting
    <3>2. Cardinality(Writing') =
             Cardinality(Writing) + Bit(j.at = "insert") - Bit(commentJob[w].at = "insert")
      BY <1>0, <3>1, WritingMoves
    <3> QED
      BY <1>0, <3>1, <3>2 DEF Bit
  <2>2. Lands(1, 0, -1, 0, 0)
    BY <1>0, <1>1, <1>3, <1>10, <2>1 DEF Inserting, InsertComment, Lands, statVars
  <2> QED
    BY <2>2, LandsKeeps
<1>11. ASSUME NEW w \in CommentConsumer, NEW j, CommentJobGoes(w, j), j.at # "insert",
              commentJob[w].at # "insert",
              UNCHANGED <<created, published, commentQueue, faults>>
       PROVE  Landed'
  <2>1. Cardinality(Writing') = Cardinality(Writing) + 0
    BY <1>0, <1>11, WritingMoves DEF Bit
  <2>2. Lands(0, 0, 0, 0, 0)
    BY <1>0, <1>1, <1>3, <1>11, <2>1 DEF Lands
  <2> QED
    BY <2>2, LandsKeeps
<1>12. ASSUME NEW w \in CommentConsumer, NEW row \in Comment, Removing(w, row) PROVE Landed'
  BY <1>11, <1>12 DEF Removing, statVars
<1>13. ASSUME NEW w \in CommentConsumer, NEW v \in Video, NEW change \in Change,
              RatingComment(w, v, change)
       PROVE  Landed'
  BY <1>11, <1>13 DEF RatingComment
<1>14. ASSUME NEW w \in CommentConsumer, AckingComment(w) PROVE Landed'
  BY <1>11, <1>14 DEF AckingComment, Quiet, statVars
<1>15. ASSUME NEW w \in CommentConsumer, NEW k \in 1 .. Len(commentQueue) + 1,
              RequeuingComment(w, k)
       PROVE  Landed'
  <2>1. PICK e \in CommentEvent : e = commentJob[w].event
    BY <1>0, <1>15, CommentJobKinds DEF RequeuingComment
  <2>2. Cardinality(Queueing') = Cardinality(Queueing) + Bit(e \in Publishes)
    <3>1. commentQueue' = InsertAt(commentQueue, k, e)
      BY <1>15, <2>1 DEF RequeuingComment
    <3>2. Queueing' = Places(commentQueue', Publishes)
      BY DEF Queueing
    <3> QED
      BY <1>0, <3>1, <3>2, PlacesInserted DEF Queueing
  <2>3. CommentJobGoes(w, Quiet) /\ Quiet.at # "insert"
    BY <1>15 DEF RequeuingComment, Quiet
  <2>4. PICK i : i = 0 - Bit(commentJob[w].at = "insert")
    OBVIOUS
  <2>5. Cardinality(Writing') = Cardinality(Writing) + i
    BY <1>0, <2>3, <2>4, WritingMoves DEF Bit
  <2>6. PICK q : q = Bit(e \in Publishes)
    OBVIOUS
  <2>7. commentJob[w].at = "insert" => e \in Publishes
    BY <1>0, <2>1 DEF CommentsOK, JobsFit, Publishes
  <2>8. q \in Int /\ i \in Int /\ q + i <= 1 /\ q + i >= 0
    BY <2>4, <2>6, <2>7 DEF Bit
  <2>9. Lands(0, q, i, 0, 1)
    BY <1>0, <1>1, <1>15, <2>2, <2>5, <2>6, <2>8 DEF RequeuingComment, Lands
  <2> QED
    BY <2>9, LandsKeeps
<1>16. ASSUME NEW c \in CommentCaller, Asking(c) \/ RefusingComment(c) \/ RefusingDelete(c)
       PROVE  Landed'
  BY <1>2, <1>16 DEF Asking, RefusingComment, RefusingDelete
<1>17. ASSUME NEW c \in CommentCaller, NEW v \in Video, NEW heated \in BOOLEAN,
              FailingComment(c, v, heated)
       PROVE  Landed'
  BY <1>2, <1>17 DEF FailingComment
<1> QED
  BY <1>6, <1>7, <1>8, <1>9, <1>10, <1>12, <1>13, <1>14, <1>15, <1>16, <1>17 DEF CommentsStep

LEMMA LandedKept == WorkOK /\ WorkStep /\ Landed => Landed'
<1> SUFFICES ASSUME WorkOK, WorkStep, Landed PROVE Landed'
  OBVIOUS
<1>1. CASE CommentsStep
  BY <1>1, LandedByComments
<1>2. CASE UNCHANGED commentVars
  <2>1. videos' \subseteq videos
    BY FollowedByStats, FollowedByLikes, FollowedByComments
       DEF WorkStep, WorkOK, StatsFollowed, LikesFollowed, CommentsFollowed, vars
  <2> QED
    BY <1>2, <2>1, LandingStays DEF commentVars
<1> QED
  BY <1>1, <1>2 DEF WorkStep, vars

(* Every accepted comment gets its row, and one more at most for each       *)
(* redelivery (CommentService.Publish, CommentWorker).                      *)
THEOREM CommentsDoLand == Spec => []CommentsLand
<1>1. Init => Landed
  <2> SUFFICES ASSUME Init PROVE Landed
    OBVIOUS
  <2>1. Queueing = {} /\ Writing = {}
    BY DEF Init, CommentsInit, Queueing, Places, Writing, Quiet
  <2>2. Landing = 0
    BY <2>1, FS_EmptySet DEF Init, CommentsInit, Landing
  <2> QED
    BY <2>2 DEF Init, StatsInit, CommentsInit, Landed
<1>2. WorkOK /\ Landed /\ [Next]_vars => Landed'
  BY StepOfWork, LandedKept
<1>3. WorkOK /\ Landed => CommentsLand
  <2> SUFFICES ASSUME WorkOK, Landed PROVE CommentsLand
    OBVIOUS
  <2>1. /\ created \in Nat /\ published \in Nat /\ faults \in Nat
        /\ Cardinality(Queueing) \in Nat /\ Cardinality(Writing) \in Nat
    BY LandingCounted, FaultsType DEF WorkOK
  <2>2. created <= published + faults
    BY <2>1 DEF Landed, Landing
  <2>3. ASSUME CommentsAtRest, videos = Video PROVE created >= published
    <3>1. Queueing = {} /\ Writing = {}
      BY <2>3 DEF CommentsAtRest, Queueing, Places, Writing, Quiet
    <3>2. Landing = created
      BY <2>1, <3>1, FS_EmptySet DEF Landing
    <3> QED
      BY <2>3, <3>2 DEF Landed
  <2> QED
    BY <2>2, <2>3 DEF CommentsLand
<1> QED
  BY <1>1, <1>2, <1>3, WorkAlways, PTL DEF Spec

-----------------------------------------------------------------------------
(***************************************************************************)
(* What the last accepted request of an account for a video asked for is   *)
(* still to be done by the last event of that account and video that is    *)
(* queued; or, when none is queued, by the consumer that holds one and has *)
(* not written yet; or it is what the table holds.  One consumer and no    *)
(* redelivery keep the events of an account and video in their order.      *)
(***************************************************************************)
Unsaid(queue, k) == \A i \in DOMAIN queue : Key(queue[i]) # k

Said(queue, k, action) ==
    \E i \in DOMAIN queue :
       /\ Key(queue[i]) = k /\ queue[i].action = action
       /\ \A j \in DOMAIN queue : j > i => Key(queue[j]) # k

Held(job, k) == job.at = "row" /\ Key(job.event) = k

Asked(k, action) ==
    \/ Said(likeQueue, k, action)
    \/ /\ Unsaid(likeQueue, k)
       /\ \E w \in LikeConsumer : Held(likeJob[w], k) /\ likeJob[w].event.action = action
    \/ /\ Unsaid(likeQueue, k)
       /\ \A w \in LikeConsumer : ~Held(likeJob[w], k)
       /\ (action = "like") <=> (k \in likes)

LatestAsked ==
    \A k \in Account \X Video, action \in {"like", "unlike"} :
       k[2] \in videos /\ last[k] = action => Asked(k, action)

LatestKept == Undisturbed => LatestAsked

LEMMA AppendSays ==
  ASSUME NEW q \in Seq(LikeEvent), NEW e \in LikeEvent, NEW k, NEW action
  PROVE  /\ Key(e) = k /\ e.action = action => Said(Append(q, e), k, action)
         /\ Key(e) # k /\ Said(q, k, action) => Said(Append(q, e), k, action)
         /\ Key(e) # k /\ Unsaid(q, k) => Unsaid(Append(q, e), k)
<1>1. PICK r : r = Append(q, e)
  OBVIOUS
<1>2. /\ Len(q) \in Nat /\ DOMAIN q = 1 .. Len(q) /\ DOMAIN r = 1 .. Len(q) + 1
      /\ r[Len(q) + 1] = e /\ \A j \in DOMAIN q : r[j] = q[j]
  BY <1>1, Appended
<1>3. ASSUME Key(e) = k, e.action = action PROVE Said(r, k, action)
  BY <1>2, <1>3 DEF Said
<1>4. ASSUME Key(e) # k, Said(q, k, action) PROVE Said(r, k, action)
  <2>1. PICK i \in DOMAIN q :
           /\ Key(q[i]) = k /\ q[i].action = action
           /\ \A j \in DOMAIN q : j > i => Key(q[j]) # k
    BY <1>4 DEF Said
  <2>2. ASSUME NEW j \in DOMAIN r, j > i PROVE Key(r[j]) # k
    <3>1. j \in DOMAIN q \/ j = Len(q) + 1
      BY <1>2
    <3> QED
      BY <1>2, <1>4, <2>1, <2>2, <3>1
  <2>3. i \in DOMAIN r /\ r[i] = q[i]
    BY <1>2
  <2> QED
    BY <2>1, <2>2, <2>3 DEF Said
<1>5. ASSUME Key(e) # k, Unsaid(q, k) PROVE Unsaid(r, k)
  <2>1. ASSUME NEW j \in DOMAIN r PROVE Key(r[j]) # k
    <3>1. j \in DOMAIN q \/ j = Len(q) + 1
      BY <1>2
    <3> QED
      BY <1>2, <1>5, <3>1 DEF Unsaid
  <2> QED
    BY <2>1 DEF Unsaid
<1> QED
  BY <1>1, <1>3, <1>4, <1>5

LEMMA TailSays ==
  ASSUME NEW q \in Seq(LikeEvent), q # << >>, NEW k, NEW action
  PROVE  /\ Said(q, k, action) =>
              \/ Said(Tail(q), k, action)
              \/ Unsaid(Tail(q), k) /\ Key(Head(q)) = k /\ Head(q).action = action
         /\ Unsaid(q, k) => Unsaid(Tail(q), k) /\ Key(Head(q)) # k
<1>1. PICK r : r = Tail(q)
  OBVIOUS
<1>2. /\ Len(q) \in Nat \ {0} /\ DOMAIN q = 1 .. Len(q) /\ DOMAIN r = 1 .. Len(q) - 1
      /\ Head(q) = q[1] /\ \A j \in DOMAIN r : r[j] = q[j + 1]
  BY <1>1, Headed
<1>3. \A j \in DOMAIN r : j + 1 \in DOMAIN q
  BY <1>2
<1>4. ASSUME Said(q, k, action)
      PROVE  \/ Said(r, k, action)
             \/ Unsaid(r, k) /\ Key(Head(q)) = k /\ Head(q).action = action
  <2>1. PICK i \in DOMAIN q :
           /\ Key(q[i]) = k /\ q[i].action = action
           /\ \A j \in DOMAIN q : j > i => Key(q[j]) # k
    BY <1>4 DEF Said
  <2>2. CASE i = 1
    <3>1. \A j \in DOMAIN r : j + 1 > i
      BY <1>2, <2>2
    <3>2. Unsaid(r, k)
      BY <1>2, <1>3, <2>1, <3>1 DEF Unsaid
    <3> QED
      BY <1>2, <2>1, <2>2, <3>2
  <2>3. CASE i > 1
    <3>1. i - 1 \in DOMAIN r /\ (i - 1) + 1 = i
      BY <1>2, <2>3
    <3>2. r[i - 1] = q[i]
      BY <1>2, <3>1
    <3>3. \A j \in DOMAIN r : j > i - 1 => j + 1 > i
      BY <1>2
    <3>4. \A j \in DOMAIN r : j > i - 1 => Key(r[j]) # k
      BY <1>2, <1>3, <2>1, <3>3
    <3> QED
      BY <2>1, <3>1, <3>2, <3>4 DEF Said
  <2> QED
    BY <1>2, <2>2, <2>3
<1>5. ASSUME Unsaid(q, k) PROVE Unsaid(r, k) /\ Key(Head(q)) # k
  <2>1. 1 \in DOMAIN q
    BY <1>2
  <2> QED
    BY <1>2, <1>3, <1>5, <2>1 DEF Unsaid
<1> QED
  BY <1>1, <1>4, <1>5

(* Nothing that matters to k changes. *)
LEMMA AskedStays ==
  ASSUME NEW k, NEW action, Asked(k, action), likeQueue' = likeQueue,
         k \in likes' <=> k \in likes,
         \A w \in LikeConsumer :
            likeJob'[w] = likeJob[w] \/ (~Held(likeJob[w], k) /\ ~Held(likeJob'[w], k))
  PROVE  Asked(k, action)'
  BY DEF Asked

LEMMA LatestAskedKept ==
  ASSUME WorkOK, LikesStep, LikesThere, LatestAsked,
         UNCHANGED <<faults, publishFailures>>, NEW w, LikeConsumer = {w}
  PROVE  LatestAsked'
<1>0. /\ faults # faults + 1 /\ publishFailures # publishFailures + 1
      /\ LikesOK /\ likeQueue \in Seq(LikeEvent)
      /\ last \in [Account \X Video -> {"none", "like", "unlike"}]
  BY FaultsType DEF WorkOK, LikesOK, LikesTypeOK
<1> SUFFICES ASSUME NEW k \in Account \X Video, NEW action \in {"like", "unlike"},
                    k[2] \in videos', last'[k] = action
             PROVE  Asked(k, action)'
  BY DEF LatestAsked
<1>1. k[2] \in videos /\ last[k] = action => Asked(k, action)
  BY DEF LatestAsked
<1>2. ASSUME NEW c \in LikeCaller, Checking(c) PROVE Asked(k, action)'
  BY <1>1, <1>2, AskedStays DEF Checking, rowVars, otherVars
<1>3. ASSUME NEW c \in LikeCaller, NEW event \in LikeEvent, Publishing(c, event)
      PROVE  Asked(k, action)'
  <2>1. /\ likeQueue' = Append(likeQueue, event) /\ UNCHANGED <<likes, likeJob, videos>>
        /\ last' = [last EXCEPT ![Key(event)] = event.action]
        /\ Key(event) \in Account \X Video
    BY <1>3, EventOfLike DEF Publishing, Accept, rowVars, otherVars
  <2>2. CASE Key(event) = k
    <3>1. event.action = action
      BY <1>0, <2>1, <2>2
    <3>2. Said(Append(likeQueue, event), k, action)
      BY <1>0, <2>2, <3>1, AppendSays
    <3> QED
      BY <2>1, <3>2 DEF Asked
  <2>3. CASE Key(event) # k
    <3>1. Asked(k, action)
      BY <1>0, <1>1, <2>1, <2>3
    <3>2. /\ Said(likeQueue, k, action) => Said(likeQueue', k, action)
          /\ Unsaid(likeQueue, k) => Unsaid(likeQueue', k)
      BY <1>0, <2>1, <2>3, AppendSays
    <3> QED
      BY <2>1, <3>1, <3>2 DEF Asked
  <2> QED
    BY <2>2, <2>3
<1>4. ASSUME Delivering(w) PROVE Asked(k, action)'
  <2>1. /\ likeJob[w] = Idle /\ likeQueue # << >> /\ likeQueue' = Tail(likeQueue)
        /\ likeJob'[w] = IF Head(likeQueue).video \in videos
                         THEN [at |-> "row", event |-> Head(likeQueue)] ELSE Idle
        /\ UNCHANGED <<likes, last, videos>>
    BY <1>4 DEF Delivering, JobGoes, statVars, rowVars, otherVars
  <2>2. Asked(k, action) /\ ~Held(likeJob[w], k)
    BY <1>1, <2>1 DEF Held, Idle
  <2>3. CASE Said(likeQueue, k, action)
    <3>1. CASE Said(Tail(likeQueue), k, action)
      BY <2>1, <3>1 DEF Asked
    <3>2. CASE /\ Unsaid(Tail(likeQueue), k) /\ Key(Head(likeQueue)) = k
               /\ Head(likeQueue).action = action
      <4>1. Head(likeQueue).video \in videos
        BY <2>1, <3>2 DEF Key
      <4>2. Held(likeJob'[w], k) /\ likeJob'[w].event.action = action
        BY <2>1, <3>2, <4>1 DEF Held
      <4> QED
        BY <2>1, <3>2, <4>2 DEF Asked
    <3> QED
      BY <1>0, <2>1, <2>3, <3>1, <3>2, TailSays
  <2>4. CASE Unsaid(likeQueue, k) /\ ((action = "like") <=> (k \in likes))
    <3>1. Unsaid(Tail(likeQueue), k) /\ Key(Head(likeQueue)) # k
      BY <1>0, <2>1, <2>4, TailSays
    <3>2. ~Held(likeJob'[w], k)
      BY <2>1, <3>1 DEF Held, Idle
    <3> QED
      BY <2>1, <2>4, <3>1, <3>2 DEF Asked
  <2> QED
    BY <2>2, <2>3, <2>4 DEF Asked
<1>5. ASSUME NEW event \in LikeEvent, Applying(w, event) PROVE Asked(k, action)'
  <2>1. /\ likeJob[w].at = "row" /\ event = likeJob[w].event /\ likes' = LikesAfter(event)
        /\ likeJob'[w].at # "row" /\ UNCHANGED <<likeQueue, last, videos>>
    BY <1>5 DEF Applying, JobGoes, statVars, rowVars, otherVars
  <2>2. Asked(k, action) /\ ~Held(likeJob'[w], k)
    BY <1>1, <2>1 DEF Held
  <2>3. /\ k # Key(event) => (k \in likes' <=> k \in likes)
        /\ Key(event) \in likes' <=> event.action = "like"
    BY <2>1, EventOfLike
  <2>4. Held(likeJob[w], k) <=> k = Key(event)
    BY <2>1 DEF Held
  <2>5. CASE Said(likeQueue, k, action)
    BY <2>1, <2>5 DEF Asked
  <2>6. CASE Unsaid(likeQueue, k) /\ Held(likeJob[w], k) /\ likeJob[w].event.action = action
    BY <2>1, <2>2, <2>3, <2>4, <2>6 DEF Asked
  <2>7. CASE /\ Unsaid(likeQueue, k) /\ ~Held(likeJob[w], k)
             /\ (action = "like") <=> (k \in likes)
    BY <2>1, <2>2, <2>3, <2>4, <2>7 DEF Asked
  <2> QED
    BY <2>2, <2>5, <2>6, <2>7 DEF Asked
<1>6. ASSUME NEW event \in LikeEvent, CountingLike(w, event) \/ RatingLike(w, event)
      PROVE  Asked(k, action)'
  <2>1. /\ likeJob[w].at # "row" /\ likeJob'[w].at # "row"
        /\ UNCHANGED <<likeQueue, likes, last, videos>>
    BY <1>6 DEF CountingLike, RatingLike, JobGoes
  <2>2. ~Held(likeJob[w], k) /\ ~Held(likeJob'[w], k)
    BY <2>1 DEF Held
  <2> QED
    BY <1>1, <2>1, <2>2, AskedStays
<1>7. ASSUME Acking(w) PROVE Asked(k, action)'
  <2>1. /\ likeJob[w].at # "row" /\ likeJob'[w].at # "row"
        /\ UNCHANGED <<likeQueue, likes, last, videos>>
    BY <1>7 DEF Acking, JobGoes, Idle, statVars, rowVars, otherVars
  <2>2. ~Held(likeJob[w], k) /\ ~Held(likeJob'[w], k)
    BY <2>1 DEF Held
  <2> QED
    BY <1>1, <2>1, <2>2, AskedStays
<1>8. ASSUME NEW c \in LikeCaller, NEW event \in LikeEvent,
             WritingLike(c, event) \/ \E heated \in BOOLEAN : Failing(c, event, heated)
      PROVE  FALSE
  BY <1>0, <1>8 DEF LikesThere, WritingLike, Failing, PublishFails
<1>9. ASSUME NEW c \in LikeCaller, Refusing(c) PROVE FALSE
  BY <1>9 DEF LikesThere, Refusing
<1>10. ASSUME NEW x \in LikeConsumer, NEW event \in LikeEvent, Requeuing(x, event) PROVE FALSE
  BY <1>0, <1>10 DEF Requeuing
<1> QED
  BY <1>2, <1>3, <1>4, <1>5, <1>6, <1>7, <1>8, <1>9, <1>10 DEF LikesStep

LEMMA LatestStaysKept == WorkOK /\ WorkStep /\ Exact /\ LatestKept => LatestKept'
<1> SUFFICES ASSUME WorkOK, WorkStep, Exact, LatestKept, Undisturbed'
             PROVE  LatestAsked'
  BY DEF LatestKept
<1>1. /\ Undisturbed /\ UNCHANGED <<faults, publishFailures>>
      /\ LikesThere /\ LatestAsked
  BY StillUndisturbed DEF Exact, LatestKept
<1>2. CASE LikesStep
  <2>1. PICK w : LikeConsumer = {w}
    BY <1>1, OneLikeConsumer DEF Undisturbed
  <2> QED
    BY <1>1, <1>2, <2>1, LatestAskedKept
<1>3. CASE UNCHANGED likeVars
  <2>1. videos' \subseteq videos
    BY FollowedByStats, FollowedByLikes, FollowedByComments
       DEF WorkStep, WorkOK, StatsFollowed, LikesFollowed, CommentsFollowed, vars
  <2>2. UNCHANGED <<likes, likeQueue, likeJob, last>>
    BY <1>3 DEF likeVars
  <2>3. ASSUME NEW k \in Account \X Video, NEW action \in {"like", "unlike"},
               k[2] \in videos', last'[k] = action
        PROVE  Asked(k, action)'
    <3>1. Asked(k, action)
      BY <1>1, <2>1, <2>2, <2>3 DEF LatestAsked
    <3> QED
      BY <2>2, <3>1, AskedStays
  <2> QED
    BY <2>3 DEF LatestAsked
<1> QED
  BY <1>2, <1>3 DEF WorkStep, vars

(* With one worker, no redelivery and every publish accepted, an account    *)
(* has in the end what its last accepted request asked for, although Like   *)
(* and Unlike check rows that lag behind the queue (LikeService.Like and    *)
(* Unlike, LikeWorker).                                                     *)
THEOREM LatestRequestHolds == Spec => []LatestRequestWins
<1>1. Init => LatestKept
  BY DEF Init, LikesInit, LatestKept, LatestAsked
<1>2. WorkOK /\ Exact /\ LatestKept /\ [Next]_vars => LatestKept'
  BY StepOfWork, LatestStaysKept
<1>3. WorkOK /\ LatestKept => LatestRequestWins
  <2> SUFFICES ASSUME WorkOK, LatestKept, LikesAtRest, Undisturbed,
                      NEW a \in Account, NEW v \in videos, last[<<a, v>>] # "none"
               PROVE  (last[<<a, v>>] = "like") = (<<a, v>> \in likes)
    BY DEF LatestRequestWins
  <2>1. PICK k : k = <<a, v>>
    OBVIOUS
  <2>2. k \in Account \X Video /\ k[2] \in videos /\ last[k] \in {"like", "unlike"}
    BY <2>1 DEF WorkOK, LikesOK, LikesTypeOK, StatsOK, RowsOK
  <2>3. Asked(k, last[k])
    BY <2>2 DEF LatestKept, LatestAsked
  <2>4. likeQueue = << >> /\ \A w \in LikeConsumer : likeJob[w].at = "idle"
    BY DEF LikesAtRest, Idle
  <2>5. (last[k] = "like") <=> (k \in likes)
    BY <2>3, <2>4 DEF Asked, Said, Held
  <2> QED
    BY <2>1, <2>5
<1> QED
  BY <1>1, <1>2, <1>3, ExactAlways, PTL DEF Spec
=============================================================================
