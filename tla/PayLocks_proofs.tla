---------------------------- MODULE PayLocks_proofs ----------------------------
(***************************************************************************)
(* Why the merchant's transactions cannot wait for each other in a circle, *)
(* but for the gaps of missing rows: each locks its rows in the order of   *)
(* their rank, so in a circle the one that wants the row of highest rank   *)
(* would wait for one that wants a row of higher rank still.               *)
(***************************************************************************)
EXTENDS PayLocks, WellFoundedInduction, TLAPS

(* Orders, then wallets by account, then the book, then a video's rows *)
Rank(r) ==
    CASE r.table = "orders"           -> 0
      [] r.table = "wallets"          -> r.id
      [] r.table = "books"            -> MaxAccount + 1
      [] r.table = "video_gift_stats" -> MaxAccount + 2
      [] r.table = "videos"           -> MaxAccount + 3

Top == MaxAccount + 3

Ascending(locks) ==
    \A i, j \in 1 .. Len(locks) : i < j => Rank(locks[i]) < Rank(locks[j])

-----------------------------------------------------------------------------
(* A nonempty set of numbers up to B has a largest one. *)
LEMMA LargestNatural ==
    ASSUME NEW B \in Nat, NEW T, T \subseteq 0 .. B, T # {}
    PROVE  \E m \in T : \A n \in T : n <= m
<1> DEFINE D == {B - n : n \in T}
<1>1. \A n \in T : n \in 0 .. B /\ B - n \in Nat
  OBVIOUS
<1>2. D \subseteq Nat /\ D # {}
  BY <1>1
<1>3. \E x \in D : \A y \in D : <<y, x>> \notin OpToRel(<, Nat)
  <2> HIDE DEF D
  <2>1. IsWellFoundedOn(OpToRel(<, Nat), Nat)
    BY NatLessThanWellFounded
  <2> QED
    BY <1>2, <2>1, WFMin, Zenon
<1>4. PICK x \in D : \A y \in D : <<y, x>> \notin OpToRel(<, Nat)
  BY <1>3
<1>5. \A y \in D : ~(y < x)
  BY <1>2, <1>4 DEF OpToRel
<1>6. PICK m \in T : x = B - m
  OBVIOUS
<1>7. ASSUME NEW n \in T
      PROVE  n <= m
  <2>1. B - n \in D
    OBVIOUS
  <2>2. ~(B - n < B - m)
    BY <2>1, <1>5, <1>6
  <2> QED
    BY <2>2, <1>1
<1> QED
  BY <1>7

-----------------------------------------------------------------------------
LEMMA RankInRange == \A r \in Row : Rank(r) \in 0 .. Top
<1> SUFFICES ASSUME NEW r \in Row
             PROVE  Rank(r) \in 0 .. Top
  OBVIOUS
<1> USE PayLocksAssumption DEF Rank, Top
<1>1. CASE \E o \in Paper : r = OrderRow(o)
  BY <1>1 DEF OrderRow
<1>2. CASE \E a \in Account : r = WalletRow(a)
  BY <1>2 DEF WalletRow, Account
<1>3. CASE r = BookRow
  BY <1>3 DEF BookRow
<1>4. CASE \E v \in Video : r = StatRow(v)
  BY <1>4 DEF StatRow
<1>5. CASE \E v \in Video : r = VideoRow(v)
  BY <1>5 DEF VideoRow
<1> QED
  BY <1>1, <1>2, <1>3, <1>4, <1>5 DEF Row, Lazy

LEMMA RankOfRow ==
    /\ \A o \in Paper : OrderRow(o) \in Row /\ Rank(OrderRow(o)) = 0
    /\ \A a \in Account : WalletRow(a) \in Row /\ Rank(WalletRow(a)) = a
    /\ BookRow \in Row /\ Rank(BookRow) = MaxAccount + 1
    /\ \A v \in Video : StatRow(v) \in Row /\ Rank(StatRow(v)) = MaxAccount + 2
    /\ \A v \in Video : VideoRow(v) \in Row /\ Rank(VideoRow(v)) = MaxAccount + 3
BY DEF Row, Lazy, Rank, OrderRow, WalletRow, BookRow, StatRow, VideoRow

(* Each of the code's transactions locks rows of ascending rank. *)
LEMMA TransactionsAscend ==
    \A locks \in Transaction : locks \in Seq(Row) /\ Ascending(locks)
<1> SUFFICES ASSUME NEW locks \in Transaction
             PROVE  locks \in Seq(Row) /\ Ascending(locks)
  OBVIOUS
<1> USE PayLocksAssumption DEF Account
<1>1. CASE \E o \in Paper : locks \in {Credit(o), Reverse(o), PayWithdraw(o)}
  <2>1. PICK o \in Paper : locks = <<OrderRow(o), WalletRow(OwnerOf[o]), BookRow>>
    BY <1>1 DEF Credit, Reverse, PayWithdraw
  <2> DEFINE x == OrderRow(o)  y == WalletRow(OwnerOf[o])  z == BookRow
  <2>2. x \in Row /\ y \in Row /\ z \in Row /\ Rank(x) < Rank(y) /\ Rank(y) < Rank(z)
        /\ Rank(x) < Rank(z)
    BY RankOfRow
  <2> HIDE DEF x, y, z
  <2> QED
    BY <2>1, <2>2 DEF Ascending, x, y, z
<1>2. CASE \E o \in Paper : locks = MarkFailed(o)
  BY <1>2, RankOfRow DEF MarkFailed, Ascending
<1>3. CASE \E o \in Paper : locks = SettleOne(o)
  BY <1>3, RankOfRow DEF SettleOne, Ascending
<1>4. CASE \E a \in Account : locks = RequestWithdraw(a)
  BY <1>4, RankOfRow DEF RequestWithdraw, Ascending
<1>5. CASE \E p \in Gifts : locks = SendGift(p[1], p[2])
  <2>1. PICK a \in Account, v \in Video : a # AuthorOf[v] /\ locks = SendGift(a, v)
    BY <1>5 DEF Gifts
  <2>2. PICK b \in Account, c \in Account :
           b < c /\ LockPair(a, AuthorOf[v]) = <<WalletRow(b), WalletRow(c)>>
    BY <2>1 DEF LockPair
  <2>3. locks = <<WalletRow(b), WalletRow(c), StatRow(v), VideoRow(v)>>
    BY <2>1, <2>2 DEF SendGift
  <2> QED
    BY <2>2, <2>3, RankOfRow DEF Ascending
<1> QED
  BY <1>1, <1>2, <1>3, <1>4, <1>5 DEF Transaction

-----------------------------------------------------------------------------
TxType ==
    [locks : Seq(Row), next : Nat \ {0}, inserting : BOOLEAN,
     gaps : SUBSET Lazy, created : SUBSET Lazy]

Shape(r) ==
    /\ r \in TxType
    /\ r.next <= Len(r.locks) + 1
    /\ r.inserting => r.next <= Len(r.locks) /\ r.locks[r.next] \in r.gaps
    /\ Ascending(r.locks)

IInv ==
    /\ present \subseteq Lazy
    /\ tx \in [Tx -> TxType]
    /\ \A t \in Tx : Shape(tx[t])

LEMMA FreshShape ==
    ASSUME NEW locks \in Seq(Row), Ascending(locks)
    PROVE  Shape(Fresh(locks))
BY DEF Shape, TxType, Fresh

LEMMA IdleInShape == Shape(Idle)
<1>1. << >> \in Seq(Row) /\ Ascending(<< >>)
  BY DEF Ascending
<1> QED
  BY <1>1, FreshShape DEF Idle

(* A transaction that has got one more lock *)
LEMMA AdvanceShape ==
    ASSUME NEW q, Shape(q), q.next <= Len(q.locks),
           NEW r \in TxType, r.locks = q.locks, r.next = q.next + 1, ~r.inserting
    PROVE  Shape(r)
BY DEF Shape, TxType

(* A step that replaces one transaction by one of the right shape *)
LEMMA ReplaceOne ==
    ASSUME IInv, NEW t \in Tx, NEW r, Shape(r), tx' = [tx EXCEPT ![t] = r],
           present' \subseteq Lazy
    PROVE  IInv'
<1>1. tx' \in [Tx -> TxType]
  BY DEF IInv, Shape
<1>2. \A u \in Tx : tx'[u] = IF u = t THEN r ELSE tx[u]
  BY DEF IInv
<1>3. \A u \in Tx : Shape(tx'[u])
  BY <1>2 DEF IInv
<1> QED
  BY <1>1, <1>3 DEF IInv, Shape, Ascending, Rank

(***************************************************************************)
(* Every transaction holds and wants rows from a list of ascending rank.   *)
(***************************************************************************)
THEOREM LocksAscend == Spec => []IInv
<1>1. Init => IInv
  BY IdleInShape DEF Init, IInv, Shape
<1>2. IInv /\ [Next]_vars => IInv'
  <2> SUFFICES ASSUME IInv, [Next]_vars
               PROVE  IInv'
    OBVIOUS
  <2>1. ASSUME NEW t \in Tx, NEW locks \in Transaction, Begin(t, locks)
        PROVE  IInv'
    <3>1. Shape(Fresh(locks))
      BY TransactionsAscend, FreshShape
    <3> QED
      BY <2>1, <3>1, ReplaceOne DEF Begin, IInv
  <2>2. ASSUME NEW t \in Tx, Lock(t)
        PROVE  IInv'
    <3> DEFINE q == tx[t]
               r == [q EXCEPT !.next = @ + 1]
    <3>1. Shape(q) /\ q \in TxType /\ q.next <= Len(q.locks) /\ ~q.inserting
      BY <2>2 DEF Lock, Locking, IInv, Shape
    <3>2. r \in TxType /\ r.locks = q.locks /\ r.next = q.next + 1 /\ ~r.inserting
      BY <3>1 DEF TxType
    <3>3. Shape(r)
      BY <3>1, <3>2, AdvanceShape
    <3> QED
      BY <2>2, <3>3, ReplaceOne DEF Lock, IInv
  <2>3. ASSUME NEW t \in Tx, LockGap(t)
        PROVE  IInv'
    <3>1. Shape([tx[t] EXCEPT !.inserting = TRUE, !.gaps = @ \cup {Wanted(t)}])
      BY <2>3 DEF LockGap, Locking, Wanted, IInv, Shape, TxType
    <3> QED
      BY <2>3, <3>1, ReplaceOne DEF LockGap, IInv
  <2>4. ASSUME NEW t \in Tx, Insert(t)
        PROVE  IInv'
    <3>1. Wanted(t) \in Lazy
      BY <2>4 DEF Insert, Wanted, IInv, Shape, TxType
    <3> DEFINE q == tx[t]
               made == q.created \cup {Wanted(t)}
               r == [q EXCEPT !.inserting = FALSE, !.next = @ + 1, !.created = made]
    <3>2. Shape(q) /\ q \in TxType /\ q.next <= Len(q.locks)
      BY <2>4 DEF Insert, Locking, IInv, Shape
    <3>3. made \in SUBSET Lazy
      BY <3>1, <3>2 DEF TxType
    <3>4. r \in TxType /\ r.locks = q.locks /\ r.next = q.next + 1 /\ ~r.inserting
      <4>1. \A b \in BOOLEAN, n \in Nat \ {0}, m \in SUBSET Lazy :
               LET x == [q EXCEPT !.inserting = b, !.next = n, !.created = m]
               IN  x \in TxType /\ x.locks = q.locks /\ x.next = n /\ x.inserting = b
        BY <3>2 DEF TxType
      <4>2. q.next + 1 \in Nat \ {0}
        BY <3>2 DEF TxType
      <4> HIDE DEF made, q
      <4> QED
        BY <3>3, <4>1, <4>2, Zenon
    <3>5. Shape(r)
      BY <3>2, <3>4, AdvanceShape
    <3> QED
      BY <2>4, <3>1, <3>5, ReplaceOne DEF Insert, IInv
  <2>5. ASSUME NEW t \in Tx, Commit(t)
        PROVE  IInv'
    BY <2>5, IdleInShape, ReplaceOne DEF Commit, IInv
  <2>6. ASSUME NEW t \in Tx, Rollback(t)
        PROVE  IInv'
    BY <2>6, IdleInShape, ReplaceOne DEF Rollback, IInv
  <2>7. CASE UNCHANGED vars
    BY ZenonT(60), <2>7 DEF vars, IInv, Shape, Ascending, Rank
  <2> QED
    BY <2>1, <2>2, <2>3, <2>4, <2>5, <2>6, <2>7 DEF Next
<1> QED
  BY <1>1, <1>2, PTL DEF Spec

-----------------------------------------------------------------------------
(* Who waits for a lock wants a row of lower rank than its holder wants. *)
LEMMA HolderWantsHigher ==
    ASSUME IInv, NEW t \in Tx, NEW u \in Tx,
           Locking(u), Wanted(t) \in Held(u)
    PROVE  Rank(Wanted(t)) < Rank(Wanted(u))
<1>1. PICK i \in 1 .. tx[u].next - 1 : Wanted(t) = tx[u].locks[i]
  BY DEF Held
<1>2. tx[u].next \in 1 .. Len(tx[u].locks) /\ i \in 1 .. Len(tx[u].locks) /\ i < tx[u].next
  BY DEF IInv, Shape, TxType, Locking
<1> QED
  BY <1>1, <1>2 DEF IInv, Shape, Ascending, Wanted

LEMMA WantedRank ==
    ASSUME IInv, NEW t \in Tx, Locking(t)
    PROVE  Rank(Wanted(t)) \in 0 .. Top
<1>1. tx[t].locks \in Seq(Row) /\ tx[t].next \in 1 .. Len(tx[t].locks)
  BY DEF IInv, Shape, TxType, Locking
<1>2. Wanted(t) \in Row
  BY <1>1 DEF Wanted
<1> QED
  BY <1>2, RankInRange

LEMMA NoCircle == IInv => DeadlockOnlyAtFirstUse
<1> SUFFICES ASSUME IInv, NEW S \in SUBSET Tx, Stuck(S),
                    \A t \in S : ~tx[t].inserting
             PROVE  FALSE
  BY DEF DeadlockOnlyAtFirstUse
<1>1. \A t \in S : Locking(t) /\ \E u \in S : Wanted(t) \in Held(u)
  BY DEF Stuck, WaitsFor
<1> DEFINE Ranks == {Rank(Wanted(t)) : t \in S}
<1>2. Ranks \subseteq 0 .. Top /\ Ranks # {}
  BY <1>1, WantedRank DEF Stuck
<1>3. PICK m \in Ranks : \A n \in Ranks : n <= m
  <2>1. Top \in Nat
    BY PayLocksAssumption DEF Top
  <2> HIDE DEF Ranks
  <2> QED
    BY <1>2, <2>1, LargestNatural
<1>4. PICK t \in S : m = Rank(Wanted(t))
  OBVIOUS
<1>5. PICK u \in S : Wanted(t) \in Held(u)
  BY <1>1
<1>6. m < Rank(Wanted(u))
  BY <1>1, <1>4, <1>5, HolderWantsHigher
<1>7. Rank(Wanted(u)) <= m
  BY <1>3
<1>8. m \in Int /\ Rank(Wanted(u)) \in Int
  BY <1>1, <1>4, WantedRank
<1> QED
  BY <1>6, <1>7, <1>8

(***************************************************************************)
(* With any number of transactions, accounts, orders and videos, a circle  *)
(* of waiting transactions has one in it that is about to insert a wallet  *)
(* or the book.                                                            *)
(***************************************************************************)
THEOREM CirclesNeedFirstUse == Spec => []DeadlockOnlyAtFirstUse
BY LocksAscend, NoCircle, PTL
=============================================================================
