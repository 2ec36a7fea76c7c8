-------------------------------- MODULE PayLocks --------------------------------
(***************************************************************************)
(* The row locks of the merchant's transactions (pay/service.go, books.go, *)
(* gift.go), which the other modules of the books take to be one step      *)
(* each.  A transaction locks its rows one after the other, in an order    *)
(* the code fixes, and lets them go when it ends; on the way it may wait   *)
(* for another, which may wait for a third.                                *)
(*                                                                         *)
(* MySQL: SELECT ... FOR UPDATE of a wallet or of the platform's book that *)
(* does not exist locks the gap in which it would lie.  Gaps can be locked *)
(* by several at once, but while another holds its gap nobody inserts the  *)
(* row.  Of those that wait for each other in a circle MySQL rolls one     *)
(* back, and its request ends with an error.                               *)
(***************************************************************************)
EXTENDS Integers, Sequences

CONSTANTS
    Tx,                 \* transactions that can be active at once
    Paper,              \* pay_orders and withdraw_orders
    MaxAccount,         \* accounts are numbered from 1
    OwnerOf,            \* account of an order
    Video, AuthorOf     \* author of a video

Account == 1 .. MaxAccount

ASSUME PayLocksAssumption ==
    /\ MaxAccount \in Nat
    /\ OwnerOf \in [Paper -> Account]
    /\ AuthorOf \in [Video -> Account]

VARIABLES
    present,            \* wallets, and the book, that exist
    tx                  \* the active transactions

vars == <<present, tx>>

-----------------------------------------------------------------------------
OrderRow(o) == [table |-> "orders", id |-> o]
WalletRow(a) == [table |-> "wallets", id |-> a]
BookRow == [table |-> "books", id |-> 1]
StatRow(v) == [table |-> "video_gift_stats", id |-> v]
VideoRow(v) == [table |-> "videos", id |-> v]

(* Rows that lockWallet and lockBook insert when they are missing. *)
Lazy == {WalletRow(a) : a \in Account} \cup {BookRow}

Row == Lazy \cup {OrderRow(o) : o \in Paper}
            \cup {StatRow(v) : v \in Video} \cup {VideoRow(v) : v \in Video}

-----------------------------------------------------------------------------
(* What each transaction locks, in turn.  Rows that it inserts elsewhere   *)
(* have keys that nobody else inserts without one of these locks.          *)

Credit(o) == <<OrderRow(o), WalletRow(OwnerOf[o]), BookRow>>
MarkFailed(o) == <<OrderRow(o)>>
SettleOne(o) == <<OrderRow(o), BookRow>>
Reverse(o) == <<OrderRow(o), WalletRow(OwnerOf[o]), BookRow>>
RequestWithdraw(a) == <<WalletRow(a)>>
PayWithdraw(o) == <<OrderRow(o), WalletRow(OwnerOf[o]), BookRow>>

(* Mutant: the sender's wallet first. *)
SenderFirst(a, b) == <<WalletRow(a), WalletRow(b)>>

(* lockPair *)
LockPair(a, b) ==
    IF a < b THEN <<WalletRow(a), WalletRow(b)>> ELSE <<WalletRow(b), WalletRow(a)>>

SendGift(a, v) ==
    LET pair == LockPair(a, AuthorOf[v])
    IN  <<pair[1], pair[2], StatRow(v), VideoRow(v)>>

(* Nobody sends gifts to a video of their own. *)
Gifts == {p \in Account \X Video : p[1] # AuthorOf[p[2]]}

Transaction ==
    {Credit(o) : o \in Paper}
    \cup {MarkFailed(o) : o \in Paper}
    \cup {SettleOne(o) : o \in Paper}
    \cup {Reverse(o) : o \in Paper}
    \cup {RequestWithdraw(a) : a \in Account}
    \cup {PayWithdraw(o) : o \in Paper}
    \cup {SendGift(p[1], p[2]) : p \in Gifts}

-----------------------------------------------------------------------------
(* Locks wanted and, up to next, held; gaps locked; rows inserted. *)
Fresh(locks) ==
    [locks |-> locks, next |-> 1, inserting |-> FALSE, gaps |-> {}, created |-> {}]

Idle == Fresh(<< >>)

Locking(t) == tx[t].next <= Len(tx[t].locks)
Wanted(t) == tx[t].locks[tx[t].next]
Held(t) == {tx[t].locks[i] : i \in 1 .. tx[t].next - 1}

Begin(t, locks) ==
    /\ tx[t] = Idle
    /\ tx' = [tx EXCEPT ![t] = Fresh(locks)]
    /\ UNCHANGED present

(* FOR UPDATE of a row that exists, or that somebody has yet to commit *)
Lock(t) ==
    /\ Locking(t) /\ ~tx[t].inserting
    /\ Wanted(t) \in Lazy => Wanted(t) \in present
    /\ \A u \in Tx \ {t} : Wanted(t) \notin Held(u)
    /\ tx' = [tx EXCEPT ![t] = [tx[t] EXCEPT !.next = @ + 1]]
    /\ UNCHANGED present

(* ... and of one that does not *)
LockGap(t) ==
    /\ Locking(t) /\ ~tx[t].inserting
    /\ Wanted(t) \in Lazy \ present
    /\ tx' = [tx EXCEPT ![t] =
          [tx[t] EXCEPT !.inserting = TRUE, !.gaps = @ \cup {Wanted(t)}]]
    /\ UNCHANGED present

(* lockWallet and lockBook then create the row. *)
Insert(t) ==
    /\ Locking(t) /\ tx[t].inserting
    /\ \A u \in Tx \ {t} : Wanted(t) \notin tx[u].gaps
    /\ present' = present \cup {Wanted(t)}
    /\ tx' = [tx EXCEPT ![t] =
          [tx[t] EXCEPT !.inserting = FALSE, !.next = @ + 1, !.created = @ \cup {Wanted(t)}]]

(* At its end, or at an early return that is no error *)
Commit(t) ==
    /\ tx[t] # Idle
    /\ tx' = [tx EXCEPT ![t] = Idle]
    /\ UNCHANGED present

(* An error of the code's own, a timeout, or MySQL's choice of a victim *)
Rollback(t) ==
    /\ tx[t] # Idle
    /\ present' = present \ tx[t].created
    /\ tx' = [tx EXCEPT ![t] = Idle]

-----------------------------------------------------------------------------
Init ==
    /\ present = {}
    /\ tx = [t \in Tx |-> Idle]

Next ==
    \/ \E t \in Tx, locks \in Transaction : Begin(t, locks)
    \/ \E t \in Tx : Lock(t)
    \/ \E t \in Tx : LockGap(t)
    \/ \E t \in Tx : Insert(t)
    \/ \E t \in Tx : Commit(t)
    \/ \E t \in Tx : Rollback(t)

Spec == Init /\ [][Next]_vars

-----------------------------------------------------------------------------
(* A neighbour's gap may be the same as one's own. *)
WaitsFor(t, u) ==
    /\ t # u
    /\ Locking(t)
    /\ IF tx[t].inserting
       THEN \E g \in tx[u].gaps : g.table = Wanted(t).table
       ELSE Wanted(t) \in Held(u)

(* None of these goes on unless another one of them does. *)
Stuck(S) == S # {} /\ \A t \in S : \E u \in S : WaitsFor(t, u)

(***************************************************************************)
(* Transactions that wait for each other's rows never form a circle: every *)
(* one locks the order first, then wallets by account, then the book, then *)
(* the video's rows.  Only the first use of a wallet or of the book, which *)
(* waits for gaps that others hold too, can end in a deadlock (service.go  *)
(* lockWallet, books.go lockBook, gift.go lockPair).                       *)
(***************************************************************************)
DeadlockOnlyAtFirstUse ==
    \A S \in SUBSET Tx : Stuck(S) => \E t \in S : tx[t].inserting
=============================================================================
