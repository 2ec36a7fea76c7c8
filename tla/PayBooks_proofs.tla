---------------------------- MODULE PayBooks_proofs ----------------------------
(***************************************************************************)
(* Theorems about PayBooks, for every value of its constants.  The first   *)
(* part has the types, the wallets and what the merchant promises the      *)
(* owner of a wallet.  The second says what the payment tables add up to:  *)
(* the journal balances, the platform book is what the journal says and    *)
(* what was reversed, no diamonds are made or lost but by gifts and        *)
(* withdrawals, and the statistics of a receiver and the payouts of the    *)
(* book are the sums of the rows they stand for.                           *)
(***************************************************************************)
EXTENDS PayBooks, FiniteSetTheorems, TLAPS

(* The fee of a positive price is between one fen and the price. *)
LEMMA FeeBounds ==
    ASSUME NEW amount \in Nat \ {0}
    PROVE  /\ Fee(amount) \in Nat \ {0}
           /\ Fee(amount) <= amount
           /\ Net(amount) \in Nat
<1>1. (amount * 60) \div 10000 \in Nat
  OBVIOUS
<1> QED
  BY <1>1 DEF Fee, Net, FeeBps

(* What a sender pays and an author earns are natural numbers. *)
LEMMA CostIsNat ==
    ASSUME NEW gift \in Gift, NEW count \in GiftCount
    PROVE  /\ Cost(gift, count) \in Nat
           /\ Weight(gift, count) \in Nat
           /\ CreatorShare(Cost(gift, count)) \in Nat
<1>1. count \in Nat /\ GiftPrice[gift] \in Nat /\ GiftWeight[gift] \in Nat
  BY GiftAssumption
<1>2. \A m, n \in Nat : m * n \in Nat
  OBVIOUS
<1>3. Cost(gift, count) \in Nat /\ Weight(gift, count) \in Nat
  BY <1>1, <1>2 DEF Cost, Weight
<1>4. \A c \in Nat : (c * 5000) \div 10000 \in Nat
  OBVIOUS
<1> QED
  BY <1>3, <1>4 DEF CreatorShare, CreatorShareBps

LEMMA RowAmounts ==
    ASSUME NEW row \in PayOrder
    PROVE  /\ Amount(row) \in Nat \ {0}
           /\ Coins(row) \in Nat
  BY PackageAssumption DEF PayOrder, Amount, Coins

LEMMA EntryType ==
    ASSUME NEW direction \in {"credit", "debit"}, NEW amount \in Nat, NEW after \in Nat,
           NEW bizType \in BizType, NEW no \in BizNo
    PROVE  Entry(direction, amount, after, bizType, no) \in LedgerEntry
  BY DEF Entry, LedgerEntry

(* Appending a well-typed row keeps a ledger well typed. *)
LEMMA AppendType ==
    ASSUME NEW L \in [Account -> Seq(LedgerEntry)], NEW a \in Account, NEW e \in LedgerEntry
    PROVE  [L EXCEPT ![a] = Append(@, e)] \in [Account -> Seq(LedgerEntry)]
  OBVIOUS

(* The updates of the platform book keep it a record of integers. *)
LEMMA BookUpdates ==
    ASSUME NEW b \in PlatformBook
    PROVE  /\ \A p, f \in Int : [b EXCEPT !.pending = p, !.fee = f] \in PlatformBook
           /\ \A p, s \in Int : [b EXCEPT !.pending = p, !.settled = s] \in PlatformBook
           /\ \A p \in Int : [b EXCEPT !.payout = p] \in PlatformBook
           /\ \A s, p, f, r, c, h \in Int :
                 [b EXCEPT !.settled = s, !.pending = p, !.fee = f, !.refund = r,
                           !.chargeback = c, !.shortfall = h] \in PlatformBook
  BY DEF PlatformBook

LEMMA JournalRowsType ==
    ASSUME NEW amount \in Nat \ {0}
    PROVE  /\ PayRows(amount) \subseteq FiatJournal
           /\ SettleRows(amount) \subseteq FiatJournal
           /\ \A bizType \in {"refund", "chargeback"}, settled \in BOOLEAN :
                 ReverseRows(amount, bizType, settled) \subseteq FiatJournal
<1>1. amount \in Nat /\ Net(amount) \in Nat /\ Fee(amount) \in Nat
  BY FeeBounds
<1>2. \A account \in JournalAccount, direction \in {"debit", "credit"}, n \in Nat,
         bizType \in {"recharge", "settle", "refund", "chargeback"} :
         JournalRow(account, direction, n, bizType) \in FiatJournal
  BY DEF JournalRow, FiatJournal
<1> QED
  BY <1>1, <1>2 DEF PayRows, SettleRows, ReverseRows, JournalAccount

LEMMA PostFiatType ==
    ASSUME NEW rows \in SUBSET FiatJournal, NEW new \in SUBSET FiatJournal
    PROVE  PostFiat(rows, new) \in SUBSET FiatJournal
  BY DEF PostFiat

(***************************************************************************)
(* Type correctness.  It includes that no balance is ever negative.        *)
(***************************************************************************)
LEMMA InitType == Init => TypeOK
  BY DEF Init, TypeOK, LedgerInit, LedgerTypeOK, OrdersInit, OrdersTypeOK,
         GiftsInit, GiftsTypeOK, PlatformBook, VideoStat

LEMMA OrderPresent ==
    ASSUME TypeOK, NEW o \in Order, order[o].status \in Status
    PROVE  order[o] \in PayOrder
<1>1. order[o] \in PayOrder \cup {NoOrder}
  BY DEF TypeOK, OrdersTypeOK
<1>2. order[o] # NoOrder
  BY DEF NoOrder, Status, OpenStatus
<1> QED
  BY <1>1, <1>2

LEMMA CreateRechargeType ==
    ASSUME TypeOK, NEW a \in Account, NEW k \in Key, NEW p \in Package, NEW ch \in Channel,
           CreateRecharge(a, k, p, ch), UNCHANGED giftVars
    PROVE  TypeOK'
<1> USE DEF TypeOK, LedgerTypeOK, OrdersTypeOK, GiftsTypeOK, walletVars, ledgerVars, giftVars
<1>1. order' \in [Order -> PayOrder \cup {NoOrder}]
  BY DEF CreateRecharge, PayOrder, Status, OpenStatus, SettleStatus
<1> QED
  BY <1>1 DEF CreateRecharge

LEMMA StatusStepType ==
    ASSUME TypeOK, NEW o \in Order,
           \/ Expire(o)
           \/ CloseIfExpired(o)
           \/ \E cb \in Callback : cb.order = o /\ MarkFailed(cb),
           UNCHANGED giftVars
    PROVE  TypeOK'
<1> USE DEF TypeOK, LedgerTypeOK, OrdersTypeOK, GiftsTypeOK, walletVars, ledgerVars, giftVars
<1>1. CASE Expire(o)
  BY <1>1 DEF Expire
<1>2. CASE CloseIfExpired(o)
  <2>1. order[o] \in PayOrder
    BY <1>2, OrderPresent DEF CloseIfExpired, Status
  <2>2. order' \in [Order -> PayOrder \cup {NoOrder}]
    BY <1>2, <2>1 DEF CloseIfExpired, PayOrder, Status
  <2> QED
    BY <1>2, <2>2 DEF CloseIfExpired
<1>3. CASE \E cb \in Callback : cb.order = o /\ MarkFailed(cb)
  <2>1. PICK cb \in Callback : cb.order = o /\ MarkFailed(cb)
    BY <1>3
  <2>2. order[o] \in PayOrder
    BY <2>1, OrderPresent DEF MarkFailed, Status
  <2>3. order' \in [Order -> PayOrder \cup {NoOrder}]
    BY <2>1, <2>2 DEF MarkFailed, PayOrder, Status
  <2> QED
    BY <2>1, <2>3 DEF MarkFailed
<1> QED
  BY <1>1, <1>2, <1>3

LEMMA LogCallbackType ==
    ASSUME NEW log \in SUBSET CallbackLog, NEW cb \in Callback
    PROVE  LogCallback(log, cb) \in SUBSET CallbackLog
<1>1. [channel |-> cb.channel, trade |-> cb.trade, order |-> cb.order] \in CallbackLog
  BY DEF Callback, CallbackLog
<1> QED
  BY <1>1 DEF LogCallback

LEMMA CreditType ==
    ASSUME TypeOK, NEW cb \in Callback, Credit(cb), UNCHANGED giftVars
    PROVE  TypeOK'
<1> USE DEF TypeOK, LedgerTypeOK, OrdersTypeOK, GiftsTypeOK, walletVars, ledgerVars, giftVars
<1> DEFINE o == cb.order
           row == order[o]
           a == row.account
           next == coinAvailable[a] + Coins(row)
<1>1. o \in Order /\ cb.trade \in Trade /\ cb.channel \in Channel
  BY DEF Callback
<1>2. row \in PayOrder
  BY <1>1, OrderPresent DEF Credit, Status
<1>3. /\ a \in Account
      /\ Coins(row) \in Nat
      /\ Amount(row) \in Nat \ {0}
      /\ next \in Nat
  <2>1. a \in Account
    BY <1>2 DEF PayOrder
  <2>2. Coins(row) \in Nat /\ Amount(row) \in Nat \ {0}
    BY <1>2, RowAmounts
  <2> QED
    BY <2>1, <2>2
<1>4. order' \in [Order -> PayOrder \cup {NoOrder}]
  <2>1. \A late \in BOOLEAN :
           [row EXCEPT !.status = "paid", !.trade = cb.trade, !.settle = "pending",
                       !.paidAfterClose = late] \in PayOrder
    BY <1>1, <1>2 DEF PayOrder, Status, SettleStatus
  <2>2. order' = [order EXCEPT ![o] =
            [row EXCEPT !.status = "paid", !.trade = cb.trade, !.settle = "pending",
                        !.paidAfterClose = (row.status = "closed")]]
    BY <1>1 DEF Credit
  <2> QED
    BY <1>1, <2>1, <2>2
<1>5. coinAvailable' \in [Account -> Nat]
  BY <1>3 DEF Credit
<1>6. coinLedger' \in [Account -> Seq(LedgerEntry)]
  <2>1. Entry("credit", Coins(row), next, "recharge", o) \in LedgerEntry
    BY <1>1, <1>3, EntryType DEF BizType, BizNo
  <2> QED
    BY <1>3, <2>1, AppendType DEF Credit
<1>7. journal' \in [Order -> SUBSET FiatJournal]
  <2>1. PostFiat(journal[o], PayRows(Amount(row))) \in SUBSET FiatJournal
    BY <1>1, <1>3, JournalRowsType, PostFiatType
  <2> QED
    BY <1>1, <2>1 DEF Credit
<1>8. book' \in PlatformBook
  <2>1. book' = [book EXCEPT !.pending = @ + Net(Amount(row)), !.fee = @ + Fee(Amount(row))]
    BY DEF Credit
  <2>2. Net(Amount(row)) \in Int /\ Fee(Amount(row)) \in Int
    BY <1>3, FeeBounds
  <2>3. /\ book \in PlatformBook
        /\ book.pending + Net(Amount(row)) \in Int
        /\ book.fee + Fee(Amount(row)) \in Int
    BY <2>2 DEF PlatformBook
  <2> QED
    BY <2>1, <2>3, BookUpdates
<1>9. callbackLog' \subseteq CallbackLog
  <2>1. callbackLog' = LogCallback(callbackLog, cb)
    BY DEF Credit
  <2> QED
    BY <2>1, LogCallbackType
<1> QED
  BY <1>4, <1>5, <1>6, <1>7, <1>8, <1>9 DEF Credit

LEMMA SettleType ==
    ASSUME TypeOK, NEW o \in Order, SettleOne(o), UNCHANGED giftVars
    PROVE  TypeOK'
<1> USE DEF TypeOK, LedgerTypeOK, OrdersTypeOK, GiftsTypeOK, walletVars, ledgerVars, giftVars
<1> DEFINE row == order[o]
           n == Net(Amount(row))
<1>1. row \in PayOrder
  BY OrderPresent DEF SettleOne, Status
<1>2. Amount(row) \in Nat \ {0}
  BY <1>1, RowAmounts
<1>3. order' \in [Order -> PayOrder \cup {NoOrder}]
  <2>1. [row EXCEPT !.settle = "settled", !.settleAt = TRUE] \in PayOrder
    BY <1>1 DEF PayOrder, SettleStatus
  <2> QED
    BY <2>1 DEF SettleOne
<1>4. journal' \in [Order -> SUBSET FiatJournal]
  <2>1. PostFiat(journal[o], SettleRows(Amount(row))) \in SUBSET FiatJournal
    BY <1>2, JournalRowsType, PostFiatType
  <2> QED
    BY <2>1 DEF SettleOne
<1>5. book' \in PlatformBook
  <2>1. book' = [book EXCEPT !.pending = @ - n, !.settled = @ + n]
    BY DEF SettleOne
  <2>2. n \in Int
    BY <1>2, FeeBounds
  <2>3. /\ book \in PlatformBook
        /\ book.pending - n \in Int
        /\ book.settled + n \in Int
    BY <2>2 DEF PlatformBook
  <2> QED
    BY <2>1, <2>3, BookUpdates
<1> QED
  BY <1>3, <1>4, <1>5 DEF SettleOne

LEMMA ReverseType ==
    ASSUME TypeOK, NEW o \in Order, UNCHANGED giftVars,
           Refund(o) \/ Chargeback(o)
    PROVE  TypeOK'
<1> USE DEF TypeOK, LedgerTypeOK, OrdersTypeOK, GiftsTypeOK, walletVars, ledgerVars, giftVars
<1>1. PICK bizType \in {"refund", "chargeback"}, nextStatus \in {"refunded", "chargeback"} :
          Reverse(o, bizType, nextStatus)
  BY DEF Refund, Chargeback
<1> DEFINE row == order[o]
           a == row.account
           held == coinAvailable[a]
           claw == IF held < Coins(row) THEN held ELSE Coins(row)
           n == Net(Amount(row))
<1>2. row \in PayOrder
  BY <1>1, OrderPresent DEF Reverse, Status
<1>3. a \in Account
  BY <1>2 DEF PayOrder
<1>4. Coins(row) \in Nat /\ Amount(row) \in Nat \ {0}
  BY <1>2, RowAmounts
<1>5. held \in Nat /\ claw \in Nat /\ held - claw \in Nat /\ Coins(row) - claw \in Nat
  BY <1>3, <1>4
<1>6. order' \in [Order -> PayOrder \cup {NoOrder}]
  <2>1. [row EXCEPT !.status = nextStatus, !.settle = nextStatus] \in PayOrder
    BY <1>2 DEF PayOrder, Status, SettleStatus
  <2> QED
    BY <1>1, <2>1 DEF Reverse
<1>7. coinAvailable' \in [Account -> Nat]
  <2>1. coinAvailable' = [coinAvailable EXCEPT ![a] = held - claw]
    BY <1>1 DEF Reverse
  <2> QED
    BY <1>5, <2>1
<1>8. coinLedger' \in [Account -> Seq(LedgerEntry)]
  <2> DEFINE e == Entry("debit", claw, held - claw, bizType, o)
  <2>1. e \in LedgerEntry
    <3>1. bizType \in BizType
      BY DEF BizType
    <3>2. o \in BizNo
      BY DEF BizNo
    <3>3. \A taken, left \in Nat : Entry("debit", taken, left, bizType, o) \in LedgerEntry
      BY <3>1, <3>2, EntryType
    <3> QED
      BY <1>5, <3>3
  <2>2. CASE claw = 0
    BY <1>1, <2>2 DEF Reverse
  <2>3. CASE claw # 0
    <3>1. coinLedger' = [coinLedger EXCEPT ![a] = Append(@, e)]
      BY <1>1, <2>3 DEF Reverse
    <3>2. coinLedger \in [Account -> Seq(LedgerEntry)]
      OBVIOUS
    <3>3. [coinLedger EXCEPT ![a] = Append(@, e)] \in [Account -> Seq(LedgerEntry)]
      BY <1>3, <2>1, <3>2, AppendType
    <3> QED
      BY <3>1, <3>3
  <2> QED
    BY <2>2, <2>3
<1>9. journal' \in [Order -> SUBSET FiatJournal]
  <2>1. PostFiat(journal[o], ReverseRows(Amount(row), bizType, row.settle = "settled"))
          \in SUBSET FiatJournal
    <3>1. (row.settle = "settled") \in BOOLEAN
      OBVIOUS
    <3>2. ReverseRows(Amount(row), bizType, row.settle = "settled") \in SUBSET FiatJournal
      BY <1>4, <3>1, JournalRowsType
    <3> QED
      BY <3>2, PostFiatType
  <2>2. journal' = [journal EXCEPT ![o] =
            PostFiat(@, ReverseRows(Amount(row), bizType, row.settle = "settled"))]
    BY <1>1 DEF Reverse
  <2> QED
    BY <2>1, <2>2
<1>10. book' \in PlatformBook
  <2>1. n \in Int /\ Fee(Amount(row)) \in Int /\ Amount(row) \in Int
    BY <1>4, FeeBounds
  <2>2. /\ book \in PlatformBook
        /\ book.settled \in Int /\ book.pending \in Int /\ book.fee \in Int
        /\ book.refund \in Int /\ book.chargeback \in Int /\ book.shortfall \in Int
    BY DEF PlatformBook
  <2> DEFINE s == IF row.settle = "settled" THEN book.settled - n ELSE book.settled
             p == IF row.settle = "settled" THEN book.pending ELSE book.pending - n
             f == book.fee - Fee(Amount(row))
             r == IF bizType = "refund" THEN book.refund + Amount(row) ELSE book.refund
             c == IF bizType = "refund" THEN book.chargeback
                  ELSE book.chargeback + Amount(row)
             h == book.shortfall + (Coins(row) - claw)
  <2>3. s \in Int /\ p \in Int /\ f \in Int
    BY <2>1, <2>2
  <2>4. r \in Int /\ c \in Int
    BY <2>1, <2>2
  <2>5. h \in Int
    BY <1>5, <2>2
  <2>6. book' = [book EXCEPT !.settled = s, !.pending = p, !.fee = f, !.refund = r,
                             !.chargeback = c, !.shortfall = h]
    BY <1>1 DEF Reverse
  <2> HIDE DEF s, p, f, r, c, h
  <2> QED
    BY <2>2, <2>3, <2>4, <2>5, <2>6, BookUpdates
<1> QED
  BY <1>1, <1>6, <1>7, <1>8, <1>9, <1>10 DEF Reverse

LEMMA SendGiftType ==
    ASSUME TypeOK, NEW s \in Account, NEW k \in Key, NEW v \in Video, NEW gift \in Gift,
           NEW count \in GiftCount, SendGift(s, k, v, gift, count), UNCHANGED orderVars
    PROVE  TypeOK'
<1> USE DEF TypeOK, LedgerTypeOK, OrdersTypeOK, GiftsTypeOK, walletVars, ledgerVars, orderVars
<1> DEFINE receiver == AuthorOf[v]
           cost == Cost(gift, count)
           diamonds == CreatorShare(cost)
           weight == Weight(gift, count)
           coinLeft == coinAvailable[s] - cost
           credited == diamondAvailable[receiver] + diamonds
<1>1. receiver \in Account
  BY GiftAssumption
<1>2. cost \in Nat /\ weight \in Nat /\ diamonds \in Nat
  BY CostIsNat
<1>3. coinLeft \in Nat
  BY <1>2 DEF SendGift
<1>4. credited \in Nat
  BY SMTT(60), <1>1, <1>2
<1>5. PICK g \in GiftNo :
        /\ giftOrder' = [giftOrder EXCEPT ![g] =
              [sender |-> s, key |-> k, video |-> v, gift |-> gift,
               count |-> count, coinCost |-> cost, diamondCredit |-> diamonds]]
        /\ coinAvailable' = [coinAvailable EXCEPT ![s] = coinLeft]
        /\ diamondAvailable' = [diamondAvailable EXCEPT ![receiver] = credited]
        /\ coinLedger' = [coinLedger EXCEPT ![s] =
              Append(@, Entry("debit", cost, coinLeft, "gift_send", g))]
        /\ diamondLedger' = [diamondLedger EXCEPT ![receiver] =
              IF diamonds = 0 THEN @
              ELSE Append(@, Entry("credit", diamonds, credited, "gift_receive", g))]
        /\ heatDue' = IF weight > 0 THEN heatDue \cup {g} ELSE heatDue
  BY DEF SendGift
<1>6. giftOrder' \in [GiftNo -> GiftOrder \cup {NoGift}]
  <2>1. [sender |-> s, key |-> k, video |-> v, gift |-> gift,
         count |-> count, coinCost |-> cost, diamondCredit |-> diamonds] \in GiftOrder
    BY <1>2 DEF GiftOrder
  <2> QED
    BY <1>5, <2>1
<1>7. coinAvailable' \in [Account -> Nat]
  BY <1>3, <1>5
<1>8. diamondAvailable' \in [Account -> Nat]
  BY <1>4, <1>5
<1>9. coinLedger' \in [Account -> Seq(LedgerEntry)]
  <2> DEFINE e == Entry("debit", cost, coinLeft, "gift_send", g)
  <2>1. "gift_send" \in BizType /\ g \in BizNo
    BY DEF BizType, BizNo
  <2>2. \A paid, left \in Nat : Entry("debit", paid, left, "gift_send", g) \in LedgerEntry
    BY <2>1, EntryType
  <2>3. e \in LedgerEntry
    BY <1>2, <1>3, <2>2
  <2>4. coinLedger' = [coinLedger EXCEPT ![s] = Append(@, e)]
    BY <1>5
  <2> QED
    BY <2>3, <2>4, AppendType
<1>10. diamondLedger' \in [Account -> Seq(LedgerEntry)]
  <2> DEFINE e == Entry("credit", diamonds, credited, "gift_receive", g)
  <2>1. "gift_receive" \in BizType /\ g \in BizNo
    BY DEF BizType, BizNo
  <2>2. \A earned, held \in Nat :
           Entry("credit", earned, held, "gift_receive", g) \in LedgerEntry
    BY <2>1, EntryType
  <2>3. e \in LedgerEntry
    BY <1>2, <1>4, <2>2
  <2>4. CASE diamonds = 0
    BY <1>5, <2>4
  <2>5. CASE diamonds # 0
    <3>1. diamondLedger' = [diamondLedger EXCEPT ![receiver] = Append(@, e)]
      BY <1>5, <2>5
    <3>2. [diamondLedger EXCEPT ![receiver] = Append(@, e)] \in [Account -> Seq(LedgerEntry)]
      BY <1>1, <2>3, AppendType
    <3> QED
      BY <3>1, <3>2
  <2> QED
    BY <2>4, <2>5
<1>11. videoStat' \in [Video -> VideoStat]
  <2>1. /\ videoStat[v].count \in Nat
        /\ videoStat[v].coins \in Nat
        /\ videoStat[v].popularity \in Nat
    BY DEF VideoStat
  <2> HIDE DEF cost, weight
  <2>2. /\ videoStat[v].count + count \in Nat
        /\ videoStat[v].coins + cost \in Nat
        /\ videoStat[v].popularity + weight \in Nat
    <3>1. count \in Nat
      BY GiftAssumption
    <3>2. \A m, n \in Nat : m + n \in Nat
      OBVIOUS
    <3> QED
      BY <1>2, <2>1, <3>1, <3>2, Zenon
  <2> USE DEF cost, weight
  <2>3. videoStat' = [videoStat EXCEPT ![v] =
            [count |-> @.count + count, coins |-> @.coins + cost,
             popularity |-> @.popularity + weight]]
    BY DEF SendGift, AddToStat
  <2> HIDE DEF cost, weight
  <2> QED
    BY <2>2, <2>3 DEF VideoStat
<1>12. heatDue' \subseteq GiftNo
  BY <1>5
<1> QED
  BY <1>6, <1>7, <1>8, <1>9, <1>10, <1>11, <1>12 DEF SendGift

LEMMA HeatType ==
    ASSUME TypeOK, NEW g \in GiftNo, PublishHeat(g) \/ LoseHeat(g), UNCHANGED orderVars
    PROVE  TypeOK'
  BY DEF PublishHeat, LoseHeat, TypeOK, LedgerTypeOK, OrdersTypeOK, GiftsTypeOK,
         walletVars, ledgerVars, orderVars

LEMMA RequestWithdrawType ==
    ASSUME TypeOK, NEW a \in Account, NEW diamonds \in WithdrawAmount,
           RequestWithdraw(a, diamonds), UNCHANGED orderVars
    PROVE  TypeOK'
<1> USE DEF TypeOK, LedgerTypeOK, OrdersTypeOK, GiftsTypeOK, walletVars, ledgerVars, orderVars
<1>1. diamonds \in Nat
  BY GiftAssumption
<1>2. diamondAvailable' \in [Account -> Nat] /\ diamondFrozen' \in [Account -> Nat]
  BY <1>1 DEF RequestWithdraw
<1>3. withdrawOrder' \in [WithdrawNo -> WithdrawOrder \cup {NoWithdraw}]
  BY <1>1 DEF RequestWithdraw, WithdrawOrder
<1> QED
  BY <1>2, <1>3 DEF RequestWithdraw

LEMMA PayWithdrawType ==
    ASSUME TypeOK, NEW w \in WithdrawNo, PayWithdraw(w), UNCHANGED orderVars
    PROVE  TypeOK'
<1> USE DEF TypeOK, LedgerTypeOK, OrdersTypeOK, GiftsTypeOK, walletVars, ledgerVars, orderVars
<1> DEFINE row == withdrawOrder[w]
           a == row.account
<1>1. row \in WithdrawOrder
  BY DEF PayWithdraw, NoWithdraw
<1>2. a \in Account /\ row.diamonds \in Nat
  BY <1>1 DEF WithdrawOrder
<1> DEFINE paid == [row EXCEPT !.status = "paid"]
           failed == [row EXCEPT !.status = "failed"]
<1>5. paid \in WithdrawOrder /\ failed \in WithdrawOrder
  BY <1>1 DEF WithdrawOrder
<1>3. CASE diamondFrozen[a] < row.diamonds
  <2>1. withdrawOrder' \in [WithdrawNo -> WithdrawOrder \cup {NoWithdraw}]
    <3>1. withdrawOrder' = [withdrawOrder EXCEPT ![w] = failed]
      BY <1>3 DEF PayWithdraw
    <3> HIDE DEF failed
    <3> QED
      BY <1>5, <3>1
  <2> QED
    BY <1>3, <2>1 DEF PayWithdraw
<1>4. CASE ~(diamondFrozen[a] < row.diamonds)
  <2> DEFINE e == Entry("debit", row.diamonds, diamondAvailable[a], "withdraw", w)
  <2>1. withdrawOrder' \in [WithdrawNo -> WithdrawOrder \cup {NoWithdraw}]
    <3>1. withdrawOrder' = [withdrawOrder EXCEPT ![w] = paid]
      BY <1>4 DEF PayWithdraw
    <3> HIDE DEF paid
    <3> QED
      BY <1>5, <3>1
  <2>2. diamondFrozen' \in [Account -> Nat]
    <3>1. diamondFrozen' = [diamondFrozen EXCEPT ![a] = @ - row.diamonds]
      BY <1>4 DEF PayWithdraw
    <3>2. diamondFrozen[a] - row.diamonds \in Nat
      BY <1>2, <1>4
    <3> HIDE DEF a
    <3> QED
      BY <3>1, <3>2
  <2>3. diamondLedger' \in [Account -> Seq(LedgerEntry)]
    <3>1. "withdraw" \in BizType /\ w \in BizNo
      BY DEF BizType, BizNo
    <3>2. \A taken, left \in Nat : Entry("debit", taken, left, "withdraw", w) \in LedgerEntry
      BY <3>1, EntryType
    <3>3. e \in LedgerEntry
      BY <1>2, <3>2
    <3>4. diamondLedger' = [diamondLedger EXCEPT ![a] = Append(@, e)]
      BY <1>4 DEF PayWithdraw
    <3> QED
      BY <1>2, <3>3, <3>4, AppendType
  <2>4. book' \in PlatformBook
    <3> DEFINE fen == row.diamonds * DiamondFenRate
    <3>1. book' = [book EXCEPT !.payout = @ + fen]
      BY <1>4 DEF PayWithdraw
    <3>2. fen \in Nat
      BY <1>2 DEF DiamondFenRate
    <3> HIDE DEF fen
    <3>3. book.payout + fen \in Int
      BY <3>2 DEF PlatformBook
    <3> QED
      BY <3>1, <3>3, BookUpdates
  <2> QED
    BY <1>4, <2>1, <2>2, <2>3, <2>4 DEF PayWithdraw
<1> QED
  BY <1>3, <1>4

LEMMA NextType == TypeOK /\ [Next]_vars => TypeOK'
<1> SUFFICES ASSUME TypeOK, [Next]_vars PROVE TypeOK'
  OBVIOUS
<1>1. CASE UNCHANGED vars
  BY <1>1 DEF vars, TypeOK, LedgerTypeOK, OrdersTypeOK, GiftsTypeOK, walletVars, ledgerVars,
         orderVars, giftVars
<1>2. ASSUME NEW a \in Account, NEW k \in Key, NEW p \in Package, NEW ch \in Channel,
             CreateRecharge(a, k, p, ch) /\ UNCHANGED giftVars
      PROVE  TypeOK'
  BY <1>2, CreateRechargeType
<1>3. ASSUME NEW o \in Order, (Expire(o) \/ CloseIfExpired(o)) /\ UNCHANGED giftVars
      PROVE  TypeOK'
  BY <1>3, StatusStepType
<1>4. ASSUME NEW cb \in Callback, MarkFailed(cb) /\ UNCHANGED giftVars
      PROVE  TypeOK'
  <2>1. cb.order \in Order
    BY DEF Callback
  <2> QED
    BY <1>4, <2>1, StatusStepType
<1>5. ASSUME NEW cb \in Callback, Credit(cb) /\ UNCHANGED giftVars
      PROVE  TypeOK'
  BY <1>5, CreditType
<1>6. ASSUME NEW o \in Order, SettleOne(o) /\ UNCHANGED giftVars
      PROVE  TypeOK'
  BY <1>6, SettleType
<1>7. ASSUME NEW o \in Order, (Refund(o) \/ Chargeback(o)) /\ UNCHANGED giftVars
      PROVE  TypeOK'
  BY <1>7, ReverseType
<1>8. ASSUME NEW s \in Account, NEW k \in Key, NEW v \in Video, NEW gift \in Gift,
             NEW count \in GiftCount, SendGift(s, k, v, gift, count) /\ UNCHANGED orderVars
      PROVE  TypeOK'
  BY <1>8, SendGiftType
<1>9. ASSUME NEW g \in GiftNo, (PublishHeat(g) \/ LoseHeat(g)) /\ UNCHANGED orderVars
      PROVE  TypeOK'
  BY <1>9, HeatType
<1>10. ASSUME NEW a \in Account, NEW diamonds \in WithdrawAmount,
              RequestWithdraw(a, diamonds) /\ UNCHANGED orderVars
       PROVE  TypeOK'
  BY <1>10, RequestWithdrawType
<1>11. ASSUME NEW w \in WithdrawNo, PayWithdraw(w) /\ UNCHANGED orderVars
       PROVE  TypeOK'
  BY <1>11, PayWithdrawType
<1> QED
  BY <1>1, <1>2, <1>3, <1>4, <1>5, <1>6, <1>7, <1>8, <1>9, <1>10, <1>11 DEF Next

(***************************************************************************)
(* Every wallet column is a natural number and every row has its type, in  *)
(* every reachable state: no recharge, refund, chargeback, gift or         *)
(* withdrawal of pay/ ever drives a balance below zero.                    *)
(***************************************************************************)
THEOREM TypeCorrect == Spec => []TypeOK
  BY InitType, NextType, PTL DEF Spec

-----------------------------------------------------------------------------
(* Coins and the coin ledger *)

(* A transaction that posts entry e on the coin wallet of account a. *)
PostsCoins(a, e) ==
    /\ e.balanceAfter = coinAvailable[a] + Signed(e)
    /\ coinAvailable' = [coinAvailable EXCEPT ![a] = e.balanceAfter]
    /\ coinLedger' = [coinLedger EXCEPT ![a] = Append(@, e)]

(* The three transactions that move coins, as the entries they post. *)
LEMMA CreditPosts ==
    ASSUME TypeOK, NEW cb \in Callback, Credit(cb)
    PROVE  \E a \in Account, e \in LedgerEntry :
              /\ PostsCoins(a, e)
              /\ a = order[cb.order].account
              /\ e.direction = "credit"
              /\ e.amount = Coins(order[cb.order])
              /\ e.bizType = "recharge"
              /\ e.bizNo = cb.order
<1> DEFINE o == cb.order
           row == order[o]
           a == row.account
           next == coinAvailable[a] + Coins(row)
           e == Entry("credit", Coins(row), next, "recharge", o)
<1>1. o \in Order /\ row.status \in Status
  BY DEF Callback, Credit, Status
<1>2. row \in PayOrder
  BY <1>1, OrderPresent
<1>3. a \in Account
  BY <1>2 DEF PayOrder
<1>4. Coins(row) \in Nat
  BY <1>2, RowAmounts
<1>5. coinAvailable[a] \in Nat
  BY <1>3 DEF TypeOK, LedgerTypeOK
<1>6. next \in Nat
  BY <1>4, <1>5
<1>7. "recharge" \in BizType /\ o \in BizNo
  BY <1>1 DEF BizType, BizNo
<1>8. \A n, m \in Nat : Entry("credit", n, m, "recharge", o) \in LedgerEntry
  BY <1>7, EntryType
<1>9. e \in LedgerEntry
  BY <1>4, <1>6, <1>8
<1>10. /\ e.balanceAfter = next /\ e.direction = "credit" /\ e.amount = Coins(row)
       /\ e.bizType = "recharge" /\ e.bizNo = o
  BY DEF Entry
<1>11. coinAvailable' = [coinAvailable EXCEPT ![a] = next]
       /\ coinLedger' = [coinLedger EXCEPT ![a] = Append(@, e)]
  BY DEF Credit
<1>12. Signed(e) = Coins(row)
  BY <1>10 DEF Signed
<1>13. PostsCoins(a, e)
  <2> HIDE DEF e, a
  <2> QED
    BY <1>10, <1>11, <1>12 DEF PostsCoins
<1> HIDE DEF e
<1> QED
  BY <1>3, <1>9, <1>10, <1>13

(* How a reversal of order o moves coins; nothing moves when none are left. *)
LEMMA ReversePosts ==
    ASSUME TypeOK, NEW o \in Order,
           NEW bizType \in {"refund", "chargeback"},
           NEW nextStatus, Reverse(o, bizType, nextStatus)
    PROVE  LET held == coinAvailable[order[o].account]
               claw == IF held < Coins(order[o]) THEN held ELSE Coins(order[o])
           IN  \/ claw = 0 /\ UNCHANGED <<coinAvailable, coinLedger>>
               \/ /\ claw # 0
                  /\ \E a \in Account, e \in LedgerEntry :
                        /\ PostsCoins(a, e)
                        /\ a = order[o].account
                        /\ e.direction = "debit"
                        /\ e.amount = claw
                        /\ e.bizType = bizType
                        /\ e.bizNo = o
<1> DEFINE row == order[o]
           a == row.account
           held == coinAvailable[a]
           claw == IF held < Coins(row) THEN held ELSE Coins(row)
           e == Entry("debit", claw, held - claw, bizType, o)
<1>1. row \in PayOrder
  BY OrderPresent DEF Reverse, Status
<1>2. a \in Account
  BY <1>1 DEF PayOrder
<1>3. held \in Nat
  BY <1>2 DEF TypeOK, LedgerTypeOK
<1>4. Coins(row) \in Nat
  BY <1>1, RowAmounts
<1>5. claw \in Nat /\ held - claw \in Nat
  BY <1>3, <1>4
<1>6. coinAvailable' = [coinAvailable EXCEPT ![a] = held - claw]
  BY DEF Reverse
<1>7. coinLedger' = [coinLedger EXCEPT ![a] = IF claw = 0 THEN @ ELSE Append(@, e)]
  BY DEF Reverse
<1>8. CASE claw = 0
  <2>1. held - claw = held
    BY <1>3, <1>8
  <2>2. coinAvailable \in [Account -> Nat] /\ coinLedger \in [Account -> Seq(LedgerEntry)]
    BY DEF TypeOK, LedgerTypeOK
  <2>3. coinAvailable' = coinAvailable
    BY <1>2, <1>6, <2>1, <2>2
  <2>4. coinLedger' = coinLedger
    BY <1>2, <1>7, <1>8, <2>2
  <2> QED
    BY <1>8, <2>3, <2>4
<1>9. CASE claw # 0
  <2>1. bizType \in BizType /\ o \in BizNo
    BY DEF BizType, BizNo
  <2>2. \A n, m \in Nat : Entry("debit", n, m, bizType, o) \in LedgerEntry
    BY <2>1, EntryType
  <2>3. e \in LedgerEntry
    BY <1>5, <2>2
  <2>4. /\ e.balanceAfter = held - claw /\ e.direction = "debit" /\ e.amount = claw
        /\ e.bizType = bizType /\ e.bizNo = o
    BY DEF Entry
  <2>5. Signed(e) = -claw
    BY <2>4 DEF Signed
  <2>6. held - claw = held + Signed(e)
    BY <1>3, <1>5, <2>5
  <2>7. coinLedger' = [coinLedger EXCEPT ![a] = Append(@, e)]
    BY <1>7, <1>9
  <2>8. PostsCoins(a, e)
    <3> HIDE DEF e, a, claw
    <3> QED
      BY <1>6, <2>4, <2>6, <2>7 DEF PostsCoins
  <2> HIDE DEF e
  <2> QED
    BY <1>2, <1>9, <2>3, <2>4, <2>8
<1> QED
  BY <1>8, <1>9

LEMMA SendGiftPosts ==
    ASSUME TypeOK, NEW s \in Account, NEW k \in Key, NEW v \in Video, NEW gift \in Gift,
           NEW count \in GiftCount, SendGift(s, k, v, gift, count)
    PROVE  \E e \in LedgerEntry :
              /\ PostsCoins(s, e)
              /\ e.direction = "debit"
              /\ e.amount = Cost(gift, count)
              /\ e.bizType = "gift_send"
<1> DEFINE cost == Cost(gift, count)
           coinLeft == coinAvailable[s] - cost
<1>1. cost \in Nat
  BY CostIsNat
<1>2. coinAvailable[s] \in Nat
  BY DEF TypeOK, LedgerTypeOK
<1>3. coinLeft \in Nat
  BY <1>1, <1>2 DEF SendGift
<1>4. PICK g \in GiftNo :
        /\ coinAvailable' = [coinAvailable EXCEPT ![s] = coinLeft]
        /\ coinLedger' = [coinLedger EXCEPT ![s] =
              Append(@, Entry("debit", cost, coinLeft, "gift_send", g))]
  BY DEF SendGift
<1> DEFINE e == Entry("debit", cost, coinLeft, "gift_send", g)
<1>5. "gift_send" \in BizType /\ g \in BizNo
  BY DEF BizType, BizNo
<1>6. \A n, m \in Nat : Entry("debit", n, m, "gift_send", g) \in LedgerEntry
  BY <1>5, EntryType
<1>7. e \in LedgerEntry
  BY <1>1, <1>3, <1>6
<1>8. /\ e.balanceAfter = coinLeft /\ e.direction = "debit" /\ e.amount = cost
      /\ e.bizType = "gift_send"
  BY DEF Entry
<1>9. Signed(e) = -cost
  BY <1>8 DEF Signed
<1>10. coinLeft = coinAvailable[s] + Signed(e)
  BY <1>1, <1>2, <1>9
<1>11. PostsCoins(s, e)
  <2> HIDE DEF e, coinLeft
  <2> QED
    BY <1>4, <1>8, <1>10 DEF PostsCoins, e
<1> HIDE DEF e
<1> QED
  BY <1>7, <1>8, <1>11

(* Every other transaction leaves the coin wallets and ledger alone. *)
LEMMA CoinSteps ==
    ASSUME TypeOK, [Next]_vars
    PROVE  \/ UNCHANGED <<coinAvailable, coinLedger>>
           \/ \E a \in Account, e \in LedgerEntry : PostsCoins(a, e)
<1>1. CASE UNCHANGED vars
  BY <1>1 DEF vars, walletVars, ledgerVars
<1>2. ASSUME NEW cb \in Callback, Credit(cb)
      PROVE  \E a \in Account, e \in LedgerEntry : PostsCoins(a, e)
  BY <1>2, CreditPosts
<1>3. ASSUME NEW o \in Order, Refund(o) \/ Chargeback(o)
      PROVE  \/ UNCHANGED <<coinAvailable, coinLedger>>
             \/ \E a \in Account, e \in LedgerEntry : PostsCoins(a, e)
  <2>1. CASE Refund(o)
    BY <2>1, ReversePosts DEF Refund
  <2>2. CASE Chargeback(o)
    BY <2>2, ReversePosts DEF Chargeback
  <2> QED
    BY <1>3, <2>1, <2>2
<1>4. ASSUME NEW s \in Account, NEW k \in Key, NEW v \in Video, NEW gift \in Gift,
             NEW count \in GiftCount, SendGift(s, k, v, gift, count)
      PROVE  \E a \in Account, e \in LedgerEntry : PostsCoins(a, e)
  BY <1>4, SendGiftPosts
<1>5. ASSUME Next,
             \A cb \in Callback : ~Credit(cb),
             \A o \in Order : ~(Refund(o) \/ Chargeback(o)),
             \A s \in Account, k \in Key, v \in Video, gift \in Gift, count \in GiftCount :
                 ~SendGift(s, k, v, gift, count)
      PROVE  UNCHANGED <<coinAvailable, coinLedger>>
  BY <1>5 DEF Next, CreateRecharge, Expire, CloseIfExpired, MarkFailed, SettleOne,
       PublishHeat, LoseHeat, RequestWithdraw, PayWithdraw, walletVars, ledgerVars
<1> QED
  BY <1>1, <1>2, <1>3, <1>4, <1>5

LEMMA ProjectionInit == Init => CoinsProjectLedger
  BY DEF Init, LedgerInit, CoinsProjectLedger, BalanceBefore

LEMMA ProjectionStep ==
    ASSUME TypeOK, CoinsProjectLedger, NEW a \in Account, NEW e \in LedgerEntry,
           PostsCoins(a, e)
    PROVE  CoinsProjectLedger'
<1> DEFINE old == coinLedger[a]
           new == coinLedger'[a]
           n == Len(old)
<1>1. coinLedger \in [Account -> Seq(LedgerEntry)] /\ coinAvailable \in [Account -> Nat]
  BY DEF TypeOK, LedgerTypeOK
<1>2. old \in Seq(LedgerEntry) /\ n \in Nat /\ DOMAIN old = 1 .. n
  BY <1>1
<1>3. new = Append(old, e)
  BY <1>1 DEF PostsCoins
<1>4. /\ Len(new) = n + 1
      /\ DOMAIN new = 1 .. n + 1
      /\ \A i \in 1 .. n : new[i] = old[i]
      /\ new[n + 1] = e
  <2> HIDE DEF old, new, n
  <2>1. n = Len(old)
    BY DEF n
  <2> QED
    BY <1>2, <1>3, <2>1
<1>5. e.balanceAfter = coinAvailable[a] + Signed(e)
  BY DEF PostsCoins
<1>6. coinAvailable[a] = BalanceBefore(old, n + 1)
  BY DEF CoinsProjectLedger
<1>7. \A i \in 1 .. n : old[i].balanceAfter = BalanceBefore(old, i) + Signed(old[i])
  BY <1>2 DEF CoinsProjectLedger
<1>8. \A i \in 1 .. n + 1 : BalanceBefore(new, i) = BalanceBefore(old, i)
  <2> HIDE DEF old, new, n
  <2>1. TAKE i \in 1 .. n + 1
  <2>2. CASE i = 1
    BY <2>2 DEF BalanceBefore
  <2>3. CASE i # 1
    <3>1. i - 1 \in 1 .. n
      BY <1>2, <2>3
    <3> QED
      BY <1>4, <2>3, <3>1 DEF BalanceBefore
  <2> QED
    BY <2>2, <2>3
<1>9. \A i \in 1 .. n + 1 : new[i].balanceAfter = BalanceBefore(new, i) + Signed(new[i])
  <2> HIDE DEF old, new, n
  <2>1. TAKE i \in 1 .. n + 1
  <2>2. CASE i = n + 1
    BY <1>4, <1>5, <1>6, <1>8, <2>2
  <2>3. CASE i # n + 1
    <3>1. i \in 1 .. n
      BY <1>2, <2>3
    <3> QED
      BY <1>4, <1>7, <1>8, <3>1
  <2> QED
    BY <2>2, <2>3
<1>10. coinAvailable'[a] = BalanceBefore(new, Len(new) + 1)
  <2>1. coinAvailable'[a] = e.balanceAfter
    BY <1>1 DEF PostsCoins
  <2> HIDE DEF old, new, n
  <2>2. n + 1 + 1 # 1 /\ n + 1 + 1 - 1 = n + 1
    BY <1>2
  <2> QED
    BY <1>4, <2>1, <2>2 DEF BalanceBefore
<1>11. \A b \in Account : b # a =>
          coinLedger'[b] = coinLedger[b] /\ coinAvailable'[b] = coinAvailable[b]
  BY <1>1 DEF PostsCoins
<1>12. SUFFICES ASSUME NEW b \in Account
       PROVE  /\ \A i \in DOMAIN coinLedger'[b] :
                    coinLedger'[b][i].balanceAfter =
                        BalanceBefore(coinLedger'[b], i) + Signed(coinLedger'[b][i])
              /\ coinAvailable'[b] =
                    BalanceBefore(coinLedger'[b], Len(coinLedger'[b]) + 1)
  BY DEF CoinsProjectLedger
<1>13. CASE b = a
  BY <1>4, <1>9, <1>10, <1>13
<1>14. CASE b # a
  BY <1>11, <1>14 DEF CoinsProjectLedger
<1> QED
  BY <1>13, <1>14

(***************************************************************************)
(* The coin balance of every account is a projection of its ledger: the    *)
(* rows, in commit order, are a running balance from zero to               *)
(* coin_available, for any number of accounts, orders and gifts.           *)
(***************************************************************************)
THEOREM CoinsAreLedgerProjection == Spec => []CoinsProjectLedger
<1>1. TypeOK /\ CoinsProjectLedger /\ [Next]_vars => CoinsProjectLedger'
  <2> SUFFICES ASSUME TypeOK, CoinsProjectLedger, [Next]_vars
               PROVE  CoinsProjectLedger'
    OBVIOUS
  <2>1. CASE UNCHANGED <<coinAvailable, coinLedger>>
    BY <2>1 DEF CoinsProjectLedger
  <2>2. CASE \E a \in Account, e \in LedgerEntry : PostsCoins(a, e)
    BY <2>2, ProjectionStep
  <2> QED
    BY <2>1, <2>2, CoinSteps
<1> QED
  BY <1>1, ProjectionInit, TypeCorrect, PTL DEF Spec

-----------------------------------------------------------------------------
(***************************************************************************)
(* What the merchant promises the owner of a wallet: orders move through   *)
(* their statuses one way, coins are credited once and taken back once,    *)
(* and PayBooks implements CoinContract.                                   *)
(***************************************************************************)

(* What a step does to an order *)

(* The step neither credits nor reverses order o, nor reopens it. *)
KeepsOrder(o) ==
    /\ order[o].status \in CreditedStatus \cup {"failed", "closed"} =>
          order'[o].status = order[o].status
    /\ order[o].status \in CreditedStatus =>
          /\ order'[o].account = order[o].account
          /\ order'[o].package = order[o].package
          /\ order'[o].trade = order[o].trade
    /\ order'[o].status \in CreditedStatus => order[o].status \in CreditedStatus

(* The step leaves every order's credit and every coin where it was. *)
Quiet ==
    /\ UNCHANGED <<coinAvailable, coinLedger>>
    /\ \A o \in Order : KeepsOrder(o)

LEMMA UnchangedKeeps ==
    ASSUME NEW o \in Order, order'[o] = order[o]
    PROVE  KeepsOrder(o)
  BY DEF KeepsOrder

LEMMA CreateRechargeQuiet ==
    ASSUME TypeOK, NEW a \in Account, NEW k \in Key, NEW p \in Package, NEW ch \in Channel,
           CreateRecharge(a, k, p, ch)
    PROVE  Quiet
<1>1. PICK n \in Order :
        /\ order[n] = NoOrder
        /\ order' = [order EXCEPT ![n] =
              [account |-> a, key |-> k, package |-> p, channel |-> ch,
               status |-> "paying", trade |-> NoTrade, settle |-> "none",
               settleAt |-> FALSE, paidAfterClose |-> FALSE]]
  BY DEF CreateRecharge
<1>2. order \in [Order -> PayOrder \cup {NoOrder}]
  BY DEF TypeOK, OrdersTypeOK
<1>3. KeepsOrder(n)
  BY <1>1, <1>2 DEF KeepsOrder, CreditedStatus, NoOrder
<1>4. \A o \in Order : o # n => order'[o] = order[o]
  BY <1>1, <1>2
<1>5. \A o \in Order : KeepsOrder(o)
  BY <1>3, <1>4, UnchangedKeeps
<1> QED
  BY <1>5 DEF Quiet, CreateRecharge, walletVars, ledgerVars

(* A status change of order o away from an open status, short of "paid". *)
LEMMA CloseQuiet ==
    ASSUME TypeOK, NEW n \in Order, order[n].status \in OpenStatus,
           NEW status \in {"closed", "failed"},
           order' = [order EXCEPT ![n] = [order[n] EXCEPT !.status = status]],
           UNCHANGED <<walletVars, ledgerVars>>
    PROVE  Quiet
<1>1. order \in [Order -> PayOrder \cup {NoOrder}] /\ order[n] \in PayOrder
  BY OrderPresent DEF TypeOK, OrdersTypeOK, Status
<1> DEFINE new == [order[n] EXCEPT !.status = status]
<1>2. new.status = status
  BY <1>1 DEF PayOrder
<1>3. order'[n].status = status
  BY <1>1, <1>2
<1>4. KeepsOrder(n)
  BY <1>3 DEF KeepsOrder, CreditedStatus, OpenStatus
<1>5. \A o \in Order : o # n => order'[o] = order[o]
  BY <1>1
<1>6. \A o \in Order : KeepsOrder(o)
  BY <1>4, <1>5, UnchangedKeeps
<1> QED
  BY <1>6 DEF Quiet, walletVars, ledgerVars

LEMMA SettleQuiet ==
    ASSUME TypeOK, NEW n \in Order, SettleOne(n)
    PROVE  Quiet
<1>1. order \in [Order -> PayOrder \cup {NoOrder}] /\ order[n] \in PayOrder
  BY OrderPresent DEF TypeOK, OrdersTypeOK, SettleOne, Status
<1> DEFINE new == [order[n] EXCEPT !.settle = "settled", !.settleAt = TRUE]
<1>2. /\ new.status = order[n].status
      /\ new.account = order[n].account
      /\ new.package = order[n].package
      /\ new.trade = order[n].trade
  BY <1>1 DEF PayOrder
<1>3. order' = [order EXCEPT ![n] = new]
  BY DEF SettleOne
<1>4. order'[n] = new
  BY <1>1, <1>3
<1>5. KeepsOrder(n)
  <2> HIDE DEF new
  <2> QED
    BY <1>2, <1>4 DEF KeepsOrder
<1>6. \A o \in Order : o # n => order'[o] = order[o]
  BY <1>1, <1>3
<1>7. \A o \in Order : KeepsOrder(o)
  BY <1>5, <1>6, UnchangedKeeps
<1> QED
  BY <1>7 DEF Quiet, SettleOne, walletVars, ledgerVars

(* Every step credits an order, reverses one, spends coins, or is quiet. *)
LEMMA StepKinds ==
    ASSUME TypeOK, [Next]_vars
    PROVE  \/ \E cb \in Callback : Credit(cb)
           \/ \E o \in Order : Refund(o) \/ Chargeback(o)
           \/ \E s \in Account, k \in Key, v \in Video, gift \in Gift, count \in GiftCount :
                 SendGift(s, k, v, gift, count) /\ UNCHANGED orderVars
           \/ Quiet
<1>1. ASSUME UNCHANGED <<coinAvailable, coinLedger>>, UNCHANGED order PROVE Quiet
  BY <1>1, UnchangedKeeps DEF Quiet
<1>2. CASE UNCHANGED vars
  BY <1>1, <1>2 DEF vars, walletVars, ledgerVars, orderVars
<1>3. ASSUME NEW a \in Account, NEW k \in Key, NEW p \in Package, NEW ch \in Channel,
             CreateRecharge(a, k, p, ch)
      PROVE  Quiet
  BY <1>3, CreateRechargeQuiet
<1>4. ASSUME NEW o \in Order, Expire(o) PROVE Quiet
  BY <1>1, <1>4 DEF Expire, walletVars, ledgerVars
<1>5. ASSUME NEW o \in Order, CloseIfExpired(o) PROVE Quiet
  BY <1>5, CloseQuiet DEF CloseIfExpired
<1>6. ASSUME NEW cb \in Callback, MarkFailed(cb) PROVE Quiet
  BY <1>6, CloseQuiet DEF MarkFailed, Callback
<1>7. ASSUME NEW o \in Order, SettleOne(o) PROVE Quiet
  BY <1>7, SettleQuiet
<1>8. ASSUME NEW g \in GiftNo, PublishHeat(g) \/ LoseHeat(g), UNCHANGED orderVars
      PROVE  Quiet
  BY <1>1, <1>8 DEF PublishHeat, LoseHeat, walletVars, ledgerVars, orderVars
<1>9. ASSUME NEW a \in Account, NEW diamonds \in WithdrawAmount,
             RequestWithdraw(a, diamonds), UNCHANGED orderVars
      PROVE  Quiet
  BY <1>1, <1>9 DEF RequestWithdraw, ledgerVars, orderVars
<1>10. ASSUME NEW w \in WithdrawNo, PayWithdraw(w), UNCHANGED orderVars PROVE Quiet
  BY <1>1, <1>10 DEF PayWithdraw, orderVars
<1> QED
  BY <1>2, <1>3, <1>4, <1>5, <1>6, <1>7, <1>8, <1>9, <1>10 DEF Next

LEMMA CreditOrder ==
    ASSUME TypeOK, NEW cb \in Callback, Credit(cb)
    PROVE  LET n == cb.order
           IN  /\ n \in Order
               /\ order[n] \in PayOrder
               /\ order[n].status \in OpenStatus \cup {"closed"}
               /\ order'[n].status = "paid"
               /\ order'[n].account = order[n].account
               /\ order'[n].package = order[n].package
               /\ order'[n].paidAfterClose = (order[n].status = "closed")
               /\ \A o \in Order : o # n => order'[o] = order[o]
<1> DEFINE n == cb.order
           new == [order[n] EXCEPT !.status = "paid", !.trade = cb.trade,
                                   !.settle = "pending",
                                   !.paidAfterClose = (order[n].status = "closed")]
<1>1. n \in Order
  BY DEF Callback
<1>2. order \in [Order -> PayOrder \cup {NoOrder}]
  BY DEF TypeOK, OrdersTypeOK
<1>3. order[n].status \in OpenStatus \cup {"closed"}
  BY DEF Credit
<1>4. order[n] \in PayOrder
  BY <1>1, <1>3, OrderPresent DEF Status
<1>5. order' = [order EXCEPT ![n] = new]
  BY DEF Credit
<1>6. /\ new.status = "paid"
      /\ new.account = order[n].account
      /\ new.package = order[n].package
      /\ new.paidAfterClose = (order[n].status = "closed")
  BY <1>4 DEF PayOrder
<1> HIDE DEF new
<1>7. order'[n] = new /\ \A o \in Order : o # n => order'[o] = order[o]
  BY <1>1, <1>2, <1>5
<1> QED
  BY <1>1, <1>3, <1>4, <1>6, <1>7

LEMMA ReverseOrder ==
    ASSUME TypeOK, NEW n \in Order, NEW bizType, NEW nextStatus,
           Reverse(n, bizType, nextStatus)
    PROVE  /\ order[n] \in PayOrder
           /\ order[n].status = "paid"
           /\ order'[n].status = nextStatus
           /\ order'[n].account = order[n].account
           /\ order'[n].package = order[n].package
           /\ order'[n].trade = order[n].trade
           /\ \A o \in Order : o # n => order'[o] = order[o]
<1> DEFINE new == [order[n] EXCEPT !.status = nextStatus, !.settle = nextStatus]
<1>1. order \in [Order -> PayOrder \cup {NoOrder}]
  BY DEF TypeOK, OrdersTypeOK
<1>2. order[n].status = "paid"
  BY DEF Reverse
<1>3. order[n] \in PayOrder
  BY <1>2, OrderPresent DEF Status
<1>4. order' = [order EXCEPT ![n] = new]
  BY DEF Reverse
<1>5. /\ new.status = nextStatus
      /\ new.account = order[n].account
      /\ new.package = order[n].package
      /\ new.trade = order[n].trade
  BY <1>3 DEF PayOrder
<1> HIDE DEF new
<1>6. order'[n] = new /\ \A o \in Order : o # n => order'[o] = order[o]
  BY <1>1, <1>4
<1> QED
  BY <1>2, <1>3, <1>5, <1>6

(***************************************************************************)
(* A paid order is never credited again nor loses its trade, refunds and   *)
(* chargebacks are final, and a closed order can only be paid late: for    *)
(* any number of orders, callbacks and interleavings.                      *)
(***************************************************************************)
THEOREM StatusesAreMonotone == Spec => StatusIsMonotone
<1>1. ASSUME NEW o \in Order, KeepsOrder(o) PROVE MonotoneStep(o)
  BY <1>1 DEF MonotoneStep, KeepsOrder, CreditedStatus, ReversedStatus
<1>2. ASSUME TypeOK, [Next]_vars, NEW o \in Order PROVE MonotoneStep(o)
  <2>1. ASSUME NEW cb \in Callback, Credit(cb) PROVE MonotoneStep(o)
    <3>1. CASE o = cb.order
      BY <1>2, <2>1, <3>1, CreditOrder DEF MonotoneStep, OpenStatus, CreditedStatus, ReversedStatus
    <3>2. CASE o # cb.order
      <4>1. order'[o] = order[o]
        BY <1>2, <2>1, <3>2, CreditOrder
      <4> QED
        BY <1>1, <4>1, UnchangedKeeps
    <3> QED
      BY <3>1, <3>2
  <2>2. ASSUME NEW n \in Order, Refund(n) \/ Chargeback(n) PROVE MonotoneStep(o)
    <3>1. PICK bizType \in {"refund", "chargeback"}, nextStatus \in ReversedStatus :
              Reverse(n, bizType, nextStatus)
      BY <2>2 DEF Refund, Chargeback, ReversedStatus
    <3>2. CASE o = n
      BY <1>2, <3>1, <3>2, ReverseOrder DEF MonotoneStep, CreditedStatus, ReversedStatus
    <3>3. CASE o # n
      <4>1. order'[o] = order[o]
        BY <1>2, <3>1, <3>3, ReverseOrder
      <4> QED
        BY <1>1, <4>1, UnchangedKeeps
    <3> QED
      BY <3>2, <3>3
  <2>3. CASE UNCHANGED orderVars
    BY <1>1, <2>3, UnchangedKeeps DEF orderVars
  <2>4. CASE Quiet
    BY <1>1, <2>4 DEF Quiet
  <2> QED
    BY <1>2, <2>1, <2>2, <2>3, <2>4, StepKinds
<1>3. TypeOK /\ [Next]_vars => [\A o \in Order : MonotoneStep(o)]_vars
  BY <1>2
<1> QED
  BY <1>3, TypeCorrect, PTL DEF Spec, StatusIsMonotone

-----------------------------------------------------------------------------
(* Rows of the coin ledger *)

(* What posting one entry does to the rows of a type and business number. *)
LEMMA PostedRows ==
    ASSUME TypeOK, NEW a \in Account, NEW e \in LedgerEntry, PostsCoins(a, e),
           NEW b \in Account, NEW bizType, NEW no
    PROVE  /\ \A i \in CoinRows(b, bizType, no) : coinLedger'[b][i] = coinLedger[b][i]
           /\ ~(b = a /\ e.bizType = bizType /\ e.bizNo = no) =>
                 CoinRows(b, bizType, no)' = CoinRows(b, bizType, no)
           /\ b = a /\ e.bizType = bizType /\ e.bizNo = no =>
                 \E i \in DOMAIN coinLedger'[a] :
                    /\ CoinRows(a, bizType, no)' = CoinRows(a, bizType, no) \cup {i}
                    /\ coinLedger'[a][i] = e
<1>1. coinLedger \in [Account -> Seq(LedgerEntry)]
  BY DEF TypeOK, LedgerTypeOK
<1> DEFINE old == coinLedger[b]
           new == coinLedger'[b]
           n == Len(old)
<1>2. old \in Seq(LedgerEntry) /\ n \in Nat /\ DOMAIN old = 1 .. n
  BY <1>1
<1>3. CASE b # a
  <2>1. new = old
    BY <1>1, <1>3 DEF PostsCoins
  <2> QED
    BY <1>3, <2>1 DEF CoinRows
<1>4. CASE b = a
  <2>1. new = Append(old, e)
    BY <1>1, <1>4 DEF PostsCoins
  <2>2. /\ DOMAIN new = 1 .. n + 1
        /\ \A i \in 1 .. n : new[i] = old[i]
        /\ new[n + 1] = e
    <3> HIDE DEF old, new, n
    <3>1. n = Len(old)
      BY DEF n
    <3> QED
      BY <1>2, <2>1, <3>1
  <2>3. 1 .. n + 1 = (1 .. n) \cup {n + 1} /\ n + 1 \notin 1 .. n
    BY <1>2
  <2>4. CoinRows(b, bizType, no) =
            {i \in 1 .. n : old[i].bizType = bizType /\ old[i].bizNo = no}
    BY <1>2 DEF CoinRows
  <2>5. CoinRows(b, bizType, no)' =
            {i \in 1 .. n + 1 : new[i].bizType = bizType /\ new[i].bizNo = no}
    BY <2>2 DEF CoinRows
  <2> HIDE DEF old, new, n
  <2>6. \A i \in CoinRows(b, bizType, no) : new[i] = old[i]
    BY <2>2, <2>4
  <2>7. ~(e.bizType = bizType /\ e.bizNo = no) =>
            CoinRows(b, bizType, no)' = CoinRows(b, bizType, no)
    BY <2>2, <2>3, <2>4, <2>5
  <2>8. e.bizType = bizType /\ e.bizNo = no =>
            CoinRows(b, bizType, no)' = CoinRows(b, bizType, no) \cup {n + 1}
    BY <2>2, <2>3, <2>4, <2>5
  <2>9. n + 1 \in DOMAIN new
    BY <2>2, <2>3
  <2> QED
    BY <1>4, <2>2, <2>6, <2>7, <2>8, <2>9 DEF old, new
<1> QED
  BY <1>3, <1>4

LEMMA PostedRow ==
    ASSUME TypeOK, NEW a \in Account, NEW e \in LedgerEntry, PostsCoins(a, e),
           NEW bizType, NEW no, e.bizType = bizType, e.bizNo = no
    PROVE  \E i \in DOMAIN coinLedger'[a] :
              /\ CoinRows(a, bizType, no)' = CoinRows(a, bizType, no) \cup {i}
              /\ coinLedger'[a][i] = e
<1> DEFINE P(b) ==
        b = a /\ e.bizType = bizType /\ e.bizNo = no =>
           \E i \in DOMAIN coinLedger'[a] :
              /\ CoinRows(a, bizType, no)' = CoinRows(a, bizType, no) \cup {i}
              /\ coinLedger'[a][i] = e
<1>1. \A b \in Account : P(b)
  BY PostedRows
<1>2. P(a)
  <2> HIDE DEF P
  <2> QED
    BY <1>1
<1> QED
  BY <1>2

(* CreditedOnce for one order and one account. *)
CreditedOnceAt(o, a) ==
    IF order[o].status \in CreditedStatus /\ order[o].account = a
    THEN \E i \in DOMAIN coinLedger[a] :
            /\ CoinRows(a, "recharge", o) = {i}
            /\ coinLedger[a][i].direction = "credit"
            /\ coinLedger[a][i].amount = Coins(order[o])
    ELSE CoinRows(a, "recharge", o) = {}

(* It depends on the order's credit, its recharge rows and their contents. *)
LEMMA SameCredit ==
    ASSUME NEW o \in Order, NEW a \in Account, CreditedOnceAt(o, a),
           order'[o].status \in CreditedStatus <=> order[o].status \in CreditedStatus,
           order[o].status \in CreditedStatus =>
               order'[o].account = order[o].account /\ order'[o].package = order[o].package,
           CoinRows(a, "recharge", o)' = CoinRows(a, "recharge", o),
           \A i \in CoinRows(a, "recharge", o) : coinLedger'[a][i] = coinLedger[a][i]
    PROVE  CreditedOnceAt(o, a)'
<1>1. CASE order[o].status \in CreditedStatus /\ order[o].account = a
  <2>1. PICK i \in DOMAIN coinLedger[a] :
            /\ CoinRows(a, "recharge", o) = {i}
            /\ coinLedger[a][i].direction = "credit"
            /\ coinLedger[a][i].amount = Coins(order[o])
    BY <1>1 DEF CreditedOnceAt
  <2>2. coinLedger'[a][i] = coinLedger[a][i] /\ CoinRows(a, "recharge", o)' = {i}
    BY <2>1
  <2>3. i \in DOMAIN coinLedger'[a]
    BY <2>2 DEF CoinRows
  <2>4. Coins(order'[o]) = Coins(order[o])
    BY <1>1 DEF Coins
  <2> QED
    BY <1>1, <2>1, <2>2, <2>3, <2>4 DEF CreditedOnceAt
<1>2. CASE ~(order[o].status \in CreditedStatus /\ order[o].account = a)
  BY <1>2 DEF CreditedOnceAt
<1> QED
  BY <1>1, <1>2

LEMMA CreditCreditsOnce ==
    ASSUME TypeOK, CreditedOnce, NEW cb \in Callback, Credit(cb)
    PROVE  CreditedOnce'
<1> DEFINE n == cb.order
<1>1. PICK a \in Account, e \in LedgerEntry :
        /\ PostsCoins(a, e)
        /\ a = order[n].account
        /\ e.direction = "credit"
        /\ e.amount = Coins(order[n])
        /\ e.bizType = "recharge"
        /\ e.bizNo = n
  BY CreditPosts
<1>2. /\ n \in Order
      /\ order[n].status \in OpenStatus \cup {"closed"}
      /\ order'[n].status = "paid"
      /\ order'[n].account = order[n].account
      /\ order'[n].package = order[n].package
      /\ \A o \in Order : o # n => order'[o] = order[o]
  BY CreditOrder
<1>3. SUFFICES ASSUME NEW o \in Order, NEW b \in Account
               PROVE  CreditedOnceAt(o, b)'
  BY DEF CreditedOnce, CreditedOnceAt
<1>4. CreditedOnceAt(o, b)
  BY DEF CreditedOnce, CreditedOnceAt
<1>5. CASE o # n
  BY <1>1, <1>2, <1>4, <1>5, PostedRows, SameCredit
<1>6. CASE o = n /\ b # a
  <2>1. CoinRows(b, "recharge", n)' = CoinRows(b, "recharge", n)
    BY <1>1, <1>6, PostedRows
  <2>2. CoinRows(b, "recharge", n) = {}
    BY <1>1, <1>4, <1>6 DEF CreditedOnceAt
  <2> QED
    BY <1>1, <1>2, <1>6, <2>1, <2>2 DEF CreditedOnceAt
<1>7. CASE o = n /\ b = a
  <2>1. CoinRows(a, "recharge", n) = {}
    BY <1>2, <1>4, <1>7 DEF CreditedOnceAt, OpenStatus, CreditedStatus
  <2>2. PICK i \in DOMAIN coinLedger'[a] :
            /\ CoinRows(a, "recharge", n)' = CoinRows(a, "recharge", n) \cup {i}
            /\ coinLedger'[a][i] = e
    BY <1>1, PostedRow
  <2>3. Coins(order'[n]) = Coins(order[n])
    BY <1>2 DEF Coins
  <2> QED
    BY <1>1, <1>2, <1>7, <2>1, <2>2, <2>3 DEF CreditedOnceAt, CreditedStatus
<1> QED
  BY <1>5, <1>6, <1>7

(* A step that posts no recharge row and keeps every credit. *)
LEMMA OtherCreditsOnce ==
    ASSUME TypeOK, CreditedOnce,
           \/ UNCHANGED coinLedger
           \/ \E a \in Account, e \in LedgerEntry :
                 PostsCoins(a, e) /\ e.bizType # "recharge",
           \A o \in Order :
              /\ order'[o].status \in CreditedStatus <=> order[o].status \in CreditedStatus
              /\ order[o].status \in CreditedStatus =>
                    /\ order'[o].account = order[o].account
                    /\ order'[o].package = order[o].package
    PROVE  CreditedOnce'
<1>1. SUFFICES ASSUME NEW o \in Order, NEW b \in Account
               PROVE  CreditedOnceAt(o, b)'
  BY DEF CreditedOnce, CreditedOnceAt
<1>2. CreditedOnceAt(o, b)
  BY DEF CreditedOnce, CreditedOnceAt
<1>3. /\ CoinRows(b, "recharge", o)' = CoinRows(b, "recharge", o)
      /\ \A i \in CoinRows(b, "recharge", o) : coinLedger'[b][i] = coinLedger[b][i]
  <2>1. CASE UNCHANGED coinLedger
    BY <2>1 DEF CoinRows
  <2>2. CASE \E a \in Account, e \in LedgerEntry :
                PostsCoins(a, e) /\ e.bizType # "recharge"
    BY <2>2, PostedRows
  <2> QED
    BY <2>1, <2>2
<1> QED
  BY <1>2, <1>3, SameCredit

LEMMA ReverseKeepsCredit ==
    ASSUME TypeOK, NEW n \in Order, Refund(n) \/ Chargeback(n), NEW o \in Order
    PROVE  /\ order'[o].status \in CreditedStatus <=> order[o].status \in CreditedStatus
           /\ order[o].status \in CreditedStatus =>
                 /\ order'[o].account = order[o].account
                 /\ order'[o].package = order[o].package
<1>1. PICK bizType \in {"refund", "chargeback"}, nextStatus \in ReversedStatus :
          Reverse(n, bizType, nextStatus)
  BY DEF Refund, Chargeback, ReversedStatus
<1>2. CASE o = n
  BY <1>1, <1>2, ReverseOrder DEF CreditedStatus, ReversedStatus
<1>3. CASE o # n
  BY <1>1, <1>3, ReverseOrder
<1> QED
  BY <1>2, <1>3

(***************************************************************************)
(* Pay once, credit once, for any number of orders, callbacks, channels,   *)
(* retries and interleavings: a credited order has exactly one recharge    *)
(* row, on its own account and of its own coins; no other order has any.   *)
(***************************************************************************)
THEOREM PayOnceCreditOnce == Spec => []CreditedOnce
<1>1. Init => CreditedOnce
  BY DEF Init, LedgerInit, OrdersInit, CreditedOnce, CoinRows, NoOrder, CreditedStatus
<1>2. TypeOK /\ CreditedOnce /\ [Next]_vars => CreditedOnce'
  <2> SUFFICES ASSUME TypeOK, CreditedOnce, [Next]_vars PROVE CreditedOnce'
    OBVIOUS
  <2>1. ASSUME NEW cb \in Callback, Credit(cb) PROVE CreditedOnce'
    BY <2>1, CreditCreditsOnce
  <2>2. ASSUME NEW n \in Order, Refund(n) \/ Chargeback(n) PROVE CreditedOnce'
    <3>1. \/ UNCHANGED coinLedger
          \/ \E a \in Account, e \in LedgerEntry :
                PostsCoins(a, e) /\ e.bizType # "recharge"
      <4>1. PICK bizType \in {"refund", "chargeback"}, nextStatus \in ReversedStatus :
                Reverse(n, bizType, nextStatus)
        BY <2>2 DEF Refund, Chargeback, ReversedStatus
      <4> QED
        BY <4>1, ReversePosts
    <3> QED
      BY <2>2, <3>1, ReverseKeepsCredit, OtherCreditsOnce
  <2>3. ASSUME NEW s \in Account, NEW k \in Key, NEW v \in Video, NEW gift \in Gift,
               NEW count \in GiftCount, SendGift(s, k, v, gift, count), UNCHANGED orderVars
        PROVE  CreditedOnce'
    <3>1. \E a \in Account, e \in LedgerEntry : PostsCoins(a, e) /\ e.bizType # "recharge"
      BY <2>3, SendGiftPosts
    <3> QED
      BY <2>3, <3>1, OtherCreditsOnce DEF orderVars
  <2>4. CASE Quiet
    BY <2>4, OtherCreditsOnce DEF Quiet, KeepsOrder
  <2> QED
    BY <2>1, <2>2, <2>3, <2>4, StepKinds
<1> QED
  BY <1>1, <1>2, TypeCorrect, PTL DEF Spec

-----------------------------------------------------------------------------
(* Refinement of CoinContract *)

LEMMA GrantFields ==
    ASSUME NEW o \in Order
    PROVE  /\ GrantOf(o).order = o
           /\ GrantOf(o).account = order[o].account
           /\ GrantOf(o).coins = Coins(order[o])
  BY DEF GrantOf

LEMMA GrantType ==
    ASSUME NEW o \in Order, order[o] \in PayOrder
    PROVE  GrantOf(o) \in Contract!Grant
<1>1. order[o].account \in Account /\ order[o].package \in Package
  BY DEF PayOrder
<1>2. Coins(order[o]) \in {PackageCoins[p] : p \in Package}
  BY <1>1 DEF Coins
<1> QED
  BY <1>1, <1>2 DEF GrantOf, Contract!Grant

(* Two states with the same credited orders have the same grants. *)
LEMMA SameGrants ==
    ASSUME \A o \in Order :
              /\ order'[o].status \in CreditedStatus <=> order[o].status \in CreditedStatus
              /\ order[o].status \in CreditedStatus =>
                    /\ order'[o].account = order[o].account
                    /\ order'[o].package = order[o].package
    PROVE  Grants' = Grants
<1>1. OrdersIn(CreditedStatus)' = OrdersIn(CreditedStatus)
  BY DEF OrdersIn
<1>2. \A o \in OrdersIn(CreditedStatus) : GrantOf(o)' = GrantOf(o)
  BY DEF OrdersIn, GrantOf, Coins
<1> QED
  BY <1>1, <1>2 DEF Grants

LEMMA QuietStutters ==
    ASSUME Quiet
    PROVE  UNCHANGED Contract!vars
<1>1. Grants' = Grants
  BY SameGrants DEF Quiet, KeepsOrder
<1>2. OrdersIn(ReversedStatus)' = OrdersIn(ReversedStatus)
  BY DEF Quiet, KeepsOrder, OrdersIn, ReversedStatus, CreditedStatus
<1> QED
  BY <1>1, <1>2 DEF Quiet, Contract!vars

LEMMA SendGiftSpends ==
    ASSUME TypeOK, NEW s \in Account, NEW k \in Key, NEW v \in Video, NEW gift \in Gift,
           NEW count \in GiftCount, SendGift(s, k, v, gift, count), UNCHANGED orderVars
    PROVE  Contract!Spend(s) \/ UNCHANGED Contract!vars
<1> DEFINE cost == Cost(gift, count)
<1>1. cost \in Nat /\ coinAvailable[s] \in Nat /\ cost <= coinAvailable[s]
  BY CostIsNat DEF TypeOK, LedgerTypeOK, SendGift
<1>2. coinAvailable' = [coinAvailable EXCEPT ![s] = @ - cost]
  BY DEF SendGift
<1>3. Grants' = Grants /\ OrdersIn(ReversedStatus)' = OrdersIn(ReversedStatus)
  BY SameGrants DEF orderVars, OrdersIn
<1> HIDE DEF cost
<1>4. CASE cost = 0
  <2>1. coinAvailable' = coinAvailable
    BY <1>1, <1>2, <1>4 DEF TypeOK, LedgerTypeOK
  <2> QED
    BY <1>3, <2>1 DEF Contract!vars
<1>5. CASE cost # 0
  <2>1. cost \in 1 .. coinAvailable[s]
    BY <1>1, <1>5
  <2> QED
    BY <1>2, <1>3, <2>1 DEF Contract!Spend
<1> QED
  BY <1>4, <1>5

LEMMA CreditGrants ==
    ASSUME TypeOK, NEW cb \in Callback, Credit(cb)
    PROVE  Contract!GrantCoins(GrantOf(cb.order)) /\ GrantOf(cb.order) \in Contract!Grant
<1> DEFINE n == cb.order
           g == GrantOf(n)
<1>1. /\ n \in Order
      /\ order[n] \in PayOrder
      /\ order[n].status \notin CreditedStatus
      /\ order'[n].status = "paid"
      /\ order'[n].account = order[n].account
      /\ order'[n].package = order[n].package
      /\ \A o \in Order : o # n => order'[o] = order[o]
  BY CreditOrder DEF OpenStatus, CreditedStatus
<1>2. g \in Contract!Grant
  BY <1>1, GrantType
<1>3. \A h \in Grants : h.order # g.order
  BY <1>1, GrantFields DEF Grants, OrdersIn
<1>4. OrdersIn(CreditedStatus)' = OrdersIn(CreditedStatus) \cup {n}
  BY <1>1 DEF OrdersIn, CreditedStatus
<1>5. \A o \in Order : GrantOf(o)' = GrantOf(o)
  BY <1>1 DEF GrantOf, Coins
<1>6. Grants' = Grants \cup {g}
  BY <1>1, <1>4, <1>5 DEF Grants, OrdersIn
<1>7. OrdersIn(ReversedStatus)' = OrdersIn(ReversedStatus)
  BY <1>1 DEF OrdersIn, ReversedStatus, CreditedStatus
<1>8. coinAvailable' = [coinAvailable EXCEPT ![g.account] = @ + g.coins]
  BY <1>1, GrantFields DEF Credit
<1> QED
  BY <1>2, <1>3, <1>6, <1>7, <1>8 DEF Contract!GrantCoins

LEMMA ReverseReversesGrant ==
    ASSUME TypeOK, NEW n \in Order, Refund(n) \/ Chargeback(n)
    PROVE  Contract!ReverseGrant(GrantOf(n)) /\ GrantOf(n) \in Grants
<1> DEFINE g == GrantOf(n)
<1>1. PICK bizType \in {"refund", "chargeback"}, nextStatus \in ReversedStatus :
          Reverse(n, bizType, nextStatus)
  BY DEF Refund, Chargeback, ReversedStatus
<1>2. /\ order[n] \in PayOrder
      /\ order[n].status = "paid"
      /\ order'[n].status \in ReversedStatus
      /\ \A o \in Order : o # n => order'[o] = order[o]
  BY <1>1, ReverseOrder
<1>3. Grants' = Grants
  BY ReverseKeepsCredit, SameGrants
<1>4. g \in Grants
  BY <1>2 DEF Grants, OrdersIn, CreditedStatus
<1>5. n \notin OrdersIn(ReversedStatus)
      /\ OrdersIn(ReversedStatus)' = OrdersIn(ReversedStatus) \cup {n}
  BY <1>2 DEF OrdersIn, ReversedStatus
<1>6. order[n].account \in Account /\ coinAvailable[order[n].account] \in Nat
  BY <1>2 DEF PayOrder, TypeOK, LedgerTypeOK
<1>7. Coins(order[n]) \in Nat
  BY <1>2, RowAmounts
<1> DEFINE held == coinAvailable[order[n].account]
           claw == IF held < Coins(order[n]) THEN held ELSE Coins(order[n])
<1>8. coinAvailable' = [coinAvailable EXCEPT ![order[n].account] = held - claw]
  BY <1>1 DEF Reverse
<1>9. held - claw = IF held < Coins(order[n]) THEN 0 ELSE held - Coins(order[n])
  BY <1>6, <1>7
<1>10. coinAvailable' = [coinAvailable EXCEPT ![g.account] =
                            IF @ < g.coins THEN 0 ELSE @ - g.coins]
  <2> HIDE DEF claw
  <2> QED
    BY <1>8, <1>9, GrantFields
<1>11. g.order = n
  BY GrantFields
<1> HIDE DEF g
<1> QED
  BY <1>3, <1>4, <1>5, <1>10, <1>11 DEF Contract!ReverseGrant, g

(***************************************************************************)
(* The merchant implements CoinContract for every value of the constants:  *)
(* recharge orders, callbacks, settlement, journals, gifts and withdrawals *)
(* only ever grant an order's coins once, reverse a grant once, or spend.  *)
(***************************************************************************)
THEOREM MerchantImplementsContract == Spec => ImplementsContract
<1>1. Init => Contract!Init
  BY DEF Init, LedgerInit, OrdersInit, Contract!Init, Grants, OrdersIn, NoOrder,
         CreditedStatus, ReversedStatus
<1>2. TypeOK /\ [Next]_vars => [Contract!Next]_(Contract!vars)
  <2> SUFFICES ASSUME TypeOK, [Next]_vars
               PROVE  Contract!Next \/ UNCHANGED Contract!vars
    OBVIOUS
  <2>1. ASSUME NEW cb \in Callback, Credit(cb) PROVE Contract!Next
    BY <2>1, CreditGrants DEF Contract!Next
  <2>2. ASSUME NEW n \in Order, Refund(n) \/ Chargeback(n) PROVE Contract!Next
    BY <2>2, ReverseReversesGrant DEF Contract!Next
  <2>3. ASSUME NEW s \in Account, NEW k \in Key, NEW v \in Video, NEW gift \in Gift,
               NEW count \in GiftCount, SendGift(s, k, v, gift, count), UNCHANGED orderVars
        PROVE  Contract!Next \/ UNCHANGED Contract!vars
    BY <2>3, SendGiftSpends DEF Contract!Next
  <2>4. CASE Quiet
    BY <2>4, QuietStutters
  <2> QED
    BY <2>1, <2>2, <2>3, <2>4, StepKinds
<1> QED
  BY <1>1, <1>2, TypeCorrect, PTL DEF Spec, ImplementsContract, Contract!Spec

-----------------------------------------------------------------------------
(***************************************************************************)
(* Reversals and the fiat journal: the coins of an order are taken back at *)
(* most once and only from who was credited, and the journal rows of an    *)
(* order are those of what happened to it.                                 *)
(***************************************************************************)

(* ReversedOnce for one order and one account. *)
RefundedOnceAt(o, a) ==
    IF order[o].status = "refunded" /\ order[o].account = a
    THEN IF Coins(order[o]) = 0
         THEN CoinRows(a, "refund", o) = {}
         ELSE \E i \in DOMAIN coinLedger[a] :
                 /\ CoinRows(a, "refund", o) = {i}
                 /\ coinLedger[a][i].amount = Coins(order[o])
    ELSE CoinRows(a, "refund", o) = {}

ChargedBackOnceAt(o, a) ==
    \A i, j \in CoinRows(a, "chargeback", o) :
       /\ order[o].status = "chargeback"
       /\ order[o].account = a
       /\ i = j
       /\ coinLedger[a][i].amount <= Coins(order[o])

LEMMA ReversedOnceByOrder ==
    ReversedOnce <=>
        \A o \in Order, a \in Account : RefundedOnceAt(o, a) /\ ChargedBackOnceAt(o, a)
  BY DEF ReversedOnce, RefundedOnceAt, ChargedBackOnceAt

(* The step moves order o neither into nor out of a reversal. *)
KeepsReversal(o) ==
    order[o].status \in ReversedStatus \/ order'[o].status \in ReversedStatus =>
        /\ order'[o].status = order[o].status
        /\ order'[o].account = order[o].account
        /\ order'[o].package = order[o].package

(* The step leaves the rows of a reversal of order o on account a alone. *)
KeepsRows(o, a) ==
    \A bizType \in {"refund", "chargeback"} :
        /\ CoinRows(a, bizType, o)' = CoinRows(a, bizType, o)
        /\ \A i \in CoinRows(a, bizType, o) : coinLedger'[a][i] = coinLedger[a][i]

LEMMA SameReversal ==
    ASSUME NEW o \in Order, NEW a \in Account,
           RefundedOnceAt(o, a), ChargedBackOnceAt(o, a),
           KeepsReversal(o), KeepsRows(o, a)
    PROVE  RefundedOnceAt(o, a)' /\ ChargedBackOnceAt(o, a)'
<1>1. order[o].status \in ReversedStatus => Coins(order'[o]) = Coins(order[o])
  BY DEF KeepsReversal, Coins
<1>2. RefundedOnceAt(o, a)'
  <2>1. CASE order[o].status = "refunded" /\ order[o].account = a /\ Coins(order[o]) # 0
    <3>1. PICK i \in DOMAIN coinLedger[a] :
              /\ CoinRows(a, "refund", o) = {i}
              /\ coinLedger[a][i].amount = Coins(order[o])
      BY <2>1 DEF RefundedOnceAt
    <3>2. CoinRows(a, "refund", o)' = {i} /\ coinLedger'[a][i] = coinLedger[a][i]
      BY <3>1 DEF KeepsRows
    <3>3. i \in DOMAIN coinLedger'[a]
      BY <3>2 DEF CoinRows
    <3> QED
      BY <1>1, <2>1, <3>1, <3>2, <3>3 DEF RefundedOnceAt, KeepsReversal, ReversedStatus
  <2>2. CASE order[o].status = "refunded" /\ order[o].account = a /\ Coins(order[o]) = 0
    BY <1>1, <2>2 DEF RefundedOnceAt, KeepsReversal, KeepsRows, ReversedStatus
  <2>3. CASE ~(order[o].status = "refunded" /\ order[o].account = a)
    BY <2>3 DEF RefundedOnceAt, KeepsReversal, KeepsRows, ReversedStatus
  <2> QED
    BY <2>1, <2>2, <2>3
<1>3. ChargedBackOnceAt(o, a)'
  <2> SUFFICES ASSUME NEW i \in CoinRows(a, "chargeback", o)',
                      NEW j \in CoinRows(a, "chargeback", o)'
               PROVE  /\ order'[o].status = "chargeback"
                      /\ order'[o].account = a
                      /\ i = j
                      /\ coinLedger'[a][i].amount <= Coins(order'[o])
    BY DEF ChargedBackOnceAt
  <2>1. i \in CoinRows(a, "chargeback", o) /\ j \in CoinRows(a, "chargeback", o)
    BY DEF KeepsRows
  <2>2. /\ order[o].status = "chargeback"
        /\ order[o].account = a
        /\ i = j
        /\ coinLedger[a][i].amount <= Coins(order[o])
    BY <2>1 DEF ChargedBackOnceAt
  <2>3. coinLedger'[a][i] = coinLedger[a][i]
    BY <2>1 DEF KeepsRows
  <2> QED
    BY <1>1, <2>2, <2>3 DEF KeepsReversal, ReversedStatus
<1> QED
  BY <1>2, <1>3

(* A step that posts nothing, or an entry of another kind or order. *)
LEMMA OtherRows ==
    ASSUME TypeOK, NEW o \in Order, NEW b \in Account,
           \/ UNCHANGED coinLedger
           \/ \E a \in Account, e \in LedgerEntry :
                 /\ PostsCoins(a, e)
                 /\ e.bizType \notin {"refund", "chargeback"} \/ e.bizNo # o \/ a # b
    PROVE  KeepsRows(o, b)
<1>1. CASE UNCHANGED coinLedger
  BY <1>1 DEF KeepsRows, CoinRows
<1>2. ASSUME NEW a \in Account, NEW e \in LedgerEntry, PostsCoins(a, e),
             e.bizType \notin {"refund", "chargeback"} \/ e.bizNo # o \/ a # b
      PROVE  KeepsRows(o, b)
  BY <1>2, PostedRows DEF KeepsRows
<1> QED
  BY <1>1, <1>2

(* Reversing order n takes its coins once: all of them for a refund. *)
LEMMA ReverseReversesOnce ==
    ASSUME TypeOK, ReversedOnce, NEW n \in Order, Refund(n) \/ Chargeback(n)
    PROVE  ReversedOnce'
<1>1. PICK bizType \in {"refund", "chargeback"}, nextStatus \in ReversedStatus :
        /\ Reverse(n, bizType, nextStatus)
        /\ nextStatus = IF bizType = "refund" THEN "refunded" ELSE "chargeback"
  BY DEF Refund, Chargeback, ReversedStatus
<1>2. PICK a \in Account : a = order[n].account
  <2>1. order[n] \in PayOrder
    BY <1>1, ReverseOrder
  <2> QED
    BY <2>1 DEF PayOrder
<1> DEFINE held == coinAvailable[a]
           claw == IF held < Coins(order[n]) THEN held ELSE Coins(order[n])
<1>3. /\ order[n] \in PayOrder
      /\ order[n].status = "paid"
      /\ order'[n].status = nextStatus
      /\ order'[n].account = a
      /\ order'[n].package = order[n].package
      /\ \A o \in Order : o # n => order'[o] = order[o]
  BY <1>1, <1>2, ReverseOrder
<1>4. Coins(order[n]) \in Nat /\ held \in Nat
  BY <1>3, RowAmounts DEF TypeOK, LedgerTypeOK
<1>5. Coins(order'[n]) = Coins(order[n])
  BY <1>3 DEF Coins
<1>6. claw \in Nat /\ claw <= Coins(order[n])
  BY <1>4
<1>7. bizType = "refund" => claw = Coins(order[n])
  BY <1>1, <1>2, <1>4 DEF Reverse
<1>8. \/ claw = 0 /\ UNCHANGED coinLedger
      \/ /\ claw # 0
         /\ \E e \in LedgerEntry :
               /\ PostsCoins(a, e)
               /\ e.amount = claw
               /\ e.bizType = bizType
               /\ e.bizNo = n
  BY <1>1, <1>2, ReversePosts
<1> HIDE DEF claw, held
<1> SUFFICES ASSUME NEW o \in Order, NEW b \in Account
             PROVE  RefundedOnceAt(o, b)' /\ ChargedBackOnceAt(o, b)'
  BY ReversedOnceByOrder DEF ReversedOnce, RefundedOnceAt, ChargedBackOnceAt
<1>9. RefundedOnceAt(o, b) /\ ChargedBackOnceAt(o, b)
  BY ReversedOnceByOrder
<1>10. CASE o # n
  <2>1. KeepsReversal(o)
    BY <1>3, <1>10 DEF KeepsReversal
  <2>2. KeepsRows(o, b)
    BY <1>4, <1>8, <1>10, OtherRows
  <2> QED
    BY <1>9, <2>1, <2>2, SameReversal
<1>11. CASE o = n
  <2>1. CoinRows(b, "refund", n) = {} /\ CoinRows(b, "chargeback", n) = {}
    BY <1>3, <1>9, <1>11 DEF RefundedOnceAt, ChargedBackOnceAt
  <2>2. CASE claw = 0 \/ b # a
    <3>1. KeepsRows(n, b)
      BY <1>4, <1>8, <2>2, OtherRows
    <3>2. CoinRows(b, "refund", n)' = {} /\ CoinRows(b, "chargeback", n)' = {}
      BY <2>1, <3>1 DEF KeepsRows
    <3>3. CASE b = a
      BY <1>1, <1>3, <1>5, <1>7, <1>11, <2>2, <3>2, <3>3
         DEF RefundedOnceAt, ChargedBackOnceAt
    <3>4. CASE b # a
      BY <1>3, <1>11, <3>2, <3>4 DEF RefundedOnceAt, ChargedBackOnceAt
    <3> QED
      BY <3>3, <3>4
  <2>3. CASE claw # 0 /\ b = a
    <3>1. PICK e \in LedgerEntry :
              /\ PostsCoins(a, e)
              /\ e.amount = claw
              /\ e.bizType = bizType
              /\ e.bizNo = n
      BY <1>8, <2>3
    <3>2. PICK i \in DOMAIN coinLedger'[a] :
              /\ CoinRows(a, bizType, n)' = CoinRows(a, bizType, n) \cup {i}
              /\ coinLedger'[a][i] = e
      BY <1>4, <3>1, PostedRow
    <3>3. CoinRows(a, bizType, n)' = {i}
      BY <1>1, <2>1, <2>3, <3>2
    <3>4. \A other \in {"refund", "chargeback"} :
              other # bizType => CoinRows(a, other, n)' = {}
      BY <1>4, <2>1, <2>3, <3>1, PostedRows
    <3>5. CASE bizType = "refund"
      BY <1>1, <1>3, <1>5, <1>7, <1>11, <2>3, <3>1, <3>2, <3>3, <3>4, <3>5
         DEF RefundedOnceAt, ChargedBackOnceAt
    <3>6. CASE bizType = "chargeback"
      BY <1>1, <1>3, <1>5, <1>6, <1>11, <2>3, <3>1, <3>2, <3>3, <3>4, <3>6
         DEF RefundedOnceAt, ChargedBackOnceAt
    <3> QED
      BY <1>1, <3>5, <3>6
  <2> QED
    BY <2>2, <2>3
<1> QED
  BY <1>10, <1>11

LEMMA OtherReversesOnce ==
    ASSUME TypeOK, ReversedOnce, \A o \in Order : KeepsReversal(o),
           \/ UNCHANGED coinLedger
           \/ \E a \in Account, e \in LedgerEntry :
                 PostsCoins(a, e) /\ e.bizType \notin {"refund", "chargeback"}
    PROVE  ReversedOnce'
<1> SUFFICES ASSUME NEW o \in Order, NEW b \in Account
             PROVE  RefundedOnceAt(o, b)' /\ ChargedBackOnceAt(o, b)'
  BY DEF ReversedOnce, RefundedOnceAt, ChargedBackOnceAt
<1>1. RefundedOnceAt(o, b) /\ ChargedBackOnceAt(o, b)
  BY ReversedOnceByOrder
<1>2. KeepsRows(o, b)
  BY OtherRows
<1> QED
  BY <1>1, <1>2, SameReversal

(***************************************************************************)
(* Coins are taken back once, for any number of orders, refunds,           *)
(* chargebacks, gifts and interleavings: all the coins of a refunded       *)
(* order, at most those of one charged back, from the account that was     *)
(* credited, and from no other order.                                      *)
(***************************************************************************)
THEOREM ReverseOnce == Spec => []ReversedOnce
<1>1. Init => ReversedOnce
  BY DEF Init, LedgerInit, OrdersInit, ReversedOnce, CoinRows, NoOrder
<1>2. TypeOK /\ ReversedOnce /\ [Next]_vars => ReversedOnce'
  <2> SUFFICES ASSUME TypeOK, ReversedOnce, [Next]_vars PROVE ReversedOnce'
    OBVIOUS
  <2>1. ASSUME NEW cb \in Callback, Credit(cb) PROVE ReversedOnce'
    <3>1. \A o \in Order : KeepsReversal(o)
      BY <2>1, CreditOrder DEF KeepsReversal, ReversedStatus, OpenStatus
    <3>2. \E a \in Account, e \in LedgerEntry :
              PostsCoins(a, e) /\ e.bizType \notin {"refund", "chargeback"}
      BY <2>1, CreditPosts
    <3> QED
      BY <3>1, <3>2, OtherReversesOnce
  <2>2. ASSUME NEW n \in Order, Refund(n) \/ Chargeback(n) PROVE ReversedOnce'
    BY <2>2, ReverseReversesOnce
  <2>3. ASSUME NEW s \in Account, NEW k \in Key, NEW v \in Video, NEW gift \in Gift,
               NEW count \in GiftCount, SendGift(s, k, v, gift, count), UNCHANGED orderVars
        PROVE  ReversedOnce'
    <3>1. \E a \in Account, e \in LedgerEntry :
              PostsCoins(a, e) /\ e.bizType \notin {"refund", "chargeback"}
      BY <2>3, SendGiftPosts
    <3>2. \A o \in Order : KeepsReversal(o)
      BY <2>3 DEF KeepsReversal, orderVars
    <3> QED
      BY <3>1, <3>2, OtherReversesOnce
  <2>4. CASE Quiet
    <3>1. \A o \in Order : KeepsReversal(o)
      BY <2>4 DEF Quiet, KeepsOrder, KeepsReversal, ReversedStatus, CreditedStatus
    <3> QED
      BY <2>4, <3>1, OtherReversesOnce DEF Quiet
  <2> QED
    BY <2>1, <2>2, <2>3, <2>4, StepKinds
<1> QED
  BY <1>1, <1>2, TypeCorrect, PTL DEF Spec

-----------------------------------------------------------------------------
(* The fiat journal *)

(* Rows of a business type that has none yet are posted, zero amounts left out. *)
LEMMA FreshPost ==
    ASSUME NEW rows, NEW new, \A r \in rows, n \in new : r.bizType # n.bizType
    PROVE  PostFiat(rows, new) = rows \cup NonZero(new)
  BY DEF PostFiat, NonZero

LEMMA RowTypes ==
    ASSUME NEW amount
    PROVE  /\ \A r \in PayRows(amount) : r.bizType = "recharge"
           /\ \A r \in SettleRows(amount) : r.bizType = "settle"
           /\ \A bizType, settled :
                 \A r \in ReverseRows(amount, bizType, settled) : r.bizType = bizType
<1>1. \A account, direction, n, bizType :
         JournalRow(account, direction, n, bizType).bizType = bizType
  BY DEF JournalRow
<1> QED
  BY <1>1 DEF PayRows, SettleRows, ReverseRows

LEMMA NonZeroUnion ==
    ASSUME NEW A, NEW B
    PROVE  /\ NonZero(A \cup B) = NonZero(A) \cup NonZero(B)
           /\ NonZero({}) = {}
  BY DEF NonZero

(* The journal of a row that is paid and not reversed. *)
PaidRows(row) ==
    PayRows(Amount(row)) \cup (IF row.settleAt THEN SettleRows(Amount(row)) ELSE {})

LEMMA JournalOfRow ==
    ASSUME NEW row
    PROVE  /\ row.status \notin CreditedStatus => JournalOf(row) = {}
           /\ row.status = "paid" => JournalOf(row) = NonZero(PaidRows(row))
           /\ row.status = "refunded" => JournalOf(row) =
                 NonZero(PaidRows(row))
                   \cup NonZero(ReverseRows(Amount(row), "refund", row.settleAt))
           /\ row.status = "chargeback" => JournalOf(row) =
                 NonZero(PaidRows(row))
                   \cup NonZero(ReverseRows(Amount(row), "chargeback", row.settleAt))
<1>1. row.status \notin CreditedStatus => JournalOf(row) = {}
  BY DEF JournalOf
<1>2. row.status = "paid" => JournalOf(row) = NonZero(PaidRows(row) \cup {})
  BY DEF JournalOf, PaidRows, CreditedStatus
<1>3. row.status = "refunded" => JournalOf(row) =
          NonZero(PaidRows(row) \cup ReverseRows(Amount(row), "refund", row.settleAt))
  BY DEF JournalOf, PaidRows, CreditedStatus
<1>4. row.status = "chargeback" => JournalOf(row) =
          NonZero(PaidRows(row) \cup ReverseRows(Amount(row), "chargeback", row.settleAt))
  BY DEF JournalOf, PaidRows, CreditedStatus
<1> QED
  BY <1>1, <1>2, <1>3, <1>4, NonZeroUnion

LEMMA PaidRowTypes ==
    ASSUME NEW row
    PROVE  \A r \in NonZero(PaidRows(row)) : r.bizType \in {"recharge", "settle"}
  BY RowTypes DEF PaidRows, NonZero

(* JournalMatchesOrder for one order. *)
JournalMatches(o) ==
    /\ journal[o] = JournalOf(order[o])
    /\ order[o].status = "paid" =>
          order[o].settle = IF order[o].settleAt THEN "settled" ELSE "pending"
    /\ order[o].status \in ReversedStatus => order[o].settle = order[o].status
    /\ order[o].status \in OpenStatus \cup {"closed", "failed"} =>
          order[o].settle = "none" /\ ~order[o].settleAt

LEMMA SameJournal ==
    ASSUME NEW o \in Order, JournalMatches(o),
           order'[o] = order[o], journal'[o] = journal[o]
    PROVE  JournalMatches(o)'
  BY DEF JournalMatches, JournalOf, Amount

(* One order and its journal change. *)
LEMMA OthersMatch ==
    ASSUME TypeOK, JournalMatchesOrder, NEW n \in Order, NEW row, NEW rows,
           order' = [order EXCEPT ![n] = row],
           journal' = [journal EXCEPT ![n] = rows],
           rows = JournalOf(row),
           row.status = "paid" =>
              row.settle = IF row.settleAt THEN "settled" ELSE "pending",
           row.status \in ReversedStatus => row.settle = row.status,
           row.status \in OpenStatus \cup {"closed", "failed"} =>
              row.settle = "none" /\ ~row.settleAt
    PROVE  JournalMatchesOrder'
<1>1. /\ order \in [Order -> PayOrder \cup {NoOrder}]
      /\ journal \in [Order -> SUBSET FiatJournal]
  BY DEF TypeOK, OrdersTypeOK
<1>2. order'[n] = row /\ journal'[n] = rows
  BY <1>1
<1>3. \A o \in Order : o # n => order'[o] = order[o] /\ journal'[o] = journal[o]
  BY <1>1
<1> SUFFICES ASSUME NEW o \in Order PROVE JournalMatches(o)'
  BY DEF JournalMatchesOrder, JournalMatches
<1>4. CASE o = n
  <2>1. JournalOf(order'[n]) = JournalOf(row)
    BY <1>2
  <2> QED
    BY <1>2, <1>4, <2>1 DEF JournalMatches
<1>5. CASE o # n
  <2>1. JournalMatches(o)
    BY DEF JournalMatchesOrder, JournalMatches
  <2> QED
    BY <1>3, <1>5, <2>1, SameJournal
<1> QED
  BY <1>4, <1>5

(* An order that leaves its open status unpaid has no journal. *)
LEMMA CloseMatches ==
    ASSUME TypeOK, JournalMatchesOrder, NEW n \in Order, order[n].status \in OpenStatus,
           NEW status \in {"closed", "failed"},
           order' = [order EXCEPT ![n] = [order[n] EXCEPT !.status = status]],
           UNCHANGED journal
    PROVE  JournalMatchesOrder'
<1> DEFINE row == [order[n] EXCEPT !.status = status]
<1>1. order[n] \in PayOrder /\ journal \in [Order -> SUBSET FiatJournal]
  BY OrderPresent DEF TypeOK, OrdersTypeOK, Status
<1>2. /\ row.status = status
      /\ row.settle = order[n].settle
      /\ row.settleAt = order[n].settleAt
  BY <1>1 DEF PayOrder
<1>3. /\ journal[n] = {}
      /\ order[n].settle = "none"
      /\ ~order[n].settleAt
  BY DEF JournalMatchesOrder, JournalOf, OpenStatus, CreditedStatus
<1>4. journal' = [journal EXCEPT ![n] = {}]
  BY <1>1, <1>3
<1> HIDE DEF row
<1>5. JournalOf(row) = {}
  BY <1>2 DEF JournalOf, CreditedStatus
<1> QED
  BY <1>2, <1>3, <1>4, <1>5, OthersMatch DEF row, ReversedStatus

LEMMA CreateRechargeMatches ==
    ASSUME TypeOK, JournalMatchesOrder,
           NEW a \in Account, NEW k \in Key, NEW p \in Package, NEW ch \in Channel,
           CreateRecharge(a, k, p, ch)
    PROVE  JournalMatchesOrder'
<1> DEFINE row == [account |-> a, key |-> k, package |-> p, channel |-> ch,
                   status |-> "paying", trade |-> NoTrade, settle |-> "none",
                   settleAt |-> FALSE, paidAfterClose |-> FALSE]
<1>1. PICK n \in Order : order[n] = NoOrder /\ order' = [order EXCEPT ![n] = row]
  BY DEF CreateRecharge
<1>2. journal \in [Order -> SUBSET FiatJournal]
  BY DEF TypeOK, OrdersTypeOK
<1>3. journal[n] = {}
  <2>1. NoOrder.status \notin CreditedStatus
    BY DEF NoOrder, CreditedStatus
  <2> QED
    BY <1>1, <2>1, JournalOfRow DEF JournalMatchesOrder
<1>4. journal' = [journal EXCEPT ![n] = {}]
  BY <1>2, <1>3 DEF CreateRecharge
<1>5. row.status = "paying" /\ row.settle = "none" /\ ~row.settleAt
  OBVIOUS
<1> HIDE DEF row
<1>6. JournalOf(row) = {}
  BY <1>5 DEF JournalOf, CreditedStatus
<1> QED
  BY <1>1, <1>4, <1>5, <1>6, OthersMatch DEF ReversedStatus

LEMMA CreditMatches ==
    ASSUME TypeOK, JournalMatchesOrder, NEW cb \in Callback, Credit(cb)
    PROVE  JournalMatchesOrder'
<1> DEFINE n == cb.order
           row == [order[n] EXCEPT !.status = "paid", !.trade = cb.trade,
                                   !.settle = "pending",
                                   !.paidAfterClose = (order[n].status = "closed")]
<1>1. /\ n \in Order
      /\ order[n] \in PayOrder
      /\ order[n].status \in OpenStatus \cup {"closed"}
  BY CreditOrder
<1>2. order' = [order EXCEPT ![n] = row]
  BY DEF Credit
<1>3. /\ row.status = "paid"
      /\ row.settle = "pending"
      /\ row.settleAt = order[n].settleAt
      /\ row.package = order[n].package
  BY <1>1 DEF PayOrder
<1>4. journal[n] = {} /\ ~order[n].settleAt
  BY <1>1 DEF JournalMatchesOrder, JournalOf, OpenStatus, CreditedStatus
<1>5. journal' = [journal EXCEPT ![n] = PostFiat({}, PayRows(Amount(order[n])))]
  BY <1>4 DEF Credit
<1>6. PostFiat({}, PayRows(Amount(order[n]))) = NonZero(PayRows(Amount(order[n])))
  BY DEF PostFiat, NonZero
<1> HIDE DEF row
<1>7. JournalOf(row) = NonZero(PayRows(Amount(order[n])))
  BY <1>3, <1>4, JournalOfRow DEF PaidRows, Amount
<1> QED
  BY <1>1, <1>2, <1>3, <1>4, <1>5, <1>6, <1>7, OthersMatch DEF OpenStatus, ReversedStatus

LEMMA SettleMatches ==
    ASSUME TypeOK, JournalMatchesOrder, NEW n \in Order, SettleOne(n)
    PROVE  JournalMatchesOrder'
<1> DEFINE row == [order[n] EXCEPT !.settle = "settled", !.settleAt = TRUE]
           new == SettleRows(Amount(order[n]))
<1>1. order[n] \in PayOrder /\ order[n].status = "paid" /\ order[n].settle = "pending"
  BY OrderPresent DEF SettleOne, Status
<1>2. order' = [order EXCEPT ![n] = row]
  BY DEF SettleOne
<1>3. /\ row.status = "paid"
      /\ row.settle = "settled"
      /\ row.settleAt
      /\ row.package = order[n].package
  BY <1>1 DEF PayOrder
<1>4. ~order[n].settleAt /\ journal[n] = NonZero(PaidRows(order[n]))
  BY <1>1, JournalOfRow DEF JournalMatchesOrder
<1>5. journal[n] = NonZero(PayRows(Amount(order[n])))
  BY <1>4 DEF PaidRows
<1>6. PostFiat(journal[n], new) = journal[n] \cup NonZero(new)
  <2>1. \A r \in journal[n], m \in new : r.bizType # m.bizType
    BY <1>5, RowTypes DEF NonZero
  <2> HIDE DEF new
  <2> QED
    BY <2>1, FreshPost
<1>7. journal' = [journal EXCEPT ![n] = PostFiat(journal[n], new)]
  BY DEF SettleOne
<1> HIDE DEF row
<1>8. JournalOf(row) = journal[n] \cup NonZero(new)
  <2>1. PaidRows(row) = PayRows(Amount(order[n])) \cup new
    BY <1>3 DEF PaidRows, Amount
  <2> QED
    BY <1>3, <1>5, <2>1, JournalOfRow, NonZeroUnion
<1> HIDE DEF new
<1> QED
  BY <1>1, <1>2, <1>3, <1>6, <1>7, <1>8, OthersMatch DEF OpenStatus, ReversedStatus

LEMMA ReverseMatches ==
    ASSUME TypeOK, JournalMatchesOrder, NEW n \in Order, Refund(n) \/ Chargeback(n)
    PROVE  JournalMatchesOrder'
<1>1. PICK bizType \in {"refund", "chargeback"}, nextStatus \in ReversedStatus :
        /\ Reverse(n, bizType, nextStatus)
        /\ nextStatus = IF bizType = "refund" THEN "refunded" ELSE "chargeback"
  BY DEF Refund, Chargeback, ReversedStatus
<1> DEFINE row == [order[n] EXCEPT !.status = nextStatus, !.settle = nextStatus]
           new == ReverseRows(Amount(order[n]), bizType, order[n].settleAt)
<1>2. order[n] \in PayOrder /\ order[n].status = "paid"
  BY <1>1, ReverseOrder
<1>3. order' = [order EXCEPT ![n] = row]
  BY <1>1 DEF Reverse
<1>4. /\ row.status = nextStatus
      /\ row.settle = nextStatus
      /\ row.settleAt = order[n].settleAt
      /\ row.package = order[n].package
  BY <1>2 DEF PayOrder
<1>5. /\ journal[n] = NonZero(PaidRows(order[n]))
      /\ order[n].settle = IF order[n].settleAt THEN "settled" ELSE "pending"
  BY <1>2, JournalOfRow DEF JournalMatchesOrder
<1>6. (order[n].settle = "settled") = order[n].settleAt
  BY <1>2, <1>5 DEF PayOrder
<1>7. PostFiat(journal[n], new) = journal[n] \cup NonZero(new)
  <2>1. \A r \in journal[n], m \in new : r.bizType # m.bizType
    BY <1>1, <1>5, PaidRowTypes, RowTypes
  <2> HIDE DEF new
  <2> QED
    BY <2>1, FreshPost
<1>8. journal' = [journal EXCEPT ![n] = PostFiat(journal[n], new)]
  BY <1>1, <1>6 DEF Reverse
<1> HIDE DEF row
<1>9. JournalOf(row) = journal[n] \cup NonZero(new)
  <2>1. PaidRows(row) = PaidRows(order[n])
    BY <1>4 DEF PaidRows, Amount
  <2>2. ReverseRows(Amount(row), bizType, row.settleAt) = new
    BY <1>4 DEF Amount
  <2> QED
    BY <1>1, <1>4, <1>5, <2>1, <2>2, JournalOfRow
<1> HIDE DEF new
<1> QED
  BY <1>1, <1>3, <1>4, <1>7, <1>8, <1>9, OthersMatch DEF OpenStatus, ReversedStatus

(***************************************************************************)
(* The fiat journal of an order is what its status and settlement say, for *)
(* any number of orders and every order of payment, settlement and         *)
(* reversal: nothing is posted twice, nothing is dropped as a duplicate.   *)
(***************************************************************************)
THEOREM JournalFollowsOrders == Spec => []JournalMatchesOrder
<1>1. Init => JournalMatchesOrder
  BY DEF Init, OrdersInit, JournalMatchesOrder, JournalOf, NoOrder, CreditedStatus,
         ReversedStatus, OpenStatus
<1>2. TypeOK /\ JournalMatchesOrder /\ [Next]_vars => JournalMatchesOrder'
  <2> SUFFICES ASSUME TypeOK, JournalMatchesOrder, [Next]_vars PROVE JournalMatchesOrder'
    OBVIOUS
  <2>1. ASSUME UNCHANGED <<order, journal>> PROVE JournalMatchesOrder'
    BY <2>1, SameJournal DEF JournalMatchesOrder, JournalMatches
  <2>2. CASE UNCHANGED vars
    BY <2>1, <2>2 DEF vars, orderVars
  <2>3. ASSUME NEW a \in Account, NEW k \in Key, NEW p \in Package, NEW ch \in Channel,
               CreateRecharge(a, k, p, ch)
        PROVE  JournalMatchesOrder'
    BY <2>3, CreateRechargeMatches
  <2>4. ASSUME NEW o \in Order, Expire(o) PROVE JournalMatchesOrder'
    BY <2>1, <2>4 DEF Expire
  <2>5. ASSUME NEW o \in Order, CloseIfExpired(o) PROVE JournalMatchesOrder'
    BY <2>5, CloseMatches DEF CloseIfExpired
  <2>6. ASSUME NEW cb \in Callback, MarkFailed(cb) PROVE JournalMatchesOrder'
    BY <2>6, CloseMatches DEF MarkFailed, Callback
  <2>7. ASSUME NEW cb \in Callback, Credit(cb) PROVE JournalMatchesOrder'
    BY <2>7, CreditMatches
  <2>8. ASSUME NEW o \in Order, SettleOne(o) PROVE JournalMatchesOrder'
    BY <2>8, SettleMatches
  <2>9. ASSUME NEW o \in Order, Refund(o) \/ Chargeback(o) PROVE JournalMatchesOrder'
    BY <2>9, ReverseMatches
  <2>10. ASSUME UNCHANGED orderVars PROVE JournalMatchesOrder'
    BY <2>1, <2>10 DEF orderVars
  <2> QED
    BY <2>2, <2>3, <2>4, <2>5, <2>6, <2>7, <2>8, <2>9, <2>10 DEF Next
<1> QED
  BY <1>1, <1>2, TypeCorrect, PTL DEF Spec

-----------------------------------------------------------------------------
(***************************************************************************)
(* Facts about SumFunction of the community modules: the sum of the values *)
(* of a function with a finite domain.  The sum is defined by a recursive  *)
(* function on the subsets of the domain, which a CHOOSE picks; the lemmas *)
(* down to SumStep show that such a function exists.  Every induction is   *)
(* written as a smallest counterexample: a set of naturals, or of subsets  *)
(* of a finite set, that is not empty has a smallest element.              *)
(***************************************************************************)

(* The element of s that the sum takes out first. *)
One(s) == CHOOSE x \in s : TRUE

(* The sum of f over s, when g sums it over the proper subsets of s. *)
SumOf(f, g, s) == IF s = {} THEN 0 ELSE f[One(s)] + g[s \ {One(s)}]

(* g sums f over every set in D. *)
Adds(f, D, g) == g = [s \in D |-> SumOf(f, g, s)]

UpTo(S, n) == {s \in SUBSET S : Cardinality(s) <= n}

(* A set of naturals that is not empty has a least element. *)
LEMMA SmallestOf ==
    ASSUME NEW B \in SUBSET Nat, B # {}
    PROVE  \E n \in B : \A m \in B : n <= m
<1> DEFINE R == OpToRel(<, Nat)
<1>1. R = {p \in Nat \X Nat : p[1] < p[2]}
  BY DEF OpToRel
<1>2. IsWellFoundedOn(R, Nat)
  BY NatLessThanWellFounded
<1> HIDE DEF R
<1>3. \E n \in B : \A m \in B : ~ (<<m, n>> \in R)
  BY <1>2, WFMin
<1>4. PICK n \in B : \A m \in B : ~ (<<m, n>> \in R)
  BY <1>3
<1>5. \A m \in B : ~ (m < n)
  BY <1>1, <1>4
<1>6. \A m \in B : m \in Int /\ n \in Int /\ n <= m
  BY <1>5
<1> QED
  BY <1>6

(* A set of subsets of a finite set that is not empty has a minimal element. *)
LEMMA SmallestSet ==
    ASSUME NEW S, IsFiniteSet(S), NEW B \in SUBSET (SUBSET S), B # {}
    PROVE  \E T \in B : \A U \in B : U \subseteq T => U = T
<1>1. IsWellFoundedOn(StrictSubsetOrdering(S), SUBSET S)
  BY FS_StrictSubsetOrderingWellFounded, FS_FiniteSubsetsOfFinite
<1>2. \E T \in B : \A U \in B : ~ (<<U, T>> \in StrictSubsetOrdering(S))
  BY <1>1, WFMin
<1> QED
  BY <1>2 DEF StrictSubsetOrdering

LEMMA OneOf == \A s : s # {} => One(s) \in s
  BY DEF One

(* The recursion has a solution, by induction on the size of the subsets. *)
LEMMA AddsExists ==
    ASSUME NEW f, NEW S, IsFiniteSet(S)
    PROVE  \E g : Adds(f, SUBSET S, g)
<1> DEFINE Bad == {n \in Nat : ~ \E g : Adds(f, UpTo(S, n), g)}
<1>1. 0 \notin Bad
  <2>1. UpTo(S, 0) = {{}}
    BY FS_EmptySet, FS_Subset, FS_CardinalityType DEF UpTo
  <2>2. Adds(f, UpTo(S, 0), [s \in {{}} |-> 0])
    BY <2>1 DEF Adds, SumOf
  <2> QED
    BY <2>2
<1>2. ASSUME NEW n \in Nat, NEW g, Adds(f, UpTo(S, n), g)
      PROVE  \E h : Adds(f, UpTo(S, n + 1), h)
  <2> DEFINE h == [s \in UpTo(S, n + 1) |-> SumOf(f, g, s)]
  <2>1. \A s \in UpTo(S, n) : s \in UpTo(S, n + 1) /\ h[s] = g[s]
    BY <1>2, FS_Subset, FS_CardinalityType DEF UpTo, Adds
  <2>2. \A s \in UpTo(S, n + 1) : s # {} => s \ {One(s)} \in UpTo(S, n)
    BY FS_Subset, FS_CardinalityType, FS_RemoveElement, OneOf DEF UpTo
  <2>3. \A s \in UpTo(S, n + 1) : SumOf(f, g, s) = SumOf(f, h, s)
    BY <2>1, <2>2 DEF SumOf
  <2>4. Adds(f, UpTo(S, n + 1), h)
    BY <2>3 DEF Adds
  <2> QED
    BY <2>4
<1>3. Bad = {}
  <2> SUFFICES ASSUME Bad # {} PROVE FALSE
    OBVIOUS
  <2>1. PICK n \in Bad : \A m \in Bad : n <= m
    BY SmallestOf
  <2>2. n # 0 /\ n - 1 \in Nat /\ n - 1 \notin Bad /\ (n - 1) + 1 = n
    BY <1>1, <2>1
  <2>3. PICK g : Adds(f, UpTo(S, n - 1), g)
    BY <2>2
  <2> QED
    BY <1>2, <2>2, <2>3
<1>4. Cardinality(S) \in Nat /\ UpTo(S, Cardinality(S)) = SUBSET S
  BY FS_CardinalityType, FS_Subset DEF UpTo
<1>5. \E g : Adds(f, UpTo(S, Cardinality(S)), g)
  BY <1>3, <1>4
<1> QED
  BY <1>4, <1>5

(* The sum over S is what a solution of the recursion says. *)
LEMMA SumIsAdded ==
    ASSUME NEW f, NEW S, IsFiniteSet(S)
    PROVE  \E g : Adds(f, SUBSET S, g) /\ SumFunctionOnSet(f, S) = g[S]
<1> DEFINE g == CHOOSE g : g = [s \in SUBSET S |-> IF s = {} THEN 0 ELSE LET x == CHOOSE x \in s : TRUE IN f[x] + g[s \ {x}]]
<1>1. SumFunctionOnSet(f, S) = g[S]
  BY DEF SumFunctionOnSet, FoldFunctionOnSet, MapThenFoldSet
<1>2. \E h : h = [s \in SUBSET S |-> IF s = {} THEN 0 ELSE LET x == CHOOSE x \in s : TRUE IN f[x] + h[s \ {x}]]
  <2>1. PICK h : Adds(f, SUBSET S, h)
    BY AddsExists
  <2>2. h = [s \in SUBSET S |-> IF s = {} THEN 0 ELSE LET x == CHOOSE x \in s : TRUE IN f[x] + h[s \ {x}]]
    BY <2>1 DEF Adds, SumOf, One
  <2> QED
    BY <2>2
<1>3. g = [s \in SUBSET S |-> IF s = {} THEN 0 ELSE LET x == CHOOSE x \in s : TRUE IN f[x] + g[s \ {x}]]
  BY <1>2, Zenon
<1>4. Adds(f, SUBSET S, g)
  BY <1>3 DEF Adds, SumOf, One
<1> QED
  BY <1>1, <1>4

(* A solution for S also sums over the subsets of S. *)
LEMMA SumIsValue ==
    ASSUME NEW f, NEW S, IsFiniteSet(S), NEW T \in SUBSET S,
           NEW g, Adds(f, SUBSET S, g)
    PROVE  SumFunctionOnSet(f, T) = g[T]
<1>1. IsFiniteSet(T)
  BY FS_Subset
<1>2. PICK h : Adds(f, SUBSET T, h) /\ SumFunctionOnSet(f, T) = h[T]
  BY <1>1, SumIsAdded
<1> DEFINE Bad == {s \in SUBSET T : g[s] # h[s]}
<1>3. Bad = {}
  <2> SUFFICES ASSUME Bad # {} PROVE FALSE
    OBVIOUS
  <2>1. PICK s \in Bad : \A u \in Bad : u \subseteq s => u = s
    <3>1. Bad \in SUBSET (SUBSET T)
      OBVIOUS
    <3> HIDE DEF Bad
    <3> QED
      BY <1>1, <3>1, SmallestSet
  <2>2. s # {} => s \ {One(s)} \notin Bad
    BY <2>1, OneOf
  <2> QED
    BY ZenonT(60), <1>2, <2>1, <2>2 DEF Adds, SumOf
<1> QED
  BY <1>2, <1>3

(* The sum, unfolded once. *)
LEMMA SumStep ==
    ASSUME NEW f, NEW S, IsFiniteSet(S)
    PROVE  SumFunctionOnSet(f, S) =
             IF S = {} THEN 0
             ELSE f[One(S)] + SumFunctionOnSet(f, S \ {One(S)})
<1>1. PICK g : Adds(f, SUBSET S, g)
  BY AddsExists
<1>2. \A T \in SUBSET S : SumFunctionOnSet(f, T) = g[T]
  BY <1>1, SumIsValue
<1>3. S \in SUBSET S /\ S \ {One(S)} \in SUBSET S
  OBVIOUS
<1>4. g[S] = SumOf(f, g, S)
  BY <1>1 DEF Adds
<1> QED
  BY <1>2, <1>3, <1>4 DEF SumOf

(* A sum of integers is an integer. *)
LEMMA SumInt ==
    ASSUME NEW f, NEW S, IsFiniteSet(S), \A x \in S : f[x] \in Int
    PROVE  SumFunctionOnSet(f, S) \in Int
<1> DEFINE Bad == {s \in SUBSET S : SumFunctionOnSet(f, s) \notin Int}
<1>1. Bad = {}
  <2> SUFFICES ASSUME Bad # {} PROVE FALSE
    OBVIOUS
  <2>1. PICK s \in Bad : \A u \in Bad : u \subseteq s => u = s
    <3>1. Bad \in SUBSET (SUBSET S)
      OBVIOUS
    <3> HIDE DEF Bad
    <3> QED
      BY <3>1, SmallestSet
  <2>2. s # {} => s \ {One(s)} \notin Bad /\ f[One(s)] \in Int
    BY <2>1, OneOf
  <2> QED
    BY <2>1, <2>2, SumStep, FS_Subset
<1> QED
  BY <1>1

(* Any element may be taken out first. *)
LEMMA SumRemove ==
    ASSUME NEW f, NEW S, IsFiniteSet(S), \A x \in S : f[x] \in Int, NEW x \in S
    PROVE  SumFunctionOnSet(f, S) = f[x] + SumFunctionOnSet(f, S \ {x})
<1> DEFINE Sum(s) == SumFunctionOnSet(f, s)
           Bad == {s \in SUBSET S : \E y \in s : Sum(s) # f[y] + Sum(s \ {y})}
<1>1. Bad = {}
  <2> SUFFICES ASSUME Bad # {} PROVE FALSE
    OBVIOUS
  <2>1. PICK s \in Bad : \A u \in Bad : u \subseteq s => u = s
    <3>1. Bad \in SUBSET (SUBSET S)
      OBVIOUS
    <3> HIDE DEF Bad
    <3> QED
      BY <3>1, SmallestSet
  <2>2. PICK y \in s : Sum(s) # f[y] + Sum(s \ {y})
    BY <2>1
  <2> DEFINE z == One(s)
  <2>3. z \in s /\ z \in S /\ y \in S
    BY <2>1, <2>2, OneOf
  <2>4. Sum(s) = f[z] + Sum(s \ {z})
    BY <2>1, <2>2, SumStep, FS_Subset
  <2>5. z # y
    BY <2>2, <2>4
  <2> DEFINE both == s \ {y, z}
  <2>6. Sum(s \ {z}) = f[y] + Sum(both)
    <3>1. s \ {z} \notin Bad
      BY <2>1, <2>3
    <3>2. y \in s \ {z} /\ (s \ {z}) \ {y} = both
      BY <2>5
    <3> QED
      BY <3>1, <3>2, <2>1
  <2>7. Sum(s \ {y}) = f[z] + Sum(both)
    <3>1. s \ {y} \notin Bad
      BY <2>1, <2>3
    <3>2. z \in s \ {y} /\ (s \ {y}) \ {z} = both
      BY <2>3, <2>5
    <3> QED
      BY <3>1, <3>2, <2>1
  <2>8. Sum(both) \in Int
    <3>1. IsFiniteSet(both) /\ \A v \in both : f[v] \in Int
      BY <2>1, FS_Subset
    <3> QED
      BY <3>1, SumInt
  <2>9. f[y] \in Int /\ f[z] \in Int
    BY <2>3
  <2> HIDE DEF z, both, Sum
  <2> QED
    BY <2>2, <2>4, <2>6, <2>7, <2>8, <2>9
<1>2. S \notin Bad
  BY <1>1
<1> QED
  BY <1>2

(* Only the values on the set matter. *)
LEMMA SumSame ==
    ASSUME NEW f, NEW g, NEW S, IsFiniteSet(S), \A x \in S : f[x] = g[x]
    PROVE  SumFunctionOnSet(f, S) = SumFunctionOnSet(g, S)
<1> DEFINE Bad == {s \in SUBSET S : SumFunctionOnSet(f, s) # SumFunctionOnSet(g, s)}
<1>1. Bad = {}
  <2> SUFFICES ASSUME Bad # {} PROVE FALSE
    OBVIOUS
  <2>1. PICK s \in Bad : \A u \in Bad : u \subseteq s => u = s
    <3>1. Bad \in SUBSET (SUBSET S)
      OBVIOUS
    <3> HIDE DEF Bad
    <3> QED
      BY <3>1, SmallestSet
  <2>2. s # {} => s \ {One(s)} \notin Bad /\ f[One(s)] = g[One(s)]
    BY <2>1, OneOf
  <2>3. IsFiniteSet(s)
    BY FS_Subset
  <2> QED
    BY <2>1, <2>2, <2>3, SumStep
<1> QED
  BY <1>1

-----------------------------------------------------------------------------
(* Sums of functions *)

(* The empty sum. *)
LEMMA SumNone ==
    ASSUME NEW f, DOMAIN f = {}
    PROVE  SumFunction(f) = 0
<1>1. IsFiniteSet({})
  BY FS_EmptySet
<1> QED
  BY <1>1, SumStep DEF SumFunction

(* A sum of integers is an integer. *)
LEMMA SumType ==
    ASSUME NEW S, IsFiniteSet(S), NEW f \in [S -> Int]
    PROVE  SumFunction(f) \in Int
<1>1. DOMAIN f = S /\ \A x \in S : f[x] \in Int
  OBVIOUS
<1> QED
  BY <1>1, SumInt DEF SumFunction

(* One more value is added. *)
LEMMA SumOneMore ==
    ASSUME NEW S, IsFiniteSet(S), NEW x, x \notin S,
           NEW f \in [S -> Int], NEW g \in [S \cup {x} -> Int],
           \A y \in S : g[y] = f[y]
    PROVE  SumFunction(g) = SumFunction(f) + g[x]
<1> DEFINE T == S \cup {x}
<1>1. IsFiniteSet(T) /\ T \ {x} = S
  BY FS_AddElement
<1>2. \A y \in T : g[y] \in Int
  OBVIOUS
<1>3. SumFunctionOnSet(g, T) = g[x] + SumFunctionOnSet(g, S)
  <2>1. x \in T
    OBVIOUS
  <2> HIDE DEF T
  <2>2. SumFunctionOnSet(g, T) = g[x] + SumFunctionOnSet(g, T \ {x})
    BY <1>1, <1>2, <2>1, SumRemove
  <2> QED
    BY <1>1, <2>2
<1>4. SumFunctionOnSet(g, S) = SumFunctionOnSet(f, S)
  BY SumSame
<1>5. SumFunctionOnSet(f, S) \in Int /\ g[x] \in Int
  BY SumInt
<1>6. DOMAIN f = S /\ DOMAIN g = T
  OBVIOUS
<1> HIDE DEF T
<1> QED
  BY <1>3, <1>4, <1>5, <1>6 DEF SumFunction

(* The sum of one value. *)
LEMMA SumSingle ==
    ASSUME NEW x, NEW f \in [{x} -> Int]
    PROVE  SumFunction(f) = f[x]
<1> DEFINE none == [y \in {} |-> 0]
<1>1. SumFunction(none) = 0
  BY SumNone
<1>2. IsFiniteSet({}) /\ none \in [{} -> Int] /\ f \in [{} \cup {x} -> Int]
  <2>1. {} \cup {x} = {x}
    OBVIOUS
  <2> QED
    BY <2>1, FS_EmptySet
<1> HIDE DEF none
<1>3. SumFunction(f) = SumFunction(none) + f[x]
  BY ZenonT(60), <1>2, SumOneMore
<1>4. f[x] \in Int
  OBVIOUS
<1> QED
  BY <1>1, <1>3, <1>4

(* One value is taken out. *)
LEMMA SumOneLess ==
    ASSUME NEW S, IsFiniteSet(S), NEW x \in S,
           NEW f \in [S -> Int], NEW g \in [S \ {x} -> Int],
           \A y \in S \ {x} : g[y] = f[y]
    PROVE  SumFunction(g) = SumFunction(f) - f[x]
<1> DEFINE T == S \ {x}
<1>1. IsFiniteSet(T) /\ x \notin T /\ T \cup {x} = S
  BY FS_RemoveElement
<1>2. \A y \in T : f[y] = g[y]
  OBVIOUS
<1>3. g \in [T -> Int] /\ f \in [T \cup {x} -> Int]
  BY <1>1
<1> HIDE DEF T
<1>4. SumFunction(f) = SumFunction(g) + f[x]
  BY <1>1, <1>2, <1>3, SumOneMore
<1>5. SumFunction(g) \in Int /\ f[x] \in Int
  BY <1>1, <1>3, SumType
<1> QED
  BY <1>4, <1>5

(* One value is changed. *)
LEMMA SumOneChanged ==
    ASSUME NEW S, IsFiniteSet(S), NEW x \in S,
           NEW f \in [S -> Int], NEW g \in [S -> Int],
           \A y \in S : y # x => g[y] = f[y]
    PROVE  SumFunction(g) = SumFunction(f) - f[x] + g[x]
<1> DEFINE T == S \ {x}
           h == [y \in T |-> f[y]]
<1>1. IsFiniteSet(T) /\ x \notin T /\ T \cup {x} = S
  BY FS_RemoveElement
<1>2. \A y \in T : g[y] = h[y]
  OBVIOUS
<1>3. /\ h \in [T -> Int]
      /\ g \in [T \cup {x} -> Int]
      /\ \A y \in S \ {x} : h[y] = f[y]
      /\ h \in [S \ {x} -> Int]
  BY <1>1
<1> HIDE DEF T, h
<1>4. SumFunction(g) = SumFunction(h) + g[x]
  BY <1>1, <1>2, <1>3, SumOneMore
<1>5. SumFunction(h) = SumFunction(f) - f[x]
  BY <1>3, SumOneLess
<1>6. SumFunction(h) \in Int /\ SumFunction(f) \in Int /\ f[x] \in Int /\ g[x] \in Int
  BY <1>1, <1>3, SumType
<1> QED
  BY <1>4, <1>5, <1>6

(* A sum of zeros. *)
LEMMA SumZero ==
    ASSUME NEW S, IsFiniteSet(S), NEW f, DOMAIN f = S, \A x \in S : f[x] = 0
    PROVE  SumFunction(f) = 0
<1> DEFINE Bad == {s \in SUBSET S : SumFunctionOnSet(f, s) # 0}
<1>1. Bad = {}
  <2> SUFFICES ASSUME Bad # {} PROVE FALSE
    OBVIOUS
  <2>1. PICK s \in Bad : \A u \in Bad : u \subseteq s => u = s
    <3>1. Bad \in SUBSET (SUBSET S)
      OBVIOUS
    <3> HIDE DEF Bad
    <3> QED
      BY <3>1, SmallestSet
  <2>2. s # {} => s \ {One(s)} \notin Bad /\ f[One(s)] = 0
    BY <2>1, OneOf
  <2>3. IsFiniteSet(s)
    BY FS_Subset
  <2> QED
    BY <2>1, <2>2, <2>3, SumStep
<1> QED
  BY <1>1 DEF SumFunction

(* A sum of naturals is a natural, and no less than any of them. *)
LEMMA SumBounds ==
    ASSUME NEW S, IsFiniteSet(S), NEW f \in [S -> Nat]
    PROVE  /\ SumFunction(f) \in Nat
           /\ \A x \in S : f[x] <= SumFunction(f)
<1> DEFINE Bad == {s \in SUBSET S : SumFunctionOnSet(f, s) \notin Nat}
<1>1. \A x \in S : f[x] \in Int /\ f[x] \in Nat
  OBVIOUS
<1>2. Bad = {}
  <2> SUFFICES ASSUME Bad # {} PROVE FALSE
    OBVIOUS
  <2>1. PICK s \in Bad : \A u \in Bad : u \subseteq s => u = s
    <3>1. Bad \in SUBSET (SUBSET S)
      OBVIOUS
    <3> HIDE DEF Bad
    <3> QED
      BY <3>1, SmallestSet
  <2>2. s # {} => s \ {One(s)} \notin Bad /\ f[One(s)] \in Nat
    BY <2>1, OneOf
  <2>3. IsFiniteSet(s)
    BY FS_Subset
  <2>4. s = {} => SumFunctionOnSet(f, s) = 0
    BY <2>3, SumStep
  <2>5. s # {} => SumFunctionOnSet(f, s) = f[One(s)] + SumFunctionOnSet(f, s \ {One(s)})
    BY <2>3, SumStep
  <2>6. s # {} => SumFunctionOnSet(f, s \ {One(s)}) \in Nat
    BY <2>2
  <2>7. s # {} => SumFunctionOnSet(f, s) \in Nat
    BY <2>2, <2>5, <2>6
  <2> QED
    BY <2>1, <2>4, <2>7
<1>3. \A s \in SUBSET S : SumFunctionOnSet(f, s) \in Nat
  BY <1>2
<1>4. ASSUME NEW x \in S
      PROVE  f[x] <= SumFunctionOnSet(f, S)
  <2>1. SumFunctionOnSet(f, S) = f[x] + SumFunctionOnSet(f, S \ {x})
    BY <1>1, SumRemove
  <2>2. SumFunctionOnSet(f, S \ {x}) \in Nat /\ f[x] \in Nat
    BY <1>3
  <2> QED
    BY <2>1, <2>2
<1>5. DOMAIN f = S
  OBVIOUS
<1> QED
  BY <1>3, <1>4, <1>5 DEF SumFunction

(* The sum over two disjoint sets. *)
LEMMA SumUnion ==
    ASSUME NEW S, NEW T, IsFiniteSet(S), IsFiniteSet(T), S \cap T = {},
           NEW h, \A x \in S \cup T : h[x] \in Int
    PROVE  SumFunctionOnSet(h, S \cup T) = SumFunctionOnSet(h, S) + SumFunctionOnSet(h, T)
<1> DEFINE Sum(s) == SumFunctionOnSet(h, s)
           Bad == {s \in SUBSET S : Sum(s \cup T) # Sum(s) + Sum(T)}
<1>1. \A s \in SUBSET S :
         /\ IsFiniteSet(s) /\ IsFiniteSet(s \cup T)
         /\ \A x \in s \cup T : h[x] \in Int
         /\ Sum(s) \in Int /\ Sum(T) \in Int
  <2> TAKE s \in SUBSET S
  <2>1. IsFiniteSet(s)
    BY FS_Subset
  <2>2. IsFiniteSet(s \cup T)
    BY <2>1, FS_Union
  <2>3. \A x \in s \cup T : h[x] \in Int
    OBVIOUS
  <2> QED
    BY <2>1, <2>2, <2>3, SumInt
<1>2. Bad = {}
  <2> SUFFICES ASSUME Bad # {} PROVE FALSE
    OBVIOUS
  <2>1. PICK s \in Bad : \A u \in Bad : u \subseteq s => u = s
    <3>1. Bad \in SUBSET (SUBSET S)
      OBVIOUS
    <3> HIDE DEF Bad
    <3> QED
      BY <3>1, SmallestSet
  <2>2. s # {}
    <3>1. Sum({}) = 0
      BY FS_EmptySet, SumStep
    <3>2. {} \cup T = T
      OBVIOUS
    <3>3. Sum(T) \in Int
      BY <1>1
    <3> HIDE DEF Sum
    <3>4. Sum({} \cup T) = Sum({}) + Sum(T)
      BY <3>1, <3>2, <3>3
    <3> QED
      BY <2>1, <3>4
  <2>3. PICK x \in s : TRUE
    BY <2>2
  <2> DEFINE u == s \ {x}
  <2>4. u \in SUBSET S /\ u \notin Bad
    BY <2>1, <2>3
  <2>5. Sum(s) = h[x] + Sum(u)
    BY <1>1, SumRemove
  <2>6. Sum(s \cup T) = h[x] + Sum(u \cup T)
    <3>1. x \in s \cup T /\ (s \cup T) \ {x} = u \cup T
      OBVIOUS
    <3>2. Sum(s \cup T) = h[x] + Sum((s \cup T) \ {x})
      BY <1>1, <3>1, SumRemove
    <3> QED
      BY <3>1, <3>2
  <2>7. Sum(u \cup T) = Sum(u) + Sum(T)
    BY <2>4
  <2>8. h[x] \in Int /\ Sum(u) \in Int /\ Sum(T) \in Int
    BY <1>1, <2>4
  <2>9. Sum(s \cup T) # Sum(s) + Sum(T)
    BY <2>1
  <2> HIDE DEF Sum, u, Bad
  <2> QED
    BY <2>5, <2>6, <2>7, <2>8, <2>9
<1>3. Sum(S \cup T) = Sum(S) + Sum(T)
  BY <1>2
<1> QED
  BY <1>3

-----------------------------------------------------------------------------
(* Tallies of journal rows *)

DebitOf(r) == IF r.direction = "debit" THEN r.amount ELSE 0
CreditOf(r) == IF r.direction = "credit" THEN r.amount ELSE 0

(* The rows, zero amounts left out, have debits d and credits c. *)
Tally(rows, d, c) ==
    /\ rows \subseteq FiatJournal
    /\ IsFiniteSet(rows)
    /\ Debits(NonZero(rows)) = d
    /\ Credits(NonZero(rows)) = c

LEMMA RowAmountsAreInt ==
    ASSUME NEW rows \in SUBSET FiatJournal
    PROVE  /\ [r \in rows |-> DebitOf(r)] \in [rows -> Int]
           /\ [r \in rows |-> CreditOf(r)] \in [rows -> Int]
           /\ Debits(rows) = SumFunction([r \in rows |-> DebitOf(r)])
           /\ Credits(rows) = SumFunction([r \in rows |-> CreditOf(r)])
<1>1. \A r \in rows : DebitOf(r) \in Int /\ CreditOf(r) \in Int
  BY DEF DebitOf, CreditOf, FiatJournal
<1>2. /\ Debits(rows) = SumFunction([r \in rows |-> DebitOf(r)])
      /\ Credits(rows) = SumFunction([r \in rows |-> CreditOf(r)])
  BY DEF Debits, Credits, DebitOf, CreditOf
<1> QED
  BY <1>1, <1>2

LEMMA TallyNone == Tally({}, 0, 0)
<1>1. NonZero({}) = {}
  BY DEF NonZero
<1>2. Debits({}) = 0 /\ Credits({}) = 0
  BY SumNone DEF Debits, Credits
<1> QED
  BY <1>1, <1>2, FS_EmptySet DEF Tally

(* Rows of two parts of the journal that share none. *)
LEMMA TallyUnion ==
    ASSUME NEW R, NEW S, R \cap S = {}, NEW d1, NEW c1, NEW d2, NEW c2,
           Tally(R, d1, c1), Tally(S, d2, c2)
    PROVE  Tally(R \cup S, d1 + d2, c1 + c2)
<1> DEFINE A == NonZero(R)
           B == NonZero(S)
<1>1. /\ IsFiniteSet(A) /\ IsFiniteSet(B) /\ IsFiniteSet(R \cup S)
      /\ A \in SUBSET FiatJournal /\ B \in SUBSET FiatJournal
      /\ A \cup B \in SUBSET FiatJournal
      /\ R \cup S \subseteq FiatJournal
  BY FS_Subset, FS_Union DEF Tally, NonZero
<1>2. A \cap B = {} /\ NonZero(R \cup S) = A \cup B
  BY DEF NonZero
<1> HIDE DEF A, B
<1>3. Debits(A \cup B) = Debits(A) + Debits(B)
  <2> DEFINE f == [r \in A |-> DebitOf(r)]
             g == [r \in B |-> DebitOf(r)]
             h == [r \in A \cup B |-> DebitOf(r)]
  <2>1. /\ f \in [A -> Int] /\ g \in [B -> Int] /\ h \in [A \cup B -> Int]
        /\ Debits(A) = SumFunction(f) /\ Debits(B) = SumFunction(g)
        /\ Debits(A \cup B) = SumFunction(h)
    BY <1>1, RowAmountsAreInt
  <2>2. /\ \A x \in A : h[x] = f[x]
        /\ \A x \in B : h[x] = g[x]
        /\ \A x \in A \cup B : h[x] \in Int
    BY <2>1
  <2> HIDE DEF f, g, h
  <2>3. SumFunctionOnSet(h, A) = SumFunctionOnSet(f, A)
    BY <1>1, <2>2, SumSame
  <2>4. SumFunctionOnSet(h, B) = SumFunctionOnSet(g, B)
    BY <1>1, <2>2, SumSame
  <2>5. SumFunctionOnSet(h, A \cup B) = SumFunctionOnSet(h, A) + SumFunctionOnSet(h, B)
    BY <1>1, <1>2, <2>2, SumUnion
  <2>6. DOMAIN f = A /\ DOMAIN g = B /\ DOMAIN h = A \cup B
    BY <2>1
  <2> QED
    BY <2>1, <2>3, <2>4, <2>5, <2>6 DEF SumFunction
<1>4. Credits(A \cup B) = Credits(A) + Credits(B)
  <2> DEFINE f == [r \in A |-> CreditOf(r)]
             g == [r \in B |-> CreditOf(r)]
             h == [r \in A \cup B |-> CreditOf(r)]
  <2>1. /\ f \in [A -> Int] /\ g \in [B -> Int] /\ h \in [A \cup B -> Int]
        /\ Credits(A) = SumFunction(f) /\ Credits(B) = SumFunction(g)
        /\ Credits(A \cup B) = SumFunction(h)
    BY <1>1, RowAmountsAreInt
  <2>2. /\ \A x \in A : h[x] = f[x]
        /\ \A x \in B : h[x] = g[x]
        /\ \A x \in A \cup B : h[x] \in Int
    BY <2>1
  <2> HIDE DEF f, g, h
  <2>3. SumFunctionOnSet(h, A) = SumFunctionOnSet(f, A)
    BY <1>1, <2>2, SumSame
  <2>4. SumFunctionOnSet(h, B) = SumFunctionOnSet(g, B)
    BY <1>1, <2>2, SumSame
  <2>5. SumFunctionOnSet(h, A \cup B) = SumFunctionOnSet(h, A) + SumFunctionOnSet(h, B)
    BY <1>1, <1>2, <2>2, SumUnion
  <2>6. DOMAIN f = A /\ DOMAIN g = B /\ DOMAIN h = A \cup B
    BY <2>1
  <2> QED
    BY <2>1, <2>3, <2>4, <2>5, <2>6 DEF SumFunction
<1> QED
  BY <1>1, <1>2, <1>3, <1>4 DEF Tally, A, B

LEMMA TallyRow ==
    ASSUME NEW n \in FiatJournal
    PROVE  Tally({n}, DebitOf(n), CreditOf(n))
<1>1. IsFiniteSet({n})
  BY FS_Singleton
<1>2. n.amount \in Nat
  BY DEF FiatJournal
<1>3. CASE n.amount = 0
  <2>1. NonZero({n}) = {} /\ DebitOf(n) = 0 /\ CreditOf(n) = 0
    BY <1>3 DEF NonZero, DebitOf, CreditOf
  <2>2. Debits({}) = 0 /\ Credits({}) = 0
    BY SumNone DEF Debits, Credits
  <2> QED
    BY <1>1, <2>1, <2>2 DEF Tally
<1>4. CASE n.amount # 0
  <2>1. NonZero({n}) = {n}
    BY <1>4 DEF NonZero
  <2>2. {n} \in SUBSET FiatJournal
    OBVIOUS
  <2>3. SumFunction([r \in {n} |-> DebitOf(r)]) = DebitOf(n)
    <3>1. [r \in {n} |-> DebitOf(r)] \in [{n} -> Int]
      BY <2>2, RowAmountsAreInt
    <3> QED
      BY <3>1, SumSingle
  <2>4. SumFunction([r \in {n} |-> CreditOf(r)]) = CreditOf(n)
    <3>1. [r \in {n} |-> CreditOf(r)] \in [{n} -> Int]
      BY <2>2, RowAmountsAreInt
    <3> QED
      BY <3>1, SumSingle
  <2> QED
    BY <1>1, <2>1, <2>2, <2>3, <2>4, RowAmountsAreInt DEF Tally
<1> QED
  BY <1>3, <1>4

LEMMA JournalRowType ==
    ASSUME NEW account \in JournalAccount, NEW direction \in {"debit", "credit"},
           NEW amount \in Nat, NEW bizType \in {"recharge", "settle", "refund", "chargeback"}
    PROVE  /\ JournalRow(account, direction, amount, bizType) \in FiatJournal
           /\ Tally({JournalRow(account, direction, amount, bizType)},
                    IF direction = "debit" THEN amount ELSE 0,
                    IF direction = "credit" THEN amount ELSE 0)
<1> DEFINE n == JournalRow(account, direction, amount, bizType)
<1>1. n \in FiatJournal
  BY DEF JournalRow, FiatJournal
<1>2. /\ DebitOf(n) = IF direction = "debit" THEN amount ELSE 0
      /\ CreditOf(n) = IF direction = "credit" THEN amount ELSE 0
  BY DEF JournalRow, DebitOf, CreditOf
<1>3. Tally({n}, DebitOf(n), CreditOf(n))
  BY <1>1, TallyRow
<1> QED
  BY <1>1, <1>2, <1>3

(* The rows one operation posts on one account. *)
On(rows, account) == {r \in rows : r.account = account}

LEMMA PayRowsOn ==
    ASSUME NEW amount \in Nat \ {0}
    PROVE  /\ Tally(On(PayRows(amount), "channel_receivable"), Net(amount), 0)
           /\ Tally(On(PayRows(amount), "channel_fee"), Fee(amount), 0)
           /\ Tally(On(PayRows(amount), "user_prepay"), 0, amount)
           /\ Tally(On(PayRows(amount), "merchant_bank"), 0, 0)
<1>1. Net(amount) \in Nat /\ Fee(amount) \in Nat /\ amount \in Nat
  BY FeeBounds
<1>2. /\ On(PayRows(amount), "channel_receivable")
            = {JournalRow("channel_receivable", "debit", Net(amount), "recharge")}
      /\ On(PayRows(amount), "channel_fee")
            = {JournalRow("channel_fee", "debit", Fee(amount), "recharge")}
      /\ On(PayRows(amount), "user_prepay")
            = {JournalRow("user_prepay", "credit", amount, "recharge")}
      /\ On(PayRows(amount), "merchant_bank") = {}
  BY DEF On, PayRows, JournalRow
<1> QED
  BY ZenonT(60), <1>1, <1>2, JournalRowType, TallyNone DEF JournalAccount

LEMMA SettleRowsOn ==
    ASSUME NEW amount \in Nat \ {0}
    PROVE  /\ Tally(On(SettleRows(amount), "channel_receivable"), 0, Net(amount))
           /\ Tally(On(SettleRows(amount), "channel_fee"), 0, 0)
           /\ Tally(On(SettleRows(amount), "user_prepay"), 0, 0)
           /\ Tally(On(SettleRows(amount), "merchant_bank"), Net(amount), 0)
<1>1. Net(amount) \in Nat
  BY FeeBounds
<1>2. /\ On(SettleRows(amount), "channel_receivable")
            = {JournalRow("channel_receivable", "credit", Net(amount), "settle")}
      /\ On(SettleRows(amount), "channel_fee") = {}
      /\ On(SettleRows(amount), "user_prepay") = {}
      /\ On(SettleRows(amount), "merchant_bank")
            = {JournalRow("merchant_bank", "debit", Net(amount), "settle")}
  BY DEF On, SettleRows, JournalRow
<1> QED
  BY <1>1, <1>2, JournalRowType, TallyNone DEF JournalAccount

LEMMA ReverseRowsOn ==
    ASSUME NEW amount \in Nat \ {0}, NEW bizType \in {"refund", "chargeback"},
           NEW settled \in BOOLEAN
    PROVE  LET rows == ReverseRows(amount, bizType, settled)
               back == IF settled THEN Net(amount) ELSE 0
           IN  /\ Tally(On(rows, "channel_receivable"), back, Net(amount))
               /\ Tally(On(rows, "channel_fee"), 0, Fee(amount))
               /\ Tally(On(rows, "user_prepay"), amount, 0)
               /\ Tally(On(rows, "merchant_bank"), 0, back)
<1> DEFINE rows == ReverseRows(amount, bizType, settled)
           back == IF settled THEN Net(amount) ELSE 0
           owed == JournalRow("channel_receivable", "credit", Net(amount), bizType)
           paid == JournalRow("channel_receivable", "debit", Net(amount), bizType)
<1>1. Net(amount) \in Nat /\ Fee(amount) \in Nat /\ amount \in Nat
  BY FeeBounds
<1>2. /\ On(rows, "channel_fee")
            = {JournalRow("channel_fee", "credit", Fee(amount), bizType)}
      /\ On(rows, "user_prepay")
            = {JournalRow("user_prepay", "debit", amount, bizType)}
  BY DEF On, ReverseRows, JournalRow
<1>3. Tally(On(rows, "channel_fee"), 0, Fee(amount))
      /\ Tally(On(rows, "user_prepay"), amount, 0)
  BY <1>1, <1>2, JournalRowType DEF JournalAccount
<1>4. Tally(On(rows, "merchant_bank"), 0, back)
  <2>1. CASE settled
    <3>1. On(rows, "merchant_bank")
            = {JournalRow("merchant_bank", "credit", Net(amount), bizType)}
      BY <2>1 DEF On, ReverseRows, JournalRow
    <3> QED
      BY <1>1, <2>1, <3>1, JournalRowType DEF JournalAccount
  <2>2. CASE ~settled
    <3>1. On(rows, "merchant_bank") = {}
      BY <2>2 DEF On, ReverseRows, JournalRow
    <3> QED
      BY <2>2, <3>1, TallyNone
  <2> QED
    BY <2>1, <2>2
<1>5. Tally(On(rows, "channel_receivable"), back, Net(amount))
  <2>1. Tally({owed}, 0, Net(amount)) /\ Tally({paid}, Net(amount), 0)
    BY <1>1, JournalRowType DEF JournalAccount
  <2>2. CASE settled
    <3>1. On(rows, "channel_receivable") = {owed} \cup {paid}
      BY <2>2 DEF On, ReverseRows, JournalRow
    <3>2. {owed} \cap {paid} = {}
      BY DEF JournalRow
    <3> HIDE DEF rows, owed, paid
    <3>3. Tally({owed} \cup {paid}, 0 + Net(amount), Net(amount) + 0)
      BY <2>1, <3>2, TallyUnion
    <3> QED
      BY <1>1, <2>2, <3>1, <3>3
  <2>3. CASE ~settled
    <3>1. On(rows, "channel_receivable") = {owed}
      BY <2>3 DEF On, ReverseRows, JournalRow
    <3> QED
      BY <2>1, <2>3, <3>1
  <2> QED
    BY <2>2, <2>3
<1> QED
  BY <1>3, <1>4, <1>5

(* All the rows one operation posts. *)
LEMMA TallyWhole ==
    ASSUME NEW R \in SUBSET FiatJournal,
           NEW d1 \in Int, NEW c1 \in Int, NEW d2 \in Int, NEW c2 \in Int,
           NEW d3 \in Int, NEW c3 \in Int, NEW d4 \in Int, NEW c4 \in Int,
           Tally(On(R, "channel_receivable"), d1, c1), Tally(On(R, "channel_fee"), d2, c2),
           Tally(On(R, "user_prepay"), d3, c3), Tally(On(R, "merchant_bank"), d4, c4)
    PROVE  Tally(R, (d1 + d2) + (d3 + d4), (c1 + c2) + (c3 + c4))
<1> DEFINE A == On(R, "channel_receivable")
           B == On(R, "channel_fee")
           C == On(R, "user_prepay")
           D == On(R, "merchant_bank")
<1>1. /\ A \cap B = {} /\ C \cap D = {} /\ (A \cup B) \cap (C \cup D) = {}
      /\ (A \cup B) \cup (C \cup D) = R
  BY DEF On, FiatJournal, JournalAccount
<1> HIDE DEF A, B, C, D
<1>2. Tally(A, d1, c1) /\ Tally(B, d2, c2) /\ Tally(C, d3, c3) /\ Tally(D, d4, c4)
  BY DEF A, B, C, D
<1>3. Tally(A \cup B, d1 + d2, c1 + c2) /\ Tally(C \cup D, d3 + d4, c3 + c4)
  BY <1>1, <1>2, TallyUnion
<1>4. Tally((A \cup B) \cup (C \cup D), (d1 + d2) + (d3 + d4), (c1 + c2) + (c3 + c4))
  BY <1>1, <1>3, TallyUnion
<1> QED
  BY <1>1, <1>4

(* Each operation posts as much on the debit as on the credit side. *)
LEMMA OperationsBalance ==
    ASSUME NEW amount \in Nat \ {0}, NEW bizType \in {"refund", "chargeback"},
           NEW settled \in BOOLEAN
    PROVE  /\ Tally(PayRows(amount), amount, amount)
           /\ Tally(SettleRows(amount), Net(amount), Net(amount))
           /\ LET moved == amount + (IF settled THEN Net(amount) ELSE 0)
              IN  Tally(ReverseRows(amount, bizType, settled), moved, moved)
<1>1. /\ Net(amount) \in Int /\ Fee(amount) \in Int /\ amount \in Int
      /\ Net(amount) + Fee(amount) = amount
  BY FeeBounds DEF Net
<1>2. /\ PayRows(amount) \in SUBSET FiatJournal
      /\ SettleRows(amount) \in SUBSET FiatJournal
      /\ ReverseRows(amount, bizType, settled) \in SUBSET FiatJournal
  BY JournalRowsType
<1>3. Tally(PayRows(amount), amount, amount)
  <2>1. Tally(PayRows(amount), (Net(amount) + Fee(amount)) + (0 + 0), (0 + 0) + (amount + 0))
    BY <1>1, <1>2, PayRowsOn, TallyWhole
  <2> QED
    BY <1>1, <2>1
<1>4. Tally(SettleRows(amount), Net(amount), Net(amount))
  <2>1. Tally(SettleRows(amount), (0 + 0) + (0 + Net(amount)), (Net(amount) + 0) + (0 + 0))
    BY <1>1, <1>2, SettleRowsOn, TallyWhole
  <2> QED
    BY <1>1, <2>1
<1> DEFINE back == IF settled THEN Net(amount) ELSE 0
           rows == ReverseRows(amount, bizType, settled)
<1>5. Tally(rows, amount + back, amount + back)
  <2>1. back \in Int /\ rows \in SUBSET FiatJournal
    BY <1>1, <1>2
  <2>2. /\ Tally(On(rows, "channel_receivable"), back, Net(amount))
        /\ Tally(On(rows, "channel_fee"), 0, Fee(amount))
        /\ Tally(On(rows, "user_prepay"), amount, 0)
        /\ Tally(On(rows, "merchant_bank"), 0, back)
    BY ReverseRowsOn
  <2> HIDE DEF back, rows
  <2>3. Tally(rows, (back + 0) + (amount + 0), (Net(amount) + Fee(amount)) + (0 + back))
    BY <1>1, <2>1, <2>2, TallyWhole
  <2>4. /\ (back + 0) + (amount + 0) = amount + back
        /\ (Net(amount) + Fee(amount)) + (0 + back) = amount + back
    BY <1>1, <2>1
  <2> QED
    BY <2>3, <2>4
<1> QED
  BY <1>3, <1>4, <1>5

(* The rows of one operation among those of an order. *)
LEMMA RowsOfOperation ==
    ASSUME NEW row, NEW biz \in {"recharge", "settle", "refund", "chargeback"}
    PROVE  LET rows == {r \in JournalOf(row) : r.bizType = biz}
               paid == NonZero(PayRows(Amount(row)))
               settled == NonZero(SettleRows(Amount(row)))
               back == NonZero(ReverseRows(Amount(row), biz, row.settleAt))
           IN  \/ rows = {}
               \/ row.status \in CreditedStatus /\ rows \in {paid, settled}
               \/ /\ row.status \in CreditedStatus
                  /\ biz \in {"refund", "chargeback"}
                  /\ rows = back
<1> DEFINE A == Amount(row)
           paid == PayRows(A)
           settled == IF row.settleAt THEN SettleRows(A) ELSE {}
<1>1. PaidRows(row) = paid \cup settled
  BY DEF PaidRows
<1>2. /\ \A r \in NonZero(paid) : r.bizType = "recharge"
      /\ \A r \in NonZero(settled) : r.bizType = "settle"
      /\ NonZero(PaidRows(row)) = NonZero(paid) \cup NonZero(settled)
      /\ \A bizType : \A r \in NonZero(ReverseRows(A, bizType, row.settleAt)) :
             r.bizType = bizType
  BY <1>1, RowTypes DEF NonZero
<1>3. NonZero(settled) = {} \/ NonZero(settled) = NonZero(SettleRows(A))
  BY NonZeroUnion
<1> HIDE DEF paid, settled
<1>4. CASE row.status \notin CreditedStatus
  BY <1>4, JournalOfRow
<1>5. CASE row.status = "paid"
  <2>1. JournalOf(row) = NonZero(paid) \cup NonZero(settled)
    BY <1>2, <1>5, JournalOfRow
  <2>2. {r \in JournalOf(row) : r.bizType = biz} \in {{}, NonZero(paid), NonZero(settled)}
    BY <1>2, <2>1
  <2> QED
    BY <1>3, <1>5, <2>2 DEF paid, CreditedStatus
<1>6. ASSUME NEW kind \in {"refund", "chargeback"},
             JournalOf(row) = NonZero(PaidRows(row))
                                \cup NonZero(ReverseRows(A, kind, row.settleAt))
      PROVE  \/ {r \in JournalOf(row) : r.bizType = biz}
                   \in {{}, NonZero(paid), NonZero(settled)}
             \/ /\ biz \in {"refund", "chargeback"}
                /\ {r \in JournalOf(row) : r.bizType = biz}
                      = NonZero(ReverseRows(A, biz, row.settleAt))
  <2>1. JournalOf(row) = NonZero(paid) \cup NonZero(settled)
                           \cup NonZero(ReverseRows(A, kind, row.settleAt))
    BY <1>2, <1>6
  <2>2. CASE biz = kind
    BY <1>2, <2>1, <2>2
  <2>3. CASE biz # kind
    BY <1>2, <2>1, <2>3
  <2> QED
    BY <2>2, <2>3
<1>7. CASE row.status = "refunded"
  BY <1>3, <1>6, <1>7, JournalOfRow DEF paid, CreditedStatus
<1>8. CASE row.status = "chargeback"
  BY <1>3, <1>6, <1>8, JournalOfRow DEF paid, CreditedStatus
<1> QED
  BY <1>4, <1>5, <1>7, <1>8 DEF CreditedStatus

(***************************************************************************)
(* Double entry, for every price and every number of orders: the rows each *)
(* payment, settlement, refund and chargeback posts for an order have      *)
(* equal debits and credits, whatever the rounding of the fee.             *)
(***************************************************************************)
THEOREM JournalIsBalanced == Spec => []JournalBalanced
<1>1. TypeOK /\ JournalMatchesOrder => JournalBalanced
  <2> SUFFICES ASSUME TypeOK, JournalMatchesOrder, NEW o \in Order,
                      NEW biz \in {"recharge", "settle", "refund", "chargeback"}
               PROVE  LET rows == {r \in journal[o] : r.bizType = biz}
                      IN  Debits(rows) = Credits(rows)
    BY DEF JournalBalanced
  <2> DEFINE row == order[o]
             rows == {r \in JournalOf(row) : r.bizType = biz}
  <2>1. journal[o] = JournalOf(row)
    BY DEF JournalMatchesOrder
  <2> SUFFICES Debits(rows) = Credits(rows)
    BY <2>1
  <2>2. CASE rows = {}
    <3>1. Debits({}) = 0 /\ Credits({}) = 0
      BY SumNone DEF Debits, Credits
    <3> QED
      BY <2>2, <3>1
  <2>3. CASE rows # {}
    <3>1. /\ row.status \in CreditedStatus
          /\ \/ rows = NonZero(PayRows(Amount(row)))
             \/ rows = NonZero(SettleRows(Amount(row)))
             \/ /\ biz \in {"refund", "chargeback"}
                /\ rows = NonZero(ReverseRows(Amount(row), biz, row.settleAt))
      BY <2>3, RowsOfOperation
    <3>2. row \in PayOrder
      BY <3>1, OrderPresent DEF Status, CreditedStatus
    <3>3. Amount(row) \in Nat \ {0} /\ row.settleAt \in BOOLEAN
      BY <3>2, RowAmounts DEF PayOrder
    <3>4. \A A \in Nat \ {0}, kind \in {"refund", "chargeback"}, at \in BOOLEAN :
             /\ Debits(NonZero(PayRows(A))) = Credits(NonZero(PayRows(A)))
             /\ Debits(NonZero(SettleRows(A))) = Credits(NonZero(SettleRows(A)))
             /\ Debits(NonZero(ReverseRows(A, kind, at)))
                  = Credits(NonZero(ReverseRows(A, kind, at)))
      BY OperationsBalance DEF Tally
    <3> HIDE DEF rows, row
    <3> QED
      BY <3>1, <3>3, <3>4
  <2> QED
    BY <2>2, <2>3
<1> QED
  BY <1>1, TypeCorrect, JournalFollowsOrders, PTL

-----------------------------------------------------------------------------
(* The platform book and the journal *)

(* What an order leaves on each account: paid money waits at the channel   *)
(* until it is settled, the fee stays, and a reversal clears all of it.    *)
PendingOf(row) ==
    IF row.status = "paid" /\ ~row.settleAt THEN Net(Amount(row)) ELSE 0
SettledOf(row) ==
    IF row.status = "paid" /\ row.settleAt THEN Net(Amount(row)) ELSE 0
FeeOf(row) ==
    IF row.status = "paid" THEN Fee(Amount(row)) ELSE 0

Balance(rows, account) ==
    Debits({r \in rows : r.account = account}) - Credits({r \in rows : r.account = account})

LEMMA OnUnion ==
    ASSUME NEW R, NEW S, NEW account
    PROVE  /\ On(R \cup S, account) = On(R, account) \cup On(S, account)
           /\ On(NonZero(R), account) = NonZero(On(R, account))
  BY DEF On, NonZero

(* Two operations on one account. *)
LEMMA TallyTwo ==
    ASSUME NEW R, NEW S, NEW account, \A r \in R, s \in S : r.bizType # s.bizType,
           NEW d1, NEW c1, NEW d2, NEW c2,
           Tally(On(R, account), d1, c1), Tally(On(S, account), d2, c2)
    PROVE  Tally(On(R \cup S, account), d1 + d2, c1 + c2)
<1>1. On(R, account) \cap On(S, account) = {}
  BY DEF On
<1>2. On(R \cup S, account) = On(R, account) \cup On(S, account)
  BY OnUnion
<1> QED
  BY <1>1, <1>2, TallyUnion

LEMMA TallyBalance ==
    ASSUME NEW R, NEW account, NEW d, NEW c, Tally(On(R, account), d, c)
    PROVE  Balance(NonZero(R), account) = d - c
<1>1. {r \in NonZero(R) : r.account = account} = NonZero(On(R, account))
  BY DEF On, NonZero
<1> QED
  BY <1>1 DEF Balance, Tally

LEMMA PaidBalance ==
    ASSUME NEW row \in PayOrder
    PROVE  LET A == Amount(row)
               net == IF row.settleAt THEN Net(A) ELSE 0
           IN  /\ Tally(On(PaidRows(row), "channel_receivable"), Net(A), net)
               /\ Tally(On(PaidRows(row), "merchant_bank"), net, 0)
               /\ Tally(On(PaidRows(row), "channel_fee"), Fee(A), 0)
<1> DEFINE A == Amount(row)
<1>1. A \in Nat \ {0} /\ Net(A) \in Int /\ Fee(A) \in Int
  BY RowAmounts, FeeBounds
<1>2. \A r \in PayRows(A), s \in SettleRows(A) : r.bizType # s.bizType
  BY RowTypes
<1>3. CASE row.settleAt
  <2>1. PaidRows(row) = PayRows(A) \cup SettleRows(A)
    BY <1>3 DEF PaidRows
  <2> HIDE DEF A
  <2>2. /\ Tally(On(PaidRows(row), "channel_receivable"), Net(A) + 0, 0 + Net(A))
        /\ Tally(On(PaidRows(row), "merchant_bank"), 0 + Net(A), 0 + 0)
        /\ Tally(On(PaidRows(row), "channel_fee"), Fee(A) + 0, 0 + 0)
    BY <1>1, <1>2, <2>1, PayRowsOn, SettleRowsOn, TallyTwo
  <2> QED
    BY <1>1, <1>3, <2>2 DEF A
<1>4. CASE ~row.settleAt
  <2>1. PaidRows(row) = PayRows(A)
    BY <1>4 DEF PaidRows
  <2> QED
    BY <1>1, <1>4, <2>1, PayRowsOn
<1> QED
  BY <1>3, <1>4

(* The balances of a reversed order are all zero. *)
LEMMA ReversedBalance ==
    ASSUME NEW row \in PayOrder, NEW bizType \in {"refund", "chargeback"},
           NEW account \in {"channel_receivable", "merchant_bank", "channel_fee"}
    PROVE  LET back == ReverseRows(Amount(row), bizType, row.settleAt)
           IN  Balance(NonZero(PaidRows(row) \cup back), account) = 0
<1> DEFINE A == Amount(row)
           net == IF row.settleAt THEN Net(A) ELSE 0
           back == ReverseRows(A, bizType, row.settleAt)
           all == PaidRows(row) \cup back
<1>1. /\ A \in Nat \ {0} /\ Net(A) \in Int /\ Fee(A) \in Int
      /\ row.settleAt \in BOOLEAN /\ net \in Int
  BY RowAmounts, FeeBounds DEF PayOrder
<1>2. \A r \in PaidRows(row), s \in back : r.bizType # s.bizType
  <2>1. \A r \in PaidRows(row) : r.bizType \in {"recharge", "settle"}
    BY RowTypes DEF PaidRows
  <2>2. \A s \in back : s.bizType = bizType
    BY RowTypes
  <2> HIDE DEF back
  <2> QED
    BY <2>1, <2>2
<1>3. /\ Tally(On(PaidRows(row), "channel_receivable"), Net(A), net)
      /\ Tally(On(PaidRows(row), "merchant_bank"), net, 0)
      /\ Tally(On(PaidRows(row), "channel_fee"), Fee(A), 0)
  BY PaidBalance
<1>4. /\ Tally(On(back, "channel_receivable"), net, Net(A))
      /\ Tally(On(back, "merchant_bank"), 0, net)
      /\ Tally(On(back, "channel_fee"), 0, Fee(A))
  BY <1>1, ReverseRowsOn
<1> HIDE DEF A, net, back
<1>5. /\ Tally(On(all, "channel_receivable"), Net(A) + net, net + Net(A))
      /\ Tally(On(all, "merchant_bank"), net + 0, 0 + net)
      /\ Tally(On(all, "channel_fee"), Fee(A) + 0, 0 + Fee(A))
  BY <1>2, <1>3, <1>4, TallyTwo
<1> HIDE DEF all
<1>6. /\ Balance(NonZero(all), "channel_receivable") = (Net(A) + net) - (net + Net(A))
      /\ Balance(NonZero(all), "merchant_bank") = (net + 0) - (0 + net)
      /\ Balance(NonZero(all), "channel_fee") = (Fee(A) + 0) - (0 + Fee(A))
  BY <1>5, TallyBalance
<1>7. Balance(NonZero(all), account) = 0
  BY <1>1, <1>6
<1> QED
  BY <1>7 DEF all, back, A

LEMMA JournalBalances ==
    ASSUME NEW row \in PayOrder \cup {NoOrder}
    PROVE  /\ Balance(JournalOf(row), "channel_receivable") = PendingOf(row)
           /\ Balance(JournalOf(row), "merchant_bank") = SettledOf(row)
           /\ Balance(JournalOf(row), "channel_fee") = FeeOf(row)
<1>1. CASE row.status \notin CreditedStatus
  <2>1. JournalOf(row) = {}
    BY <1>1, JournalOfRow
  <2>2. \A account : {r \in {} : r.account = account} = {}
    OBVIOUS
  <2>3. Debits({}) = 0 /\ Credits({}) = 0
    BY SumNone DEF Debits, Credits
  <2> QED
    BY <1>1, <2>1, <2>2, <2>3 DEF Balance, PendingOf, SettledOf, FeeOf, CreditedStatus
<1>2. row.status \in CreditedStatus => row \in PayOrder
  BY DEF NoOrder, CreditedStatus
<1>3. CASE row.status = "paid"
  <2> DEFINE A == Amount(row)
             net == IF row.settleAt THEN Net(A) ELSE 0
  <2>1. row \in PayOrder /\ JournalOf(row) = NonZero(PaidRows(row))
    BY <1>2, <1>3, JournalOfRow DEF CreditedStatus
  <2>2. Net(A) \in Int /\ Fee(A) \in Int /\ row.settleAt \in BOOLEAN /\ net \in Int
    BY <2>1, RowAmounts, FeeBounds DEF PayOrder
  <2>3. /\ Tally(On(PaidRows(row), "channel_receivable"), Net(A), net)
        /\ Tally(On(PaidRows(row), "merchant_bank"), net, 0)
        /\ Tally(On(PaidRows(row), "channel_fee"), Fee(A), 0)
    BY <2>1, PaidBalance
  <2>4. /\ PendingOf(row) = Net(A) - net
        /\ SettledOf(row) = net - 0
        /\ FeeOf(row) = Fee(A) - 0
    BY <1>3, <2>2 DEF PendingOf, SettledOf, FeeOf
  <2> HIDE DEF A, net
  <2> QED
    BY <2>1, <2>3, <2>4, TallyBalance
<1>4. ASSUME row.status \in CreditedStatus, row.status # "paid",
             NEW bizType \in {"refund", "chargeback"},
             JournalOf(row) = NonZero(PaidRows(row))
                 \cup NonZero(ReverseRows(Amount(row), bizType, row.settleAt))
      PROVE  /\ Balance(JournalOf(row), "channel_receivable") = PendingOf(row)
             /\ Balance(JournalOf(row), "merchant_bank") = SettledOf(row)
             /\ Balance(JournalOf(row), "channel_fee") = FeeOf(row)
  <2>1. row \in PayOrder
    BY <1>2, <1>4
  <2>2. JournalOf(row) =
            NonZero(PaidRows(row) \cup ReverseRows(Amount(row), bizType, row.settleAt))
    BY <1>4, NonZeroUnion
  <2> QED
    BY <1>4, <2>1, <2>2, ReversedBalance DEF PendingOf, SettledOf, FeeOf
<1>5. CASE row.status = "refunded"
  BY <1>4, <1>5, JournalOfRow DEF CreditedStatus
<1>6. CASE row.status = "chargeback"
  BY <1>4, <1>6, JournalOfRow DEF CreditedStatus
<1> QED
  BY <1>1, <1>3, <1>5, <1>6 DEF CreditedStatus

(***************************************************************************)
(* The inductive form of BookMatchesJournal: each total of the platform    *)
(* book is a sum over the orders of what the order itself says.            *)
(***************************************************************************)
BookMatchesOrders ==
    /\ book.pending = SumFunction([o \in Order |-> PendingOf(order[o])])
    /\ book.settled = SumFunction([o \in Order |-> SettledOf(order[o])])
    /\ book.fee = SumFunction([o \in Order |-> FeeOf(order[o])])

LEMMA OrderAmountsAreInt ==
    ASSUME NEW row \in PayOrder \cup {NoOrder}
    PROVE  PendingOf(row) \in Int /\ SettledOf(row) \in Int /\ FeeOf(row) \in Int
<1>1. row.status = "paid" => row \in PayOrder
  BY DEF NoOrder
<1>2. row.status = "paid" => Net(Amount(row)) \in Int /\ Fee(Amount(row)) \in Int
  BY <1>1, RowAmounts, FeeBounds
<1> QED
  BY <1>2 DEF PendingOf, SettledOf, FeeOf

(* The sums, when one order changes. *)
LEMMA OneOrderSums ==
    ASSUME TypeOK, TypeOK', NEW n \in Order,
           \A o \in Order : o # n => order'[o] = order[o]
    PROVE  /\ SumFunction([o \in Order |-> PendingOf(order'[o])]) =
                 SumFunction([o \in Order |-> PendingOf(order[o])])
                   - PendingOf(order[n]) + PendingOf(order'[n])
           /\ SumFunction([o \in Order |-> SettledOf(order'[o])]) =
                 SumFunction([o \in Order |-> SettledOf(order[o])])
                   - SettledOf(order[n]) + SettledOf(order'[n])
           /\ SumFunction([o \in Order |-> FeeOf(order'[o])]) =
                 SumFunction([o \in Order |-> FeeOf(order[o])])
                   - FeeOf(order[n]) + FeeOf(order'[n])
<1>1. \A o \in Order : /\ order[o] \in PayOrder \cup {NoOrder}
                        /\ order'[o] \in PayOrder \cup {NoOrder}
  BY DEF TypeOK, OrdersTypeOK
<1>2. IsFiniteSet(Order)
  BY BizNosFinite
<1> DEFINE p == [o \in Order |-> PendingOf(order[o])]
           q == [o \in Order |-> PendingOf(order'[o])]
           s == [o \in Order |-> SettledOf(order[o])]
           t == [o \in Order |-> SettledOf(order'[o])]
           f == [o \in Order |-> FeeOf(order[o])]
           g == [o \in Order |-> FeeOf(order'[o])]
<1>3. /\ p \in [Order -> Int] /\ q \in [Order -> Int]
      /\ s \in [Order -> Int] /\ t \in [Order -> Int]
      /\ f \in [Order -> Int] /\ g \in [Order -> Int]
  BY <1>1, OrderAmountsAreInt
<1>4. \A o \in Order : o # n => q[o] = p[o] /\ t[o] = s[o] /\ g[o] = f[o]
  OBVIOUS
<1>5. /\ p[n] = PendingOf(order[n]) /\ q[n] = PendingOf(order'[n])
      /\ s[n] = SettledOf(order[n]) /\ t[n] = SettledOf(order'[n])
      /\ f[n] = FeeOf(order[n]) /\ g[n] = FeeOf(order'[n])
  OBVIOUS
<1> HIDE DEF p, q, s, t, f, g
<1>6. SumFunction(q) = SumFunction(p) - p[n] + q[n]
  BY <1>2, <1>3, <1>4, SumOneChanged
<1>7. SumFunction(t) = SumFunction(s) - s[n] + t[n]
  BY <1>2, <1>3, <1>4, SumOneChanged
<1>8. SumFunction(g) = SumFunction(f) - f[n] + g[n]
  BY <1>2, <1>3, <1>4, SumOneChanged
<1> QED
  BY <1>5, <1>6, <1>7, <1>8 DEF p, q, s, t, f, g

LEMMA OneOrderBook ==
    ASSUME TypeOK, TypeOK', BookMatchesOrders, NEW n \in Order,
           \A o \in Order : o # n => order'[o] = order[o],
           book'.pending = book.pending - PendingOf(order[n]) + PendingOf(order'[n]),
           book'.settled = book.settled - SettledOf(order[n]) + SettledOf(order'[n]),
           book'.fee = book.fee - FeeOf(order[n]) + FeeOf(order'[n])
    PROVE  BookMatchesOrders'
  BY OneOrderSums DEF BookMatchesOrders

(* An order that is unpaid before and after the step. *)
LEMMA UnpaidBook ==
    ASSUME TypeOK, TypeOK', BookMatchesOrders, NEW n \in Order,
           \A o \in Order : o # n => order'[o] = order[o],
           order[n].status # "paid", order'[n].status # "paid", UNCHANGED book
    PROVE  BookMatchesOrders'
<1>1. book.pending \in Int /\ book.settled \in Int /\ book.fee \in Int
  BY DEF TypeOK, LedgerTypeOK, PlatformBook
<1>2. /\ PendingOf(order[n]) = 0 /\ PendingOf(order'[n]) = 0
      /\ SettledOf(order[n]) = 0 /\ SettledOf(order'[n]) = 0
      /\ FeeOf(order[n]) = 0 /\ FeeOf(order'[n]) = 0
  BY DEF PendingOf, SettledOf, FeeOf
<1> QED
  BY <1>1, <1>2, OneOrderBook

LEMMA CreateRechargeBook ==
    ASSUME TypeOK, TypeOK', BookMatchesOrders,
           NEW a \in Account, NEW k \in Key, NEW p \in Package, NEW ch \in Channel,
           CreateRecharge(a, k, p, ch)
    PROVE  BookMatchesOrders'
<1> DEFINE row == [account |-> a, key |-> k, package |-> p, channel |-> ch,
                   status |-> "paying", trade |-> NoTrade, settle |-> "none",
                   settleAt |-> FALSE, paidAfterClose |-> FALSE]
<1>1. PICK n \in Order : order[n] = NoOrder /\ order' = [order EXCEPT ![n] = row]
  BY DEF CreateRecharge
<1>2. row.status = "paying" /\ NoOrder.status # "paid"
  BY DEF NoOrder
<1> HIDE DEF row
<1>3. order'[n] = row /\ \A o \in Order : o # n => order'[o] = order[o]
  BY <1>1 DEF TypeOK, OrdersTypeOK
<1>4. UNCHANGED book
  BY DEF CreateRecharge
<1> QED
  BY <1>1, <1>2, <1>3, <1>4, UnpaidBook

LEMMA CloseBook ==
    ASSUME TypeOK, TypeOK', BookMatchesOrders, NEW n \in Order,
           order[n].status \in OpenStatus, NEW status \in {"closed", "failed"},
           order' = [order EXCEPT ![n] = [order[n] EXCEPT !.status = status]],
           UNCHANGED book
    PROVE  BookMatchesOrders'
<1> DEFINE row == [order[n] EXCEPT !.status = status]
<1>1. order[n] \in PayOrder
  BY OrderPresent DEF Status
<1>2. row.status = status
  BY <1>1 DEF PayOrder
<1> HIDE DEF row
<1>3. order'[n] = row /\ \A o \in Order : o # n => order'[o] = order[o]
  BY DEF TypeOK, OrdersTypeOK, row
<1> QED
  BY <1>2, <1>3, UnpaidBook DEF OpenStatus

LEMMA CreditBook ==
    ASSUME TypeOK, TypeOK', JournalMatchesOrder, BookMatchesOrders,
           NEW cb \in Callback, Credit(cb)
    PROVE  BookMatchesOrders'
<1> DEFINE n == cb.order
           A == Amount(order[n])
           row == [order[n] EXCEPT !.status = "paid", !.trade = cb.trade,
                                   !.settle = "pending",
                                   !.paidAfterClose = (order[n].status = "closed")]
<1>1. /\ n \in Order
      /\ order[n] \in PayOrder
      /\ order[n].status \in OpenStatus \cup {"closed"}
      /\ \A o \in Order : o # n => order'[o] = order[o]
  BY CreditOrder
<1>2. A \in Nat \ {0} /\ Net(A) \in Int /\ Fee(A) \in Int
  BY <1>1, RowAmounts, FeeBounds
<1>3. /\ row.status = "paid"
      /\ row.settleAt = order[n].settleAt
      /\ Amount(row) = A
  BY <1>1 DEF PayOrder, Amount
<1>4. ~order[n].settleAt
  BY <1>1 DEF JournalMatchesOrder
<1>5. order'[n] = row
  BY <1>1 DEF Credit, TypeOK, OrdersTypeOK
<1> HIDE DEF row
<1>6. /\ PendingOf(order[n]) = 0 /\ PendingOf(order'[n]) = Net(A)
      /\ SettledOf(order[n]) = 0 /\ SettledOf(order'[n]) = 0
      /\ FeeOf(order[n]) = 0 /\ FeeOf(order'[n]) = Fee(A)
  BY <1>1, <1>3, <1>4, <1>5 DEF PendingOf, SettledOf, FeeOf, OpenStatus
<1>7. book \in PlatformBook
  BY DEF TypeOK, LedgerTypeOK
<1>8. book' = [book EXCEPT !.pending = @ + Net(A), !.fee = @ + Fee(A)]
  BY DEF Credit
<1> HIDE DEF A, n
<1>9. /\ book'.pending = book.pending + Net(A)
      /\ book'.settled = book.settled
      /\ book'.fee = book.fee + Fee(A)
      /\ book.pending \in Int /\ book.settled \in Int /\ book.fee \in Int
  BY <1>7, <1>8 DEF PlatformBook
<1> QED
  BY <1>1, <1>2, <1>6, <1>9, OneOrderBook

LEMMA SettleBook ==
    ASSUME TypeOK, TypeOK', JournalMatchesOrder, BookMatchesOrders,
           NEW n \in Order, SettleOne(n)
    PROVE  BookMatchesOrders'
<1> DEFINE A == Amount(order[n])
           row == [order[n] EXCEPT !.settle = "settled", !.settleAt = TRUE]
<1>1. /\ order[n] \in PayOrder
      /\ order[n].status = "paid"
      /\ order[n].settle = "pending"
  BY OrderPresent DEF SettleOne, Status
<1>2. A \in Nat \ {0} /\ Net(A) \in Int /\ Fee(A) \in Int
  BY <1>1, RowAmounts, FeeBounds
<1>3. /\ row.status = "paid"
      /\ row.settleAt
      /\ Amount(row) = A
  BY <1>1 DEF PayOrder, Amount
<1>4. ~order[n].settleAt
  BY <1>1 DEF JournalMatchesOrder
<1>5. order'[n] = row /\ \A o \in Order : o # n => order'[o] = order[o]
  BY <1>1 DEF SettleOne, TypeOK, OrdersTypeOK
<1> HIDE DEF row
<1>6. /\ PendingOf(order[n]) = Net(A) /\ PendingOf(order'[n]) = 0
      /\ SettledOf(order[n]) = 0 /\ SettledOf(order'[n]) = Net(A)
      /\ FeeOf(order[n]) = Fee(A) /\ FeeOf(order'[n]) = Fee(A)
  BY <1>1, <1>3, <1>4, <1>5 DEF PendingOf, SettledOf, FeeOf
<1>7. book \in PlatformBook
  BY DEF TypeOK, LedgerTypeOK
<1>8. book' = [book EXCEPT !.pending = @ - Net(A), !.settled = @ + Net(A)]
  BY DEF SettleOne
<1> HIDE DEF A
<1>9. /\ book'.pending = book.pending - Net(A)
      /\ book'.settled = book.settled + Net(A)
      /\ book'.fee = book.fee
      /\ book.pending \in Int /\ book.settled \in Int /\ book.fee \in Int
  BY <1>7, <1>8 DEF PlatformBook
<1> QED
  BY <1>2, <1>5, <1>6, <1>9, OneOrderBook

LEMMA ReverseBook ==
    ASSUME TypeOK, TypeOK', JournalMatchesOrder, BookMatchesOrders,
           NEW n \in Order, Refund(n) \/ Chargeback(n)
    PROVE  BookMatchesOrders'
<1>1. PICK bizType \in {"refund", "chargeback"}, nextStatus \in ReversedStatus :
          Reverse(n, bizType, nextStatus)
  BY DEF Refund, Chargeback, ReversedStatus
<1> DEFINE A == Amount(order[n])
<1>2. /\ order[n] \in PayOrder
      /\ order[n].status = "paid"
      /\ order'[n].status = nextStatus
      /\ \A o \in Order : o # n => order'[o] = order[o]
  BY <1>1, ReverseOrder
<1>3. A \in Nat \ {0} /\ Net(A) \in Int /\ Fee(A) \in Int
  BY <1>2, RowAmounts, FeeBounds
<1>4. order[n].settleAt \in BOOLEAN
      /\ (order[n].settle = "settled") = order[n].settleAt
  BY <1>2 DEF JournalMatchesOrder, PayOrder
<1>5. /\ PendingOf(order[n]) = (IF order[n].settleAt THEN 0 ELSE Net(A))
      /\ PendingOf(order'[n]) = 0
      /\ SettledOf(order[n]) = (IF order[n].settleAt THEN Net(A) ELSE 0)
      /\ SettledOf(order'[n]) = 0
      /\ FeeOf(order[n]) = Fee(A) /\ FeeOf(order'[n]) = 0
  BY <1>2, <1>4 DEF PendingOf, SettledOf, FeeOf, ReversedStatus
<1>6. book \in PlatformBook
  BY DEF TypeOK, LedgerTypeOK
<1>7. /\ book'.pending =
            IF order[n].settle = "settled" THEN book.pending ELSE book.pending - Net(A)
      /\ book'.settled =
            IF order[n].settle = "settled" THEN book.settled - Net(A) ELSE book.settled
      /\ book'.fee = book.fee - Fee(A)
      /\ book.pending \in Int /\ book.settled \in Int /\ book.fee \in Int
  BY <1>1, <1>6 DEF Reverse, PlatformBook
<1> HIDE DEF A
<1>8. /\ book'.pending = book.pending - PendingOf(order[n]) + PendingOf(order'[n])
      /\ book'.settled = book.settled - SettledOf(order[n]) + SettledOf(order'[n])
      /\ book'.fee = book.fee - FeeOf(order[n]) + FeeOf(order'[n])
  BY <1>3, <1>4, <1>5, <1>7
<1> QED
  BY <1>2, <1>8, OneOrderBook

LEMMA BookStep ==
    TypeOK /\ TypeOK' /\ JournalMatchesOrder /\ BookMatchesOrders /\ [Next]_vars
        => BookMatchesOrders'
<1> SUFFICES ASSUME TypeOK, TypeOK', JournalMatchesOrder, BookMatchesOrders, [Next]_vars
             PROVE  BookMatchesOrders'
  OBVIOUS
<1>1. ASSUME UNCHANGED order,
             book'.pending = book.pending, book'.settled = book.settled, book'.fee = book.fee
      PROVE  BookMatchesOrders'
  BY <1>1 DEF BookMatchesOrders
<1>2. ASSUME UNCHANGED <<order, book>> PROVE BookMatchesOrders'
  BY <1>1, <1>2
<1>3. CASE UNCHANGED vars
  BY <1>2, <1>3 DEF vars, orderVars
<1>4. ASSUME NEW a \in Account, NEW k \in Key, NEW p \in Package, NEW ch \in Channel,
             CreateRecharge(a, k, p, ch)
      PROVE  BookMatchesOrders'
  BY <1>4, CreateRechargeBook
<1>5. ASSUME NEW o \in Order, Expire(o) PROVE BookMatchesOrders'
  BY <1>2, <1>5 DEF Expire
<1>6. ASSUME NEW o \in Order, CloseIfExpired(o) PROVE BookMatchesOrders'
  BY <1>6, CloseBook DEF CloseIfExpired
<1>7. ASSUME NEW cb \in Callback, MarkFailed(cb) PROVE BookMatchesOrders'
  BY <1>7, CloseBook DEF MarkFailed, Callback
<1>8. ASSUME NEW cb \in Callback, Credit(cb) PROVE BookMatchesOrders'
  BY <1>8, CreditBook
<1>9. ASSUME NEW o \in Order, SettleOne(o) PROVE BookMatchesOrders'
  BY <1>9, SettleBook
<1>10. ASSUME NEW o \in Order, Refund(o) \/ Chargeback(o) PROVE BookMatchesOrders'
  BY <1>10, ReverseBook
<1>11. ASSUME NEW w \in WithdrawNo, PayWithdraw(w), UNCHANGED orderVars
       PROVE  BookMatchesOrders'
  <2>1. /\ book'.pending = book.pending
        /\ book'.settled = book.settled
        /\ book'.fee = book.fee
    BY <1>11 DEF PayWithdraw, TypeOK, LedgerTypeOK, PlatformBook
  <2> QED
    BY <1>1, <1>11, <2>1 DEF orderVars
<1>12. ASSUME UNCHANGED orderVars, UNCHANGED book PROVE BookMatchesOrders'
  BY <1>2, <1>12 DEF orderVars
<1>13. ASSUME NEW s \in Account, NEW k \in Key, NEW v \in Video, NEW gift \in Gift,
              NEW count \in GiftCount, SendGift(s, k, v, gift, count), UNCHANGED orderVars
       PROVE  BookMatchesOrders'
  BY <1>12, <1>13 DEF SendGift
<1>14. ASSUME NEW g \in GiftNo, PublishHeat(g) \/ LoseHeat(g), UNCHANGED orderVars
       PROVE  BookMatchesOrders'
  BY <1>12, <1>14 DEF PublishHeat, LoseHeat
<1>15. ASSUME NEW a \in Account, NEW diamonds \in WithdrawAmount,
              RequestWithdraw(a, diamonds), UNCHANGED orderVars
       PROVE  BookMatchesOrders'
  BY <1>12, <1>15 DEF RequestWithdraw
<1> QED
  BY <1>3, <1>4, <1>5, <1>6, <1>7, <1>8, <1>9, <1>10, <1>11, <1>13, <1>14, <1>15 DEF Next

(***************************************************************************)
(* The platform book never drifts from the fiat journal, for any number of *)
(* orders, prices and interleavings of payment, settlement and reversal:   *)
(* pending, settled and fee are the balances of the journal's accounts.    *)
(***************************************************************************)
THEOREM BookFollowsJournal == Spec => []BookMatchesJournal
<1>1. Init => BookMatchesOrders
  <2> SUFFICES ASSUME Init PROVE BookMatchesOrders
    OBVIOUS
  <2> DEFINE zero == [o \in Order |-> 0]
  <2>1. \A o \in Order : order[o] = NoOrder
    BY DEF Init, OrdersInit
  <2>2. PendingOf(NoOrder) = 0 /\ SettledOf(NoOrder) = 0 /\ FeeOf(NoOrder) = 0
    BY DEF PendingOf, SettledOf, FeeOf, NoOrder
  <2>3. /\ [o \in Order |-> PendingOf(order[o])] = zero
        /\ [o \in Order |-> SettledOf(order[o])] = zero
        /\ [o \in Order |-> FeeOf(order[o])] = zero
    BY <2>1, <2>2
  <2>4. SumFunction(zero) = 0
    <3>1. zero \in [Order -> Int] /\ \A o \in Order : zero[o] = 0
      OBVIOUS
    <3> HIDE DEF zero
    <3> QED
      BY <3>1, BizNosFinite, SumZero
  <2> HIDE DEF zero
  <2> QED
    BY <2>3, <2>4 DEF BookMatchesOrders, Init, LedgerInit
<1>2. TypeOK /\ JournalMatchesOrder /\ BookMatchesOrders => BookMatchesJournal
  <2> SUFFICES ASSUME TypeOK, JournalMatchesOrder, BookMatchesOrders
               PROVE  BookMatchesJournal
    OBVIOUS
  <2>1. \A o \in Order :
           /\ Balance(journal[o], "channel_receivable") = PendingOf(order[o])
           /\ Balance(journal[o], "merchant_bank") = SettledOf(order[o])
           /\ Balance(journal[o], "channel_fee") = FeeOf(order[o])
    BY JournalBalances DEF TypeOK, OrdersTypeOK, JournalMatchesOrder
  <2>2. \A account :
           AccountBalance(account) = SumFunction([o \in Order |-> Balance(journal[o], account)])
    BY DEF AccountBalance, Balance
  <2>3. /\ AccountBalance("channel_receivable")
             = SumFunction([o \in Order |-> PendingOf(order[o])])
        /\ AccountBalance("merchant_bank")
             = SumFunction([o \in Order |-> SettledOf(order[o])])
        /\ AccountBalance("channel_fee")
             = SumFunction([o \in Order |-> FeeOf(order[o])])
    BY <2>1, <2>2
  <2> QED
    BY <2>3 DEF BookMatchesJournal, BookMatchesOrders
<1> QED
  BY <1>1, <1>2, BookStep, TypeCorrect, JournalFollowsOrders, PTL DEF Spec

-----------------------------------------------------------------------------
(* The reversal totals *)

LEMMA CoinRowsFinite ==
    ASSUME TypeOK, NEW a \in Account, NEW bizType, NEW no
    PROVE  /\ IsFiniteSet(CoinRows(a, bizType, no))
           /\ \A i \in CoinRows(a, bizType, no) :
                 i \in DOMAIN coinLedger[a] /\ coinLedger[a][i] \in LedgerEntry
<1>1. coinLedger[a] \in Seq(LedgerEntry)
  BY DEF TypeOK, LedgerTypeOK
<1>2. DOMAIN coinLedger[a] = 1 .. Len(coinLedger[a]) /\ Len(coinLedger[a]) \in Nat
  BY <1>1
<1>3. IsFiniteSet(1 .. Len(coinLedger[a]))
  BY <1>2, FS_Interval
<1>4. CoinRows(a, bizType, no) \subseteq 1 .. Len(coinLedger[a])
  BY <1>2 DEF CoinRows
<1> QED
  BY <1>1, <1>2, <1>3, <1>4, FS_Subset

LEMMA OrdersInFinite == \A statuses : IsFiniteSet(OrdersIn(statuses))
<1>1. \A statuses : OrdersIn(statuses) \subseteq Order
  BY DEF OrdersIn
<1> QED
  BY <1>1, BizNosFinite, FS_Subset

(* Amount and shortfall of a reversed order are integers. *)
LEMMA ReversedAmountsAreInt ==
    ASSUME TypeOK, NEW o \in Order, order[o].status \in ReversedStatus
    PROVE  Amount(order[o]) \in Int /\ Shortfall(o) \in Int
<1> DEFINE a == order[o].account
           R == CoinRows(a, "chargeback", o)
           f == [i \in R |-> coinLedger[a][i].amount]
<1>1. order[o] \in PayOrder
  BY OrderPresent DEF Status, ReversedStatus
<1>2. a \in Account /\ Amount(order[o]) \in Int /\ Coins(order[o]) \in Int
  BY <1>1, RowAmounts DEF PayOrder
<1>3. IsFiniteSet(R) /\ f \in [R -> Int]
  BY <1>2, CoinRowsFinite DEF LedgerEntry
<1>4. Shortfall(o) = Coins(order[o]) - SumFunction(f)
  BY DEF Shortfall
<1> HIDE DEF R, f
<1>5. SumFunction(f) \in Int
  BY <1>3, SumType
<1> QED
  BY <1>2, <1>4, <1>5

ReversedIntegers ==
    \A o \in Order : order[o].status \in ReversedStatus =>
        Amount(order[o]) \in Int /\ Shortfall(o) \in Int

LEMMA ReversedAreIntegers == TypeOK => ReversedIntegers
  BY ReversedAmountsAreInt DEF ReversedIntegers

(* A reversed order the step does not touch keeps its amount and shortfall. *)
LEMMA KeptReversal ==
    ASSUME TypeOK, NEW o \in Order, order[o].status \in ReversedStatus,
           KeepsReversal(o), \A a \in Account : KeepsRows(o, a)
    PROVE  Amount(order'[o]) = Amount(order[o]) /\ Shortfall(o)' = Shortfall(o)
<1>1. PICK a \in Account : a = order[o].account
  <2>1. order[o] \in PayOrder
    BY OrderPresent DEF Status, ReversedStatus
  <2> QED
    BY <2>1 DEF PayOrder
<1>2. order'[o].account = a /\ order'[o].package = order[o].package
  BY <1>1 DEF KeepsReversal
<1>3. /\ CoinRows(a, "chargeback", o)' = CoinRows(a, "chargeback", o)
      /\ \A i \in CoinRows(a, "chargeback", o) : coinLedger'[a][i] = coinLedger[a][i]
  BY DEF KeepsRows
<1>4. CoinRows(order[o].account, "chargeback", o)' = CoinRows(a, "chargeback", o)
  BY <1>2, <1>3 DEF CoinRows
<1>5. [i \in CoinRows(order[o].account, "chargeback", o) |->
          coinLedger[order[o].account][i].amount]'
        = [i \in CoinRows(order[o].account, "chargeback", o) |->
              coinLedger[order[o].account][i].amount]
  BY <1>1, <1>2, <1>3, <1>4
<1> QED
  BY <1>2, <1>5 DEF Shortfall, Amount, Coins

(* A step that reverses no order. *)
LEMMA OtherReversalSums ==
    ASSUME TypeOK, BookMatchesReversals,
           \A o \in Order : KeepsReversal(o) /\ \A a \in Account : KeepsRows(o, a),
           book'.refund = book.refund, book'.chargeback = book.chargeback,
           book'.shortfall = book.shortfall
    PROVE  BookMatchesReversals'
<1>1. \A status \in ReversedStatus :
         /\ OrdersIn({status})' = OrdersIn({status})
         /\ \A o \in OrdersIn({status}) : o \in Order /\ order[o].status \in ReversedStatus
  BY DEF KeepsReversal, OrdersIn
<1>2. \A status \in ReversedStatus : \A o \in OrdersIn({status}) :
         Amount(order'[o]) = Amount(order[o]) /\ Shortfall(o)' = Shortfall(o)
  BY <1>1, KeptReversal
<1>3. "refunded" \in ReversedStatus /\ "chargeback" \in ReversedStatus
  BY DEF ReversedStatus
<1>4. /\ [o \in OrdersIn({"refunded"}) |-> Amount(order[o])]'
            = [o \in OrdersIn({"refunded"}) |-> Amount(order[o])]
      /\ [o \in OrdersIn({"chargeback"}) |-> Amount(order[o])]'
            = [o \in OrdersIn({"chargeback"}) |-> Amount(order[o])]
      /\ [o \in OrdersIn({"chargeback"}) |-> Shortfall(o)]'
            = [o \in OrdersIn({"chargeback"}) |-> Shortfall(o)]
  BY <1>1, <1>2, <1>3
<1> QED
  BY <1>4 DEF BookMatchesReversals

(* One more order is in a reversed status. *)
LEMMA OneMoreReversed ==
    ASSUME TypeOK, TypeOK', NEW n \in Order, order[n].status \notin ReversedStatus,
           NEW status \in ReversedStatus, order'[n].status = status,
           \A o \in Order : o # n => order'[o] = order[o],
           \A o \in Order : o # n => \A a \in Account : KeepsRows(o, a)
    PROVE  /\ \A other \in ReversedStatus : other # status =>
                 /\ [o \in OrdersIn({other}) |-> Amount(order[o])]'
                       = [o \in OrdersIn({other}) |-> Amount(order[o])]
                 /\ [o \in OrdersIn({other}) |-> Shortfall(o)]'
                       = [o \in OrdersIn({other}) |-> Shortfall(o)]
           /\ SumFunction([o \in OrdersIn({status}) |-> Amount(order[o])])' =
                 SumFunction([o \in OrdersIn({status}) |-> Amount(order[o])])
                   + Amount(order'[n])
           /\ SumFunction([o \in OrdersIn({status}) |-> Shortfall(o)])' =
                 SumFunction([o \in OrdersIn({status}) |-> Shortfall(o)]) + Shortfall(n)'
<1>1. \A o \in Order : o # n => KeepsReversal(o)
  BY DEF KeepsReversal
<1>2. \A o \in Order : o # n /\ order[o].status \in ReversedStatus =>
         Amount(order'[o]) = Amount(order[o]) /\ Shortfall(o)' = Shortfall(o)
  BY <1>1, KeptReversal
<1> DEFINE S == OrdersIn({status})
           T == OrdersIn({status})'
<1>3. /\ n \notin S /\ T = S \cup {n} /\ IsFiniteSet(S)
      /\ \A o \in S : o # n /\ o \in Order /\ order[o].status \in ReversedStatus
      /\ \A o \in T : o \in Order /\ order'[o].status \in ReversedStatus
  BY OrdersInFinite DEF OrdersIn
<1>4. /\ \A o \in S : Amount(order[o]) \in Int /\ Shortfall(o) \in Int
      /\ \A o \in S : Amount(order'[o]) = Amount(order[o]) /\ Shortfall(o)' = Shortfall(o)
  BY <1>2, <1>3, ReversedAmountsAreInt
<1>5. Amount(order'[n]) \in Int /\ Shortfall(n)' \in Int
  <2>1. (TypeOK => ReversedIntegers)'
    BY ReversedAreIntegers, PTL
  <2> QED
    BY <2>1 DEF ReversedIntegers
<1>6. SumFunction([o \in T |-> Amount(order'[o])])
        = SumFunction([o \in S |-> Amount(order[o])]) + Amount(order'[n])
  <2> DEFINE f == [o \in S |-> Amount(order[o])]
             g == [o \in T |-> Amount(order'[o])]
  <2>1. f \in [S -> Int] /\ g \in [S \cup {n} -> Int]
    BY <1>3, <1>4, <1>5
  <2>2. (\A o \in S : g[o] = f[o]) /\ g[n] = Amount(order'[n])
    BY <1>3, <1>4
  <2> HIDE DEF f, g, S, T
  <2> QED
    BY <1>3, <2>1, <2>2, SumOneMore DEF f, g
<1>7. SumFunction([o \in T |-> Shortfall(o)'])
        = SumFunction([o \in S |-> Shortfall(o)]) + Shortfall(n)'
  <2> DEFINE f == [o \in S |-> Shortfall(o)]
             g == [o \in T |-> Shortfall(o)']
  <2>1. f \in [S -> Int] /\ g \in [S \cup {n} -> Int]
    BY <1>3, <1>4, <1>5
  <2>2. (\A o \in S : g[o] = f[o]) /\ g[n] = Shortfall(n)'
    BY <1>3, <1>4
  <2>3. n \notin S /\ IsFiniteSet(S)
    BY <1>3
  <2> HIDE DEF f, g, S, T
  <2>4. SumFunction(g) = SumFunction(f) + g[n]
    <3>1. \A F \in [S -> Int], G \in [S \cup {n} -> Int] :
             (\A o \in S : G[o] = F[o]) => SumFunction(G) = SumFunction(F) + G[n]
      BY <2>3, SumOneMore
    <3> QED
      BY <2>1, <2>2, <3>1
  <2>5. SumFunction(g) = SumFunction(f) + Shortfall(n)'
    BY <2>2, <2>4
  <2> QED
    BY <2>5 DEF f, g
<1>8. ASSUME NEW other \in ReversedStatus, other # status
      PROVE  /\ [o \in OrdersIn({other}) |-> Amount(order[o])]'
                   = [o \in OrdersIn({other}) |-> Amount(order[o])]
             /\ [o \in OrdersIn({other}) |-> Shortfall(o)]'
                   = [o \in OrdersIn({other}) |-> Shortfall(o)]
  <2>1. /\ OrdersIn({other})' = OrdersIn({other})
        /\ \A o \in OrdersIn({other}) :
              o # n /\ o \in Order /\ order[o].status \in ReversedStatus
    BY <1>8 DEF OrdersIn
  <2> QED
    BY <1>2, <2>1
<1> QED
  BY <1>6, <1>7, <1>8

(* The shortfall of the order a chargeback reverses. *)
LEMMA ChargebackShortfall ==
    ASSUME TypeOK, ReversedOnce, NEW n \in Order, Chargeback(n)
    PROVE  LET held == coinAvailable[order[n].account]
               claw == IF held < Coins(order[n]) THEN held ELSE Coins(order[n])
           IN  Shortfall(n)' = Coins(order[n]) - claw
<1>1. Reverse(n, "chargeback", "chargeback")
  BY DEF Chargeback
<1>2. PICK a \in Account : a = order[n].account
  <2>1. order[n] \in PayOrder
    BY <1>1, ReverseOrder
  <2> QED
    BY <2>1 DEF PayOrder
<1> DEFINE held == coinAvailable[a]
           claw == IF held < Coins(order[n]) THEN held ELSE Coins(order[n])
           took == [i \in CoinRows(a, "chargeback", n)' |-> coinLedger'[a][i].amount]
<1>3. /\ order[n] \in PayOrder
      /\ order[n].status = "paid"
      /\ order'[n].account = a
      /\ order'[n].package = order[n].package
  BY <1>1, <1>2, ReverseOrder
<1>4. Coins(order[n]) \in Nat /\ held \in Nat
  BY <1>3, RowAmounts DEF TypeOK, LedgerTypeOK
<1>5. claw \in Nat
  BY <1>4
<1>6. CoinRows(a, "chargeback", n) = {}
  BY <1>3, ReversedOnceByOrder DEF ChargedBackOnceAt
<1>7. \/ claw = 0 /\ UNCHANGED coinLedger
      \/ \E e \in LedgerEntry :
            /\ PostsCoins(a, e)
            /\ e.amount = claw
            /\ e.bizType = "chargeback"
            /\ e.bizNo = n
  BY <1>1, <1>2, ReversePosts
<1> HIDE DEF claw, held
<1>8. Shortfall(n)' = Coins(order[n]) - SumFunction(took)
  <2>1. CoinRows(order[n].account, "chargeback", n)' = CoinRows(a, "chargeback", n)'
    BY <1>3 DEF CoinRows
  <2>2. [i \in CoinRows(order[n].account, "chargeback", n) |->
            coinLedger[order[n].account][i].amount]' = took
    BY <1>3, <2>1
  <2>3. Coins(order'[n]) = Coins(order[n])
    BY <1>3 DEF Coins
  <2> QED
    BY <2>2, <2>3 DEF Shortfall
<1>9. SumFunction(took) = claw
  <2>1. CASE claw = 0 /\ UNCHANGED coinLedger
    <3>1. CoinRows(a, "chargeback", n)' = {}
      BY <1>6, <2>1 DEF CoinRows
    <3>2. DOMAIN took = {}
      BY <3>1
    <3> HIDE DEF took
    <3> QED
      BY <2>1, <3>2, SumNone
  <2>2. ASSUME NEW e \in LedgerEntry, PostsCoins(a, e), e.amount = claw,
               e.bizType = "chargeback", e.bizNo = n
        PROVE  SumFunction(took) = claw
    <3>1. PICK i \in DOMAIN coinLedger'[a] :
              /\ CoinRows(a, "chargeback", n)' = CoinRows(a, "chargeback", n) \cup {i}
              /\ coinLedger'[a][i] = e
      BY <2>2, PostedRow
    <3>2. CoinRows(a, "chargeback", n)' = {i}
      BY <1>6, <3>1
    <3>3. took \in [{i} -> Int] /\ took[i] = claw
      BY <1>5, <2>2, <3>1, <3>2
    <3> HIDE DEF took
    <3> QED
      BY <3>3, SumSingle
  <2> QED
    BY <1>7, <2>1, <2>2
<1> QED
  BY <1>2, <1>8, <1>9 DEF claw, held

LEMMA ReverseReversalSums ==
    ASSUME TypeOK, TypeOK', ReversedOnce, BookMatchesReversals,
           NEW n \in Order, Refund(n) \/ Chargeback(n)
    PROVE  BookMatchesReversals'
<1>1. PICK bizType \in {"refund", "chargeback"}, nextStatus \in ReversedStatus :
        /\ Reverse(n, bizType, nextStatus)
        /\ bizType = "refund" => Refund(n) /\ nextStatus = "refunded"
        /\ bizType = "chargeback" => Chargeback(n) /\ nextStatus = "chargeback"
  BY DEF Refund, Chargeback, ReversedStatus
<1> DEFINE held == coinAvailable[order[n].account]
           claw == IF held < Coins(order[n]) THEN held ELSE Coins(order[n])
           A == Amount(order[n])
<1>2. /\ order[n] \in PayOrder
      /\ order[n].status = "paid"
      /\ order'[n].status = nextStatus
      /\ Amount(order'[n]) = A
      /\ \A o \in Order : o # n => order'[o] = order[o]
  BY <1>1, ReverseOrder DEF Amount
<1>3. Coins(order[n]) \in Nat /\ held \in Nat /\ A \in Nat
  BY <1>2, RowAmounts DEF TypeOK, LedgerTypeOK, PayOrder
<1>4. \A o \in Order : o # n => \A b \in Account : KeepsRows(o, b)
  <2> SUFFICES ASSUME NEW o \in Order, o # n, NEW b \in Account PROVE KeepsRows(o, b)
    OBVIOUS
  <2>1. \/ UNCHANGED coinLedger
        \/ \E a \in Account, e \in LedgerEntry : PostsCoins(a, e) /\ e.bizNo = n
    BY <1>1, ReversePosts
  <2> QED
    BY <2>1, OtherRows
<1>5. order[n].status \notin ReversedStatus
  BY <1>2 DEF ReversedStatus
<1>6. book \in PlatformBook
  BY DEF TypeOK, LedgerTypeOK
<1>7. /\ book'.refund = IF bizType = "refund" THEN book.refund + A ELSE book.refund
      /\ book'.chargeback = IF bizType = "refund" THEN book.chargeback ELSE book.chargeback + A
      /\ book'.shortfall = book.shortfall + (Coins(order[n]) - claw)
      /\ book.shortfall \in Int
  BY <1>1, <1>6 DEF Reverse, PlatformBook
<1>8. bizType = "refund" => claw = Coins(order[n])
  BY <1>1, <1>3 DEF Reverse
<1>9. bizType = "chargeback" => Shortfall(n)' = Coins(order[n]) - claw
  BY <1>1, ChargebackShortfall
<1> HIDE DEF held, claw, A
<1>10. /\ \A other \in ReversedStatus : other # nextStatus =>
             /\ [o \in OrdersIn({other}) |-> Amount(order[o])]'
                   = [o \in OrdersIn({other}) |-> Amount(order[o])]
             /\ [o \in OrdersIn({other}) |-> Shortfall(o)]'
                   = [o \in OrdersIn({other}) |-> Shortfall(o)]
       /\ SumFunction([o \in OrdersIn({nextStatus}) |-> Amount(order[o])])' =
             SumFunction([o \in OrdersIn({nextStatus}) |-> Amount(order[o])])
               + Amount(order'[n])
       /\ SumFunction([o \in OrdersIn({nextStatus}) |-> Shortfall(o)])' =
             SumFunction([o \in OrdersIn({nextStatus}) |-> Shortfall(o)]) + Shortfall(n)'
  BY <1>2, <1>4, <1>5, OneMoreReversed
<1>11. CASE bizType = "refund"
  <2>1. /\ SumFunction([o \in OrdersIn({"refunded"}) |-> Amount(order[o])])' =
              SumFunction([o \in OrdersIn({"refunded"}) |-> Amount(order[o])]) + A
        /\ [o \in OrdersIn({"chargeback"}) |-> Amount(order[o])]'
              = [o \in OrdersIn({"chargeback"}) |-> Amount(order[o])]
        /\ [o \in OrdersIn({"chargeback"}) |-> Shortfall(o)]'
              = [o \in OrdersIn({"chargeback"}) |-> Shortfall(o)]
    BY <1>1, <1>2, <1>10, <1>11 DEF ReversedStatus
  <2>2. /\ book'.refund = book.refund + A
        /\ book'.chargeback = book.chargeback
        /\ book'.shortfall = book.shortfall
    BY <1>3, <1>7, <1>8, <1>11
  <2> QED
    BY <2>1, <2>2 DEF BookMatchesReversals
<1>12. CASE bizType = "chargeback"
  <2>1. /\ SumFunction([o \in OrdersIn({"chargeback"}) |-> Amount(order[o])])' =
              SumFunction([o \in OrdersIn({"chargeback"}) |-> Amount(order[o])]) + A
        /\ SumFunction([o \in OrdersIn({"chargeback"}) |-> Shortfall(o)])' =
              SumFunction([o \in OrdersIn({"chargeback"}) |-> Shortfall(o)])
                + (Coins(order[n]) - claw)
        /\ [o \in OrdersIn({"refunded"}) |-> Amount(order[o])]'
              = [o \in OrdersIn({"refunded"}) |-> Amount(order[o])]
    BY <1>1, <1>2, <1>9, <1>10, <1>12 DEF ReversedStatus
  <2>2. /\ book'.refund = book.refund
        /\ book'.chargeback = book.chargeback + A
    BY <1>7, <1>12
  <2> QED
    BY <1>7, <2>1, <2>2 DEF BookMatchesReversals
<1> QED
  BY <1>11, <1>12

(***************************************************************************)
(* The reversal totals of the platform book, for any number of orders: the *)
(* amounts refunded, the amounts charged back, and as shortfall exactly    *)
(* the coins that charged back orders granted and the ledger shows were    *)
(* never taken back, whatever was spent in between.                        *)
(***************************************************************************)
THEOREM BookFollowsReversals == Spec => []BookMatchesReversals
<1>1. Init => BookMatchesReversals
  <2> SUFFICES ASSUME Init PROVE BookMatchesReversals
    OBVIOUS
  <2>1. OrdersIn({"refunded"}) = {} /\ OrdersIn({"chargeback"}) = {}
    BY DEF Init, OrdersInit, OrdersIn, NoOrder
  <2>2. \A f : DOMAIN f = {} => SumFunction(f) = 0
    BY SumNone
  <2>3. /\ SumFunction([o \in OrdersIn({"refunded"}) |-> Amount(order[o])]) = 0
        /\ SumFunction([o \in OrdersIn({"chargeback"}) |-> Amount(order[o])]) = 0
        /\ SumFunction([o \in OrdersIn({"chargeback"}) |-> Shortfall(o)]) = 0
    BY <2>1, <2>2
  <2> QED
    BY <2>3 DEF BookMatchesReversals, Init, LedgerInit
<1>2. TypeOK /\ TypeOK' /\ ReversedOnce /\ BookMatchesReversals /\ [Next]_vars
          => BookMatchesReversals'
  <2> SUFFICES ASSUME TypeOK, TypeOK', ReversedOnce, BookMatchesReversals, [Next]_vars
               PROVE  BookMatchesReversals'
    OBVIOUS
  <2>1. ASSUME \A o \in Order : KeepsReversal(o),
               \/ UNCHANGED coinLedger
               \/ \E a \in Account, e \in LedgerEntry :
                     PostsCoins(a, e) /\ e.bizType \notin {"refund", "chargeback"},
               book'.refund = book.refund, book'.chargeback = book.chargeback,
               book'.shortfall = book.shortfall
        PROVE  BookMatchesReversals'
    <3>1. \A o \in Order, b \in Account : KeepsRows(o, b)
      BY <2>1, OtherRows
    <3> QED
      BY <2>1, <3>1, OtherReversalSums
  <2>2. ASSUME \A o \in Order : ~(Refund(o) \/ Chargeback(o))
        PROVE  /\ book'.refund = book.refund
               /\ book'.chargeback = book.chargeback
               /\ book'.shortfall = book.shortfall
    <3>1. book \in PlatformBook
      BY DEF TypeOK, LedgerTypeOK
    <3>2. CASE UNCHANGED book
      BY <3>2
    <3>3. ASSUME NEW cb \in Callback, Credit(cb)
          PROVE  book'.refund = book.refund /\ book'.chargeback = book.chargeback
                 /\ book'.shortfall = book.shortfall
      BY <3>1, <3>3 DEF Credit, PlatformBook
    <3>4. ASSUME NEW o \in Order, SettleOne(o)
          PROVE  book'.refund = book.refund /\ book'.chargeback = book.chargeback
                 /\ book'.shortfall = book.shortfall
      BY <3>1, <3>4 DEF SettleOne, PlatformBook
    <3>5. ASSUME NEW w \in WithdrawNo, PayWithdraw(w)
          PROVE  book'.refund = book.refund /\ book'.chargeback = book.chargeback
                 /\ book'.shortfall = book.shortfall
      BY <3>1, <3>5 DEF PayWithdraw, PlatformBook
    <3>6. \/ UNCHANGED book
          \/ \E cb \in Callback : Credit(cb)
          \/ \E o \in Order : SettleOne(o)
          \/ \E w \in WithdrawNo : PayWithdraw(w)
      <4>1. CASE UNCHANGED vars
        BY <4>1 DEF vars
      <4>2. ASSUME NEW a \in Account, NEW k \in Key, NEW p \in Package, NEW ch \in Channel,
                   CreateRecharge(a, k, p, ch)
            PROVE  UNCHANGED book
        BY <4>2 DEF CreateRecharge
      <4>3. ASSUME NEW o \in Order, Expire(o) \/ CloseIfExpired(o) PROVE UNCHANGED book
        BY <4>3 DEF Expire, CloseIfExpired
      <4>4. ASSUME NEW cb \in Callback, MarkFailed(cb) PROVE UNCHANGED book
        BY <4>4 DEF MarkFailed
      <4>5. ASSUME NEW s \in Account, NEW k \in Key, NEW v \in Video, NEW gift \in Gift,
                   NEW count \in GiftCount, SendGift(s, k, v, gift, count)
            PROVE  UNCHANGED book
        BY <4>5 DEF SendGift
      <4>6. ASSUME NEW g \in GiftNo, PublishHeat(g) \/ LoseHeat(g) PROVE UNCHANGED book
        BY <4>6 DEF PublishHeat, LoseHeat
      <4>7. ASSUME NEW a \in Account, NEW diamonds \in WithdrawAmount,
                   RequestWithdraw(a, diamonds)
            PROVE  UNCHANGED book
        BY <4>7 DEF RequestWithdraw
      <4> QED
        BY <2>2, <4>1, <4>2, <4>3, <4>4, <4>5, <4>6, <4>7 DEF Next
    <3> QED
      BY <3>2, <3>3, <3>4, <3>5, <3>6
  <2>3. CASE \E n \in Order : Refund(n) \/ Chargeback(n)
    BY <2>3, ReverseReversalSums
  <2>4. CASE \A n \in Order : ~(Refund(n) \/ Chargeback(n))
    <3>1. ASSUME NEW cb \in Callback, Credit(cb) PROVE BookMatchesReversals'
      <4>1. \A o \in Order : KeepsReversal(o)
        BY <3>1, CreditOrder DEF KeepsReversal, ReversedStatus, OpenStatus
      <4>2. \E a \in Account, e \in LedgerEntry :
                PostsCoins(a, e) /\ e.bizType \notin {"refund", "chargeback"}
        BY <3>1, CreditPosts
      <4> QED
        BY <2>1, <2>2, <2>4, <4>1, <4>2
    <3>2. ASSUME NEW s \in Account, NEW k \in Key, NEW v \in Video, NEW gift \in Gift,
                 NEW count \in GiftCount, SendGift(s, k, v, gift, count), UNCHANGED orderVars
          PROVE  BookMatchesReversals'
      <4>1. \E a \in Account, e \in LedgerEntry :
                PostsCoins(a, e) /\ e.bizType \notin {"refund", "chargeback"}
        BY <3>2, SendGiftPosts
      <4>2. \A o \in Order : KeepsReversal(o)
        BY <3>2 DEF KeepsReversal, orderVars
      <4> QED
        BY <2>1, <2>2, <2>4, <4>1, <4>2
    <3>3. CASE Quiet
      <4>1. \A o \in Order : KeepsReversal(o)
        BY <3>3 DEF Quiet, KeepsOrder, KeepsReversal, ReversedStatus, CreditedStatus
      <4> QED
        BY <2>1, <2>2, <2>4, <3>3, <4>1 DEF Quiet
    <3> QED
      BY <2>4, <3>1, <3>2, <3>3, StepKinds
  <2> QED
    BY <2>3, <2>4
<1> QED
  BY <1>1, <1>2, TypeCorrect, ReverseOnce, PTL DEF Spec

-----------------------------------------------------------------------------
(* Diamonds and withdrawals *)

LEMMA SignedIsInt == \A e \in LedgerEntry : Signed(e) \in Int
  BY DEF Signed, LedgerEntry

(* A ledger adds up to an integer, and one more row adds its amount. *)
LEMMA LedgerSumAppend ==
    ASSUME NEW L \in Seq(LedgerEntry), NEW e \in LedgerEntry
    PROVE  LedgerSum(L) \in Int /\ LedgerSum(Append(L, e)) = LedgerSum(L) + Signed(e)
<1> DEFINE n == Len(L)
           M == Append(L, e)
           S == 1 .. n
           f == [i \in S |-> Signed(L[i])]
           g == [i \in 1 .. n + 1 |-> Signed(M[i])]
<1>1. /\ n \in Nat /\ DOMAIN L = S /\ DOMAIN M = 1 .. n + 1
      /\ \A i \in S : M[i] = L[i] /\ L[i] \in LedgerEntry
      /\ M[n + 1] = e
  OBVIOUS
<1>2. 1 .. n + 1 = S \cup {n + 1} /\ n + 1 \notin S /\ IsFiniteSet(S)
  <2> HIDE DEF n
  <2>1. 1 .. n + 1 = 1 .. n \cup {n + 1} /\ n + 1 \notin 1 .. n
    BY <1>1
  <2>2. 1 \in Int /\ n \in Int
    BY <1>1
  <2>3. IsFiniteSet(1 .. n)
    BY <2>2, FS_Interval
  <2> QED
    BY <2>1, <2>3
<1>3. f \in [S -> Int] /\ g \in [S \cup {n + 1} -> Int]
  BY <1>1, <1>2, SignedIsInt
<1>4. (\A i \in S : g[i] = f[i]) /\ g[n + 1] = Signed(e)
  BY <1>1, <1>2
<1>5. LedgerSum(L) = SumFunction(f) /\ LedgerSum(M) = SumFunction(g)
  BY <1>1 DEF LedgerSum
<1> HIDE DEF f, g, S, M, n
<1>6. \A F \in [S -> Int], G \in [S \cup {n + 1} -> Int] :
         (\A i \in S : G[i] = F[i]) => SumFunction(G) = SumFunction(F) + G[n + 1]
  BY ZenonT(60), <1>2, SumOneMore
<1>7. SumFunction(f) \in Int
  BY <1>2, <1>3, SumType
<1>8. SumFunction(g) = SumFunction(f) + g[n + 1]
  BY <1>3, <1>4, <1>6
<1> QED
  BY <1>4, <1>5, <1>7, <1>8 DEF M

(* DiamondsConserved for one account. *)
ReviewingDiamonds(a) == [w \in WithdrawsOf(a, "reviewing") |-> withdrawOrder[w].diamonds]

DiamondsConservedAt(a) ==
    /\ diamondFrozen[a] = SumFunction(ReviewingDiamonds(a))
    /\ diamondAvailable[a] + diamondFrozen[a] = LedgerSum(diamondLedger[a])
    /\ WithdrawsOf(a, "failed") = {}

LEMMA DiamondsByAccount ==
    DiamondsConserved <=> \A a \in Account : DiamondsConservedAt(a)
  BY DEF DiamondsConserved, DiamondsConservedAt, ReviewingDiamonds

LEMMA WithdrawPresent ==
    ASSUME TypeOK, NEW w \in WithdrawNo,
           withdrawOrder[w].status \in {"reviewing", "paid", "failed"}
    PROVE  withdrawOrder[w] \in WithdrawOrder
  BY DEF TypeOK, GiftsTypeOK, NoWithdraw

LEMMA ReviewingType ==
    ASSUME TypeOK, NEW a \in Account, NEW status \in {"reviewing", "paid", "failed"}
    PROVE  /\ IsFiniteSet(WithdrawsOf(a, status))
           /\ [w \in WithdrawsOf(a, status) |-> withdrawOrder[w].diamonds]
                 \in [WithdrawsOf(a, status) -> Nat]
<1>1. WithdrawsOf(a, status) \subseteq WithdrawNo
  BY DEF WithdrawsOf
<1>2. \A w \in WithdrawsOf(a, status) : withdrawOrder[w].diamonds \in Nat
  BY WithdrawPresent DEF WithdrawsOf, WithdrawOrder
<1> QED
  BY <1>1, <1>2, BizNosFinite, FS_Subset

LEMMA SameDiamonds ==
    ASSUME NEW a \in Account, DiamondsConservedAt(a), UNCHANGED withdrawOrder,
           diamondFrozen'[a] = diamondFrozen[a],
           diamondAvailable'[a] = diamondAvailable[a],
           diamondLedger'[a] = diamondLedger[a]
    PROVE  DiamondsConservedAt(a)'
<1>1. \A status : WithdrawsOf(a, status)' = WithdrawsOf(a, status)
  BY DEF WithdrawsOf
<1>2. ReviewingDiamonds(a)' = ReviewingDiamonds(a)
  BY <1>1 DEF ReviewingDiamonds
<1> QED
  BY <1>1, <1>2 DEF DiamondsConservedAt

LEMMA SendGiftDiamonds ==
    ASSUME TypeOK, DiamondsConserved,
           NEW s \in Account, NEW k \in Key, NEW v \in Video, NEW gift \in Gift,
           NEW count \in GiftCount, SendGift(s, k, v, gift, count)
    PROVE  DiamondsConserved'
<1> DEFINE diamonds == CreatorShare(Cost(gift, count))
           credited == diamondAvailable[AuthorOf[v]] + diamonds
<1>1. PICK r \in Account : r = AuthorOf[v]
  BY GiftAssumption
<1>2. diamonds \in Nat
  BY CostIsNat
<1>3. PICK g \in GiftNo :
        /\ diamondAvailable' = [diamondAvailable EXCEPT ![r] = credited]
        /\ diamondLedger' = [diamondLedger EXCEPT ![r] =
              IF diamonds = 0 THEN @
              ELSE Append(@, Entry("credit", diamonds, credited, "gift_receive", g))]
        /\ UNCHANGED <<withdrawOrder, diamondFrozen>>
  BY <1>1 DEF SendGift
<1>4. /\ diamondAvailable \in [Account -> Nat]
      /\ diamondFrozen \in [Account -> Nat]
      /\ diamondLedger \in [Account -> Seq(LedgerEntry)]
  BY DEF TypeOK, LedgerTypeOK
<1>5. credited \in Nat /\ diamondAvailable'[r] = diamondAvailable[r] + diamonds
  BY <1>1, <1>2, <1>3, <1>4
<1>6. LedgerSum(diamondLedger'[r]) = LedgerSum(diamondLedger[r]) + diamonds
  <2> DEFINE e == Entry("credit", diamonds, credited, "gift_receive", g)
  <2>1. CASE diamonds = 0
    <3>1. diamondLedger'[r] = diamondLedger[r]
      BY <1>3, <1>4, <2>1
    <3>2. LedgerSum(diamondLedger[r]) \in Int
      <4>1. \A x \in LedgerEntry : LedgerSum(diamondLedger[r]) \in Int
        BY <1>4, LedgerSumAppend
      <4>2. Entry("credit", 0, 0, "gift_receive", g) \in LedgerEntry
        BY EntryType DEF BizType, BizNo
      <4> QED
        BY <4>1, <4>2
    <3> QED
      BY <2>1, <3>1, <3>2
  <2>2. CASE diamonds # 0
    <3>1. \A m, n \in Nat : Entry("credit", m, n, "gift_receive", g) \in LedgerEntry
      BY EntryType DEF BizType, BizNo
    <3>2. e \in LedgerEntry
      BY <1>2, <1>5, <3>1
    <3>3. Signed(e) = diamonds
      BY DEF Signed, Entry
    <3>4. diamondLedger'[r] = Append(diamondLedger[r], e)
      BY <1>3, <1>4, <2>2
    <3> HIDE DEF e, diamonds
    <3> QED
      BY <1>4, <3>2, <3>3, <3>4, LedgerSumAppend
  <2> QED
    BY <2>1, <2>2
<1>7. \A b \in Account : b # r =>
         diamondAvailable'[b] = diamondAvailable[b] /\ diamondLedger'[b] = diamondLedger[b]
  BY <1>3, <1>4
<1> HIDE DEF diamonds
<1> SUFFICES ASSUME NEW b \in Account PROVE DiamondsConservedAt(b)'
  BY DiamondsByAccount DEF DiamondsConserved, DiamondsConservedAt, ReviewingDiamonds
<1>8. DiamondsConservedAt(b)
  BY DiamondsByAccount
<1>9. CASE b # r
  BY <1>3, <1>7, <1>8, <1>9, SameDiamonds
<1>10. CASE b = r
  <2>1. /\ \A status : WithdrawsOf(r, status)' = WithdrawsOf(r, status)
        /\ ReviewingDiamonds(r)' = ReviewingDiamonds(r)
    BY <1>3 DEF WithdrawsOf, ReviewingDiamonds
  <2>2. diamondAvailable'[r] + diamondFrozen'[r] = LedgerSum(diamondLedger'[r])
    <3>1. diamondAvailable[r] + diamondFrozen[r] = LedgerSum(diamondLedger[r])
      BY <1>8, <1>10 DEF DiamondsConservedAt
    <3>2. diamondAvailable[r] \in Nat /\ diamondFrozen[r] \in Nat
          /\ diamondFrozen'[r] = diamondFrozen[r]
      BY <1>3, <1>4
    <3> QED
      BY <1>2, <1>5, <1>6, <3>1, <3>2
  <2> QED
    BY <1>3, <1>8, <1>10, <2>1, <2>2 DEF DiamondsConservedAt
<1> QED
  BY <1>9, <1>10

LEMMA RequestWithdrawDiamonds ==
    ASSUME TypeOK, DiamondsConserved, NEW a \in Account, NEW diamonds \in WithdrawAmount,
           RequestWithdraw(a, diamonds)
    PROVE  DiamondsConserved'
<1> DEFINE row == [account |-> a, diamonds |-> diamonds, status |-> "reviewing"]
<1>1. PICK w \in WithdrawNo :
        /\ withdrawOrder[w] = NoWithdraw
        /\ withdrawOrder' = [withdrawOrder EXCEPT ![w] = row]
  BY DEF RequestWithdraw
<1>2. /\ diamondAvailable' = [diamondAvailable EXCEPT ![a] = @ - diamonds]
      /\ diamondFrozen' = [diamondFrozen EXCEPT ![a] = @ + diamonds]
      /\ UNCHANGED diamondLedger
      /\ diamondAvailable \in [Account -> Nat]
      /\ diamondFrozen \in [Account -> Nat]
      /\ withdrawOrder \in [WithdrawNo -> WithdrawOrder \cup {NoWithdraw}]
  BY DEF RequestWithdraw, ledgerVars, TypeOK, LedgerTypeOK, GiftsTypeOK
<1>3. diamonds \in Nat
  BY GiftAssumption
<1>4. /\ withdrawOrder'[w] = row
      /\ \A u \in WithdrawNo : u # w => withdrawOrder'[u] = withdrawOrder[u]
  BY <1>1, <1>2
<1>5. /\ row.account = a /\ row.diamonds = diamonds /\ row.status = "reviewing"
      /\ NoWithdraw.status = "absent"
  BY DEF NoWithdraw
<1> HIDE DEF row
<1>6. /\ \A b \in Account : WithdrawsOf(b, "failed")' = WithdrawsOf(b, "failed")
      /\ \A b \in Account : b # a =>
            WithdrawsOf(b, "reviewing")' = WithdrawsOf(b, "reviewing")
      /\ WithdrawsOf(a, "reviewing")' = WithdrawsOf(a, "reviewing") \cup {w}
      /\ \A b \in Account : w \notin WithdrawsOf(b, "reviewing")
  BY <1>1, <1>4, <1>5 DEF WithdrawsOf
<1> SUFFICES ASSUME NEW b \in Account PROVE DiamondsConservedAt(b)'
  BY DiamondsByAccount DEF DiamondsConserved, DiamondsConservedAt, ReviewingDiamonds
<1>7. DiamondsConservedAt(b)
  BY DiamondsByAccount
<1>8. CASE b # a
  <2>1. diamondFrozen'[b] = diamondFrozen[b] /\ diamondAvailable'[b] = diamondAvailable[b]
    BY <1>2, <1>8
  <2>2. \A u \in WithdrawsOf(b, "reviewing") : withdrawOrder'[u] = withdrawOrder[u]
    BY <1>4, <1>6 DEF WithdrawsOf
  <2>3. ReviewingDiamonds(b)' = ReviewingDiamonds(b)
    BY <1>6, <1>8, <2>2 DEF ReviewingDiamonds
  <2> QED
    BY <1>2, <1>6, <1>7, <2>1, <2>3 DEF DiamondsConservedAt
<1>9. CASE b = a
  <2> DEFINE S == WithdrawsOf(a, "reviewing")
             f == ReviewingDiamonds(a)
             g == [u \in S \cup {w} |-> withdrawOrder'[u].diamonds]
  <2>1. IsFiniteSet(S) /\ f \in [S -> Nat]
    BY ReviewingType DEF ReviewingDiamonds
  <2>2. (\A u \in S : g[u] = f[u]) /\ g[w] = diamonds
    BY <1>4, <1>5, <1>6 DEF WithdrawsOf, ReviewingDiamonds
  <2>3. g \in [S \cup {w} -> Int] /\ f \in [S -> Int] /\ w \notin S
    BY <1>3, <1>6, <2>1, <2>2
  <2>4. ReviewingDiamonds(a)' = g
    BY <1>6 DEF ReviewingDiamonds
  <2> HIDE DEF S, f, g
  <2>5. SumFunction(g) = SumFunction(f) + g[w]
    BY <2>1, <2>2, <2>3, SumOneMore
  <2>6. /\ diamondFrozen[a] = SumFunction(f)
        /\ diamondAvailable[a] + diamondFrozen[a] = LedgerSum(diamondLedger[a])
        /\ WithdrawsOf(a, "failed") = {}
    BY <1>7, <1>9 DEF DiamondsConservedAt, f
  <2>7. /\ diamondFrozen'[a] = diamondFrozen[a] + diamonds
        /\ diamondAvailable'[a] = diamondAvailable[a] - diamonds
        /\ diamondFrozen[a] \in Nat /\ diamondAvailable[a] \in Nat
    BY <1>2
  <2>8. diamondAvailable'[a] + diamondFrozen'[a] = LedgerSum(diamondLedger'[a])
    BY <1>2, <1>3, <2>6, <2>7
  <2>9. diamondFrozen'[a] = SumFunction(g)
    BY <2>2, <2>5, <2>6, <2>7
  <2> QED
    BY <1>6, <1>9, <2>4, <2>6, <2>8, <2>9 DEF DiamondsConservedAt
<1> QED
  BY <1>8, <1>9

(* Paying a withdrawal finds its diamonds frozen, and takes them out of the *)
(* frozen ones and the ledger alike.                                       *)
LEMMA PayWithdrawDiamonds ==
    ASSUME TypeOK, DiamondsConserved, NEW w \in WithdrawNo, PayWithdraw(w)
    PROVE  DiamondsConserved'
<1>1. withdrawOrder[w] \in WithdrawOrder /\ withdrawOrder[w].status = "reviewing"
  BY WithdrawPresent DEF PayWithdraw
<1>2. PICK a \in Account : a = withdrawOrder[w].account
  BY <1>1 DEF WithdrawOrder
<1>3. PICK d \in Nat : d = withdrawOrder[w].diamonds
  BY <1>1 DEF WithdrawOrder
<1> DEFINE e == Entry("debit", d, diamondAvailable[a], "withdraw", w)
           S == WithdrawsOf(a, "reviewing")
           f == ReviewingDiamonds(a)
           g == [u \in S \ {w} |-> f[u]]
<1>4. /\ diamondAvailable \in [Account -> Nat]
      /\ diamondFrozen \in [Account -> Nat]
      /\ diamondLedger \in [Account -> Seq(LedgerEntry)]
      /\ withdrawOrder \in [WithdrawNo -> WithdrawOrder \cup {NoWithdraw}]
  BY DEF TypeOK, LedgerTypeOK, GiftsTypeOK
<1>5. /\ diamondFrozen[a] = SumFunction(f)
      /\ diamondAvailable[a] + diamondFrozen[a] = LedgerSum(diamondLedger[a])
      /\ \A b \in Account : WithdrawsOf(b, "failed") = {}
  BY DiamondsByAccount DEF DiamondsConservedAt
<1>6. IsFiniteSet(S) /\ f \in [S -> Nat] /\ w \in S /\ f[w] = d
  <2>1. IsFiniteSet(S) /\ f \in [S -> Nat]
    BY ReviewingType DEF ReviewingDiamonds
  <2>2. w \in S
    BY <1>1, <1>2 DEF WithdrawsOf
  <2> QED
    BY <1>3, <2>1, <2>2 DEF ReviewingDiamonds
<1>7. SumFunction(g) = SumFunction(f) - d
  <2>1. f \in [S -> Int] /\ g \in [S \ {w} -> Int] /\ \A u \in S \ {w} : g[u] = f[u]
    BY <1>6
  <2> HIDE DEF S, f, g
  <2>2. \A F \in [S -> Int], G \in [S \ {w} -> Int] :
           (\A u \in S \ {w} : G[u] = F[u]) => SumFunction(G) = SumFunction(F) - F[w]
    BY <1>6, SumOneLess
  <2>3. SumFunction(g) = SumFunction(f) - f[w]
    BY <2>1, <2>2
  <2> QED
    BY <1>6, <2>3
<1>8. d <= diamondFrozen[a]
  <2> HIDE DEF S, f
  <2> QED
    BY <1>5, <1>6, SumBounds
<1>9. /\ withdrawOrder' = [withdrawOrder EXCEPT ![w] =
                               [withdrawOrder[w] EXCEPT !.status = "paid"]]
      /\ diamondFrozen' = [diamondFrozen EXCEPT ![a] = @ - d]
      /\ diamondLedger' = [diamondLedger EXCEPT ![a] = Append(@, e)]
      /\ UNCHANGED diamondAvailable
  <2>1. ~(diamondFrozen[a] < d)
    BY <1>3, <1>4, <1>8
  <2> QED
    BY <1>2, <1>3, <2>1 DEF PayWithdraw
<1>10. /\ withdrawOrder'[w] = [withdrawOrder[w] EXCEPT !.status = "paid"]
       /\ \A u \in WithdrawNo : u # w => withdrawOrder'[u] = withdrawOrder[u]
  BY <1>4, <1>9
<1>11. withdrawOrder'[w].status = "paid" /\ withdrawOrder'[w].account = a
  BY <1>1, <1>2, <1>10 DEF WithdrawOrder
<1>12. /\ \A b \in Account : WithdrawsOf(b, "failed")' = WithdrawsOf(b, "failed")
       /\ WithdrawsOf(a, "reviewing")' = S \ {w}
       /\ \A b \in Account : b # a =>
             WithdrawsOf(b, "reviewing")' = WithdrawsOf(b, "reviewing")
  BY <1>1, <1>2, <1>10, <1>11 DEF WithdrawsOf
<1>13. LedgerSum(diamondLedger'[a]) = LedgerSum(diamondLedger[a]) - d
  <2>1. \A m, n \in Nat : Entry("debit", m, n, "withdraw", w) \in LedgerEntry
    BY EntryType DEF BizType, BizNo
  <2>2. e \in LedgerEntry
    BY <1>4, <2>1
  <2>3. Signed(e) = -d
    BY DEF Signed, Entry
  <2>4. diamondLedger'[a] = Append(diamondLedger[a], e) /\ diamondLedger[a] \in Seq(LedgerEntry)
    BY <1>4, <1>9
  <2> HIDE DEF e
  <2>5. /\ LedgerSum(diamondLedger[a]) \in Int
        /\ LedgerSum(diamondLedger'[a]) = LedgerSum(diamondLedger[a]) + Signed(e)
    BY <2>2, <2>4, LedgerSumAppend
  <2> QED
    BY <2>3, <2>5
<1> HIDE DEF e, S, f, g
<1> SUFFICES ASSUME NEW b \in Account PROVE DiamondsConservedAt(b)'
  BY DiamondsByAccount DEF DiamondsConserved, DiamondsConservedAt, ReviewingDiamonds
<1>14. DiamondsConservedAt(b)
  BY DiamondsByAccount
<1>15. CASE b # a
  <2>1. diamondFrozen'[b] = diamondFrozen[b] /\ diamondLedger'[b] = diamondLedger[b]
    BY <1>4, <1>9, <1>15
  <2>2. \A u \in WithdrawsOf(b, "reviewing") : withdrawOrder'[u] = withdrawOrder[u]
    BY <1>2, <1>10, <1>15 DEF WithdrawsOf
  <2>3. ReviewingDiamonds(b)' = ReviewingDiamonds(b)
    BY <1>12, <1>15, <2>2 DEF ReviewingDiamonds
  <2> QED
    BY <1>9, <1>12, <1>14, <2>1, <2>3 DEF DiamondsConservedAt
<1>16. CASE b = a
  <2>1. ReviewingDiamonds(a)' = g
    <3>1. \A u \in S \ {w} : withdrawOrder'[u] = withdrawOrder[u]
      BY <1>10 DEF S, WithdrawsOf
    <3> QED
      BY <1>12, <3>1 DEF ReviewingDiamonds, S, f, g
  <2>2. /\ diamondFrozen'[a] = diamondFrozen[a] - d
        /\ diamondAvailable'[a] = diamondAvailable[a]
        /\ diamondFrozen[a] \in Nat /\ diamondAvailable[a] \in Nat
    BY <1>4, <1>9
  <2>3. diamondFrozen'[a] = SumFunction(g)
    BY <1>5, <1>7, <2>2
  <2>4. diamondAvailable'[a] + diamondFrozen'[a] = LedgerSum(diamondLedger'[a])
    BY <1>5, <1>13, <2>2
  <2> QED
    BY <1>5, <1>12, <1>16, <2>1, <2>3, <2>4 DEF DiamondsConservedAt
<1> QED
  BY <1>15, <1>16

(***************************************************************************)
(* Diamonds are conserved: what an account has frozen is exactly what its  *)
(* withdrawals under review hold, available and frozen together are what   *)
(* its ledger adds up to, and no withdrawal ever fails.                    *)
(***************************************************************************)
THEOREM DiamondsAreConserved == Spec => []DiamondsConserved
<1>1. Init => DiamondsConserved
  <2> SUFFICES ASSUME Init, NEW a \in Account PROVE DiamondsConservedAt(a)
    BY DiamondsByAccount
  <2>1. \A w \in WithdrawNo : withdrawOrder[w].status = "absent"
    BY DEF Init, GiftsInit, NoWithdraw
  <2>2. WithdrawsOf(a, "reviewing") = {} /\ WithdrawsOf(a, "failed") = {}
    BY <2>1 DEF WithdrawsOf
  <2>3. SumFunction(ReviewingDiamonds(a)) = 0
    BY <2>2, SumNone DEF ReviewingDiamonds
  <2>4. /\ diamondLedger[a] = << >>
        /\ diamondAvailable[a] = 0 /\ diamondFrozen[a] = 0
    BY DEF Init, LedgerInit
  <2>5. LedgerSum(<< >>) = 0
    <3>1. DOMAIN [i \in DOMAIN << >> |-> Signed(<< >>[i])] = {}
      OBVIOUS
    <3> QED
      BY <3>1, SumNone DEF LedgerSum
  <2> QED
    BY <2>2, <2>3, <2>4, <2>5 DEF DiamondsConservedAt
<1>2. TypeOK /\ DiamondsConserved /\ [Next]_vars => DiamondsConserved'
  <2> SUFFICES ASSUME TypeOK, DiamondsConserved, [Next]_vars PROVE DiamondsConserved'
    OBVIOUS
  <2> DEFINE Kept == /\ UNCHANGED <<withdrawOrder, diamondFrozen, diamondAvailable>>
                     /\ UNCHANGED diamondLedger
  <2>1. ASSUME Kept PROVE DiamondsConserved'
    <3> SUFFICES ASSUME NEW b \in Account PROVE DiamondsConservedAt(b)'
      BY DiamondsByAccount DEF DiamondsConserved, DiamondsConservedAt, ReviewingDiamonds
    <3> QED
      BY <2>1, DiamondsByAccount, SameDiamonds
  <2>2. CASE UNCHANGED vars
    BY <2>1, <2>2 DEF vars, walletVars, ledgerVars, giftVars
  <2>3. ASSUME NEW a \in Account, NEW k \in Key, NEW p \in Package, NEW ch \in Channel,
               CreateRecharge(a, k, p, ch), UNCHANGED giftVars
        PROVE  Kept
    BY <2>3 DEF CreateRecharge, walletVars, ledgerVars, giftVars
  <2>4. ASSUME NEW o \in Order, Expire(o) \/ CloseIfExpired(o), UNCHANGED giftVars
        PROVE  Kept
    BY <2>4 DEF Expire, CloseIfExpired, walletVars, ledgerVars, giftVars
  <2>5. ASSUME NEW cb \in Callback, MarkFailed(cb), UNCHANGED giftVars PROVE Kept
    BY <2>5 DEF MarkFailed, walletVars, ledgerVars, giftVars
  <2>6. ASSUME NEW cb \in Callback, Credit(cb), UNCHANGED giftVars PROVE Kept
    BY <2>6 DEF Credit, walletVars, ledgerVars, giftVars
  <2>7. ASSUME NEW o \in Order, SettleOne(o), UNCHANGED giftVars PROVE Kept
    BY <2>7 DEF SettleOne, walletVars, ledgerVars, giftVars
  <2>8. ASSUME NEW o \in Order, Refund(o) \/ Chargeback(o), UNCHANGED giftVars PROVE Kept
    BY <2>8 DEF Refund, Chargeback, Reverse, walletVars, ledgerVars, giftVars
  <2>9. ASSUME NEW g \in GiftNo, PublishHeat(g) \/ LoseHeat(g) PROVE Kept
    BY <2>9 DEF PublishHeat, LoseHeat, walletVars, ledgerVars
  <2> HIDE DEF Kept
  <2> QED
    BY <2>1, <2>2, <2>3, <2>4, <2>5, <2>6, <2>7, <2>8, <2>9, SendGiftDiamonds,
       RequestWithdrawDiamonds, PayWithdrawDiamonds DEF Next
<1> QED
  BY <1>1, <1>2, TypeCorrect, PTL DEF Spec

-----------------------------------------------------------------------------
(* Gifts *)

LEMMA GiftPresent ==
    /\ \A x \in GiftOrder : x # NoGift
    /\ TypeOK => \A g \in GiftNo : giftOrder[g] # NoGift => giftOrder[g] \in GiftOrder
<1>1. \A x \in GiftOrder : "key" \in DOMAIN x
  BY DEF GiftOrder
<1>2. "key" \notin DOMAIN NoGift
  BY DEF NoGift
<1> QED
  BY <1>1, <1>2 DEF TypeOK, GiftsTypeOK

(* The row that a gift inserts, and what it leaves as it was. *)
LEMMA SendGiftInserts ==
    ASSUME TypeOK, TypeOK', NEW s \in Account, NEW k \in Key, NEW v \in Video,
           NEW gift \in Gift, NEW count \in GiftCount, SendGift(s, k, v, gift, count)
    PROVE  \E g \in GiftNo :
              /\ giftOrder[g] = NoGift
              /\ giftOrder'[g] \in GiftOrder
              /\ giftOrder'[g].sender = s
              /\ giftOrder'[g].video = v
              /\ giftOrder'[g].gift = gift
              /\ giftOrder'[g].count = count
              /\ giftOrder'[g].coinCost = Cost(gift, count)
              /\ giftOrder'[g].diamondCredit = CreatorShare(Cost(gift, count))
              /\ \A h \in GiftNo : h # g => giftOrder'[h] = giftOrder[h]
              /\ coinLedger' = [coinLedger EXCEPT ![s] =
                    Append(@, Entry("debit", Cost(gift, count),
                                    coinAvailable[s] - Cost(gift, count), "gift_send", g))]
              /\ coinAvailable' = [coinAvailable EXCEPT ![s] =
                    coinAvailable[s] - Cost(gift, count)]
              /\ diamondLedger' = [diamondLedger EXCEPT ![AuthorOf[v]] =
                    IF CreatorShare(Cost(gift, count)) = 0 THEN @
                    ELSE Append(@, Entry("credit", CreatorShare(Cost(gift, count)),
                                         diamondAvailable[AuthorOf[v]]
                                           + CreatorShare(Cost(gift, count)),
                                         "gift_receive", g))]
<1> DEFINE row == [sender |-> s, key |-> k, video |-> v, gift |-> gift, count |-> count,
                   coinCost |-> Cost(gift, count),
                   diamondCredit |-> CreatorShare(Cost(gift, count))]
<1>1. PICK g \in GiftNo :
        /\ giftOrder[g] = NoGift
        /\ giftOrder' = [giftOrder EXCEPT ![g] = row]
        /\ coinLedger' = [coinLedger EXCEPT ![s] =
              Append(@, Entry("debit", Cost(gift, count),
                              coinAvailable[s] - Cost(gift, count), "gift_send", g))]
        /\ coinAvailable' = [coinAvailable EXCEPT ![s] =
              coinAvailable[s] - Cost(gift, count)]
        /\ diamondLedger' = [diamondLedger EXCEPT ![AuthorOf[v]] =
              IF CreatorShare(Cost(gift, count)) = 0 THEN @
              ELSE Append(@, Entry("credit", CreatorShare(Cost(gift, count)),
                                   diamondAvailable[AuthorOf[v]]
                                     + CreatorShare(Cost(gift, count)),
                                   "gift_receive", g))]
  BY DEF SendGift
<1>2. giftOrder \in [GiftNo -> GiftOrder \cup {NoGift}]
  BY DEF TypeOK, GiftsTypeOK
<1>3. /\ giftOrder'[g] = row
      /\ \A h \in GiftNo : h # g => giftOrder'[h] = giftOrder[h]
  BY <1>1, <1>2
<1>4. row \in GiftOrder
  BY CostIsNat DEF GiftOrder
<1>5. /\ row.sender = s /\ row.video = v /\ row.gift = gift /\ row.count = count
      /\ row.coinCost = Cost(gift, count)
      /\ row.diamondCredit = CreatorShare(Cost(gift, count))
  OBVIOUS
<1> HIDE DEF row
<1> QED
  BY <1>1, <1>3, <1>4, <1>5

(* Every other transaction leaves the gifts and their statistics alone. *)
GiftSent ==
    \E s \in Account, k \in Key, v \in Video, gift \in Gift, count \in GiftCount :
        SendGift(s, k, v, gift, count)

LEMMA GiftSteps ==
    ASSUME [Next]_vars
    PROVE  GiftSent \/ UNCHANGED <<giftOrder, videoStat>>
<1>1. CASE UNCHANGED vars
  BY <1>1 DEF vars, giftVars
<1>2. ASSUME UNCHANGED giftVars PROVE UNCHANGED <<giftOrder, videoStat>>
  BY <1>2 DEF giftVars
<1>3. ASSUME NEW g \in GiftNo, PublishHeat(g) \/ LoseHeat(g)
      PROVE  UNCHANGED <<giftOrder, videoStat>>
  BY <1>3 DEF PublishHeat, LoseHeat
<1>4. ASSUME NEW a \in Account, NEW diamonds \in WithdrawAmount, RequestWithdraw(a, diamonds)
      PROVE  UNCHANGED <<giftOrder, videoStat>>
  BY <1>4 DEF RequestWithdraw
<1>5. ASSUME NEW w \in WithdrawNo, PayWithdraw(w)
      PROVE  UNCHANGED <<giftOrder, videoStat>>
  BY <1>5 DEF PayWithdraw
<1> QED
  BY <1>1, <1>2, <1>3, <1>4, <1>5 DEF Next, GiftSent

LEMMA DiamondSteps ==
    ASSUME [Next]_vars
    PROVE  \/ GiftSent
           \/ \E w \in WithdrawNo : PayWithdraw(w)
           \/ UNCHANGED diamondLedger
<1>1. CASE UNCHANGED vars
  BY <1>1 DEF vars, ledgerVars
<1>2. ASSUME NEW a \in Account, NEW k \in Key, NEW p \in Package, NEW ch \in Channel,
             CreateRecharge(a, k, p, ch)
      PROVE  UNCHANGED diamondLedger
  BY <1>2 DEF CreateRecharge, ledgerVars
<1>3. ASSUME NEW o \in Order, Expire(o) \/ CloseIfExpired(o) PROVE UNCHANGED diamondLedger
  BY <1>3 DEF Expire, CloseIfExpired, ledgerVars
<1>4. ASSUME NEW cb \in Callback, MarkFailed(cb) PROVE UNCHANGED diamondLedger
  BY <1>4 DEF MarkFailed, ledgerVars
<1>5. ASSUME NEW cb \in Callback, Credit(cb) PROVE UNCHANGED diamondLedger
  BY <1>5 DEF Credit
<1>6. ASSUME NEW o \in Order, SettleOne(o) PROVE UNCHANGED diamondLedger
  BY <1>6 DEF SettleOne, ledgerVars
<1>7. ASSUME NEW o \in Order, Refund(o) \/ Chargeback(o) PROVE UNCHANGED diamondLedger
  BY <1>7 DEF Refund, Chargeback, Reverse, ledgerVars
<1>8. ASSUME NEW g \in GiftNo, PublishHeat(g) \/ LoseHeat(g) PROVE UNCHANGED diamondLedger
  BY <1>8 DEF PublishHeat, LoseHeat, ledgerVars
<1>9. ASSUME NEW a \in Account, NEW diamonds \in WithdrawAmount, RequestWithdraw(a, diamonds)
      PROVE  UNCHANGED diamondLedger
  BY <1>9 DEF RequestWithdraw, ledgerVars
<1> QED
  BY <1>1, <1>2, <1>3, <1>4, <1>5, <1>6, <1>7, <1>8, <1>9 DEF Next, GiftSent

(* The statistics of a video are sums over its gifts. *)
StatAddsUp(v) ==
    videoStat[v] =
        [count |-> SumFunction([g \in GiftsOf(v) |-> giftOrder[g].count]),
         coins |-> SumFunction([g \in GiftsOf(v) |-> giftOrder[g].coinCost]),
         popularity |-> SumFunction([g \in GiftsOf(v) |->
                            Weight(giftOrder[g].gift, giftOrder[g].count)])]

LEMMA StatStep ==
    ASSUME TypeOK, TypeOK', \A v \in Video : StatAddsUp(v), [Next]_vars, NEW u \in Video
    PROVE  StatAddsUp(u)'
<1>1. CASE UNCHANGED <<giftOrder, videoStat>>
  <2>1. GiftsOf(u)' = GiftsOf(u)
    BY <1>1 DEF GiftsOf
  <2> QED
    BY <1>1, <2>1 DEF StatAddsUp
<1>2. ASSUME NEW s \in Account, NEW k \in Key, NEW v \in Video, NEW gift \in Gift,
             NEW count \in GiftCount, SendGift(s, k, v, gift, count)
      PROVE  StatAddsUp(u)'
  <2>1. PICK g \in GiftNo :
          /\ giftOrder[g] = NoGift
          /\ giftOrder'[g] \in GiftOrder
          /\ giftOrder'[g].video = v
          /\ giftOrder'[g].gift = gift
          /\ giftOrder'[g].count = count
          /\ giftOrder'[g].coinCost = Cost(gift, count)
          /\ \A h \in GiftNo : h # g => giftOrder'[h] = giftOrder[h]
    BY <1>2, SendGiftInserts
  <2>2. giftOrder'[g] # NoGift
    BY <2>1, GiftPresent
  <2>3. videoStat \in [Video -> VideoStat]
    BY DEF TypeOK, GiftsTypeOK
  <2>4. videoStat' = [videoStat EXCEPT ![v] = AddToStat(@, gift, count)]
    BY <1>2 DEF SendGift
  <2>5. CASE u # v
    <3>1. videoStat'[u] = videoStat[u]
      BY <2>3, <2>4, <2>5
    <3>2. GiftsOf(u)' = GiftsOf(u) /\ \A h \in GiftsOf(u) : giftOrder'[h] = giftOrder[h]
      BY <2>1, <2>2, <2>5 DEF GiftsOf
    <3>3. /\ [h \in GiftsOf(u) |-> giftOrder[h].count]'
               = [h \in GiftsOf(u) |-> giftOrder[h].count]
          /\ [h \in GiftsOf(u) |-> giftOrder[h].coinCost]'
               = [h \in GiftsOf(u) |-> giftOrder[h].coinCost]
          /\ [h \in GiftsOf(u) |-> Weight(giftOrder[h].gift, giftOrder[h].count)]'
               = [h \in GiftsOf(u) |-> Weight(giftOrder[h].gift, giftOrder[h].count)]
      BY <3>2
    <3> QED
      BY <3>1, <3>3 DEF StatAddsUp
  <2>6. CASE u = v
    <3> DEFINE S == GiftsOf(v)
               T == GiftsOf(v)'
               c == [h \in S |-> giftOrder[h].count]
               d == [h \in S |-> giftOrder[h].coinCost]
               p == [h \in S |-> Weight(giftOrder[h].gift, giftOrder[h].count)]
               cc == [h \in T |-> giftOrder'[h].count]
               dd == [h \in T |-> giftOrder'[h].coinCost]
               pp == [h \in T |-> Weight(giftOrder'[h].gift, giftOrder'[h].count)]
    <3>1. /\ T = S \cup {g} /\ g \notin S
          /\ \A h \in S : giftOrder'[h] = giftOrder[h]
      BY <2>1, <2>2 DEF GiftsOf
    <3>2. IsFiniteSet(S)
      <4>1. S \subseteq GiftNo
        BY DEF GiftsOf
      <4> QED
        BY <4>1, BizNosFinite, FS_Subset
    <3>3. \A h \in S : giftOrder[h] \in GiftOrder
      BY GiftPresent DEF GiftsOf
    <3>4. \A x \in GiftOrder : /\ x.count \in Int /\ x.coinCost \in Int
                                /\ Weight(x.gift, x.count) \in Int
      <4> SUFFICES ASSUME NEW x \in GiftOrder
                   PROVE  /\ x.count \in Int /\ x.coinCost \in Int
                          /\ Weight(x.gift, x.count) \in Int
        OBVIOUS
      <4>1. x.count \in GiftCount /\ x.gift \in Gift /\ x.coinCost \in Nat
        BY DEF GiftOrder
      <4>2. x.count \in Int
        <5>1. GiftCount \subseteq 1 .. 99
          BY GiftAssumption
        <5>2. x.count \in 1 .. 99
          BY <4>1, <5>1
        <5> QED
          BY <5>2
      <4> QED
        BY <4>1, <4>2, CostIsNat
    <3>5. /\ c \in [S -> Int] /\ d \in [S -> Int] /\ p \in [S -> Int]
          /\ cc \in [S \cup {g} -> Int] /\ dd \in [S \cup {g} -> Int]
          /\ pp \in [S \cup {g} -> Int]
      <4>1. \A h \in S \cup {g} : giftOrder'[h] \in GiftOrder
        BY <2>1, <3>1, <3>3
      <4> HIDE DEF S, T
      <4> QED
        BY <3>1, <3>3, <3>4, <4>1
    <3>6. /\ \A h \in S : cc[h] = c[h] /\ dd[h] = d[h] /\ pp[h] = p[h]
          /\ cc[g] = count /\ dd[g] = Cost(gift, count) /\ pp[g] = Weight(gift, count)
      <4> HIDE DEF S, T
      <4> QED
        BY <2>1, <3>1
    <3>7. /\ c' = cc /\ d' = dd /\ p' = pp
      OBVIOUS
    <3>8. videoStat[v] = [count |-> SumFunction(c), coins |-> SumFunction(d),
                          popularity |-> SumFunction(p)]
      BY DEF StatAddsUp
    <3>9. StatAddsUp(v)' <=>
             videoStat'[v] = [count |-> SumFunction(cc), coins |-> SumFunction(dd),
                              popularity |-> SumFunction(pp)]
      BY DEF StatAddsUp
    <3> HIDE DEF S, T, c, d, p, cc, dd, pp
    <3>10. \A F \in [S -> Int], G \in [S \cup {g} -> Int] :
              (\A h \in S : G[h] = F[h]) => SumFunction(G) = SumFunction(F) + G[g]
      BY <3>1, <3>2, SumOneMore
    <3>11. /\ SumFunction(cc) = SumFunction(c) + count
           /\ SumFunction(dd) = SumFunction(d) + Cost(gift, count)
           /\ SumFunction(pp) = SumFunction(p) + Weight(gift, count)
      BY <3>5, <3>6, <3>10
    <3>12. videoStat'[v] = [count |-> SumFunction(cc), coins |-> SumFunction(dd),
                            popularity |-> SumFunction(pp)]
      BY <2>3, <2>4, <3>8, <3>11 DEF AddToStat
    <3> QED
      BY <2>6, <3>9, <3>12
  <2> QED
    BY <2>5, <2>6
<1> QED
  BY <1>1, <1>2, GiftSteps DEF GiftSent

(* The diamond rows of account a with business number no. *)
DiamondRows(a, no) == {i \in DOMAIN diamondLedger[a] : diamondLedger[a][i].bizNo = no}

(* A gift has one coin row, on its sender's account. *)
CoinRowOfGift(g, a) ==
    IF giftOrder[g] # NoGift /\ giftOrder[g].sender = a
    THEN \E i \in DOMAIN coinLedger[a] :
            /\ CoinRows(a, "gift_send", g) = {i}
            /\ coinLedger[a][i].amount = giftOrder[g].coinCost
    ELSE CoinRows(a, "gift_send", g) = {}

(* A gift that earns diamonds has one diamond row, on the author's account. *)
DiamondRowOfGift(g, a) ==
    IF /\ giftOrder[g] # NoGift
       /\ AuthorOf[giftOrder[g].video] = a
       /\ giftOrder[g].diamondCredit # 0
    THEN \E i \in DOMAIN diamondLedger[a] :
            /\ DiamondRows(a, g) = {i}
            /\ diamondLedger[a][i].amount = giftOrder[g].diamondCredit
    ELSE DiamondRows(a, g) = {}

GiftRows ==
    \A g \in GiftNo, a \in Account : CoinRowOfGift(g, a) /\ DiamondRowOfGift(g, a)

LEMMA SameCoinRow ==
    ASSUME NEW g \in GiftNo, NEW a \in Account, CoinRowOfGift(g, a),
           giftOrder'[g] = giftOrder[g],
           CoinRows(a, "gift_send", g)' = CoinRows(a, "gift_send", g),
           \A i \in CoinRows(a, "gift_send", g) : coinLedger'[a][i] = coinLedger[a][i]
    PROVE  CoinRowOfGift(g, a)'
<1>1. \A i \in CoinRows(a, "gift_send", g) : i \in DOMAIN coinLedger'[a]
  BY DEF CoinRows
<1> QED
  BY <1>1 DEF CoinRowOfGift

LEMMA SameDiamondRow ==
    ASSUME NEW g \in GiftNo, NEW a \in Account, DiamondRowOfGift(g, a),
           giftOrder'[g] = giftOrder[g],
           DiamondRows(a, g)' = DiamondRows(a, g),
           \A i \in DiamondRows(a, g) : diamondLedger'[a][i] = diamondLedger[a][i]
    PROVE  DiamondRowOfGift(g, a)'
<1>1. \A i \in DiamondRows(a, g) : i \in DOMAIN diamondLedger'[a]
  BY DEF DiamondRows
<1> QED
  BY <1>1 DEF DiamondRowOfGift

(* What posting one diamond entry does to the rows of a business number. *)
PostsDiamonds(a, e) == diamondLedger' = [diamondLedger EXCEPT ![a] = Append(@, e)]

LEMMA PostedDiamonds ==
    ASSUME TypeOK, NEW a \in Account, NEW e \in LedgerEntry, PostsDiamonds(a, e),
           NEW b \in Account, NEW no
    PROVE  /\ \A i \in DiamondRows(b, no) : diamondLedger'[b][i] = diamondLedger[b][i]
           /\ ~(b = a /\ e.bizNo = no) => DiamondRows(b, no)' = DiamondRows(b, no)
           /\ b = a /\ e.bizNo = no =>
                 \E i \in DOMAIN diamondLedger'[b] :
                    /\ DiamondRows(b, no)' = DiamondRows(b, no) \cup {i}
                    /\ diamondLedger'[b][i] = e
<1>1. diamondLedger \in [Account -> Seq(LedgerEntry)]
  BY DEF TypeOK, LedgerTypeOK
<1> DEFINE old == diamondLedger[b]
           new == diamondLedger'[b]
           n == Len(old)
<1>2. old \in Seq(LedgerEntry) /\ n \in Nat /\ DOMAIN old = 1 .. n
  BY <1>1
<1>3. CASE b # a
  <2>1. new = old
    BY <1>1, <1>3 DEF PostsDiamonds
  <2> QED
    BY <1>3, <2>1 DEF DiamondRows
<1>4. CASE b = a
  <2>1. new = Append(old, e)
    BY <1>1, <1>4 DEF PostsDiamonds
  <2>2. /\ DOMAIN new = 1 .. n + 1
        /\ \A i \in 1 .. n : new[i] = old[i]
        /\ new[n + 1] = e
    <3> HIDE DEF old, new, n
    <3>1. n = Len(old)
      BY DEF n
    <3> QED
      BY <1>2, <2>1, <3>1
  <2>3. 1 .. n + 1 = (1 .. n) \cup {n + 1} /\ n + 1 \notin 1 .. n
    BY <1>2
  <2>4. DiamondRows(b, no) = {i \in 1 .. n : old[i].bizNo = no}
    BY <1>2 DEF DiamondRows
  <2>5. DiamondRows(b, no)' = {i \in 1 .. n + 1 : new[i].bizNo = no}
    BY <2>2 DEF DiamondRows
  <2> HIDE DEF old, new, n
  <2>6. \A i \in DiamondRows(b, no) : new[i] = old[i]
    BY <2>2, <2>4
  <2>7. e.bizNo # no => DiamondRows(b, no)' = DiamondRows(b, no)
    BY <2>2, <2>3, <2>4, <2>5
  <2>8. e.bizNo = no => DiamondRows(b, no)' = DiamondRows(b, no) \cup {n + 1}
    BY <2>2, <2>3, <2>4, <2>5
  <2>9. n + 1 \in DOMAIN new
    BY <2>2, <2>3
  <2> QED
    BY <1>4, <2>2, <2>6, <2>7, <2>8, <2>9 DEF old, new
<1> QED
  BY <1>3, <1>4

(* Sending a gift posts its rows, and leaves those of the other gifts. *)
LEMMA SendGiftRows ==
    ASSUME TypeOK, TypeOK', GiftRows, NEW s \in Account, NEW k \in Key, NEW v \in Video,
           NEW gift \in Gift, NEW count \in GiftCount, SendGift(s, k, v, gift, count)
    PROVE  GiftRows'
<1>1. PICK n \in GiftNo :
        /\ giftOrder[n] = NoGift
        /\ giftOrder'[n] \in GiftOrder
        /\ giftOrder'[n].sender = s
        /\ giftOrder'[n].video = v
        /\ giftOrder'[n].coinCost = Cost(gift, count)
        /\ giftOrder'[n].diamondCredit = CreatorShare(Cost(gift, count))
        /\ \A h \in GiftNo : h # n => giftOrder'[h] = giftOrder[h]
        /\ coinLedger' = [coinLedger EXCEPT ![s] =
              Append(@, Entry("debit", Cost(gift, count),
                              coinAvailable[s] - Cost(gift, count), "gift_send", n))]
        /\ coinAvailable' = [coinAvailable EXCEPT ![s] =
              coinAvailable[s] - Cost(gift, count)]
        /\ diamondLedger' = [diamondLedger EXCEPT ![AuthorOf[v]] =
              IF CreatorShare(Cost(gift, count)) = 0 THEN @
              ELSE Append(@, Entry("credit", CreatorShare(Cost(gift, count)),
                                   diamondAvailable[AuthorOf[v]]
                                     + CreatorShare(Cost(gift, count)),
                                   "gift_receive", n))]
  BY SendGiftInserts
<1>2. PICK r \in Account : r = AuthorOf[v]
  BY GiftAssumption
<1>3. PICK cost \in Nat : cost = Cost(gift, count)
  BY CostIsNat
<1>4. PICK d \in Nat : d = CreatorShare(Cost(gift, count))
  BY CostIsNat
<1>5. giftOrder'[n] # NoGift
  BY <1>1, GiftPresent
<1>6. ASSUME NEW g \in GiftNo, NEW a \in Account PROVE CoinRowOfGift(g, a)'
  <2> DEFINE left == coinAvailable[s] - cost
             e == Entry("debit", cost, left, "gift_send", n)
  <2>1. coinAvailable[s] \in Nat /\ left \in Nat
    BY <1>3 DEF TypeOK, LedgerTypeOK, SendGift
  <2>2. \A x, y \in Nat : Entry("debit", x, y, "gift_send", n) \in LedgerEntry
    BY EntryType DEF BizType, BizNo
  <2>3. /\ e \in LedgerEntry /\ e.bizType = "gift_send" /\ e.bizNo = n /\ e.amount = cost
        /\ e.direction = "debit" /\ e.balanceAfter = left
    BY <2>1, <2>2 DEF Entry
  <2>4. PostsCoins(s, e)
    <3>1. Signed(e) = -cost
      BY <2>3 DEF Signed
    <3>2. e.balanceAfter = coinAvailable[s] + Signed(e)
      BY <2>1, <2>3, <3>1
    <3>3. /\ coinAvailable' = [coinAvailable EXCEPT ![s] = left]
          /\ coinLedger' = [coinLedger EXCEPT ![s] = Append(@, e)]
      BY <1>1, <1>3
    <3> HIDE DEF e, left
    <3> QED
      BY <2>3, <3>2, <3>3 DEF PostsCoins
  <2> HIDE DEF e, left
  <2>5. CoinRowOfGift(g, a)
    BY DEF GiftRows
  <2>6. CASE g # n
    <3>1. CoinRows(a, "gift_send", g)' = CoinRows(a, "gift_send", g)
      BY <2>3, <2>4, <2>6, PostedRows
    <3>2. \A i \in CoinRows(a, "gift_send", g) : coinLedger'[a][i] = coinLedger[a][i]
      BY <2>3, <2>4, PostedRows
    <3> QED
      BY <1>1, <2>5, <2>6, <3>1, <3>2, SameCoinRow
  <2>7. CASE g = n /\ a # s
    <3>1. CoinRows(a, "gift_send", g)' = CoinRows(a, "gift_send", g)
      BY <2>3, <2>4, <2>7, PostedRows
    <3>2. CoinRows(a, "gift_send", g) = {}
      BY <1>1, <2>5, <2>7 DEF CoinRowOfGift
    <3> QED
      BY <1>1, <1>5, <2>7, <3>1, <3>2 DEF CoinRowOfGift
  <2>8. CASE g = n /\ a = s
    <3>1. CoinRows(a, "gift_send", g) = {}
      BY <1>1, <2>5, <2>8 DEF CoinRowOfGift
    <3>2. PICK i \in DOMAIN coinLedger'[s] :
            /\ CoinRows(s, "gift_send", n)' = CoinRows(s, "gift_send", n) \cup {i}
            /\ coinLedger'[s][i] = e
      BY <2>3, <2>4, PostedRow
    <3>3. CoinRows(s, "gift_send", n)' = {i} /\ coinLedger'[s][i].amount = cost
      BY <2>3, <2>8, <3>1, <3>2
    <3> QED
      BY <1>1, <1>3, <1>5, <2>8, <3>2, <3>3 DEF CoinRowOfGift
  <2> QED
    BY <2>6, <2>7, <2>8
<1>7. ASSUME NEW g \in GiftNo, NEW a \in Account PROVE DiamondRowOfGift(g, a)'
  <2>1. DiamondRowOfGift(g, a)
    BY DEF GiftRows
  <2>2. diamondLedger \in [Account -> Seq(LedgerEntry)] /\ diamondAvailable[r] \in Nat
    BY DEF TypeOK, LedgerTypeOK
  <2>3. CASE d = 0
    <3>1. diamondLedger'[a] = diamondLedger[a]
      BY <1>1, <1>2, <1>4, <2>2, <2>3
    <3>2. DiamondRows(a, g)' = DiamondRows(a, g)
      BY <3>1 DEF DiamondRows
    <3>3. CASE g # n
      BY <1>1, <2>1, <3>1, <3>2, <3>3, SameDiamondRow
    <3>4. CASE g = n
      <4>1. DiamondRows(a, g) = {}
        BY <1>1, <2>1, <3>4 DEF DiamondRowOfGift
      <4> QED
        BY <1>1, <1>4, <2>3, <3>2, <3>4, <4>1 DEF DiamondRowOfGift
    <3> QED
      BY <3>3, <3>4
  <2>4. CASE d # 0
    <3> DEFINE e == Entry("credit", d, diamondAvailable[r] + d, "gift_receive", n)
    <3>1. \A x, y \in Nat : Entry("credit", x, y, "gift_receive", n) \in LedgerEntry
      BY EntryType DEF BizType, BizNo
    <3>2. e \in LedgerEntry /\ e.bizNo = n /\ e.amount = d
      BY <2>2, <3>1 DEF Entry
    <3>3. PostsDiamonds(r, e)
      BY <1>1, <1>2, <1>4, <2>4 DEF PostsDiamonds
    <3> HIDE DEF e
    <3>4. CASE g # n
      <4>1. DiamondRows(a, g)' = DiamondRows(a, g)
        BY <3>2, <3>3, <3>4, PostedDiamonds
      <4>2. \A i \in DiamondRows(a, g) : diamondLedger'[a][i] = diamondLedger[a][i]
        BY <3>2, <3>3, PostedDiamonds
      <4> QED
        BY <1>1, <2>1, <3>4, <4>1, <4>2, SameDiamondRow
    <3>5. CASE g = n /\ a # r
      <4>1. DiamondRows(a, g)' = DiamondRows(a, g)
        BY <3>2, <3>3, <3>5, PostedDiamonds
      <4>2. DiamondRows(a, g) = {}
        BY <1>1, <2>1, <3>5 DEF DiamondRowOfGift
      <4> QED
        BY <1>1, <1>2, <3>5, <4>1, <4>2 DEF DiamondRowOfGift
    <3>6. CASE g = n /\ a = r
      <4>1. DiamondRows(a, g) = {}
        BY <1>1, <2>1, <3>6 DEF DiamondRowOfGift
      <4> DEFINE P(b) == b = r /\ e.bizNo = n =>
                   \E i \in DOMAIN diamondLedger'[b] :
                      /\ DiamondRows(b, n)' = DiamondRows(b, n) \cup {i}
                      /\ diamondLedger'[b][i] = e
      <4>2. \A b \in Account : P(b)
        BY <3>2, <3>3, PostedDiamonds
      <4>3. P(a)
        BY <4>2
      <4>4. PICK i \in DOMAIN diamondLedger'[a] :
              /\ DiamondRows(a, n)' = DiamondRows(a, n) \cup {i}
              /\ diamondLedger'[a][i] = e
        BY <3>2, <3>6, <4>3
      <4>5. DiamondRows(a, g)' = {i} /\ diamondLedger'[a][i].amount = d
        BY <3>2, <3>6, <4>1, <4>4
      <4> QED
        BY <1>1, <1>2, <1>4, <1>5, <2>4, <3>6, <4>4, <4>5 DEF DiamondRowOfGift
    <3> QED
      BY <3>4, <3>5, <3>6
  <2> QED
    BY <2>3, <2>4
<1> QED
  BY <1>6, <1>7 DEF GiftRows

(* No other transaction posts a row with a gift's number and type. *)
LEMMA OtherCoinRows ==
    ASSUME TypeOK, [Next]_vars, ~GiftSent, NEW g \in GiftNo, NEW a \in Account
    PROVE  /\ CoinRows(a, "gift_send", g)' = CoinRows(a, "gift_send", g)
           /\ \A i \in CoinRows(a, "gift_send", g) : coinLedger'[a][i] = coinLedger[a][i]
<1> DEFINE Kept == /\ CoinRows(a, "gift_send", g)' = CoinRows(a, "gift_send", g)
                   /\ \A i \in CoinRows(a, "gift_send", g) :
                         coinLedger'[a][i] = coinLedger[a][i]
<1>1. ASSUME NEW b \in Account, NEW e \in LedgerEntry, PostsCoins(b, e),
             e.bizType # "gift_send"
      PROVE  Kept
  BY <1>1, PostedRows
<1>2. ASSUME UNCHANGED coinLedger PROVE Kept
  BY <1>2 DEF CoinRows
<1> HIDE DEF Kept
<1>3. ASSUME NEW cb \in Callback, Credit(cb) PROVE Kept
  <2>1. PICK b \in Account, e \in LedgerEntry : PostsCoins(b, e) /\ e.bizType = "recharge"
    BY <1>3, CreditPosts
  <2> QED
    BY <1>1, <2>1
<1>4. ASSUME NEW o \in Order, NEW bizType \in {"refund", "chargeback"}, NEW nextStatus,
             Reverse(o, bizType, nextStatus)
      PROVE  Kept
  <2>1. \/ UNCHANGED coinLedger
        \/ \E b \in Account, e \in LedgerEntry : PostsCoins(b, e) /\ e.bizType = bizType
    BY <1>4, ReversePosts
  <2> QED
    BY <1>1, <1>2, <2>1
<1>5. ASSUME NEW o \in Order, Refund(o) \/ Chargeback(o) PROVE Kept
  BY <1>4, <1>5 DEF Refund, Chargeback
<1>6. ASSUME Quiet PROVE Kept
  BY <1>2, <1>6 DEF Quiet
<1> QED
  BY <1>3, <1>5, <1>6, StepKinds DEF GiftSent, Kept

LEMMA OtherDiamondRows ==
    ASSUME TypeOK, [Next]_vars, ~GiftSent, NEW g \in GiftNo, NEW a \in Account
    PROVE  /\ DiamondRows(a, g)' = DiamondRows(a, g)
           /\ \A i \in DiamondRows(a, g) : diamondLedger'[a][i] = diamondLedger[a][i]
<1> DEFINE Kept == /\ DiamondRows(a, g)' = DiamondRows(a, g)
                   /\ \A i \in DiamondRows(a, g) :
                         diamondLedger'[a][i] = diamondLedger[a][i]
<1>1. ASSUME UNCHANGED diamondLedger PROVE Kept
  BY <1>1 DEF DiamondRows
<1>2. ASSUME NEW w \in WithdrawNo, PayWithdraw(w) PROVE Kept
  <2>1. CASE UNCHANGED diamondLedger
    BY <1>1, <2>1
  <2>2. CASE ~UNCHANGED diamondLedger
    <3>1. withdrawOrder[w] \in WithdrawOrder
      BY <1>2, WithdrawPresent DEF PayWithdraw
    <3>2. PICK b \in Account, d \in Nat :
            b = withdrawOrder[w].account /\ d = withdrawOrder[w].diamonds
      BY <3>1 DEF WithdrawOrder
    <3> DEFINE e == Entry("debit", d, diamondAvailable[b], "withdraw", w)
    <3>3. PostsDiamonds(b, e)
      BY <1>2, <2>2, <3>2 DEF PayWithdraw, PostsDiamonds
    <3>4. \A x, y \in Nat : Entry("debit", x, y, "withdraw", w) \in LedgerEntry
      BY EntryType DEF BizType, BizNo
    <3>5. diamondAvailable[b] \in Nat
      BY DEF TypeOK, LedgerTypeOK
    <3>6. e \in LedgerEntry /\ e.bizNo = w
      BY <3>4, <3>5 DEF Entry
    <3>7. w # g
      BY BizNosDisjoint
    <3> HIDE DEF e
    <3> QED
      BY <3>3, <3>6, <3>7, PostedDiamonds
  <2> QED
    BY <2>1, <2>2
<1>3. \/ UNCHANGED diamondLedger
      \/ \E w \in WithdrawNo : PayWithdraw(w)
  BY DiamondSteps
<1> HIDE DEF Kept
<1> QED
  BY <1>1, <1>2, <1>3 DEF Kept

LEMMA OtherGiftRows ==
    ASSUME TypeOK, GiftRows, [Next]_vars, ~GiftSent
    PROVE  GiftRows'
<1>1. UNCHANGED giftOrder
  BY GiftSteps
<1>2. ASSUME NEW g \in GiftNo, NEW a \in Account PROVE CoinRowOfGift(g, a)'
  BY <1>1, OtherCoinRows, SameCoinRow DEF GiftRows
<1>3. ASSUME NEW g \in GiftNo, NEW a \in Account PROVE DiamondRowOfGift(g, a)'
  BY <1>1, OtherDiamondRows, SameDiamondRow DEF GiftRows
<1> QED
  BY <1>2, <1>3 DEF GiftRows

(* What creators have been paid, from the withdrawals paid. *)
PaidWithdraws == {w \in WithdrawNo : withdrawOrder[w].status = "paid"}

PayoutAddsUp ==
    book.payout = DiamondFenRate *
        SumFunction([w \in PaidWithdraws |-> withdrawOrder[w].diamonds])

LEMMA PaidByAccount ==
    TypeOK => UNION {WithdrawsOf(a, "paid") : a \in Account} = PaidWithdraws
<1> SUFFICES ASSUME TypeOK
             PROVE  UNION {WithdrawsOf(a, "paid") : a \in Account} = PaidWithdraws
  OBVIOUS
<1>1. \A w \in PaidWithdraws : withdrawOrder[w].account \in Account
  BY WithdrawPresent DEF PaidWithdraws, WithdrawOrder
<1> QED
  BY <1>1 DEF PaidWithdraws, WithdrawsOf

LEMMA SamePayout ==
    ASSUME PayoutAddsUp, book'.payout = book.payout, PaidWithdraws' = PaidWithdraws,
           \A w \in PaidWithdraws : withdrawOrder'[w] = withdrawOrder[w]
    PROVE  PayoutAddsUp'
<1>1. [w \in PaidWithdraws |-> withdrawOrder[w].diamonds]'
        = [w \in PaidWithdraws |-> withdrawOrder[w].diamonds]
  OBVIOUS
<1> QED
  BY <1>1 DEF PayoutAddsUp

LEMMA PayWithdrawPayout ==
    ASSUME TypeOK, PayoutAddsUp, NEW w \in WithdrawNo, PayWithdraw(w)
    PROVE  PayoutAddsUp'
<1>1. withdrawOrder[w] \in WithdrawOrder /\ withdrawOrder[w].status = "reviewing"
  BY WithdrawPresent DEF PayWithdraw
<1>2. PICK d \in Nat : d = withdrawOrder[w].diamonds
  BY <1>1 DEF WithdrawOrder
<1>3. /\ withdrawOrder \in [WithdrawNo -> WithdrawOrder \cup {NoWithdraw}]
      /\ book \in PlatformBook
  BY DEF TypeOK, LedgerTypeOK, GiftsTypeOK
<1>4. w \notin PaidWithdraws
  BY <1>1 DEF PaidWithdraws
<1>5. CASE /\ withdrawOrder' = [withdrawOrder EXCEPT ![w] =
                                   [withdrawOrder[w] EXCEPT !.status = "failed"]]
           /\ UNCHANGED book
  <2>1. /\ withdrawOrder'[w] = [withdrawOrder[w] EXCEPT !.status = "failed"]
        /\ \A u \in WithdrawNo : u # w => withdrawOrder'[u] = withdrawOrder[u]
    BY <1>3, <1>5
  <2>2. withdrawOrder'[w].status = "failed"
    BY <1>1, <2>1 DEF WithdrawOrder
  <2>3. PaidWithdraws' = PaidWithdraws
    BY <1>4, <2>1, <2>2 DEF PaidWithdraws
  <2>4. \A u \in PaidWithdraws : withdrawOrder'[u] = withdrawOrder[u]
    BY <1>4, <2>1 DEF PaidWithdraws
  <2> QED
    BY <1>5, <2>3, <2>4, SamePayout
<1>6. CASE /\ withdrawOrder' = [withdrawOrder EXCEPT ![w] =
                                   [withdrawOrder[w] EXCEPT !.status = "paid"]]
           /\ book' = [book EXCEPT !.payout =
                          @ + withdrawOrder[w].diamonds * DiamondFenRate]
  <2>1. /\ withdrawOrder'[w] = [withdrawOrder[w] EXCEPT !.status = "paid"]
        /\ \A u \in WithdrawNo : u # w => withdrawOrder'[u] = withdrawOrder[u]
    BY <1>3, <1>6
  <2>2. withdrawOrder'[w].status = "paid" /\ withdrawOrder'[w].diamonds = d
    BY <1>1, <1>2, <2>1 DEF WithdrawOrder
  <2> DEFINE S == PaidWithdraws
             f == [u \in S |-> withdrawOrder[u].diamonds]
             g == [u \in S \cup {w} |-> withdrawOrder'[u].diamonds]
  <2>3. PaidWithdraws' = S \cup {w}
    BY <1>4, <2>1, <2>2 DEF PaidWithdraws
  <2>4. IsFiniteSet(S)
    <3>1. S \subseteq WithdrawNo
      BY DEF PaidWithdraws
    <3> QED
      BY <3>1, BizNosFinite, FS_Subset
  <2>5. \A u \in S : withdrawOrder'[u] = withdrawOrder[u] /\ withdrawOrder[u].diamonds \in Nat
    BY <1>4, <2>1, WithdrawPresent DEF PaidWithdraws, WithdrawOrder
  <2>6. /\ f \in [S -> Int] /\ g \in [S \cup {w} -> Int]
        /\ (\A u \in S : g[u] = f[u]) /\ g[w] = d
    <3> HIDE DEF S
    <3> QED
      BY <1>2, <2>2, <2>5
  <2>7. PayoutAddsUp' <=> book'.payout = DiamondFenRate * SumFunction(g)
    BY <2>3 DEF PayoutAddsUp
  <2>8. book.payout = DiamondFenRate * SumFunction(f)
    BY DEF PayoutAddsUp
  <2>9. book'.payout = book.payout + d * DiamondFenRate
    BY <1>2, <1>3, <1>6 DEF PlatformBook
  <2> HIDE DEF S, f, g
  <2>10. \A F \in [S -> Int], G \in [S \cup {w} -> Int] :
            (\A u \in S : G[u] = F[u]) => SumFunction(G) = SumFunction(F) + G[w]
    BY <1>4, <2>4, SumOneMore DEF S
  <2>11. SumFunction(g) = SumFunction(f) + d
    BY <2>6, <2>10
  <2>12. SumFunction(f) \in Int
    BY <2>4, <2>6, SumType
  <2> QED
    BY <1>2, <2>7, <2>8, <2>9, <2>11, <2>12 DEF DiamondFenRate
<1> QED
  BY <1>5, <1>6 DEF PayWithdraw

LEMMA RequestWithdrawPayout ==
    ASSUME TypeOK, PayoutAddsUp, NEW a \in Account, NEW diamonds \in WithdrawAmount,
           RequestWithdraw(a, diamonds)
    PROVE  PayoutAddsUp'
<1> DEFINE row == [account |-> a, diamonds |-> diamonds, status |-> "reviewing"]
<1>1. PICK w \in WithdrawNo :
        /\ withdrawOrder[w] = NoWithdraw
        /\ withdrawOrder' = [withdrawOrder EXCEPT ![w] = row]
  BY DEF RequestWithdraw
<1>2. withdrawOrder \in [WithdrawNo -> WithdrawOrder \cup {NoWithdraw}]
  BY DEF TypeOK, GiftsTypeOK
<1>3. /\ withdrawOrder'[w].status = "reviewing" /\ withdrawOrder[w].status = "absent"
      /\ \A u \in WithdrawNo : u # w => withdrawOrder'[u] = withdrawOrder[u]
  BY <1>1, <1>2 DEF NoWithdraw
<1>4. PaidWithdraws' = PaidWithdraws
  BY <1>3 DEF PaidWithdraws
<1>5. \A u \in PaidWithdraws : withdrawOrder'[u] = withdrawOrder[u]
  BY <1>3 DEF PaidWithdraws
<1>6. book'.payout = book.payout
  BY DEF RequestWithdraw
<1> QED
  BY <1>4, <1>5, <1>6, SamePayout

LEMMA PayoutStep ==
    ASSUME TypeOK, PayoutAddsUp, [Next]_vars
    PROVE  PayoutAddsUp'
<1>1. book \in PlatformBook
  BY DEF TypeOK, LedgerTypeOK
<1>2. ASSUME UNCHANGED withdrawOrder, book'.payout = book.payout PROVE PayoutAddsUp'
  BY <1>2, SamePayout DEF PaidWithdraws
<1>3. CASE UNCHANGED vars
  BY <1>2, <1>3 DEF vars, giftVars
<1>4. ASSUME UNCHANGED giftVars, UNCHANGED book PROVE PayoutAddsUp'
  BY <1>2, <1>4 DEF giftVars
<1>5. ASSUME NEW a \in Account, NEW k \in Key, NEW p \in Package, NEW ch \in Channel,
             CreateRecharge(a, k, p, ch), UNCHANGED giftVars
      PROVE  PayoutAddsUp'
  BY <1>4, <1>5 DEF CreateRecharge
<1>6. ASSUME NEW o \in Order, Expire(o) \/ CloseIfExpired(o), UNCHANGED giftVars
      PROVE  PayoutAddsUp'
  BY <1>4, <1>6 DEF Expire, CloseIfExpired
<1>7. ASSUME NEW cb \in Callback, MarkFailed(cb), UNCHANGED giftVars PROVE PayoutAddsUp'
  BY <1>4, <1>7 DEF MarkFailed
<1>8. ASSUME NEW cb \in Callback, Credit(cb), UNCHANGED giftVars PROVE PayoutAddsUp'
  <2>1. book'.payout = book.payout
    BY <1>1, <1>8 DEF Credit, PlatformBook
  <2> QED
    BY <1>2, <1>8, <2>1 DEF giftVars
<1>9. ASSUME NEW o \in Order, SettleOne(o), UNCHANGED giftVars PROVE PayoutAddsUp'
  <2>1. book'.payout = book.payout
    BY <1>1, <1>9 DEF SettleOne, PlatformBook
  <2> QED
    BY <1>2, <1>9, <2>1 DEF giftVars
<1>10. ASSUME NEW o \in Order, Refund(o) \/ Chargeback(o), UNCHANGED giftVars
       PROVE  PayoutAddsUp'
  <2>1. book'.payout = book.payout
    BY <1>1, <1>10 DEF Refund, Chargeback, Reverse, PlatformBook
  <2> QED
    BY <1>2, <1>10, <2>1 DEF giftVars
<1>11. ASSUME NEW s \in Account, NEW k \in Key, NEW v \in Video, NEW gift \in Gift,
              NEW count \in GiftCount, SendGift(s, k, v, gift, count)
       PROVE  PayoutAddsUp'
  BY <1>2, <1>11 DEF SendGift
<1>12. ASSUME NEW g \in GiftNo, PublishHeat(g) \/ LoseHeat(g) PROVE PayoutAddsUp'
  BY <1>2, <1>12 DEF PublishHeat, LoseHeat
<1> QED
  BY <1>3, <1>5, <1>6, <1>7, <1>8, <1>9, <1>10, <1>11, <1>12,
     RequestWithdrawPayout, PayWithdrawPayout DEF Next

(* The three parts of GiftsAddUp, the second of them row by row. *)
GiftBooks == (\A v \in Video : StatAddsUp(v)) /\ GiftRows /\ PayoutAddsUp

LEMMA GiftBooksAddUp ==
    ASSUME TypeOK, GiftBooks
    PROVE  GiftsAddUp
<1>1. \A v \in Video :
        videoStat[v] =
          [count |-> SumFunction([g \in GiftsOf(v) |-> giftOrder[g].count]),
           coins |-> SumFunction([g \in GiftsOf(v) |-> giftOrder[g].coinCost]),
           popularity |-> SumFunction([g \in GiftsOf(v) |->
                              Weight(giftOrder[g].gift, giftOrder[g].count)])]
  BY DEF GiftBooks, StatAddsUp
<1>2. ASSUME NEW g \in GiftNo, giftOrder[g] # NoGift, NEW a \in Account,
             a = giftOrder[g].sender
      PROVE  SumFunction([i \in CoinRows(a, "gift_send", g) |-> coinLedger[a][i].amount])
                = giftOrder[g].coinCost
  <2>1. PICK i : /\ CoinRows(a, "gift_send", g) = {i}
                 /\ coinLedger[a][i].amount = giftOrder[g].coinCost
    BY <1>2 DEF GiftBooks, GiftRows, CoinRowOfGift
  <2>2. giftOrder[g].coinCost \in Int
    BY <1>2, GiftPresent DEF GiftOrder
  <2> DEFINE f == [j \in {i} |-> coinLedger[a][j].amount]
  <2>3. f \in [{i} -> Int] /\ f[i] = giftOrder[g].coinCost
    BY <2>1, <2>2
  <2>4. [j \in CoinRows(a, "gift_send", g) |-> coinLedger[a][j].amount] = f
    BY <2>1
  <2> HIDE DEF f
  <2>5. SumFunction(f) = f[i]
    BY <2>3, SumSingle
  <2> QED
    BY <2>3, <2>4, <2>5
<1>3. ASSUME NEW g \in GiftNo, giftOrder[g] # NoGift, NEW a \in Account,
             a = AuthorOf[giftOrder[g].video]
      PROVE  SumFunction([i \in DiamondRows(a, g) |-> diamondLedger[a][i].amount])
                = giftOrder[g].diamondCredit
  <2>1. giftOrder[g].diamondCredit \in Int
    BY <1>3, GiftPresent DEF GiftOrder
  <2>2. CASE giftOrder[g].diamondCredit = 0
    <3>1. DiamondRows(a, g) = {}
      BY <1>3, <2>2 DEF GiftBooks, GiftRows, DiamondRowOfGift
    <3> QED
      BY <2>2, <3>1, SumNone
  <2>3. CASE giftOrder[g].diamondCredit # 0
    <3>1. PICK i : /\ DiamondRows(a, g) = {i}
                   /\ diamondLedger[a][i].amount = giftOrder[g].diamondCredit
      BY <1>3, <2>3 DEF GiftBooks, GiftRows, DiamondRowOfGift
    <3> DEFINE f == [j \in {i} |-> diamondLedger[a][j].amount]
    <3>2. f \in [{i} -> Int] /\ f[i] = giftOrder[g].diamondCredit
      BY <2>1, <3>1
    <3>3. [j \in DiamondRows(a, g) |-> diamondLedger[a][j].amount] = f
      BY <3>1
    <3> HIDE DEF f
    <3>4. SumFunction(f) = f[i]
      BY <3>2, SumSingle
    <3> QED
      BY <3>2, <3>3, <3>4
  <2> QED
    BY <2>2, <2>3
<1>4. \A g \in GiftNo : giftOrder[g] # NoGift =>
         giftOrder[g].sender \in Account /\ AuthorOf[giftOrder[g].video] \in Account
  BY GiftPresent, GiftAssumption DEF GiftOrder
<1>5. book.payout = DiamondFenRate *
        SumFunction([w \in UNION {WithdrawsOf(a, "paid") : a \in Account} |->
                        withdrawOrder[w].diamonds])
  BY PaidByAccount DEF GiftBooks, PayoutAddsUp
<1>6. \A g \in GiftNo : giftOrder[g] # NoGift =>
        LET r     == AuthorOf[giftOrder[g].video]
            taken == CoinRows(giftOrder[g].sender, "gift_send", g)
            given == {i \in DOMAIN diamondLedger[r] : diamondLedger[r][i].bizNo = g}
        IN  /\ SumFunction([i \in taken |-> coinLedger[giftOrder[g].sender][i].amount])
                 = giftOrder[g].coinCost
            /\ SumFunction([i \in given |-> diamondLedger[r][i].amount])
                 = giftOrder[g].diamondCredit
  BY <1>2, <1>3, <1>4 DEF DiamondRows
<1> QED
  BY <1>1, <1>5, <1>6 DEF GiftsAddUp

(***************************************************************************)
(* Everything derived from the gift orders adds up to them: the statistics *)
(* of a video, the one coin row and the one diamond row of each gift, and  *)
(* the payout of the platform book.                                        *)
(***************************************************************************)
THEOREM GiftsDoAddUp == Spec => []GiftsAddUp
<1>1. Init => GiftBooks
  <2> SUFFICES ASSUME Init PROVE GiftBooks
    OBVIOUS
  <2>1. /\ \A g \in GiftNo : giftOrder[g] = NoGift
        /\ \A a \in Account : coinLedger[a] = << >> /\ diamondLedger[a] = << >>
        /\ \A w \in WithdrawNo : withdrawOrder[w] = NoWithdraw
        /\ book.payout = 0
        /\ videoStat = [v \in Video |-> [count |-> 0, coins |-> 0, popularity |-> 0]]
    BY DEF Init, GiftsInit, LedgerInit
  <2>2. ASSUME NEW v \in Video PROVE StatAddsUp(v)
    <3>1. GiftsOf(v) = {}
      BY <2>1 DEF GiftsOf
    <3>2. /\ SumFunction([g \in GiftsOf(v) |-> giftOrder[g].count]) = 0
          /\ SumFunction([g \in GiftsOf(v) |-> giftOrder[g].coinCost]) = 0
          /\ SumFunction([g \in GiftsOf(v) |->
                Weight(giftOrder[g].gift, giftOrder[g].count)]) = 0
      BY <3>1, SumNone
    <3> QED
      BY <2>1, <3>2 DEF StatAddsUp
  <2>3. GiftRows
    BY <2>1 DEF GiftRows, CoinRowOfGift, DiamondRowOfGift, CoinRows, DiamondRows
  <2>4. PayoutAddsUp
    <3>1. PaidWithdraws = {}
      BY <2>1 DEF PaidWithdraws, NoWithdraw
    <3>2. SumFunction([w \in PaidWithdraws |-> withdrawOrder[w].diamonds]) = 0
      BY <3>1, SumNone
    <3> QED
      BY <2>1, <3>2 DEF PayoutAddsUp, DiamondFenRate
  <2> QED
    BY <2>2, <2>3, <2>4 DEF GiftBooks
<1>2. TypeOK /\ TypeOK' /\ GiftBooks /\ [Next]_vars => GiftBooks'
  <2> SUFFICES ASSUME TypeOK, TypeOK', GiftBooks, [Next]_vars PROVE GiftBooks'
    OBVIOUS
  <2>1. \A v \in Video : StatAddsUp(v)'
    BY StatStep DEF GiftBooks
  <2>2. GiftRows'
    BY SendGiftRows, OtherGiftRows DEF GiftBooks, GiftSent
  <2>3. PayoutAddsUp'
    BY PayoutStep DEF GiftBooks
  <2> QED
    BY <2>1, <2>2, <2>3 DEF GiftBooks
<1>3. TypeOK /\ GiftBooks => GiftsAddUp
  BY GiftBooksAddUp
<1> QED
  BY <1>1, <1>2, <1>3, TypeCorrect, PTL DEF Spec
=============================================================================
