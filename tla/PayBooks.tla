------------------------------- MODULE PayBooks -------------------------------
(***************************************************************************)
(* The merchant's books: recharge orders (PayOrders) and gifts and         *)
(* withdrawals (PayGifts) working on the same wallets, ledger and platform *)
(* book, interleaved transaction by transaction.                           *)
(***************************************************************************)
EXTENDS PayOrders, PayGifts, FiniteSetsExt

vars == <<walletVars, ledgerVars, book, orderVars, giftVars>>

Init == LedgerInit /\ OrdersInit /\ GiftsInit

Next ==
    \/ \E a \in Account, k \in Key, p \in Package, ch \in Channel :
          CreateRecharge(a, k, p, ch) /\ UNCHANGED giftVars
    \/ \E o \in Order : Expire(o) /\ UNCHANGED giftVars
    \/ \E o \in Order : CloseIfExpired(o) /\ UNCHANGED giftVars
    \/ \E cb \in Callback : MarkFailed(cb) /\ UNCHANGED giftVars
    \/ \E cb \in Callback : Credit(cb) /\ UNCHANGED giftVars
    \/ \E o \in Order : SettleOne(o) /\ UNCHANGED giftVars
    \/ \E o \in Order : Refund(o) /\ UNCHANGED giftVars
    \/ \E o \in Order : Chargeback(o) /\ UNCHANGED giftVars
    \/ \E s \in Account, k \in Key, v \in Video, gift \in Gift, count \in GiftCount :
          SendGift(s, k, v, gift, count) /\ UNCHANGED orderVars
    \/ \E g \in GiftNo : PublishHeat(g) /\ UNCHANGED orderVars
    \/ \E g \in GiftNo : LoseHeat(g) /\ UNCHANGED orderVars
    \/ \E a \in Account, diamonds \in WithdrawAmount :
          RequestWithdraw(a, diamonds) /\ UNCHANGED orderVars
    \/ \E w \in WithdrawNo : PayWithdraw(w) /\ UNCHANGED orderVars

Spec == Init /\ [][Next]_vars

TypeOK == LedgerTypeOK /\ OrdersTypeOK /\ GiftsTypeOK

-----------------------------------------------------------------------------
(* Coins and the coin ledger *)

CreditedStatus == {"paid", "refunded", "chargeback"}
ReversedStatus == {"refunded", "chargeback"}

Signed(e) == IF e.direction = "credit" THEN e.amount ELSE -e.amount

BalanceBefore(rows, i) == IF i = 1 THEN 0 ELSE rows[i - 1].balanceAfter

(***************************************************************************)
(* The ledger rows of an account form a running balance that starts at     *)
(* zero and ends at the wallet's coin_available, whatever recharges,       *)
(* reversals and gifts interleave on the wallet: the balance is a          *)
(* projection of the ledger.                                               *)
(***************************************************************************)
CoinsProjectLedger ==
    \A a \in Account :
        /\ \A i \in DOMAIN coinLedger[a] :
              coinLedger[a][i].balanceAfter =
                  BalanceBefore(coinLedger[a], i) + Signed(coinLedger[a][i])
        /\ coinAvailable[a] = BalanceBefore(coinLedger[a], Len(coinLedger[a]) + 1)

(* The coin rows of account a that carry business number no of a type. *)
CoinRows(a, bizType, no) ==
    {i \in DOMAIN coinLedger[a] : /\ coinLedger[a][i].bizType = bizType
                                  /\ coinLedger[a][i].bizNo = no}

(***************************************************************************)
(* "Pay once, credit once": an order in a credited status has exactly one  *)
(* recharge row, of its own coins, on its own account; any other order has *)
(* none on any account.                                                    *)
(***************************************************************************)
CreditedOnce ==
    \A o \in Order, a \in Account :
        IF order[o].status \in CreditedStatus /\ order[o].account = a
        THEN \E i \in DOMAIN coinLedger[a] :
                /\ CoinRows(a, "recharge", o) = {i}
                /\ coinLedger[a][i].direction = "credit"
                /\ coinLedger[a][i].amount = Coins(order[o])
        ELSE CoinRows(a, "recharge", o) = {}

(***************************************************************************)
(* Coins are taken back only from an order that is refunded or charged     *)
(* back, at most once, from the account that was credited: all of them for *)
(* a refund, never more than them for a chargeback.                        *)
(***************************************************************************)
ReversedOnce ==
    \A o \in Order, a \in Account :
        /\ IF order[o].status = "refunded" /\ order[o].account = a
           THEN IF Coins(order[o]) = 0
                THEN CoinRows(a, "refund", o) = {}
                ELSE \E i \in DOMAIN coinLedger[a] :
                        /\ CoinRows(a, "refund", o) = {i}
                        /\ coinLedger[a][i].amount = Coins(order[o])
           ELSE CoinRows(a, "refund", o) = {}
        /\ \A i, j \in CoinRows(a, "chargeback", o) :
              /\ order[o].status = "chargeback"
              /\ order[o].account = a
              /\ i = j
              /\ coinLedger[a][i].amount <= Coins(order[o])

(* What a step may do to the status of order o. *)
MonotoneStep(o) ==
    /\ order[o].status \in CreditedStatus =>
          order'[o].status \in CreditedStatus /\ order'[o].trade = order[o].trade
    /\ order[o].status \in {"failed"} \cup ReversedStatus =>
          order'[o].status = order[o].status
    /\ order[o].status = "closed" =>
          \/ order'[o].status = "closed"
          \/ order'[o].status = "paid" /\ order'[o].paidAfterClose

(***************************************************************************)
(* A paid order stays credited with the same trade; failed, refunded and   *)
(* charged back orders never change status again; a closed order can only  *)
(* become paid, and then says so.                                          *)
(***************************************************************************)
StatusIsMonotone == [][\A o \in Order : MonotoneStep(o)]_vars

-----------------------------------------------------------------------------
(* Fiat journal and platform book *)

NonZero(rows) == {r \in rows : r.amount # 0}

JournalOf(row) ==
    IF row.status \notin CreditedStatus THEN {}
    ELSE NonZero(PayRows(Amount(row))
                 \cup (IF row.settleAt THEN SettleRows(Amount(row)) ELSE {})
                 \cup (CASE row.status = "refunded" ->
                               ReverseRows(Amount(row), "refund", row.settleAt)
                         [] row.status = "chargeback" ->
                               ReverseRows(Amount(row), "chargeback", row.settleAt)
                         [] OTHER -> {}))

(***************************************************************************)
(* The journal rows of an order are those of its payment, its settlement   *)
(* and its reversal, each posted once and none missing, in whichever order *)
(* settlement and reversal came; settle_status and settle_at agree with    *)
(* the status.  postFiat drops a duplicate silently, so a second posting   *)
(* would leave the platform book and the journal apart.                    *)
(***************************************************************************)
JournalMatchesOrder ==
    \A o \in Order :
        /\ journal[o] = JournalOf(order[o])
        /\ order[o].status = "paid" =>
              order[o].settle = IF order[o].settleAt THEN "settled" ELSE "pending"
        /\ order[o].status \in ReversedStatus => order[o].settle = order[o].status
        /\ order[o].status \in OpenStatus \cup {"closed", "failed"} =>
              order[o].settle = "none" /\ ~order[o].settleAt

Debits(rows) == SumFunction([r \in rows |-> IF r.direction = "debit" THEN r.amount ELSE 0])
Credits(rows) == SumFunction([r \in rows |-> IF r.direction = "credit" THEN r.amount ELSE 0])

(***************************************************************************)
(* Double entry: the rows that one operation posts for an order have equal *)
(* debits and credits, with the fee rounded and zero amounts left out.     *)
(***************************************************************************)
JournalBalanced ==
    \A o \in Order, biz \in {"recharge", "settle", "refund", "chargeback"} :
        LET rows == {r \in journal[o] : r.bizType = biz}
        IN  Debits(rows) = Credits(rows)

AccountBalance(account) ==
    SumFunction([o \in Order |-> LET rows == {r \in journal[o] : r.account = account}
                                 IN  Debits(rows) - Credits(rows)])

(***************************************************************************)
(* The running totals of platform_books equal the balances of the journal: *)
(* pending is the channel's debt, settled the bank account, fee the        *)
(* channel's fees.                                                         *)
(***************************************************************************)
BookMatchesJournal ==
    /\ book.pending = AccountBalance("channel_receivable")
    /\ book.settled = AccountBalance("merchant_bank")
    /\ book.fee = AccountBalance("channel_fee")

OrdersIn(statuses) == {o \in Order : order[o].status \in statuses}

(* The coins a chargeback could not take back. *)
Shortfall(o) ==
    Coins(order[o])
      - SumFunction([i \in CoinRows(order[o].account, "chargeback", o) |->
                        coinLedger[order[o].account][i].amount])

(***************************************************************************)
(* The reversal totals of platform_books: amounts refunded, amounts charged*)
(* back, and as coin shortfall exactly the coins that charged back orders  *)
(* granted and the ledger shows were never taken back.                     *)
(***************************************************************************)
BookMatchesReversals ==
    /\ book.refund = SumFunction([o \in OrdersIn({"refunded"}) |-> Amount(order[o])])
    /\ book.chargeback = SumFunction([o \in OrdersIn({"chargeback"}) |-> Amount(order[o])])
    /\ book.shortfall = SumFunction([o \in OrdersIn({"chargeback"}) |-> Shortfall(o)])

-----------------------------------------------------------------------------
(* Diamonds, gifts and withdrawals *)

LedgerSum(rows) == SumFunction([i \in DOMAIN rows |-> Signed(rows[i])])

WithdrawsOf(a, status) ==
    {w \in WithdrawNo : withdrawOrder[w].status = status /\ withdrawOrder[w].account = a}

(***************************************************************************)
(* Frozen diamonds are exactly those of the account's withdrawals under    *)
(* review, and available plus frozen is what the diamond ledger adds up    *)
(* to.  So payWithdraw never finds too few frozen diamonds: no withdrawal  *)
(* can fail with its diamonds still frozen.                                *)
(***************************************************************************)
DiamondsConserved ==
    \A a \in Account :
        /\ diamondFrozen[a] =
              SumFunction([w \in WithdrawsOf(a, "reviewing") |-> withdrawOrder[w].diamonds])
        /\ diamondAvailable[a] + diamondFrozen[a] = LedgerSum(diamondLedger[a])
        /\ WithdrawsOf(a, "failed") = {}

GiftsOf(v) == {g \in GiftNo : giftOrder[g] # NoGift /\ giftOrder[g].video = v}

(***************************************************************************)
(* What is derived from the gift orders agrees with them: the statistics   *)
(* and popularity of a video, the coins each sender's ledger shows spent,  *)
(* the diamonds each author's ledger shows received, and what creators     *)
(* have been paid.                                                         *)
(***************************************************************************)
GiftsAddUp ==
    /\ \A v \in Video :
          videoStat[v] =
            [count |-> SumFunction([g \in GiftsOf(v) |-> giftOrder[g].count]),
             coins |-> SumFunction([g \in GiftsOf(v) |-> giftOrder[g].coinCost]),
             popularity |-> SumFunction([g \in GiftsOf(v) |->
                                Weight(giftOrder[g].gift, giftOrder[g].count)])]
    /\ \A g \in GiftNo : giftOrder[g] # NoGift =>
          LET r     == AuthorOf[giftOrder[g].video]
              taken == CoinRows(giftOrder[g].sender, "gift_send", g)
              given == {i \in DOMAIN diamondLedger[r] : diamondLedger[r][i].bizNo = g}
          IN  /\ SumFunction([i \in taken |-> coinLedger[giftOrder[g].sender][i].amount])
                   = giftOrder[g].coinCost
              /\ SumFunction([i \in given |-> diamondLedger[r][i].amount])
                   = giftOrder[g].diamondCredit
    /\ book.payout = DiamondFenRate *
          SumFunction([w \in UNION {WithdrawsOf(a, "paid") : a \in Account} |->
                          withdrawOrder[w].diamonds])

-----------------------------------------------------------------------------
(* Refinement *)

GrantOf(o) ==
    [order |-> o, account |-> order[o].account, coins |-> Coins(order[o])]

Grants == {GrantOf(o) : o \in OrdersIn(CreditedStatus)}

Contract == INSTANCE CoinContract WITH
    CoinAmount <- {PackageCoins[p] : p \in Package},
    balance    <- coinAvailable,
    grants     <- Grants,
    reversed   <- OrdersIn(ReversedStatus)

(***************************************************************************)
(* The merchant implements CoinContract: each transaction grants one       *)
(* order's coins once, reverses one grant once, spends coins, or leaves    *)
(* the contract's state alone.                                             *)
(***************************************************************************)
ImplementsContract == Contract!Spec
=============================================================================
