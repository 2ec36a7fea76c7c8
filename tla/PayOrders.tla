------------------------------ MODULE PayOrders ------------------------------
(***************************************************************************)
(* Recharge orders of the merchant: pay/service.go and pay/books.go.       *)
(*                                                                         *)
(* An action is one committed MySQL transaction (or one autocommitted      *)
(* statement).  The transactions start by locking the order row FOR UPDATE *)
(* and every later read of them is a locking read, so they are atomic; a   *)
(* request that returns an error commits nothing and is no step.           *)
(* What happens between two transactions of one request (a query to the    *)
(* gateway, a stale read) is in module Recharge.                           *)
(***************************************************************************)
EXTENDS PayLedger

CONSTANTS
    Package,            \* codes of table coin_packages
    PackagePrice,       \* price_fen of a package
    PackageCoins,       \* coins + bonus_coins of a package
    Channel,            \* channels accepted by knownChannel
    Trade,              \* channel trade numbers a callback can carry
    NoTrade             \* NULL in column channel_trade_no

ASSUME PackageAssumption ==
    /\ PackagePrice \in [Package -> Nat \ {0}]
    /\ PackageCoins \in [Package -> Nat]
    /\ NoTrade \notin Trade

VARIABLES
    order,          \* pay_orders: one row, or NoOrder, per order number
    expired,        \* the orders whose expire_at has passed
    journal,        \* fiat_journals: the rows of each order
    callbackLog     \* pay_callback_logs

orderVars == <<order, expired, journal, callbackLog>>

-----------------------------------------------------------------------------
(* Rows *)

OpenStatus == {"created", "paying"}
Status == OpenStatus \cup {"paid", "closed", "failed", "refunded", "chargeback"}
SettleStatus == {"none", "pending", "settled", "refunded", "chargeback"}

NoOrder == [status |-> "absent"]

PayOrder == [account        : Account,
             key            : Key,
             package        : Package,
             channel        : Channel,
             status         : Status,
             trade          : Trade \cup {NoTrade},
             settle         : SettleStatus,
             settleAt       : BOOLEAN,      \* settle_at IS NOT NULL
             paidAfterClose : BOOLEAN]

(* Price and coins are copied from the catalogue, whose rows never change. *)
Amount(row) == PackagePrice[row.package]
Coins(row) == PackageCoins[row.package]

JournalAccount == {"channel_receivable", "channel_fee", "user_prepay",
                   "merchant_bank"}

FiatJournal == [account   : JournalAccount,
                direction : {"debit", "credit"},
                amount    : Nat,
                bizType   : {"recharge", "settle", "refund", "chargeback"}]

CallbackLog == [channel : Channel, trade : Trade, order : Order]

(* A callback body whose signature and timestamp are good. *)
Callback == [order : Order, channel : Channel, trade : Trade,
             amount : {PackagePrice[p] : p \in Package}, paid : BOOLEAN]

-----------------------------------------------------------------------------
(* books.go *)

FeeBps == 60

Fee(amount) ==
    LET share == (amount * FeeBps) \div 10000
    IN  IF share = 0 \/ share >= amount THEN 1 ELSE share

(* Mutant: the net amount forgets the fee. *)
NetOfNothing(amount) == amount

Net(amount) == amount - Fee(amount)

JournalRow(account, direction, amount, bizType) ==
    [account |-> account, direction |-> direction, amount |-> amount,
     bizType |-> bizType]

(* Mutant: the unique key leaves biz_type out. *)
PostFiatByAccount(rows, new) ==
    rows \cup {n \in new : /\ n.amount # 0
                           /\ \A r \in rows : <<r.account, r.direction>>
                                                # <<n.account, n.direction>>}

(***************************************************************************)
(* postFiat for each of the new rows: a zero amount is not posted, and a   *)
(* row whose uk_fiat key (account, direction, biz_type, biz_no) is taken   *)
(* is silently dropped.                                                    *)
(***************************************************************************)
PostFiat(rows, new) ==
    rows \cup {n \in new : /\ n.amount # 0
                           /\ \A r \in rows : <<r.account, r.direction, r.bizType>>
                                                # <<n.account, n.direction, n.bizType>>}

PayRows(amount) ==
    {JournalRow("channel_receivable", "debit", Net(amount), "recharge"),
     JournalRow("channel_fee", "debit", Fee(amount), "recharge"),
     JournalRow("user_prepay", "credit", amount, "recharge")}

SettleRows(amount) ==
    {JournalRow("merchant_bank", "debit", Net(amount), "settle"),
     JournalRow("channel_receivable", "credit", Net(amount), "settle")}

(* Mutant: a reversal never takes money back from the bank account. *)
ReverseRowsUnsettled(amount, bizType, settled) ==
    {JournalRow("user_prepay", "debit", amount, bizType),
     JournalRow("channel_receivable", "credit", Net(amount), bizType),
     JournalRow("channel_fee", "credit", Fee(amount), bizType)}

ReverseRows(amount, bizType, settled) ==
    {JournalRow("user_prepay", "debit", amount, bizType),
     JournalRow("channel_receivable", "credit", Net(amount), bizType),
     JournalRow("channel_fee", "credit", Fee(amount), bizType)}
    \cup (IF settled
          THEN {JournalRow("channel_receivable", "debit", Net(amount), bizType),
                JournalRow("merchant_bank", "credit", Net(amount), bizType)}
          ELSE {})

-----------------------------------------------------------------------------
(* Operations *)

(***************************************************************************)
(* CreateRecharge.  A key the account has used (found by the first read or *)
(* by the duplicate-key error of the INSERT) returns the old order or      *)
(* ErrIdempotencyClash and writes nothing.                                 *)
(***************************************************************************)
CreateRecharge(a, k, p, ch) ==
    /\ \A o \in Order : order[o] # NoOrder =>
           ~(order[o].account = a /\ order[o].key = k)
    /\ \E o \in Order :
          /\ order[o] = NoOrder
          /\ order' = [order EXCEPT ![o] =
                [account |-> a, key |-> k, package |-> p, channel |-> ch,
                 status |-> "paying", trade |-> NoTrade, settle |-> "none",
                 settleAt |-> FALSE, paidAfterClose |-> FALSE]]
    /\ UNCHANGED <<expired, journal, callbackLog, book, walletVars, ledgerVars>>

(* The clock passes expire_at = created + orderTTL. *)
Expire(o) ==
    /\ order[o] # NoOrder
    /\ o \notin expired
    /\ expired' = expired \cup {o}
    /\ UNCHANGED <<order, journal, callbackLog, book, walletVars, ledgerVars>>

(* Mutant: the UPDATE has no status in its WHERE clause. *)
CloseAnyExpired(o) ==
    /\ o \in expired
    /\ order' = [order EXCEPT ![o] = [@ EXCEPT !.status = "closed"]]
    /\ UNCHANGED <<expired, journal, callbackLog, book, walletVars, ledgerVars>>

(***************************************************************************)
(* closeIfExpired's UPDATE.  The status the caller read may be stale; the  *)
(* WHERE clause of the statement decides.                                  *)
(***************************************************************************)
CloseIfExpired(o) ==
    /\ o \in expired
    /\ order[o].status \in OpenStatus
    /\ order' = [order EXCEPT ![o] = [@ EXCEPT !.status = "closed"]]
    /\ UNCHANGED <<expired, journal, callbackLog, book, walletVars, ledgerVars>>

(* Mutant: a failure notice fails a paid order too. *)
MarkFailedLate(cb) ==
    LET row == order[cb.order]
    IN  /\ ~cb.paid
        /\ row.status \in OpenStatus \cup {"paid"}
        /\ row.channel = cb.channel
        /\ Amount(row) = cb.amount
        /\ order' = [order EXCEPT ![cb.order] = [row EXCEPT !.status = "failed"]]
        /\ UNCHANGED <<expired, journal, callbackLog, book, walletVars, ledgerVars>>

(* markFailed: a signed callback that says the payment did not succeed. *)
MarkFailed(cb) ==
    LET row == order[cb.order]
    IN  /\ ~cb.paid
        /\ row.status \in OpenStatus
        /\ row.channel = cb.channel
        /\ Amount(row) = cb.amount
        /\ order' = [order EXCEPT ![cb.order] = [row EXCEPT !.status = "failed"]]
        /\ UNCHANGED <<expired, journal, callbackLog, book, walletVars, ledgerVars>>

(* The log row of a callback, unless its (channel, trade) pair is taken. *)
LogCallback(log, cb) ==
    IF \E l \in log : l.channel = cb.channel /\ l.trade = cb.trade
    THEN log
    ELSE log \cup {[channel |-> cb.channel, trade |-> cb.trade, order |-> cb.order]}

(***************************************************************************)
(* credit: a paid order ignores a repeat of its own trade and refuses any  *)
(* other; failed, refunded and charged back orders refuse every callback;  *)
(* a trade number another order holds (unique index) rolls back.           *)
(***************************************************************************)
Credit(cb) ==
    LET row  == order[cb.order]
        a    == row.account
        next == coinAvailable[a] + Coins(row)
    IN  /\ cb.paid
        /\ row.status \in OpenStatus \cup {"closed"}
        /\ row.channel = cb.channel
        /\ Amount(row) = cb.amount
        /\ \A o \in Order : order[o] # NoOrder => order[o].trade # cb.trade
        /\ Vacant(coinLedger[a], "credit", "recharge", cb.order)
        /\ order' = [order EXCEPT ![cb.order] =
              [row EXCEPT !.status = "paid", !.trade = cb.trade, !.settle = "pending",
                          !.paidAfterClose = (row.status = "closed")]]
        /\ coinAvailable' = [coinAvailable EXCEPT ![a] = next]
        /\ coinLedger' = [coinLedger EXCEPT ![a] =
              Append(@, Entry("credit", Coins(row), next, "recharge", cb.order))]
        /\ journal' = [journal EXCEPT ![cb.order] = PostFiat(@, PayRows(Amount(row)))]
        /\ book' = [book EXCEPT !.pending = @ + Net(Amount(row)),
                                !.fee = @ + Fee(Amount(row))]
        /\ callbackLog' = LogCallback(callbackLog, cb)
        /\ UNCHANGED <<expired, diamondAvailable, diamondFrozen, diamondLedger>>

(* settleOne, for an order SettleDue found paid, pending and old enough. *)
SettleOne(o) ==
    LET row == order[o]
    IN  /\ row.status = "paid"
        /\ row.settle = "pending"
        /\ order' = [order EXCEPT ![o] =
              [row EXCEPT !.settle = "settled", !.settleAt = TRUE]]
        /\ journal' = [journal EXCEPT ![o] = PostFiat(@, SettleRows(Amount(row)))]
        /\ book' = [book EXCEPT !.pending = @ - Net(Amount(row)),
                                !.settled = @ + Net(Amount(row))]
        /\ UNCHANGED <<expired, callbackLog, walletVars, ledgerVars>>

(***************************************************************************)
(* reverse, after the gateway did not refuse.  A refund needs all the      *)
(* order's coins; a chargeback takes what is left and books the shortfall. *)
(***************************************************************************)
Reverse(o, bizType, nextStatus) ==
    LET row   == order[o]
        a     == row.account
        held  == coinAvailable[a]
        claw  == IF held < Coins(row) THEN held ELSE Coins(row)
        net   == Net(Amount(row))
    IN  /\ row.status = "paid"
        /\ row.settle \in {"pending", "settled"}
        /\ bizType = "refund" => held >= Coins(row)
        /\ claw > 0 => Vacant(coinLedger[a], "debit", bizType, o)
        /\ order' = [order EXCEPT ![o] =
              [row EXCEPT !.status = nextStatus, !.settle = nextStatus]]
        /\ coinAvailable' = [coinAvailable EXCEPT ![a] = held - claw]
        /\ coinLedger' = [coinLedger EXCEPT ![a] =
              IF claw = 0 THEN @
              ELSE Append(@, Entry("debit", claw, held - claw, bizType, o))]
        /\ journal' = [journal EXCEPT ![o] =
              PostFiat(@, ReverseRows(Amount(row), bizType, row.settle = "settled"))]
        /\ book' = [book EXCEPT
              !.settled = IF row.settle = "settled" THEN @ - net ELSE @,
              !.pending = IF row.settle = "settled" THEN @ ELSE @ - net,
              !.fee = @ - Fee(Amount(row)),
              !.refund = IF bizType = "refund" THEN @ + Amount(row) ELSE @,
              !.chargeback = IF bizType = "refund" THEN @ ELSE @ + Amount(row),
              !.shortfall = @ + (Coins(row) - claw)]
        /\ UNCHANGED <<expired, callbackLog, diamondAvailable, diamondFrozen,
                       diamondLedger>>

(* Mutants: a refund leaves the order paid; a chargeback is posted as a refund. *)
RefundLeavesPaid(o) == Reverse(o, "refund", "paid")
ChargebackAsRefund(o) == Reverse(o, "refund", "chargeback")

Refund(o) == Reverse(o, "refund", "refunded")
Chargeback(o) == Reverse(o, "chargeback", "chargeback")

-----------------------------------------------------------------------------
OrdersInit ==
    /\ order = [o \in Order |-> NoOrder]
    /\ expired = {}
    /\ journal = [o \in Order |-> {}]
    /\ callbackLog = {}

OrdersTypeOK ==
    /\ order \in [Order -> PayOrder \cup {NoOrder}]
    /\ expired \subseteq Order
    /\ journal \in [Order -> SUBSET FiatJournal]
    /\ callbackLog \subseteq CallbackLog
=============================================================================
