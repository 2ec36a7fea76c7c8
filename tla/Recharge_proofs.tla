---------------------------- MODULE Recharge_proofs ----------------------------
(***************************************************************************)
(* Theorems about Recharge, for any number of orders, gateway handlers,    *)
(* merchant requests, lost messages and restarts: money follows an         *)
(* authorization, a capture is kept, and the merchant's half implements    *)
(* PayBooks - so that what is proved of the books there holds from end to  *)
(* end.                                                                    *)
(***************************************************************************)
EXTENDS Recharge, TLAPS

BooksProofs == INSTANCE PayBooks_proofs

-----------------------------------------------------------------------------
(* PayBooks declares the merchant's operations once more: they are the     *)
(* same.                                                                   *)

LEMMA SameCreateRecharge ==
    \A a, k, p, ch :
        /\ CreateRecharge(a, k, p, ch) <=> Books!CreateRecharge(a, k, p, ch)
        /\ CreateRecharge(a, k, p, ch) <=> BooksProofs!CreateRecharge(a, k, p, ch)
  BY DEF CreateRecharge, Books!CreateRecharge, BooksProofs!CreateRecharge,
         NoOrder, Books!NoOrder, BooksProofs!NoOrder, walletVars,
         Books!walletVars, BooksProofs!walletVars, ledgerVars, Books!ledgerVars,
         BooksProofs!ledgerVars

LEMMA SameExpire ==
    \A o :
        /\ Expire(o) <=> Books!Expire(o)
        /\ Expire(o) <=> BooksProofs!Expire(o)
  BY DEF Expire, Books!Expire, BooksProofs!Expire, NoOrder, Books!NoOrder,
         BooksProofs!NoOrder, walletVars, Books!walletVars,
         BooksProofs!walletVars, ledgerVars, Books!ledgerVars,
         BooksProofs!ledgerVars

LEMMA SameCloseIfExpired ==
    \A o :
        /\ CloseIfExpired(o) <=> Books!CloseIfExpired(o)
        /\ CloseIfExpired(o) <=> BooksProofs!CloseIfExpired(o)
  BY DEF CloseIfExpired, Books!CloseIfExpired, BooksProofs!CloseIfExpired,
         OpenStatus, Books!OpenStatus, BooksProofs!OpenStatus, walletVars,
         Books!walletVars, BooksProofs!walletVars, ledgerVars, Books!ledgerVars,
         BooksProofs!ledgerVars

LEMMA SameMarkFailed ==
    \A cb :
        /\ MarkFailed(cb) <=> Books!MarkFailed(cb)
        /\ MarkFailed(cb) <=> BooksProofs!MarkFailed(cb)
  BY DEF MarkFailed, Books!MarkFailed, BooksProofs!MarkFailed, OpenStatus,
         Books!OpenStatus, BooksProofs!OpenStatus, Amount, Books!Amount,
         BooksProofs!Amount, walletVars, Books!walletVars,
         BooksProofs!walletVars, ledgerVars, Books!ledgerVars,
         BooksProofs!ledgerVars

LEMMA SameCredit ==
    \A cb :
        /\ Credit(cb) <=> Books!Credit(cb)
        /\ Credit(cb) <=> BooksProofs!Credit(cb)
  BY DEF Credit, Books!Credit, BooksProofs!Credit, LogCallback,
         Books!LogCallback, BooksProofs!LogCallback, Coins, Books!Coins,
         BooksProofs!Coins, Amount, Books!Amount, BooksProofs!Amount,
         OpenStatus, Books!OpenStatus, BooksProofs!OpenStatus, Vacant,
         Books!Vacant, BooksProofs!Vacant, Entry, Books!Entry,
         BooksProofs!Entry, PostFiat, Books!PostFiat, BooksProofs!PostFiat,
         PayRows, Books!PayRows, BooksProofs!PayRows, Net, Books!Net,
         BooksProofs!Net, Fee, Books!Fee, BooksProofs!Fee, FeeBps, Books!FeeBps,
         BooksProofs!FeeBps, JournalRow, Books!JournalRow,
         BooksProofs!JournalRow, NoOrder, Books!NoOrder, BooksProofs!NoOrder

LEMMA SameSettleOne ==
    \A o :
        /\ SettleOne(o) <=> Books!SettleOne(o)
        /\ SettleOne(o) <=> BooksProofs!SettleOne(o)
  BY DEF SettleOne, Books!SettleOne, BooksProofs!SettleOne, Amount,
         Books!Amount, BooksProofs!Amount, PostFiat, Books!PostFiat,
         BooksProofs!PostFiat, SettleRows, Books!SettleRows,
         BooksProofs!SettleRows, Net, Books!Net, BooksProofs!Net, Fee,
         Books!Fee, BooksProofs!Fee, FeeBps, Books!FeeBps, BooksProofs!FeeBps,
         JournalRow, Books!JournalRow, BooksProofs!JournalRow, walletVars,
         Books!walletVars, BooksProofs!walletVars, ledgerVars, Books!ledgerVars,
         BooksProofs!ledgerVars

LEMMA SameReverse ==
    \A o, biz, next :
        /\ Reverse(o, biz, next) <=> Books!Reverse(o, biz, next)
        /\ Reverse(o, biz, next) <=> BooksProofs!Reverse(o, biz, next)
  BY DEF Reverse, Books!Reverse, BooksProofs!Reverse, Coins, Books!Coins,
         BooksProofs!Coins, Amount, Books!Amount, BooksProofs!Amount, Vacant,
         Books!Vacant, BooksProofs!Vacant, Entry, Books!Entry,
         BooksProofs!Entry, PostFiat, Books!PostFiat, BooksProofs!PostFiat,
         ReverseRows, Books!ReverseRows, BooksProofs!ReverseRows, Net,
         Books!Net, BooksProofs!Net, Fee, Books!Fee, BooksProofs!Fee, FeeBps,
         Books!FeeBps, BooksProofs!FeeBps, JournalRow, Books!JournalRow,
         BooksProofs!JournalRow

LEMMA SameSendGift ==
    \A s, k, v, gift, count :
        /\ SendGift(s, k, v, gift, count) <=> Books!SendGift(s, k, v, gift, count)
        /\ SendGift(s, k, v, gift, count) <=> BooksProofs!SendGift(s, k, v, gift, count)
  BY DEF SendGift, Books!SendGift, BooksProofs!SendGift, Cost, Books!Cost,
         BooksProofs!Cost, CreatorShare, Books!CreatorShare,
         BooksProofs!CreatorShare, CreatorShareBps, Books!CreatorShareBps,
         BooksProofs!CreatorShareBps, Weight, Books!Weight, BooksProofs!Weight,
         AddToStat, Books!AddToStat, BooksProofs!AddToStat, NoGift,
         Books!NoGift, BooksProofs!NoGift, Entry, Books!Entry, BooksProofs!Entry

LEMMA SameTypes ==
    LedgerTypeOK /\ OrdersTypeOK /\ GiftsTypeOK <=> BooksProofs!TypeOK
  BY DEF BooksProofs!TypeOK, LedgerTypeOK, BooksProofs!LedgerTypeOK,
         OrdersTypeOK, BooksProofs!OrdersTypeOK, GiftsTypeOK,
         BooksProofs!GiftsTypeOK, LedgerEntry, BooksProofs!LedgerEntry,
         PlatformBook, BooksProofs!PlatformBook, BizType, BooksProofs!BizType,
         BizNo, BooksProofs!BizNo, PayOrder, BooksProofs!PayOrder, NoOrder,
         BooksProofs!NoOrder, Status, BooksProofs!Status, OpenStatus,
         BooksProofs!OpenStatus, SettleStatus, BooksProofs!SettleStatus,
         FiatJournal, BooksProofs!FiatJournal, JournalAccount,
         BooksProofs!JournalAccount, CallbackLog, BooksProofs!CallbackLog,
         GiftOrder, BooksProofs!GiftOrder, NoGift, BooksProofs!NoGift,
         WithdrawOrder, BooksProofs!WithdrawOrder, NoWithdraw,
         BooksProofs!NoWithdraw, VideoStat, BooksProofs!VideoStat

LEMMA SameInit ==
    LedgerInit /\ OrdersInit /\ GiftsInit => Books!Init /\ BooksProofs!Init
  BY DEF Books!Init, BooksProofs!Init, LedgerInit, Books!LedgerInit,
         BooksProofs!LedgerInit, OrdersInit, Books!OrdersInit,
         BooksProofs!OrdersInit, GiftsInit, Books!GiftsInit,
         BooksProofs!GiftsInit, NoOrder, Books!NoOrder, BooksProofs!NoOrder,
         NoGift, Books!NoGift, BooksProofs!NoGift, NoWithdraw, Books!NoWithdraw,
         BooksProofs!NoWithdraw

LEMMA SameVars ==
    UNCHANGED merchantVars <=> UNCHANGED Books!vars /\ UNCHANGED BooksProofs!vars
  BY DEF merchantVars, Books!vars, BooksProofs!vars, walletVars,
         Books!walletVars, BooksProofs!walletVars, ledgerVars, Books!ledgerVars,
         BooksProofs!ledgerVars, orderVars, Books!orderVars,
         BooksProofs!orderVars, giftVars, Books!giftVars, BooksProofs!giftVars

-----------------------------------------------------------------------------
(* The merchant's transactions *)

(* A step of the merchant is one of the transactions of PayBooks. *)
Transaction ==
    \/ \E a \in Account, k \in Key, p \in Package, ch \in Channel :
          CreateRecharge(a, k, p, ch) /\ UNCHANGED giftVars
    \/ \E o \in Order : Expire(o) /\ UNCHANGED giftVars
    \/ \E o \in Order : CloseIfExpired(o) /\ UNCHANGED giftVars
    \/ \E cb \in Callback : MarkFailed(cb) /\ UNCHANGED giftVars
    \/ \E cb \in Callback : Credit(cb) /\ UNCHANGED giftVars
    \/ \E o \in Order : SettleOne(o) /\ UNCHANGED giftVars
    \/ \E o \in Order : Refund(o) /\ UNCHANGED giftVars
    \/ \E o \in Order : Chargeback(o) /\ UNCHANGED giftVars
    \/ \E s \in Account, k \in Key, v \in Video, gift \in Gift, count \in GiftCount :
          SendGift(s, k, v, gift, count) /\ UNCHANGED orderVars

LEMMA TransactionOfBooks == Transaction => Books!Next
  BY SameCreateRecharge, SameExpire, SameCloseIfExpired, SameMarkFailed, SameCredit,
     SameSettleOne, SameReverse, SameSendGift
     DEF Transaction, Books!Next, Books!Callback, Callback, Books!giftVars, giftVars,
         Books!orderVars, orderVars, Books!Refund, Refund, Books!Chargeback, Chargeback

LEMMA TransactionOfProofs == Transaction => BooksProofs!Next
  BY SameCreateRecharge, SameExpire, SameCloseIfExpired, SameMarkFailed, SameCredit,
     SameSettleOne, SameReverse, SameSendGift
     DEF Transaction, BooksProofs!Next, BooksProofs!Callback, Callback,
         BooksProofs!giftVars, giftVars, BooksProofs!orderVars, orderVars,
         BooksProofs!Refund, Refund, BooksProofs!Chargeback, Chargeback

(* What PayBooks_proofs assumes of finite sets is what is assumed here. *)
LEMMA SameFinite == \A S : IsFiniteSet(S) <=> BooksProofs!IsFiniteSet(S)
  BY DEF IsFiniteSet, BooksProofs!IsFiniteSet

MerchantTypeOK == LedgerTypeOK /\ OrdersTypeOK /\ GiftsTypeOK

(* A transaction keeps the types of the merchant's tables. *)
LEMMA TransactionType ==
    MerchantTypeOK /\ (Transaction \/ UNCHANGED merchantVars) => MerchantTypeOK'
<1>1. BooksProofs!TypeOK /\ [BooksProofs!Next]_(BooksProofs!vars) => BooksProofs!TypeOK'
  BY SameFinite, BooksProofs!NextType, BizNosDisjoint, BizNosFinite, PackageAssumption,
     GiftAssumption
<1>2. MerchantTypeOK <=> BooksProofs!TypeOK
  BY SameTypes DEF MerchantTypeOK
<1>3. MerchantTypeOK' <=> BooksProofs!TypeOK'
  <2>1. LedgerTypeOK' /\ OrdersTypeOK' /\ GiftsTypeOK' <=> BooksProofs!TypeOK'
    BY SameTypes, PTL
  <2> QED
    BY <2>1 DEF MerchantTypeOK
<1> QED
  BY <1>1, <1>2, <1>3, TransactionOfProofs, SameVars

-----------------------------------------------------------------------------
(* Types *)

(***************************************************************************)
(* Besides the types: RetryNotifies works on a row that is there, and on   *)
(* none that has had all its tries; and a query turns only a trade with a  *)
(* number into a callback.                                                 *)
(***************************************************************************)
GatewayOK ==
    /\ CashierTypeOK
    /\ req \in [Req -> ReqState \cup {Idle}]
    /\ retry # Idle => row[retry.order] # NoRow /\ retry.attempts < NotifyLimit
    /\ \A m \in Req : req[m].pc = "compensate" =>
          req[m].trade \in GatewayTrade /\ req[m].trade.no # NoTrade

RechargeOK == MerchantTypeOK /\ GatewayOK

LEMMA RechargeTypes == RechargeOK => TypeOK
  BY DEF RechargeOK, MerchantTypeOK, GatewayOK, TypeOK

(* A handler that is not idle has all the fields of its state. *)
LEMMA CallPresent ==
    ASSUME CashierTypeOK, NEW c \in Call, call[c].pc # "idle"
    PROVE  call[c] \in CallState /\ call[c] # Idle
  BY DEF CashierTypeOK, CallState, Idle

LEMMA RetryPresent ==
    ASSUME CashierTypeOK, retry # Idle
    PROVE  retry \in RetryState
  BY DEF CashierTypeOK

LEMMA ReqPresent ==
    ASSUME GatewayOK, NEW m \in Req, req[m].pc # "idle"
    PROVE  req[m] \in ReqState /\ req[m] # Idle
  BY DEF GatewayOK, ReqState, Idle

LEMMA OrderPresent ==
    ASSUME MerchantTypeOK, NEW o \in Order, order[o].status # "absent"
    PROVE  order[o] \in PayOrder /\ order[o] # NoOrder
  BY DEF MerchantTypeOK, OrdersTypeOK, NoOrder

(* What the merchant does with a callback about one of its orders. *)
LEMMA HandleIsTransaction ==
    ASSUME MerchantTypeOK, NEW o \in Order, NEW paid \in BOOLEAN, NEW no \in Trade,
           Handle(Notice(o, paid, no))
    PROVE  Transaction \/ UNCHANGED merchantVars
<1> DEFINE cb == Notice(o, paid, no)
<1>1. ASSUME order[o].status \in Status PROVE cb \in Callback
  <2>1. order[o] \in PayOrder
    BY <1>1, OrderPresent DEF Status, OpenStatus
  <2>2. order[o].channel \in Channel /\ order[o].package \in Package
    BY <2>1 DEF PayOrder
  <2> QED
    BY <2>2 DEF Notice, Callback, Amount
<1>2. cb.order = o
  BY DEF Notice
<1>3. CASE Credit(cb) /\ UNCHANGED giftVars
  <2>1. order[o].status \in Status
    BY <1>2, <1>3 DEF Credit, Status
  <2> QED
    BY <1>1, <1>3, <2>1 DEF Transaction
<1>4. CASE MarkFailed(cb) /\ UNCHANGED giftVars
  <2>1. order[o].status \in Status
    BY <1>2, <1>4 DEF MarkFailed, Status
  <2> QED
    BY <1>1, <1>4, <2>1 DEF Transaction
<1> QED
  BY <1>3, <1>4 DEF Handle

(* A notification carries a trade number of the gateway. *)
LEMMA NoticeOfIsTransaction ==
    ASSUME MerchantTypeOK, NEW o \in Order, NEW paid \in BOOLEAN, Handle(NoticeOf(o, paid))
    PROVE  Transaction \/ UNCHANGED merchantVars
<1>1. (IF paid THEN PaidTrade[o] ELSE FailTrade[o]) \in Trade
  BY CashierAssumption
<1> QED
  BY <1>1, HandleIsTransaction DEF NoticeOf

(* Whoever steps, the merchant's tables see one transaction, or nothing. *)
LEMMA StepIsTransaction ==
    ASSUME RechargeOK, [Next]_vars
    PROVE  Transaction \/ UNCHANGED merchantVars
<1> USE DEF RechargeOK
<1>1. CASE UNCHANGED vars
  BY <1>1 DEF vars
<1>2. CASE Customer
  BY <1>2 DEF Customer, Transaction
<1>3. CASE Gateway
  <2>1. ASSUME NEW c \in Call, Handle(CallNotice(c)), call[c].pc = "notify"
        PROVE  Transaction \/ UNCHANGED merchantVars
    <3>1. call[c].order \in Order /\ Paid(call[c].trade) \in BOOLEAN
      BY <2>1, CallPresent DEF GatewayOK, CallState, Paid
    <3> QED
      BY <2>1, <3>1, NoticeOfIsTransaction DEF CallNotice
  <2>2. ASSUME Handle(RetryNotice), retry # Idle
        PROVE  Transaction \/ UNCHANGED merchantVars
    <3>1. retry.order \in Order /\ retry.paid \in BOOLEAN
      BY <2>2, RetryPresent DEF GatewayOK, RetryState
    <3> QED
      BY <2>2, <3>1, NoticeOfIsTransaction DEF RetryNotice
  <2> QED
    BY <1>3, <2>1, <2>2
       DEF Gateway, Notify, NotifySent, NotifyUnanswered, NotifyFails, Retry,
           RetryUpdate, RetryUnanswered, RetryFails
<1>4. CASE Merchant
  <2>1. ASSUME NEW m \in Req, QueryCompensate(m)
        PROVE  Transaction \/ UNCHANGED merchantVars
    <3>1. req[m].order \in Order /\ req[m].trade \in GatewayTrade /\ req[m].trade.no # NoTrade
      BY <2>1, ReqPresent DEF QueryCompensate, GatewayOK, ReqState
    <3>2. Paid(req[m].trade) \in BOOLEAN /\ req[m].trade.no \in Trade
      BY <3>1 DEF GatewayTrade, Paid
    <3> QED
      BY <2>1, <3>1, <3>2, HandleIsTransaction DEF QueryCompensate
  <2>2. ASSUME NEW m \in Req, QueryClose(m)
        PROVE  Transaction \/ UNCHANGED merchantVars
    <3>1. req[m].order \in Order
      BY <2>2, ReqPresent DEF QueryClose, GatewayOK, ReqState
    <3> QED
      BY <2>2, <3>1 DEF QueryClose, Transaction
  <2>3. ASSUME NEW m \in Req, ReverseCommit(m)
        PROVE  Transaction \/ UNCHANGED merchantVars
    <3>1. req[m].order \in Order
      BY <2>3, ReqPresent DEF ReverseCommit, GatewayOK, ReqState
    <3> QED
      BY <2>3, <3>1 DEF ReverseCommit, Transaction
  <2>4. CASE \/ \E o \in Order : Expire(o) /\ UNCHANGED <<giftVars, cashierVars, req>>
             \/ \E o \in Order : SettleOne(o) /\ UNCHANGED <<giftVars, cashierVars, req>>
    BY <2>4 DEF Transaction
  <2> QED
    BY <1>4, <2>1, <2>2, <2>3, <2>4
       DEF Merchant, QueryStart, QueryAnswered, QueryUnanswered, QueryReread,
           QueryRelease, ReverseAccepted, ReverseUnanswered, Abandon
<1> QED
  BY <1>1, <1>2, <1>3, <1>4 DEF Next

(* remember, for any handler: the trade goes to the map or is ignored.     *)
LEMMA RememberType ==
    ASSUME CashierTypeOK, NEW c \in Call, NEW op \in {"show", "submit", "mutate"},
           NEW o \in Order, NEW trade \in GatewayTrade, RememberTrade(c, op, o, trade)
    PROVE  /\ trades' \in [Order -> GatewayTrade \cup {Unknown}]
           /\ call' \in [Call -> CallState \cup {Idle}]
           /\ UNCHANGED <<row, retry, losses, restarts>>
<1>1. /\ [pc |-> "notify", op |-> op, order |-> o, trade |-> trade] \in CallState
      /\ [pc |-> "save", op |-> op, order |-> o, trade |-> trade] \in CallState
  BY DEF CallState
<1> QED
  BY <1>1 DEF RememberTrade, AfterRemember, CashierTypeOK

LEMMA WaitingType == Waiting \in GatewayTrade
  BY DEF Waiting, GatewayTrade, TradeStatus

LEMMA SubmittedType ==
    ASSUME NEW o \in Order, NEW paid
    PROVE  Submitted(o, paid) \in GatewayTrade
  BY CashierAssumption DEF Submitted, GatewayTrade, TradeStatus

(* tradeOf finds a trade of the gateway or nothing. *)
LEMMA TradeOfType ==
    ASSUME CashierTypeOK, NEW o \in Order
    PROVE  TradeOf(o) \in GatewayTrade \cup {Unknown}
  BY DEF TradeOf, CashierTypeOK, Row

(* mutateTrade goes on with a trade it knows, in the status asked for.     *)
LEMMA MutateType ==
    ASSUME CashierTypeOK, NEW c \in Call, NEW o \in Order, NEW next \in TradeStatus,
           MutateTrade(c, o, next)
    PROVE  CashierTypeOK' /\ UNCHANGED <<row, retry>>
<1>1. TradeOf(o) \in GatewayTrade
  BY TradeOfType DEF MutateTrade, MutateAnswer
<1>2. [TradeOf(o) EXCEPT !.status = next] \in GatewayTrade
  BY <1>1 DEF GatewayTrade
<1>3. [pc |-> "remember", op |-> "mutate", order |-> o,
       trade |-> [TradeOf(o) EXCEPT !.status = next]] \in CallState
  BY <1>2 DEF CallState
<1> QED
  BY <1>3 DEF MutateTrade, CashierTypeOK

(* What GatewayOK says of the gateway alone. *)
CashierOK ==
    /\ CashierTypeOK
    /\ retry # Idle => row[retry.order] # NoRow /\ retry.attempts < NotifyLimit

RequestsOK ==
    /\ req \in [Req -> ReqState \cup {Idle}]
    /\ \A m \in Req : req[m].pc = "compensate" =>
          req[m].trade \in GatewayTrade /\ req[m].trade.no # NoTrade

LEMMA GatewayParts == GatewayOK <=> CashierOK /\ RequestsOK
  BY DEF GatewayOK, CashierOK, RequestsOK

(* The steps that only the gateway's own state takes part in. *)
LEMMA RememberOK ==
    ASSUME CashierOK, NEW c \in Call, NEW op \in {"show", "submit", "mutate"},
           NEW o \in Order, NEW trade \in GatewayTrade, RememberTrade(c, op, o, trade),
           authorized' \subseteq Order
    PROVE  CashierOK'
<1>1. /\ trades' \in [Order -> GatewayTrade \cup {Unknown}]
      /\ call' \in [Call -> CallState \cup {Idle}]
      /\ UNCHANGED <<row, retry, losses, restarts>>
  BY RememberType DEF CashierOK
<1> QED
  BY <1>1 DEF CashierOK, CashierTypeOK

LEMMA SaveRowOK ==
    ASSUME CashierOK, NEW c \in Call, SaveRow(c)
    PROVE  CashierOK'
<1>1. call[c] \in CallState
  BY CallPresent DEF SaveRow, CashierOK
<1>2. PICK o : o = call[c].order
  OBVIOUS
<1>3. PICK saved : saved = [trade |-> call[c].trade, notify |-> "none", paid |-> FALSE,
                            attempts |-> 0]
  OBVIOUS
<1>4. o \in Order /\ saved \in Row /\ saved # NoRow
  BY <1>1, <1>2, <1>3, CashierAssumption DEF CallState, Row, NoRow
<1>5. row' = [row EXCEPT ![o] = saved]
  BY <1>2, <1>3 DEF SaveRow
<1>6. [pc |-> "notify", op |-> call[c].op, order |-> call[c].order,
       trade |-> call[c].trade] \in CallState
  BY <1>1 DEF CallState
<1>7. call' \in [Call -> CallState \cup {Idle}]
  BY <1>6 DEF SaveRow, AfterRemember, CashierOK, CashierTypeOK
<1>8. row' \in [Order -> Row \cup {NoRow}]
  BY <1>4, <1>5 DEF CashierOK, CashierTypeOK
<1>9. retry' # Idle => row'[retry'.order] # NoRow /\ retry'.attempts < NotifyLimit
  <2>1. retry # Idle => retry.order \in Order
    BY RetryPresent DEF CashierOK, RetryState
  <2> QED
    BY <1>4, <1>5, <2>1 DEF CashierOK, CashierTypeOK, SaveRow
<1> QED
  BY <1>7, <1>8, <1>9 DEF SaveRow, CashierOK, CashierTypeOK

LEMMA EnqueueOK ==
    ASSUME CashierOK, NEW c \in Call, EnqueueNotify(c), losses' \in 0 .. MaxLoss
    PROVE  CashierOK'
<1>1. call[c] \in CallState
  BY CallPresent DEF EnqueueNotify, CashierOK
<1>2. PICK o : o = call[c].order
  OBVIOUS
<1>3. PICK paid : paid = Paid(call[c].trade)
  OBVIOUS
<1>4. o \in Order /\ paid \in BOOLEAN
  BY <1>1, <1>2, <1>3 DEF CallState, Paid
<1>5. row' = IF row[o] = NoRow THEN row
             ELSE [row EXCEPT ![o] = [@ EXCEPT !.notify = "pending", !.paid = paid]]
  BY <1>2, <1>3 DEF EnqueueNotify
<1>6. row[o] # NoRow => [row[o] EXCEPT !.notify = "pending", !.paid = paid] \in Row
  BY <1>4 DEF CashierOK, CashierTypeOK, Row
<1>7. row' \in [Order -> Row \cup {NoRow}] /\ \A n \in Order : row[n] # NoRow => row'[n] # NoRow
  <2>1. \A r \in Row : r # NoRow
    BY DEF Row, NoRow
  <2> QED
    BY <1>4, <1>5, <1>6, <2>1 DEF CashierOK, CashierTypeOK
<1>8. call' \in [Call -> CallState \cup {Idle}]
  BY DEF EnqueueNotify, CashierOK, CashierTypeOK
<1>9. retry # Idle => retry.order \in Order
  BY RetryPresent DEF CashierOK, RetryState
<1> QED
  BY <1>7, <1>8, <1>9 DEF EnqueueNotify, CashierOK, CashierTypeOK

LEMMA RetryOK ==
    ASSUME CashierOK, NEW sent \in BOOLEAN, RetryUpdate(sent), losses' \in 0 .. MaxLoss
    PROVE  CashierOK'
<1>1. retry \in RetryState
  BY RetryPresent DEF RetryUpdate, CashierOK
<1>2. PICK o : o = retry.order
  OBVIOUS
<1>3. PICK n : n = retry.attempts + 1
  OBVIOUS
<1>4. o \in Order /\ n \in 0 .. NotifyLimit /\ row[o] # NoRow
  BY <1>1, <1>2, <1>3, CashierAssumption DEF RetryState, RetryUpdate, CashierOK
<1>5. PICK r : r = [row[o] EXCEPT !.attempts = n,
                                  !.notify = IF sent THEN "sent" ELSE row[o].notify]
  OBVIOUS
<1>6. row' = [row EXCEPT ![o] = r]
  BY <1>2, <1>3, <1>4, <1>5 DEF RetryUpdate, CashierOK, CashierTypeOK
<1>7. r \in Row
  <2>1. row[o] \in Row
    BY <1>4 DEF CashierOK, CashierTypeOK
  <2> QED
    BY <1>4, <1>5, <2>1 DEF Row
<1>8. row' \in [Order -> Row \cup {NoRow}]
  BY <1>4, <1>6, <1>7 DEF CashierOK, CashierTypeOK
<1> QED
  BY <1>8 DEF RetryUpdate, CashierOK, CashierTypeOK

LEMMA RetryFindOK ==
    ASSUME CashierOK, NEW o \in Order, RetryFind(o)
    PROVE  CashierOK'
<1>1. row[o] \in Row
  BY DEF RetryFind, CashierOK, CashierTypeOK
<1>2. PICK found : found = [order |-> o, paid |-> row[o].paid, attempts |-> row[o].attempts]
  OBVIOUS
<1>3. found \in RetryState /\ found.order = o /\ found.attempts = row[o].attempts
  BY <1>1, <1>2 DEF Row, RetryState
<1>4. retry' = found
  BY <1>2 DEF RetryFind
<1> QED
  BY <1>3, <1>4 DEF RetryFind, CashierOK, CashierTypeOK

LEMMA RestartOK == CashierOK /\ Restart => CashierOK'
  BY CashierAssumption DEF Restart, CashierOK, CashierTypeOK

(* No step of the gateway, or of a merchant request that calls it, leaves  *)
(* the gateway's types.                                                    *)
LEMMA CashierStep ==
    ASSUME RechargeOK, [Next]_vars
    PROVE  CashierOK'
<1>0. CashierOK /\ CashierTypeOK /\ authorized \subseteq Order /\ losses \in 0 .. MaxLoss
  BY GatewayParts DEF RechargeOK, CashierOK, CashierTypeOK
<1>1. ASSUME UNCHANGED cashierVars PROVE CashierOK'
  BY <1>0, <1>1 DEF cashierVars, CashierOK, CashierTypeOK
<1>2. ASSUME Lose PROVE losses' \in 0 .. MaxLoss
  BY <1>0, <1>2, CashierAssumption DEF Lose
<1>3. ASSUME NEW c \in Call, NEW o \in Order, NEW next \in TradeStatus, MutateTrade(c, o, next)
      PROVE  CashierOK'
  <2>1. CashierTypeOK' /\ UNCHANGED <<row, retry>>
    BY <1>0, <1>3, MutateType
  <2> QED
    BY <1>0, <2>1 DEF CashierOK
<1>4. CASE UNCHANGED vars
  BY <1>1, <1>4 DEF vars
<1>5. CASE Customer
  <2>1. ASSUME NEW c \in Call, NEW o \in Order, Show(c, o) PROVE CashierOK'
    <3>1. RememberTrade(c, "show", o, Waiting) /\ authorized' \subseteq Order
      BY <1>0, <2>1 DEF Show
    <3> QED
      BY <1>0, <3>1, RememberOK, WaitingType
  <2>2. ASSUME NEW c \in Call, NEW o \in Order, NEW paid \in Outcome, Submit(c, o, paid)
        PROVE  CashierOK'
    <3>1. Submitted(o, paid) \in GatewayTrade
      BY SubmittedType
    <3>2. RememberTrade(c, "submit", o, Submitted(o, paid)) /\ authorized' \subseteq Order
      BY <1>0, <2>2 DEF Submit
    <3> QED
      BY <1>0, <3>1, <3>2, RememberOK
  <2> QED
    BY <1>1, <1>5, <2>1, <2>2 DEF Customer
<1>6. CASE Gateway
  <2>1. ASSUME NEW c \in Call, MutateRemember(c) PROVE CashierOK'
    <3>1. call[c].order \in Order /\ call[c].trade \in GatewayTrade
      BY <1>0, <2>1, CallPresent DEF MutateRemember, CallState
    <3>2. PICK o \in Order, trade \in GatewayTrade : o = call[c].order /\ trade = call[c].trade
      BY <3>1
    <3>3. RememberTrade(c, "mutate", o, trade) /\ authorized' \subseteq Order
      BY <1>0, <2>1, <3>2 DEF MutateRemember
    <3> QED
      BY <1>0, <3>3, RememberOK
  <2>2. ASSUME NEW c \in Call, SaveRow(c) PROVE CashierOK'
    BY <1>0, <2>2, SaveRowOK
  <2>3. ASSUME NEW c \in Call, NotifySent(c) PROVE CashierOK'
    BY <1>0, <2>3 DEF NotifySent, CashierOK, CashierTypeOK
  <2>4. ASSUME NEW c \in Call, NotifyFails(c) PROVE CashierOK'
    <3>1. EnqueueNotify(c) /\ losses' \in 0 .. MaxLoss
      BY <1>0, <1>2, <2>4 DEF NotifyFails
    <3> QED
      BY <1>0, <3>1, EnqueueOK
  <2>5. ASSUME NEW o \in Order, RetryFind(o) PROVE CashierOK'
    BY <1>0, <2>5, RetryFindOK
  <2>6. ASSUME Retry \/ RetryFails PROVE CashierOK'
    <3>1. PICK sent \in BOOLEAN : RetryUpdate(sent)
      BY <2>6 DEF Retry, RetryFails
    <3>2. losses' \in 0 .. MaxLoss
      BY <1>0, <1>2, <2>6 DEF Retry, RetryFails
    <3> QED
      BY <1>0, <3>1, <3>2, RetryOK
  <2>7. ASSUME Restart PROVE CashierOK'
    BY <1>0, <2>7, RestartOK
  <2> QED
    BY <1>1, <1>6, <2>1, <2>2, <2>3, <2>4, <2>5, <2>6, <2>7
       DEF Gateway, Notify, NotifyUnanswered, RetryUnanswered
<1>7. CASE Merchant
  <2>1. ASSUME NEW m \in Req, NEW c \in Call, QueryRelease(m, c) PROVE CashierOK'
    <3>1. req[m].order \in Order
      BY <2>1, ReqPresent DEF QueryRelease, RechargeOK, ReqState
    <3>2. PICK o \in Order : o = req[m].order
      BY <3>1
    <3>3. MutateTrade(c, o, "TRADE_CLOSED")
      BY <2>1, <3>2 DEF QueryRelease
    <3>4. "TRADE_CLOSED" \in TradeStatus
      BY DEF TradeStatus
    <3> QED
      BY <1>3, <3>3, <3>4
  <2>2. ASSUME NEW m \in Req, NEW o \in Order, NEW op \in {"refund", "chargeback"},
               NEW c \in Call, ReverseAccepted(m, o, op, c)
        PROVE  CashierOK'
    <3>1. PICK next : next = GatewayStatus(op)
      OBVIOUS
    <3>2. next \in TradeStatus
      BY <3>1 DEF GatewayStatus, TradeStatus, Reversal
    <3>3. MutateTrade(c, o, next)
      BY <2>2, <3>1 DEF ReverseAccepted
    <3> QED
      BY <1>3, <3>2, <3>3
  <2> QED
    BY <1>1, <1>7, <2>1, <2>2
       DEF Merchant, QueryStart, QueryAnswered, QueryUnanswered, QueryCompensate,
           QueryReread, QueryClose, ReverseUnanswered, ReverseCommit, Abandon
<1> QED
  BY <1>4, <1>5, <1>6, <1>7 DEF Next

(* A merchant request moves on, or a step leaves all of them alone.        *)
LEMMA RequestsStep ==
    ASSUME RechargeOK, [Next]_vars
    PROVE  RequestsOK'
<1>0. RequestsOK /\ req \in [Req -> ReqState \cup {Idle}] /\ CashierTypeOK
  BY GatewayParts DEF RechargeOK, RequestsOK, CashierOK
<1>1. ASSUME UNCHANGED req PROVE RequestsOK'
  BY <1>0, <1>1 DEF RequestsOK
<1>2. ASSUME NEW m \in Req, NEW r \in ReqState \cup {Idle}, req' = [req EXCEPT ![m] = r],
             r.pc = "compensate" => r.trade \in GatewayTrade /\ r.trade.no # NoTrade
      PROVE  RequestsOK'
  BY <1>0, <1>2 DEF RequestsOK
<1>3. ASSUME NEW m \in Req, Done(m) PROVE RequestsOK'
  <2>1. req' = [req EXCEPT ![m] = Idle] /\ Idle.pc # "compensate"
    BY <1>3 DEF Done, Idle
  <2> QED
    BY <1>2, <2>1
<1>4. ASSUME NEW m \in Req, NEW pc \in {"ask", "reverse"}, NEW o \in Order,
             NEW op \in {"query", "refund", "chargeback"}, Start(m, pc, o, op)
      PROVE  RequestsOK'
  <2>1. PICK r : r = [pc |-> pc, order |-> o, op |-> op, trade |-> Unknown]
    OBVIOUS
  <2>2. r \in ReqState /\ r.pc # "compensate"
    BY <2>1 DEF ReqState
  <2>3. req' = [req EXCEPT ![m] = r]
    BY <1>4, <2>1 DEF Start
  <2> QED
    BY <1>2, <2>2, <2>3
<1>5. ASSUME NEW m \in Req, NEW pc \in {"reread", "close", "release"}, Goto(m, pc),
             req[m] \in ReqState
      PROVE  RequestsOK'
  <2>1. PICK r : r = [req[m] EXCEPT !.pc = pc]
    OBVIOUS
  <2>2. r \in ReqState /\ r.pc # "compensate"
    BY <1>5, <2>1 DEF ReqState
  <2>3. req' = [req EXCEPT ![m] = r]
    BY <1>0, <1>5, <2>1 DEF Goto
  <2> QED
    BY <1>2, <2>2, <2>3
<1>6. ASSUME NEW m \in Req, QueryAnswered(m) PROVE RequestsOK'
  <2>1. req[m] \in ReqState /\ req[m].order \in Order
    BY <1>6, ReqPresent DEF QueryAnswered, RechargeOK, ReqState
  <2>2. PICK trade : trade = TradeOf(req[m].order)
    OBVIOUS
  <2>3. trade \in GatewayTrade /\ trade.no # NoTrade
    BY <1>0, <1>6, <2>1, <2>2, TradeOfType DEF QueryAnswered, Unknown
  <2>4. PICK r : r = [req[m] EXCEPT !.pc = "compensate", !.trade = trade]
    OBVIOUS
  <2>5. r \in ReqState /\ r.trade = trade
    BY <2>1, <2>3, <2>4 DEF ReqState
  <2>6. req' = [req EXCEPT ![m] = r]
    BY <1>0, <1>6, <2>2, <2>4 DEF QueryAnswered
  <2> QED
    BY <1>2, <2>3, <2>5, <2>6
<1>7. CASE Merchant
  <2>1. ASSUME NEW m \in Req, req[m].pc # "idle" PROVE req[m] \in ReqState
    BY <2>1, ReqPresent DEF RechargeOK
  <2>2. ASSUME NEW m \in Req, QueryUnanswered(m) \/ QueryCompensate(m) \/ QueryReread(m)
                                \/ QueryClose(m)
        PROVE  RequestsOK'
    BY <1>3, <1>5, <2>1, <2>2
       DEF QueryUnanswered, QueryCompensate, QueryReread, QueryClose
  <2>3. ASSUME NEW m \in Req, NEW o \in Order,
               \/ QueryStart(m, o)
               \/ \E op \in {"refund", "chargeback"} : ReverseUnanswered(m, o, op)
               \/ \E op \in {"refund", "chargeback"}, c \in Call : ReverseAccepted(m, o, op, c)
        PROVE  RequestsOK'
    BY <1>4, <2>3 DEF QueryStart, ReverseUnanswered, ReverseAccepted
  <2>4. ASSUME NEW m \in Req, (\E c \in Call : QueryRelease(m, c)) \/ ReverseCommit(m) \/ Abandon(m)
        PROVE  RequestsOK'
    BY <1>3, <2>4 DEF QueryRelease, ReverseCommit, Abandon
  <2> QED
    BY <1>1, <1>6, <1>7, <2>2, <2>3, <2>4 DEF Merchant
<1> QED
  BY <1>1, <1>7
     DEF Next, vars, Customer, Gateway, Notify, NotifyUnanswered, NotifyFails, Retry,
         RetryUnanswered, RetryFails

LEMMA RechargeInit == Init => RechargeOK
<1> SUFFICES ASSUME Init PROVE RechargeOK
  OBVIOUS
<1>1. MerchantTypeOK
  <2>1. BooksProofs!Init => BooksProofs!TypeOK
    BY SameFinite, BooksProofs!InitType, BizNosDisjoint, BizNosFinite, PackageAssumption,
       GiftAssumption
  <2> QED
    BY <2>1, SameInit, SameTypes DEF Init, MerchantTypeOK
<1>2. CashierOK
  BY CashierAssumption DEF Init, CashierInit, CashierOK, CashierTypeOK
<1>3. RequestsOK
  BY DEF Init, RequestsOK, Idle
<1> QED
  BY <1>1, <1>2, <1>3, GatewayParts DEF RechargeOK

LEMMA RechargeStep == RechargeOK /\ [Next]_vars => RechargeOK'
<1> SUFFICES ASSUME RechargeOK, [Next]_vars PROVE RechargeOK'
  OBVIOUS
<1>1. MerchantTypeOK'
  BY StepIsTransaction, TransactionType DEF RechargeOK
<1>2. GatewayOK'
  <2>1. GatewayOK' <=> CashierOK' /\ RequestsOK'
    BY GatewayParts, PTL
  <2> QED
    BY <2>1, CashierStep, RequestsStep
<1> QED
  BY <1>1, <1>2 DEF RechargeOK

LEMMA RechargeHolds == Spec => []RechargeOK
  BY RechargeInit, RechargeStep, PTL DEF Spec

(***************************************************************************)
(* The tables of the merchant, the map, rows and handlers of the gateway   *)
(* and the requests between them keep their types (entity.go, cashier.go). *)
(***************************************************************************)
THEOREM RechargeTypeCorrect == Spec => []TypeOK
  BY RechargeHolds, RechargeTypes, PTL

(***************************************************************************)
(* The merchant's half implements PayBooks: whatever the requests have     *)
(* read before and wherever they stop, each of their steps is one of the   *)
(* transactions whose books PayBooks checks, or changes no table           *)
(* (service.go, books.go, gift.go).                                        *)
(***************************************************************************)
THEOREM MerchantImplementsBooks == Spec => ImplementsBooks
<1>1. Init => Books!Init
  BY SameInit DEF Init
<1>2. RechargeOK /\ [Next]_vars => [Books!Next]_(Books!vars)
  BY StepIsTransaction, TransactionOfBooks, SameVars
<1> QED
  BY <1>1, <1>2, RechargeHolds, PTL DEF Spec, ImplementsBooks, Books!Spec

-----------------------------------------------------------------------------
(* Money follows an authorization *)

CreditedStatus == {"paid", "refunded", "chargeback"}

(* A trade the gateway counts as captured, refunded or charged back. *)
Counted(trade) == trade.status \in {"TRADE_SUCCESS"} \cup Reversal

OrdersAuthorized ==
    \A o \in Order : order[o].status \in CreditedStatus => o \in authorized

TradesAuthorized ==
    \A o \in Order : Counted(trades[o]) => o \in authorized

(* A row carries a captured trade, or a notification of one that is due. *)
RowsAuthorized ==
    \A o \in Order :
        row[o] # NoRow /\ (Counted(row[o].trade) \/ (row[o].notify = "pending" /\ row[o].paid))
            => o \in authorized

CallsAuthorized ==
    \A c \in Call :
        call[c] # Idle /\ Counted(call[c].trade) => call[c].order \in authorized

RetryAuthorized == retry # Idle /\ retry.paid => retry.order \in authorized

QueriesAuthorized ==
    \A m \in Req :
        req[m].pc = "compensate" /\ Paid(req[m].trade) => req[m].order \in authorized

(***************************************************************************)
(* Wherever a captured trade may be - in the map, in a row, with a         *)
(* handler that has read it and stopped, in a notification under way or    *)
(* kept for a retry, in a query of the merchant - it was authorized.       *)
(***************************************************************************)
AllAuthorized ==
    /\ OrdersAuthorized /\ TradesAuthorized /\ RowsAuthorized
    /\ CallsAuthorized /\ RetryAuthorized /\ QueriesAuthorized

GatewayAuthorized ==
    TradesAuthorized /\ RowsAuthorized /\ CallsAuthorized /\ RetryAuthorized

LEMMA WaitingNotCounted == ~Counted(Waiting)
  BY DEF Counted, Waiting, Reversal

(* tradeOf finds an authorized trade, if it finds a captured one. *)
LEMMA TradeOfAuthorized ==
    ASSUME TradesAuthorized, RowsAuthorized, NEW o \in Order, Counted(TradeOf(o))
    PROVE  o \in authorized
  BY DEF TradeOf, TradesAuthorized, RowsAuthorized

LEMMA RememberAuthorized ==
    ASSUME RechargeOK, GatewayAuthorized, NEW c \in Call, NEW op \in {"show", "submit", "mutate"},
           NEW o \in Order, NEW trade \in GatewayTrade, RememberTrade(c, op, o, trade),
           authorized \subseteq authorized', Counted(trade) => o \in authorized'
    PROVE  GatewayAuthorized'
<1>0. CashierTypeOK
  BY DEF RechargeOK, GatewayOK
<1>1. TradesAuthorized'
  BY <1>0 DEF RememberTrade, GatewayAuthorized, TradesAuthorized, CashierTypeOK
<1>2. RowsAuthorized' /\ RetryAuthorized'
  BY DEF RememberTrade, GatewayAuthorized, RowsAuthorized, RetryAuthorized
<1>3. CallsAuthorized'
  <2>1. PICK x : /\ call' = [call EXCEPT ![c] = x]
                 /\ x = Idle \/ (x.order = o /\ x.trade = trade)
    BY DEF RememberTrade, AfterRemember
  <2> QED
    BY <1>0, <2>1 DEF GatewayAuthorized, CallsAuthorized, CashierTypeOK
<1> QED
  BY <1>1, <1>2, <1>3 DEF GatewayAuthorized

LEMMA MutateAuthorized ==
    ASSUME RechargeOK, GatewayAuthorized, NEW c \in Call, NEW o \in Order,
           NEW next \in {"TRADE_CLOSED", "TRADE_REFUND", "TRADE_CHARGEBACK"},
           MutateTrade(c, o, next)
    PROVE  GatewayAuthorized'
<1>0. CashierTypeOK
  BY DEF RechargeOK, GatewayOK
<1>1. TradeOf(o) \in GatewayTrade
  BY <1>0, TradeOfType DEF MutateTrade, MutateAnswer
<1>2. PICK trade : trade = [TradeOf(o) EXCEPT !.status = next]
  OBVIOUS
<1>3. trade.status = next
  BY <1>1, <1>2 DEF GatewayTrade
<1>4. Counted(trade) => o \in authorized
  <2>1. SUFFICES ASSUME Counted(trade) PROVE o \in authorized
    OBVIOUS
  <2>2. next \in Reversal
    BY <1>3, <2>1 DEF Counted, Reversal
  <2>3. Counted(TradeOf(o))
    BY <2>2 DEF MutateTrade, MutateAnswer, Counted
  <2> QED
    BY <2>3, TradeOfAuthorized DEF GatewayAuthorized
<1>5. PICK x : x = [pc |-> "remember", op |-> "mutate", order |-> o, trade |-> trade]
  OBVIOUS
<1>6. call' = [call EXCEPT ![c] = x] /\ x.order = o /\ x.trade = trade
  BY <1>2, <1>5 DEF MutateTrade
<1>7. CallsAuthorized'
  BY <1>0, <1>4, <1>6 DEF MutateTrade, GatewayAuthorized, CallsAuthorized, CashierTypeOK
<1> QED
  BY <1>7 DEF MutateTrade, GatewayAuthorized, TradesAuthorized, RowsAuthorized, RetryAuthorized

LEMMA SaveRowAuthorized ==
    ASSUME RechargeOK, GatewayAuthorized, NEW c \in Call, SaveRow(c)
    PROVE  GatewayAuthorized'
<1>0. CashierTypeOK /\ call[c] \in CallState /\ call[c] # Idle
  BY CallPresent DEF RechargeOK, GatewayOK, SaveRow
<1>1. PICK o, trade : o = call[c].order /\ trade = call[c].trade
  OBVIOUS
<1>2. o \in Order /\ (Counted(trade) => o \in authorized)
  BY <1>0, <1>1 DEF CallState, GatewayAuthorized, CallsAuthorized
<1>3. RowsAuthorized'
  <2>1. PICK r : r = [trade |-> trade, notify |-> "none", paid |-> FALSE, attempts |-> 0]
    OBVIOUS
  <2>2. row' = [row EXCEPT ![o] = r] /\ r.trade = trade /\ r.notify = "none"
    BY <1>1, <2>1 DEF SaveRow
  <2> QED
    BY <1>0, <1>2, <2>2 DEF SaveRow, GatewayAuthorized, RowsAuthorized, CashierTypeOK
<1>4. CallsAuthorized'
  <2>1. PICK x : x = IF call[c].op = "submit"
                     THEN [pc |-> "notify", op |-> call[c].op, order |-> o, trade |-> trade]
                     ELSE Idle
    OBVIOUS
  <2>2. /\ call' = [call EXCEPT ![c] = x]
        /\ x = Idle \/ (x.order = o /\ x.trade = trade)
    BY <1>1, <2>1 DEF SaveRow, AfterRemember
  <2> QED
    BY <1>0, <1>2, <2>2 DEF SaveRow, GatewayAuthorized, CallsAuthorized, CashierTypeOK
<1> QED
  BY <1>3, <1>4 DEF SaveRow, GatewayAuthorized, TradesAuthorized, RetryAuthorized

LEMMA EnqueueAuthorized ==
    ASSUME RechargeOK, GatewayAuthorized, NEW c \in Call, EnqueueNotify(c)
    PROVE  GatewayAuthorized'
<1>0. CashierTypeOK /\ call[c] \in CallState /\ call[c] # Idle
  BY CallPresent DEF RechargeOK, GatewayOK, EnqueueNotify
<1>1. PICK o, paid : o = call[c].order /\ paid = Paid(call[c].trade)
  OBVIOUS
<1>2. o \in Order /\ (paid => o \in authorized)
  BY <1>0, <1>1 DEF CallState, Paid, Counted, GatewayAuthorized, CallsAuthorized
<1>3. RowsAuthorized'
  <2>1. CASE row[o] = NoRow
    BY <1>1, <2>1 DEF EnqueueNotify, GatewayAuthorized, RowsAuthorized
  <2>2. CASE row[o] # NoRow
    <3>1. row[o] \in Row
      BY <1>0, <1>2, <2>2 DEF CashierTypeOK
    <3>2. PICK r : r = [row[o] EXCEPT !.notify = "pending", !.paid = paid]
      OBVIOUS
    <3>3. r.trade = row[o].trade /\ r.paid = paid
      BY <3>1, <3>2 DEF Row
    <3>4. row' = [row EXCEPT ![o] = r]
      BY <1>0, <1>1, <1>2, <2>2, <3>2 DEF EnqueueNotify, CashierTypeOK
    <3> QED
      BY <1>0, <1>2, <2>2, <3>3, <3>4
         DEF EnqueueNotify, GatewayAuthorized, RowsAuthorized, CashierTypeOK
  <2> QED
    BY <2>1, <2>2
<1>4. CallsAuthorized'
  BY <1>0 DEF EnqueueNotify, GatewayAuthorized, CallsAuthorized, CashierTypeOK
<1> QED
  BY <1>3, <1>4 DEF EnqueueNotify, GatewayAuthorized, TradesAuthorized, RetryAuthorized

LEMMA RetryUpdateAuthorized ==
    ASSUME RechargeOK, GatewayAuthorized, NEW sent \in BOOLEAN, RetryUpdate(sent)
    PROVE  GatewayAuthorized'
<1>0. CashierTypeOK /\ retry \in RetryState /\ row[retry.order] # NoRow
  BY RetryPresent DEF RechargeOK, GatewayOK, RetryUpdate
<1>1. PICK o : o = retry.order
  OBVIOUS
<1>2. o \in Order /\ row[o] \in Row
  BY <1>0, <1>1 DEF RetryState, CashierTypeOK
<1>3. PICK r : r = [row[o] EXCEPT !.attempts = retry.attempts + 1,
                                  !.notify = IF sent THEN "sent" ELSE row[retry.order].notify]
  OBVIOUS
<1>4. /\ r.trade = row[o].trade /\ r.paid = row[o].paid
      /\ r.notify = "pending" => row[o].notify = "pending"
  BY <1>1, <1>2, <1>3 DEF Row
<1>5. row' = [row EXCEPT ![o] = r]
  BY <1>0, <1>1, <1>2, <1>3 DEF RetryUpdate, CashierTypeOK
<1>6. RowsAuthorized'
  BY <1>0, <1>1, <1>2, <1>4, <1>5
     DEF RetryUpdate, GatewayAuthorized, RowsAuthorized, CashierTypeOK
<1> QED
  BY <1>6 DEF RetryUpdate, GatewayAuthorized, TradesAuthorized, CallsAuthorized, RetryAuthorized

LEMMA RetryFindAuthorized ==
    ASSUME RechargeOK, GatewayAuthorized, NEW o \in Order, RetryFind(o)
    PROVE  GatewayAuthorized'
  BY DEF RetryFind, GatewayAuthorized, TradesAuthorized, RowsAuthorized, CallsAuthorized,
         RetryAuthorized

LEMMA RestartAuthorized == GatewayAuthorized /\ Restart => GatewayAuthorized'
  BY DEF Restart, GatewayAuthorized, TradesAuthorized, RowsAuthorized, CallsAuthorized,
         RetryAuthorized, Counted, Unknown, Reversal

(* The gateway's steps keep to authorized trades. *)
LEMMA GatewayAuthorizedStep ==
    ASSUME RechargeOK, GatewayAuthorized, [Next]_vars
    PROVE  GatewayAuthorized' /\ authorized \subseteq authorized'
<1>0. CashierTypeOK
  BY DEF RechargeOK, GatewayOK
<1>1. ASSUME UNCHANGED cashierVars PROVE GatewayAuthorized' /\ authorized \subseteq authorized'
  BY <1>1
     DEF cashierVars, GatewayAuthorized, TradesAuthorized, RowsAuthorized, CallsAuthorized,
         RetryAuthorized
<1>2. CASE UNCHANGED vars
  BY <1>1, <1>2 DEF vars
<1>3. CASE Customer
  <2>1. ASSUME NEW c \in Call, NEW o \in Order, Show(c, o)
        PROVE  GatewayAuthorized' /\ authorized \subseteq authorized'
    <3>1. RememberTrade(c, "show", o, Waiting) /\ authorized' = authorized
      BY <2>1 DEF Show
    <3> QED
      BY <3>1, RememberAuthorized, WaitingType, WaitingNotCounted
  <2>2. ASSUME NEW c \in Call, NEW o \in Order, NEW paid \in Outcome, Submit(c, o, paid)
        PROVE  GatewayAuthorized' /\ authorized \subseteq authorized'
    <3>1. PICK trade : trade = Submitted(o, paid)
      OBVIOUS
    <3>2. trade \in GatewayTrade /\ (Counted(trade) => paid)
      BY <3>1, SubmittedType DEF Submitted, Counted, Reversal
    <3>3. RememberTrade(c, "submit", o, trade)
      BY <2>2, <3>1 DEF Submit
    <3>4. authorized \subseteq authorized' /\ (Counted(trade) => o \in authorized')
      BY <2>2, <3>2 DEF Submit
    <3> QED
      BY <3>2, <3>3, <3>4, RememberAuthorized
  <2> QED
    BY <1>1, <1>3, <2>1, <2>2 DEF Customer
<1>4. CASE Gateway
  <2>1. ASSUME NEW c \in Call, MutateRemember(c)
        PROVE  GatewayAuthorized' /\ authorized \subseteq authorized'
    <3>1. call[c] \in CallState /\ call[c] # Idle
      BY <1>0, <2>1, CallPresent DEF MutateRemember
    <3>2. PICK o, trade : o = call[c].order /\ trade = call[c].trade
      OBVIOUS
    <3>3. /\ o \in Order /\ trade \in GatewayTrade
          /\ Counted(trade) => o \in authorized
      BY <3>1, <3>2 DEF CallState, GatewayAuthorized, CallsAuthorized
    <3>4. RememberTrade(c, "mutate", o, trade) /\ authorized' = authorized
      BY <2>1, <3>2 DEF MutateRemember
    <3> QED
      BY <3>3, <3>4, RememberAuthorized
  <2>2. ASSUME NEW c \in Call, SaveRow(c)
        PROVE  GatewayAuthorized' /\ authorized \subseteq authorized'
    BY <2>2, SaveRowAuthorized DEF SaveRow
  <2>3. ASSUME NEW c \in Call, NotifySent(c)
        PROVE  GatewayAuthorized' /\ authorized \subseteq authorized'
    BY <1>0, <2>3
       DEF NotifySent, GatewayAuthorized, TradesAuthorized, RowsAuthorized, CallsAuthorized,
           RetryAuthorized, CashierTypeOK
  <2>4. ASSUME NEW c \in Call, EnqueueNotify(c)
        PROVE  GatewayAuthorized' /\ authorized \subseteq authorized'
    BY <2>4, EnqueueAuthorized DEF EnqueueNotify
  <2>5. ASSUME NEW o \in Order, RetryFind(o)
        PROVE  GatewayAuthorized' /\ authorized \subseteq authorized'
    BY <2>5, RetryFindAuthorized DEF RetryFind
  <2>6. ASSUME NEW sent \in BOOLEAN, RetryUpdate(sent)
        PROVE  GatewayAuthorized' /\ authorized \subseteq authorized'
    BY <2>6, RetryUpdateAuthorized DEF RetryUpdate
  <2>7. ASSUME Restart PROVE GatewayAuthorized' /\ authorized \subseteq authorized'
    BY <2>7, RestartAuthorized DEF Restart
  <2> QED
    BY <1>1, <1>4, <2>1, <2>2, <2>3, <2>4, <2>5, <2>6, <2>7
       DEF Gateway, Notify, NotifyUnanswered, NotifyFails, Retry, RetryUnanswered, RetryFails
<1>5. CASE Merchant
  <2>1. ASSUME NEW c \in Call, NEW o \in Order,
               NEW next \in {"TRADE_CLOSED", "TRADE_REFUND", "TRADE_CHARGEBACK"},
               MutateTrade(c, o, next)
        PROVE  GatewayAuthorized' /\ authorized \subseteq authorized'
    BY <2>1, MutateAuthorized DEF MutateTrade
  <2>2. ASSUME NEW m \in Req, NEW c \in Call, QueryRelease(m, c)
        PROVE  GatewayAuthorized' /\ authorized \subseteq authorized'
    <3>1. PICK o : o = req[m].order
      OBVIOUS
    <3>2. o \in Order
      BY <2>2, <3>1, ReqPresent DEF QueryRelease, RechargeOK, ReqState
    <3>3. MutateTrade(c, o, "TRADE_CLOSED")
      BY <2>2, <3>1 DEF QueryRelease
    <3> QED
      BY <2>1, <3>2, <3>3
  <2>3. ASSUME NEW m \in Req, NEW o \in Order, NEW op \in {"refund", "chargeback"},
               NEW c \in Call, ReverseAccepted(m, o, op, c)
        PROVE  GatewayAuthorized' /\ authorized \subseteq authorized'
    BY <2>1, <2>3 DEF ReverseAccepted, GatewayStatus
  <2> QED
    BY <1>1, <1>5, <2>2, <2>3
       DEF Merchant, QueryStart, QueryAnswered, QueryUnanswered, QueryCompensate,
           QueryReread, QueryClose, ReverseUnanswered, ReverseCommit, Abandon
<1> QED
  BY <1>2, <1>3, <1>4, <1>5 DEF Next

(* An order becomes credited by a callback that reports a payment; every   *)
(* other transaction leaves it in the status it had, or uncredited, or     *)
(* reverses what was credited before.                                      *)
LEMMA HandleCredits ==
    ASSUME RechargeOK, NEW n \in Order, NEW paid \in BOOLEAN, NEW no, Handle(Notice(n, paid, no)),
           OrdersAuthorized, paid => n \in authorized
    PROVE  \A o \in Order : order'[o].status \in CreditedStatus => o \in authorized
<1>0. order \in [Order -> PayOrder \cup {NoOrder}]
  BY DEF RechargeOK, MerchantTypeOK, OrdersTypeOK
<1>1. PICK cb : cb = Notice(n, paid, no)
  OBVIOUS
<1>2. cb.order = n /\ cb.paid = paid
  BY <1>1 DEF Notice
<1>3. CASE Credit(cb)
  <2>1. n \in authorized
    BY <1>2, <1>3 DEF Credit
  <2>2. \A o \in Order : o # n => order'[o] = order[o]
    BY <1>0, <1>2, <1>3 DEF Credit
  <2> QED
    BY <2>1, <2>2 DEF OrdersAuthorized
<1>4. CASE MarkFailed(cb)
  <2>1. PICK r : r = [order[n] EXCEPT !.status = "failed"]
    OBVIOUS
  <2>2. order[n] \in PayOrder
    BY <1>0, <1>2, <1>4 DEF MarkFailed, NoOrder, OpenStatus
  <2>3. r.status = "failed"
    BY <2>1, <2>2 DEF PayOrder
  <2>4. order' = [order EXCEPT ![n] = r]
    BY <1>2, <1>4, <2>1 DEF MarkFailed
  <2> QED
    BY <1>0, <2>3, <2>4 DEF OrdersAuthorized, CreditedStatus
<1>5. CASE UNCHANGED merchantVars
  BY <1>5 DEF merchantVars, orderVars, OrdersAuthorized
<1> QED
  BY <1>1, <1>3, <1>4, <1>5 DEF Handle

(* The order of a credited status was in one before, or is authorized.     *)
LEMMA OrdersAuthorizedStep ==
    ASSUME RechargeOK, AllAuthorized, [Next]_vars
    PROVE  \A o \in Order : order'[o].status \in CreditedStatus => o \in authorized
<1>0. /\ order \in [Order -> PayOrder \cup {NoOrder}]
      /\ CashierTypeOK /\ MerchantTypeOK /\ OrdersAuthorized
  BY DEF RechargeOK, MerchantTypeOK, GatewayOK, OrdersTypeOK, AllAuthorized
<1> DEFINE Goal == \A o \in Order : order'[o].status \in CreditedStatus => o \in authorized
<1>1. ASSUME UNCHANGED order PROVE Goal
  BY <1>0, <1>1 DEF OrdersAuthorized
<1>2. ASSUME NEW n \in Order, \A o \in Order : o # n => order'[o] = order[o],
             order'[n].status \in CreditedStatus => n \in authorized
      PROVE  Goal
  BY <1>0, <1>2 DEF OrdersAuthorized
<1> HIDE DEF Goal
<1>3. ASSUME NEW a \in Account, NEW k \in Key, NEW p \in Package, NEW ch \in Channel,
             CreateRecharge(a, k, p, ch)
      PROVE  Goal
  <2>1. \E r : r.status = "paying" /\ \E n \in Order : order' = [order EXCEPT ![n] = r]
    <3>1. PICK r : r = [account |-> a, key |-> k, package |-> p, channel |-> ch,
                        status |-> "paying", trade |-> NoTrade, settle |-> "none",
                        settleAt |-> FALSE, paidAfterClose |-> FALSE]
      OBVIOUS
    <3>2. r.status = "paying" /\ \E n \in Order : order' = [order EXCEPT ![n] = r]
      BY <1>3, <3>1 DEF CreateRecharge
    <3> QED
      BY <3>2
  <2>2. PICK r : r.status = "paying" /\ \E n \in Order : order' = [order EXCEPT ![n] = r]
    BY <2>1
  <2>3. PICK n \in Order : order' = [order EXCEPT ![n] = r]
    BY <2>2
  <2> QED
    BY <1>0, <1>2, <2>2, <2>3 DEF CreditedStatus
<1>4. ASSUME NEW n \in Order, CloseIfExpired(n) PROVE Goal
  <2>1. order[n] \in PayOrder
    BY <1>0, <1>4, OrderPresent DEF CloseIfExpired, OpenStatus
  <2>2. PICK r : r = [order[n] EXCEPT !.status = "closed"]
    OBVIOUS
  <2>3. order' = [order EXCEPT ![n] = r] /\ r.status = "closed"
    BY <1>0, <1>4, <2>1, <2>2 DEF CloseIfExpired, PayOrder
  <2> QED
    BY <1>0, <1>2, <2>3 DEF CreditedStatus
<1>5. ASSUME NEW n \in Order, SettleOne(n) \/ Refund(n) \/ Chargeback(n) PROVE Goal
  <2>1. order[n].status = "paid" /\ \A o \in Order : o # n => order'[o] = order[o]
    BY <1>0, <1>5 DEF SettleOne, Refund, Chargeback, Reverse
  <2>2. n \in authorized
    BY <1>0, <2>1 DEF OrdersAuthorized, CreditedStatus
  <2> QED
    BY <1>2, <2>1, <2>2
<1>6. ASSUME NEW n \in Order, NEW paid \in BOOLEAN, NEW no, Handle(Notice(n, paid, no)),
             paid => n \in authorized
      PROVE  Goal
  BY <1>0, <1>6, HandleCredits DEF Goal
<1>7. CASE UNCHANGED vars
  BY <1>1, <1>7 DEF vars, merchantVars, orderVars, Goal
<1>8. CASE Customer
  BY <1>1, <1>3, <1>8 DEF Customer, merchantVars, orderVars, SendGift, Goal
<1>9. CASE Gateway
  <2>1. ASSUME NEW c \in Call, Handle(CallNotice(c)), call[c].pc = "notify" PROVE Goal
    <3>1. call[c] \in CallState /\ call[c] # Idle
      BY <1>0, <2>1, CallPresent
    <3>2. PICK n, paid : n = call[c].order /\ paid = Paid(call[c].trade)
      OBVIOUS
    <3>3. n \in Order /\ paid \in BOOLEAN /\ (paid => n \in authorized)
      BY <3>1, <3>2 DEF CallState, Paid, Counted, AllAuthorized, CallsAuthorized
    <3>4. PICK no : no = IF paid THEN PaidTrade[n] ELSE FailTrade[n]
      OBVIOUS
    <3>5. Handle(Notice(n, paid, no))
      BY <2>1, <3>2, <3>4 DEF CallNotice, NoticeOf
    <3> QED
      BY <1>6, <3>3, <3>5
  <2>2. ASSUME Handle(RetryNotice), retry # Idle PROVE Goal
    <3>1. retry \in RetryState
      BY <1>0, <2>2, RetryPresent
    <3>2. PICK n, paid : n = retry.order /\ paid = retry.paid
      OBVIOUS
    <3>3. n \in Order /\ paid \in BOOLEAN /\ (paid => n \in authorized)
      BY <2>2, <3>1, <3>2 DEF RetryState, AllAuthorized, RetryAuthorized
    <3>4. PICK no : no = IF paid THEN PaidTrade[n] ELSE FailTrade[n]
      OBVIOUS
    <3>5. Handle(Notice(n, paid, no))
      BY <2>2, <3>2, <3>4 DEF RetryNotice, NoticeOf
    <3> QED
      BY <1>6, <3>3, <3>5
  <2> QED
    BY <1>1, <1>9, <2>1, <2>2
       DEF Goal, Gateway, merchantVars, orderVars, Notify, NotifySent, NotifyUnanswered,
           NotifyFails, Retry, RetryUpdate, RetryUnanswered, RetryFails
<1>10. CASE Merchant
  <2>1. ASSUME NEW m \in Req, QueryCompensate(m) PROVE Goal
    <3>1. req[m] \in ReqState
      BY <2>1, ReqPresent DEF QueryCompensate, RechargeOK
    <3>2. PICK n, paid, no : /\ n = req[m].order /\ paid = Paid(req[m].trade)
                             /\ no = req[m].trade.no
      OBVIOUS
    <3>3. n \in Order /\ paid \in BOOLEAN /\ (paid => n \in authorized)
      BY <2>1, <3>1, <3>2
         DEF QueryCompensate, ReqState, Paid, AllAuthorized, QueriesAuthorized
    <3>4. Handle(Notice(n, paid, no)) \/ UNCHANGED merchantVars
      BY <2>1, <3>2 DEF QueryCompensate
    <3> QED
      BY <1>1, <1>6, <3>3, <3>4 DEF merchantVars, orderVars
  <2>2. ASSUME NEW m \in Req, QueryClose(m) PROVE Goal
    <3>1. PICK n : n = req[m].order
      OBVIOUS
    <3>2. n \in Order
      BY <2>2, <3>1, ReqPresent DEF QueryClose, RechargeOK, ReqState
    <3>3. CloseIfExpired(n) \/ UNCHANGED merchantVars
      BY <2>2, <3>1 DEF QueryClose
    <3> QED
      BY <1>1, <1>4, <3>2, <3>3 DEF merchantVars, orderVars
  <2>3. ASSUME NEW m \in Req, ReverseCommit(m) PROVE Goal
    <3>1. PICK n : n = req[m].order
      OBVIOUS
    <3>2. n \in Order
      BY <2>3, <3>1, ReqPresent DEF ReverseCommit, RechargeOK, ReqState
    <3>3. Refund(n) \/ Chargeback(n)
      BY <2>3, <3>1 DEF ReverseCommit
    <3> QED
      BY <1>5, <3>2, <3>3
  <2> QED
    BY <1>1, <1>5, <1>10, <2>1, <2>2, <2>3
       DEF Goal, Merchant, merchantVars, orderVars, Expire, QueryStart, QueryAnswered,
           QueryUnanswered, QueryReread, QueryRelease, ReverseAccepted, ReverseUnanswered,
           Abandon
<1> QED
  BY <1>7, <1>8, <1>9, <1>10 DEF Next, Goal

(* A query carries a captured trade only if tradeOf found one. *)
LEMMA QueriesAuthorizedStep ==
    ASSUME RechargeOK, AllAuthorized, [Next]_vars
    PROVE  \A m \in Req :
              req'[m].pc = "compensate" /\ Paid(req'[m].trade) => req'[m].order \in authorized
<1>0. /\ req \in [Req -> ReqState \cup {Idle}] /\ CashierTypeOK
      /\ QueriesAuthorized /\ TradesAuthorized /\ RowsAuthorized
  BY DEF RechargeOK, GatewayOK, AllAuthorized
<1> DEFINE Goal == \A m \in Req :
              req'[m].pc = "compensate" /\ Paid(req'[m].trade) => req'[m].order \in authorized
<1>1. ASSUME UNCHANGED req PROVE Goal
  BY <1>0, <1>1 DEF QueriesAuthorized
<1>2. ASSUME NEW m \in Req, NEW r, req' = [req EXCEPT ![m] = r],
             r.pc = "compensate" /\ Paid(r.trade) => r.order \in authorized
      PROVE  Goal
  BY <1>0, <1>2 DEF QueriesAuthorized
<1> HIDE DEF Goal
<1>3. ASSUME NEW m \in Req, NEW r, req' = [req EXCEPT ![m] = r], r.pc # "compensate"
      PROVE  Goal
  BY <1>2, <1>3
<1>4. ASSUME NEW m \in Req, Done(m) PROVE Goal
  <2>1. req' = [req EXCEPT ![m] = Idle] /\ Idle.pc # "compensate"
    BY <1>4 DEF Done, Idle
  <2> QED
    BY <1>3, <2>1
<1>5. ASSUME NEW m \in Req, NEW pc \in {"ask", "reverse"}, NEW o \in Order,
             NEW op \in {"query", "refund", "chargeback"}, Start(m, pc, o, op)
      PROVE  Goal
  <2>1. PICK r : r = [pc |-> pc, order |-> o, op |-> op, trade |-> Unknown]
    OBVIOUS
  <2>2. req' = [req EXCEPT ![m] = r] /\ r.pc # "compensate"
    BY <1>5, <2>1 DEF Start
  <2> QED
    BY <1>3, <2>2
<1>6. ASSUME NEW m \in Req, NEW pc \in {"reread", "close", "release"}, Goto(m, pc),
             req[m] \in ReqState
      PROVE  Goal
  <2>1. PICK r : r = [req[m] EXCEPT !.pc = pc]
    OBVIOUS
  <2>2. r.pc # "compensate"
    BY <1>6, <2>1 DEF ReqState
  <2>3. req' = [req EXCEPT ![m] = r]
    BY <1>0, <1>6, <2>1 DEF Goto
  <2> QED
    BY <1>3, <2>2, <2>3
<1>7. ASSUME NEW m \in Req, QueryAnswered(m) PROVE Goal
  <2>1. req[m] \in ReqState /\ req[m].order \in Order
    BY <1>7, ReqPresent DEF QueryAnswered, RechargeOK, ReqState
  <2>2. PICK o, trade : o = req[m].order /\ trade = TradeOf(o)
    OBVIOUS
  <2>3. Paid(trade) => o \in authorized
    BY <1>0, <2>1, <2>2, TradeOfAuthorized DEF Paid, Counted
  <2>4. PICK r : r = [req[m] EXCEPT !.pc = "compensate", !.trade = trade]
    OBVIOUS
  <2>5. r.order = o /\ r.trade = trade
    BY <2>1, <2>2, <2>4 DEF ReqState
  <2>6. req' = [req EXCEPT ![m] = r]
    BY <1>0, <1>7, <2>2, <2>4 DEF QueryAnswered
  <2> QED
    BY <1>2, <2>3, <2>5, <2>6
<1>8. CASE Merchant
  <2>1. ASSUME NEW m \in Req, req[m].pc # "idle" PROVE req[m] \in ReqState
    BY <2>1, ReqPresent DEF RechargeOK
  <2>2. ASSUME NEW m \in Req, QueryUnanswered(m) \/ QueryCompensate(m) \/ QueryReread(m)
                                \/ QueryClose(m)
        PROVE  Goal
    BY <1>4, <1>6, <2>1, <2>2
       DEF QueryUnanswered, QueryCompensate, QueryReread, QueryClose
  <2>3. ASSUME NEW m \in Req, NEW o \in Order,
               \/ QueryStart(m, o)
               \/ \E op \in {"refund", "chargeback"} : ReverseUnanswered(m, o, op)
               \/ \E op \in {"refund", "chargeback"}, c \in Call : ReverseAccepted(m, o, op, c)
        PROVE  Goal
    BY <1>5, <2>3 DEF QueryStart, ReverseUnanswered, ReverseAccepted
  <2>4. ASSUME NEW m \in Req,
               (\E c \in Call : QueryRelease(m, c)) \/ ReverseCommit(m) \/ Abandon(m)
        PROVE  Goal
    BY <1>4, <2>4 DEF QueryRelease, ReverseCommit, Abandon
  <2> QED
    BY <1>1, <1>7, <1>8, <2>2, <2>3, <2>4 DEF Merchant, Goal
<1> QED
  BY <1>1, <1>8
     DEF Next, vars, Customer, Gateway, Notify, NotifyUnanswered, NotifyFails, Retry,
         RetryUnanswered, RetryFails, Goal

LEMMA AuthorizedInit == Init => AllAuthorized
  BY DEF Init, OrdersInit, CashierInit, AllAuthorized, OrdersAuthorized, TradesAuthorized,
         RowsAuthorized, CallsAuthorized, RetryAuthorized, QueriesAuthorized, Counted,
         CreditedStatus, Reversal, NoOrder, Unknown, Idle

LEMMA AuthorizedStep == RechargeOK /\ AllAuthorized /\ [Next]_vars => AllAuthorized'
<1> SUFFICES ASSUME RechargeOK, AllAuthorized, [Next]_vars PROVE AllAuthorized'
  OBVIOUS
<1>1. GatewayAuthorized' /\ authorized \subseteq authorized'
  BY GatewayAuthorizedStep DEF AllAuthorized, GatewayAuthorized
<1>2. OrdersAuthorized'
  BY <1>1, OrdersAuthorizedStep DEF OrdersAuthorized
<1>3. QueriesAuthorized'
  BY <1>1, QueriesAuthorizedStep DEF QueriesAuthorized
<1> QED
  BY <1>1, <1>2, <1>3 DEF AllAuthorized, GatewayAuthorized

LEMMA AuthorizedHolds == Spec => []AllAuthorized
  BY AuthorizedInit, AuthorizedStep, RechargeHolds, PTL DEF Spec

(***************************************************************************)
(* An order grants coins, and the gateway counts a trade as captured,      *)
(* refunded or charged back, only after a customer's payment was           *)
(* authorized, whatever stale trade a handler, a retry or a query still    *)
(* carries (cashier.go remember, mutateTrade; service.go credit).          *)
(***************************************************************************)
THEOREM MoneyIsAuthorized == Spec => []NothingUnauthorized
<1>1. AllAuthorized => NothingUnauthorized
  BY TradeOfAuthorized
     DEF AllAuthorized, NothingUnauthorized, OrdersAuthorized, TradesAuthorized,
         CreditedStatus, Counted
<1> QED
  BY <1>1, AuthorizedHolds, PTL

-----------------------------------------------------------------------------
(* The money held for an order is released last *)

ShutStatus == {"paid", "closed", "failed", "refunded", "chargeback"}
Shut(o) == order[o].status \in ShutStatus

(* A released trade of order o is somewhere, or its release is under way.  *)
Releasing(o) ==
    \/ trades[o] = Released
    \/ row[o] # NoRow /\ row[o].trade = Released
    \/ \E c \in Call : call[c] # Idle /\ call[c].order = o /\ call[c].trade = Released
    \/ \E m \in Req : req[m].pc = "release" /\ req[m].order = o

ReleasedWhenShut == \A o \in Order : Releasing(o) => Shut(o)

LEMMA ReleasedIs == Released = [status |-> "TRADE_CLOSED", no |-> NoTrade]
  BY DEF Released, Waiting

(* No customer's request brings a released trade, nor does a reversal.     *)
LEMMA NotReleased ==
    /\ Waiting # Released /\ Unknown # Released
    /\ \A o \in Order, paid \in BOOLEAN : Submitted(o, paid) # Released
    /\ \A trade : trade.status \in Reversal => trade # Released
<1>1. Waiting # Released /\ Unknown # Released
  BY ReleasedIs DEF Waiting, Unknown
<1>2. ASSUME NEW o \in Order, NEW paid \in BOOLEAN PROVE Submitted(o, paid) # Released
  BY ReleasedIs, CashierAssumption, PackageAssumption DEF Submitted
<1>3. ASSUME NEW trade, trade.status \in Reversal PROVE trade # Released
  <2>1. Released.status = "TRADE_CLOSED"
    BY ReleasedIs
  <2> QED
    BY <1>3, <2>1 DEF Reversal
<1> QED
  BY <1>1, <1>2, <1>3

(* An order that was created stays as it is, or is shut from now on. *)
LEMMA OrderMoves ==
    ASSUME RechargeOK, [Next]_vars, NEW o \in Order, order[o] # NoOrder
    PROVE  order'[o] = order[o] \/ Shut(o)'
<1>0. order \in [Order -> PayOrder \cup {NoOrder}] /\ order[o] \in PayOrder
  BY DEF RechargeOK, MerchantTypeOK, OrdersTypeOK
<1>1. Transaction \/ UNCHANGED merchantVars
  BY StepIsTransaction
<1>2. CASE UNCHANGED order
  BY <1>2
<1>3. ASSUME NEW a \in Account, NEW k \in Key, NEW p \in Package, NEW ch \in Channel,
             CreateRecharge(a, k, p, ch)
      PROVE  order'[o] = order[o]
  <2>1. PICK n \in Order : order[n] = NoOrder /\ \E r : order' = [order EXCEPT ![n] = r]
    BY <1>3 DEF CreateRecharge
  <2>2. n # o
    BY <2>1
  <2> QED
    BY <1>0, <2>1, <2>2
<1>4. ASSUME NEW n \in Order, NEW r, order' = [order EXCEPT ![n] = r], r.status \in ShutStatus
      PROVE  order'[o] = order[o] \/ Shut(o)'
  BY <1>0, <1>4 DEF Shut
<1>p. ASSUME NEW n \in Order, order[n].status # "absent" PROVE order[n] \in PayOrder
  BY <1>p, OrderPresent DEF RechargeOK
<1>5. ASSUME NEW n \in Order, CloseIfExpired(n) PROVE order'[o] = order[o] \/ Shut(o)'
  <2>1. PICK r : r = [order[n] EXCEPT !.status = "closed"]
    OBVIOUS
  <2>2. r.status \in ShutStatus
    BY <1>5, <1>p, <2>1 DEF CloseIfExpired, OpenStatus, PayOrder, ShutStatus
  <2>3. order' = [order EXCEPT ![n] = r]
    BY <1>0, <1>5, <2>1 DEF CloseIfExpired
  <2> QED
    BY <1>4, <2>2, <2>3
<1>6. ASSUME NEW cb \in Callback, MarkFailed(cb) PROVE order'[o] = order[o] \/ Shut(o)'
  <2>0. PICK n \in Order : n = cb.order
    BY DEF Callback
  <2>1. PICK r : r = [order[n] EXCEPT !.status = "failed"]
    OBVIOUS
  <2>2. r.status \in ShutStatus
    BY <1>6, <1>p, <2>0, <2>1 DEF MarkFailed, OpenStatus, PayOrder, ShutStatus
  <2>3. order' = [order EXCEPT ![n] = r]
    BY <1>0, <1>6, <2>0, <2>1 DEF MarkFailed
  <2> QED
    BY <1>4, <2>2, <2>3
<1>7. ASSUME NEW cb \in Callback, Credit(cb) PROVE order'[o] = order[o] \/ Shut(o)'
  <2>0. PICK n \in Order : n = cb.order
    BY DEF Callback
  <2>1. PICK r : r = [order[n] EXCEPT !.status = "paid", !.trade = cb.trade,
                          !.settle = "pending",
                          !.paidAfterClose = (order[n].status = "closed")]
    OBVIOUS
  <2>2. r.status \in ShutStatus
    BY <1>7, <1>p, <2>0, <2>1 DEF Credit, OpenStatus, PayOrder, ShutStatus
  <2>3. order' = [order EXCEPT ![n] = r]
    BY <1>0, <1>7, <2>0, <2>1 DEF Credit
  <2> QED
    BY <1>4, <2>2, <2>3
<1>8. ASSUME NEW n \in Order, SettleOne(n) PROVE order'[o] = order[o] \/ Shut(o)'
  <2>1. PICK r : r = [order[n] EXCEPT !.settle = "settled", !.settleAt = TRUE]
    OBVIOUS
  <2>2. r.status \in ShutStatus
    BY <1>8, <1>p, <2>1 DEF SettleOne, PayOrder, ShutStatus
  <2>3. order' = [order EXCEPT ![n] = r]
    BY <1>8, <2>1 DEF SettleOne
  <2> QED
    BY <1>4, <2>2, <2>3
<1>9. ASSUME NEW n \in Order, NEW biz, NEW next \in ShutStatus, Reverse(n, biz, next)
      PROVE  order'[o] = order[o] \/ Shut(o)'
  <2>1. PICK r : r = [order[n] EXCEPT !.status = next, !.settle = next]
    OBVIOUS
  <2>2. r.status \in ShutStatus
    BY <1>9, <1>p, <2>1 DEF Reverse, PayOrder
  <2>3. order' = [order EXCEPT ![n] = r]
    BY <1>9, <2>1 DEF Reverse
  <2> QED
    BY <1>4, <2>2, <2>3
<1> QED
  BY <1>1, <1>2, <1>3, <1>5, <1>6, <1>7, <1>8, <1>9
     DEF Transaction, merchantVars, orderVars, Expire, Refund, Chargeback, ShutStatus, SendGift

(* An order that is shut never opens again. *)
LEMMA ShutStays ==
    ASSUME RechargeOK, [Next]_vars, NEW o \in Order, Shut(o)
    PROVE  Shut(o)'
<1>1. order[o] # NoOrder
  BY DEF Shut, ShutStatus, NoOrder
<1> QED
  BY <1>1, OrderMoves DEF Shut

(* A query is about an order that was created. *)
QueryStage == {"ask", "compensate", "reread", "close"}
QueriesKnowOrders == \A m \in Req : req[m].pc \in QueryStage => order[req[m].order] # NoOrder

LEMMA QueriesKnowOrdersStep ==
    ASSUME RechargeOK, QueriesKnowOrders, [Next]_vars
    PROVE  QueriesKnowOrders'
<1>0. req \in [Req -> ReqState \cup {Idle}]
  BY DEF RechargeOK, GatewayOK
<1>1. ASSUME NEW o \in Order, order[o] # NoOrder PROVE order'[o] # NoOrder
  BY <1>1, OrderMoves DEF Shut, ShutStatus, NoOrder
<1>2. ASSUME NEW m \in Req, req[m].pc \in QueryStage PROVE req[m] \in ReqState /\ req[m].order \in Order
  BY <1>0, <1>2 DEF QueryStage, Idle, ReqState
<1>3. ASSUME UNCHANGED req PROVE QueriesKnowOrders'
  BY <1>1, <1>2, <1>3 DEF QueriesKnowOrders
<1>4. ASSUME NEW m \in Req, NEW r, req' = [req EXCEPT ![m] = r],
             r.pc \in QueryStage => r.order \in Order /\ order[r.order] # NoOrder
      PROVE  QueriesKnowOrders'
  BY <1>0, <1>1, <1>2, <1>4 DEF QueriesKnowOrders
<1>5. ASSUME NEW m \in Req, Done(m) PROVE QueriesKnowOrders'
  <2>1. req' = [req EXCEPT ![m] = Idle] /\ Idle.pc \notin QueryStage
    BY <1>5 DEF Done, Idle, QueryStage
  <2> QED
    BY <1>4, <2>1
<1>6. ASSUME NEW m \in Req, NEW pc \in QueryStage \cup {"release"}, Goto(m, pc),
             req[m].pc \in QueryStage
      PROVE  QueriesKnowOrders'
  <2>1. PICK r : r = [req[m] EXCEPT !.pc = pc]
    OBVIOUS
  <2>2. r.order = req[m].order
    BY <1>2, <1>6, <2>1 DEF ReqState
  <2>3. req' = [req EXCEPT ![m] = r]
    BY <1>0, <1>6, <2>1 DEF Goto
  <2> QED
    BY <1>2, <1>4, <1>6, <2>2, <2>3 DEF QueriesKnowOrders
<1>7. ASSUME NEW m \in Req, NEW o \in Order, QueryStart(m, o) PROVE QueriesKnowOrders'
  <2>1. order[o] # NoOrder
    BY <1>7 DEF QueryStart, OpenStatus, NoOrder
  <2>2. PICK r : r = [pc |-> "ask", order |-> o, op |-> "query", trade |-> Unknown]
    OBVIOUS
  <2>3. r.order = o /\ req' = [req EXCEPT ![m] = r]
    BY <1>7, <2>2 DEF QueryStart, Start
  <2> QED
    BY <1>4, <2>1, <2>3
<1>8. ASSUME NEW m \in Req, NEW o \in Order, NEW op, Start(m, "reverse", o, op)
      PROVE  QueriesKnowOrders'
  <2>1. PICK r : r = [pc |-> "reverse", order |-> o, op |-> op, trade |-> Unknown]
    OBVIOUS
  <2>2. r.pc \notin QueryStage /\ req' = [req EXCEPT ![m] = r]
    BY <1>8, <2>1 DEF Start, QueryStage
  <2> QED
    BY <1>4, <2>2
<1>9. ASSUME NEW m \in Req, QueryAnswered(m) PROVE QueriesKnowOrders'
  <2>1. PICK r : r = [req[m] EXCEPT !.pc = "compensate", !.trade = TradeOf(req[m].order)]
    OBVIOUS
  <2>2. req[m].pc \in QueryStage
    BY <1>9 DEF QueryAnswered, QueryStage
  <2>3. r.order = req[m].order
    BY <1>2, <2>1, <2>2 DEF ReqState
  <2>4. req' = [req EXCEPT ![m] = r]
    BY <1>0, <1>9, <2>1 DEF QueryAnswered
  <2> QED
    BY <1>2, <1>4, <2>2, <2>3, <2>4 DEF QueriesKnowOrders
<1>10. ASSUME NEW m \in Req,
              QueryUnanswered(m) \/ QueryCompensate(m) \/ QueryReread(m) \/ QueryClose(m)
       PROVE  QueriesKnowOrders'
  BY <1>5, <1>6, <1>10
     DEF QueryUnanswered, QueryCompensate, QueryReread, QueryClose, QueryStage
<1> QED
  BY <1>3, <1>5, <1>7, <1>8, <1>9, <1>10
     DEF Next, vars, Customer, Gateway, Merchant, Notify, NotifyUnanswered, NotifyFails, Retry,
         RetryUnanswered, RetryFails, QueryRelease, ReverseAccepted, ReverseUnanswered,
         ReverseCommit, Abandon

(* remember spreads the trade it is given, and no other. *)
LEMMA RememberReleases ==
    ASSUME RechargeOK, NEW c \in Call, NEW op, NEW o \in Order, NEW trade,
           RememberTrade(c, op, o, trade), trade = Released => Releasing(o), UNCHANGED req
    PROVE  \A n \in Order : Releasing(n)' => Releasing(n)
<1>0. /\ trades \in [Order -> GatewayTrade \cup {Unknown}]
      /\ call \in [Call -> CallState \cup {Idle}]
  BY DEF RechargeOK, GatewayOK, CashierTypeOK
<1> SUFFICES ASSUME NEW n \in Order, Releasing(n)' PROVE Releasing(n)
  OBVIOUS
<1>1. PICK x : /\ call' = [call EXCEPT ![c] = x]
               /\ x = Idle \/ (x.order = o /\ x.trade = trade)
  BY DEF RememberTrade, AfterRemember
<1>2. CASE trades'[n] = Released
  BY <1>0, <1>2 DEF RememberTrade, Releasing
<1>3. CASE row'[n] # NoRow /\ row'[n].trade = Released
  BY <1>3 DEF RememberTrade, Releasing
<1>4. ASSUME NEW d \in Call, call'[d] # Idle, call'[d].order = n, call'[d].trade = Released
      PROVE  Releasing(n)
  BY <1>0, <1>1, <1>4 DEF Releasing
<1>5. CASE \E m \in Req : req'[m].pc = "release" /\ req'[m].order = n
  BY <1>5 DEF Releasing
<1> QED
  BY <1>2, <1>3, <1>4, <1>5 DEF Releasing

(* Nor does a step of the gateway on its rows and calls bring one. *)
LEMMA SaveRowReleases ==
    ASSUME RechargeOK, NEW c \in Call, SaveRow(c), UNCHANGED req
    PROVE  \A n \in Order : Releasing(n)' => Releasing(n)
<1>0. /\ row \in [Order -> Row \cup {NoRow}]
      /\ call \in [Call -> CallState \cup {Idle}]
      /\ call[c] \in CallState /\ call[c] # Idle
  BY CallPresent DEF RechargeOK, GatewayOK, SaveRow, CashierTypeOK
<1> SUFFICES ASSUME NEW n \in Order, Releasing(n)' PROVE Releasing(n)
  OBVIOUS
<1>1. PICK o, trade : o = call[c].order /\ trade = call[c].trade
  OBVIOUS
<1>2. o \in Order /\ (trade = Released => Releasing(o))
  BY <1>0, <1>1 DEF CallState, Releasing
<1>x. PICK x : x = IF call[c].op = "submit"
                   THEN [pc |-> "notify", op |-> call[c].op, order |-> o, trade |-> trade]
                   ELSE Idle
  OBVIOUS
<1>3. /\ call' = [call EXCEPT ![c] = x]
      /\ x = Idle \/ (x.order = o /\ x.trade = trade)
  BY <1>1, <1>x DEF SaveRow, AfterRemember
<1>r. PICK r : r = [trade |-> trade, notify |-> "none", paid |-> FALSE, attempts |-> 0]
  OBVIOUS
<1>4. row' = [row EXCEPT ![o] = r] /\ r.trade = trade
  BY <1>1, <1>r DEF SaveRow
<1>5. CASE trades'[n] = Released
  BY <1>5 DEF SaveRow, Releasing
<1>6. CASE row'[n] # NoRow /\ row'[n].trade = Released
  BY <1>0, <1>2, <1>4, <1>6 DEF Releasing
<1>7. ASSUME NEW d \in Call, call'[d] # Idle, call'[d].order = n, call'[d].trade = Released
      PROVE  Releasing(n)
  BY <1>0, <1>2, <1>3, <1>7 DEF Releasing
<1>8. CASE \E m \in Req : req'[m].pc = "release" /\ req'[m].order = n
  BY <1>8 DEF Releasing
<1> QED
  BY <1>5, <1>6, <1>7, <1>8 DEF Releasing

(* A row keeps its trade, a call its own or nothing. *)
LEMMA OthersRelease ==
    ASSUME RechargeOK, UNCHANGED <<trades, req>>,
           \A o \in Order : \/ row'[o] = row[o]
                            \/ row[o] # NoRow /\ row'[o].trade = row[o].trade,
           \A c \in Call : call'[c] \in {call[c], Idle}
    PROVE  \A n \in Order : Releasing(n)' => Releasing(n)
  BY DEF Releasing

(***************************************************************************)
(* A released trade spreads from where one is, and a release begins only   *)
(* with an order that closeIfExpired has shut, or found shut.              *)
(***************************************************************************)
LEMMA StepReleases ==
    ASSUME RechargeOK, QueriesKnowOrders, [Next]_vars
    PROVE  \A n \in Order : Releasing(n)' => Releasing(n) \/ Shut(n)'
<1>0. CashierTypeOK /\ GatewayOK /\ req \in [Req -> ReqState \cup {Idle}]
  BY DEF RechargeOK, GatewayOK
<1> DEFINE Goal == \A n \in Order : Releasing(n)' => Releasing(n) \/ Shut(n)'
<1>1. ASSUME UNCHANGED cashierVars, UNCHANGED req PROVE Goal
  BY <1>1, OthersRelease DEF cashierVars
<1>2. ASSUME NEW m \in Req, NEW r, req' = [req EXCEPT ![m] = r], UNCHANGED cashierVars,
             r.pc = "release" => r.order \in Order /\ Shut(r.order)'
      PROVE  Goal
  BY <1>0, <1>2 DEF cashierVars, Releasing
<1> HIDE DEF Goal
<1>3. ASSUME NEW m \in Req, NEW pc \in {"reread", "close"}, Goto(m, pc) \/ Done(m),
             req[m] \in ReqState, UNCHANGED cashierVars
      PROVE  Goal
  <2>1. CASE Done(m)
    <3>1. req' = [req EXCEPT ![m] = Idle] /\ Idle.pc # "release"
      BY <2>1 DEF Done, Idle
    <3> QED
      BY <1>2, <1>3, <3>1
  <2>2. CASE Goto(m, pc)
    <3>1. PICK r : r = [req[m] EXCEPT !.pc = pc]
      OBVIOUS
    <3>2. r.pc # "release"
      BY <1>3, <3>1 DEF ReqState
    <3>3. req' = [req EXCEPT ![m] = r]
      BY <1>0, <2>2, <3>1 DEF Goto
    <3> QED
      BY <1>2, <1>3, <3>2, <3>3
  <2> QED
    BY <1>3, <2>1, <2>2
<1>4. ASSUME NEW m \in Req, NEW pc \in {"ask", "reverse"}, NEW o \in Order, NEW op,
             Start(m, pc, o, op)
      PROVE  \E r : r.pc # "release" /\ req' = [req EXCEPT ![m] = r]
  <2>1. PICK r : r = [pc |-> pc, order |-> o, op |-> op, trade |-> Unknown]
    OBVIOUS
  <2>2. r.pc # "release" /\ req' = [req EXCEPT ![m] = r]
    BY <1>4, <2>1 DEF Start
  <2> QED
    BY <2>2
<1>5. ASSUME UNCHANGED vars PROVE Goal
  BY <1>1, <1>5 DEF vars, cashierVars, Goal
<1>6. ASSUME Customer PROVE Goal
  <2>1. ASSUME NEW c \in Call, NEW o \in Order, Show(c, o), UNCHANGED req PROVE Goal
    BY <2>1, RememberReleases, NotReleased DEF Show, Goal
  <2>2. ASSUME NEW c \in Call, NEW o \in Order, NEW paid \in Outcome, Submit(c, o, paid),
               UNCHANGED req
        PROVE  Goal
    <3>1. Submitted(o, paid) # Released
      BY ReleasedIs, CashierAssumption, PackageAssumption DEF Submitted
    <3> QED
      BY <2>2, <3>1, RememberReleases DEF Submit, Goal
  <2> QED
    BY <1>1, <1>6, <2>1, <2>2 DEF Customer, cashierVars
<1>7. ASSUME Gateway PROVE Goal
  <2>1. ASSUME NEW c \in Call, MutateRemember(c), UNCHANGED req PROVE Goal
    <3>1. call[c] \in CallState /\ call[c] # Idle
      BY <1>0, <2>1, CallPresent DEF MutateRemember
    <3>2. PICK o, trade : o = call[c].order /\ trade = call[c].trade
      OBVIOUS
    <3>3. o \in Order /\ (trade = Released => Releasing(o))
      BY <3>1, <3>2 DEF CallState, Releasing
    <3> QED
      BY <2>1, <3>2, <3>3, RememberReleases DEF MutateRemember, Goal
  <2>2. ASSUME NEW c \in Call, SaveRow(c), UNCHANGED req PROVE Goal
    BY <2>2, SaveRowReleases DEF Goal
  <2>3. ASSUME NEW c \in Call, NotifySent(c), UNCHANGED req PROVE Goal
    BY <1>0, <2>3, OthersRelease DEF NotifySent, CashierTypeOK, Goal
  <2>4. ASSUME NEW c \in Call, EnqueueNotify(c), UNCHANGED req PROVE Goal
    <3>1. call[c] \in CallState /\ call[c] # Idle
      BY <1>0, <2>4, CallPresent DEF EnqueueNotify
    <3>2. PICK o : o = call[c].order
      OBVIOUS
    <3>3. \A d \in Call : call'[d] \in {call[d], Idle}
      BY <1>0, <2>4 DEF EnqueueNotify, CashierTypeOK
    <3>4. CASE row[o] = NoRow
      BY <2>4, <3>2, <3>3, <3>4, OthersRelease DEF EnqueueNotify, Goal
    <3>5. CASE row[o] # NoRow
      <4>1. o \in Order /\ row[o] \in Row
        BY <1>0, <3>1, <3>2, <3>5 DEF CallState, CashierTypeOK
      <4>2. PICK r : r = [row[o] EXCEPT !.notify = "pending", !.paid = Paid(call[c].trade)]
        OBVIOUS
      <4>3. r.trade = row[o].trade
        BY <4>1, <4>2 DEF Row
      <4>4. row' = [row EXCEPT ![o] = r]
        BY <1>0, <2>4, <3>2, <3>5, <4>1, <4>2 DEF EnqueueNotify, CashierTypeOK
      <4>5. \A n \in Order : \/ row'[n] = row[n]
                             \/ row[n] # NoRow /\ row'[n].trade = row[n].trade
        BY <1>0, <3>5, <4>1, <4>3, <4>4 DEF CashierTypeOK
      <4> QED
        BY <2>4, <3>3, <4>5, OthersRelease DEF EnqueueNotify, Goal
    <3> QED
      BY <3>4, <3>5
  <2>5. ASSUME NEW o \in Order, RetryFind(o), UNCHANGED req PROVE Goal
    BY <2>5, OthersRelease DEF RetryFind, Goal
  <2>6. ASSUME NEW sent \in BOOLEAN, RetryUpdate(sent), UNCHANGED req PROVE Goal
    <3>1. retry \in RetryState /\ row[retry.order] # NoRow
      BY <1>0, <2>6, RetryPresent DEF GatewayOK, RetryUpdate
    <3>2. PICK o : o = retry.order
      OBVIOUS
    <3>3. o \in Order /\ row[o] \in Row /\ row[o] # NoRow
      BY <1>0, <3>1, <3>2 DEF RetryState, CashierTypeOK
    <3>4. PICK r : r = [row[o] EXCEPT !.attempts = retry.attempts + 1,
                           !.notify = IF sent THEN "sent" ELSE row[retry.order].notify]
      OBVIOUS
    <3>5. r.trade = row[o].trade
      BY <3>3, <3>4 DEF Row
    <3>6. row' = [row EXCEPT ![o] = r]
      BY <1>0, <2>6, <3>2, <3>3, <3>4 DEF RetryUpdate, CashierTypeOK
    <3>7. \A n \in Order : \/ row'[n] = row[n]
                           \/ row[n] # NoRow /\ row'[n].trade = row[n].trade
      BY <1>0, <3>3, <3>5, <3>6 DEF CashierTypeOK
    <3> QED
      BY <2>6, <3>7, OthersRelease DEF RetryUpdate, Goal
  <2>7. ASSUME Restart, UNCHANGED req PROVE Goal
    BY <2>7, NotReleased DEF Restart, Releasing, Goal
  <2> QED
    BY <1>1, <1>7, <2>1, <2>2, <2>3, <2>4, <2>5, <2>6, <2>7
       DEF Gateway, Notify, NotifyUnanswered, NotifyFails, Retry, RetryUnanswered, RetryFails
<1>8. ASSUME Merchant PROVE Goal
  <2>0. ASSUME NEW m \in Req, req[m].pc # "idle" PROVE req[m] \in ReqState
    BY <1>0, <2>0, ReqPresent
  <2>1. ASSUME NEW m \in Req, NEW o \in Order, QueryStart(m, o) PROVE Goal
    BY <1>2, <1>4, <2>1 DEF QueryStart
  <2>2. ASSUME NEW m \in Req, QueryAnswered(m) PROVE Goal
    <3>1. PICK r : r = [req[m] EXCEPT !.pc = "compensate", !.trade = TradeOf(req[m].order)]
      OBVIOUS
    <3>2. r.pc # "release"
      BY <2>0, <2>2, <3>1 DEF QueryAnswered, ReqState
    <3>3. req' = [req EXCEPT ![m] = r] /\ UNCHANGED cashierVars
      BY <1>0, <2>2, <3>1 DEF QueryAnswered
    <3> QED
      BY <1>2, <3>2, <3>3
  <2>3. ASSUME NEW m \in Req, QueryUnanswered(m) \/ QueryCompensate(m) \/ QueryReread(m)
        PROVE  Goal
    BY <1>3, <2>0, <2>3 DEF QueryUnanswered, QueryCompensate, QueryReread
  <2>4. ASSUME NEW m \in Req, QueryClose(m) PROVE Goal
    <3>1. PICK o : o = req[m].order
      OBVIOUS
    <3>2. req[m] \in ReqState /\ o \in Order
      BY <2>0, <2>4, <3>1 DEF QueryClose, ReqState
    <3>3. PICK r : r = [req[m] EXCEPT !.pc = "release"]
      OBVIOUS
    <3>4. r.order = o
      BY <3>1, <3>2, <3>3 DEF ReqState
    <3>5. req' = [req EXCEPT ![m] = r] /\ UNCHANGED cashierVars
      BY <1>0, <2>4, <3>3 DEF QueryClose, Goto
    <3>6. Shut(o)'
      <4>0. order \in [Order -> PayOrder \cup {NoOrder}]
        BY DEF RechargeOK, MerchantTypeOK, OrdersTypeOK
      <4>1. CASE CloseIfExpired(o)
        <5>1. order[o] \in PayOrder
          BY <3>2, <4>1, OrderPresent DEF RechargeOK, CloseIfExpired, OpenStatus
        <5>2. PICK x : x = [order[o] EXCEPT !.status = "closed"]
          OBVIOUS
        <5>3. x.status = "closed" /\ order' = [order EXCEPT ![o] = x]
          BY <4>0, <4>1, <5>1, <5>2, <3>2 DEF CloseIfExpired, PayOrder
        <5> QED
          BY <3>2, <4>0, <5>3 DEF Shut, ShutStatus
      <4>2. CASE order[o].status \notin OpenStatus /\ UNCHANGED merchantVars
        <5>1. order[o] # NoOrder
          BY <2>4, <3>1 DEF QueryClose, QueriesKnowOrders, QueryStage
        <5>2. order[o].status \in ShutStatus
          BY <3>2, <4>0, <4>2, <5>1 DEF PayOrder, Status, ShutStatus
        <5> QED
          BY <4>2, <5>2 DEF Shut, merchantVars, orderVars
      <4> QED
        BY <2>4, <3>1, <4>1, <4>2 DEF QueryClose
    <3> QED
      BY <1>2, <3>2, <3>4, <3>5, <3>6
  <2>5. ASSUME NEW m \in Req, NEW c \in Call, NEW o \in Order, NEW next \in TradeStatus,
               MutateTrade(c, o, next), req'[m].pc # "release",
               \A d \in Req : d # m => req'[d] = req[d],
               next \in Reversal \/ Releasing(o)
        PROVE  Goal
    <3>1. PICK trade : trade = [TradeOf(o) EXCEPT !.status = next]
      OBVIOUS
    <3>2. trade.status = next
      BY <1>0, <2>5, <3>1, TradeOfType DEF MutateTrade, MutateAnswer, GatewayTrade
    <3>3. trade = Released => Releasing(o)
      BY <2>5, <3>2, NotReleased
    <3>4. PICK x : x = [pc |-> "remember", op |-> "mutate", order |-> o, trade |-> trade]
      OBVIOUS
    <3>5. call' = [call EXCEPT ![c] = x] /\ x.order = o /\ x.trade = trade
      BY <2>5, <3>1, <3>4 DEF MutateTrade
    <3> SUFFICES ASSUME NEW n \in Order, Releasing(n)' PROVE Releasing(n)
      BY DEF Goal
    <3>6. CASE trades'[n] = Released \/ (row'[n] # NoRow /\ row'[n].trade = Released)
      BY <2>5, <3>6 DEF MutateTrade, Releasing
    <3>7. ASSUME NEW d \in Call, call'[d] # Idle, call'[d].order = n, call'[d].trade = Released
          PROVE  Releasing(n)
      BY <1>0, <3>3, <3>5, <3>7 DEF CashierTypeOK, Releasing
    <3>8. CASE \E d \in Req : req'[d].pc = "release" /\ req'[d].order = n
      BY <2>5, <3>8 DEF Releasing
    <3> QED
      BY <3>6, <3>7, <3>8 DEF Releasing
  <2>6. ASSUME NEW m \in Req, NEW c \in Call, QueryRelease(m, c) PROVE Goal
    <3>1. PICK o : o = req[m].order
      OBVIOUS
    <3>2. o \in Order /\ Releasing(o)
      BY <2>0, <2>6, <3>1 DEF QueryRelease, ReqState, Releasing
    <3>3. MutateTrade(c, o, "TRADE_CLOSED") /\ Done(m)
      BY <2>6, <3>1 DEF QueryRelease
    <3>4. req'[m].pc # "release" /\ \A d \in Req : d # m => req'[d] = req[d]
      BY <1>0, <3>3 DEF Done, Idle
    <3> QED
      BY <2>5, <3>2, <3>3, <3>4 DEF TradeStatus
  <2>7. ASSUME NEW m \in Req, NEW o \in Order, NEW op \in {"refund", "chargeback"},
               NEW c \in Call, ReverseAccepted(m, o, op, c)
        PROVE  Goal
    <3>1. PICK next : next = GatewayStatus(op)
      OBVIOUS
    <3>2. next \in Reversal /\ next \in TradeStatus
      BY <3>1 DEF GatewayStatus, Reversal, TradeStatus
    <3>3. MutateTrade(c, o, next) /\ Start(m, "reverse", o, op)
      BY <2>7, <3>1 DEF ReverseAccepted
    <3>4. req'[m].pc # "release" /\ \A d \in Req : d # m => req'[d] = req[d]
      <4>1. PICK r : r.pc # "release" /\ req' = [req EXCEPT ![m] = r]
        BY <1>4, <3>3
      <4> QED
        BY <1>0, <4>1
    <3> QED
      BY <2>5, <3>2, <3>3, <3>4
  <2>8. ASSUME NEW m \in Req, NEW o \in Order, NEW op \in {"refund", "chargeback"},
               ReverseUnanswered(m, o, op)
        PROVE  Goal
    BY <1>2, <1>4, <2>8 DEF ReverseUnanswered
  <2>9. ASSUME NEW m \in Req, ReverseCommit(m) \/ Abandon(m) PROVE Goal
    <3>1. Done(m) /\ UNCHANGED cashierVars /\ req[m] \in ReqState
      BY <1>0, <2>0, <2>9 DEF ReverseCommit, Abandon
    <3> QED
      BY <1>3, <3>1
  <2>10. CASE UNCHANGED <<cashierVars, req>>
    BY <1>1, <2>10 DEF cashierVars
  <2>11. CASE \/ \E m \in Req, o \in Order, op \in {"refund", "chargeback"}, c \in Call :
                   ReverseAccepted(m, o, op, c)
              \/ \E m \in Req, o \in Order, op \in {"refund", "chargeback"} :
                   ReverseUnanswered(m, o, op)
    BY <2>7, <2>8, <2>11
  <2>12. CASE \E m \in Req : \/ QueryUnanswered(m)
                            \/ QueryCompensate(m)
                            \/ QueryReread(m)
                            \/ ReverseCommit(m)
                            \/ Abandon(m)
    BY <2>3, <2>9, <2>12
  <2> QED
    BY <1>8, <2>1, <2>2, <2>4, <2>6, <2>10, <2>11, <2>12 DEF Merchant
<1> QED
  BY <1>5, <1>6, <1>7, <1>8 DEF Next, Goal

LEMMA ReleasedStep ==
    RechargeOK /\ QueriesKnowOrders /\ ReleasedWhenShut /\ [Next]_vars
        => QueriesKnowOrders' /\ ReleasedWhenShut'
<1> SUFFICES ASSUME RechargeOK, QueriesKnowOrders, ReleasedWhenShut, [Next]_vars
             PROVE  QueriesKnowOrders' /\ ReleasedWhenShut'
  OBVIOUS
<1>1. ASSUME NEW o \in Order, Releasing(o)' PROVE Shut(o)'
  BY <1>1, StepReleases, ShutStays DEF ReleasedWhenShut
<1> QED
  BY <1>1, QueriesKnowOrdersStep DEF ReleasedWhenShut

(***************************************************************************)
(* The gateway releases the money held for an order only after the         *)
(* merchant has shut the order, whichever callbacks arrive between the     *)
(* merchant's read, its UPDATE and its call, and however late the gateway  *)
(* carries the call out (service.go closeIfExpired, cashier.go             *)
(* mutateTrade, remember).                                                 *)
(***************************************************************************)
THEOREM HoldsAreReleasedLast == Spec => []HoldIsReleasedLast
<1>1. Init => QueriesKnowOrders /\ ReleasedWhenShut
  BY NotReleased
     DEF Init, CashierInit, QueriesKnowOrders, ReleasedWhenShut, Releasing, Idle, QueryStage
<1>2. ReleasedWhenShut => HoldIsReleasedLast
  BY DEF ReleasedWhenShut, HoldIsReleasedLast, Releasing, TradeOf, Shut, ShutStatus, OpenStatus
<1> QED
  BY <1>1, <1>2, ReleasedStep, RechargeHolds, PTL DEF Spec

-----------------------------------------------------------------------------
(* The books, from end to end *)

(* What is proved of the merchant's books in PayBooks_proofs.              *)
BooksHold ==
    /\ BooksProofs!CoinsProjectLedger
    /\ BooksProofs!CreditedOnce
    /\ BooksProofs!ReversedOnce
    /\ BooksProofs!JournalMatchesOrder
    /\ BooksProofs!JournalBalanced
    /\ BooksProofs!BookMatchesJournal
    /\ BooksProofs!BookMatchesReversals
    /\ BooksProofs!DiamondsConserved
    /\ BooksProofs!GiftsAddUp

(***************************************************************************)
(* With the gateway's stale trades, lost and repeated notifications, its   *)
(* restarts and the merchant's requests that stop half way, an order still *)
(* grants its coins once and loses them once, the journal balances, and    *)
(* platform_books is what journal and reversals add up to.                 *)
(***************************************************************************)
THEOREM BooksHoldEndToEnd == Spec => []BooksHold
<1>1. Init => BooksProofs!Init
  BY SameInit DEF Init
<1>2. RechargeOK /\ [Next]_vars => [BooksProofs!Next]_(BooksProofs!vars)
  BY StepIsTransaction, TransactionOfProofs, SameVars
<1>3. Spec => BooksProofs!Spec
  BY <1>1, <1>2, RechargeHolds, PTL DEF Spec, BooksProofs!Spec
<1> USE SameFinite, BizNosDisjoint, BizNosFinite, PackageAssumption, GiftAssumption
<1>4. BooksProofs!Spec => []BooksProofs!CoinsProjectLedger
  BY BooksProofs!CoinsAreLedgerProjection
<1>5. BooksProofs!Spec => []BooksProofs!CreditedOnce
  BY BooksProofs!PayOnceCreditOnce
<1>6. BooksProofs!Spec => []BooksProofs!ReversedOnce
  BY BooksProofs!ReverseOnce
<1>7. BooksProofs!Spec => []BooksProofs!JournalMatchesOrder
  BY BooksProofs!JournalFollowsOrders
<1>8. BooksProofs!Spec => []BooksProofs!JournalBalanced
  BY BooksProofs!JournalIsBalanced
<1>9. BooksProofs!Spec => []BooksProofs!BookMatchesJournal
  BY BooksProofs!BookFollowsJournal
<1>10. BooksProofs!Spec => []BooksProofs!BookMatchesReversals
  BY BooksProofs!BookFollowsReversals
<1>11. BooksProofs!Spec => []BooksProofs!DiamondsConserved
  BY BooksProofs!DiamondsAreConserved
<1>12. BooksProofs!Spec => []BooksProofs!GiftsAddUp
  BY BooksProofs!GiftsDoAddUp
<1> QED
  BY <1>3, <1>4, <1>5, <1>6, <1>7, <1>8, <1>9, <1>10, <1>11, <1>12, PTL DEF BooksHold

(***************************************************************************)
(* The owner of a wallet sees CoinContract and nothing else: with all that *)
(* happens between merchant and gateway, each step grants the coins of an  *)
(* order for the first time, takes a grant back for the first time, spends *)
(* coins, or changes no balance (service.go, books.go, gift.go).           *)
(***************************************************************************)
THEOREM ContractHoldsEndToEnd == Spec => BooksProofs!ImplementsContract
<1>1. Init => BooksProofs!Init
  BY SameInit DEF Init
<1>2. RechargeOK /\ [Next]_vars => [BooksProofs!Next]_(BooksProofs!vars)
  BY StepIsTransaction, TransactionOfProofs, SameVars
<1>3. Spec => BooksProofs!Spec
  BY <1>1, <1>2, RechargeHolds, PTL DEF Spec, BooksProofs!Spec
<1>4. BooksProofs!Spec => BooksProofs!ImplementsContract
  BY SameFinite, BizNosDisjoint, BizNosFinite, PackageAssumption, GiftAssumption,
     BooksProofs!MerchantImplementsContract
<1> QED
  BY <1>3, <1>4, PTL

(***************************************************************************)
(* No order goes back to an earlier status, whatever stale answer of the   *)
(* gateway a request or a notification still carries (service.go credit,   *)
(* markFailed, closeIfExpired, books.go).                                  *)
(***************************************************************************)
THEOREM StatusesStayMonotone == Spec => BooksProofs!StatusIsMonotone
<1>1. Init => BooksProofs!Init
  BY SameInit DEF Init
<1>2. RechargeOK /\ [Next]_vars => [BooksProofs!Next]_(BooksProofs!vars)
  BY StepIsTransaction, TransactionOfProofs, SameVars
<1>3. Spec => BooksProofs!Spec
  BY <1>1, <1>2, RechargeHolds, PTL DEF Spec, BooksProofs!Spec
<1>4. BooksProofs!Spec => BooksProofs!StatusIsMonotone
  BY SameFinite, BizNosDisjoint, BizNosFinite, PackageAssumption, GiftAssumption,
     BooksProofs!StatusesAreMonotone
<1> QED
  BY <1>3, <1>4, PTL
=============================================================================
