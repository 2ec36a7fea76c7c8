------------------------------- MODULE Recharge -------------------------------
(***************************************************************************)
(* A recharge from end to end: the merchant (PayOrders, and the gifts of   *)
(* PayGifts that spend its coins), the gateway (Cashier), the signed       *)
(* callbacks between them, and the merchant requests that call the gateway *)
(* between two of their own statements.                                    *)
(*                                                                         *)
(* A merchant request may stop after any step (its client is gone, the     *)
(* process stops).  Any message may be lost, an answer too; a lost answer  *)
(* leaves the work done.  MaxLoss bounds the notifications lost.           *)
(*                                                                         *)
(* A callback is built with a fresh timestamp for every notification, so   *)
(* none is too old; channel and amount are always the order's own.         *)
(***************************************************************************)
EXTENDS PayGifts, Cashier

CONSTANTS
    Req,                \* merchant requests that can be active at once
    Outcome             \* what customers submit: TRUE confirms, FALSE declines

VARIABLE
    req                 \* merchant requests between two of their steps

merchantVars == <<walletVars, ledgerVars, book, orderVars, giftVars>>
vars == <<merchantVars, cashierVars, req>>

-----------------------------------------------------------------------------
ReqState == [pc : {"ask", "compensate", "reread", "close", "release", "reverse"},
             order : Order,
             op    : {"query", "refund", "chargeback"},
             trade : GatewayTrade \cup {Unknown}]

Goto(m, pc) == req' = [req EXCEPT ![m] = [@ EXCEPT !.pc = pc]]
Done(m) == req' = [req EXCEPT ![m] = Idle]

Start(m, pc, o, op) ==
    /\ req[m] = Idle
    /\ req' = [req EXCEPT ![m] = [pc |-> pc, order |-> o, op |-> op, trade |-> Unknown]]

-----------------------------------------------------------------------------
(* HandleCallback *)

(* The callback that reports trade number no for order o. *)
Notice(o, paid, no) ==
    [order |-> o, channel |-> order[o].channel, trade |-> no,
     amount |-> Amount(order[o]), paid |-> paid]

NoticeOf(o, paid) == Notice(o, paid, IF paid THEN PaidTrade[o] ELSE FailTrade[o])

(* Answered with success although nothing changes. *)
Repeated(cb) ==
    IF cb.paid
    THEN order[cb.order].status = "paid" /\ order[cb.order].trade = cb.trade
    ELSE order[cb.order].status \in {"paid", "failed", "closed"}

(* Answered with ErrOrderClosed. *)
Refused(cb) ==
    order[cb.order].status \in
        {"refunded", "chargeback"} \cup (IF cb.paid THEN {"failed"} ELSE {})

(* HandleCallback returns without an error. *)
Handle(cb) ==
    \/ Credit(cb) /\ UNCHANGED giftVars
    \/ MarkFailed(cb) /\ UNCHANGED giftVars
    \/ Repeated(cb) /\ UNCHANGED merchantVars

-----------------------------------------------------------------------------
(* Notifications from the gateway to the merchant *)

Lose == losses < MaxLoss /\ losses' = losses + 1

CallNotice(c) == NoticeOf(call[c].order, Paid(call[c].trade))
RetryNotice == NoticeOf(retry.order, retry.paid)

(* The merchant handles the notification and the gateway gets its 2xx. *)
Notify(c) ==
    /\ NotifySent(c)
    /\ Handle(CallNotice(c))
    /\ UNCHANGED req

(* The merchant handles it and the answer is lost: notify tries again. *)
NotifyUnanswered(c) ==
    /\ call[c].pc = "notify"
    /\ ~Repeated(CallNotice(c))
    /\ Handle(CallNotice(c))
    /\ UNCHANGED <<cashierVars, req>>

(* Three tries have failed: the merchant refuses, or cannot be reached. *)
NotifyFails(c) ==
    /\ EnqueueNotify(c)
    /\ Lose \/ (Refused(CallNotice(c)) /\ UNCHANGED losses)
    /\ UNCHANGED <<merchantVars, req>>

Retry ==
    /\ RetryUpdate(TRUE)
    /\ Handle(RetryNotice)
    /\ UNCHANGED <<losses, req>>

RetryUnanswered ==
    /\ retry # Idle
    /\ ~Repeated(RetryNotice)
    /\ Handle(RetryNotice)
    /\ UNCHANGED <<cashierVars, req>>

RetryFails ==
    /\ RetryUpdate(FALSE)
    /\ Lose \/ (Refused(RetryNotice) /\ UNCHANGED losses)
    /\ UNCHANGED <<merchantVars, req>>

-----------------------------------------------------------------------------
(* QueryRecharge *)

(* The order as first read is open: compensateFromGateway goes on with it. *)
QueryStart(m, o) ==
    /\ order[o].status \in OpenStatus
    /\ Start(m, "ask", o, "query")
    /\ UNCHANGED <<merchantVars, cashierVars>>

(* A final trade is turned into a callback; without a trade number, as a   *)
(* trade closed by /trade/close has none, that callback would be rejected. *)
QueryAnswered(m) ==
    LET trade == TradeOf(req[m].order)
    IN  /\ req[m].pc = "ask"
        /\ trade.status \in {"TRADE_SUCCESS", "TRADE_CLOSED"}
        /\ trade.no # NoTrade
        /\ req' = [req EXCEPT ![m] = [@ EXCEPT !.pc = "compensate", !.trade = trade]]
        /\ UNCHANGED <<merchantVars, cashierVars>>

(* No answer within 400 ms, or no final trade. *)
QueryUnanswered(m) ==
    /\ req[m].pc = "ask"
    /\ Goto(m, "reread")
    /\ UNCHANGED <<merchantVars, cashierVars>>

(* HandleCallback with the gateway's answer; its error is ignored. *)
QueryCompensate(m) ==
    LET cb == Notice(req[m].order, Paid(req[m].trade), req[m].trade.no)
    IN  /\ req[m].pc = "compensate"
        /\ Handle(cb) \/ (Refused(cb) /\ UNCHANGED merchantVars)
        /\ Goto(m, "reread")
        /\ UNCHANGED cashierVars

(* The order is read again, and closeIfExpired tests what was read. *)
QueryReread(m) ==
    LET o == req[m].order
    IN  /\ req[m].pc = "reread"
        /\ IF order[o].status \in OpenStatus /\ o \in expired
           THEN Goto(m, "close")
           ELSE Done(m)
        /\ UNCHANGED <<merchantVars, cashierVars>>

(* Mutant: the status that was read earlier decides. *)
QueryCloseStale(m) ==
    LET o == req[m].order
    IN  /\ req[m].pc = "close"
        /\ order' = [order EXCEPT ![o] = [@ EXCEPT !.status = "closed"]]
        /\ UNCHANGED <<expired, journal, callbackLog, book, walletVars, ledgerVars>>
        /\ Goto(m, "release")
        /\ UNCHANGED <<giftVars, cashierVars>>

(* Mutant: closeIfExpired goes on when its UPDATE has failed. *)
QueryCloseAnyway(m) ==
    /\ req[m].pc = "close"
    /\ \/ CloseIfExpired(req[m].order) /\ UNCHANGED giftVars
       \/ UNCHANGED merchantVars
    /\ Goto(m, "release")
    /\ UNCHANGED cashierVars

(***************************************************************************)
(* closeIfExpired goes on to /trade/close even if its UPDATE hit no row,   *)
(* but not if it failed: then the request ends with the error (Abandon).   *)
(***************************************************************************)
QueryClose(m) ==
    LET o == req[m].order
    IN  /\ req[m].pc = "close"
        /\ \/ CloseIfExpired(o) /\ UNCHANGED giftVars
           \/ order[o].status \notin OpenStatus /\ UNCHANGED merchantVars
        /\ Goto(m, "release")
        /\ UNCHANGED cashierVars

QueryRelease(m, c) ==
    /\ req[m].pc = "release"
    /\ MutateTrade(c, req[m].order, "TRADE_CLOSED")
    /\ Done(m)
    /\ UNCHANGED merchantVars

-----------------------------------------------------------------------------
(* Refund and Chargeback *)

GatewayStatus(op) == IF op = "refund" THEN "TRADE_REFUND" ELSE "TRADE_CHARGEBACK"

(* gatewayMutate, accepted; the transaction may overtake the gateway. *)
ReverseAccepted(m, o, op, c) ==
    /\ Start(m, "reverse", o, op)
    /\ MutateTrade(c, o, GatewayStatus(op))
    /\ UNCHANGED merchantVars

(* gatewayMutate ignores a 404 and every failure to get an answer. *)
ReverseUnanswered(m, o, op) ==
    /\ order[o] # NoOrder
    /\ Start(m, "reverse", o, op)
    /\ UNCHANGED <<merchantVars, cashierVars>>

ReverseCommit(m) ==
    /\ req[m].pc = "reverse"
    /\ IF req[m].op = "refund" THEN Refund(req[m].order) ELSE Chargeback(req[m].order)
    /\ Done(m)
    /\ UNCHANGED <<giftVars, cashierVars>>

(* A request ends early: an error of its next step, or nobody runs it. *)
Abandon(m) ==
    /\ req[m] # Idle
    /\ Done(m)
    /\ UNCHANGED <<merchantVars, cashierVars>>

-----------------------------------------------------------------------------
Customer ==
    \/ \E a \in Account, k \in Key, p \in Package, ch \in Channel :
          CreateRecharge(a, k, p, ch) /\ UNCHANGED <<giftVars, cashierVars, req>>
    \/ \E s \in Account, k \in Key, v \in Video, gift \in Gift, count \in GiftCount :
          SendGift(s, k, v, gift, count) /\ UNCHANGED <<orderVars, cashierVars, req>>
    \/ \E c \in Call, o \in Order : Show(c, o) /\ UNCHANGED <<merchantVars, req>>
    \/ \E c \in Call, o \in Order, paid \in Outcome :
          Submit(c, o, paid) /\ UNCHANGED <<merchantVars, req>>

Gateway ==
    \/ \E c \in Call : MutateRemember(c) /\ UNCHANGED <<merchantVars, req>>
    \/ \E c \in Call : SaveRow(c) /\ UNCHANGED <<merchantVars, req>>
    \/ \E c \in Call : Notify(c)
    \/ \E c \in Call : NotifyUnanswered(c)
    \/ \E c \in Call : NotifyFails(c)
    \/ \E o \in Order : RetryFind(o) /\ UNCHANGED <<merchantVars, req>>
    \/ Retry
    \/ RetryUnanswered
    \/ RetryFails
    \/ Restart /\ UNCHANGED <<merchantVars, req>>

Merchant ==
    \/ \E o \in Order : Expire(o) /\ UNCHANGED <<giftVars, cashierVars, req>>
    \/ \E o \in Order : SettleOne(o) /\ UNCHANGED <<giftVars, cashierVars, req>>
    \/ \E m \in Req, o \in Order : QueryStart(m, o)
    \/ \E m \in Req : QueryAnswered(m)
    \/ \E m \in Req : QueryUnanswered(m)
    \/ \E m \in Req : QueryCompensate(m)
    \/ \E m \in Req : QueryReread(m)
    \/ \E m \in Req : QueryClose(m)
    \/ \E m \in Req, c \in Call : QueryRelease(m, c)
    \/ \E m \in Req, o \in Order, op \in {"refund", "chargeback"}, c \in Call :
          ReverseAccepted(m, o, op, c)
    \/ \E m \in Req, o \in Order, op \in {"refund", "chargeback"} :
          ReverseUnanswered(m, o, op)
    \/ \E m \in Req : ReverseCommit(m)
    \/ \E m \in Req : Abandon(m)

Init ==
    /\ LedgerInit /\ OrdersInit /\ GiftsInit /\ CashierInit
    /\ req = [m \in Req |-> Idle]

Next == Customer \/ Gateway \/ Merchant

Spec == Init /\ [][Next]_vars

(***************************************************************************)
(* The gateway's handlers and goroutines run on, RetryNotifies is called   *)
(* every 2 s, and a try of notify ends within its client's timeout.        *)
(***************************************************************************)
GatewayFairness ==
    /\ \A c \in Call :
          /\ WF_vars((MutateRemember(c) \/ SaveRow(c)) /\ UNCHANGED <<merchantVars, req>>)
          /\ WF_vars(Notify(c) \/ NotifyFails(c))
    /\ \A o \in Order : WF_vars(RetryFind(o) /\ UNCHANGED <<merchantVars, req>>)
    /\ WF_vars(Retry \/ RetryFails)

GatewaySpec == Spec /\ GatewayFairness

-----------------------------------------------------------------------------
TypeOK ==
    /\ LedgerTypeOK /\ OrdersTypeOK /\ GiftsTypeOK /\ CashierTypeOK
    /\ req \in [Req -> ReqState \cup {Idle}]

(***************************************************************************)
(* Money follows an authorization: an order grants coins, and the gateway  *)
(* counts a trade as captured, refunded or charged back, in its map or in  *)
(* its table, only after a customer's payment was authorized, whatever     *)
(* stale trade a handler or a query still carries.                         *)
(***************************************************************************)
NothingUnauthorized ==
    \A o \in Order :
        \/ order[o].status \in {"paid", "refunded", "chargeback"}
        \/ \E trade \in {trades[o], TradeOf(o)} :
              trade.status \in {"TRADE_SUCCESS"} \cup Reversal
        => o \in authorized

(* What /trade/close makes of a trade that waits for its buyer. *)
Released == [Waiting EXCEPT !.status = "TRADE_CLOSED"]

(***************************************************************************)
(* The gateway releases the money held for an order only after the         *)
(* merchant has shut the order: in its map and in its table, a trade that  *)
(* /trade/close ended belongs to an order that is no longer open, whichever*)
(* callbacks arrive between the merchant's read, its UPDATE and the call,  *)
(* and however late the call is carried out (service.go closeIfExpired,    *)
(* cashier.go mutateTrade).                                                *)
(***************************************************************************)
HoldIsReleasedLast ==
    \A o \in Order :
        Released \in {trades[o], TradeOf(o)} => order[o].status \notin OpenStatus

(* Nothing is under way between gateway and merchant about order o. *)
AtRest(o) ==
    /\ \A c \in Call : call[c] # Idle => call[c].order # o
    /\ retry # Idle => retry.order # o
    /\ row[o] # NoRow => row[o].notify # "pending"

(***************************************************************************)
(* When the gateway has captured a payment and has nothing left to send,   *)
(* the merchant has credited the order, unless it had already failed it:   *)
(* no notification is dropped, neither by its goroutine nor by the row     *)
(* that holds it for a retry nor by a Save of that row.                    *)
(***************************************************************************)
CaptureWasReported ==
    \A o \in Order :
        trades[o].status = "TRADE_SUCCESS" /\ AtRest(o) =>
            order[o].status \in {"paid", "refunded", "chargeback", "failed"}

(***************************************************************************)
(* A captured payment reaches the merchant: its order is credited, unless  *)
(* the merchant had already failed it, or the capture was refunded or      *)
(* charged back at the gateway before the notification got through.        *)
(***************************************************************************)
CaptureIsReported ==
    \A o \in Order :
        (trades[o].status = "TRADE_SUCCESS") ~>
            \/ order[o].status \in {"paid", "refunded", "chargeback", "failed"}
            \/ trades[o].status \in Reversal

Books == INSTANCE PayBooks

(***************************************************************************)
(* The merchant's half implements PayBooks: with stale reads, answers that *)
(* overtake each other and requests that stop half way, every step of the  *)
(* merchant is one of the transactions whose books PayBooks checks.        *)
(***************************************************************************)
ImplementsBooks == Books!Spec

=============================================================================
