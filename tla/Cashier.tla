-------------------------------- MODULE Cashier --------------------------------
(***************************************************************************)
(* The payment gateway: pay/cashier.go, run by cmd/paygateway.  It keeps   *)
(* each trade twice, in the map c.trades and in table gateway_trades, and  *)
(* the two writes of remember are not one step.  A handler is a call; its  *)
(* critical section on the map and its database statements are separate    *)
(* steps, and handlers interleave between them.  After a submission the    *)
(* call lives on as the goroutine that notifies the merchant; what it      *)
(* cannot deliver it leaves in the row for RetryNotifies.                  *)
(*                                                                         *)
(* Amount and channel of a trade are those of the order: they are signed   *)
(* into the checkout link.  The link carries the order's expire_at too.    *)
(***************************************************************************)
EXTENDS PayOrders

CONSTANTS
    Call,               \* handlers that can be active at once
    PaidTrade,          \* trade number "T" + order number
    FailTrade,          \* trade number "F" + order number
    NotifyLimit,        \* tries of RetryNotifies (20 in the code)
    MaxLoss,            \* bound: lost messages
    MaxRestart          \* bound: restarts of the gateway

ASSUME CashierAssumption ==
    /\ PaidTrade \in [Order -> Trade]
    /\ FailTrade \in [Order -> Trade]
    /\ NotifyLimit \in Nat /\ MaxLoss \in Nat /\ MaxRestart \in Nat

VARIABLES
    trades,         \* c.trades, lost by a restart
    row,            \* table gateway_trades
    call,           \* the active handlers and notify goroutines
    retry,          \* the row that RetryNotifies is working on
    authorized,     \* history: orders whose payment was ever authorized
    losses,         \* messages lost so far
    restarts        \* restarts so far

cashierVars == <<trades, row, call, retry, authorized, losses, restarts>>

-----------------------------------------------------------------------------
Reversal == {"TRADE_REFUND", "TRADE_CHARGEBACK"}
TradeStatus == {"WAIT_BUYER_PAY", "TRADE_SUCCESS", "TRADE_CLOSED"} \cup Reversal

GatewayTrade == [status : TradeStatus, no : Trade \cup {NoTrade}]
Unknown == [status |-> "NOT_EXIST"]

Waiting == [status |-> "WAIT_BUYER_PAY", no |-> NoTrade]

Submitted(o, paid) ==
    IF paid THEN [status |-> "TRADE_SUCCESS", no |-> PaidTrade[o]]
            ELSE [status |-> "TRADE_CLOSED", no |-> FailTrade[o]]

Row == [trade    : GatewayTrade,
        notify   : {"none", "pending", "sent"},
        paid     : BOOLEAN,
        attempts : 0 .. NotifyLimit]
NoRow == [notify |-> "absent"]

Idle == [pc |-> "idle"]
CallState == [pc    : {"remember", "save", "notify"},
              op    : {"show", "submit", "mutate"},
              order : Order,
              trade : GatewayTrade]

RetryState == [order : Order, paid : BOOLEAN, attempts : 0 .. NotifyLimit]

(* Mutant: every final trade counts as paid. *)
PaidIfFinal(trade) == trade.status # "WAIT_BUYER_PAY"

(* The outcome that a goroutine reports is the submitted one. *)
Paid(trade) == trade.status = "TRADE_SUCCESS"

(* tradeOf: the row if there is one, else the map. *)
TradeOf(o) == IF row[o] # NoRow THEN row[o].trade ELSE trades[o]

(* remember ignores a trade that would take a captured payment back. *)
Keeps(prev, trade) ==
    /\ prev.status = "TRADE_SUCCESS"
    /\ trade.status \notin {"TRADE_SUCCESS"} \cup Reversal

(* What is left of a call after remember: the notification, or nothing. *)
AfterRemember(c, op, o, trade) ==
    call' = [call EXCEPT ![c] =
                IF op = "submit"
                THEN [pc |-> "notify", op |-> op, order |-> o, trade |-> trade]
                ELSE Idle]

(* remember up to the release of the mutex. *)
RememberTrade(c, op, o, trade) ==
    /\ IF Keeps(trades[o], trade)
       THEN /\ AfterRemember(c, op, o, trade)
            /\ UNCHANGED trades
       ELSE /\ trades' = [trades EXCEPT ![o] = trade]
            /\ call' = [call EXCEPT ![c] =
                  [pc |-> "save", op |-> op, order |-> o, trade |-> trade]]
    /\ UNCHANGED <<row, retry, losses, restarts>>

-----------------------------------------------------------------------------
(* Handlers *)

(* Show: the customer opens the link of an order. *)
Show(c, o) ==
    /\ call[c] = Idle
    /\ order[o] # NoOrder
    /\ o \notin expired
    /\ RememberTrade(c, "show", o, Waiting)
    /\ UNCHANGED authorized

(* Submit: the customer confirms, or fails or cancels, the payment. *)
Submit(c, o, paid) ==
    /\ call[c] = Idle
    /\ order[o] # NoOrder
    /\ o \notin expired
    /\ RememberTrade(c, "submit", o, Submitted(o, paid))
    /\ authorized' = IF paid THEN authorized \cup {o} ELSE authorized

(* mutateTrade up to its checks; next is the status it is asked for. *)
MutateAnswer(o, next) ==
    LET trade == TradeOf(o)
    IN  IF trade = Unknown THEN "not found"
        ELSE IF next = "TRADE_CLOSED" /\ trade.status # "WAIT_BUYER_PAY" THEN "ignored"
        ELSE IF next \in Reversal /\ trade.status # "TRADE_SUCCESS" THEN "conflict"
        ELSE "accepted"

MutateTrade(c, o, next) ==
    /\ call[c] = Idle
    /\ MutateAnswer(o, next) = "accepted"
    /\ call' = [call EXCEPT ![c] =
          [pc |-> "remember", op |-> "mutate", order |-> o,
           trade |-> [TradeOf(o) EXCEPT !.status = next]]]
    /\ UNCHANGED <<trades, row, retry, authorized, losses, restarts>>

(* ... and its call of remember, with the trade it read. *)
MutateRemember(c) ==
    /\ call[c].pc = "remember"
    /\ RememberTrade(c, "mutate", call[c].order, call[c].trade)
    /\ UNCHANGED authorized

(* db.Save of the whole row: columns notify_* go back to their zero values. *)
SaveRow(c) ==
    /\ call[c].pc = "save"
    /\ row' = [row EXCEPT ![call[c].order] =
          [trade |-> call[c].trade, notify |-> "none", paid |-> FALSE, attempts |-> 0]]
    /\ AfterRemember(c, call[c].op, call[c].order, call[c].trade)
    /\ UNCHANGED <<trades, retry, authorized, losses, restarts>>

-----------------------------------------------------------------------------
(* Notifications.  The merchant's side of a delivery is in Recharge. *)

(* notify got its 2xx. *)
NotifySent(c) ==
    /\ call[c].pc = "notify"
    /\ call' = [call EXCEPT ![c] = Idle]
    /\ UNCHANGED <<trades, row, retry, authorized, losses, restarts>>

(* Mutant: a notification that failed is dropped. *)
EnqueueNothing(c) ==
    /\ call[c].pc = "notify"
    /\ call' = [call EXCEPT ![c] = Idle]
    /\ UNCHANGED <<trades, row, retry, authorized, restarts>>

(* notify failed three times: enqueueNotify. *)
EnqueueNotify(c) ==
    LET o == call[c].order
    IN  /\ call[c].pc = "notify"
        /\ call' = [call EXCEPT ![c] = Idle]
        /\ row' = IF row[o] = NoRow THEN row
                  ELSE [row EXCEPT ![o] =
                          [@ EXCEPT !.notify = "pending", !.paid = Paid(call[c].trade)]]
        /\ UNCHANGED <<trades, retry, authorized, restarts>>

(* RetryNotifies finds a due row. *)
RetryFind(o) ==
    /\ retry = Idle
    /\ row[o] # NoRow
    /\ row[o].notify = "pending"
    /\ row[o].attempts < NotifyLimit
    /\ retry' = [order |-> o, paid |-> row[o].paid, attempts |-> row[o].attempts]
    /\ UNCHANGED <<trades, row, call, authorized, losses, restarts>>

(* Its update after notify, of the row as it is by then. *)
RetryUpdate(sent) ==
    /\ retry # Idle
    /\ row' = [row EXCEPT ![retry.order] =
          [@ EXCEPT !.attempts = retry.attempts + 1,
                    !.notify = IF sent THEN "sent" ELSE row[retry.order].notify]]
    /\ retry' = Idle
    /\ UNCHANGED <<trades, call, authorized, restarts>>

(* The process stops and starts again: the map and the goroutines are gone. *)
Restart ==
    /\ restarts < MaxRestart
    /\ restarts' = restarts + 1
    /\ trades' = [o \in Order |-> Unknown]
    /\ call' = [c \in Call |-> Idle]
    /\ retry' = Idle
    /\ UNCHANGED <<row, authorized, losses>>

-----------------------------------------------------------------------------
CashierInit ==
    /\ trades = [o \in Order |-> Unknown]
    /\ row = [o \in Order |-> NoRow]
    /\ call = [c \in Call |-> Idle]
    /\ retry = Idle
    /\ authorized = {}
    /\ losses = 0
    /\ restarts = 0

CashierTypeOK ==
    /\ trades \in [Order -> GatewayTrade \cup {Unknown}]
    /\ row \in [Order -> Row \cup {NoRow}]
    /\ call \in [Call -> CallState \cup {Idle}]
    /\ retry \in RetryState \cup {Idle}
    /\ authorized \subseteq Order
    /\ losses \in 0 .. MaxLoss
    /\ restarts \in 0 .. MaxRestart
=============================================================================
