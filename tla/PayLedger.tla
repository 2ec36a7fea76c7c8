------------------------------ MODULE PayLedger ------------------------------
(***************************************************************************)
(* The tables that every money operation of backend/internal/pay writes:   *)
(* wallets, ledger_entries and the single platform_books row.  Recharge    *)
(* orders (PayOrders), gifts and withdrawals (PayGifts) share them.        *)
(*                                                                         *)
(* Table wallets is kept column by column.  A missing wallet row and a row *)
(* of zeros are the same state: lockWallet inserts the zero row on demand. *)
(* Column coin_frozen is never written by the code and is left out.        *)
(*                                                                         *)
(* Table ledger_entries is kept as one sequence per account and currency,  *)
(* in id order: rows of an account are inserted under its wallet's row     *)
(* lock, so id order is commit order.                                      *)
(***************************************************************************)
EXTENDS Integers, Sequences, FiniteSets

CONSTANTS
    Account,        \* account ids
    Order,          \* order numbers  ("P..." of newOrderNo)
    GiftNo,         \* gift numbers   ("GP...")
    WithdrawNo,     \* withdrawal numbers ("WP...")
    Key             \* idempotency keys chosen by clients

(***************************************************************************)
(* The three kinds of business numbers carry different prefixes.           *)
(***************************************************************************)
ASSUME BizNosDisjoint ==
    /\ Order \cap GiftNo = {}
    /\ Order \cap WithdrawNo = {}
    /\ GiftNo \cap WithdrawNo = {}

(***************************************************************************)
(* The numbers are varchar(64) columns: there are finitely many of each.   *)
(***************************************************************************)
ASSUME BizNosFinite ==
    /\ IsFiniteSet(Order)
    /\ IsFiniteSet(GiftNo)
    /\ IsFiniteSet(WithdrawNo)

VARIABLES
    coinAvailable,      \* wallets.coin_available
    diamondAvailable,   \* wallets.diamond_available
    diamondFrozen,      \* wallets.diamond_frozen
    coinLedger,         \* ledger_entries with currency = coin
    diamondLedger,      \* ledger_entries with currency = diamond
    book                \* platform_books, row id = 1

walletVars == <<coinAvailable, diamondAvailable, diamondFrozen>>
ledgerVars == <<coinLedger, diamondLedger>>

-----------------------------------------------------------------------------
BizNo == Order \cup GiftNo \cup WithdrawNo

BizType == {"recharge", "refund", "chargeback",
            "gift_send", "gift_receive", "withdraw"}

LedgerEntry == [direction    : {"credit", "debit"},
                amount       : Nat,
                balanceAfter : Nat,
                bizType      : BizType,
                bizNo        : BizNo]

PlatformBook == [pending : Int, settled : Int, fee : Int, refund : Int,
                 chargeback : Int, shortfall : Int, payout : Int]

(* Mutant: balance_after is written with the balance before the change. *)
EntryBefore(direction, amount, after, bizType, bizNo) ==
    [direction |-> direction, amount |-> amount,
     balanceAfter |-> IF direction = "debit" THEN after + amount ELSE after - amount,
     bizType |-> bizType, bizNo |-> bizNo]

Entry(direction, amount, after, bizType, bizNo) ==
    [direction |-> direction, amount |-> amount, balanceAfter |-> after,
     bizType |-> bizType, bizNo |-> bizNo]

(***************************************************************************)
(* Unique index uk_ledger_biz of an account's rows: an INSERT that finds   *)
(* the key taken fails and rolls the whole transaction back.               *)
(***************************************************************************)
Vacant(rows, direction, bizType, bizNo) ==
    \A i \in DOMAIN rows :
        <<rows[i].direction, rows[i].bizType, rows[i].bizNo>>
            # <<direction, bizType, bizNo>>

LedgerInit ==
    /\ coinAvailable = [a \in Account |-> 0]
    /\ diamondAvailable = [a \in Account |-> 0]
    /\ diamondFrozen = [a \in Account |-> 0]
    /\ coinLedger = [a \in Account |-> << >>]
    /\ diamondLedger = [a \in Account |-> << >>]
    /\ book = [pending |-> 0, settled |-> 0, fee |-> 0, refund |-> 0,
               chargeback |-> 0, shortfall |-> 0, payout |-> 0]

LedgerTypeOK ==
    /\ coinAvailable \in [Account -> Nat]
    /\ diamondAvailable \in [Account -> Nat]
    /\ diamondFrozen \in [Account -> Nat]
    /\ coinLedger \in [Account -> Seq(LedgerEntry)]
    /\ diamondLedger \in [Account -> Seq(LedgerEntry)]
    /\ book \in PlatformBook
=============================================================================
