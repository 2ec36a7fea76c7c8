----------------------------- MODULE CoinContract -----------------------------
(***************************************************************************)
(* What backend/internal/pay promises the owner of a coin wallet, with no  *)
(* channels, callbacks, settlement or ledger: an order grants its coins to *)
(* one account at most once; a granted order is reversed at most once,     *)
(* which takes the granted coins back, or what is left of them; apart from *)
(* that a balance only goes down, by what its owner spends, and never      *)
(* below zero.                                                             *)
(***************************************************************************)
EXTENDS Integers

CONSTANTS
    Account,
    Order,
    CoinAmount          \* the amounts of coins on sale, natural numbers

VARIABLES
    balance,            \* coins of each account
    grants,             \* orders that granted coins: [order, account, coins]
    reversed            \* orders whose grant was reversed

vars == <<balance, grants, reversed>>

Grant == [order : Order, account : Account, coins : CoinAmount]

Init ==
    /\ balance = [a \in Account |-> 0]
    /\ grants = {}
    /\ reversed = {}

GrantCoins(g) ==
    /\ \A h \in grants : h.order # g.order
    /\ grants' = grants \cup {g}
    /\ balance' = [balance EXCEPT ![g.account] = @ + g.coins]
    /\ UNCHANGED reversed

ReverseGrant(g) ==
    /\ g.order \notin reversed
    /\ reversed' = reversed \cup {g.order}
    /\ balance' = [balance EXCEPT ![g.account] =
                      IF @ < g.coins THEN 0 ELSE @ - g.coins]
    /\ UNCHANGED grants

Spend(a) ==
    /\ \E n \in 1 .. balance[a] : balance' = [balance EXCEPT ![a] = @ - n]
    /\ UNCHANGED <<grants, reversed>>

Next ==
    \/ \E g \in Grant : GrantCoins(g)
    \/ \E g \in grants : ReverseGrant(g)
    \/ \E a \in Account : Spend(a)

Spec == Init /\ [][Next]_vars
=============================================================================
