------------------------------ MODULE MCRecharge ------------------------------
(* Instances of Recharge for TLC: one order, and one gift that spends it. *)
EXTENDS Recharge, TLC

CONSTANTS alice, bob, coins_70, alipay, bear, clip, t_paid, t_fail

MCPackagePrice == [p \in Package |-> 700]
MCPackageCoins == [p \in Package |-> 70]
MCPaidTrade == [o \in Order |-> t_paid]
MCFailTrade == [o \in Order |-> t_fail]

(* One bear leaves too few coins for a refund. *)
MCGiftPrice == [g \in Gift |-> 10]
MCGiftWeight == [g \in Gift |-> 0]
MCAuthorOf == [v \in Video |-> bob]

Symmetry == Permutations(Call) \cup Permutations(Req)
=============================================================================
