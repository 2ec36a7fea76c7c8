------------------------------ MODULE MCPayBooks ------------------------------
(* Instances of PayBooks for TLC. *)
EXTENDS PayBooks, TLC

CONSTANTS alice, bob, coins_70, one_fen, alipay, wechat, bear, rose, clip

(***************************************************************************)
(* coins_70 is the catalogue's first package.  one_fen is a package of the *)
(* least price the code accepts: its fee is the whole price and its net    *)
(* amount zero, so half of its journal rows are not posted.                *)
(***************************************************************************)
MCPackagePrice == [p \in Package |-> IF p = one_fen THEN 1 ELSE 700]
MCPackageCoins == [p \in Package |-> IF p = one_fen THEN 25 ELSE 70]

(* Two of the catalogue's gifts; a clip by bob. *)
MCGiftPrice == [g \in Gift |-> IF g = bear THEN 10 ELSE 2]
MCGiftWeight == [g \in Gift |-> IF g = bear THEN 10 ELSE 2]
MCAuthorOf == [v \in Video |-> bob]

Symmetry == UNION {Permutations(S) : S \in {Order, Trade, GiftNo, WithdrawNo, Key}}
=============================================================================
