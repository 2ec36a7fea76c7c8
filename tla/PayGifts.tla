------------------------------- MODULE PayGifts -------------------------------
(***************************************************************************)
(* Gifts and withdrawals: pay/gift.go.  One action is one committed        *)
(* transaction; SendGift's transaction locks both wallets (lockPair),      *)
(* RequestWithdraw's the wallet, payWithdraw's the withdrawal row and the  *)
(* wallet.  After its commit SendGift publishes one popularity event and   *)
(* ignores the outcome.                                                    *)
(***************************************************************************)
EXTENDS PayLedger

CONSTANTS
    Gift,               \* codes of table gift_catalogs
    GiftPrice,          \* coin_price of a gift
    GiftWeight,         \* popularity_weight of a gift
    GiftCount,          \* counts a client may ask for
    Video,              \* videos that exist
    AuthorOf,           \* videos.author_id
    WithdrawAmount,     \* amounts of diamonds a client may ask to withdraw
    MinWithdraw         \* minWithdraw

ASSUME GiftAssumption ==
    /\ GiftPrice \in [Gift -> Nat]
    /\ GiftWeight \in [Gift -> Nat]
    /\ GiftCount \subseteq 1 .. 99
    /\ AuthorOf \in [Video -> Account]
    /\ WithdrawAmount \subseteq Nat
    /\ MinWithdraw \in Nat \ {0}

VARIABLES
    giftOrder,      \* gift_orders: one row, or NoGift, per gift number
    withdrawOrder,  \* withdraw_orders: one row, or NoWithdraw, per number
    videoStat,      \* video_gift_stats and videos.popularity
    heatDue,        \* committed gifts whose request has yet to publish heat
    heatSent        \* gifts whose popularity event reached the broker

giftVars == <<giftOrder, withdrawOrder, videoStat, heatDue, heatSent>>

-----------------------------------------------------------------------------
CreatorShareBps == 5000
DiamondFenRate == 10

NoGift == [sender |-> "absent"]
NoWithdraw == [status |-> "absent"]

GiftOrder == [sender        : Account,
              key           : Key,
              video         : Video,
              coinCost      : Nat,
              diamondCredit : Nat,
              count         : GiftCount,
              gift          : Gift]

WithdrawOrder == [account  : Account,
                  diamonds : Nat,
                  status   : {"reviewing", "paid", "failed"}]

VideoStat == [count : Nat, coins : Nat, popularity : Nat]

Cost(gift, count) == GiftPrice[gift] * count
CreatorShare(cost) == (cost * CreatorShareBps) \div 10000
Weight(gift, count) == GiftWeight[gift] * count

(* Mutant: the popularity of one gift, whatever the count. *)
AddToStatOnce(stat, gift, count) ==
    [count      |-> stat.count + count,
     coins      |-> stat.coins + Cost(gift, count),
     popularity |-> stat.popularity + Weight(gift, 1)]

(* The upsert of video_gift_stats and the update of videos.popularity. *)
AddToStat(stat, gift, count) ==
    [count      |-> stat.count + count,
     coins      |-> stat.coins + Cost(gift, count),
     popularity |-> stat.popularity + Weight(gift, count)]

-----------------------------------------------------------------------------
(***************************************************************************)
(* SendGift.  A key the sender has used returns the old gift (first read)  *)
(* or rolls back (unique index uk_gift_idem): either way nothing is        *)
(* written.  Author, price and weight come from the server's tables.       *)
(***************************************************************************)
SendGift(s, k, v, gift, count) ==
    LET receiver == AuthorOf[v]
        cost     == Cost(gift, count)
        diamonds == CreatorShare(cost)
        coinLeft == coinAvailable[s] - cost
        credited == diamondAvailable[receiver] + diamonds
    IN  /\ \A g \in GiftNo : giftOrder[g] # NoGift =>
               ~(giftOrder[g].sender = s /\ giftOrder[g].key = k)
        /\ receiver # s
        /\ coinAvailable[s] >= cost
        /\ \E g \in GiftNo :
              /\ giftOrder[g] = NoGift
              /\ giftOrder' = [giftOrder EXCEPT ![g] =
                    [sender |-> s, key |-> k, video |-> v, gift |-> gift,
                     count |-> count, coinCost |-> cost, diamondCredit |-> diamonds]]
              /\ coinAvailable' = [coinAvailable EXCEPT ![s] = coinLeft]
              /\ diamondAvailable' = [diamondAvailable EXCEPT ![receiver] = credited]
              /\ coinLedger' = [coinLedger EXCEPT ![s] =
                    Append(@, Entry("debit", cost, coinLeft, "gift_send", g))]
              /\ diamondLedger' = [diamondLedger EXCEPT ![receiver] =
                    IF diamonds = 0 THEN @
                    ELSE Append(@, Entry("credit", diamonds, credited, "gift_receive", g))]
              /\ heatDue' = IF Weight(gift, count) > 0 THEN heatDue \cup {g} ELSE heatDue
        /\ videoStat' = [videoStat EXCEPT ![v] = AddToStat(@, gift, count)]
        /\ UNCHANGED <<withdrawOrder, heatSent, diamondFrozen, book>>

(* The request publishes {video_id, change} after its commit. *)
PublishHeat(g) ==
    /\ g \in heatDue
    /\ heatDue' = heatDue \ {g}
    /\ heatSent' = heatSent \cup {g}
    /\ UNCHANGED <<giftOrder, withdrawOrder, videoStat, book, walletVars, ledgerVars>>

(* The publish fails, there is no broker connection, or the process stops. *)
LoseHeat(g) ==
    /\ g \in heatDue
    /\ heatDue' = heatDue \ {g}
    /\ UNCHANGED <<giftOrder, withdrawOrder, videoStat, heatSent, book,
                   walletVars, ledgerVars>>

(* Mutants: the balance is not checked; the diamonds are not frozen. *)
RequestWithdrawUnchecked(a, diamonds) ==
    /\ diamonds >= MinWithdraw
    /\ \E w \in WithdrawNo :
          /\ withdrawOrder[w] = NoWithdraw
          /\ withdrawOrder' = [withdrawOrder EXCEPT ![w] =
                [account |-> a, diamonds |-> diamonds, status |-> "reviewing"]]
    /\ diamondAvailable' = [diamondAvailable EXCEPT ![a] = @ - diamonds]
    /\ diamondFrozen' = [diamondFrozen EXCEPT ![a] = @ + diamonds]
    /\ UNCHANGED <<giftOrder, videoStat, heatDue, heatSent, coinAvailable, book,
                   ledgerVars>>

RequestWithdrawUnfrozen(a, diamonds) ==
    /\ diamonds >= MinWithdraw
    /\ diamondAvailable[a] >= diamonds
    /\ \E w \in WithdrawNo :
          /\ withdrawOrder[w] = NoWithdraw
          /\ withdrawOrder' = [withdrawOrder EXCEPT ![w] =
                [account |-> a, diamonds |-> diamonds, status |-> "reviewing"]]
    /\ diamondAvailable' = [diamondAvailable EXCEPT ![a] = @ - diamonds]
    /\ UNCHANGED <<giftOrder, videoStat, heatDue, heatSent, coinAvailable,
                   diamondFrozen, book, ledgerVars>>

(* RequestWithdraw: diamonds move from available to frozen. *)
RequestWithdraw(a, diamonds) ==
    /\ diamonds >= MinWithdraw
    /\ diamondAvailable[a] >= diamonds
    /\ \E w \in WithdrawNo :
          /\ withdrawOrder[w] = NoWithdraw
          /\ withdrawOrder' = [withdrawOrder EXCEPT ![w] =
                [account |-> a, diamonds |-> diamonds, status |-> "reviewing"]]
    /\ diamondAvailable' = [diamondAvailable EXCEPT ![a] = @ - diamonds]
    /\ diamondFrozen' = [diamondFrozen EXCEPT ![a] = @ + diamonds]
    /\ UNCHANGED <<giftOrder, videoStat, heatDue, heatSent, coinAvailable, book,
                   ledgerVars>>

(* payWithdraw, for a reviewing order old enough for PayDueWithdraws. *)
PayWithdraw(w) ==
    LET row == withdrawOrder[w]
        a   == row.account
    IN  /\ row.status = "reviewing"
        /\ IF diamondFrozen[a] < row.diamonds
           THEN /\ withdrawOrder' = [withdrawOrder EXCEPT ![w] = [row EXCEPT !.status = "failed"]]
                /\ UNCHANGED <<diamondFrozen, diamondLedger, book>>
           ELSE /\ Vacant(diamondLedger[a], "debit", "withdraw", w)
                /\ diamondFrozen' = [diamondFrozen EXCEPT ![a] = @ - row.diamonds]
                /\ diamondLedger' = [diamondLedger EXCEPT ![a] =
                      Append(@, Entry("debit", row.diamonds, diamondAvailable[a],
                                      "withdraw", w))]
                /\ book' = [book EXCEPT !.payout = @ + row.diamonds * DiamondFenRate]
                /\ withdrawOrder' = [withdrawOrder EXCEPT ![w] = [row EXCEPT !.status = "paid"]]
        /\ UNCHANGED <<giftOrder, videoStat, heatDue, heatSent, coinAvailable,
                       diamondAvailable, coinLedger>>

-----------------------------------------------------------------------------
GiftsInit ==
    /\ giftOrder = [g \in GiftNo |-> NoGift]
    /\ withdrawOrder = [w \in WithdrawNo |-> NoWithdraw]
    /\ videoStat = [v \in Video |-> [count |-> 0, coins |-> 0, popularity |-> 0]]
    /\ heatDue = {}
    /\ heatSent = {}

GiftsTypeOK ==
    /\ giftOrder \in [GiftNo -> GiftOrder \cup {NoGift}]
    /\ withdrawOrder \in [WithdrawNo -> WithdrawOrder \cup {NoWithdraw}]
    /\ videoStat \in [Video -> VideoStat]
    /\ heatDue \subseteq GiftNo
    /\ heatSent \subseteq GiftNo
=============================================================================
