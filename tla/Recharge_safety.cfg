CONSTANTS
    alice = alice
    bob = bob
    coins_70 = coins_70
    alipay = alipay
    bear = bear
    clip = clip
    t_paid = t_paid
    t_fail = t_fail
    NoTrade = NoTrade
    Account = {alice, bob}
    Video = {clip}
    PackagePrice <- MCPackagePrice
    PackageCoins <- MCPackageCoins
    GiftPrice <- MCGiftPrice
    GiftWeight <- MCGiftWeight
    AuthorOf <- MCAuthorOf
    PaidTrade <- MCPaidTrade
    FailTrade <- MCFailTrade
    MinWithdraw = 10
    Order = {o1}
    WithdrawNo = {}
    WithdrawAmount = {}
    Key = {k1}
    Package = {coins_70}
    Channel = {alipay}
    Trade = {t_paid, t_fail}
    Gift = {bear}
    GiftNo = {g1}
    GiftCount = {1}
    Call = {c1, c2}
    Req = {m1}
    Outcome = {TRUE, FALSE}
    NotifyLimit = 1
    MaxLoss = 0
    MaxRestart = 1
SPECIFICATION Spec
SYMMETRY Symmetry
CHECK_DEADLOCK FALSE
INVARIANTS
    NothingUnauthorized
    HoldIsReleasedLast
PROPERTIES
    ImplementsBooks
