CONSTANTS
    alice = alice
    bob = bob
    coins_70 = coins_70
    one_fen = one_fen
    alipay = alipay
    wechat = wechat
    bear = bear
    rose = rose
    clip = clip
    NoTrade = NoTrade
    Account = {alice, bob}
    Video = {clip}
    PackagePrice <- MCPackagePrice
    PackageCoins <- MCPackageCoins
    GiftPrice <- MCGiftPrice
    GiftWeight <- MCGiftWeight
    AuthorOf <- MCAuthorOf
    MinWithdraw = 10
    Order = {o1, o2}
    GiftNo = {}
    WithdrawNo = {}
    Key = {k1, k2}
    Package = {coins_70, one_fen}
    Channel = {alipay, wechat}
    Trade = {t1, t2}
    Gift = {}
    GiftCount = {}
    WithdrawAmount = {}
SPECIFICATION Spec
SYMMETRY Symmetry
CHECK_DEADLOCK FALSE
INVARIANTS
    CreditedOnce
    ReversedOnce
    JournalMatchesOrder
    JournalBalanced
    BookMatchesJournal
PROPERTIES
    StatusIsMonotone
