CONSTANTS
    alice = alice
    bob = bob
    coins_70 = coins_70
    one_fen = one_fen
    alipay = alipay
    wechat = wechat
    bear = bear
    rose = rose
    clip = clip
    NoTrade = NoTrade
    Account = {alice, bob}
    Video = {clip}
    PackagePrice <- MCPackagePrice
    PackageCoins <- MCPackageCoins
    GiftPrice <- MCGiftPrice
    GiftWeight <- MCGiftWeight
    AuthorOf <- MCAuthorOf
    MinWithdraw = 10
    Order = {o1, o2}
    GiftNo = {g1, g2}
    WithdrawNo = {w1, w2}
    Key = {k1, k2}
    Package = {coins_70}
    Channel = {alipay}
    Trade = {t1, t2}
    Gift = {bear}
    GiftCount = {4}
    WithdrawAmount = {10, 30}
SPECIFICATION Spec
SYMMETRY Symmetry
CHECK_DEADLOCK FALSE
INVARIANTS
    TypeOK
    CoinsProjectLedger
    BookMatchesReversals
    DiamondsConserved
    GiftsAddUp
PROPERTIES
    ImplementsContract
