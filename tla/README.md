# Formal models of feedsystem_video_go

The repository is the backend of a short-video service: a Go application over
MySQL, Redis and RabbitMQ, with a wallet, a recharge flow through a (simulated)
payment gateway, gifts, likes, comments, follows and several feeds.  This
directory holds TLA+ models of it, TLC configurations that check them and TLAPS
proofs about them.  The money path came first, because an interleaving or a lost
message costs something there; then the counters and relations behind the message
queues, and the feeds that read them.

Paths below are relative to `backend/internal/` unless they start with another
top-level directory.

## 1. The system

| Component | State | Operations | Where it is hard |
|---|---|---|---|
| `pay/service.go`, `pay/books.go`: recharge orders | `pay_orders`, `wallets`, `ledger_entries`, `fiat_journals`, `platform_books`, `pay_callback_logs` | create, close when expired, fail, credit, settle, refund, chargeback | repeated and late callbacks, reversal before or after settlement, coins spent before they are reversed |
| the same transactions, lock by lock | row locks and gap locks of MySQL | lock, insert at first use, commit, roll back | transactions that wait for each other in a circle |
| `pay/gift.go`: gifts, withdrawals | `gift_orders`, `withdraw_orders`, `video_gift_stats`, the wallets | send a gift, publish its popularity, request and pay a withdrawal | two wallets in one transaction; publication after the commit |
| `pay/cashier.go`, `cmd/paygateway`: gateway | `gateway_trades` and the map `c.trades` | show, submit, query, close, refund, charge back, notify, retry | map and table are written in two steps; goroutines; restart; lost answers |
| `pay/handler.go`, `http/payrouter.go` | none | callback, query, refund, ...; a ticker | requests that read, call the gateway, then write |
| `video/like_*.go`, `worker/likeworker.go` | `likes`, `videos.likes_count`, `videos.popularity` | like, unlike, apply an event | check then queue; three separate statements under at-least-once delivery |
| `video/comment_*.go`, `worker/commentworker.go` | `comments`, `videos.popularity` | publish, delete, apply | redelivery repeats the insert |
| `social/`, `worker/socialworker.go` | `socials` | follow, unfollow, apply | event and direct write race |
| `video/popularity_cache.go`, `worker/popularityworker.go`, `cmd/rankworker` | Redis ranking `hot:video:decay` | add, decay | not idempotent |
| `video/video_service.go`, `worker/videoworker.go` | `videos`, `follow_feed_inbox`, `feed_outbox`, Redis inboxes | publish, fan out, delete | the follower threshold is read twice; batches and redelivery |
| `video/video_service.go` (detail), `middleware/localcache`, `middleware/redis` | two cache levels, hit counter, lock | read, invalidate | stale refill after an invalidation |
| `feed/` | cursors in the client's bucket or in the fields of a request, a list cache of five seconds | latest, followings, likes, popularity, by `FetchFeeds` and by an endpoint each | cursors against a merge cut at the limit, cached pages of several ages, two sources of one list |
| `account/`, `middleware/jwt` | `accounts.token`, cached token | login, logout, rename, change password, check | cache and database written in different orders |
| `worker/orchestrationworker.go`, `video/ai_suggestion.go` | `video_ai_suggestions` | analyse, confirm, reject | redelivery; confirm after reject |

The clients talk HTTP to the API process; the API writes MySQL, and queues
events in RabbitMQ for the workers, which write MySQL and Redis.  The payment
gateway is a process of its own with its own rows in the same database; it
calls the merchant back over HTTP, and the merchant calls it to query, close,
refund and charge back.

What makes each part correct, and what of it is checked here, is listed as
hazards in `PROJECT.json`, each at its line of code with the properties that
would catch it, or with the reason why none does.

## 2. Modules

| Module | Models | State and actions |
|---|---|---|
| `PayLedger` | the tables all money operations share | one variable per wallet column; one sequence of ledger rows per account and currency; the platform book |
| `PayOrders` | `pay/service.go`, `pay/books.go` | one action per committed transaction: `CreateRecharge`, `CloseIfExpired`, `MarkFailed`, `Credit`, `SettleOne`, `Refund`, `Chargeback`, and `Expire` for the clock |
| `PayGifts` | `pay/gift.go` | `SendGift`, `PublishHeat`, `LoseHeat`, `RequestWithdraw`, `PayWithdraw` |
| `PayBooks` | both on one set of wallets | `Next`, the invariants of the books, the refinement of `CoinContract` |
| `PayLocks` | the locks the transactions of `service.go`, `books.go` and `gift.go` take, one by one | `Begin`, `Lock`, `LockGap`, `Insert`, `Commit`, `Rollback`; `present` says which wallets exist |
| `CoinContract` | what a wallet's owner is promised | grant once, reverse once, spend, nothing else |
| `Cashier` | `pay/cashier.go` | handlers as calls with a program counter: `Show`, `Submit`, `MutateTrade`, `MutateRemember`, `SaveRow`; notifications: `NotifySent`, `EnqueueNotify`, `RetryFind`, `RetryUpdate`; `Restart` |
| `Recharge` | merchant, gateway and the messages between them | the transactions of `PayOrders` driven by notifications (`Notify...`, `Retry...`) and by requests of several steps (`Query...`, `Reverse...`, `Abandon`) |
| `VideoStats` | `videos.likes_count`, `videos.popularity`, `hot:video:decay`, `worker/popularityworker.go` | columns clamped at zero (`Greatest0`), the ranking, its queue (`ApplyPopularity`, `RepeatPopularity`, `MissPopularity`), `DeleteVideo` and `RemoveFromRanking`; the other writers of the columns, `UpdateLikesCount` (`POST /video/updateLikesCount`), `SendGift` and its event, `HeatGift` |
| `Likes` | `video/like_service.go`, `worker/likeworker.go` | each caller and each consumer has its place in the handler: `CheckLike`, `PublishLike` or `FailToPublishLike` then `WriteLike` or `RefuseLike`; `DeliverLike`, `ApplyLike`, `ChangeLikesCount`, `ChangePopularityOfLike`, `AckLike`, `RequeueLike` |
| `Comments` | `video/comment_service.go`, `worker/commentworker.go` | the same for comments, whose rows have no natural key; `CheckDelete`, `DeleteComment`, `RefuseDelete` |
| `Engagement` | both on one set of videos | `Next`, the fairness of callers and workers, the invariants that tie counters, rows and ranking |
| `Follows` | `social/service.go`, `worker/socialworker.go` | any number of requests, also of one account, each with its place in the handler: `CheckFollow`, `PublishFollow`, `WriteFollow`; `ConsumeFollow`, `RequeueFollow` |
| `FeedFanout` | `Follows` with `VideoService.Publish` and `worker/videoworker.go` | `PublishInbox`, `PublishOutbox`; `DeliverInbox`, `FanOutBatch`, `DeliverOutbox`, `AckBox`, `RequeueBox` |
| `FeedPaging` | `feed/lister.go`, `feed/repo.go`, `feed/service.go` | one session of a reader: `FetchFeeds` with its four query types; the endpoints `FetchTimeline` (list latest, list by following) with `CacheTimeline` for the other requests that fill the list cache, `ListLikesCount`, `ListByPopularity` (with the cursors given back, and as `HotView.vue` gives them back); and what happens between two pages: `Arrive` (of the ids behind `lastId`, the last one given out), `Deliver` (a late event's entry, even of a deleted video), `DeleteVideo`, `Follow`, `Unfollow`, `LikeVideo`, `UnlikeVideo` |
| `Tokens` | `account/service.go` and `repo.go`, `middleware/jwt` | the token in the row and in Redis, one statement or cache call per step: `Present`, `CheckHit`, `CheckMiss`, `CheckFind`, `CheckFill`; `LoginStart`, `LoginStore`, `RenameStore`, `CacheToken`; `ChangePasswordStart`, `PasswordStore`, `LogoutFind`, `LogoutDel`, `LogoutStore`; errors of MySQL end a request (`GiveUp`), the process may stop at any step (`Stop`); `Tick`, `Age`, `Expire`, `Evict` |
| `VideoDetail` | `video/video_service.go` (detail), `middleware/localcache`, `middleware/redis` | `GetDetail` and the steps of `ReaderStep`, with the hit counter and the lock; writers: `UpdateLikesCount`, `DeleteFound`, `DeleteVideo`, `DelL1`, `DelL2`; `CountByWorker`; `ExpireL1`, `ExpireL2`, `ExpireLock`, `Crash` |
| `Suggestions` | `worker/orchestrationworker.go`, `video/ai_suggestion*.go` | the analyze event, the agent's rounds and fallbacks, the author's confirm and reject, statement by statement |
| `VideoPages` | `VideoDetail` and `Suggestions` | `Next`, what reaches the title and the caches |
| `PayBooks_proofs` | theorems about `PayBooks`: types, projections, histories, the contract, and sums over orders, gifts and withdrawals | |
| `Recharge_proofs` | theorems about `Recharge` and `Cashier`; it instantiates `PayBooks_proofs`, so that what is proved of `PayBooks` is proved of its implementation | |
| `Engagement_proofs` | theorems about `Engagement`, `Likes`, `Comments`, `VideoStats` | |
| `FeedFanout_proofs` | theorems about `FeedFanout` and `Follows` | |
| `FeedPaging_proofs` | theorems about `FeedPaging`, and about sorting, cutting, filtering and joining its lists | |
| `VideoPages_proofs` | theorems about `VideoPages`, `VideoDetail` and `Suggestions` | |
| `PayLocks_proofs`, `Tokens_proofs` | theorems about the module in the name | |
| `MCPayBooks`, `MCRecharge`, `MCEngagement`, `MCFeedFanout`, `MCFeedPaging`, `MCTokens`, `MCVideoDetail`, `MCVideoPages`, `MCPayLocks` | instances for TLC | |

`PayBooks` is one level of abstraction above `Recharge`: it lets any well-formed
callback arrive at any time, as a signed callback may.  `Recharge` adds the
gateway that produces the callbacks, and `ImplementsBooks` states that whatever
the gateway, the network and half-finished requests do, the merchant only ever
takes steps of `PayBooks`.  Below `PayBooks` stands `CoinContract`, and
`ImplementsContract` is the refinement, with the grants and the reversals read
off the statuses of the orders.

`Engagement` composes `Likes` and `Comments` through the counters of `VideoStats`:
every next-state action of the one leaves the other's variables alone and they meet
in `popularity` and in the ranking.  `FeedFanout` composes `Follows` with the worker
that reads the relation in batches while it changes.  `FeedPaging` starts from any
two boxes, drawn independently: a video may be in one, in both or in none, as the
threshold and the fallback of `VideoService.Publish` leave it, and an entry may outlive
its video.  Any part of the inbox is in its sorted set.  An entry's score is a constant
of its own per box (`InboxScore`, `OutboxScore`), the time its publish event was made,
and need not follow `CreateTime`.

`PayLocks` looks inside the transactions that `PayBooks` takes to be one step: it
justifies that they do not end in each other's way, and shows where they can.
`Suggestions` extends `VideoDetail` with another request that changes the row and
invalidates the caches, and `VideoPages` runs both.

Conventions of the models:

* An action is one committed transaction or one autocommitted statement.  The
  money transactions lock their first row `FOR UPDATE` and read every later row
  with a locking read, so they are atomic.  A request that returns an error
  commits nothing and is no step of the model.
* A row that does not exist is a record of its own (`NoOrder`, `NoGift`,
  `NoRow`) that has no field in common with a row but the one that tells it
  apart.  A missing wallet and a wallet of zeros are one state.
* Unique indexes are modelled by what the code does when they are hit:
  `uk_ledger_biz` rolls the transaction back (`Vacant`), `uk_fiat` drops the row
  silently (`PostFiat`), the index of the callback log drops the row
  (`LogCallback`), `uk_gift_idem` and the order's idempotency key return the
  old row (no step).
* The clock is a choice: an order may expire at any time (`Expire`), a delay may
  pass at any time.  Callbacks are built with a fresh timestamp, so the skew
  check never refuses them.
* Signatures are not modelled.  A callback carries the channel, amount and trade
  number the merchant could receive; `PayBooks` also lets it carry the wrong
  ones.
* A queue is the sequence of events ready for delivery.  A statement that fails, or
  a worker that stops before its acknowledgement, puts the event back at any
  position (`Requeue...`), because the workers let 50 events be delivered ahead
  (`Qos`).  One consumer per queue is what `docker-compose.yml` starts; where a
  property needs that, its formula says so.  Popularity events only add up, so
  their queue is a count per change (`hotQueue`).
* A cached list page may be of any age of five seconds or less, so `CacheTimeline`
  lets another request put the page of the moment under any key at any time: a
  reader asks each key once, and to it an old entry and one written just then by a
  request that had read the table earlier are the same.
* A lookup in a cache may miss although the entry is there (ristretto buffers and
  evicts, Redis may not answer in 50 ms), and a write to Redis may fail: the code
  ignores both errors, and so `CheckMiss`, `Miss`, `WriteFails` and the second
  disjunct of `DelL2` have no guard.
* History variables (`accepted`, `last`, `published`, `wanted`, `audience`,
  `crossed`, `rejoined`, `pages`, `sources`, `opened`, `given`, `overtaken`,
  `cacheRaced`, `tokenRaced`, `l1Late`, `l2Late`, `overrun`, `slipped`, ...) record what requests asked for,
  what readers saw and which of them came late; no guard of a code action reads them, except that
  a client of `Tokens` presents only a token it was `given`.
* The operators whose comment begins with "Mutant" are not part of a
  specification: each is a plausible mistake in the definition that follows it,
  used to confirm that a property notices.

## 3. Runs

| Run (`.cfg`) | Question | Bounds |
|---|---|---|
| `PayBooks_recharge` | coins are credited and taken back once; ledger, journal and platform book agree | 2 accounts, 2 orders, 2 keys, 2 trade numbers, 2 channels, a package of 700 fen and one of 1 fen |
| `PayBooks_spend` | balances stay projections of the ledgers and shortfalls exact while the coins are spent; refinement of `CoinContract` | 2 orders of 70 coins, 2 gifts of 40 coins, 2 withdrawals of 10 or 30 diamonds |
| `Recharge_safety` | nothing is captured or credited without an authorization, the money held for an order is released last, the merchant implements `PayBooks` | 1 order, 2 gateway handlers, 1 merchant request, 1 gift, 1 restart |
| `Recharge_live` | a captured payment reaches the merchant | 1 order, 1 handler, 1 request, 1 lost notification, 2 retries |
| `Engagement_work` | how far counters, rows and ranking can drift apart; work comes to rest | 1 video, 2 accounts, 2 like callers, 1 comment caller, 1 worker each, 3 requests (a gift of weight 2, or `updateLikesCount` with -1 or 2, is one), 1 request with a failed publish, 1 redelivery or lost update |
| `FeedFanout_boxes` | a video reaches every steady follower by exactly one way; relations end as last wanted | 1 author, 3 followers and one more account, threshold 4, batches of 2, 1 video, 2 follow requests that may run side by side, 1 lost event, 1 redelivery |
| `FeedPaging_sessions` | what a session of pages repeats, reorders or misses, for `FetchFeeds` and for every endpoint | 4 videos in 3 different seconds, any of which exist, pages of 2, at most 5 of them, counts 0 and 1 (`Counts`), no ranking or one of all four (`Rankings`), any inbox and any outbox, overlapping or not, with entries of deleted videos, any part of the inbox in the sorted set, two entries of one score in the inbox and two out of order in the outbox, 1 change between pages |
| `Tokens_sessions` | when a revoked token is accepted, the current one refused, an old password's session kept; that the cache heals | 2 requests at a time, 2 seconds, 1 rename, 1 password change |
| `VideoDetail_cache` | who refills the caches, how an old row stays in one; every read ends | 2 processes, 2 readers, 1 writer, hot after 2 misses, 1 look while waiting, 1 change of the row, by a request or by a worker |
| `VideoPages_suggestions` | a suggestion lands, once per delivery at most; no undecided one becomes the title; the caches follow the title | 1 process, 1 reader, 1 writer, 2 rounds of the agent, 1 redelivery, 1 change |
| `PayLocks_order` | transactions wait in a circle only at the first use of a wallet or of the book | 3 transactions at a time, 2 orders, 3 accounts, 3 videos |
| `Recharge_doc_retry` | a statement of the design that the code does not keep (section 5) | the least that shows it |

Why the bounds are enough.  Two orders on one account and on two show every
sharing of wallet, idempotency key, trade number and platform book; a third
order adds no new pair.  The 1 fen package is the rounding case of `splitFee`
(fee the whole price, net zero).  Two gifts of 40 coins from 140 leave less than
one order's coins, so refunds are refused and chargebacks fall short, for one
order and for both.  Two handlers make every pair of gateway handlers race
between the map and the table.  The merchant's requests keep only an order and a
trade they have read, so two of them interact through the order alone, which one
request and the notifications already do.

Three requests on one video are a like, its unlike and a third one racing with both,
or a comment, its deletion and a gift, which share `popularity`, or a like and its
unlike on either side of an `updateLikesCount`.  With one failed
publish a fallback runs beside the worker, with one redelivery every statement of
the worker is repeated or skipped once.  Three followers in batches of two make a
full batch and a short one; the threshold of four is crossed when the fourth account
follows, and an unfollow and a new follow of the same account move a follower behind
the cursor.  Four videos in pages of two make two full pages and an empty one, three
a full and a short one, and two boxes of them up to four pages; the two videos that
share a second, of which the one with the smaller id is the newer, fall on one page, on
two, or at the end, and so do their inbox entries of equal score.

Sessions by popularity are the only ones that need the bound of five pages: a reader
that is sent back to the first rank again and again can go on for ever; all others
end before it.  One change shows each cursor that does not survive it; two changes
would show no other pair, since a cursor sees only the rows behind it.

Two requests on one token are each pair of statements in each order; the third
actor a race needs is the clock or Redis, which acts on its own.  Two seconds make
two tokens of one name, and one rename another name.  Two processes are one that
is told of a change and one that is not; two readers race for the lock, and the
lock that runs out lets the second in.  One suggestion per delivery and one
redelivery make two rows, of which a confirm finds one decided and one not.
Three transactions on three accounts form every circle of two and of three; that no
larger one exists is proved (section 4).

Deadlock is checked in `PayLocks_order`, `Tokens_sessions`, `VideoDetail_cache` and
`VideoPages_suggestions`, where a new request can always come.  CHECK_DEADLOCK is off
in the others: keys, orders, losses and restarts run out, a system whose orders are
all final has nothing to do, and a session that has read its last page is over.

Fairness.  `Recharge!GatewayFairness` says that the gateway's handlers and goroutines
go on once started, and that `RetryNotifies` runs every 2 s.  Nothing is assumed of the
ticker of `MountPay`: `SettleDue` stops at the first order whose transaction fails, so
that fairness towards each order is not the code's, and that a paid order is settled
would be no more than that assumption.  Customers are never assumed to do anything.
`Engagement!Fairness` and `FeedFanout!FairSpec` say that a request that has begun
returns and that the `worker` process, which restarts when a channel breaks, goes on
consuming; nothing makes a client send a request.  `Tokens!Fairness` says that a
request goes on to its answer and that a key whose TTL has passed is gone;
`VideoDetail!DetailFairSpec` that a reader goes on.  Neither says that a lock or a
cache entry is ever there.

What `CaptureIsReported` does not cover: with two handlers, or two losses around
a change of mind, a notification can be dropped (`CaptureWasReported` in
`Recharge_doc_retry`), and a restart loses the goroutine that holds it; then only
the merchant's own query can credit the order.  More losses than `NotifyLimit`
allow exhaust the retries by design (20 in the code).

## 4. Proofs

The theorems hold for every value of the constants that meets the assumptions
beside their declarations; TLC evaluates each of these in a run.  They say:

* `BizNosDisjoint`: the prefixes of `newOrderNo` and its callers;
  `BizNosFinite`: the business numbers are `varchar(64)` columns, so that there are
  finitely many and a sum over orders, gifts or withdrawals has a value;
* `StatsAssumption`: a gift's weight is a natural number of 2 at least (the seeded gifts
  weigh 2 to 300), `updateLikesCount` is given integers;
* `PackageAssumption`, `GiftAssumption`: prices and weights are natural numbers,
  prices of packages positive, counts between 1 and 99;
* `CashierAssumption`: each order has a trade of its own per outcome, the limits are
  natural numbers;
* `LikesAssumption`, `CommentsAssumption`: the requests and the consumers at work at
  one time are finitely many;
* `PagingAssumption`: finitely many videos (their ids have 64 bits), created after the
  first second of 1970, in no particular order and possibly at one time; positive scores,
  about whose order nothing is assumed, and in each box a place of its own for each
  entry, by which equal scores are ordered (the row's id, or in Redis the member); a
  limit of at least one, which the handlers see to; a ranking holds a video once, as a
  sorted set does;
* `FollowsAssumption`: the relations a run starts from keep the unique index of
  `socials`; `FanoutAssumption`: a batch has at least one row;
* and that bounds of histories are natural numbers.

Accounts, videos (but for those of `FeedPaging`), trades, keys, packages, transactions,
requests and processes may be infinitely many.

### The books of the merchant (`PayBooks_proofs`)

* `TypeCorrect`: `Spec => []TypeOK`.  Inductive as it stands; the work is in the
  balances, which must stay natural numbers.  The guards of `SendGift`,
  `RequestWithdraw` and `Reverse` are what it rests on.
* `CoinsAreLedgerProjection`: `Spec => []CoinsProjectLedger`.  Inductive together
  with `TypeOK`: every transaction that changes a coin balance appends one row
  whose `balance_after` is the new balance (`CreditPosts`, `ReversePosts`,
  `SendGiftPosts`), and no other one touches either.
* `StatusesAreMonotone`: `Spec => StatusIsMonotone`, action by action from
  `TypeOK`.
* `PayOnceCreditOnce`: `Spec => []CreditedOnce`.  The invariant is inductive with
  `TypeOK`; the unique ledger index alone would not do, because the row must be
  on the order's account and carry the order's coins, which never change after
  the order was created.
* `ReverseOnce`: `Spec => []ReversedOnce`.  Inductive with `TypeOK`.  The unique ledger
  index is per order and business type, and a refund and a chargeback are of
  different types, so that one order is not reversed by both rests on the status,
  which `Reverse` reads under the order's lock; the shortfall of a chargeback is the
  coins of the order less those of its ledger row.
* `JournalFollowsOrders`: `Spec => []JournalMatchesOrder`.  Inductive with `TypeOK`,
  but only with the agreement of status, `settle_status` and `settle_at`, which the
  property therefore states.  The lemma `FreshPost` says that a business type absent
  from the journal is posted whole: `PostFiat` drops duplicates in silence, and
  nothing is dropped.
* `MerchantImplementsContract`: `Spec => ImplementsContract`.  Every transaction
  maps to granting, reversing or spending, or leaves balances, grants and
  reversals alone; it uses that an order's grant is determined by fields that no
  later transaction writes.
* `JournalIsBalanced`: `Spec => []JournalBalanced`.  Follows from
  `JournalMatchesOrder`: it says which rows each order has, and `Tally` adds up the
  debits and credits of such a set of rows, for every price and rounding of the fee.
* `BookFollowsJournal`: `Spec => []BookMatchesJournal`.  The inductive invariant is
  `BookMatchesOrders`, the same three sums taken over the statuses of the orders
  (`PendingOf`, `SettledOf`, `FeeOf`); an action changes one order's summand and the book by
  the same amount, and `JournalMatchesOrder` turns summands into balances of the journal.
* `BookFollowsReversals`: `Spec => []BookMatchesReversals`.  The amounts refunded and
  charged back by orders' statuses, and the shortfall by the ledger rows of the
  chargebacks, with `ReversedOnce` for the row of each order.
* `DiamondsAreConserved`: `Spec => []DiamondsConserved`, per account: an account's
  ledger total, its frozen diamonds and its withdrawals under review move together.
* `GiftsDoAddUp`: `Spec => []GiftsAddUp`.  Three invariants proved together,
  `StatAddsUp` (a video's statistics), `GiftRows` (the one coin row and the one diamond
  row of a gift, and no other) and `PayoutAddsUp` (the book's payout).

The sums are `SumFunction` of the community modules, which picks a recursive function on
the subsets of the domain with CHOOSE.  That there is one is itself proved, and without
the induction theorems, which the provers cannot instantiate: a function that `Adds` up
the subsets of at most `n` elements (`UpTo(S, n)`) is extended to those of `n + 1`, and
a least `n` for which there is none (`SmallestOf`) would be a contradiction.  On this
stand the lemmas that change one summand of a sum, add one, or take a sum apart;
the invariants above need nothing else of sums.

### Payment end to end (`Recharge_proofs`)

* `RechargeTypeCorrect`: `Spec => []TypeOK`.  Inductive is `RechargeOK`: also that a
  retry works on a row that exists and has tries left, and that a query makes a
  callback only out of a trade with a number.
* `MoneyIsAuthorized`: `Spec => []NothingUnauthorized`.  The inductive invariant
  `AllAuthorized` follows a captured trade to wherever a copy of it may be: the map
  of the gateway, its table, a handler that has read it and stopped, a notification
  under way, one kept for a retry, a query of the merchant.
* `HoldsAreReleasedLast`: `Spec => []HoldIsReleasedLast`.  `ReleasedWhenShut` follows a
  released trade through map, table and handlers, as `AllAuthorized` does, back to the
  request that is about to have it released; that request has closed the order, or its
  UPDATE found it past crediting, and no transaction opens an order again (`ShutStays`).
* `MerchantImplementsBooks`: `Spec => ImplementsBooks`.  Each step of a request or of a
  notification is a transaction of `PayBooks` or leaves the merchant's tables alone,
  whatever the request has read before and wherever it stops.
* `BooksHoldEndToEnd`: the invariants proved of `PayBooks` - one credit and one
  reversal per order, projections, journal, book, diamonds, gifts - hold of `Recharge`.
  Nothing is proved twice: the theorems are taken from
  `BooksProofs == INSTANCE PayBooks_proofs` through the refinement.
* `ContractHoldsEndToEnd`: `Spec => BooksProofs!ImplementsContract`, the two refinements in
  one: merchant and gateway together implement `CoinContract`.  `StatusesStayMonotone`
  takes the action property `StatusIsMonotone` along the same way.

### Counters, relations, fan-out (`Engagement_proofs`, `FeedFanout_proofs`)

* `WorkTypeCorrect`: `Spec => []TypeOK` of `Engagement`.  Inductive is `WorkOK`, with what
  the counting needs: finitely many rows, comment ids never given out again, a job of
  a worker that fits its event.
* `LikesAreCounted`, `PopularityIsCounted`: `Spec => []LikesCountKeepsUp` and
  `Spec => []PopularityKeepsUp`.  `LikesOwed` is what a column should show: the rows of the
  table less those somebody has written and not yet counted, plus those somebody has
  removed and not yet taken off.  The column and what it owes move by the same amount
  in every step, but for the clamp at zero, which only raises the column, and for one per
  redelivery.  What `updateLikesCount` put into the column (`given`) and what gifts added
  to popularity (`gifted`) are taken out of the comparison.
* `CountsAreExact`: `Spec => []CountsExact`.  Without a redelivery the clamp never bites:
  who is about to lower a column has first removed a row that was counted
  (`LikesThere`, `CommentsThere`), so that `ColumnsExact` is an equation, for a
  likes_count as long as `updateLikesCount` has not set it.
* `RankingIsFollowed`: `Spec => []RankingFollowsRequests`.  `RankingKept` bounds
  the score with its queued events from both sides; a request whose popularity event is
  queued and whose other event was refused has changed the ranking early, and its publish
  error pays for that whether the request is accepted later or not.  A gift whose event
  is lost is worth `GiftWeight`, hence the factor.
* `CommentsDoLand`: `Spec => []CommentsLand`.  Rows, queued publications and inserts
  under way add up (`Landed`) to at least what was accepted and at most that and the
  redeliveries.
* `LatestRequestHolds`: `Spec => []LatestRequestWins`.  The last accepted request is still
  to be done by the last event of its account and video in the queue, or by the consumer
  that holds the only one, or it is what the table says (`Asked`).
* `FanoutTypeCorrect`: `Spec => []TypeOK` of `FeedFanout`, with the uniqueness of `socials`
  and that boxes, queue and worker name published videos only.
* `RelationEndsAsWanted`: `Spec => []RelationIsAsWanted`.  As for likes, with the
  difference that the request writes as well: what the last event of the pair asks for is
  in the queue, or in the table (`Holds`), unless a request that asked the contrary wrote
  the table after that event was published (`outrun`).  Nothing keeps requests of one
  account apart, so that this does happen: a follow is published and consumed, an
  unfollow is published and deletes the row, and only then the follow writes its own.
* `VideosReachFollowers`: `Spec => []ReachesSteadyFollowers`.  `WaysKept` says how far each
  video has come: a big author's is in no inbox and its outbox event is due, queued or
  done; a small author's event is queued, or the worker is between two batches, where
  the steady followers up to the cursor have their row and nobody behind it has one; or
  all have it.  The second half is what rules out the duplicate key.  That the next
  batch takes up exactly behind the cursor, whatever relations were inserted
  and deleted since, are the lemmas `BatchBefore`, `BatchShort` and `BatchLast`.

### Sessions of the feeds (`FeedPaging_proofs`)

* `SessionTypeCorrect`: `Spec => []TypeOK` of `FeedPaging`.  Inductive is `Basic`, with
  what the boxes of each list can hold: lists that are not read from a box have it empty, and no box, row or member of the ranking has an id
  that was not given out yet.
* `PagesNeverRepeat`: `Spec => []PagesDoNotRepeat`.
* `PagesStayInOrder`: `Spec => []PagesGoBackInTime`.
* `PagesAreComplete`: `Spec => []PagesMissNothing`.

None of the three properties is inductive: they speak of pages that were answered, and the
next page depends on the cursor.  `SessionInv` says what the cursor knows.  Its first
half, `ShownInv`, has a part for each list: nothing that was shown lies ahead
of the cursor.  A list by time (`TimeInv`) has shown only what is not older than the second
of its cursor, and every page in the list cache lies behind the second of its key, so
that the age of a cached page does not matter.  The followings list has a cursor per box,
and a score per box: what was shown lies behind the cursor of each box it came from
(`BoxInv`), so that only a video which both boxes hold or have held can come again.
Where the scores of each box follow the creation times, what was shown is not older than
all that is left in either box, because the merge keeps the newest of both
(`BoxOrderInv`).
`LikesInv` and `PopularInv` compare a row with the cursor as the query does; a like
only lifts a video to where the cursor has been, an unlike does not, which is why the
property excludes it.  `RankInv`: what stands behind the offset was not shown.

The second half, `MissInv`, is the converse for an undisturbed session: what the reader
should see was shown or lies ahead of the cursor, and a page that is not full leaves
nothing there.  Here lies the work of the conditions: a cursor cut to the second
loses the others of its second (`SeparateSeconds`), a cursor of a box those of its score
(`DistinctScores`), a page that drops rows of one box moves past them (one kind of author
only), an entry without a video makes a page short and ends the session (`BoxesExist`),
the offset counts videos, not members (`RankingExists`).  `HotHasNoPlace` keeps the page
HotView out of the part that relies on the place in the table.

The lemmas on the operators stand by themselves.  A finite set under a total order has a
row for each rank (`RanksGrow`, `RanksMatch`), so that `Sorted` lists it without gap or
repetition (`RankedList`) and `Top` is its first `Limit` rows, in order, with nothing
left out before its last one (`TopOfList`).  `Picked` keeps order and elements (`PickedPlaces`),
hence what is left of a page by deleted videos (`ExistingRows`) and of the ranking by
ZREM (`WithoutMember`).  `FlattenSeq` picks its recursive function with CHOOSE; that one
exists is shown by a least length without one, as for the sums (`RowsExist`,
`FlattenOne`).  `Merge` counts how many rows it has taken from one side in the same way
(`TakenExists`, `MergeSteps`); from that follow its order, its bound by what is left on
either side and that a side alone passes unchanged (`MergeInOrder`, `MergeBounded`,
`MergeOfOne`).  `Steps` sorts the steps of a session into an answered page, a change of the
data and an entry of the list cache.

### Tokens, pages, locks (`Tokens_proofs`, `VideoPages_proofs`, `PayLocks_proofs`)

* `CirclesNeedFirstUse`: `Spec => []DeadlockOnlyAtFirstUse` of `PayLocks`.  Every row has
  a rank (the order, wallets by account, the book, rows of the video); the inductive
  invariant `LocksAscend` says that what a transaction holds lies below what it asks
  for.  In a circle without gaps every member would wait for one that asks for a
  higher rank.
* `NewPasswordEndsSessions`: `Spec => []PasswordEndsSessions` of `Tokens`.  Inductive with
  the types: what keeps it true while the password is new and the token old is the
  request that changed it, which is still on its way to clear the token.  A change whose
  later statements fail, or whose process stops after its first UPDATE, leaves the old
  session where it was: the property names both as exceptions (`tokenRaced`).
* `CacheStaleOnlyByRace`: `Spec => []StaleOnlyByRace` of `Tokens`.  The invariant is
  strengthened by `InTime` (who is about to cache a token and was not overtaken has the
  one of the row) and `Emptied` (between the DEL and the UPDATE of a logout Redis holds
  nothing, or something that came late).
* `OneReaderRefills`: `DetailSpec => []OneFiller` of `VideoDetail`.  Inductive is
  `Holders`, a statement about each reader: one that has locked and was not overrun is
  the one whose token the lock holds.  A second lock needs the first one gone, and
  another's `Unlock` compares the token.
* `DetailStaleOnlyByRace`: `DetailSpec => []StaleOnlyByRace` of `VideoDetail`.  The
  invariant is split in its two caches and strengthened by `InTime` (a reader that was
  not overtaken carries the row as it is).  `PageStaleOnlyByRace` is the same for the
  specification of `VideoPages`, where a confirmed suggestion also changes the row.
* `DetailTypeCorrect`, `PageTypeCorrect`: `DetailSpec => []DetailTypeOK` and
  `Spec => []TypeOK` of `VideoPages`.  `PageBounds` says that one delivery asks the model at
  most `MaxRounds` times; that there is a row per delivery at most is `EventFollows`.
* `PendingIsNotShown`: `Spec => []PendingNotShown` of `VideoPages`.  A writer that is
  about to set the title carries a suggestion that is decided or has slipped in between
  its two statements (`WriterDecided`), and a decided one never becomes undecided.
* `SuggestionsDoLand`: `Spec => []SuggestionsLand`.  `EventFollows` ties the rows to the
  deliveries: an event that is settled has left a row unless the worker still owes one.

### What is only model-checked

* Liveness (`CaptureIsReported`, `WorkDrains`, `CacheHeals`, `ReadsEnd`, ...):
  it rests on ENABLED and fairness, which are out of the prover's reach.
* `CaptureWasReported`, which is false (section 5).

## 5. Where documents and code part

One run ends in a counterexample on purpose: it checks a sentence of a document
against the code, and `PROJECT.json` quotes it.

* `Recharge_doc_retry`: `db.Save` in `remember` writes all columns, so a handler
  that is late wipes the notification queued for retry.  A variant with a single
  handler exists too: `RetryNotifies` marks the row sent although it sent an
  older outcome than the one queued meanwhile.

What the models show, or would show, of other sentences, without a run of its own:

* A declined attempt makes the merchant fail the order, the link still takes a
  payment, and the capture is refused ever after; the query does not ask about a
  failed order.
* A refunded or charged-back trade of the gateway can be shown as waiting for payment
  again: `remember` keeps only TRADE_SUCCESS from being overwritten by a page view.
* `gatewayMutate` treats an unreachable gateway as consent, so an order is refunded
  in the books while the gateway keeps the capture (`Recharge!ReverseUnanswered`).
* The popularity event of a gift is published once after the commit and is in no
  outbox (`PayGifts!LoseHeat`); the design document has an outbox row.
* The design document credits only orders in `created` or `paying`, the code also a
  `closed` one and records it (`paid_after_close`, see `StatusIsMonotone`); and it
  calls a balance a pure projection of the ledger, while `RequestWithdraw` moves
  diamonds from available to frozen without a ledger row (see `DiamondsConserved`
  for what holds instead).
* Likes are counted up to the redeliveries (`LikesCountKeepsUp`), not exactly: a
  fallback that commits an unlike while the worker has written the row of its like
  and not yet counted it meets `GREATEST(..., 0)`.
* Whoever is logged in may set `videos.likes_count` to any number by
  `POST /video/updateLikesCount`, a negative one too (`VideoStats!UpdateLikesCount`); an
  unlike after that is clamped at zero and lost, so that nothing ties the column to the
  rows any more but `LikesCountKeepsUp`.
* `CommentService.Delete` says that popularity goes down on either path; its direct
  path leaves the column alone (`Comments!DeleteComment`).
* A deleted video comes back into the ranking when a popularity event of it is still
  queued (`VideoStats!ApplyPopularity` has no guard on the row).
* The comments of `videoworker.go` take a duplicate key for a video that has been
  inserted already.  A follower who got the video in the first batch, unfollows and
  follows again has a new relation id and comes in a later batch; the insert of that
  batch is refused as a whole, the fan-out ends as done, and the other followers of
  that batch and of all later ones never get the video.  A redelivery after a stop
  between two batches does the same (the exceptions of `ReachesSteadyFollowers`).
* The followings lister says that each cursor advances only as far as its side was
  consumed.  Both advance to the last row fetched; with inbox `{1}` and outbox
  `{2, 3}` and pages of two, the first page is `3, 2` and video 1 is on none (the
  exceptions of `PagesMissNothing`).
* The cursor of a box is a score, and `score < ?` (`feed/repo.go:100` and `150`) passes
  over the entries that share the score of the last one fetched (`DistinctScores`).  An
  entry whose video was deleted makes a page short, which the client takes for the end
  (`BoxesExist`).
* The cursors of list latest and list by following, and the popularity lister's, keep
  whole seconds: of the videos of one second a page boundary can hide those behind it.
* The design document says that `as_of` and `offset` page through a snapshot of the
  minute.  `ListByPopularity` reads the live ranking and only echoes `as_of`; a video
  that moves between two pages is repeated or missed.  `HotView.vue` gives back only
  the offset, which is zero after a page of the table, so that the list starts again.
* `Follow` and `Unfollow` each publish their change and write it (`social/service.go:41`).  Two
  of them side by side can leave the relation as the first one wanted, though the event
  of the second was published, and its answer given, last (`RelationIsAsWanted` names it).
* An author followed in mid-session brings rows of any age into the followings list,
  newer ones after older ones (`PagesGoBackInTime` excludes it).
* The pay design locks both wallets of a gift by account id to rule out deadlocks.  It
  holds for wallets that exist; at first use two transactions can hold the same gap,
  and each waits for the other with its insert (`DeadlockOnlyAtFirstUse`).
* The design document has an old token refused at once after a logout, rename or new
  login, and a changed password ending the session.  Both hold but for the races named
  at `Tokens!StaleOnlyByRace` and `PasswordEndsSessions`: a check that read the row
  before and fills the cache after, a login that compared the old password before, a
  rename that passed the check before, and a change that failed, or whose process
  stopped, between its UPDATE of the password and the UPDATE that clears the token.
* The design document has likes and comments invalidate the detail.  What counts
  popularity does delete the entry in Redis (`UpdatePopularityCache`), but the event
  that counts the like goes another way (`VideoDetail!CountByWorker`): the deletion
  can come before the UPDATE, and the entry refilled between the two stays five
  minutes; the caches of the processes are not told at all.
* "创作者拒绝 AI 建议，保留原始标题" (`video/ai_suggestion_handler.go:66`): a confirm after a
  reject finds no pending suggestion to confirm, returns the rejected one, and its
  title is written all the same (`Suggestions`).
* An unlike is weighted by its own time, not by that of the like it takes back: a like
  and its unlike a half-life later leave the video with a score below one that was
  never liked, for good.  Scores are sums of changes in `VideoStats`, where the two
  cancel out, so this is read off the code (`video/popularity_cache.go:49`).
* Inbox and outbox can overlap: when the author crosses the threshold between the two
  events, or when the fallback of `Publish` writes the outbox of an author whose inbox
  event was queued (`video/video_service.go:84`).  `mergeByCreateTime` relies on it that
  they do not, while its caller says that it removes duplicates (`feed/lister.go:96` and
  `110`); it does not, and a video in both boxes can be twice on one page or on two
  pages (`Overlap` in `PagesDoNotRepeat`).
* The worker takes the score from the event "保证同一视频在 inbox 和 outbox 里的 score 完全一致"
  (`worker/videoworker.go:104`).  The two events of a video are stamped separately
  (`videoMQ.go:66`) and the fallback stamps its row itself (`video/video_repo.go:187`),
  so that the scores differ, and two videos can stand in one box in the other order
  than they were created (`ScoresFollowTimes` in `PagesGoBackInTime`).

## 6. Not modelled

Database errors in the middle of a gateway handler (their results are dropped by
the code: `_ = c.db.Save`), payment instruments and pages, signatures, message
encoding, metrics, configuration, routers, handlers that only decode and encode,
seed data, the frontend beyond what its pages send.  Of the ranking the decay of
weights with time; of the feeds the `is_liked` flags and the choice of a viewer's list
by login; of accounts registration and profile reads; of a suggestion the text the
model writes; of the publication the list of an author's videos.

## 7. Plan

What is left is the weights of the ranking, with a clock, in `VideoStats`.

Done: the money modules with their contract, their locks and gateway; the engagement
modules and the fan-out; the paging of all lists; tokens, the video detail and the
suggestions.  Every invariant and every safety property of a passing run is
proved for all values of the constants; liveness is left to TLC.
