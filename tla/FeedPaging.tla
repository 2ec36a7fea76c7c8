------------------------------ MODULE FeedPaging ------------------------------
(***************************************************************************)
(* The feeds: FeedService.FetchFeeds and its four listers (feed/lister.go  *)
(* with the queries of feed/repo.go), and the four endpoints of            *)
(* feed/service.go with cursors of their own, which the pages of the       *)
(* frontend use.  One reader asks for pages of one list, taking the cursor *)
(* of the last answer back to the next request, until an answer is shorter *)
(* than the limit (has_more is false).  Between two pages videos appear,   *)
(* disappear and are liked, authors are followed and left, and other       *)
(* readers fill the list cache.  An entry of a box has the score its       *)
(* publish event was stamped with, not the creation time of its video, and *)
(* the two boxes may hold the same video or one that is gone.              *)
(***************************************************************************)
EXTENDS Integers, FiniteSets, Sequences, SequencesExt

CONSTANTS
    Video,        \* ids, a later video has the larger one
    CreateTime,   \* videos.create_time, in milliseconds
    InboxScore,   \* score of the video's entry in an inbox, table or sorted set:
                  \* when its publish_inbox event was made, in milliseconds
    OutboxScore,  \* score of its row in an outbox: when its publish_outbox event
                  \* was made, or the row without an event
    Place,        \* place among equal scores: the rows' ids in the two tables,
                  \* the members' order as strings in Redis
    Limit,        \* limit of the requests
    Counts,       \* counts a session may find on the videos
    Rankings,     \* rankings it may find in Redis
    MaxChanges,   \* bound: changes of the data during the session
    MaxPages      \* bound: pages of the session

ASSUME PagingAssumption ==
    /\ Video \subseteq Nat \ {0}
    /\ IsFiniteSet(Video)                            \* ids are 64 bits wide
    /\ CreateTime \in [Video -> Nat]
    /\ \A v \in Video : CreateTime[v] >= 1000        \* nothing is as old as the epoch
    /\ InboxScore \in [Video -> Nat \ {0}]           \* process puts the present for <= 0
    /\ OutboxScore \in [Video -> Nat \ {0}]
    /\ Place \in [{"mysql", "redis", "outbox"} -> [Video -> Nat]]
    /\ \A list \in DOMAIN Place : \A v, w \in Video :
          Place[list][v] = Place[list][w] => v = w
    /\ Limit \in Nat \ {0}
    /\ Counts \subseteq Nat
    /\ Rankings \subseteq Seq(Video)
    /\ \A r \in Rankings : \A i, j \in DOMAIN r : r[i] = r[j] => i = j   \* a sorted set
    /\ MaxChanges \in Nat
    /\ MaxPages \in Nat

VARIABLES
    kind,         \* query_type of the session
    videos,       \* ids with a row in table videos
    lastId,       \* the last id given out (AUTO_INCREMENT)
    count,        \* videos.likes_count; in a session by popularity videos.popularity
    inbox,        \* posts in the reader's follow_feed_inbox
    inboxCache,   \* posts in the reader's sorted set follow:inbox:<id>
    outbox,       \* posts in the outboxes of the authors the reader follows; in a
                  \* session by listByFollowing all their posts
    outboxSoFar,  \* history: everything outbox has held in the session
    ranking,      \* members of hot:video:decay, highest score first
    listCache,    \* pages cached under feed:listLatest and feed:listByFollowing
    cursor,       \* the bucket, or the cursor fields, that go to and fro
    pages,        \* history: the answers so far
    hasMore,      \* has_more of the last answer
    sources,      \* history: where its rows of the inbox or the ranking came from
    start,        \* history: videos that were there when the session began
    changes       \* history: what has changed since

dataVars == <<videos, lastId, count, inbox, inboxCache, outbox, outboxSoFar, ranking>>
vars == <<kind, dataVars, listCache, cursor, pages, hasMore, sources, start, changes>>

-----------------------------------------------------------------------------
(* The query types of FetchFeeds, the endpoints of their own, and          *)
(* HotView.vue, which gives listByPopularity back nothing but its offset.  *)
QueryType == {"latest", "followings", "order_by_likes", "order_by_popularity"}
Cached == {"listLatest", "listByFollowing"}
ByFollowing == kind \in {"followings", "listByFollowing"}
ByPopularity == {"order_by_popularity", "listByPopularity", "hotView"}
Kind == QueryType \cup Cached \cup ByPopularity \cup {"listLikesCount"}

Source == {"redis", "mysql"}

Cursor == [score : Nat, outboxScore : Nat, time : Nat, id : Nat, offset : Nat]
NoCursor == [score |-> 0, outboxScore |-> 0, time |-> 0, id |-> 0, offset |-> 0]

Unix(time) == time \div 1000

(* ORDER BY ... over a set of ids, and with LIMIT. *)
Sorted(S, Before(_, _)) ==
    LET rank(v) == Cardinality({w \in S : Before(w, v)}) + 1
    IN  [i \in 1 .. Cardinality(S) |-> CHOOSE v \in S : rank(v) = i]

Slice(seq, offset) ==
    LET last == offset + Limit
    IN  SubSeq(seq, offset + 1, IF last < Len(seq) THEN last ELSE Len(seq))

Top(S, Before(_, _)) == Slice(Sorted(S, Before), 0)

(* Videos of one millisecond come in an order of MySQL's choice, here by   *)
(* id; no property depends on it.                                          *)
Newer(v, w) ==
    \/ CreateTime[v] > CreateTime[w]
    \/ CreateTime[v] = CreateTime[w] /\ v > w
MoreLiked(v, w) ==
    \/ count[v] > count[w]
    \/ count[v] = count[w] /\ v > w
MorePopular(v, w) ==
    \/ count[v] > count[w]
    \/ count[v] = count[w] /\ Newer(v, w)

(* What stands at those places of a sequence, in their order. *)
Picked(seq, places) ==
    LET place == Sorted(places, <)
    IN  [i \in DOMAIN place |-> seq[place[i]]]

(* The rows of those ids that still have one, in the order of the ids. *)
Existing(ids) == Picked(ids, {i \in DOMAIN ids : ids[i] \in videos})

(* ZREM *)
Without(members, v) == Picked(members, {i \in DOMAIN members : members[i] # v})

-----------------------------------------------------------------------------
(* ListLatest: the cursor keeps whole seconds. *)
LatestRows ==
    Top({v \in videos : cursor.score = 0 \/ CreateTime[v] < cursor.score * 1000}, Newer)

(* A page, the source that matters for it and the cursor it leaves. *)
LatestPage ==
    LET rows == LatestRows
    IN  [rows   |-> rows,
         source |-> "mysql",
         cursor |-> IF rows = <<>> THEN cursor
                    ELSE [cursor EXCEPT !.score = Unix(CreateTime[Last(rows)])]]

(* Mutant: the next page starts with the last row of this one. *)
BoxAtOrBefore(box, score, place, before) ==
    LET Higher(v, w) == \/ score[v] > score[w]
                        \/ score[v] = score[w] /\ place[v] > place[w]
    IN  Top({v \in box : before = 0 \/ score[v] <= before}, Higher)

(* Entries of an inbox, of its sorted set, or of the outboxes below a      *)
(* score, highest score first.                                             *)
Box(box, score, place, before) ==
    LET Higher(v, w) == \/ score[v] > score[w]
                        \/ score[v] = score[w] /\ place[v] > place[w]
    IN  Top({v \in box : before = 0 \/ score[v] < before}, Higher)

(* The score of the last entry of a box, whether or not its video exists;  *)
(* without entries the cursor stays.                                       *)
NextScore(entries, score, before) ==
    IF entries = <<>> THEN before ELSE score[Last(entries)]

(* fetchInbox: the sorted set, unless it fails; the table instead when it  *)
(* is empty on the first page, and only then.                              *)
InboxEntries(source) ==
    Box(IF source = "mysql" THEN inbox ELSE inboxCache,
        InboxScore, Place[source], cursor.score)

InboxSources ==
    {source \in Source : source = "redis" /\ cursor.score = 0 => InboxEntries(source) # <<>>}

(* Mutant: the rows of the inbox first, then those of the outbox. *)
Concatenated(a, b) == Slice(a \o b, 0)

(* mergeByCreateTime: of the two heads the one created later, b's if they  *)
(* are of one time, until Limit rows are taken.  A video on both sides is  *)
(* taken twice.                                                            *)
Merge(a, b) ==
    LET both == Len(a) + Len(b)
        length == IF both < Limit THEN both ELSE Limit
        taken[n \in 0 .. length] ==         \* rows of a among the first n
            IF n = 0 THEN 0
            ELSE LET i == taken[n - 1] + 1
                     j == n - taken[n - 1]
                 IN  IF i <= Len(a) /\ (j <= Len(b) => CreateTime[a[i]] > CreateTime[b[j]])
                     THEN i ELSE i - 1
    IN  [n \in 1 .. length |->
            IF taken[n] > taken[n - 1] THEN a[taken[n]] ELSE b[n - taken[n]]]

(* Both cursors move to the last entry fetched, kept or not. *)
FollowingsPage(source) ==
    LET entries == InboxEntries(source)
        posts == Box(outbox, OutboxScore, Place["outbox"], cursor.outboxScore)
    IN  [rows   |-> Merge(Existing(entries), Existing(posts)),
         source |-> source,
         cursor |-> [cursor EXCEPT !.score = NextScore(entries, InboxScore, @),
                                   !.outboxScore = NextScore(posts, OutboxScore, @)]]

(* Mutant: the cursor of the likes list without the id. *)
LikesRowsByCount ==
    Top({v \in videos : cursor.id = 0 \/ count[v] < cursor.score}, MoreLiked)

(* ListLikesCountWithCursor. *)
LikesRows ==
    Top({v \in videos : \/ cursor.id = 0
                        \/ count[v] < cursor.score
                        \/ count[v] = cursor.score /\ v < cursor.id}, MoreLiked)

LikesPage ==
    LET rows == LikesRows
    IN  [rows   |-> rows,
         source |-> "mysql",
         cursor |-> IF rows = <<>> THEN cursor
                    ELSE [cursor EXCEPT !.score = count[Last(rows)],
                                        !.id = Last(rows)]]

(* popularityLister with Redis up: ranks offset .. offset + limit - 1, and *)
(* the offset moves by the videos found, not by the members read.          *)
RankedPage ==
    LET rows == Existing(Slice(ranking, cursor.offset))
    IN  [rows   |-> rows,
         source |-> "redis",
         cursor |-> [cursor EXCEPT !.offset = @ + Len(rows)]]

(* FeedRepository.ListByPopularity, the list when Redis fails or has no    *)
(* ranking: a cursor of its own.                                           *)
PopularRows(time) ==
    Top({v \in videos :
            \/ cursor.id = 0
            \/ count[v] < cursor.score
            \/ count[v] = cursor.score /\ CreateTime[v] < time
            \/ /\ count[v] = cursor.score
               /\ CreateTime[v] = time
               /\ v < cursor.id}, MorePopular)

(* The lister's cursor has the creation time cut to the second.            *)
StoredPage ==
    LET rows == PopularRows(cursor.time * 1000)
    IN  [rows   |-> rows,
         source |-> "mysql",
         cursor |-> IF rows = <<>> THEN cursor
                    ELSE [cursor EXCEPT !.score = count[Last(rows)],
                                        !.time = Unix(CreateTime[Last(rows)]),
                                        !.id = Last(rows)]]

(* The ranking answers: it has members, or the reader is past its first.   *)
Ranked == ranking # <<>> \/ cursor.offset > 0

Answers ==
    CASE kind = "latest"              -> {LatestPage}
      [] kind = "followings"          -> {FollowingsPage(source) : source \in InboxSources}
      [] kind = "order_by_likes"      -> {LikesPage}
      [] kind = "order_by_popularity" ->
            {StoredPage} \cup (IF Ranked THEN {RankedPage} ELSE {})

(* The page goes to the reader, who asks again only after a full one.      *)
Answered(answer) ==
    /\ hasMore
    /\ Len(pages) < MaxPages
    /\ pages' = Append(pages, answer.rows)
    /\ cursor' = answer.cursor
    /\ hasMore' = (Len(answer.rows) = Limit)
    /\ sources' = sources \cup {answer.source}
    /\ UNCHANGED <<kind, dataVars, start, changes>>

FetchFeeds ==
    /\ kind \in QueryType
    /\ \E answer \in Answers : Answered(answer)
    /\ UNCHANGED listCache

-----------------------------------------------------------------------------
(* ListLatest and ListByFollowing from the table, each page after the      *)
(* second of the last row; next_time is zero after an empty page.          *)
TimelineRows(before) ==
    Top({v \in videos : /\ kind = "listByFollowing" => v \in outbox
                        /\ before = 0 \/ CreateTime[v] < before * 1000}, Newer)

TimelinePage(rows) ==
    [rows   |-> rows,
     source |-> "mysql",
     cursor |-> [NoCursor EXCEPT
                    !.score = IF rows = <<>> THEN 0 ELSE Unix(CreateTime[Last(rows)])]]

(* The key of the list cache is the cursor, beside limit and account.      *)
CachedRows(before) == {page.rows : page \in {p \in listCache : p.before = before}}

WithCached(before, rows) ==
    {p \in listCache : p.before # before} \cup {[before |-> before, rows |-> rows]}

(* A page from the cache, or from the table when it is not there, Redis    *)
(* fails or the viewer of listLatest is logged in; after the table the     *)
(* page is cached, unless Redis fails or the viewer is logged in.          *)
FetchTimeline ==
    LET before == cursor.score
        fresh == TimelineRows(before)
    IN  /\ kind \in Cached
        /\ \/ \E rows \in CachedRows(before) : Answered(TimelinePage(rows))
              /\ UNCHANGED listCache
           \/ /\ Answered(TimelinePage(fresh))
              /\ listCache' \in {listCache, WithCached(before, fresh)}

(* Another request of the same list fills the cache, and an entry lives    *)
(* five seconds.                                                           *)
CacheTimeline(before) ==
    /\ kind \in Cached
    /\ hasMore
    /\ listCache' = WithCached(before, TimelineRows(before))
    /\ UNCHANGED <<kind, dataVars, cursor, pages, hasMore, sources, start, changes>>

(* ListLikesCount has the query and the cursor of the likes lister.        *)
ListLikesCount ==
    /\ kind = "listLikesCount"
    /\ Answered(LikesPage)
    /\ UNCHANGED listCache

(* ListByPopularity.  A page of the ranking brings an offset and the exact *)
(* place of its last video in the table; a page of the table brings that   *)
(* place and, its next_offset left at zero, the first rank again.  The     *)
(* page HotView gives back only the offset.                                *)
GivenBack(next) == IF kind = "hotView" THEN [NoCursor EXCEPT !.offset = next.offset] ELSE next

PlaceAfter(rows, offset) ==
    IF rows = <<>> THEN [NoCursor EXCEPT !.offset = offset]
    ELSE [NoCursor EXCEPT !.offset = offset, !.score = count[Last(rows)],
                          !.time = CreateTime[Last(rows)], !.id = Last(rows)]

HotRankedPage ==
    LET rows == Existing(Slice(ranking, cursor.offset))
    IN  [rows   |-> rows,
         source |-> "redis",
         cursor |-> GivenBack(PlaceAfter(rows, cursor.offset + Len(rows)))]

HotStoredPage ==
    LET rows == PopularRows(cursor.time)
    IN  [rows   |-> rows,
         source |-> "mysql",
         cursor |-> GivenBack(PlaceAfter(rows, 0))]

ListByPopularity ==
    /\ kind \in {"listByPopularity", "hotView"}
    /\ \/ Ranked /\ Answered(HotRankedPage)
       \/ Answered(HotStoredPage)
    /\ UNCHANGED listCache

-----------------------------------------------------------------------------
MayChange(what) ==
    /\ hasMore
    /\ Len(changes) < MaxChanges
    /\ changes' = Append(changes, what)
    /\ UNCHANGED <<kind, listCache, cursor, pages, hasMore, sources, start>>

(* A new video, and the boxes it goes to, if the reader follows its        *)
(* author: each of its two events is judged by the followers of its time.  *)
Arrive(v) ==
    /\ v > lastId
    /\ lastId' = v
    /\ MayChange("arrival")
    /\ videos' = videos \cup {v}
    /\ inbox' \in {inbox} \cup (IF kind = "followings" THEN {inbox \cup {v}} ELSE {})
    /\ inboxCache' \in {inboxCache, inboxCache \cup (inbox' \ inbox)}
    /\ outbox' \in {outbox} \cup (IF ByFollowing THEN {outbox \cup {v}} ELSE {})
    /\ outboxSoFar' = outboxSoFar \cup outbox'
    /\ UNCHANGED <<count, ranking>>

(* An event delivered late, of a video that may be gone by now: its entry  *)
(* in the inbox, in the sorted set too unless Redis fails, or its row in   *)
(* the outbox.                                                             *)
Deliver(v) ==
    /\ kind = "followings"
    /\ v <= lastId
    /\ MayChange("delivery")
    /\ \/ /\ inbox' = inbox \cup {v}
          /\ inboxCache' \in {inboxCache, inboxCache \cup {v}}
          /\ UNCHANGED <<outbox, outboxSoFar>>
       \/ /\ outbox' = outbox \cup {v}
          /\ outboxSoFar' = outboxSoFar \cup {v}
          /\ UNCHANGED <<inbox, inboxCache>>
    /\ UNCHANGED <<videos, lastId, count, ranking>>

(* The video goes and its entries in boxes stay; from the ranking it is    *)
(* taken, unless Redis fails.                                              *)
DeleteVideo(v) ==
    /\ v \in videos
    /\ MayChange("deletion")
    /\ videos' = videos \ {v}
    /\ ranking' \in {ranking, Without(ranking, v)}
    /\ UNCHANGED <<lastId, count, inbox, inboxCache, outbox, outboxSoFar>>

(* The reader leaves an author whose posts lie in the outbox, or follows   *)
(* one: the posts of an author the reader follows are read from then on.   *)
Unfollow(v) ==
    /\ ByFollowing
    /\ v \in outbox
    /\ MayChange("unfollow")
    /\ outbox' = outbox \ {v}
    /\ UNCHANGED <<videos, lastId, count, inbox, inboxCache, outboxSoFar, ranking>>

Follow(v) ==
    /\ ByFollowing
    /\ v <= lastId /\ v \notin outbox
    /\ MayChange("follow")
    /\ outbox' = outbox \cup {v}
    /\ outboxSoFar' = outboxSoFar \cup {v}
    /\ UNCHANGED <<videos, lastId, count, inbox, inboxCache, ranking>>

SwapRanks(i) == ranking' = [ranking EXCEPT ![i] = ranking[i + 1], ![i + 1] = ranking[i]]

(* A like, which may lift the video over the one before it, and an unlike, *)
(* which may drop it behind the one after it.                              *)
LikeVideo(v) ==
    /\ v \in videos
    /\ MayChange("like")
    /\ count' = [count EXCEPT ![v] = @ + 1]
    /\ \/ UNCHANGED ranking
       \/ \E i \in 1 .. Len(ranking) - 1 : ranking[i + 1] = v /\ SwapRanks(i)
    /\ UNCHANGED <<videos, lastId, inbox, inboxCache, outbox, outboxSoFar>>

UnlikeVideo(v) ==
    /\ v \in videos
    /\ count[v] > 0
    /\ MayChange("unlike")
    /\ count' = [count EXCEPT ![v] = @ - 1]
    /\ \/ UNCHANGED ranking
       \/ \E i \in 1 .. Len(ranking) - 1 : ranking[i] = v /\ SwapRanks(i)
    /\ UNCHANGED <<videos, lastId, inbox, inboxCache, outbox, outboxSoFar>>

-----------------------------------------------------------------------------
(* The lists differ by session: boxes with entries of any videos, of one   *)
(* in both and of deleted ones too, a sorted set with some of the inbox,   *)
(* counts where the list is ordered by them, and a ranking that may still  *)
(* hold a deleted video.                                                   *)
Init ==
    /\ kind \in Kind
    /\ videos \in SUBSET Video
    /\ count \in [Video -> IF kind \in ByPopularity \cup {"order_by_likes", "listLikesCount"}
                            THEN Counts ELSE {0}]
    /\ inbox \in IF kind = "followings" THEN SUBSET Video ELSE {{}}
    /\ inboxCache \in SUBSET inbox
    /\ outbox \in CASE kind = "followings"      -> SUBSET Video
                    [] kind = "listByFollowing" -> SUBSET videos
                    [] OTHER                    -> {{}}
    /\ outboxSoFar = outbox
    /\ ranking \in IF kind \in ByPopularity THEN Rankings ELSE {<<>>}
    /\ LET given == videos \cup inbox \cup outbox \cup ToSet(ranking)
       IN  lastId \in given \cup {0} /\ \A v \in given : v <= lastId
    /\ listCache = {}
    /\ cursor = NoCursor
    /\ pages = <<>>
    /\ hasMore = TRUE
    /\ sources = {}
    /\ start = videos
    /\ changes = <<>>

Change(v) ==
    \/ Arrive(v) \/ Deliver(v) \/ DeleteVideo(v)
    \/ Follow(v) \/ Unfollow(v)
    \/ LikeVideo(v) \/ UnlikeVideo(v)

Next ==
    \/ FetchFeeds
    \/ FetchTimeline
    \/ ListLikesCount
    \/ ListByPopularity
    \/ \E v \in Video : Change(v)
    \/ \E before \in {0} \cup {Unix(CreateTime[v]) : v \in Video} : CacheTimeline(before)

Spec == Init /\ [][Next]_vars

-----------------------------------------------------------------------------
TypeOK ==
    /\ kind \in Kind
    /\ videos \subseteq Video
    /\ lastId \in Nat
    /\ count \in [Video -> Nat]
    /\ inbox \subseteq Video
    /\ inboxCache \subseteq inbox
    /\ outbox \subseteq outboxSoFar /\ outboxSoFar \subseteq Video
    /\ ranking \in Seq(Video)
    /\ \A page \in listCache : page.before \in Nat /\ page.rows \in Seq(Video)
    /\ cursor \in Cursor
    /\ \A i \in DOMAIN pages : pages[i] \in Seq(Video) /\ Len(pages[i]) <= Limit
    /\ hasMore \in BOOLEAN
    /\ sources \subseteq Source
    /\ start \subseteq Video
    /\ changes \in Seq({"arrival", "delivery", "deletion", "follow", "unfollow",
                        "like", "unlike"})

Returned == UNION {ToSet(pages[i]) : i \in DOMAIN pages}
Static == changes = <<>>
Happened(what) == \E i \in DOMAIN changes : changes[i] = what

(* What a list has to show to the reader of this session. *)
Wanted ==
    CASE ByFollowing -> inbox \cup outbox
      [] kind \in ByPopularity /\ sources = {"redis"} -> ToSet(ranking)
      [] OTHER -> videos

SeparateSeconds ==
    \A v, w \in videos : v # w => Unix(CreateTime[v]) # Unix(CreateTime[w])

OneSource == Cardinality(sources) <= 1
RankingExists == ToSet(ranking) \subseteq videos
ByLikes == kind \in {"order_by_likes", "listLikesCount"}
WholeSeconds == kind = "latest" \/ kind \in Cached

BoxesExist == inbox \cup outboxSoFar \subseteq videos
Overlap == inbox \cap outboxSoFar

(* Each box is in the order in which its videos were created. *)
ScoresFollowTimes ==
    /\ \A v, w \in inbox :
          CreateTime[v] > CreateTime[w] => InboxScore[v] > InboxScore[w]
    /\ \A v, w \in outboxSoFar :
          CreateTime[v] > CreateTime[w] => OutboxScore[v] > OutboxScore[w]

DistinctScores ==
    /\ \A v, w \in inbox : InboxScore[v] = InboxScore[w] => v = w
    /\ \A v, w \in outboxSoFar : OutboxScore[v] = OutboxScore[w] => v = w

(* No video comes twice in a session: the lists by time keep that whatever *)
(* arrives or goes, whichever source answers and however old the cached    *)
(* pages are, but for a followings list's video that is in both boxes; the *)
(* lists by a count of the table keep it as long as nobody takes a like    *)
(* back (a video that rises is behind the reader already), and the ranking *)
(* as long as its members exist and keep their places.  The page HotView   *)
(* has no such promise once the table answers (the FetchVideoList of four  *)
(* listers, mergeByCreateTime, the List... of FeedService).                *)
PagesDoNotRepeat ==
    \/ ByLikes /\ Happened("unlike")
    \/ /\ kind \in ByPopularity
       /\ kind = "hotView" \/ sources # {"mysql"} \/ Happened("unlike")
       /\ \/ sources # {"redis"}
          \/ ~RankingExists
          \/ Happened("like") \/ Happened("unlike")
    \/ \A i, j \in DOMAIN pages :
          i < j => ToSet(pages[i]) \cap ToSet(pages[j]) \subseteq Overlap

(* Across pages too the lists by time go from new to old, except for what  *)
(* arrived during the session: single lists even from cached pages of      *)
(* several ages; the merge of two boxes with a cursor each as long as no   *)
(* entry lacks its video, the events of each box were stamped in the order *)
(* of creation, no author was followed, no event came late and the table   *)
(* does not take over from an incomplete sorted set (latestLister,         *)
(* FetchTimeline, followingsLister, fetchInbox, mergeByCreateTime).        *)
PagesGoBackInTime ==
    (\/ WholeSeconds
     \/ /\ kind = "followings"
        /\ BoxesExist
        /\ ScoresFollowTimes
        /\ ~Happened("follow") /\ ~Happened("delivery")
        /\ OneSource \/ inboxCache = inbox) =>
    LET all == FlattenSeq(pages)
    IN  \A m, n \in DOMAIN all :
            m < n /\ {all[m], all[n]} \subseteq start =>
            CreateTime[all[m]] >= CreateTime[all[n]]

(* A session that nothing disturbs and that has come to its end has shown  *)
(* everything: a followings list with one kind of author, read from the    *)
(* table or from a complete sorted set, whose entries have their videos    *)
(* and scores of their own (of equal ones the rest is lost at the end of a *)
(* page); a list whose cursor is a whole second, cached or not, without    *)
(* two videos of one second; a ranking whose members exist; a likes list   *)
(* even if all counts are equal; and listByPopularity from the table,      *)
(* whose cursor is exact.                                                  *)
PagesMissNothing ==
    ~hasMore /\ Static =>
    \/ /\ kind = "followings"
       /\ \/ inbox # {} /\ outbox # {}
          \/ "redis" \in sources /\ inboxCache # inbox
          \/ ~BoxesExist
          \/ ~DistinctScores
    \/ WholeSeconds /\ ~SeparateSeconds
    \/ kind = "order_by_popularity" /\ sources = {"mysql"} /\ ~SeparateSeconds
    \/ kind \in ByPopularity /\ ~(OneSource /\ RankingExists)
    \/ Wanted \subseteq Returned

=============================================================================
