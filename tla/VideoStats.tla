------------------------------ MODULE VideoStats ------------------------------
(***************************************************************************)
(* What likes and comments count into: the columns likes_count and         *)
(* popularity of table videos, and the hot ranking in Redis, which is fed  *)
(* by a queue of popularity events (worker/popularityworker.go) and by the *)
(* services themselves when they cannot publish.  A decayed score is       *)
(* a sum of positive weights, so a score is the sum of its changes here.   *)
(* Two writers beside them are modelled here: POST /video/updateLikesCount *)
(* sets likes_count to what it is told, and a gift raises popularity.      *)
(***************************************************************************)
EXTENDS Integers, FiniteSets, Sequences, SequencesExt

CONSTANTS
    Video,
    GiftWeight,          \* what a gift adds to the popularity of its video
    LikesCountValue,     \* numbers updateLikesCount is called with
    MaxRequests,         \* bound: requests that pass their checks
    MaxPublishFailures,  \* bound: requests that meet a publish error
    MaxFaults            \* bound: redeliveries, and Redis updates that fail

(* The weights of the gift catalog run from 2 to 300. *)
ASSUME StatsAssumption ==
    /\ GiftWeight \in Nat /\ GiftWeight >= 2
    /\ LikesCountValue \subseteq Int
    /\ MaxRequests \in Nat
    /\ MaxPublishFailures \in Nat
    /\ MaxFaults \in Nat

VARIABLES
    videos,           \* ids with a row in table videos
    likesCount,       \* videos.likes_count, 0 once the row is gone
    popularity,       \* videos.popularity, 0 once the row is gone
    hot,              \* sorted set hot:video:decay: score of each member
    hotQueue,         \* popularity events not yet acknowledged, by change
    removing,         \* deleted videos still to be removed from the ranking
    gifting,          \* committed gifts whose popularity event is to come
    gifted,           \* history: what gifts added to popularity
    overwritten,      \* history: videos updateLikesCount was called for
    given,            \* history: what its calls added to likes_count
    accepted,         \* history: sum of the changes of accepted requests
    requests,         \* requests so far
    publishFailures,  \* requests with a failed publish so far
    faults            \* faults so far

otherVars == <<gifting, gifted, overwritten, given>>
rowVars == <<videos, likesCount, popularity, removing, otherVars>>
hotVars == <<hot, hotQueue>>
statVars == <<rowVars, hotVars, accepted, requests, publishFailures, faults>>

-----------------------------------------------------------------------------
Change == {1, -1, GiftWeight}

(* GREATEST(column + change, 0); no row, no update. *)
Greatest0(n) == IF n >= 0 THEN n ELSE 0
Shifted(column, v, change) ==
    IF v \in videos THEN [column EXCEPT ![v] = Greatest0(@ + change)] ELSE column

(* column + change, as the fallbacks and the gifts write it. *)
Raised(column, v, change) ==
    IF v \in videos THEN [column EXCEPT ![v] = @ + change] ELSE column

(* ZINCRBY: a member that is not there starts from zero. *)
Score(v) == IF v \in DOMAIN hot THEN hot[v] ELSE 0
UpdatePopularityCache(v, change) ==
    hot' = [w \in DOMAIN hot \cup {v} |-> IF w = v THEN Score(v) + change ELSE hot[w]]

Enqueue(v, change) ==
    hotQueue' = [hotQueue EXCEPT ![<<v, change>>] = @ + 1]

PublishFails ==
    /\ publishFailures < MaxPublishFailures
    /\ publishFailures' = publishFailures + 1

Fault ==
    /\ faults < MaxFaults
    /\ faults' = faults + 1

(* Mutant: Redis is updated although the event was published. *)
HeatTwice(v, change) ==
    \/ /\ Enqueue(v, change)
       /\ UpdatePopularityCache(v, change)
       /\ UNCHANGED publishFailures
    \/ PublishFails /\ UpdatePopularityCache(v, change) /\ UNCHANGED hotQueue

(* The service publishes a popularity event or, failing that, updates      *)
(* Redis itself.                                                           *)
Heat(v, change) ==
    \/ Enqueue(v, change) /\ UNCHANGED <<hot, publishFailures>>
    \/ PublishFails /\ UpdatePopularityCache(v, change) /\ UNCHANGED hotQueue

-----------------------------------------------------------------------------
(* PopularityWorker handles one event.  The events of one video only add   *)
(* up, so their order does not matter.                                     *)
ApplyPopularity(v, change) ==
    /\ hotQueue[<<v, change>>] > 0
    /\ hotQueue' = [hotQueue EXCEPT ![<<v, change>>] = @ - 1]
    /\ UpdatePopularityCache(v, change)
    /\ UNCHANGED <<rowVars, accepted, requests, publishFailures, faults>>

(* The worker stops before its acknowledgement: the event comes again. *)
RepeatPopularity(v, change) ==
    /\ hotQueue[<<v, change>>] > 0
    /\ Fault
    /\ UpdatePopularityCache(v, change)
    /\ UNCHANGED <<rowVars, hotQueue, accepted, requests, publishFailures>>

(* ZINCRBY fails or takes longer than 50 ms: its error is ignored and the  *)
(* event is acknowledged.                                                  *)
MissPopularity(v, change) ==
    /\ hotQueue[<<v, change>>] > 0
    /\ Fault
    /\ hotQueue' = [hotQueue EXCEPT ![<<v, change>>] = @ - 1]
    /\ UNCHANGED <<rowVars, hot, accepted, requests, publishFailures>>

(* VideoService.Delete and AdminDelete: the row, then the ranking.  Likes  *)
(* and comments of the video stay in their tables.                         *)
DeleteVideo(v) ==
    /\ v \in videos
    /\ videos' = videos \ {v}
    /\ likesCount' = [likesCount EXCEPT ![v] = 0]
    /\ popularity' = [popularity EXCEPT ![v] = 0]
    /\ removing' = removing \cup {v}
    /\ UNCHANGED <<otherVars, hotVars, accepted, requests, publishFailures, faults>>

RemoveFromRanking(v) ==
    /\ v \in removing
    /\ removing' = removing \ {v}
    /\ hot' = [w \in DOMAIN hot \ {v} |-> hot[w]]
    /\ UNCHANGED <<videos, likesCount, popularity, otherVars, hotQueue, accepted,
                   requests, publishFailures, faults>>

-----------------------------------------------------------------------------
(* VideoService.UpdateLikesCount: any number, negative ones too.  Without  *)
(* a row nothing is updated.                                               *)
UpdateLikesCount(v, n) ==
    /\ requests < MaxRequests
    /\ v \in videos
    /\ requests' = requests + 1
    /\ likesCount' = [likesCount EXCEPT ![v] = n]
    /\ overwritten' = overwritten \cup {v}
    /\ given' = [given EXCEPT ![v] = @ + n - likesCount[v]]
    /\ UNCHANGED <<videos, popularity, removing, gifting, gifted, hotVars, accepted,
                   publishFailures, faults>>

(* SendGift commits (the wallets and ledgers of it are in PayGifts).  It   *)
(* read the video before its transaction, so the row may be gone.          *)
SendGift(v) ==
    /\ requests < MaxRequests
    /\ requests' = requests + 1
    /\ popularity' = Raised(popularity, v, GiftWeight)
    /\ gifted' = [gifted EXCEPT ![v] = @ + GiftWeight]
    /\ gifting' = [gifting EXCEPT ![v] = @ + 1]
    /\ UNCHANGED <<videos, likesCount, removing, overwritten, given, hotVars, accepted,
                   publishFailures, faults>>

(* Then it publishes the popularity event.  An error is dropped: nothing   *)
(* updates Redis in its place.                                             *)
HeatGift(v) ==
    /\ gifting[v] > 0
    /\ gifting' = [gifting EXCEPT ![v] = @ - 1]
    /\ accepted' = [accepted EXCEPT ![v] = @ + GiftWeight]
    /\ \/ Enqueue(v, GiftWeight) /\ UNCHANGED publishFailures
       \/ PublishFails /\ UNCHANGED hotQueue
    /\ UNCHANGED <<videos, likesCount, popularity, removing, gifted, overwritten, given,
                   hot, requests, faults>>

-----------------------------------------------------------------------------
StatsTypeOK ==
    /\ videos \subseteq Video
    /\ likesCount \in [Video -> Int]
    /\ \A v \in Video : likesCount[v] < 0 => v \in overwritten
    /\ popularity \in [Video -> Nat]
    /\ gifting \in [Video -> Nat]
    /\ gifted \in [Video -> Nat]
    /\ overwritten \subseteq Video
    /\ given \in [Video -> Int]
    /\ DOMAIN hot \subseteq Video
    /\ hot \in [DOMAIN hot -> Int]
    /\ hotQueue \in [Video \X Change -> Nat]
    /\ removing \subseteq Video
    /\ accepted \in [Video -> Int]
    /\ requests \in 0 .. MaxRequests
    /\ publishFailures \in 0 .. MaxPublishFailures
    /\ faults \in 0 .. MaxFaults

StatsInit ==
    /\ videos = Video
    /\ likesCount = [v \in Video |-> 0]
    /\ popularity = [v \in Video |-> 0]
    /\ hot = [v \in {} |-> 0]
    /\ hotQueue = [e \in Video \X Change |-> 0]
    /\ removing = {}
    /\ gifting = [v \in Video |-> 0]
    /\ gifted = [v \in Video |-> 0]
    /\ overwritten = {}
    /\ given = [v \in Video |-> 0]
    /\ accepted = [v \in Video |-> 0]
    /\ requests = 0
    /\ publishFailures = 0
    /\ faults = 0

StatsNext ==
    \/ \E v \in Video, change \in Change :
          \/ ApplyPopularity(v, change)
          \/ RepeatPopularity(v, change)
          \/ MissPopularity(v, change)
    \/ \E v \in Video :
          \/ DeleteVideo(v) \/ RemoveFromRanking(v)
          \/ \E n \in LikesCountValue : UpdateLikesCount(v, n)
          \/ SendGift(v) \/ HeatGift(v)
=============================================================================
