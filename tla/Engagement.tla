------------------------------ MODULE Engagement ------------------------------
(***************************************************************************)
(* Likes and comments of videos together: two services and two workers     *)
(* that share the counters of table videos and the hot ranking.            *)
(***************************************************************************)
EXTENDS Likes, Comments

vars == <<statVars, likeVars, commentVars>>

Init == StatsInit /\ LikesInit /\ CommentsInit

Next ==
    \/ StatsNext /\ UNCHANGED <<likeVars, commentVars>>
    \/ LikesNext /\ UNCHANGED commentVars
    \/ CommentsNext /\ UNCHANGED likeVars

(* A request that has begun returns, a delivered event is worked on, and a *)
(* queue with a consumer is consumed.                                      *)
Fairness ==
    /\ \A c \in LikeCaller : WF_vars(LikeCallerStep(c) /\ UNCHANGED commentVars)
    /\ \A w \in LikeConsumer : WF_vars(LikeConsumerStep(w) /\ UNCHANGED commentVars)
    /\ \A c \in CommentCaller : WF_vars(CommentCallerStep(c) /\ UNCHANGED likeVars)
    /\ \A w \in CommentConsumer : WF_vars(CommentConsumerStep(w) /\ UNCHANGED likeVars)

Spec == Init /\ [][Next]_vars
FairSpec == Spec /\ Fairness

-----------------------------------------------------------------------------
TypeOK == StatsTypeOK /\ LikesTypeOK /\ CommentsTypeOK

AtRest == LikesAtRest /\ CommentsAtRest

(* No redelivery, every publish accepted, one consumer per queue. *)
Undisturbed ==
    /\ faults = 0
    /\ publishFailures = 0
    /\ Cardinality(LikeConsumer) = 1
    /\ Cardinality(CommentConsumer) = 1

Queued(v) ==
    hotQueue[<<v, 1>>] - hotQueue[<<v, -1>>] + GiftWeight * hotQueue[<<v, GiftWeight>>]
Distance(m, n) == IF m >= n THEN m - n ELSE n - m

(* What likes and unlikes made of likes_count falls short of the rows of   *)
(* likes by no more than the rows that are just being counted and the      *)
(* redeliveries so far: whatever two requests of one user, a fallback      *)
(* beside a worker, or an unlike do, a counter is never lowered twice for  *)
(* one row (like_service.go Like and Unlike, likeworker.go applyLike and   *)
(* applyUnlike).  What updateLikesCount added to the column, or took from  *)
(* it, is put aside.                                                       *)
LikesCountKeepsUp ==
    \A v \in videos :
        likesCount[v] - given[v] + Cardinality(Uncounted(v, {"likes"})) + faults
            >= Cardinality(LikesOf(v))

(* The same for popularity, which likes, comments and gifts share.  It     *)
(* needs the single comment worker of docker-compose.yml: applyDelete      *)
(* lowers the counter without looking whether its DELETE found the row.    *)
PopularityKeepsUp ==
    Cardinality(CommentConsumer) = 1 =>
    \A v \in videos :
        popularity[v] + Cardinality(Uncounted(v, {"likes", "popularity"}))
                      + Cardinality(Unraised(v)) + faults
            >= Cardinality(LikesOf(v)) + Cardinality(CommentsOf(v)) + gifted[v]

(* Undisturbed, the counters are exact once all work is done, in spite of  *)
(* double clicks, deletes of one comment by two callers, unlikes that are  *)
(* queued while their like is being counted, and gifts in between.  For a  *)
(* video whose likes_count updateLikesCount has set, only popularity is.   *)
CountsExact ==
    AtRest /\ Undisturbed =>
    \A v \in videos :
        /\ v \notin overwritten => likesCount[v] = Cardinality(LikesOf(v))
        /\ popularity[v] =
              Cardinality(LikesOf(v)) + Cardinality(CommentsOf(v)) + gifted[v]

(* Undisturbed, what an account sees of its like in the end is what its    *)
(* last accepted request asked for, although requests are checked against  *)
(* rows that lag behind the queue.                                         *)
LatestRequestWins ==
    LikesAtRest /\ Undisturbed =>
    \A a \in Account, v \in videos :
        last[<<a, v>>] # "none" => ((last[<<a, v>>] = "like") = (<<a, v>> \in likes))

(* Every accepted comment gets a row, and one more at most per redelivery  *)
(* (comment_service.go Publish, commentworker.go applyPublish).            *)
CommentsLand ==
    /\ created <= published + faults
    /\ CommentsAtRest /\ videos = Video => created >= published

(* The ranking counts every accepted request and every gift once, whether  *)
(* its event was published or Redis was updated directly.  It is off by    *)
(* one change, at most, per fault and per request with a publish error: a  *)
(* request that published its popularity event and then failed, or a gift  *)
(* whose event was lost.                                                   *)
RankingFollowsRequests ==
    \A v \in videos :
        Distance(Score(v) + Queued(v), accepted[v])
            <= GiftWeight * (faults + publishFailures)

(* Requests and queues come to rest again after every burst: no event is   *)
(* requeued or handed around for ever.                                     *)
WorkDrains == []<>AtRest
=============================================================================
