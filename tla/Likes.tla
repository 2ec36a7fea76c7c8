-------------------------------- MODULE Likes --------------------------------
(***************************************************************************)
(* LikeService (video/like_service.go) and LikeWorker                      *)
(* (worker/likeworker.go).  A request checks, publishes, and writes the    *)
(* tables itself when the publish failed; a consumer writes the row and    *)
(* the two counters in three statements, and an error or a stop at any of  *)
(* them puts the event back into the queue.                                *)
(***************************************************************************)
EXTENDS VideoStats

CONSTANTS
    Account,
    LikeCaller,     \* requests LikeService serves at one time
    LikeConsumer    \* running LikeWorkers

ASSUME LikesAssumption == IsFiniteSet(LikeCaller) /\ IsFiniteSet(LikeConsumer)

VARIABLES
    likes,          \* table likes, unique on (account_id, video_id)
    likeCall,       \* where each caller is
    likeQueue,      \* like.events: events ready for delivery
    likeJob,        \* where each consumer is
    last            \* history: the last accepted request of (account, video)

likeVars == <<likes, likeCall, likeQueue, likeJob, last>>

-----------------------------------------------------------------------------
Idle == [at |-> "idle"]

LikeEvent == [action : {"like", "unlike"}, account : Account, video : Video]

LikeCall == {Idle} \cup
    [at : {"publish", "write"}, event : LikeEvent, heated : BOOLEAN]

LikeJob == {Idle} \cup
    [at : {"row", "likes", "popularity", "ack"}, event : LikeEvent]

Key(event) == <<event.account, event.video>>
ChangeOf(event) == IF event.action = "like" THEN 1 ELSE -1
Present(event) == Key(event) \in likes

(* Mutant: a second like takes the row away again. *)
LikesToggled(event) ==
    IF Present(event) THEN likes \ {Key(event)} ELSE likes \cup {Key(event)}

(* The row of the event is written or deleted. *)
LikesAfter(event) ==
    IF event.action = "like" THEN likes \cup {Key(event)} ELSE likes \ {Key(event)}

(* Mutant: neither the requests nor the worker look at the table. *)
AlwaysEffective(event) == TRUE

(* The event would change the table. *)
Effective(event) == (event.action = "like") # Present(event)

(* The request returns without error. *)
Accept(event) ==
    /\ last' = [last EXCEPT ![Key(event)] = event.action]
    /\ accepted' = [accepted EXCEPT ![event.video] = @ + ChangeOf(event)]

-----------------------------------------------------------------------------
(* Like and Unlike up to IsLiked; a request that fails here changes        *)
(* nothing.                                                                *)
CheckLike(c, event) ==
    /\ likeCall[c] = Idle
    /\ requests < MaxRequests
    /\ event.video \in videos
    /\ Effective(event)
    /\ requests' = requests + 1
    /\ likeCall' = [likeCall EXCEPT ![c] =
          [at |-> "publish", event |-> event, heated |-> FALSE]]
    /\ UNCHANGED <<likes, likeQueue, likeJob, last, rowVars, hotVars, accepted,
                   publishFailures, faults>>

(* Both publishes; with the like event queued the request is accepted.     *)
PublishLike(c) ==
    LET event == likeCall[c].event
    IN  /\ likeCall[c].at = "publish"
        /\ likeQueue' = Append(likeQueue, event)
        /\ Heat(event.video, ChangeOf(event))
        /\ Accept(event)
        /\ likeCall' = [likeCall EXCEPT ![c] = Idle]
        /\ UNCHANGED <<likes, likeJob, rowVars, requests, faults>>

(* The like event is not published; the popularity event may be. *)
FailToPublishLike(c) ==
    LET event == likeCall[c].event
    IN  /\ likeCall[c].at = "publish"
        /\ PublishFails
        /\ \E heated \in BOOLEAN :
              /\ IF heated THEN Enqueue(event.video, ChangeOf(event))
                           ELSE UNCHANGED hotQueue
              /\ likeCall' = [likeCall EXCEPT ![c] =
                    [at |-> "write", event |-> event, heated |-> heated]]
        /\ UNCHANGED <<likes, likeQueue, likeJob, last, rowVars, hot, accepted,
                       requests, faults>>

(* The fallbacks clamp a column they lower and add one to any other.       *)
Counted(column, event) ==
    IF event.action = "like" THEN Raised(column, event.video, 1)
    ELSE Shifted(column, event.video, -1)

(* Mutant: the fallback forgets the popularity of the video. *)
WriteLikeOnly(c) ==
    LET event == likeCall[c].event
        v     == event.video
    IN  /\ likeCall[c].at = "write"
        /\ event.action = "like" => v \in videos
        /\ Effective(event)
        /\ likes' = LikesAfter(event)
        /\ likesCount' = Counted(likesCount, event)
        /\ IF likeCall[c].heated THEN UNCHANGED hot
           ELSE UpdatePopularityCache(v, ChangeOf(event))
        /\ Accept(event)
        /\ likeCall' = [likeCall EXCEPT ![c] = Idle]
        /\ UNCHANGED <<likeQueue, likeJob, videos, popularity, removing, otherVars,
                       hotQueue, requests, publishFailures, faults>>

(* The fallback transaction commits, then Redis is updated if its event    *)
(* was not published either.                                               *)
WriteLike(c) ==
    LET event == likeCall[c].event
        v     == event.video
    IN  /\ likeCall[c].at = "write"
        /\ event.action = "like" => v \in videos
        /\ Effective(event)
        /\ likes' = LikesAfter(event)
        /\ likesCount' = Counted(likesCount, event)
        /\ popularity' = Counted(popularity, event)
        /\ IF likeCall[c].heated THEN UNCHANGED hot
           ELSE UpdatePopularityCache(v, ChangeOf(event))
        /\ Accept(event)
        /\ likeCall' = [likeCall EXCEPT ![c] = Idle]
        /\ UNCHANGED <<likeQueue, likeJob, videos, removing, otherVars, hotQueue, requests,
                       publishFailures, faults>>

(* The fallback transaction rolls back: the video is gone, the row is (not) *)
(* there any more, or the database reports an error.                       *)
RefuseLike(c) ==
    /\ likeCall[c].at = "write"
    /\ likeCall' = [likeCall EXCEPT ![c] = Idle]
    /\ UNCHANGED <<likes, likeQueue, likeJob, last, statVars>>

-----------------------------------------------------------------------------
(* Mutant: an event of a deleted video is put back into the queue. *)
DeliverLikeAgain(w) ==
    LET event == Head(likeQueue)
    IN  /\ likeJob[w] = Idle
        /\ likeQueue # <<>>
        /\ IF event.video \in videos
           THEN /\ likeQueue' = Tail(likeQueue)
                /\ likeJob' = [likeJob EXCEPT ![w] = [at |-> "row", event |-> event]]
           ELSE likeQueue' = Append(Tail(likeQueue), event) /\ UNCHANGED likeJob
        /\ UNCHANGED <<likes, likeCall, last, statVars>>

(* A delivery, and IsExist: the event of a deleted video is acknowledged.  *)
DeliverLike(w) ==
    LET event == Head(likeQueue)
    IN  /\ likeJob[w] = Idle
        /\ likeQueue # <<>>
        /\ likeQueue' = Tail(likeQueue)
        /\ likeJob' = [likeJob EXCEPT ![w] =
              IF event.video \in videos THEN [at |-> "row", event |-> event] ELSE Idle]
        /\ UNCHANGED <<likes, likeCall, last, statVars>>

(* Mutant: the worker counts whether or not it wrote a row. *)
ApplyLikeAndCount(w) ==
    /\ likeJob[w].at = "row"
    /\ likes' = LikesAfter(likeJob[w].event)
    /\ likeJob' = [likeJob EXCEPT ![w].at = "likes"]
    /\ UNCHANGED <<likeCall, likeQueue, last, statVars>>

(* LikeIgnoreDuplicate, DeleteByVideoAndAccount: without an effect there   *)
(* is nothing to count.                                                    *)
ApplyLike(w) ==
    LET event == likeJob[w].event
    IN  /\ likeJob[w].at = "row"
        /\ likes' = LikesAfter(event)
        /\ likeJob' = [likeJob EXCEPT ![w].at =
              IF Effective(event) THEN "likes" ELSE "ack"]
        /\ UNCHANGED <<likeCall, likeQueue, last, statVars>>

ChangeLikesCount(w) ==
    LET event == likeJob[w].event
    IN  /\ likeJob[w].at = "likes"
        /\ likesCount' = Shifted(likesCount, event.video, ChangeOf(event))
        /\ likeJob' = [likeJob EXCEPT ![w].at = "popularity"]
        /\ UNCHANGED <<likes, likeCall, likeQueue, last, videos, popularity,
                       removing, otherVars, hotVars, accepted, requests, publishFailures, faults>>

ChangePopularityOfLike(w) ==
    LET event == likeJob[w].event
    IN  /\ likeJob[w].at = "popularity"
        /\ popularity' = Shifted(popularity, event.video, ChangeOf(event))
        /\ likeJob' = [likeJob EXCEPT ![w].at = "ack"]
        /\ UNCHANGED <<likes, likeCall, likeQueue, last, videos, likesCount,
                       removing, otherVars, hotVars, accepted, requests, publishFailures, faults>>

AckLike(w) ==
    /\ likeJob[w].at = "ack"
    /\ likeJob' = [likeJob EXCEPT ![w] = Idle]
    /\ UNCHANGED <<likes, likeCall, likeQueue, last, statVars>>

(* A statement fails (Nack with requeue), or the worker stops before its   *)
(* acknowledgement.  Up to 50 events are delivered ahead, so the event may *)
(* come back behind any of those that followed it.                         *)
RequeueLike(w) ==
    /\ likeJob[w] # Idle
    /\ Fault
    /\ \E i \in 1 .. Len(likeQueue) + 1 :
          likeQueue' = InsertAt(likeQueue, i, likeJob[w].event)
    /\ likeJob' = [likeJob EXCEPT ![w] = Idle]
    /\ UNCHANGED <<likes, likeCall, last, rowVars, hotVars, accepted, requests,
                   publishFailures>>

-----------------------------------------------------------------------------
LikesTypeOK ==
    /\ likes \subseteq Account \X Video
    /\ likeCall \in [LikeCaller -> LikeCall]
    /\ likeQueue \in Seq(LikeEvent)
    /\ likeJob \in [LikeConsumer -> LikeJob]
    /\ last \in [Account \X Video -> {"none", "like", "unlike"}]

LikesInit ==
    /\ likes = {}
    /\ likeCall = [c \in LikeCaller |-> Idle]
    /\ likeQueue = <<>>
    /\ likeJob = [w \in LikeConsumer |-> Idle]
    /\ last = [k \in Account \X Video |-> "none"]

LikeCallerStep(c) ==
    PublishLike(c) \/ FailToPublishLike(c) \/ WriteLike(c) \/ RefuseLike(c)

LikeConsumerStep(w) ==
    \/ DeliverLike(w) \/ ApplyLike(w) \/ ChangeLikesCount(w)
    \/ ChangePopularityOfLike(w) \/ AckLike(w)

LikesNext ==
    \/ \E c \in LikeCaller : (\E e \in LikeEvent : CheckLike(c, e)) \/ LikeCallerStep(c)
    \/ \E w \in LikeConsumer : LikeConsumerStep(w) \/ RequeueLike(w)

LikesAtRest ==
    /\ likeQueue = <<>>
    /\ \A c \in LikeCaller : likeCall[c] = Idle
    /\ \A w \in LikeConsumer : likeJob[w] = Idle

LikesOf(v) == {k \in likes : k[2] = v}

(* Likes whose row a consumer wrote and whose counter it has still to      *)
(* raise: "at" names the statements that are still to come.                *)
Uncounted(v, at) ==
    {w \in LikeConsumer : /\ likeJob[w].at \in at
                          /\ likeJob[w].event.video = v
                          /\ likeJob[w].event.action = "like"}
=============================================================================
