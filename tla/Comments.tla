------------------------------- MODULE Comments -------------------------------
(***************************************************************************)
(* CommentService (video/comment_service.go) and CommentWorker             *)
(* (worker/commentworker.go).  Comments have no natural key: an event that *)
(* is delivered twice writes two rows.  Whoever may delete a comment,      *)
(* AdminDelete may, so the author of a row is left out.                    *)
(***************************************************************************)
EXTENDS VideoStats

CONSTANTS
    CommentCaller,     \* requests CommentService serves at one time
    CommentConsumer    \* running CommentWorkers

ASSUME CommentsAssumption == IsFiniteSet(CommentCaller) /\ IsFiniteSet(CommentConsumer)

VARIABLES
    comments,          \* table comments
    created,           \* rows ever inserted into it; the last id given out
    published,         \* history: accepted publish requests
    commentCall,       \* where each caller is
    commentQueue,      \* comment.events: events ready for delivery
    commentJob         \* where each consumer is

commentVars == <<comments, created, published, commentCall, commentQueue, commentJob>>

-----------------------------------------------------------------------------
Quiet == [at |-> "idle"]

Comment == [id : Nat \ {0}, video : Video]

CommentEvent ==
    [action : {"publish"}, video : Video] \cup [action : {"delete"}, id : Nat \ {0}]

CommentCall == {Quiet} \cup
    [at : {"publish", "write"}, video : Video, heated : BOOLEAN] \cup
    [at : {"delete"}, comment : Comment]

CommentJob == {Quiet} \cup
    [at : {"insert", "raise", "acked"}, event : CommentEvent, video : Video] \cup
    [at : {"remove", "lower"}, event : CommentEvent, comment : Comment]

InsertComment(v) ==
    /\ comments' = comments \cup {[id |-> created + 1, video |-> v]}
    /\ created' = created + 1

-----------------------------------------------------------------------------
CheckComment(c, v) ==
    /\ commentCall[c] = Quiet
    /\ requests < MaxRequests
    /\ v \in videos
    /\ requests' = requests + 1
    /\ commentCall' = [commentCall EXCEPT ![c] =
          [at |-> "publish", video |-> v, heated |-> FALSE]]
    /\ UNCHANGED <<comments, created, published, commentQueue, commentJob,
                   rowVars, hotVars, accepted, publishFailures, faults>>

(* Mutant: the fallback writes the row although the event was published.   *)
PublishAndWriteComment(c) ==
    LET v == commentCall[c].video
    IN  /\ commentCall[c].at = "publish"
        /\ commentQueue' = Append(commentQueue, [action |-> "publish", video |-> v])
        /\ InsertComment(v)
        /\ Heat(v, 1)
        /\ published' = published + 1
        /\ accepted' = [accepted EXCEPT ![v] = @ + 1]
        /\ commentCall' = [commentCall EXCEPT ![c] = Quiet]
        /\ UNCHANGED <<commentJob, rowVars, requests, faults>>

PublishComment(c) ==
    LET v == commentCall[c].video
    IN  /\ commentCall[c].at = "publish"
        /\ commentQueue' = Append(commentQueue, [action |-> "publish", video |-> v])
        /\ Heat(v, 1)
        /\ published' = published + 1
        /\ accepted' = [accepted EXCEPT ![v] = @ + 1]
        /\ commentCall' = [commentCall EXCEPT ![c] = Quiet]
        /\ UNCHANGED <<comments, created, commentJob, rowVars, requests, faults>>

FailToPublishComment(c) ==
    LET v == commentCall[c].video
    IN  /\ commentCall[c].at = "publish"
        /\ PublishFails
        /\ \E heated \in BOOLEAN :
              /\ IF heated THEN Enqueue(v, 1) ELSE UNCHANGED hotQueue
              /\ commentCall' = [commentCall EXCEPT ![c] =
                    [at |-> "write", video |-> v, heated |-> heated]]
        /\ UNCHANGED <<comments, created, published, commentQueue, commentJob,
                       rowVars, hot, accepted, requests, faults>>

(* The fallback transaction of Publish commits. *)
WriteComment(c) ==
    LET v == commentCall[c].video
    IN  /\ commentCall[c].at = "write"
        /\ v \in videos
        /\ InsertComment(v)
        /\ popularity' = Raised(popularity, v, 1)
        /\ IF commentCall[c].heated THEN UNCHANGED hot ELSE UpdatePopularityCache(v, 1)
        /\ published' = published + 1
        /\ accepted' = [accepted EXCEPT ![v] = @ + 1]
        /\ commentCall' = [commentCall EXCEPT ![c] = Quiet]
        /\ UNCHANGED <<commentQueue, commentJob, videos, likesCount, removing,
                       otherVars, hotQueue, requests, publishFailures, faults>>

RefuseComment(c) ==
    /\ commentCall[c].at = "write"
    /\ commentCall' = [commentCall EXCEPT ![c] = Quiet]
    /\ UNCHANGED <<comments, created, published, commentQueue, commentJob, statVars>>

(* Delete and AdminDelete read the row ... *)
CheckDelete(c, row) ==
    /\ commentCall[c] = Quiet
    /\ requests < MaxRequests
    /\ row \in comments
    /\ requests' = requests + 1
    /\ commentCall' = [commentCall EXCEPT ![c] = [at |-> "delete", comment |-> row]]
    /\ UNCHANGED <<comments, created, published, commentQueue, commentJob,
                   rowVars, hotVars, accepted, publishFailures, faults>>

(* ... and publish an event, or delete the row themselves, in which case   *)
(* videos.popularity stays.  The ranking is lowered either way.            *)
DeleteComment(c) ==
    LET row == commentCall[c].comment
    IN  /\ commentCall[c].at = "delete"
        /\ \/ /\ commentQueue' = Append(commentQueue, [action |-> "delete", id |-> row.id])
              /\ Heat(row.video, -1)
              /\ UNCHANGED comments
           \/ /\ comments' = comments \ {row}
              /\ PublishFails
              /\ \/ Enqueue(row.video, -1) /\ UNCHANGED hot
                 \/ UpdatePopularityCache(row.video, -1) /\ UNCHANGED hotQueue
              /\ UNCHANGED commentQueue
        /\ accepted' = [accepted EXCEPT ![row.video] = @ - 1]
        /\ commentCall' = [commentCall EXCEPT ![c] = Quiet]
        /\ UNCHANGED <<created, published, commentJob, rowVars, requests, faults>>

(* Neither the event nor the row: the request returns the error. *)
RefuseDelete(c) ==
    /\ commentCall[c].at = "delete"
    /\ PublishFails
    /\ commentCall' = [commentCall EXCEPT ![c] = Quiet]
    /\ UNCHANGED <<comments, created, published, commentQueue, commentJob, rowVars,
                   hotVars, accepted, requests, faults>>

-----------------------------------------------------------------------------
(* What a consumer does with an event once it has read the video or the    *)
(* comment: nothing, when there is none.                                   *)
JobOf(event) ==
    IF event.action = "publish"
    THEN IF event.video \in videos
         THEN [at |-> "insert", event |-> event, video |-> event.video]
         ELSE Quiet
    ELSE LET found == {row \in comments : row.id = event.id}
         IN  IF found = {} THEN Quiet
             ELSE [at |-> "remove", event |-> event,
                   comment |-> CHOOSE row \in found : TRUE]

DeliverComment(w) ==
    /\ commentJob[w] = Quiet
    /\ commentQueue # <<>>
    /\ commentQueue' = Tail(commentQueue)
    /\ commentJob' = [commentJob EXCEPT ![w] = JobOf(Head(commentQueue))]
    /\ UNCHANGED <<comments, created, published, commentCall, statVars>>

ApplyPublish(w) ==
    /\ commentJob[w].at = "insert"
    /\ InsertComment(commentJob[w].video)
    /\ commentJob' = [commentJob EXCEPT ![w].at = "raise"]
    /\ UNCHANGED <<published, commentCall, commentQueue, statVars>>

ApplyDelete(w) ==
    /\ commentJob[w].at = "remove"
    /\ comments' = comments \ {commentJob[w].comment}
    /\ commentJob' = [commentJob EXCEPT ![w].at = "lower"]
    /\ UNCHANGED <<created, published, commentCall, commentQueue, statVars>>

ChangePopularityOfComment(w) ==
    LET job == commentJob[w]
        Step(v, change) ==
            /\ popularity' = Shifted(popularity, v, change)
            /\ commentJob' = [commentJob EXCEPT ![w] =
                  [at |-> "acked", event |-> job.event, video |-> v]]
    IN  /\ \/ job.at = "raise" /\ Step(job.video, 1)
           \/ job.at = "lower" /\ Step(job.comment.video, -1)
        /\ UNCHANGED <<comments, created, published, commentCall, commentQueue, videos,
                       likesCount, removing, otherVars, hotVars, accepted, requests,
                       publishFailures, faults>>

AckComment(w) ==
    /\ commentJob[w].at = "acked"
    /\ commentJob' = [commentJob EXCEPT ![w] = Quiet]
    /\ UNCHANGED <<comments, created, published, commentCall, commentQueue, statVars>>

RequeueComment(w) ==
    /\ commentJob[w] # Quiet
    /\ Fault
    /\ \E i \in 1 .. Len(commentQueue) + 1 :
          commentQueue' = InsertAt(commentQueue, i, commentJob[w].event)
    /\ commentJob' = [commentJob EXCEPT ![w] = Quiet]
    /\ UNCHANGED <<comments, created, published, commentCall, rowVars, hotVars,
                   accepted, requests, publishFailures>>

-----------------------------------------------------------------------------
CommentsTypeOK ==
    /\ comments \subseteq Comment
    /\ created \in Nat
    /\ published \in Nat
    /\ commentCall \in [CommentCaller -> CommentCall]
    /\ commentQueue \in Seq(CommentEvent)
    /\ commentJob \in [CommentConsumer -> CommentJob]

CommentsInit ==
    /\ comments = {}
    /\ created = 0
    /\ published = 0
    /\ commentCall = [c \in CommentCaller |-> Quiet]
    /\ commentQueue = <<>>
    /\ commentJob = [w \in CommentConsumer |-> Quiet]

CommentCallerStep(c) ==
    \/ PublishComment(c) \/ FailToPublishComment(c) \/ WriteComment(c)
    \/ RefuseComment(c) \/ DeleteComment(c) \/ RefuseDelete(c)

CommentConsumerStep(w) ==
    \/ DeliverComment(w) \/ ApplyPublish(w) \/ ApplyDelete(w)
    \/ ChangePopularityOfComment(w) \/ AckComment(w)

CommentsNext ==
    \/ \E c \in CommentCaller :
          \/ \E v \in Video : CheckComment(c, v)
          \/ \E row \in comments : CheckDelete(c, row)
          \/ CommentCallerStep(c)
    \/ \E w \in CommentConsumer : CommentConsumerStep(w) \/ RequeueComment(w)

CommentsAtRest ==
    /\ commentQueue = <<>>
    /\ \A c \in CommentCaller : commentCall[c] = Quiet
    /\ \A w \in CommentConsumer : commentJob[w] = Quiet

CommentsOf(v) == {row \in comments : row.video = v}

Unraised(v) ==
    {w \in CommentConsumer : commentJob[w].at = "raise" /\ commentJob[w].video = v}
=============================================================================
