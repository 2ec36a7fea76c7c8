------------------------------ MODULE FeedFanout ------------------------------
(***************************************************************************)
(* From a published video to the boxes the followings feed is read from:   *)
(* VideoService.Publish sends two events of the video, VideoWorker         *)
(* (worker/videoworker.go) writes it into the inbox of every follower of   *)
(* an author with few followers, or into the outbox of an author with      *)
(* many.  Follower relations change meanwhile: this module composes        *)
(* Follows with the fan-out.                                               *)
(***************************************************************************)
EXTENDS Follows

CONSTANTS
    Video,
    AuthorOf,        \* videos.author_id
    BigVThreshold,   \* bigVThreshold of NewVideoWorker
    BatchSize        \* followers read and written at a time

ASSUME FanoutAssumption ==
    /\ AuthorOf \in [Video -> Vlogger]
    /\ BigVThreshold \in Nat
    /\ BatchSize \in Nat \ {0}

VARIABLES
    published,    \* videos with a row in table videos
    publishing,   \* videos whose request is between its two events
    boxQueue,     \* video.box.events
    fanout,       \* where the VideoWorker is
    inbox,        \* table follow_feed_inbox: <<user, post>>
    inboxCache,   \* sorted sets follow:inbox:<user>
    outbox,       \* table feed_outbox: posts in their author's outbox
    audience,     \* history: socials of the author when the video was published
    crossed,      \* history: videos whose author has crossed the threshold since
    rejoined      \* history: videos that a follower had got who left and came back

boxVars == <<published, publishing, boxQueue, fanout, inbox, inboxCache, outbox, audience>>
vars == <<followVars, publishFailures, faults, boxVars, crossed, rejoined>>

-----------------------------------------------------------------------------
Free == [at |-> "free"]

BoxEvent == [box : {"inbox", "outbox"}, video : Video]

Fanout == {Free} \cup
    [at : {"batch"}, event : BoxEvent, cursor : Nat] \cup
    [at : {"ack"}, event : BoxEvent]

Author(v) == AuthorOf[v]
CountFollowers(a) == Cardinality(FollowersOf(a))
IsBigV(a) == CountFollowers(a) >= BigVThreshold

IsSmall(a) == CountFollowers(a) < BigVThreshold

(* Mutant: the cursor is the position of the last row instead of its id. *)
BatchByPosition(a, cursor) ==
    LET rank(s) == Cardinality({t \in FollowersOf(a) : t.id <= s.id})
    IN  {s \in FollowersOf(a) : cursor < rank(s) /\ rank(s) <= cursor + BatchSize}

(* GetFollowersBatch: the next rows of the author in id order. *)
Batch(a, cursor) ==
    LET ahead == {s \in FollowersOf(a) : s.id > cursor}
    IN  {s \in ahead : Cardinality({t \in ahead : t.id < s.id}) < BatchSize}

LastIdOf(batch) == CHOOSE n \in {s.id : s \in batch} : \A s \in batch : s.id <= n

-----------------------------------------------------------------------------
(* Publish: the row of the video, then the first event; its loss is only   *)
(* logged.                                                                 *)
PublishInbox(v) ==
    /\ v \notin published
    /\ published' = published \cup {v}
    /\ audience' = [audience EXCEPT ![v] = FollowersOf(Author(v))]
    /\ publishing' = publishing \cup {v}
    /\ \/ /\ boxQueue' = Append(boxQueue, [box |-> "inbox", video |-> v])
          /\ UNCHANGED publishFailures
       \/ PublishFails /\ UNCHANGED boxQueue
    /\ UNCHANGED <<followVars, faults, fanout, inbox, inboxCache, outbox>>

(* The second event; when it is lost the request writes the outbox itself, *)
(* whoever the author is, and an error of that is only logged.             *)
PublishOutbox(v) ==
    /\ v \in publishing
    /\ publishing' = publishing \ {v}
    /\ \/ /\ boxQueue' = Append(boxQueue, [box |-> "outbox", video |-> v])
          /\ UNCHANGED <<outbox, publishFailures>>
       \/ /\ PublishFails
          /\ outbox' \in {outbox, outbox \cup {v}}
          /\ UNCHANGED boxQueue
    /\ UNCHANGED <<followVars, faults, published, fanout, inbox, inboxCache,
                   audience>>

(* A publish_inbox event: a big V is skipped. *)
DeliverInbox ==
    LET event == Head(boxQueue)
    IN  /\ fanout = Free
        /\ boxQueue # <<>>
        /\ event.box = "inbox"
        /\ fanout' = IF IsBigV(Author(event.video))
                     THEN [at |-> "ack", event |-> event]
                     ELSE [at |-> "batch", event |-> event, cursor |-> 0]
        /\ boxQueue' = Tail(boxQueue)
        /\ UNCHANGED <<followVars, publishFailures, faults, published, publishing, inbox,
                       inboxCache, outbox, audience>>

(* Mutant: a duplicate key is returned as an error, and the event requeued. *)
FanOutBatchOrFail ==
    LET v     == fanout.event.video
        batch == Batch(Author(v), fanout.cursor)
        rows  == {<<s.follower, v>> : s \in batch}
    IN  /\ fanout.at = "batch"
        /\ IF rows \cap inbox # {}
           THEN /\ boxQueue' = Append(boxQueue, fanout.event)
                /\ fanout' = Free
                /\ UNCHANGED <<inbox, inboxCache>>
           ELSE /\ inbox' = inbox \cup rows
                /\ inboxCache' \in {inboxCache, inboxCache \cup rows}
                /\ fanout' = IF Cardinality(batch) < BatchSize
                             THEN [at |-> "ack", event |-> fanout.event]
                             ELSE [fanout EXCEPT !.cursor = LastIdOf(batch)]
                /\ UNCHANGED boxQueue
        /\ UNCHANGED <<followVars, publishFailures, faults, published, publishing, outbox, audience>>

(* One batch: an insert that is refused as a whole when one of its rows    *)
(* exists, which ends the fan-out as done, and a write to Redis that may   *)
(* fail.  A short batch is the last one.                                   *)
FanOutBatch ==
    LET v     == fanout.event.video
        batch == Batch(Author(v), fanout.cursor)
        rows  == {<<s.follower, v>> : s \in batch}
        done  == [at |-> "ack", event |-> fanout.event]
    IN  /\ fanout.at = "batch"
        /\ IF rows \cap inbox # {}
           THEN fanout' = done /\ UNCHANGED <<inbox, inboxCache>>
           ELSE /\ inbox' = inbox \cup rows
                /\ inboxCache' \in {inboxCache, inboxCache \cup rows}
                /\ fanout' = IF Cardinality(batch) < BatchSize THEN done
                             ELSE [fanout EXCEPT !.cursor = LastIdOf(batch)]
        /\ UNCHANGED <<followVars, publishFailures, faults, published, publishing, boxQueue,
                       outbox, audience>>

(* A publish_outbox event: only a big V has an outbox; a duplicate is done. *)
DeliverOutbox ==
    LET event == Head(boxQueue)
    IN  /\ fanout = Free
        /\ boxQueue # <<>>
        /\ event.box = "outbox"
        /\ outbox' = IF IsSmall(Author(event.video)) THEN outbox
                     ELSE outbox \cup {event.video}
        /\ fanout' = [at |-> "ack", event |-> event]
        /\ boxQueue' = Tail(boxQueue)
        /\ UNCHANGED <<followVars, publishFailures, faults, published, publishing, inbox,
                       inboxCache, audience>>

AckBox ==
    /\ fanout # Free
    /\ fanout.at = "ack"
    /\ fanout' = Free
    /\ UNCHANGED <<followVars, publishFailures, faults, published, publishing, boxQueue, inbox,
                   inboxCache, outbox, audience>>

(* A statement fails, or the worker stops before its acknowledgement. *)
RequeueBox ==
    /\ fanout # Free
    /\ Fault
    /\ fanout' = Free
    /\ \E i \in 1 .. Len(boxQueue) + 1 :
          boxQueue' = InsertAt(boxQueue, i, fanout.event)
    /\ UNCHANGED <<followVars, publishFailures, published, publishing, inbox,
                   inboxCache, outbox, audience>>

-----------------------------------------------------------------------------
Init ==
    /\ FollowsInit
    /\ published = {}
    /\ publishing = {}
    /\ boxQueue = <<>>
    /\ fanout = Free
    /\ inbox = {}
    /\ inboxCache = {}
    /\ outbox = {}
    /\ audience = [v \in Video |-> {}]
    /\ crossed = {}
    /\ rejoined = {}

VideoWorkerStep == DeliverInbox \/ FanOutBatch \/ DeliverOutbox \/ AckBox

FanoutNext ==
    \/ \E v \in Video : PublishInbox(v) \/ PublishOutbox(v)
    \/ VideoWorkerStep
    \/ RequeueBox

(* What the histories take from a step. *)
Note ==
    /\ crossed' = crossed \cup
          {v \in published : IsBigV(Author(v)) # IsBigV(Author(v))'}
    /\ rejoined' = rejoined \cup
          {v \in published : \E s \in socials' \ socials :
                                s.vlogger = Author(v) /\ <<s.follower, v>> \in inbox}

Next ==
    /\ (FollowsNext /\ UNCHANGED boxVars) \/ FanoutNext
    /\ Note

Spec == Init /\ [][Next]_vars

(* Requests end, and the workers consume their queues. *)
FairSpec ==
    /\ Spec
    /\ \A r \in Request :
          WF_vars((PublishFollow(r) \/ WriteFollow(r)) /\ UNCHANGED boxVars /\ Note)
    /\ WF_vars(ConsumeFollow /\ UNCHANGED boxVars /\ Note)
    /\ \A v \in Video : WF_vars(PublishOutbox(v) /\ Note)
    /\ WF_vars(VideoWorkerStep /\ Note)

-----------------------------------------------------------------------------
TypeOK ==
    /\ FollowsTypeOK
    /\ published \subseteq Video
    /\ publishing \subseteq published
    /\ boxQueue \in Seq(BoxEvent)
    /\ fanout \in Fanout
    /\ inbox \subseteq Follower \X Video
    /\ inboxCache \subseteq inbox
    /\ outbox \subseteq Video
    /\ \A v \in Video : audience[v] \subseteq Social
    /\ crossed \subseteq published
    /\ rejoined \subseteq published

FanoutAtRest ==
    /\ publishing = {}
    /\ boxQueue = <<>>
    /\ fanout = Free

Undisturbed == faults = 0 /\ publishFailures = 0

(* Followers of the author from the publication of v until now. *)
Steady(v) == audience[v] \cap socials

InInbox(v, f) == <<f, v>> \in inbox

(* A video reaches every steady follower, and by one way only, however     *)
(* others follow and unfollow between the batches (videoworker.go process).*)
(* It takes an author that stays on one side of the threshold, and nobody  *)
(* who gets the video, leaves and comes back: the worker takes the         *)
(* duplicate key of their row for a batch already done.                    *)
ReachesSteadyFollowers ==
    FanoutAtRest /\ Undisturbed =>
    \A v \in published \ (crossed \cup rejoined) :
        \A s \in Steady(v) : InInbox(v, s.follower) # (v \in outbox)

(* Once the queue is empty the relation is what the last event of the pair *)
(* asked for, although every change is written by the request and a second *)
(* time, later, by the worker, although a follow whose event is consumed   *)
(* first answers with a duplicate key error, and although requests of one  *)
(* account run side by side (social/service.go Follow and Unfollow).  The  *)
(* exception: a request that asked the contrary had published before and   *)
(* wrote the table after that event was published.                         *)
RelationIsAsWanted ==
    FollowsAtRest /\ Undisturbed =>
    \A f \in Follower, a \in Vlogger :
        <<f, a>> \notin outrun /\ wanted[<<f, a>>] # "none" =>
            ((wanted[<<f, a>>] = "follow") = IsFollowed(f, a))

(* Requests and queues come to rest: duplicates do not go round for ever.  *)
WorkDrains == []<>(FollowsAtRest /\ FanoutAtRest)

=============================================================================
