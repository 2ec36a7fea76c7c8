------------------------------- MODULE Follows -------------------------------
(***************************************************************************)
(* SocialService (social/service.go) and SocialWorker                      *)
(* (worker/socialworker.go).  A request checks the relation, publishes an  *)
(* event whose error it ignores, and writes the table itself; the worker   *)
(* writes the same change again when the event arrives.  Any number of     *)
(* requests of a follower may be under way; one worker consumes the queue. *)
(***************************************************************************)
EXTENDS Integers, FiniteSets, Sequences, SequencesExt

CONSTANTS
    Follower,            \* accounts that follow
    Vlogger,             \* accounts that are followed
    Request,             \* bound: requests under way at a time
    Fans,                \* <<follower, vlogger>> pairs of the first state, in id order
    MaxRequests,         \* bound: follow and unfollow requests past their checks
    MaxPublishFailures,  \* bound: events whose publish fails
    MaxFaults            \* bound: redeliveries

ASSUME FollowsAssumption ==
    /\ Fans \in Seq(Follower \X Vlogger)
    /\ \A i, j \in DOMAIN Fans : Fans[i] = Fans[j] => i = j   \* the unique index
    /\ MaxRequests \in Nat
    /\ MaxPublishFailures \in Nat
    /\ MaxFaults \in Nat

VARIABLES
    socials,          \* table socials, unique on (follower_id, vlogger_id)
    lastId,           \* the last id given to a row of it
    followCall,       \* where each request is
    socialQueue,      \* social.events
    wanted,           \* history: what the last event of a pair asked for
    outrun,           \* history: pairs written since by a request that asked the contrary
    requests,         \* requests so far
    publishFailures,  \* lost events so far
    faults            \* redeliveries so far

followVars == <<socials, lastId, followCall, socialQueue, wanted, outrun, requests>>

-----------------------------------------------------------------------------
Idle == [at |-> "idle"]

Social == [id : Nat \ {0}, follower : Follower, vlogger : Vlogger]

SocialEvent == [action : {"follow", "unfollow"}, follower : Follower, vlogger : Vlogger]

FollowCall == {Idle} \cup
    [at : {"publish", "write"}, action : {"follow", "unfollow"},
     follower : Follower, vlogger : Vlogger]

Relation(f, a) == {s \in socials : s.follower = f /\ s.vlogger = a}
IsFollowed(f, a) == Relation(f, a) # {}
FollowersOf(a) == {s \in socials : s.vlogger = a}

PublishFails ==
    /\ publishFailures < MaxPublishFailures
    /\ publishFailures' = publishFailures + 1

Fault ==
    /\ faults < MaxFaults
    /\ faults' = faults + 1

(* SocialRepository.Follow and Unfollow: an insert that the unique index   *)
(* may refuse, and a delete that may find nothing.                         *)
Change(action, f, a) ==
    IF action = "follow"
    THEN IF IsFollowed(f, a) THEN UNCHANGED <<socials, lastId>>
         ELSE /\ socials' = socials \cup
                    {[id |-> lastId + 1, follower |-> f, vlogger |-> a]}
              /\ lastId' = lastId + 1
    ELSE socials' = socials \ Relation(f, a) /\ UNCHANGED lastId

-----------------------------------------------------------------------------
(* Follow and Unfollow up to IsFollowed. *)
CheckFollow(r, f, a, action) ==
    /\ followCall[r] = Idle
    /\ requests < MaxRequests
    /\ action = "follow" => f # a
    /\ (action = "follow") # IsFollowed(f, a)
    /\ requests' = requests + 1
    /\ followCall' = [followCall EXCEPT ![r] =
          [at |-> "publish", action |-> action, follower |-> f, vlogger |-> a]]
    /\ UNCHANGED <<socials, lastId, socialQueue, wanted, outrun, publishFailures, faults>>

(* Mutant: only follows are published. *)
PublishFollowOnly(r) ==
    LET call == followCall[r]
        pair == <<call.follower, call.vlogger>>
    IN  /\ call.at = "publish"
        /\ socialQueue' = IF call.action = "unfollow" THEN socialQueue
              ELSE Append(socialQueue, [action |-> call.action,
                            follower |-> call.follower, vlogger |-> call.vlogger])
        /\ wanted' = [wanted EXCEPT ![pair] = call.action]
        /\ outrun' = outrun \ {pair}
        /\ followCall' = [followCall EXCEPT ![r].at = "write"]
        /\ UNCHANGED <<socials, lastId, requests, publishFailures, faults>>

PublishFollow(r) ==
    LET call == followCall[r]
        pair == <<call.follower, call.vlogger>>
    IN  /\ call.at = "publish"
        /\ \/ /\ socialQueue' = Append(socialQueue, [action |-> call.action,
                            follower |-> call.follower, vlogger |-> call.vlogger])
              /\ UNCHANGED publishFailures
           \/ PublishFails /\ UNCHANGED socialQueue
        /\ wanted' = [wanted EXCEPT ![pair] = call.action]
        /\ outrun' = outrun \ {pair}
        /\ followCall' = [followCall EXCEPT ![r].at = "write"]
        /\ UNCHANGED <<socials, lastId, requests, faults>>

(* The request writes the table and returns what the database said: a      *)
(* follow that the worker has overtaken meets the unique index and fails.  *)
WriteFollow(r) ==
    LET call == followCall[r]
        pair == <<call.follower, call.vlogger>>
    IN  /\ call.at = "write"
        /\ Change(call.action, call.follower, call.vlogger)
        /\ outrun' = outrun \cup (IF call.action # wanted[pair] THEN {pair} ELSE {})
        /\ followCall' = [followCall EXCEPT ![r] = Idle]
        /\ UNCHANGED <<socialQueue, wanted, requests, publishFailures, faults>>

(* SocialWorker writes the change of the first event and acknowledges it;  *)
(* a duplicate follow is taken for done.                                   *)
ConsumeFollow ==
    /\ socialQueue # <<>>
    /\ LET event == Head(socialQueue)
       IN  Change(event.action, event.follower, event.vlogger)
    /\ socialQueue' = Tail(socialQueue)
    /\ UNCHANGED <<followCall, wanted, outrun, requests, publishFailures, faults>>

(* The statement fails, or the worker stops after it: with events up to 50 *)
(* delivered ahead the event may come back behind those that followed it.  *)
RequeueFollow ==
    /\ socialQueue # <<>>
    /\ Fault
    /\ LET event == Head(socialQueue)
       IN  /\ \/ Change(event.action, event.follower, event.vlogger)
              \/ UNCHANGED <<socials, lastId>>
           /\ \E i \in 1 .. Len(socialQueue) :
                 socialQueue' = InsertAt(Tail(socialQueue), i, event)
    /\ UNCHANGED <<followCall, wanted, outrun, requests, publishFailures>>

-----------------------------------------------------------------------------
FollowsTypeOK ==
    /\ socials \subseteq Social
    /\ \A s, t \in socials :
          s.id = t.id \/ (s.follower = t.follower /\ s.vlogger = t.vlogger) => s = t
    /\ lastId \in Nat
    /\ followCall \in [Request -> FollowCall]
    /\ socialQueue \in Seq(SocialEvent)
    /\ wanted \in [Follower \X Vlogger -> {"none", "follow", "unfollow"}]
    /\ outrun \subseteq Follower \X Vlogger
    /\ requests \in 0 .. MaxRequests
    /\ publishFailures \in 0 .. MaxPublishFailures
    /\ faults \in 0 .. MaxFaults

(* The relations of Fans, whose requests are all over. *)
FollowsInit ==
    /\ socials = {[id |-> i, follower |-> Fans[i][1], vlogger |-> Fans[i][2]] :
                    i \in DOMAIN Fans}
    /\ lastId = Len(Fans)
    /\ followCall = [r \in Request |-> Idle]
    /\ socialQueue = <<>>
    /\ wanted = [p \in Follower \X Vlogger |-> "none"]
    /\ outrun = {}
    /\ requests = 0
    /\ publishFailures = 0
    /\ faults = 0

FollowsNext ==
    \/ \E r \in Request, f \in Follower, a \in Vlogger, action \in {"follow", "unfollow"} :
          CheckFollow(r, f, a, action)
    \/ \E r \in Request : PublishFollow(r) \/ WriteFollow(r)
    \/ ConsumeFollow
    \/ RequeueFollow

FollowsAtRest ==
    /\ socialQueue = <<>>
    /\ \A r \in Request : followCall[r] = Idle
=============================================================================
