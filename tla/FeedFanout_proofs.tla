--------------------------- MODULE FeedFanout_proofs ---------------------------
(***************************************************************************)
(* Theorems about FeedFanout, for any number of followers, authors and     *)
(* videos, any threshold and any batch size: what the relation ends up as, *)
(* and whom a published video reaches.                                     *)
(***************************************************************************)
EXTENDS FeedFanout, FiniteSetTheorems, TLAPS

(* A set of naturals that is not empty has a least element. *)
LEMMA SmallestOf ==
    ASSUME NEW B \in SUBSET Nat, B # {}
    PROVE  \E n \in B : \A m \in B : n <= m
<1> DEFINE R == OpToRel(<, Nat)
<1>1. R = {p \in Nat \X Nat : p[1] < p[2]}
  BY DEF OpToRel
<1>2. IsWellFoundedOn(R, Nat)
  BY NatLessThanWellFounded
<1> HIDE DEF R
<1>3. \E n \in B : \A m \in B : ~ (<<m, n>> \in R)
  BY <1>2, WFMin
<1>4. PICK n \in B : \A m \in B : ~ (<<m, n>> \in R)
  BY <1>3
<1>5. \A m \in B : ~ (m < n)
  BY <1>1, <1>4
<1>6. \A m \in B : m \in Int /\ n \in Int /\ n <= m
  BY <1>5
<1> QED
  BY <1>6

-----------------------------------------------------------------------------
(* Sequences one longer or shorter *)

LEMMA Appended ==
  ASSUME NEW S, NEW s \in Seq(S), NEW e \in S
  PROVE  /\ Append(s, e) \in Seq(S)
         /\ DOMAIN s = 1 .. Len(s) /\ Len(s) \in Nat
         /\ DOMAIN Append(s, e) = 1 .. Len(s) + 1
         /\ \A j \in DOMAIN s : Append(s, e)[j] = s[j]
         /\ Append(s, e)[Len(s) + 1] = e
  OBVIOUS

LEMMA Headed ==
  ASSUME NEW S, NEW s \in Seq(S), s # << >>
  PROVE  /\ Head(s) \in S /\ Head(s) = s[1]
         /\ Tail(s) \in Seq(S)
         /\ Len(s) \in Nat \ {0} /\ DOMAIN s = 1 .. Len(s)
         /\ DOMAIN Tail(s) = 1 .. Len(s) - 1
         /\ \A j \in DOMAIN Tail(s) : Tail(s)[j] = s[j + 1]
  OBVIOUS

LEMMA PutIn ==
  ASSUME NEW S, NEW s \in Seq(S), NEW e \in S, NEW i \in 1 .. Len(s) + 1
  PROVE  InsertAt(s, i, e) \in Seq(S)
<1>1. SubSeq(s, 1, i - 1) \in Seq(S) /\ SubSeq(s, i, Len(s)) \in Seq(S) /\ <<e>> \in Seq(S)
  OBVIOUS
<1>2. PICK t : t = SubSeq(s, 1, i - 1) \o <<e>>
  OBVIOUS
<1>3. t \in Seq(S)
  BY <1>1, <1>2
<1>4. t \o SubSeq(s, i, Len(s)) \in Seq(S)
  BY <1>1, <1>3
<1> QED
  BY <1>2, <1>4 DEF InsertAt

LEMMA SeqWidens ==
  ASSUME NEW S, NEW T, S \subseteq T, NEW s \in Seq(S)
  PROVE  s \in Seq(T)
  OBVIOUS

-----------------------------------------------------------------------------
(* Table socials *)

SocialsOK ==
    /\ socials \subseteq Social
    /\ IsFiniteSet(socials)
    /\ \A s, t \in socials :
          s.id = t.id \/ (s.follower = t.follower /\ s.vlogger = t.vlogger) => s = t
    /\ lastId \in Nat
    /\ \A s \in socials : s.id <= lastId

FollowsOK == SocialsOK /\ FollowsTypeOK

(* Rows may go, and come with a new id only. *)
Grown ==
    /\ SocialsOK'
    /\ lastId' >= lastId
    /\ \A s \in socials' : s \in socials \/ s.id > lastId

LEMMA NothingGrown == SocialsOK /\ UNCHANGED <<socials, lastId>> => Grown
  BY DEF SocialsOK, Grown

LEMMA Changed ==
  ASSUME SocialsOK, NEW action \in {"follow", "unfollow"}, NEW f \in Follower,
         NEW a \in Vlogger, Change(action, f, a)
  PROVE  /\ Grown
         /\ IsFollowed(f, a)' <=> action = "follow"
         /\ \A g \in Follower, b \in Vlogger :
               g # f \/ b # a => (IsFollowed(g, b)' <=> IsFollowed(g, b))
<1>1. CASE action = "follow" /\ IsFollowed(f, a)
  <2>1. UNCHANGED <<socials, lastId>>
    BY <1>1 DEF Change
  <2> QED
    BY <1>1, <2>1, NothingGrown DEF IsFollowed, Relation
<1>2. CASE action = "follow" /\ ~IsFollowed(f, a)
  <2>1. PICK row : row = [id |-> lastId + 1, follower |-> f, vlogger |-> a]
    OBVIOUS
  <2>2. socials' = socials \cup {row} /\ lastId' = lastId + 1
    BY <1>2, <2>1 DEF Change
  <2>3. /\ row \in Social /\ row.id = lastId + 1 /\ row.follower = f /\ row.vlogger = a
        /\ lastId \in Nat
    BY <2>1 DEF SocialsOK, Social
  <2>4. IsFiniteSet(socials')
    BY <2>2, FS_AddElement DEF SocialsOK
  <2>5. ASSUME NEW s \in socials
        PROVE  /\ s.id # row.id /\ ~(s.follower = f /\ s.vlogger = a)
               /\ s.id \in Nat /\ s.id <= lastId
    BY <1>2, <2>3 DEF SocialsOK, Social, IsFollowed, Relation
  <2>6. SocialsOK'
    BY <2>2, <2>3, <2>4, <2>5 DEF SocialsOK
  <2>7. Grown
    BY <2>2, <2>3, <2>6 DEF Grown
  <2>8. ASSUME NEW g \in Follower, NEW b \in Vlogger
        PROVE  IsFollowed(g, b)' <=> (g = f /\ b = a) \/ IsFollowed(g, b)
    BY <2>2, <2>3 DEF IsFollowed, Relation
  <2> QED
    BY <1>2, <2>7, <2>8
<1>3. CASE action # "follow"
  <2>1. socials' = socials \ Relation(f, a) /\ lastId' = lastId
    BY <1>3 DEF Change
  <2>2. IsFiniteSet(socials')
    BY <2>1, FS_Subset DEF SocialsOK
  <2>3. Grown
    BY <2>1, <2>2 DEF SocialsOK, Grown
  <2>4. ASSUME NEW g \in Follower, NEW b \in Vlogger
        PROVE  IsFollowed(g, b)' <=> ~(g = f /\ b = a) /\ IsFollowed(g, b)
    BY <2>1 DEF IsFollowed, Relation
  <2> QED
    BY <1>3, <2>3, <2>4
<1> QED
  BY <1>1, <1>2, <1>3

LEMMA CallType ==
  ASSUME FollowsOK, NEW r \in Request, followCall[r].at \in {"publish", "write"}
  PROVE  /\ followCall[r].action \in {"follow", "unfollow"}
         /\ followCall[r].follower \in Follower
         /\ followCall[r].vlogger \in Vlogger
         /\ followCall[r] = [at |-> followCall[r].at, action |-> followCall[r].action,
                follower |-> followCall[r].follower, vlogger |-> followCall[r].vlogger]
  BY DEF FollowsOK, FollowsTypeOK, FollowCall, Idle

LEMMA EventType ==
  ASSUME FollowsOK, socialQueue # << >>
  PROVE  /\ Head(socialQueue).action \in {"follow", "unfollow"}
         /\ Head(socialQueue).follower \in Follower
         /\ Head(socialQueue).vlogger \in Vlogger
         /\ Head(socialQueue) \in SocialEvent
         /\ Tail(socialQueue) \in Seq(SocialEvent)
         /\ Len(Tail(socialQueue)) = Len(socialQueue) - 1
         /\ Len(socialQueue) \in Nat
<1>1. Head(socialQueue) \in SocialEvent /\ socialQueue \in Seq(SocialEvent)
  BY Headed DEF FollowsOK, FollowsTypeOK
<1> QED
  BY <1>1 DEF SocialEvent

LEMMA FollowsStart == FollowsInit => FollowsOK
<1> SUFFICES ASSUME FollowsInit PROVE FollowsOK
  OBVIOUS
<1>1. Len(Fans) \in Nat /\ DOMAIN Fans = 1 .. Len(Fans)
  BY FollowsAssumption DEF FollowsAssumption
<1> DEFINE Row(i) == [id |-> i, follower |-> Fans[i][1], vlogger |-> Fans[i][2]]
<1>2. socials = {Row(i) : i \in DOMAIN Fans}
  BY DEF FollowsInit
<1>3. IsFiniteSet(DOMAIN Fans)
  BY <1>1, FS_Interval
<1>4. IsFiniteSet(socials)
  <2> DEFINE rows == [i \in DOMAIN Fans |-> Row(i)]
  <2>1. rows \in Surjection(DOMAIN Fans, socials)
    <3>1. \A i \in DOMAIN Fans : rows[i] \in socials
      BY <1>2
    <3>2. \A s \in socials : \E i \in DOMAIN Fans : rows[i] = s
      BY <1>2
    <3> QED
      BY <3>1, <3>2 DEF Surjection
  <2> QED
    BY <1>3, <2>1, FS_Surjection
<1>5. ASSUME NEW i \in DOMAIN Fans
      PROVE  Row(i) \in Social /\ Row(i).id = i /\ i <= Len(Fans)
             /\ <<Row(i).follower, Row(i).vlogger>> = Fans[i]
  <2>1. Fans[i] \in Follower \X Vlogger
    BY FollowsAssumption DEF FollowsAssumption
  <2> QED
    BY <1>1, <2>1 DEF Social
<1> HIDE DEF Row
<1>6. ASSUME NEW s \in socials, NEW t \in socials,
             s.id = t.id \/ (s.follower = t.follower /\ s.vlogger = t.vlogger)
      PROVE  s = t
  <2>1. PICK i \in DOMAIN Fans : s = Row(i)
    BY <1>2
  <2>2. PICK j \in DOMAIN Fans : t = Row(j)
    BY <1>2
  <2>3. i = j
    <3>1. i = j \/ Fans[i] = Fans[j]
      BY <1>5, <1>6, <2>1, <2>2
    <3> QED
      BY <3>1, FollowsAssumption DEF FollowsAssumption
  <2> QED
    BY <2>1, <2>2, <2>3
<1>7. \A s \in socials : s \in Social /\ s.id <= lastId
  BY <1>2, <1>5 DEF FollowsInit
<1>8. SocialsOK
  BY <1>1, <1>4, <1>6, <1>7 DEF SocialsOK, FollowsInit
<1>9. /\ requests \in 0 .. MaxRequests /\ publishFailures \in 0 .. MaxPublishFailures
      /\ faults \in 0 .. MaxFaults
  BY FollowsAssumption DEF FollowsAssumption, FollowsInit
<1>10. /\ followCall \in [Request -> FollowCall] /\ socialQueue \in Seq(SocialEvent)
       /\ wanted \in [Follower \X Vlogger -> {"none", "follow", "unfollow"}]
       /\ outrun \subseteq Follower \X Vlogger
  BY DEF FollowsInit, FollowCall, Idle
<1> QED
  BY <1>8, <1>9, <1>10 DEF FollowsOK, SocialsOK, FollowsTypeOK

(* The columns of the requests and of the queue. *)
CallsOK ==
    /\ followCall \in [Request -> FollowCall]
    /\ socialQueue \in Seq(SocialEvent)
    /\ wanted \in [Follower \X Vlogger -> {"none", "follow", "unfollow"}]
    /\ outrun \subseteq Follower \X Vlogger
    /\ requests \in 0 .. MaxRequests
    /\ publishFailures \in 0 .. MaxPublishFailures
    /\ faults \in 0 .. MaxFaults

LEMMA FollowsParts == FollowsOK <=> SocialsOK /\ CallsOK
  BY DEF FollowsOK, SocialsOK, CallsOK, FollowsTypeOK

LEMMA FollowsKept == FollowsOK /\ FollowsNext => FollowsOK' /\ Grown
<1> SUFFICES ASSUME FollowsOK, FollowsNext PROVE CallsOK' /\ Grown
  <2>1. (FollowsOK <=> SocialsOK /\ CallsOK)'
    BY FollowsParts, PTL
  <2> QED
    BY <2>1 DEF Grown
<1>0. SocialsOK /\ CallsOK
  BY FollowsParts
<1>00. MaxRequests \in Nat /\ MaxPublishFailures \in Nat /\ MaxFaults \in Nat
  BY FollowsAssumption DEF FollowsAssumption
<1>1. ASSUME NEW r \in Request, NEW f \in Follower, NEW a \in Vlogger,
             NEW action \in {"follow", "unfollow"}, CheckFollow(r, f, a, action)
      PROVE  CallsOK' /\ Grown
  <2>1. PICK c : c = [at |-> "publish", action |-> action, follower |-> f, vlogger |-> a]
    OBVIOUS
  <2>2. c \in FollowCall /\ followCall' = [followCall EXCEPT ![r] = c]
    BY <1>1, <2>1 DEF CheckFollow, FollowCall
  <2>3. followCall' \in [Request -> FollowCall] /\ requests' \in 0 .. MaxRequests
    BY <1>0, <1>00, <1>1, <2>2 DEF CheckFollow, CallsOK
  <2> QED
    BY <1>0, <1>1, <2>3, NothingGrown DEF CheckFollow, CallsOK
<1>2. ASSUME NEW r \in Request, PublishFollow(r) PROVE CallsOK' /\ Grown
  <2>1. PICK f, a, action : /\ f = followCall[r].follower /\ a = followCall[r].vlogger
                            /\ action = followCall[r].action
    OBVIOUS
  <2>2. /\ action \in {"follow", "unfollow"} /\ f \in Follower /\ a \in Vlogger
        /\ followCall[r] = [at |-> followCall[r].at, action |-> action,
                            follower |-> f, vlogger |-> a]
    BY <1>2, <2>1, CallType DEF PublishFollow
  <2>3. PICK e : e = [action |-> action, follower |-> f, vlogger |-> a]
    OBVIOUS
  <2>4. e \in SocialEvent
    BY <2>2, <2>3 DEF SocialEvent
  <2>5. followCall' \in [Request -> FollowCall]
    BY <1>0, <1>2, <2>1, <2>2 DEF PublishFollow, CallsOK, FollowCall
  <2>6. socialQueue' = Append(socialQueue, e) \/ socialQueue' = socialQueue
    BY <1>2, <2>1, <2>3 DEF PublishFollow
  <2>7. /\ wanted' = [wanted EXCEPT ![<<f, a>>] = action]
        /\ outrun' = outrun \ {<<f, a>>}
    BY <1>2, <2>1 DEF PublishFollow
  <2>8. socialQueue' \in Seq(SocialEvent)
    BY <1>0, <2>4, <2>6, Appended DEF CallsOK
  <2>9. publishFailures' \in 0 .. MaxPublishFailures
    BY <1>0, <1>00, <1>2 DEF PublishFollow, PublishFails, CallsOK
  <2>10. /\ wanted' \in [Follower \X Vlogger -> {"none", "follow", "unfollow"}]
         /\ outrun' \subseteq Follower \X Vlogger
    BY <1>0, <2>2, <2>7 DEF CallsOK
  <2> QED
    BY <1>0, <1>2, <2>5, <2>8, <2>9, <2>10, NothingGrown DEF PublishFollow, CallsOK
<1>3. ASSUME NEW r \in Request, WriteFollow(r) PROVE CallsOK' /\ Grown
  <2>1. PICK f, a, action : /\ f = followCall[r].follower /\ a = followCall[r].vlogger
                            /\ action = followCall[r].action
    OBVIOUS
  <2>2. action \in {"follow", "unfollow"} /\ f \in Follower /\ a \in Vlogger
    BY <1>3, <2>1, CallType DEF WriteFollow
  <2>3. Grown
    BY <1>0, <1>3, <2>1, <2>2, Changed DEF WriteFollow
  <2>4. followCall' \in [Request -> FollowCall] /\ outrun' \subseteq Follower \X Vlogger
    BY <1>0, <1>3, <2>1, <2>2 DEF WriteFollow, CallsOK, FollowCall
  <2> QED
    BY <1>0, <1>3, <2>3, <2>4 DEF WriteFollow, CallsOK
<1>4. ASSUME ConsumeFollow PROVE CallsOK' /\ Grown
  <2>1. Grown
    BY <1>0, <1>4, EventType, Changed DEF ConsumeFollow
  <2>2. socialQueue' \in Seq(SocialEvent)
    BY <1>4, EventType DEF ConsumeFollow
  <2> QED
    BY <1>0, <1>4, <2>1, <2>2 DEF ConsumeFollow, CallsOK
<1>5. ASSUME RequeueFollow PROVE CallsOK' /\ Grown
  <2>1. Grown
    BY <1>0, <1>5, EventType, Changed, NothingGrown DEF RequeueFollow
  <2>2. socialQueue' \in Seq(SocialEvent)
    <3>1. PICK i \in 1 .. Len(socialQueue) :
             socialQueue' = InsertAt(Tail(socialQueue), i, Head(socialQueue))
      BY <1>5 DEF RequeueFollow
    <3>2. /\ Head(socialQueue) \in SocialEvent /\ Tail(socialQueue) \in Seq(SocialEvent)
          /\ i \in 1 .. Len(Tail(socialQueue)) + 1
      BY <1>5, EventType DEF RequeueFollow
    <3> QED
      BY <3>1, <3>2, PutIn
  <2>3. faults' \in 0 .. MaxFaults
    BY <1>0, <1>00, <1>5 DEF RequeueFollow, Fault, CallsOK
  <2> QED
    BY <1>0, <1>5, <2>1, <2>2, <2>3 DEF RequeueFollow, CallsOK
<1> QED
  BY <1>1, <1>2, <1>3, <1>4, <1>5 DEF FollowsNext

-----------------------------------------------------------------------------
(***************************************************************************)
(* Boxes, queue and worker name published videos only.                     *)
(***************************************************************************)
Events(videos) == [box : {"inbox", "outbox"}, video : videos]

Works(videos) == {Free} \cup
    [at : {"batch"}, event : Events(videos), cursor : Nat] \cup
    [at : {"ack"}, event : Events(videos)]

BoxesOK ==
    /\ published \subseteq Video
    /\ publishing \subseteq published
    /\ boxQueue \in Seq(Events(published))
    /\ fanout \in Works(published)
    /\ inbox \subseteq Follower \X published
    /\ inboxCache \subseteq inbox
    /\ outbox \subseteq published
    /\ crossed \subseteq published
    /\ rejoined \subseteq published

AudienceOK ==
    /\ audience \in [Video -> SUBSET Social]
    /\ \A v \in Video : \A s \in audience[v] : s.vlogger = Author(v) /\ s.id <= lastId

FanoutOK == FollowsOK /\ BoxesOK /\ AudienceOK

LEMMA FanoutTypes == FanoutOK => TypeOK
<1> SUFFICES ASSUME FanoutOK PROVE TypeOK
  OBVIOUS
<1>1. Events(published) \subseteq BoxEvent /\ Works(published) \subseteq Fanout
  BY DEF FanoutOK, BoxesOK, Events, Works, BoxEvent, Fanout
<1>2. boxQueue \in Seq(BoxEvent) /\ fanout \in Fanout
  BY <1>1, SeqWidens DEF FanoutOK, BoxesOK
<1> QED
  BY <1>2 DEF FanoutOK, FollowsOK, BoxesOK, AudienceOK, TypeOK

LEMMA FanoutStart == Init => FanoutOK
<1> SUFFICES ASSUME Init PROVE FanoutOK
  OBVIOUS
<1>1. FollowsOK
  BY FollowsStart DEF Init
<1>2. BoxesOK
  BY DEF Init, BoxesOK, Works
<1>3. AudienceOK
  BY DEF Init, AudienceOK
<1> QED
  BY <1>1, <1>2, <1>3 DEF FanoutOK

LEMMA WorkType ==
  ASSUME BoxesOK, fanout # Free
  PROVE  /\ fanout.event \in Events(published) /\ fanout.event.video \in published
         /\ [at |-> "ack", event |-> fanout.event] \in Works(published)
         /\ fanout.at \in {"batch", "ack"}
         /\ fanout.at = "batch" =>
               /\ fanout.cursor \in Nat
               /\ fanout = [at |-> "batch", event |-> fanout.event, cursor |-> fanout.cursor]
  BY DEF BoxesOK, Works, Events

LEMMA HeadType ==
  ASSUME BoxesOK, boxQueue # << >>
  PROVE  /\ Head(boxQueue) \in Events(published) /\ Head(boxQueue).video \in published
         /\ Tail(boxQueue) \in Seq(Events(published))
<1>1. Head(boxQueue) \in Events(published) /\ Tail(boxQueue) \in Seq(Events(published))
  BY Headed DEF BoxesOK
<1> QED
  BY <1>1 DEF Events

-----------------------------------------------------------------------------
(* GetFollowersBatch: the followers with the smallest ids after the cursor *)

LEMMA BatchPart ==
  \A a \in Vlogger, n \in Nat :
     /\ Batch(a, n) \subseteq FollowersOf(a) /\ Batch(a, n) \subseteq socials
     /\ \A s \in Batch(a, n) : s.id > n
  BY DEF Batch, FollowersOf

(* A follower before one that is in the batch is in the batch. *)
LEMMA BatchBefore ==
  ASSUME SocialsOK, NEW a, NEW n \in Nat, NEW s \in FollowersOf(a), s.id > n,
         NEW t \in Batch(a, n), s.id <= t.id
  PROVE  s \in Batch(a, n)
<1> DEFINE ahead == {u \in FollowersOf(a) : u.id > n}
           Below(u) == {x \in ahead : x.id < u.id}
<1>1. ahead \subseteq socials /\ IsFiniteSet(ahead)
  BY FS_Subset DEF SocialsOK, FollowersOf
<1>2. \A u \in ahead : u.id \in Nat
  BY <1>1 DEF SocialsOK, Social
<1>3. t \in ahead /\ Cardinality(Below(t)) < BatchSize
  BY DEF Batch
<1>4. Below(s) \subseteq Below(t) /\ IsFiniteSet(Below(t))
  <2>1. Below(t) \in SUBSET ahead
    OBVIOUS
  <2> QED
    BY <1>1, <1>2, <1>3, <2>1, FS_Subset
<1>5. Cardinality(Below(s)) <= Cardinality(Below(t)) /\ IsFiniteSet(Below(s))
  BY <1>4, FS_Subset
<1>6. Cardinality(Below(s)) \in Nat /\ Cardinality(Below(t)) \in Nat
  BY <1>4, <1>5, FS_CardinalityType
<1>7. Cardinality(Below(s)) < BatchSize
  BY <1>3, <1>5, <1>6, FanoutAssumption DEF FanoutAssumption
<1> QED
  BY <1>7 DEF Batch

(* A short batch holds all who are left. *)
LEMMA BatchShort ==
  ASSUME SocialsOK, NEW a, NEW n \in Nat, Cardinality(Batch(a, n)) < BatchSize,
         NEW s \in FollowersOf(a), s.id > n
  PROVE  s \in Batch(a, n)
<1> DEFINE ahead == {u \in FollowersOf(a) : u.id > n}
           Below(u) == {x \in ahead : x.id < u.id}
           left == {u.id : u \in ahead \ Batch(a, n)}
<1>1. ahead \subseteq socials /\ IsFiniteSet(ahead)
  BY FS_Subset DEF SocialsOK, FollowersOf
<1>2. \A u \in ahead : u.id \in Nat
  BY <1>1 DEF SocialsOK, Social
<1> SUFFICES ASSUME s \notin Batch(a, n) PROVE FALSE
  OBVIOUS
<1>3. left \in SUBSET Nat /\ left # {}
  BY <1>2
<1>4. PICK m \in left : \A k \in left : m <= k
  BY <1>3, SmallestOf
<1>5. PICK u \in ahead \ Batch(a, n) : u.id = m
  BY <1>4
<1>6. ASSUME NEW x \in Below(u) PROVE x \in Batch(a, n)
  <2>1. x.id \in Nat /\ u.id \in Nat /\ x.id < u.id
    BY <1>2, <1>5
  <2>2. x \in ahead
    OBVIOUS
  <2> QED
    BY <1>4, <1>5, <2>1, <2>2
<1>7. Batch(a, n) \subseteq ahead
  BY DEF Batch
<1>8. IsFiniteSet(Batch(a, n)) /\ Below(u) \in SUBSET Batch(a, n)
  BY <1>1, <1>6, <1>7, FS_Subset
<1>9. Cardinality(Below(u)) <= Cardinality(Batch(a, n)) /\ IsFiniteSet(Below(u))
  BY <1>8, FS_Subset
<1>10. Cardinality(Below(u)) \in Nat /\ Cardinality(Batch(a, n)) \in Nat
  BY <1>8, <1>9, FS_CardinalityType
<1>11. Cardinality(Below(u)) < BatchSize
  BY <1>9, <1>10, FanoutAssumption DEF FanoutAssumption
<1>12. u \in Batch(a, n)
  BY <1>11 DEF Batch
<1> QED
  BY <1>5, <1>12

(* The cursor of a full batch is its largest id. *)
LEMMA BatchLast ==
  ASSUME SocialsOK, NEW a, NEW n \in Nat, ~(Cardinality(Batch(a, n)) < BatchSize),
         NEW last, last = LastIdOf(Batch(a, n))
  PROVE  /\ last \in Nat
         /\ \E t \in Batch(a, n) : t.id = last
         /\ \A t \in Batch(a, n) : t.id <= last
<1> DEFINE batch == Batch(a, n)
           bounds == {m \in Nat : \A t \in batch : t.id <= m}
<1>1. batch \subseteq socials /\ \A t \in batch : t.id \in Nat /\ t.id <= lastId
  BY DEF Batch, FollowersOf, SocialsOK, Social
<1>2. batch # {}
  BY FS_EmptySet, FanoutAssumption DEF FanoutAssumption
<1> HIDE DEF batch
<1>3. bounds \in SUBSET Nat /\ lastId \in bounds
  BY <1>1 DEF SocialsOK
<1>4. PICK m \in bounds : \A k \in bounds : m <= k
  BY <1>3, SmallestOf
<1>5. \E t \in batch : t.id = m
  <2> SUFFICES ASSUME \A t \in batch : t.id # m PROVE FALSE
    OBVIOUS
  <2>1. \A t \in batch : t.id <= m - 1
    BY <1>1, <1>4
  <2>2. m - 1 \in Nat
    BY <1>1, <1>2, <2>1
  <2> QED
    BY <1>4, <2>1, <2>2
<1>6. \E x \in {t.id : t \in batch} : \A t \in batch : t.id <= x
  BY <1>4, <1>5
<1>7. last \in {t.id : t \in batch} /\ \A t \in batch : t.id <= last
  BY <1>6 DEF LastIdOf, batch
<1> QED
  BY <1>1, <1>7 DEF batch

-----------------------------------------------------------------------------
(* Every step keeps the types; videos only come. *)

LEMMA StillPublished ==
  ASSUME NEW P, NEW Q, P \subseteq Q
  PROVE  /\ Events(P) \subseteq Events(Q) /\ Works(P) \subseteq Works(Q)
         /\ \A q \in Seq(Events(P)) : q \in Seq(Events(Q))
<1>1. Events(P) \subseteq Events(Q)
  BY DEF Events
<1> QED
  BY <1>1, SeqWidens DEF Works

LEMMA NoteTypes ==
  BoxesOK /\ Note => crossed' \subseteq published /\ rejoined' \subseteq published
  BY DEF BoxesOK, Note

(* What FollowsTypeOK says of the bounds, for the steps of the fan-out. *)
LEMMA CountsKept ==
  FollowsOK /\ UNCHANGED followVars
    /\ (UNCHANGED publishFailures \/ PublishFails) /\ (UNCHANGED faults \/ Fault) => FollowsOK'
<1> SUFFICES ASSUME FollowsOK, UNCHANGED followVars, UNCHANGED publishFailures \/ PublishFails,
                    UNCHANGED faults \/ Fault
             PROVE  FollowsOK'
  OBVIOUS
<1>1. (FollowsOK <=> SocialsOK /\ CallsOK)'
  BY FollowsParts, PTL
<1>2. SocialsOK /\ CallsOK
  BY FollowsParts
<1>3. publishFailures' \in 0 .. MaxPublishFailures /\ faults' \in 0 .. MaxFaults
  BY <1>2, FollowsAssumption DEF FollowsAssumption, CallsOK, PublishFails, Fault
<1> QED
  BY <1>1, <1>2, <1>3 DEF SocialsOK, CallsOK, followVars

LEMMA AudienceKept ==
  FanoutOK /\ UNCHANGED audience /\ Grown => AudienceOK'
<1> SUFFICES ASSUME FanoutOK, UNCHANGED audience, Grown PROVE AudienceOK'
  OBVIOUS
<1>1. audience \in [Video -> SUBSET Social] /\ lastId \in Nat /\ lastId' \in Nat /\ lastId' >= lastId
  BY DEF FanoutOK, FollowsOK, SocialsOK, AudienceOK, Grown
<1>2. ASSUME NEW v \in Video, NEW s \in audience[v]
      PROVE  s.vlogger = Author(v) /\ s.id <= lastId'
  <2>1. s.vlogger = Author(v) /\ s.id <= lastId /\ s.id \in Nat
    BY <1>1 DEF FanoutOK, AudienceOK, Social
  <2> QED
    BY <1>1, <2>1
<1> QED
  BY <1>1, <1>2 DEF AudienceOK

LEMMA FollowStepTypes == FanoutOK /\ FollowsNext /\ UNCHANGED boxVars /\ Note => FanoutOK'
<1> SUFFICES ASSUME FanoutOK, FollowsNext, UNCHANGED boxVars, Note PROVE FanoutOK'
  OBVIOUS
<1>1. FollowsOK' /\ Grown
  BY FollowsKept DEF FanoutOK
<1>2. AudienceOK'
  BY <1>1, AudienceKept DEF boxVars
<1>3. BoxesOK'
  BY NoteTypes DEF FanoutOK, BoxesOK, boxVars
<1> QED
  BY <1>1, <1>2, <1>3 DEF FanoutOK

LEMMA FanoutStepTypes == FanoutOK /\ FanoutNext /\ Note => FanoutOK'
<1> SUFFICES ASSUME FanoutOK, FanoutNext, Note PROVE FanoutOK'
  OBVIOUS
<1>0. /\ BoxesOK /\ FollowsOK /\ AudienceOK /\ SocialsOK
      /\ crossed' \subseteq published /\ rejoined' \subseteq published
  BY NoteTypes DEF FanoutOK, FollowsOK
<1>1. UNCHANGED followVars => Grown
  BY <1>0, NothingGrown DEF followVars
<1>2. ASSUME NEW v \in Video, PublishInbox(v) PROVE FanoutOK'
  <2>1. FollowsOK'
    BY <1>0, <1>2, CountsKept DEF PublishInbox
  <2>2. published \subseteq published' /\ published' \subseteq Video /\ v \in published'
    BY <1>0, <1>2 DEF PublishInbox, BoxesOK
  <2>3. /\ boxQueue \in Seq(Events(published')) /\ fanout \in Works(published')
    BY <1>0, <2>2, StillPublished DEF BoxesOK
  <2>4. boxQueue' \in Seq(Events(published'))
    <3>1. PICK e : e = [box |-> "inbox", video |-> v]
      OBVIOUS
    <3>2. e \in Events(published')
      BY <2>2, <3>1 DEF Events
    <3>3. boxQueue' = Append(boxQueue, e) \/ boxQueue' = boxQueue
      BY <1>2, <3>1 DEF PublishInbox
    <3> QED
      BY <2>3, <3>2, <3>3, Appended
  <2>5. BoxesOK'
    BY <1>0, <1>2, <2>2, <2>3, <2>4 DEF PublishInbox, BoxesOK
  <2>6. AudienceOK'
    <3>1. FollowersOf(Author(v)) \in SUBSET Social
      BY <1>0 DEF SocialsOK, FollowersOf
    <3>2. \A s \in FollowersOf(Author(v)) : s.vlogger = Author(v) /\ s.id <= lastId
      BY <1>0 DEF SocialsOK, FollowersOf
    <3>3. audience' = [audience EXCEPT ![v] = FollowersOf(Author(v))] /\ lastId' = lastId
      BY <1>2 DEF PublishInbox, followVars
    <3>4. audience' \in [Video -> SUBSET Social]
      BY <1>0, <3>1, <3>3 DEF AudienceOK
    <3>5. ASSUME NEW u \in Video, NEW s \in audience'[u]
          PROVE  s.vlogger = Author(u) /\ s.id <= lastId'
      <4>1. CASE u = v
        BY <1>0, <3>2, <3>3, <3>5, <4>1 DEF AudienceOK
      <4>2. CASE u # v
        BY <1>0, <3>3, <3>5, <4>2 DEF AudienceOK
      <4> QED
        BY <4>1, <4>2
    <3> QED
      BY <3>4, <3>5 DEF AudienceOK
  <2> QED
    BY <2>1, <2>5, <2>6 DEF FanoutOK
<1>3. ASSUME NEW v \in Video, PublishOutbox(v) PROVE FanoutOK'
  <2>1. FollowsOK' /\ AudienceOK'
    BY <1>0, <1>1, <1>3, CountsKept, AudienceKept DEF PublishOutbox
  <2>2. v \in published
    BY <1>0, <1>3 DEF PublishOutbox, BoxesOK
  <2>3. boxQueue' \in Seq(Events(published))
    <3>1. PICK e : e = [box |-> "outbox", video |-> v]
      OBVIOUS
    <3>2. e \in Events(published)
      BY <2>2, <3>1 DEF Events
    <3>3. boxQueue' = Append(boxQueue, e) \/ boxQueue' = boxQueue
      BY <1>3, <3>1 DEF PublishOutbox
    <3> QED
      BY <1>0, <3>2, <3>3, Appended DEF BoxesOK
  <2>4. outbox' \subseteq published /\ publishing' \subseteq published
    BY <1>0, <1>3, <2>2 DEF PublishOutbox, BoxesOK
  <2>5. BoxesOK'
    BY <1>0, <1>3, <2>3, <2>4 DEF PublishOutbox, BoxesOK
  <2> QED
    BY <2>1, <2>5 DEF FanoutOK
<1>4. ASSUME DeliverInbox \/ DeliverOutbox PROVE FanoutOK'
  <2>1. FollowsOK' /\ AudienceOK'
    BY <1>0, <1>1, <1>4, CountsKept, AudienceKept DEF DeliverInbox, DeliverOutbox
  <2>2. /\ Head(boxQueue) \in Events(published) /\ Head(boxQueue).video \in published
        /\ boxQueue' \in Seq(Events(published))
    BY <1>0, <1>4, HeadType DEF DeliverInbox, DeliverOutbox
  <2>3. fanout' \in Works(published)
    BY <1>4, <2>2 DEF DeliverInbox, DeliverOutbox, Works
  <2>4. outbox' \subseteq published
    BY <1>0, <1>4, <2>2 DEF DeliverInbox, DeliverOutbox, BoxesOK
  <2>5. UNCHANGED <<published, publishing, inbox, inboxCache>>
    BY <1>4 DEF DeliverInbox, DeliverOutbox
  <2>6. BoxesOK'
    BY <1>0, <2>2, <2>3, <2>4, <2>5 DEF BoxesOK
  <2> QED
    BY <2>1, <2>6 DEF FanoutOK
<1>5. ASSUME FanOutBatch PROVE FanoutOK'
  <2>1. FollowsOK' /\ AudienceOK'
    BY <1>0, <1>1, <1>5, CountsKept, AudienceKept DEF FanOutBatch
  <2>2. fanout # Free /\ fanout.at = "batch"
    BY <1>5 DEF FanOutBatch, Free
  <2>3. PICK e, v, n, batch, rows, done :
           /\ e = fanout.event /\ v = e.video /\ n = fanout.cursor
           /\ batch = Batch(Author(v), n)
           /\ rows = {<<s.follower, v>> : s \in batch}
           /\ done = [at |-> "ack", event |-> e]
    OBVIOUS
  <2>4. /\ e \in Events(published) /\ v \in published /\ n \in Nat /\ done \in Works(published)
        /\ fanout = [at |-> "batch", event |-> e, cursor |-> n]
        /\ Author(v) \in Vlogger
    BY <1>0, <2>2, <2>3, WorkType, FanoutAssumption DEF FanoutAssumption, Author, BoxesOK
  <2>5. rows \subseteq Follower \X published
    <3>1. batch \subseteq Social
      BY <1>0, <2>3, <2>4, BatchPart DEF SocialsOK
    <3> QED
      BY <2>3, <2>4, <3>1 DEF Social
  <2>6. ~(Cardinality(batch) < BatchSize) =>
           [fanout EXCEPT !.cursor = LastIdOf(batch)] \in Works(published)
    <3> SUFFICES ASSUME ~(Cardinality(batch) < BatchSize)
                 PROVE  [fanout EXCEPT !.cursor = LastIdOf(batch)] \in Works(published)
      OBVIOUS
    <3>1. LastIdOf(batch) \in Nat
      BY <1>0, <2>3, <2>4, BatchLast
    <3> QED
      BY <2>4, <3>1 DEF Works
  <2>7. /\ UNCHANGED <<published, publishing, boxQueue, outbox>>
        /\ \/ inbox' = inbox /\ inboxCache' = inboxCache /\ fanout' = done
           \/ /\ inbox' = inbox \cup rows
              /\ inboxCache' \in {inboxCache, inboxCache \cup rows}
              /\ fanout' = IF Cardinality(batch) < BatchSize THEN done
                           ELSE [fanout EXCEPT !.cursor = LastIdOf(batch)]
    BY <1>5, <2>3 DEF FanOutBatch
  <2>8. fanout' \in Works(published) /\ inbox' \subseteq Follower \X published
        /\ inboxCache' \subseteq inbox'
    BY <1>0, <2>4, <2>5, <2>6, <2>7 DEF BoxesOK
  <2>9. BoxesOK'
    BY <1>0, <2>7, <2>8 DEF BoxesOK
  <2> QED
    BY <2>1, <2>9 DEF FanoutOK
<1>6. ASSUME AckBox PROVE FanoutOK'
  <2>1. FollowsOK' /\ AudienceOK'
    BY <1>0, <1>1, <1>6, CountsKept, AudienceKept DEF AckBox
  <2>2. BoxesOK'
    BY <1>0, <1>6 DEF AckBox, BoxesOK, Works
  <2> QED
    BY <2>1, <2>2 DEF FanoutOK
<1>7. ASSUME RequeueBox PROVE FanoutOK'
  <2>1. FollowsOK' /\ AudienceOK'
    BY <1>0, <1>1, <1>7, CountsKept, AudienceKept DEF RequeueBox
  <2>2. fanout.event \in Events(published)
    BY <1>0, <1>7, WorkType DEF RequeueBox
  <2>3. boxQueue' \in Seq(Events(published))
    <3>1. PICK i \in 1 .. Len(boxQueue) + 1 : boxQueue' = InsertAt(boxQueue, i, fanout.event)
      BY <1>7 DEF RequeueBox
    <3> QED
      BY <1>0, <2>2, <3>1, PutIn DEF BoxesOK
  <2>4. BoxesOK'
    BY <1>0, <1>7, <2>3 DEF RequeueBox, BoxesOK, Works
  <2> QED
    BY <2>1, <2>4 DEF FanoutOK
<1> QED
  BY <1>2, <1>3, <1>4, <1>5, <1>6, <1>7 DEF FanoutNext, VideoWorkerStep

LEMMA FanoutKept == FanoutOK /\ [Next]_vars => FanoutOK'
<1> SUFFICES ASSUME FanoutOK, [Next]_vars PROVE FanoutOK'
  OBVIOUS
<1>1. CASE Next
  BY <1>1, FollowStepTypes, FanoutStepTypes DEF Next
<1>2. CASE UNCHANGED vars
  BY <1>2 DEF vars, followVars, boxVars, FanoutOK, FollowsOK, SocialsOK, FollowsTypeOK,
     BoxesOK, AudienceOK
<1> QED
  BY <1>1, <1>2

LEMMA FanoutAlways == Spec => []FanoutOK
  BY FanoutStart, FanoutKept, PTL DEF Spec

(* Every row, event, job and box keeps its type, the rows of socials stay    *)
(* unique, and boxes, queue and worker name published videos only           *)
(* (social/repo.go, videoworker.go).                                        *)
THEOREM FanoutTypeCorrect == Spec => []TypeOK
  BY FanoutAlways, FanoutTypes, PTL

-----------------------------------------------------------------------------
(***************************************************************************)
(* What the last event of a pair asks for is still to be done by the last  *)
(* event of the pair that is queued, or it is what the table holds, or a   *)
(* request that asked the contrary has written the table since.            *)
(***************************************************************************)
Pair(event) == <<event.follower, event.vlogger>>

Unsaid(queue, p) == \A i \in DOMAIN queue : Pair(queue[i]) # p

Said(queue, p, action) ==
    \E i \in DOMAIN queue :
       /\ Pair(queue[i]) = p /\ queue[i].action = action
       /\ \A j \in DOMAIN queue : j > i => Pair(queue[j]) # p

Holds(f, a, action) ==
    \/ Said(socialQueue, <<f, a>>, action)
    \/ /\ Unsaid(socialQueue, <<f, a>>)
       /\ <<f, a>> \in outrun \/ (action = "follow" <=> IsFollowed(f, a))

RelationKept ==
    Undisturbed =>
    \A f \in Follower, a \in Vlogger, action \in {"follow", "unfollow"} :
       wanted[<<f, a>>] = action => Holds(f, a, action)

LEMMA AppendSays ==
  ASSUME NEW q \in Seq(SocialEvent), NEW e \in SocialEvent, NEW p, NEW action
  PROVE  /\ Pair(e) = p /\ e.action = action => Said(Append(q, e), p, action)
         /\ Pair(e) # p /\ Said(q, p, action) => Said(Append(q, e), p, action)
         /\ Pair(e) # p /\ Unsaid(q, p) => Unsaid(Append(q, e), p)
<1>1. PICK r : r = Append(q, e)
  OBVIOUS
<1>2. /\ Len(q) \in Nat /\ DOMAIN q = 1 .. Len(q) /\ DOMAIN r = 1 .. Len(q) + 1
      /\ r[Len(q) + 1] = e /\ \A j \in DOMAIN q : r[j] = q[j]
  BY <1>1, Appended
<1>3. ASSUME Pair(e) = p, e.action = action PROVE Said(r, p, action)
  BY <1>2, <1>3 DEF Said
<1>4. ASSUME Pair(e) # p, Said(q, p, action) PROVE Said(r, p, action)
  <2>1. PICK i \in DOMAIN q :
           /\ Pair(q[i]) = p /\ q[i].action = action
           /\ \A j \in DOMAIN q : j > i => Pair(q[j]) # p
    BY <1>4 DEF Said
  <2>2. ASSUME NEW j \in DOMAIN r, j > i PROVE Pair(r[j]) # p
    <3>1. j \in DOMAIN q \/ j = Len(q) + 1
      BY <1>2
    <3> QED
      BY <1>2, <1>4, <2>1, <2>2, <3>1
  <2>3. i \in DOMAIN r /\ r[i] = q[i]
    BY <1>2
  <2> QED
    BY <2>1, <2>2, <2>3 DEF Said
<1>5. ASSUME Pair(e) # p, Unsaid(q, p) PROVE Unsaid(r, p)
  <2>1. ASSUME NEW j \in DOMAIN r PROVE Pair(r[j]) # p
    <3>1. j \in DOMAIN q \/ j = Len(q) + 1
      BY <1>2
    <3> QED
      BY <1>2, <1>5, <3>1 DEF Unsaid
  <2> QED
    BY <2>1 DEF Unsaid
<1> QED
  BY <1>1, <1>3, <1>4, <1>5

LEMMA TailSays ==
  ASSUME NEW q \in Seq(SocialEvent), q # << >>, NEW p, NEW action
  PROVE  /\ Said(q, p, action) =>
              \/ Said(Tail(q), p, action)
              \/ Unsaid(Tail(q), p) /\ Pair(Head(q)) = p /\ Head(q).action = action
         /\ Unsaid(q, p) => Unsaid(Tail(q), p) /\ Pair(Head(q)) # p
<1>1. PICK r : r = Tail(q)
  OBVIOUS
<1>2. /\ Len(q) \in Nat \ {0} /\ DOMAIN q = 1 .. Len(q) /\ DOMAIN r = 1 .. Len(q) - 1
      /\ Head(q) = q[1] /\ \A j \in DOMAIN r : r[j] = q[j + 1]
  BY <1>1, Headed
<1>3. \A j \in DOMAIN r : j + 1 \in DOMAIN q
  BY <1>2
<1>4. ASSUME Said(q, p, action)
      PROVE  \/ Said(r, p, action)
             \/ Unsaid(r, p) /\ Pair(Head(q)) = p /\ Head(q).action = action
  <2>1. PICK i \in DOMAIN q :
           /\ Pair(q[i]) = p /\ q[i].action = action
           /\ \A j \in DOMAIN q : j > i => Pair(q[j]) # p
    BY <1>4 DEF Said
  <2>2. CASE i = 1
    <3>1. \A j \in DOMAIN r : j + 1 > i
      BY <1>2, <2>2
    <3>2. Unsaid(r, p)
      BY <1>2, <1>3, <2>1, <3>1 DEF Unsaid
    <3> QED
      BY <1>2, <2>1, <2>2, <3>2
  <2>3. CASE i > 1
    <3>1. i - 1 \in DOMAIN r /\ (i - 1) + 1 = i
      BY <1>2, <2>3
    <3>2. r[i - 1] = q[i]
      BY <1>2, <3>1
    <3>3. \A j \in DOMAIN r : j > i - 1 => j + 1 > i
      BY <1>2
    <3>4. \A j \in DOMAIN r : j > i - 1 => Pair(r[j]) # p
      BY <1>2, <1>3, <2>1, <3>3
    <3> QED
      BY <2>1, <3>1, <3>2, <3>4 DEF Said
  <2> QED
    BY <1>2, <2>2, <2>3
<1>5. ASSUME Unsaid(q, p) PROVE Unsaid(r, p) /\ Pair(Head(q)) # p
  <2>1. 1 \in DOMAIN q
    BY <1>2
  <2> QED
    BY <1>2, <1>3, <1>5, <2>1 DEF Unsaid
<1> QED
  BY <1>1, <1>4, <1>5

LEMMA RelationKeptByFollows ==
  ASSUME FollowsOK, FollowsNext, RelationKept, Undisturbed, UNCHANGED <<faults, publishFailures>>
  PROVE  RelationKept'
<1>0. /\ SocialsOK /\ socialQueue \in Seq(SocialEvent)
      /\ followCall \in [Request -> FollowCall]
      /\ wanted \in [Follower \X Vlogger -> {"none", "follow", "unfollow"}]
      /\ faults \in Nat /\ publishFailures \in Nat
  BY DEF FollowsOK, FollowsTypeOK
<1> SUFFICES ASSUME NEW g \in Follower, NEW b \in Vlogger,
                    NEW x \in {"follow", "unfollow"}, wanted'[<<g, b>>] = x
             PROVE  Holds(g, b, x)'
  BY DEF RelationKept
<1>1. wanted[<<g, b>>] = x => Holds(g, b, x)
  BY DEF RelationKept
<1>2. ASSUME UNCHANGED <<socials, socialQueue, wanted, outrun>> PROVE Holds(g, b, x)'
  BY <1>1, <1>2 DEF Holds, IsFollowed, Relation
<1>3. ASSUME NEW r \in Request, PublishFollow(r) PROVE Holds(g, b, x)'
  <2>1. PICK f, a, action : /\ f = followCall[r].follower /\ a = followCall[r].vlogger
                            /\ action = followCall[r].action
    OBVIOUS
  <2>2. action \in {"follow", "unfollow"} /\ f \in Follower /\ a \in Vlogger
    BY <1>3, <2>1, CallType DEF PublishFollow
  <2>3. PICK e : e = [action |-> action, follower |-> f, vlogger |-> a]
    OBVIOUS
  <2>4. e \in SocialEvent /\ Pair(e) = <<f, a>> /\ e.action = action
    BY <2>2, <2>3 DEF SocialEvent, Pair
  <2>5. /\ socialQueue' = Append(socialQueue, e) /\ UNCHANGED socials
        /\ wanted' = [wanted EXCEPT ![<<f, a>>] = action]
        /\ outrun' = outrun \ {<<f, a>>}
    BY <1>0, <1>3, <2>1, <2>3 DEF PublishFollow, PublishFails
  <2>6. CASE <<g, b>> = <<f, a>>
    <3>1. x = action
      BY <1>0, <2>2, <2>5, <2>6
    <3>2. Said(socialQueue', <<g, b>>, x)
      BY <1>0, <2>4, <2>5, <2>6, <3>1, AppendSays
    <3> QED
      BY <3>2 DEF Holds
  <2>7. CASE <<g, b>> # <<f, a>>
    <3>1. wanted[<<g, b>>] = x /\ (<<g, b>> \in outrun' <=> <<g, b>> \in outrun)
      BY <1>0, <2>5, <2>7
    <3>2. Holds(g, b, x)
      BY <1>1, <3>1
    <3>3. /\ Said(socialQueue, <<g, b>>, x) => Said(socialQueue', <<g, b>>, x)
          /\ Unsaid(socialQueue, <<g, b>>) => Unsaid(socialQueue', <<g, b>>)
      BY <1>0, <2>4, <2>5, <2>7, AppendSays
    <3> QED
      BY <2>5, <3>1, <3>2, <3>3 DEF Holds, IsFollowed, Relation
  <2> QED
    BY <2>6, <2>7
<1>4. ASSUME NEW r \in Request, WriteFollow(r) PROVE Holds(g, b, x)'
  <2>1. PICK f, a, action : /\ f = followCall[r].follower /\ a = followCall[r].vlogger
                            /\ action = followCall[r].action
    OBVIOUS
  <2>2. action \in {"follow", "unfollow"} /\ f \in Follower /\ a \in Vlogger
    BY <1>4, <2>1, CallType DEF WriteFollow
  <2>3. /\ Change(action, f, a) /\ UNCHANGED <<socialQueue, wanted>>
        /\ outrun \subseteq outrun'
        /\ action # wanted[<<f, a>>] => <<f, a>> \in outrun'
    BY <1>4, <2>1 DEF WriteFollow
  <2>4. /\ IsFollowed(f, a)' <=> action = "follow"
        /\ g # f \/ b # a => (IsFollowed(g, b)' <=> IsFollowed(g, b))
    BY <1>0, <2>2, <2>3, Changed
  <2>5. wanted[<<g, b>>] = x /\ Holds(g, b, x)
    BY <1>1, <2>3
  <2>6. CASE Said(socialQueue, <<g, b>>, x)
    BY <2>3, <2>6 DEF Holds
  <2>7. CASE /\ Unsaid(socialQueue, <<g, b>>)
             /\ <<g, b>> \in outrun \/ (x = "follow" <=> IsFollowed(g, b))
    <3>1. <<g, b>> \in outrun' \/ (x = "follow" <=> IsFollowed(g, b)')
      BY <2>3, <2>4, <2>5, <2>7
    <3> QED
      BY <2>3, <2>7, <3>1 DEF Holds
  <2> QED
    BY <2>5, <2>6, <2>7 DEF Holds
<1>5. ASSUME ConsumeFollow PROVE Holds(g, b, x)'
  <2>1. PICK action, f, a : /\ action = Head(socialQueue).action
                            /\ f = Head(socialQueue).follower
                            /\ a = Head(socialQueue).vlogger
    OBVIOUS
  <2>2. /\ action \in {"follow", "unfollow"} /\ f \in Follower /\ a \in Vlogger
        /\ socialQueue # << >> /\ socialQueue' = Tail(socialQueue) /\ Change(action, f, a)
        /\ UNCHANGED <<wanted, outrun>>
    BY <1>5, <2>1, EventType DEF ConsumeFollow
  <2>3. Holds(g, b, x)
    BY <1>1, <2>2
  <2>4. /\ IsFollowed(f, a)' <=> action = "follow"
        /\ g # f \/ b # a => (IsFollowed(g, b)' <=> IsFollowed(g, b))
    BY <1>0, <2>2, Changed
  <2>5. Pair(Head(socialQueue)) = <<f, a>>
    BY <2>1 DEF Pair
  <2>6. CASE Said(Tail(socialQueue), <<g, b>>, x)
    BY <2>2, <2>6 DEF Holds
  <2>7. CASE /\ Unsaid(Tail(socialQueue), <<g, b>>) /\ Pair(Head(socialQueue)) = <<g, b>>
             /\ Head(socialQueue).action = x
    <3>1. g = f /\ b = a /\ x = action
      BY <2>1, <2>5, <2>7
    <3> QED
      BY <2>2, <2>4, <2>7, <3>1 DEF Holds
  <2>8. CASE /\ Unsaid(socialQueue, <<g, b>>)
             /\ <<g, b>> \in outrun \/ (x = "follow" <=> IsFollowed(g, b))
    <3>1. Unsaid(Tail(socialQueue), <<g, b>>) /\ Pair(Head(socialQueue)) # <<g, b>>
      BY <1>0, <2>2, <2>8, TailSays
    <3>2. IsFollowed(g, b)' <=> IsFollowed(g, b)
      BY <2>4, <2>5, <3>1
    <3> QED
      BY <2>2, <2>8, <3>1, <3>2 DEF Holds
  <2>9. Said(socialQueue, <<g, b>>, x) =>
           \/ Said(Tail(socialQueue), <<g, b>>, x)
           \/ /\ Unsaid(Tail(socialQueue), <<g, b>>) /\ Pair(Head(socialQueue)) = <<g, b>>
              /\ Head(socialQueue).action = x
    BY <1>0, <2>2, TailSays
  <2> QED
    BY <2>3, <2>6, <2>7, <2>8, <2>9 DEF Holds
<1>6. ASSUME RequeueFollow PROVE FALSE
  BY <1>0, <1>6 DEF RequeueFollow, Fault
<1> QED
  BY <1>2, <1>3, <1>4, <1>5, <1>6 DEF FollowsNext, CheckFollow

LEMMA CountsGrow ==
  FanoutOK /\ [Next]_vars => /\ faults' \in {faults, faults + 1}
                             /\ publishFailures' \in {publishFailures, publishFailures + 1}
<1> SUFFICES ASSUME FanoutOK, [Next]_vars
             PROVE  /\ faults' \in {faults, faults + 1}
                    /\ publishFailures' \in {publishFailures, publishFailures + 1}
  OBVIOUS
<1>1. CASE FollowsNext
  BY <1>1 DEF FollowsNext, CheckFollow, PublishFollow, WriteFollow, ConsumeFollow,
     RequeueFollow, PublishFails, Fault
<1>2. CASE FanoutNext
  BY <1>2 DEF FanoutNext, VideoWorkerStep, PublishInbox, PublishOutbox, DeliverInbox,
     FanOutBatch, DeliverOutbox, AckBox, RequeueBox, PublishFails, Fault
<1>3. CASE UNCHANGED vars
  BY <1>3 DEF vars
<1> QED
  BY <1>1, <1>2, <1>3 DEF Next

LEMMA StillUndisturbed ==
  FanoutOK /\ [Next]_vars /\ Undisturbed' =>
     Undisturbed /\ UNCHANGED <<faults, publishFailures>>
<1> SUFFICES ASSUME FanoutOK, [Next]_vars, Undisturbed'
             PROVE  Undisturbed /\ UNCHANGED <<faults, publishFailures>>
  OBVIOUS
<1>1. faults \in Nat /\ publishFailures \in Nat
  BY DEF FanoutOK, FollowsOK, FollowsTypeOK
<1> QED
  BY <1>1, CountsGrow DEF Undisturbed

LEMMA RelationStaysKept == FanoutOK /\ [Next]_vars /\ RelationKept => RelationKept'
<1> SUFFICES ASSUME FanoutOK, [Next]_vars, RelationKept, Undisturbed' PROVE RelationKept'
  BY DEF RelationKept
<1>1. Undisturbed /\ UNCHANGED <<faults, publishFailures>>
  BY StillUndisturbed
<1>2. CASE FollowsNext
  BY <1>1, <1>2, RelationKeptByFollows DEF FanoutOK
<1>3. CASE UNCHANGED followVars
  BY <1>1, <1>3 DEF followVars, RelationKept, Undisturbed, Holds, IsFollowed, Relation
<1>4. FanoutNext => UNCHANGED followVars
  BY DEF FanoutNext, VideoWorkerStep, PublishInbox, PublishOutbox, DeliverInbox,
     FanOutBatch, DeliverOutbox, AckBox, RequeueBox
<1> QED
  BY <1>2, <1>3, <1>4 DEF Next, vars

(***************************************************************************)
(* With one worker, no redelivery and every event published, the relation  *)
(* ends up as the last event of the pair asked for, although each change   *)
(* is written twice, by the request and later by the worker, although the  *)
(* worker may overtake the request, and however many requests of one       *)
(* account run side by side - unless one that asked the contrary wrote the *)
(* table after that event had been published (SocialService.Follow and     *)
(* Unfollow, SocialWorker).                                                *)
(***************************************************************************)
THEOREM RelationEndsAsWanted == Spec => []RelationIsAsWanted
<1>1. Init => RelationKept
  BY DEF Init, FollowsInit, RelationKept
<1>2. FanoutOK /\ RelationKept => RelationIsAsWanted
  <2> SUFFICES ASSUME FanoutOK, RelationKept, FollowsAtRest, Undisturbed,
                      NEW f \in Follower, NEW a \in Vlogger,
                      <<f, a>> \notin outrun, wanted[<<f, a>>] # "none"
               PROVE  (wanted[<<f, a>>] = "follow") = IsFollowed(f, a)
    BY DEF RelationIsAsWanted
  <2>1. PICK x : x = wanted[<<f, a>>]
    OBVIOUS
  <2>2. x \in {"follow", "unfollow"}
    BY <2>1 DEF FanoutOK, FollowsOK, FollowsTypeOK
  <2>3. Holds(f, a, x)
    BY <2>1, <2>2 DEF RelationKept
  <2>4. socialQueue = << >>
    BY DEF FollowsAtRest
  <2>5. x = "follow" <=> IsFollowed(f, a)
    BY <2>3, <2>4 DEF Holds, Said
  <2>6. IsFollowed(f, a) \in BOOLEAN
    BY DEF IsFollowed
  <2> QED
    BY <2>1, <2>5, <2>6
<1> QED
  BY <1>1, <1>2, RelationStaysKept, FanoutAlways, PTL DEF Spec

-----------------------------------------------------------------------------
(***************************************************************************)
(* The way of a published video whose author has kept its side of the      *)
(* threshold and that no follower has lost and got back.  A big author's   *)
(* video has no row in an inbox, and its outbox event is to be sent,       *)
(* queued, or done.  A small author's is not in the outbox, and its inbox  *)
(* event is queued with no row written, or the worker is between batches:  *)
(* the steady followers up to the cursor have their row and no follower    *)
(* after it has one, so that no duplicate key ends the fan-out; or every   *)
(* steady follower has its row.                                            *)
(***************************************************************************)
Has(queue, box, v) == \E i \in DOMAIN queue : queue[i].box = box /\ queue[i].video = v

NoRow(v) == \A f \in Follower : ~InInbox(v, f)
Batching(v) == fanout.at = "batch" /\ fanout.event.video = v

Reached(v, n) == \A s \in Steady(v) : s.id <= n => InInbox(v, s.follower)
Unreached(v, n) == \A s \in FollowersOf(Author(v)) : s.id > n => ~InInbox(v, s.follower)
AllReached(v) == \A s \in Steady(v) : InInbox(v, s.follower)

OutboxWay(v) ==
    /\ NoRow(v)
    /\ ~Batching(v)
    /\ v \in publishing \/ Has(boxQueue, "outbox", v) \/ v \in outbox

InboxWay(v) ==
    /\ v \notin outbox
    /\ \/ Has(boxQueue, "inbox", v) /\ NoRow(v) /\ ~Batching(v)
       \/ Batching(v) /\ Reached(v, fanout.cursor) /\ Unreached(v, fanout.cursor)
       \/ AllReached(v)

OnItsWay(v) ==
    /\ IsBigV(Author(v)) => OutboxWay(v)
    /\ ~IsBigV(Author(v)) => InboxWay(v)

Regular == published \ (crossed \cup rejoined)

WaysKept == Undisturbed => \A v \in Regular : OnItsWay(v)

LEMMA HasAppended ==
  ASSUME NEW S, NEW q \in Seq(S), NEW e \in S, NEW box, NEW v
  PROVE  /\ Has(q, box, v) => Has(Append(q, e), box, v)
         /\ e.box = box /\ e.video = v => Has(Append(q, e), box, v)
<1>1. PICK r : r = Append(q, e)
  OBVIOUS
<1>2. /\ Len(q) \in Nat /\ DOMAIN q = 1 .. Len(q) /\ DOMAIN r = 1 .. Len(q) + 1
      /\ r[Len(q) + 1] = e /\ \A j \in DOMAIN q : r[j] = q[j] /\ j \in DOMAIN r
  BY <1>1, Appended
<1>3. Len(q) + 1 \in DOMAIN r
  BY <1>2
<1> QED
  BY <1>1, <1>2, <1>3 DEF Has

LEMMA HasTail ==
  ASSUME NEW S, NEW q \in Seq(S), q # << >>, NEW box, NEW v, Has(q, box, v),
         Head(q).box # box \/ Head(q).video # v
  PROVE  Has(Tail(q), box, v)
<1>1. PICK r : r = Tail(q)
  OBVIOUS
<1>2. /\ Len(q) \in Nat \ {0} /\ DOMAIN q = 1 .. Len(q) /\ DOMAIN r = 1 .. Len(q) - 1
      /\ Head(q) = q[1] /\ \A j \in DOMAIN r : r[j] = q[j + 1]
  BY <1>1, Headed
<1>3. PICK i \in DOMAIN q : q[i].box = box /\ q[i].video = v
  BY DEF Has
<1>4. i - 1 \in DOMAIN r /\ (i - 1) + 1 = i
  BY <1>2, <1>3
<1>5. r[i - 1] = q[i]
  BY <1>2, <1>4
<1> QED
  BY <1>1, <1>3, <1>4, <1>5 DEF Has

(* What the histories say of a step. *)
Noted ==
    /\ \A v \in published :
          v \notin crossed' => v \notin crossed /\ (IsBigV(Author(v))' <=> IsBigV(Author(v)))
    /\ \A v \in published :
          v \notin rejoined' =>
             /\ v \notin rejoined
             /\ \A s \in socials' : s \in socials \/ s.vlogger # Author(v) \/ ~InInbox(v, s.follower)

LEMMA NoteHolds == BoxesOK /\ Note => Noted
<1> SUFFICES ASSUME BoxesOK, Note PROVE Noted
  OBVIOUS
<1>1. ASSUME NEW v \in published, v \notin crossed'
      PROVE  v \notin crossed /\ (IsBigV(Author(v))' <=> IsBigV(Author(v)))
  <2>1. v \notin crossed /\ ~(IsBigV(Author(v)) # IsBigV(Author(v))')
    BY <1>1 DEF Note
  <2> QED
    BY <2>1
<1>2. ASSUME NEW v \in published, v \notin rejoined'
      PROVE  /\ v \notin rejoined
             /\ \A s \in socials' : s \in socials \/ s.vlogger # Author(v) \/ ~InInbox(v, s.follower)
  BY <1>2 DEF Note, InInbox
<1> QED
  BY <1>1, <1>2 DEF Noted

(* Of what a steady follower and a row are, and that relations only go. *)
LEMMA SteadyType ==
  ASSUME FanoutOK, NEW v \in Video
  PROVE  /\ Author(v) \in Vlogger
         /\ \A s \in Steady(v) : /\ s \in FollowersOf(Author(v)) /\ s \in Social
                                 /\ s.id \in Nat \ {0} /\ s.follower \in Follower
         /\ \A s \in FollowersOf(Author(v)) : /\ s \in socials /\ s \in Social /\ s.vlogger = Author(v)
                                              /\ s.id \in Nat \ {0} /\ s.follower \in Follower
<1>1. Author(v) \in Vlogger
  BY FanoutAssumption DEF FanoutAssumption, Author
<1>2. ASSUME NEW s \in FollowersOf(Author(v))
      PROVE  /\ s \in socials /\ s \in Social /\ s.vlogger = Author(v)
             /\ s.id \in Nat \ {0} /\ s.follower \in Follower
  BY DEF FanoutOK, FollowsOK, SocialsOK, FollowersOf, Social
<1>3. ASSUME NEW s \in Steady(v) PROVE s \in FollowersOf(Author(v))
  BY DEF FanoutOK, AudienceOK, Steady, FollowersOf
<1> QED
  BY <1>1, <1>2, <1>3

LEMMA SteadyGoes ==
  ASSUME FanoutOK, NEW v \in Video, Grown, audience'[v] = audience[v]
  PROVE  \A s \in Steady(v)' : s \in Steady(v)
<1> SUFFICES ASSUME NEW s \in audience'[v] \cap socials' PROVE s \in Steady(v)
  BY DEF Steady
<1>1. s.id <= lastId /\ s.id \in Nat /\ lastId \in Nat
  BY DEF FanoutOK, FollowsOK, SocialsOK, AudienceOK, Social
<1>2. s \in socials
  BY <1>1 DEF Grown
<1> QED
  BY <1>2 DEF Steady

(* A step that does not deal with the video. *)
LEMMA StaysOnItsWay ==
  ASSUME FanoutOK, NEW v \in published, OnItsWay(v), Grown, audience'[v] = audience[v],
         IsBigV(Author(v))' <=> IsBigV(Author(v)),
         \A s \in socials' : s \in socials \/ s.vlogger # Author(v) \/ ~InInbox(v, s.follower),
         \A f : InInbox(v, f)' <=> InInbox(v, f),
         v \in publishing' <=> v \in publishing,
         v \in outbox' <=> v \in outbox,
         \A box \in {"inbox", "outbox"} : Has(boxQueue, box, v) => Has(boxQueue', box, v),
         Batching(v)' <=> Batching(v),
         Batching(v) => fanout'.cursor = fanout.cursor
  PROVE  OnItsWay(v)'
<1>0. v \in Video
  BY DEF FanoutOK, BoxesOK
<1>1. AllReached(v) => AllReached(v)'
  BY <1>0, SteadyGoes DEF AllReached
<1>2. NoRow(v) => NoRow(v)'
  BY DEF NoRow
<1>3. ASSUME NEW n PROVE Reached(v, n) => Reached(v, n)'
  BY <1>0, SteadyGoes DEF Reached
<1>4. ASSUME NEW n PROVE Unreached(v, n) => Unreached(v, n)'
  BY DEF Unreached, FollowersOf
<1>5. OutboxWay(v) => OutboxWay(v)'
  BY <1>2 DEF OutboxWay
<1>6. InboxWay(v) => InboxWay(v)'
  <2>1. CASE Batching(v) /\ Reached(v, fanout.cursor) /\ Unreached(v, fanout.cursor) /\ v \notin outbox
    <3>1. PICK n : n = fanout.cursor
      OBVIOUS
    <3>2. Reached(v, n)' /\ Unreached(v, n)' /\ Batching(v)' /\ fanout'.cursor = n
      BY <1>3, <1>4, <2>1, <3>1
    <3>3. Reached(v, fanout.cursor)' /\ Unreached(v, fanout.cursor)'
      BY <3>2 DEF Reached, Unreached
    <3> QED
      BY <2>1, <3>2, <3>3 DEF InboxWay
  <2> QED
    BY <1>1, <1>2, <2>1 DEF InboxWay
<1> QED
  BY <1>5, <1>6 DEF OnItsWay

LEMMA WaysKeptByFollows ==
  ASSUME FanoutOK, FollowsNext, UNCHANGED boxVars, NEW v \in published, OnItsWay(v), Noted,
         v \notin crossed' \cup rejoined'
  PROVE  OnItsWay(v)'
<1>1. Grown
  BY FollowsKept DEF FanoutOK
<1>2. UNCHANGED <<published, publishing, boxQueue, fanout, inbox, inboxCache, outbox, audience>>
  BY DEF boxVars
<1>3. /\ IsBigV(Author(v))' <=> IsBigV(Author(v))
      /\ \A s \in socials' : s \in socials \/ s.vlogger # Author(v) \/ ~InInbox(v, s.follower)
  BY DEF Noted
<1>4. (Batching(v)' <=> Batching(v)) /\ \A f : InInbox(v, f)' <=> InInbox(v, f)
  BY <1>2 DEF Batching, InInbox
<1> QED
  BY <1>1, <1>2, <1>3, <1>4, StaysOnItsWay

(* A batch of the video itself. *)
LEMMA BatchOnItsWay ==
  ASSUME FanoutOK, FanOutBatch, NEW v \in published, InboxWay(v), Batching(v)
  PROVE  InboxWay(v)'
<1>0. v \in Video /\ Author(v) \in Vlogger /\ SocialsOK /\ BoxesOK
  BY SteadyType DEF FanoutOK, BoxesOK, FollowsOK
<1>1. PICK n, batch, rows : /\ n = fanout.cursor /\ batch = Batch(Author(v), n)
                            /\ rows = {<<s.follower, v>> : s \in batch}
  OBVIOUS
<1>2. /\ fanout # Free /\ n \in Nat /\ fanout.event.video = v
      /\ fanout = [at |-> "batch", event |-> fanout.event, cursor |-> n]
  BY <1>0, <1>1, WorkType DEF Batching, Free
<1>3. /\ UNCHANGED <<outbox, socials, audience>>
      /\ IF rows \cap inbox # {}
         THEN fanout' = [at |-> "ack", event |-> fanout.event] /\ inbox' = inbox
         ELSE /\ inbox' = inbox \cup rows
              /\ fanout' = IF Cardinality(batch) < BatchSize
                           THEN [at |-> "ack", event |-> fanout.event]
                           ELSE [fanout EXCEPT !.cursor = LastIdOf(batch)]
  BY <1>1, <1>2 DEF FanOutBatch, followVars
<1>4. UNCHANGED <<Steady(v), FollowersOf(Author(v))>>
  BY <1>3 DEF Steady, FollowersOf
<1>5. inbox \subseteq inbox' /\ v \notin outbox'
  BY <1>3 DEF InboxWay
<1>6. CASE AllReached(v)
  <2>1. AllReached(v)'
    BY <1>4, <1>5, <1>6 DEF AllReached, InInbox
  <2> QED
    BY <1>5, <2>1 DEF InboxWay
<1>7. CASE Reached(v, n) /\ Unreached(v, n)
  <2>1. \A s \in batch : s \in FollowersOf(Author(v)) /\ s.id > n
    BY <1>0, <1>1, <1>2, BatchPart
  <2>2. rows \cap inbox = {}
    BY <1>1, <1>7, <2>1 DEF Unreached, InInbox
  <2>3. /\ inbox' = inbox \cup rows
        /\ fanout' = IF Cardinality(batch) < BatchSize
                     THEN [at |-> "ack", event |-> fanout.event]
                     ELSE [fanout EXCEPT !.cursor = LastIdOf(batch)]
    BY <1>3, <2>2
  <2>4. \A s \in batch : InInbox(v, s.follower)'
    BY <1>1, <2>3 DEF InInbox
  <2>5. \A s \in Steady(v) : s \in FollowersOf(Author(v)) /\ s.id \in Nat
    BY <1>0, SteadyType
  <2>6. CASE Cardinality(batch) < BatchSize
    <3>1. ASSUME NEW s \in Steady(v) PROVE InInbox(v, s.follower)'
      <4>1. CASE s.id <= n
        BY <1>5, <1>7, <4>1 DEF Reached, InInbox
      <4>2. CASE s.id > n
        <5>1. s \in batch
          BY <1>0, <1>1, <1>2, <2>5, <2>6, <4>2, BatchShort
        <5> QED
          BY <2>4, <5>1
      <4> QED
        BY <1>2, <2>5, <4>1, <4>2
    <3>2. AllReached(v)'
      BY <1>4, <3>1 DEF AllReached
    <3> QED
      BY <1>5, <3>2 DEF InboxWay
  <2>7. CASE ~(Cardinality(batch) < BatchSize)
    <3>1. PICK last : last = LastIdOf(batch)
      OBVIOUS
    <3>2. last \in Nat /\ (\E t \in batch : t.id = last) /\ \A t \in batch : t.id <= last
      BY <1>0, <1>1, <1>2, <2>7, <3>1, BatchLast
    <3>3. last > n
      BY <2>1, <3>2
    <3>4. fanout' = [fanout EXCEPT !.cursor = last]
      BY <2>3, <2>7, <3>1
    <3>5. fanout' = [at |-> "batch", event |-> fanout.event, cursor |-> last]
      BY <1>2, <3>4
    <3>6. Batching(v)' /\ fanout'.cursor = last
      BY <1>2, <3>5 DEF Batching
    <3>7. Reached(v, last)'
      <4>1. ASSUME NEW s \in Steady(v), s.id <= last PROVE InInbox(v, s.follower)'
        <5>1. CASE s.id <= n
          BY <1>5, <1>7, <5>1 DEF Reached, InInbox
        <5>2. CASE s.id > n
          <6>1. PICK t \in batch : t.id = last
            BY <3>2
          <6>2. s \in batch
            BY <1>0, <1>1, <1>2, <2>5, <4>1, <5>2, <6>1, BatchBefore
          <6> QED
            BY <2>4, <6>2
        <5> QED
          BY <1>2, <2>5, <5>1, <5>2
      <4> QED
        BY <1>4, <4>1 DEF Reached
    <3>8. Unreached(v, last)'
      <4>1. ASSUME NEW s \in FollowersOf(Author(v)), s.id > last, InInbox(v, s.follower)'
            PROVE  FALSE
        <5>1. s \in socials /\ s.vlogger = Author(v) /\ s.id \in Nat
          BY <1>0, SteadyType
        <5>2. ~InInbox(v, s.follower)
          BY <1>2, <1>7, <3>2, <3>3, <4>1, <5>1 DEF Unreached
        <5>3. PICK t \in batch : t.follower = s.follower
          BY <1>1, <2>3, <4>1, <5>2 DEF InInbox
        <5>4. t \in socials /\ t.vlogger = Author(v) /\ t.id <= last /\ t.id \in Nat
          BY <1>0, <2>1, <3>2, <5>3, SteadyType
        <5>5. t = s
          BY <1>0, <5>1, <5>3, <5>4 DEF SocialsOK
        <5> QED
          BY <3>2, <4>1, <5>1, <5>4, <5>5
      <4> QED
        BY <1>4, <4>1 DEF Unreached
    <3>9. Reached(v, fanout.cursor)' /\ Unreached(v, fanout.cursor)'
      BY <3>6, <3>7, <3>8 DEF Reached, Unreached
    <3> QED
      BY <1>5, <3>6, <3>9 DEF InboxWay
  <2> QED
    BY <2>6, <2>7
<1> QED
  BY <1>1, <1>6, <1>7 DEF InboxWay

LEMMA WaysKeptByFanout ==
  ASSUME FanoutOK, FanoutNext, UNCHANGED <<faults, publishFailures>>,
         NEW v \in published, OnItsWay(v)
  PROVE  OnItsWay(v)'
<1>0. /\ BoxesOK /\ SocialsOK /\ v \in Video /\ boxQueue \in Seq(Events(published))
      /\ faults \in Nat /\ publishFailures \in Nat /\ BigVThreshold \in Nat
      /\ Author(v) \in Vlogger
  BY FanoutAssumption, SteadyType
     DEF FanoutAssumption, FanoutOK, BoxesOK, FollowsOK, FollowsTypeOK
<1>1. UNCHANGED followVars
  BY DEF FanoutNext, VideoWorkerStep, PublishInbox, PublishOutbox, DeliverInbox,
     FanOutBatch, DeliverOutbox, AckBox, RequeueBox
<1>2. /\ socials' = socials /\ Grown
      /\ IsBigV(Author(v))' <=> IsBigV(Author(v))
      /\ \A s \in socials' : s \in socials \/ s.vlogger # Author(v) \/ ~InInbox(v, s.follower)
  BY <1>0, <1>1, NothingGrown DEF followVars, IsBigV, CountFollowers, FollowersOf
<1>3. ASSUME NEW u \in Video, PublishInbox(u) PROVE OnItsWay(v)'
  <2>1. u # v /\ u \notin published
    BY <1>3 DEF PublishInbox
  <2>2. PICK e : e = [box |-> "inbox", video |-> u]
    OBVIOUS
  <2>3. /\ audience' = [audience EXCEPT ![u] = FollowersOf(Author(u))]
        /\ publishing' = publishing \cup {u}
        /\ boxQueue' = Append(boxQueue, e)
        /\ UNCHANGED <<fanout, inbox, outbox>>
    BY <1>0, <1>3, <2>2 DEF PublishInbox, PublishFails
  <2>4. audience'[v] = audience[v]
    BY <1>0, <2>1, <2>3 DEF FanoutOK, AudienceOK
  <2>5. \A box : Has(boxQueue, box, v) => Has(boxQueue', box, v)
    <3>1. boxQueue \in Seq(Events(Video)) /\ e \in Events(Video)
      BY <1>0, <1>3, <2>2, StillPublished DEF BoxesOK, Events
    <3> QED
      BY <2>3, <3>1, HasAppended
  <2>6. (Batching(v)' <=> Batching(v)) /\ \A f : InInbox(v, f)' <=> InInbox(v, f)
    BY <2>3 DEF Batching, InInbox
  <2> QED
    BY <1>2, <2>1, <2>3, <2>4, <2>5, <2>6, StaysOnItsWay
<1>4. ASSUME NEW u \in Video, PublishOutbox(u) PROVE OnItsWay(v)'
  <2>1. PICK e : e = [box |-> "outbox", video |-> u]
    OBVIOUS
  <2>2. /\ u \in publishing /\ publishing' = publishing \ {u}
        /\ boxQueue' = Append(boxQueue, e)
        /\ UNCHANGED <<fanout, inbox, outbox, audience>>
    BY <1>0, <1>4, <2>1 DEF PublishOutbox, PublishFails
  <2>3. e \in Events(published)
    BY <1>0, <2>1, <2>2 DEF BoxesOK, Events
  <2>4. \A box : Has(boxQueue, box, v) => Has(boxQueue', box, v)
    BY <1>0, <2>2, <2>3, HasAppended
  <2>5. (Batching(v)' <=> Batching(v)) /\ \A f : InInbox(v, f)' <=> InInbox(v, f)
    BY <2>2 DEF Batching, InInbox
  <2>6. CASE u # v
    BY <1>2, <2>2, <2>4, <2>5, <2>6, StaysOnItsWay
  <2>7. CASE u = v
    <3>1. Has(boxQueue', "outbox", v)
      BY <1>0, <2>1, <2>2, <2>3, <2>7, HasAppended
    <3>2. OutboxWay(v) => OutboxWay(v)'
      BY <2>5, <3>1 DEF OutboxWay, NoRow
    <3>3. InboxWay(v) => InboxWay(v)'
      BY <1>2, <2>2, <2>4, <2>5
         DEF InboxWay, NoRow, AllReached, Reached, Unreached, Steady, FollowersOf
    <3> QED
      BY <1>2, <3>2, <3>3 DEF OnItsWay
  <2> QED
    BY <2>6, <2>7
<1>5. ASSUME DeliverInbox PROVE OnItsWay(v)'
  <2>1. PICK e, u : e = Head(boxQueue) /\ u = e.video
    OBVIOUS
  <2>2. /\ fanout = Free /\ boxQueue # << >> /\ e.box = "inbox" /\ boxQueue' = Tail(boxQueue)
        /\ IsBigV(Author(u)) => fanout' = [at |-> "ack", event |-> e]
        /\ ~IsBigV(Author(u)) => fanout' = [at |-> "batch", event |-> e, cursor |-> 0]
        /\ UNCHANGED <<publishing, inbox, outbox, audience>>
    BY <1>5, <2>1 DEF DeliverInbox
  <2>3. ~Batching(v) /\ (Batching(v)' <=> u = v /\ ~IsBigV(Author(v)))
    BY <2>1, <2>2 DEF Batching, Free
  <2>4. \A f : InInbox(v, f)' <=> InInbox(v, f)
    BY <2>2 DEF InInbox
  <2>5. ASSUME NEW box, Has(boxQueue, box, v), box # "inbox" \/ u # v PROVE Has(boxQueue', box, v)
    BY <1>0, <2>1, <2>2, <2>5, HasTail
  <2>6. CASE u # v
    BY <1>2, <2>2, <2>3, <2>4, <2>5, <2>6, StaysOnItsWay
  <2>7. CASE u = v /\ IsBigV(Author(v))
    <3>1. OutboxWay(v)'
      BY <2>2, <2>3, <2>4, <2>5, <2>7 DEF OnItsWay, OutboxWay, NoRow
    <3> QED
      BY <1>2, <2>7, <3>1 DEF OnItsWay
  <2>8. CASE u = v /\ ~IsBigV(Author(v))
    <3>1. /\ fanout' = [at |-> "batch", event |-> e, cursor |-> 0] /\ Batching(v)'
          /\ fanout'.cursor = 0
      BY <2>2, <2>3, <2>8
    <3>2. v \notin outbox /\ (NoRow(v) \/ AllReached(v))
      BY <2>3, <2>8 DEF OnItsWay, InboxWay
    <3>3. CASE AllReached(v)
      <4>1. AllReached(v)'
        BY <1>2, <2>2, <2>4, <3>3 DEF AllReached, Steady
      <4> QED
        BY <1>2, <2>2, <2>8, <3>2, <4>1 DEF OnItsWay, InboxWay
    <3>4. CASE NoRow(v)
      <4>1. Unreached(v, 0)'
        BY <1>0, <1>2, <2>4, <3>4, SteadyType DEF Unreached, NoRow, FollowersOf
      <4>2. Reached(v, 0)'
        <5>1. \A s \in Steady(v) : s.id \in Nat \ {0}
          BY <1>0, SteadyType
        <5>2. \A s \in Steady(v) : ~(s.id <= 0)
          BY <5>1
        <5> QED
          BY <1>2, <2>2, <5>2 DEF Reached, Steady
      <4>3. Reached(v, fanout.cursor)' /\ Unreached(v, fanout.cursor)'
        BY <3>1, <4>1, <4>2 DEF Reached, Unreached
      <4> QED
        BY <1>2, <2>2, <2>8, <3>1, <3>2, <4>3 DEF OnItsWay, InboxWay
    <3> QED
      BY <3>2, <3>3, <3>4
  <2> QED
    BY <2>6, <2>7, <2>8
<1>6. ASSUME FanOutBatch PROVE OnItsWay(v)'
  <2>1. fanout # Free /\ fanout.at = "batch" /\ UNCHANGED <<publishing, outbox, boxQueue, audience>>
    BY <1>6 DEF FanOutBatch, Free
  <2>2. CASE Batching(v)
    <3>1. ~IsBigV(Author(v)) /\ InboxWay(v)
      BY <2>2 DEF OnItsWay, OutboxWay
    <3>2. InboxWay(v)'
      BY <1>6, <2>2, <3>1, BatchOnItsWay
    <3> QED
      BY <1>2, <3>1, <3>2 DEF OnItsWay
  <2>3. CASE ~Batching(v)
    <3>1. PICK u, e, rows : /\ e = fanout.event /\ u = e.video
                            /\ rows = {<<s.follower, u>> : s \in Batch(Author(u), fanout.cursor)}
      OBVIOUS
    <3>2. u # v
      BY <2>1, <2>3, <3>1 DEF Batching
    <3>3. inbox' = inbox \/ inbox' = inbox \cup rows
      BY <1>6, <3>1 DEF FanOutBatch
    <3>4. \A f : InInbox(v, f)' <=> InInbox(v, f)
      BY <3>1, <3>2, <3>3 DEF InInbox
    <3>5. fanout'.event = e
      <4>1. fanout = [at |-> "batch", event |-> e, cursor |-> fanout.cursor]
        BY <1>0, <2>1, <3>1, WorkType
      <4>2. PICK n : \/ fanout' = [at |-> "ack", event |-> e]
                     \/ fanout' = [fanout EXCEPT !.cursor = n]
        BY <1>6, <3>1 DEF FanOutBatch
      <4>3. CASE fanout' = [at |-> "ack", event |-> e]
        BY <4>3
      <4>4. CASE fanout' = [fanout EXCEPT !.cursor = n]
        <5>1. fanout' = [at |-> "batch", event |-> e, cursor |-> n]
          BY <4>1, <4>4
        <5> QED
          BY <5>1
      <4> QED
        BY <4>2, <4>3, <4>4
    <3>6. ~Batching(v)'
      BY <3>1, <3>2, <3>5 DEF Batching
    <3> QED
      BY <1>2, <2>1, <2>3, <3>4, <3>6, StaysOnItsWay
  <2> QED
    BY <2>2, <2>3
<1>7. ASSUME DeliverOutbox PROVE OnItsWay(v)'
  <2>1. PICK e, u : e = Head(boxQueue) /\ u = e.video
    OBVIOUS
  <2>2. /\ fanout = Free /\ boxQueue # << >> /\ e.box = "outbox" /\ boxQueue' = Tail(boxQueue)
        /\ fanout' = [at |-> "ack", event |-> e]
        /\ IsSmall(Author(u)) => outbox' = outbox
        /\ ~IsSmall(Author(u)) => outbox' = outbox \cup {u}
        /\ UNCHANGED <<publishing, inbox, audience>>
    BY <1>7, <2>1 DEF DeliverOutbox
  <2>3. ~Batching(v) /\ ~Batching(v)'
    BY <2>2 DEF Batching, Free
  <2>4. \A f : InInbox(v, f)' <=> InInbox(v, f)
    BY <2>2 DEF InInbox
  <2>5. ASSUME NEW box, Has(boxQueue, box, v), box # "outbox" \/ u # v
        PROVE  Has(boxQueue', box, v)
    BY <1>0, <2>1, <2>2, <2>5, HasTail
  <2>6. IsSmall(Author(v)) <=> ~IsBigV(Author(v))
    <3>1. IsFiniteSet(FollowersOf(Author(v)))
      BY <1>0, FS_Subset DEF SocialsOK, FollowersOf
    <3>2. CountFollowers(Author(v)) \in Nat
      BY <3>1, FS_CardinalityType DEF CountFollowers
    <3> QED
      BY <1>0, <3>2 DEF IsSmall, IsBigV
  <2>7. CASE u # v
    BY <1>2, <2>2, <2>3, <2>4, <2>5, <2>7, StaysOnItsWay
  <2>8. CASE u = v /\ IsBigV(Author(v))
    <3>1. OutboxWay(v)'
      BY <2>2, <2>3, <2>4, <2>6, <2>8 DEF OnItsWay, OutboxWay, NoRow
    <3> QED
      BY <1>2, <2>8, <3>1 DEF OnItsWay
  <2>9. CASE u = v /\ ~IsBigV(Author(v))
    <3>1. v \notin outbox' /\ InboxWay(v)
      BY <2>2, <2>6, <2>9 DEF OnItsWay, InboxWay
    <3>2. InboxWay(v)'
      BY <1>2, <2>2, <2>3, <2>4, <2>5, <3>1 DEF InboxWay, NoRow, AllReached, Steady
    <3> QED
      BY <1>2, <2>9, <3>2 DEF OnItsWay
  <2> QED
    BY <2>7, <2>8, <2>9
<1>8. ASSUME AckBox PROVE OnItsWay(v)'
  <2>1. UNCHANGED <<publishing, inbox, outbox, boxQueue, audience>>
    BY <1>8 DEF AckBox
  <2>2. ~Batching(v) /\ ~Batching(v)' /\ \A f : InInbox(v, f)' <=> InInbox(v, f)
    BY <1>8 DEF AckBox, Batching, InInbox, Free
  <2> QED
    BY <1>2, <2>1, <2>2, StaysOnItsWay
<1>9. ASSUME RequeueBox PROVE FALSE
  BY <1>0, <1>9 DEF RequeueBox, Fault
<1> QED
  BY <1>3, <1>4, <1>5, <1>6, <1>7, <1>8, <1>9 DEF FanoutNext, VideoWorkerStep

(* A video that is just published. *)
LEMMA StartsOnItsWay ==
  ASSUME FanoutOK, NEW v \in Video, PublishInbox(v), UNCHANGED publishFailures
  PROVE  OnItsWay(v)'
<1>0. BoxesOK /\ boxQueue \in Seq(Events(published)) /\ publishFailures \in Nat
  BY DEF FanoutOK, BoxesOK, FollowsOK, FollowsTypeOK
<1>1. PICK e : e = [box |-> "inbox", video |-> v]
  OBVIOUS
<1>2. /\ v \notin published /\ v \in publishing' /\ boxQueue' = Append(boxQueue, e)
      /\ UNCHANGED <<fanout, inbox, outbox>>
  BY <1>0, <1>1 DEF PublishInbox, PublishFails
<1>3. boxQueue \in Seq(Events(Video)) /\ e \in Events(Video)
  BY <1>0, <1>1, StillPublished DEF BoxesOK, Events
<1>4. Has(boxQueue', "inbox", v)
  BY <1>1, <1>2, <1>3, HasAppended
<1>5. NoRow(v)' /\ v \notin outbox'
  BY <1>0, <1>2 DEF BoxesOK, NoRow, InInbox
<1>6. ~Batching(v)'
  <2>1. ~Batching(v)
    <3> SUFFICES ASSUME Batching(v) PROVE FALSE
      OBVIOUS
    <3>1. fanout # Free
      BY DEF Batching, Free
    <3> QED
      BY <1>0, <1>2, <3>1, WorkType DEF Batching
  <2> QED
    BY <1>2, <2>1 DEF Batching
<1> QED
  BY <1>2, <1>4, <1>5, <1>6 DEF OnItsWay, OutboxWay, InboxWay

LEMMA WaysStayKept == FanoutOK /\ [Next]_vars /\ WaysKept => WaysKept'
<1> SUFFICES ASSUME FanoutOK, [Next]_vars, WaysKept, Undisturbed',
                    NEW v \in Regular'
             PROVE  OnItsWay(v)'
  BY DEF WaysKept
<1>0. /\ Undisturbed /\ UNCHANGED <<faults, publishFailures>>
      /\ BoxesOK /\ SocialsOK
      /\ v \in published' /\ v \notin crossed' \cup rejoined'
  BY StillUndisturbed DEF FanoutOK, FollowsOK, Regular
<1>1. CASE UNCHANGED vars
  <2>1. /\ UNCHANGED <<socials, lastId, published, publishing, boxQueue, fanout, inbox, inboxCache,
                       outbox, audience, crossed, rejoined>>
    BY <1>1 DEF vars, followVars, boxVars
  <2>2. v \in published /\ OnItsWay(v)
    BY <1>0, <2>1 DEF WaysKept, Regular
  <2>3. /\ Grown /\ (IsBigV(Author(v))' <=> IsBigV(Author(v)))
        /\ (Batching(v)' <=> Batching(v)) /\ \A f : InInbox(v, f)' <=> InInbox(v, f)
    BY <1>0, <2>1, NothingGrown
       DEF IsBigV, CountFollowers, FollowersOf, Batching, InInbox
  <2> QED
    BY <2>1, <2>2, <2>3, StaysOnItsWay
<1>2. CASE Next /\ v \in published
  <2>1. Noted
    BY <1>0, <1>2, NoteHolds DEF Next
  <2>2. OnItsWay(v)
    BY <1>0, <1>2, <2>1 DEF WaysKept, Regular, Noted
  <2> QED
    BY <1>0, <1>2, <2>1, <2>2, WaysKeptByFollows, WaysKeptByFanout DEF Next
<1>3. CASE Next /\ v \notin published
  <2>1. v \in Video /\ PublishInbox(v)
    BY <1>0, <1>3 DEF Next, boxVars, FanoutNext, VideoWorkerStep, PublishInbox, PublishOutbox,
       DeliverInbox, FanOutBatch, DeliverOutbox, AckBox, RequeueBox
  <2> QED
    BY <1>0, <2>1, StartsOnItsWay
<1> QED
  BY <1>1, <1>2, <1>3

(* A published video reaches every follower who stays, and by one way only, *)
(* the inboxes or the outbox, with any batch size and however others follow *)
(* and unfollow between the batches - unless the author crosses the         *)
(* threshold or a follower who has got the video leaves and comes back      *)
(* (VideoService.Publish, VideoWorker.process).                             *)
THEOREM VideosReachFollowers == Spec => []ReachesSteadyFollowers
<1>1. Init => WaysKept
  BY DEF Init, WaysKept, Regular
<1>2. FanoutOK /\ WaysKept => ReachesSteadyFollowers
  <2> SUFFICES ASSUME FanoutOK, WaysKept, FanoutAtRest, Undisturbed,
                      NEW v \in Regular, NEW s \in Steady(v)
               PROVE  InInbox(v, s.follower) # (v \in outbox)
    BY DEF ReachesSteadyFollowers, Regular
  <2>1. OnItsWay(v) /\ v \in Video
    BY DEF WaysKept, Regular, FanoutOK, BoxesOK
  <2>2. publishing = {} /\ boxQueue = << >> /\ ~Batching(v)
    BY DEF FanoutAtRest, Batching, Free
  <2>3. \A box : ~Has(boxQueue, box, v)
    BY <2>2 DEF Has
  <2>4. s.follower \in Follower
    BY <2>1, SteadyType
  <2>5. InInbox(v, s.follower) <=> ~(v \in outbox)
    BY <2>1, <2>2, <2>3, <2>4 DEF OnItsWay, OutboxWay, InboxWay, NoRow, AllReached
  <2>6. InInbox(v, s.follower) \in BOOLEAN
    BY DEF InInbox
  <2> QED
    BY <2>5, <2>6
<1> QED
  BY <1>1, <1>2, WaysStayKept, FanoutAlways, PTL DEF Spec
=============================================================================
