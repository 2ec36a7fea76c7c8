------------------------------ MODULE VideoDetail ------------------------------
(***************************************************************************)
(* The detail of one video (video/video_service.go): its row, the cache of *)
(* every API process (L1, one second), the cache in Redis (L2, five        *)
(* minutes), and the lock that lets one reader refill them.  Requests take *)
(* one statement or cache call per step.                                   *)
(*                                                                         *)
(* What the row says is a version, one more after every change.  A lookup  *)
(* may miss although there is an entry: ristretto buffers, evicts and      *)
(* expires on its own, and Redis may not answer.                           *)
(***************************************************************************)
EXTENDS Integers, FiniteSets

CONSTANTS
    Process,            \* API processes
    Reader, Writer,     \* requests that can be active at once
    ProcessOf,          \* the process that runs a request
    HotThreshold,       \* misses before a video is cached (3 in the code)
    WaitRounds,         \* looks at the cache of one who waits (5 in the code)
    MaxVersion          \* bound: changes of the row

ASSUME VideoDetailAssumption ==
    /\ ProcessOf \in [Reader \cup Writer -> Process]
    /\ "nobody" \notin Reader
    /\ {HotThreshold, WaitRounds} \subseteq Nat \ {0} /\ MaxVersion \in Nat

VARIABLES
    version,            \* what the row of the video says
    deleted,            \* the row is gone
    l1, l2,             \* the caches
    hits,               \* misses counted, up to the last that is not hot
    lock,               \* the reader whose token the lock holds
    read,               \* active GetDetail requests
    write,              \* active requests that change the row
    l1Late, l2Late,     \* history: the entry was overtaken or missed
    overtaken,          \* history: readers that carry a version since changed
    overrun             \* history: readers whose lock ran out

rowVars == <<version, deleted>>
l1Vars == <<l1, l1Late>>
l2Vars == <<l2, l2Late>>
lockVars == <<hits, lock, overrun>>
detailVars == <<rowVars, l1Vars, l2Vars, lockVars, read, write, overtaken>>

-----------------------------------------------------------------------------
Version == 0 .. MaxVersion
Nothing == -1
NoReader == "nobody"
Idle == [pc |-> "idle"]

(* locked: the reader holds, or once held, the lock; round: looks taken *)
ReadState ==
    [pc     : {"get", "fillL1", "incr", "lock", "find", "setL1", "setL2", "unlock",
               "wait"},
     locked : BOOLEAN,
     round  : 0 .. WaitRounds,
     found  : Version \cup {Nothing}]

WriteState == [pc : {"delete", "newest", "meta", "delL1", "delL2"}, found : Nat]

ReadGoto(r, pc) == read' = [read EXCEPT ![r] = [@ EXCEPT !.pc = pc]]
Carry(r, pc, v) == read' = [read EXCEPT ![r] = [@ EXCEPT !.pc = pc, !.found = v]]
ReadReturn(r) == read' = [read EXCEPT ![r] = Idle]

(* The answer is ready; the deferred Unlock comes before it. *)
Answer(r) == IF read[r].locked THEN Carry(r, "unlock", Nothing) ELSE ReadReturn(r)

Goto(w, pc) == write' = [write EXCEPT ![w] = [pc |-> pc, found |-> 0]]
Return(w) == write' = [write EXCEPT ![w] = Idle]

(* A row has been written and Redis still holds what was there before. *)
Invalidating == \E w \in Writer : write[w].pc \in {"delL1", "delL2"}

SetL1(r) ==
    /\ l1' = [l1 EXCEPT ![ProcessOf[r]] = read[r].found]
    /\ l1Late' = [l1Late EXCEPT ![ProcessOf[r]] = r \in overtaken]

-----------------------------------------------------------------------------
(* GetDetail *)

GetDetail(r) ==
    /\ read[r] = Idle
    /\ read' = [read EXCEPT ![r] =
          [pc |-> "get", locked |-> FALSE, round |-> 0, found |-> Nothing]]
    /\ UNCHANGED <<rowVars, l1Vars, l2Vars, lockVars, write, overtaken>>

(* getCached, answered by the process's own cache *)
HitL1(r) ==
    /\ read[r].pc = "get"
    /\ l1[ProcessOf[r]] # Nothing
    /\ Answer(r)
    /\ UNCHANGED <<rowVars, l1Vars, l2Vars, lockVars, write, overtaken>>

(* ... by Redis: the process is about to keep a copy *)
HitL2(r) ==
    /\ read[r].pc = "get"
    /\ l2 # Nothing
    /\ Carry(r, "fillL1", l2)
    /\ overtaken' = IF l2Late \/ Invalidating THEN overtaken \cup {r} ELSE overtaken
    /\ UNCHANGED <<rowVars, l1Vars, l2Vars, lockVars, write>>

FillL1(r) ==
    /\ read[r].pc = "fillL1"
    /\ SetL1(r)
    /\ overtaken' = overtaken \ {r}
    /\ Answer(r)
    /\ UNCHANGED <<rowVars, l2Vars, lockVars, write>>

(* ... by neither.  Who has waited long enough answers with the row, which *)
(* it does not cache, and so does who has no answer from Redis when it     *)
(* counts the miss, or finds that the video is not hot.                    *)
Miss(r) ==
    LET looked == read[r].round
    IN  /\ read[r].pc = "get"
        /\ \/ read[r].locked /\ ReadGoto(r, "find")
           \/ ~read[r].locked /\ looked = 0 /\ ReadGoto(r, "incr")
           \/ ~read[r].locked /\ looked \in 1 .. WaitRounds - 1 /\ ReadGoto(r, "wait")
           \/ ~read[r].locked /\ looked = WaitRounds /\ ReadReturn(r)
        /\ UNCHANGED <<rowVars, l1Vars, l2Vars, lockVars, write, overtaken>>

(* The counter may have expired. *)
CountHit(r) ==
    /\ read[r].pc = "incr"
    /\ \E n \in {0, hits} :
          IF n < HotThreshold - 1
          THEN hits' \in {n, n + 1} /\ ReadReturn(r)
          ELSE hits' = n /\ (ReadGoto(r, "lock") \/ ReadReturn(r))
    /\ UNCHANGED <<rowVars, l1Vars, l2Vars, lock, overrun, write, overtaken>>

(* SetNX with a random token; whoever does not get it, or does not learn  *)
(* that it has it, waits for the cache.                                   *)
TryLock(r) ==
    /\ read[r].pc = "lock"
    /\ \/ /\ lock = NoReader
          /\ lock' = r
          /\ read' = [read EXCEPT ![r] = [@ EXCEPT !.pc = "get", !.locked = TRUE]]
       \/ /\ lock' \in {lock, IF lock = NoReader THEN r ELSE lock}
          /\ ReadGoto(r, "wait")
    /\ UNCHANGED <<rowVars, l1Vars, l2Vars, hits, overrun, write, overtaken>>

(* Mutant: who waits, waits until somebody has filled the cache. *)
WaitForCache(r) ==
    /\ read[r].pc = "wait"
    /\ l1[ProcessOf[r]] # Nothing \/ l2 # Nothing
    /\ read' = [read EXCEPT ![r] = [read[r] EXCEPT !.pc = "get", !.round = @ + 1]]
    /\ UNCHANGED <<rowVars, l1Vars, l2Vars, lockVars, write, overtaken>>

(* 20 ms later it looks again; or its client is gone. *)
Wait(r) ==
    /\ read[r].pc = "wait"
    /\ \/ read' = [read EXCEPT ![r] = [read[r] EXCEPT !.pc = "get", !.round = @ + 1]]
       \/ ReadReturn(r)
    /\ UNCHANGED <<rowVars, l1Vars, l2Vars, lockVars, write, overtaken>>

(* The row under the lock; an error, as of a missing row, is not cached. *)
Find(r) ==
    /\ read[r].pc = "find"
    /\ (~deleted /\ Carry(r, "setL1", version)) \/ Answer(r)
    /\ UNCHANGED <<rowVars, l1Vars, l2Vars, lockVars, write, overtaken>>

(* setCached *)
CacheL1(r) ==
    /\ read[r].pc = "setL1"
    /\ SetL1(r)
    /\ ReadGoto(r, "setL2")
    /\ UNCHANGED <<rowVars, l2Vars, lockVars, write, overtaken>>

CacheL2(r) ==
    /\ read[r].pc = "setL2"
    /\ \/ l2' = read[r].found /\ l2Late' = (r \in overtaken)
       \/ UNCHANGED l2Vars
    /\ overtaken' = overtaken \ {r}
    /\ Answer(r)
    /\ UNCHANGED <<rowVars, l1Vars, lockVars, write>>

(* Mutant: Unlock deletes the key whatever token is in it. *)
UnlockAny(r) ==
    /\ read[r].pc = "unlock"
    /\ lock' = NoReader
    /\ overrun' = overrun \ {r}
    /\ ReadReturn(r)
    /\ UNCHANGED <<rowVars, l1Vars, l2Vars, hits, write, overtaken>>

(* The script deletes the key only if it holds the caller's token. *)
Unlock(r) ==
    /\ read[r].pc = "unlock"
    /\ lock' = IF lock = r THEN NoReader ELSE lock
    /\ overrun' = overrun \ {r}
    /\ ReadReturn(r)
    /\ UNCHANGED <<rowVars, l1Vars, l2Vars, hits, write, overtaken>>

-----------------------------------------------------------------------------
(* Requests that change the row, and then invalidate the caches *)

(* The row has changed: what readers carry is old, and so is what the other *)
(* processes have cached, whom nobody tells.                                *)
Changed(w) ==
    /\ version < MaxVersion
    /\ version' = version + 1
    /\ overtaken' = overtaken \cup
          {r \in Reader : read[r].pc \in {"fillL1", "setL1", "setL2"}}
    /\ l1Late' = [p \in Process |->
          l1Late[p] \/ (p # ProcessOf[w] /\ l1[p] # Nothing)]
    /\ UNCHANGED <<l1, l2Vars, lockVars, read>>

(* UpdateLikesCount; an UPDATE of a missing row is no error. *)
UpdateLikesCount(w) ==
    /\ write[w] = Idle
    /\ \/ ~deleted /\ Changed(w)
       \/ deleted /\ UNCHANGED <<version, l1Vars, l2Vars, lockVars, read, overtaken>>
    /\ Goto(w, "delL1")
    /\ UNCHANGED deleted

(* Delete and AdminDelete have found the video. *)
DeleteFound(w) ==
    /\ write[w] = Idle
    /\ ~deleted
    /\ Goto(w, "delete")
    /\ UNCHANGED <<rowVars, l1Vars, l2Vars, lockVars, read, overtaken>>

DeleteVideo(w) ==
    /\ write[w].pc = "delete"
    /\ \/ ~deleted /\ Changed(w)
       \/ deleted /\ UNCHANGED <<version, l1Vars, l2Vars, lockVars, read, overtaken>>
    /\ deleted' = TRUE
    /\ Goto(w, "delL1")

(* Mutant: only the process's own cache is told. *)
DelL1Only(w) ==
    /\ write[w].pc = "delL1"
    /\ l1' = [l1 EXCEPT ![ProcessOf[w]] = Nothing]
    /\ l1Late' = [l1Late EXCEPT ![ProcessOf[w]] = FALSE]
    /\ Return(w)
    /\ UNCHANGED <<rowVars, l2Vars, lockVars, read, overtaken>>

(* invalidateCache *)
DelL1(w) ==
    /\ write[w].pc = "delL1"
    /\ l1' = [l1 EXCEPT ![ProcessOf[w]] = Nothing]
    /\ l1Late' = [l1Late EXCEPT ![ProcessOf[w]] = FALSE]
    /\ Goto(w, "delL2")
    /\ UNCHANGED <<rowVars, l2Vars, lockVars, read, overtaken>>

(* An error of Redis is ignored: the old entry stays. *)
DelL2(w) ==
    /\ write[w].pc = "delL2"
    /\ \/ l2' = Nothing /\ l2Late' = FALSE
       \/ l2Late' = (l2 # Nothing) /\ UNCHANGED l2
    /\ Return(w)
    /\ UNCHANGED <<rowVars, l1Vars, lockVars, read, overtaken>>

(* Likes and comments: a worker changes a counter and tells no cache.      *)
CountByWorker ==
    /\ ~deleted
    /\ version < MaxVersion
    /\ version' = version + 1
    /\ overtaken' = overtaken \cup
          {r \in Reader : read[r].pc \in {"fillL1", "setL1", "setL2"}}
    /\ l1Late' = [p \in Process |-> l1[p] # Nothing]
    /\ l2Late' = (l2 # Nothing)
    /\ UNCHANGED <<deleted, l1, l2, lockVars, read, write>>

-----------------------------------------------------------------------------
(* The surroundings *)

ExpireL1(p) ==
    /\ l1[p] # Nothing
    /\ l1' = [l1 EXCEPT ![p] = Nothing]
    /\ l1Late' = [l1Late EXCEPT ![p] = FALSE]
    /\ UNCHANGED <<rowVars, l2Vars, lockVars, read, write, overtaken>>

(* Its TTL passes; or the popularity of the video is counted, of the same  *)
(* like or comment by another event, before its counter or after.          *)
ExpireL2 ==
    /\ l2 # Nothing
    /\ l2' = Nothing
    /\ l2Late' = FALSE
    /\ UNCHANGED <<rowVars, l1Vars, lockVars, read, write, overtaken>>

Locked == {r \in Reader : read[r] # Idle /\ read[r].locked}

(* After 2 s, whether or not its reader is done. *)
ExpireLock ==
    /\ lock # NoReader
    /\ lock' = NoReader
    /\ overrun' = overrun \cup ({lock} \cap Locked)
    /\ UNCHANGED <<rowVars, l1Vars, l2Vars, hits, read, write, overtaken>>

(* The process stops and starts again; what it held in Redis stays. *)
Crash(p) ==
    LET gone(x) == ProcessOf[x] = p
        torn == \E w \in Writer : gone(w) /\ write[w].pc \in {"delL1", "delL2"}
    IN  /\ \/ \E r \in Reader : gone(r) /\ read[r] # Idle
           \/ \E w \in Writer : gone(w) /\ write[w] # Idle
        /\ read' = [r \in Reader |-> IF gone(r) THEN Idle ELSE read[r]]
        /\ write' = [w \in Writer |-> IF gone(w) THEN Idle ELSE write[w]]
        /\ overtaken' = {r \in overtaken : ~gone(r)}
        /\ overrun' = {r \in overrun : ~gone(r)}
        /\ l1' = [l1 EXCEPT ![p] = Nothing]
        /\ l1Late' = [l1Late EXCEPT ![p] = FALSE]
        /\ l2Late' = (l2Late \/ (torn /\ l2 # Nothing))
        /\ UNCHANGED <<rowVars, l2, hits, lock>>

-----------------------------------------------------------------------------
DetailInit ==
    /\ version = 0 /\ deleted = FALSE
    /\ l1 = [p \in Process |-> Nothing] /\ l1Late = [p \in Process |-> FALSE]
    /\ l2 = Nothing /\ l2Late = FALSE
    /\ hits = 0 /\ lock = NoReader /\ overrun = {}
    /\ read = [r \in Reader |-> Idle]
    /\ write = [w \in Writer |-> Idle]
    /\ overtaken = {}

ReaderStep(r) ==
    \/ HitL1(r)
    \/ HitL2(r)
    \/ FillL1(r)
    \/ Miss(r)
    \/ CountHit(r)
    \/ TryLock(r)
    \/ Wait(r)
    \/ Find(r)
    \/ CacheL1(r)
    \/ CacheL2(r)
    \/ Unlock(r)

DetailNext ==
    \/ \E r \in Reader : GetDetail(r)
    \/ \E r \in Reader : ReaderStep(r)
    \/ \E w \in Writer : UpdateLikesCount(w)
    \/ \E w \in Writer : DeleteFound(w)
    \/ \E w \in Writer : DeleteVideo(w)
    \/ \E w \in Writer : DelL1(w)
    \/ \E w \in Writer : DelL2(w)
    \/ CountByWorker
    \/ \E p \in Process : ExpireL1(p)
    \/ ExpireL2
    \/ ExpireLock
    \/ \E p \in Process : Crash(p)

DetailSpec == DetailInit /\ [][DetailNext]_detailVars

(* A reader goes on with what it has begun; it crashes or is answered.     *)
DetailFairSpec ==
    DetailSpec /\ \A r \in Reader : WF_detailVars(ReaderStep(r))

-----------------------------------------------------------------------------
DetailTypeOK ==
    /\ version \in Version
    /\ deleted \in BOOLEAN
    /\ l1 \in [Process -> Version \cup {Nothing}]
    /\ l1Late \in [Process -> BOOLEAN]
    /\ l2 \in Version \cup {Nothing}
    /\ l2Late \in BOOLEAN
    /\ hits \in 0 .. HotThreshold - 1
    /\ lock \in Reader \cup {NoReader}
    /\ overrun \subseteq Reader
    /\ read \in [Reader -> ReadState \cup {Idle}]
    /\ write \in [Writer -> WriteState \cup {Idle}]
    /\ overtaken \subseteq Reader

(***************************************************************************)
(* The row of a hot video is read and cached by one reader at a time, as   *)
(* the design promises of the lock: others are not let in by a second lock *)
(* or by another's Unlock, unless the lock has run out on its holder       *)
(* (video_service.go GetDetail, redis.go Lock and Unlock).                 *)
(***************************************************************************)
OneFiller == Cardinality(Locked \ overrun) <= 1

(***************************************************************************)
(* What the caches keep is the row as it is, once the requests that        *)
(* changed it have invalidated them, but for five ways in which an old row *)
(* stays until its TTL: a reader that took it before the change, or out of *)
(* Redis between the DEL of its own cache and that of Redis, stores it     *)
(* after the invalidation; Redis refuses the DEL; the process stops        *)
(* between UPDATE and DEL; the entry is in another process's own cache; a  *)
(* worker has changed a counter (video_service.go GetDetail,               *)
(* invalidateCache, UpdateLikesCount, Delete, likeworker.go).              *)
(***************************************************************************)
StaleOnlyByRace ==
    /\ ~l2Late /\ ~Invalidating => l2 \in {Nothing, version}
    /\ \A p \in Process :
          ~l1Late[p] /\ (\A w \in Writer : ProcessOf[w] = p => write[w].pc # "delL1")
              => l1[p] \in {Nothing, version}

(***************************************************************************)
(* Every read of a detail ends, whoever holds the lock and if its holder   *)
(* has died: a reader gives up waiting and reads the row                   *)
(* (video_service.go GetDetail).                                           *)
(***************************************************************************)
ReadsEnd == \A r \in Reader : read[r] # Idle ~> read[r] = Idle
=============================================================================
