--------------------------- MODULE VideoPages_proofs ---------------------------
(***************************************************************************)
(* Theorems about the page of a video, for any number of processes,        *)
(* requests, suggestions and misses.  Those about its cached detail come   *)
(* first: they hold of VideoDetail alone; then the detail and the          *)
(* suggestions together.                                                   *)
(***************************************************************************)
EXTENDS VideoPages, FiniteSetTheorems, TLAPS

Carries(v) == v.pc \in {"fillL1", "setL1", "setL2"}

(* What the types leave open of a read under way. *)
ReadOK(v) ==
    \/ v = Idle
    \/ /\ v \in ReadState
       /\ v.pc \in {"incr", "lock"} => v.round = 0
       /\ v.pc = "wait" => v.round < WaitRounds
       /\ v.pc \in {"incr", "lock", "wait"} => ~v.locked
       /\ v.locked => v.round = 0
       /\ Carries(v) => v.found \in Version

DetailsOK == DetailTypeOK /\ \A r \in Reader : ReadOK(read[r])

(***************************************************************************)
(* A read goes on with v: it may have won the lock, and what it carries it *)
(* carried before, or has just found in Redis or in the row.               *)
(***************************************************************************)
Moves(r, v) ==
    /\ ReadOK(v)
    /\ read' = [read EXCEPT ![r] = v]
    /\ v # Idle /\ v.locked => r \in Locked \/ (lock = NoReader /\ lock' = r)
    /\ Carries(v) =>
          \/ Carries(read[r]) /\ v.found = read[r].found
          \/ HitL2(r) /\ v.found = l2
          \/ Find(r) /\ v.found = version

-----------------------------------------------------------------------------
LEMMA Returns ==
  ASSUME NEW r \in Reader, ReadReturn(r)
  PROVE  Moves(r, Idle)
  BY DEF ReadReturn, Moves, ReadOK, Carries, Idle

LEMMA Answers ==
  ASSUME DetailsOK, NEW r \in Reader, read[r] # Idle, Answer(r)
  PROVE  \E v : Moves(r, v) /\ ~Carries(v)
<1>1. CASE ~read[r].locked
  <2>1. Moves(r, Idle) /\ ~Carries(Idle)
    BY <1>1, Returns DEF Answer, Carries, Idle
  <2> QED
    BY <2>1
<1>2. CASE read[r].locked
  <2> DEFINE v == [read[r] EXCEPT !.pc = "unlock", !.found = Nothing]
  <2>1. read[r] \in ReadState /\ read[r].round = 0
    BY <1>2 DEF DetailsOK, ReadOK
  <2>2. read' = [read EXCEPT ![r] = v]
    BY <1>2 DEF Answer, Carry
  <2>3. v \in ReadState /\ v.pc = "unlock" /\ v.round = 0
    BY <2>1 DEF ReadState
  <2>4. r \in Locked
    BY <1>2 DEF Locked
  <2> HIDE DEF v
  <2>5. Moves(r, v) /\ ~Carries(v)
    BY <2>2, <2>3, <2>4 DEF Moves, ReadOK, Carries
  <2> QED
    BY <2>5
<1> QED
  BY <1>1, <1>2

LEMMA Goes ==
  ASSUME DetailsOK, NEW r \in Reader, read[r] # Idle,
         NEW pc \in {"incr", "lock", "wait", "find", "setL2"}, ReadGoto(r, pc),
         pc \in {"incr", "lock"} => read[r].round = 0,
         pc = "wait" => read[r].round < WaitRounds,
         pc \in {"incr", "lock", "wait"} => ~read[r].locked,
         pc = "setL2" => Carries(read[r])
  PROVE  \E v : Moves(r, v)
<1> DEFINE v == [read[r] EXCEPT !.pc = pc]
<1>1. /\ read[r] \in ReadState /\ (read[r].locked => read[r].round = 0)
      /\ Carries(read[r]) => read[r].found \in Version
  BY DEF DetailsOK, ReadOK
<1>2. read' = [read EXCEPT ![r] = v]
  BY DEF ReadGoto
<1>3. /\ v \in ReadState /\ v.pc = pc /\ v.round = read[r].round
      /\ v.locked = read[r].locked /\ v.found = read[r].found
  BY <1>1 DEF ReadState
<1> HIDE DEF v
<1>4. v.locked => r \in Locked
  BY <1>3 DEF Locked
<1>5. Moves(r, v)
  BY <1>1, <1>2, <1>3, <1>4 DEF Moves, ReadOK, Carries
<1> QED
  BY <1>5

LEMMA ReaderMoves ==
  ASSUME DetailsOK, NEW r \in Reader, ReaderStep(r)
  PROVE  \E v : Moves(r, v)
<1> USE VideoDetailAssumption DEF VideoDetailAssumption
<1>0. DetailTypeOK /\ ReadOK(read[r])
  BY DEF DetailsOK
<1>1. CASE HitL1(r)
  BY <1>1, Answers DEF HitL1, Idle
<1>2. CASE HitL2(r)
  <2> DEFINE v == [read[r] EXCEPT !.pc = "fillL1", !.found = l2]
  <2>1. read[r] \in ReadState /\ (read[r].locked => read[r].round = 0) /\ l2 \in Version
    BY <1>0, <1>2 DEF HitL2, ReadOK, Idle, DetailTypeOK
  <2>2. read' = [read EXCEPT ![r] = v]
    BY <1>2 DEF HitL2, Carry
  <2>3. /\ v \in ReadState /\ v.pc = "fillL1" /\ v.found = l2
        /\ v.locked = read[r].locked /\ v.round = read[r].round
    BY <2>1 DEF ReadState
  <2> HIDE DEF v
  <2>4. v.locked => r \in Locked
    <3>1. read[r] # Idle
      BY <1>2 DEF HitL2, Idle
    <3> QED
      BY <2>3, <3>1 DEF Locked
  <2>5. Moves(r, v)
    BY <1>2, <2>1, <2>2, <2>3, <2>4 DEF Moves, ReadOK, Carries
  <2> QED
    BY <2>5
<1>3. CASE FillL1(r)
  BY <1>3, Answers DEF FillL1, Idle
<1>4. CASE Miss(r)
  <2>1. read[r] \in ReadState /\ read[r] # Idle
    BY <1>0, <1>4 DEF Miss, ReadOK, Idle
  <2>2. /\ read[r].round \in 0 .. WaitRounds /\ read[r].locked \in BOOLEAN
        /\ read[r].locked => read[r].round = 0
    BY <1>0, <2>1 DEF ReadState, ReadOK
  <2>3. CASE read[r].locked /\ ReadGoto(r, "find")
    BY <2>1, <2>3, Goes
  <2>4. CASE ~read[r].locked /\ read[r].round = 0 /\ ReadGoto(r, "incr")
    BY <2>1, <2>4, Goes
  <2>5. CASE ~read[r].locked /\ read[r].round \in 1 .. WaitRounds - 1 /\ ReadGoto(r, "wait")
    <3>1. read[r].round < WaitRounds
      BY <2>5
    <3> QED
      BY <2>1, <2>5, <3>1, Goes
  <2>6. CASE ReadReturn(r)
    BY <2>6, Returns
  <2> QED
    BY <1>4, <2>3, <2>4, <2>5, <2>6 DEF Miss
<1>5. CASE CountHit(r)
  <2>1. read[r] # Idle /\ read[r].round = 0 /\ ~read[r].locked
    BY <1>0, <1>5 DEF CountHit, ReadOK, Idle
  <2>2. ReadReturn(r) \/ ReadGoto(r, "lock")
    BY <1>5 DEF CountHit
  <2> QED
    BY <2>1, <2>2, Goes, Returns
<1>6. CASE TryLock(r)
  <2>1. /\ read[r] # Idle /\ read[r] \in ReadState
        /\ read[r].round = 0 /\ ~read[r].locked
    BY <1>0, <1>6 DEF TryLock, ReadOK, Idle
  <2>2. CASE ReadGoto(r, "wait")
    BY <2>1, <2>2, Goes
  <2>3. CASE /\ lock = NoReader
             /\ lock' = r
             /\ read' = [read EXCEPT ![r] = [@ EXCEPT !.pc = "get", !.locked = TRUE]]
    <3> DEFINE v == [read[r] EXCEPT !.pc = "get", !.locked = TRUE]
    <3>1. v \in ReadState /\ v.pc = "get" /\ v.round = 0
      BY <2>1 DEF ReadState
    <3>2. read' = [read EXCEPT ![r] = v]
      BY <2>3
    <3> HIDE DEF v
    <3>3. Moves(r, v)
      BY <2>3, <3>1, <3>2 DEF Moves, ReadOK, Carries
    <3> QED
      BY <3>3
  <2> QED
    BY <1>6, <2>2, <2>3 DEF TryLock
<1>7. CASE Wait(r)
  <2>1. /\ read[r] # Idle /\ read[r] \in ReadState
        /\ read[r].round < WaitRounds /\ ~read[r].locked
    BY <1>0, <1>7 DEF Wait, ReadOK, Idle
  <2>2. CASE ReadReturn(r)
    BY <2>2, Returns
  <2>3. CASE read' = [read EXCEPT ![r] = [read[r] EXCEPT !.pc = "get", !.round = @ + 1]]
    <3>a. PICK k \in 0 .. WaitRounds : k = read[r].round + 1
      BY <2>1 DEF ReadState
    <3> DEFINE v == [read[r] EXCEPT !.pc = "get", !.round = k]
    <3>1. v \in ReadState /\ v.pc = "get" /\ v.locked = read[r].locked
      BY <2>1 DEF ReadState
    <3>2. read' = [read EXCEPT ![r] = v]
      BY <2>3, <3>a
    <3> HIDE DEF v
    <3>3. Moves(r, v)
      BY <2>1, <3>1, <3>2 DEF Moves, ReadOK, Carries
    <3> QED
      BY <3>3
  <2> QED
    BY <1>7, <2>2, <2>3 DEF Wait
<1>8. CASE Find(r)
  <2>1. /\ read[r] # Idle /\ read[r] \in ReadState
        /\ read[r].locked => read[r].round = 0
    BY <1>0, <1>8 DEF Find, ReadOK, Idle
  <2>2. CASE Answer(r)
    BY <2>1, <2>2, Answers
  <2>3. CASE Carry(r, "setL1", version)
    <3> DEFINE v == [read[r] EXCEPT !.pc = "setL1", !.found = version]
    <3>1. /\ v \in ReadState /\ v.pc = "setL1" /\ v.found = version
          /\ v.locked = read[r].locked /\ v.round = read[r].round
      BY <1>0, <2>1 DEF ReadState, DetailTypeOK
    <3>2. read' = [read EXCEPT ![r] = v]
      BY <2>3 DEF Carry
    <3> HIDE DEF v
    <3>3. v.locked => r \in Locked
      BY <2>1, <3>1 DEF Locked
    <3>4. Moves(r, v)
      BY <1>0, <1>8, <2>1, <3>1, <3>2, <3>3 DEF Moves, ReadOK, Carries, DetailTypeOK
    <3> QED
      BY <3>4
  <2> QED
    BY <1>8, <2>2, <2>3 DEF Find
<1>9. CASE CacheL1(r)
  <2>1. read[r] # Idle /\ Carries(read[r]) /\ ReadGoto(r, "setL2")
    BY <1>9 DEF CacheL1, Carries, Idle
  <2> QED
    BY <2>1, Goes
<1>10. CASE CacheL2(r)
  BY <1>10, Answers DEF CacheL2, Idle
<1>11. CASE Unlock(r)
  BY <1>11, Returns DEF Unlock
<1> QED
  BY <1>1, <1>2, <1>3, <1>4, <1>5, <1>6, <1>7, <1>8, <1>9, <1>10, <1>11 DEF ReaderStep

-----------------------------------------------------------------------------
LEMMA TypeInit == DetailInit => DetailsOK
<1> USE VideoDetailAssumption DEF VideoDetailAssumption
<1> SUFFICES ASSUME DetailInit PROVE DetailsOK
  OBVIOUS
<1>1. version \in Version /\ hits \in 0 .. HotThreshold - 1
  BY DEF DetailInit, Version
<1> QED
  BY <1>1 DEF DetailInit, DetailsOK, DetailTypeOK, ReadOK, Nothing

(* The parts of the state that reads, and changes of the row, may touch. *)
ReadsOK ==
    read \in [Reader -> ReadState \cup {Idle}] /\ \A r \in Reader : ReadOK(read[r])

CachesOK ==
    /\ version \in Version
    /\ deleted \in BOOLEAN
    /\ l1 \in [Process -> Version \cup {Nothing}]
    /\ l1Late \in [Process -> BOOLEAN]
    /\ l2 \in Version \cup {Nothing}
    /\ l2Late \in BOOLEAN
    /\ hits \in 0 .. HotThreshold - 1
    /\ lock \in Reader \cup {NoReader}
    /\ overrun \subseteq Reader
    /\ overtaken \subseteq Reader

WritesOK == write \in [Writer -> WriteState \cup {Idle}]

LEMMA PartsOfType == DetailsOK <=> ReadsOK /\ CachesOK /\ WritesOK
  BY DEF DetailsOK, DetailTypeOK, ReadsOK, CachesOK, WritesOK

LEMMA ReadsStayOK ==
  ASSUME DetailsOK, NEW r \in Reader, NEW v, Moves(r, v)
  PROVE  ReadsOK'
<1>1. read \in [Reader -> ReadState \cup {Idle}] /\ \A s \in Reader : ReadOK(read[s])
  BY DEF DetailsOK, DetailTypeOK
<1>2. v \in ReadState \cup {Idle} /\ read' = [read EXCEPT ![r] = v] /\ ReadOK(v)
  BY DEF Moves, ReadOK
<1>3. read' \in [Reader -> ReadState \cup {Idle}]
  BY <1>1, <1>2
<1>4. ASSUME NEW s \in Reader PROVE ReadOK(read'[s])
  BY <1>1, <1>2
<1> QED
  BY <1>3, <1>4 DEF ReadsOK, ReadOK, Carries

LEMMA GetMoves ==
  ASSUME NEW r \in Reader, GetDetail(r)
  PROVE  \E v : Moves(r, v)
<1> USE VideoDetailAssumption DEF VideoDetailAssumption
<1> DEFINE v == [pc |-> "get", locked |-> FALSE, round |-> 0, found |-> Nothing]
<1>1. v \in ReadState /\ v.pc = "get" /\ ~v.locked
  BY DEF ReadState
<1>2. read' = [read EXCEPT ![r] = v]
  BY DEF GetDetail
<1> HIDE DEF v
<1>3. Moves(r, v)
  BY <1>1, <1>2 DEF Moves, ReadOK, Carries
<1> QED
  BY <1>3

LEMMA WritesMove ==
  ASSUME WritesOK, NEW w \in Writer
  PROVE  /\ Return(w) => WritesOK'
         /\ \A pc \in {"delete", "delL1", "delL2"} : Goto(w, pc) => WritesOK'
<1>1. \A pc \in {"delete", "delL1", "delL2"} : [pc |-> pc, found |-> 0] \in WriteState
  BY DEF WriteState
<1> QED
  BY <1>1 DEF WritesOK, Return, Goto

LEMMA CachesStayOK ==
  ASSUME DetailsOK, NEW r \in Reader, ReaderStep(r)
  PROVE  CachesOK'
<1> USE VideoDetailAssumption DEF VideoDetailAssumption
<1>0. CachesOK /\ ReadOK(read[r])
  BY PartsOfType DEF DetailsOK
<1>1. CASE HitL1(r)
  BY <1>0, <1>1 DEF HitL1, rowVars, l1Vars, l2Vars, lockVars, CachesOK
<1>2. CASE HitL2(r)
  BY <1>0, <1>2 DEF HitL2, rowVars, l1Vars, l2Vars, lockVars, CachesOK
<1>3. CASE FillL1(r)
  <2>1. read[r].found \in Version
    BY <1>0, <1>3 DEF FillL1, ReadOK, Carries, Idle
  <2> QED
    BY <1>0, <1>3, <2>1 DEF FillL1, SetL1, rowVars, l2Vars, lockVars, CachesOK
<1>4. CASE Miss(r)
  BY <1>0, <1>4 DEF Miss, rowVars, l1Vars, l2Vars, lockVars, CachesOK
<1>5. CASE CountHit(r)
  <2>1. hits' \in 0 .. HotThreshold - 1
    BY <1>0, <1>5 DEF CountHit, CachesOK
  <2> QED
    BY <1>0, <1>5, <2>1 DEF CountHit, rowVars, l1Vars, l2Vars, CachesOK
<1>6. CASE TryLock(r)
  BY <1>0, <1>6 DEF TryLock, rowVars, l1Vars, l2Vars, CachesOK
<1>7. CASE Wait(r)
  BY <1>0, <1>7 DEF Wait, rowVars, l1Vars, l2Vars, lockVars, CachesOK
<1>8. CASE Find(r)
  BY <1>0, <1>8 DEF Find, rowVars, l1Vars, l2Vars, lockVars, CachesOK
<1>9. CASE CacheL1(r)
  <2>1. read[r].found \in Version
    BY <1>0, <1>9 DEF CacheL1, ReadOK, Carries, Idle
  <2> QED
    BY <1>0, <1>9, <2>1 DEF CacheL1, SetL1, rowVars, l2Vars, lockVars, CachesOK
<1>10. CASE CacheL2(r)
  <2>1. read[r].found \in Version
    BY <1>0, <1>10 DEF CacheL2, ReadOK, Carries, Idle
  <2> QED
    <3>1. CASE l2' = read[r].found /\ l2Late' = (r \in overtaken)
      BY <1>0, <1>10, <2>1, <3>1 DEF CacheL2, rowVars, l1Vars, lockVars, CachesOK
    <3>2. CASE UNCHANGED l2Vars
      BY <1>0, <1>10, <3>2 DEF CacheL2, rowVars, l1Vars, l2Vars, lockVars, CachesOK
    <3> QED
      BY <1>10, <3>1, <3>2 DEF CacheL2
<1>11. CASE Unlock(r)
  BY <1>0, <1>11 DEF Unlock, rowVars, l1Vars, l2Vars, CachesOK
<1> QED
  BY <1>1, <1>2, <1>3, <1>4, <1>5, <1>6, <1>7, <1>8, <1>9, <1>10, <1>11 DEF ReaderStep

LEMMA RowChanges ==
  ASSUME CachesOK, NEW w \in Writer, Changed(w), deleted' \in BOOLEAN
  PROVE  CachesOK'
<1>1. version' \in Version
  BY VideoDetailAssumption DEF VideoDetailAssumption, Changed, CachesOK, Version
<1> QED
  BY <1>1 DEF Changed, l2Vars, lockVars, CachesOK

LEMMA TypeStep == DetailsOK /\ [DetailNext]_detailVars => DetailsOK'
<1> USE VideoDetailAssumption DEF VideoDetailAssumption
<1> SUFFICES ASSUME DetailsOK, [DetailNext]_detailVars PROVE DetailsOK'
  OBVIOUS
<1>0. ReadsOK /\ CachesOK /\ WritesOK
  BY PartsOfType
<1>p. ReadsOK' /\ CachesOK' /\ WritesOK' => DetailsOK'
  BY DEF DetailsOK, DetailTypeOK, ReadsOK, CachesOK, WritesOK
<1>r. UNCHANGED read => ReadsOK'
  BY <1>0 DEF ReadsOK, ReadOK, Carries
<1>1. ASSUME NEW r \in Reader, GetDetail(r) PROVE DetailsOK'
  <2>1. ReadsOK'
    BY <1>1, GetMoves, ReadsStayOK
  <2>2. CachesOK' /\ WritesOK'
    BY <1>0, <1>1 DEF GetDetail, rowVars, l1Vars, l2Vars, lockVars, CachesOK, WritesOK
  <2> QED
    BY <1>p, <2>1, <2>2
<1>2. ASSUME NEW r \in Reader, ReaderStep(r) PROVE DetailsOK'
  <2>1. ReadsOK'
    BY <1>2, ReaderMoves, ReadsStayOK
  <2>2. write' = write
    BY <1>2 DEF ReaderStep, HitL1, HitL2, FillL1, Miss, CountHit, TryLock, Wait, Find, CacheL1,
       CacheL2, Unlock
  <2>3. CachesOK' /\ WritesOK'
    BY <1>0, <1>2, <2>2, CachesStayOK DEF WritesOK
  <2> QED
    BY <1>p, <2>1, <2>3
<1>3. ASSUME NEW w \in Writer, UpdateLikesCount(w) PROVE DetailsOK'
  <2>1. deleted' \in BOOLEAN
    BY <1>0, <1>3 DEF UpdateLikesCount, CachesOK
  <2>2. CASE Changed(w)
    BY <1>0, <1>3, <1>p, <1>r, <2>1, <2>2, RowChanges, WritesMove DEF UpdateLikesCount, Changed
  <2>3. CASE UNCHANGED <<version, l1Vars, l2Vars, lockVars, read, overtaken>>
    <3>1. CachesOK' /\ UNCHANGED read
      BY <1>0, <2>1, <2>3 DEF l1Vars, l2Vars, lockVars, CachesOK
    <3> QED
      BY <1>0, <1>3, <1>p, <1>r, <3>1, WritesMove DEF UpdateLikesCount
  <2> QED
    BY <1>3, <2>2, <2>3 DEF UpdateLikesCount
<1>4. ASSUME NEW w \in Writer, DeleteFound(w) PROVE DetailsOK'
  <2>1. CachesOK' /\ UNCHANGED read
    BY <1>0, <1>4 DEF DeleteFound, rowVars, l1Vars, l2Vars, lockVars, CachesOK
  <2> QED
    BY <1>0, <1>4, <1>p, <1>r, <2>1, WritesMove DEF DeleteFound
<1>5. ASSUME NEW w \in Writer, DeleteVideo(w) PROVE DetailsOK'
  <2>1. deleted' \in BOOLEAN
    BY <1>5 DEF DeleteVideo
  <2>2. CASE Changed(w)
    BY <1>0, <1>5, <1>p, <1>r, <2>1, <2>2, RowChanges, WritesMove DEF DeleteVideo, Changed
  <2>3. CASE UNCHANGED <<version, l1Vars, l2Vars, lockVars, read, overtaken>>
    <3>1. CachesOK' /\ UNCHANGED read
      BY <1>0, <2>1, <2>3 DEF l1Vars, l2Vars, lockVars, CachesOK
    <3> QED
      BY <1>0, <1>5, <1>p, <1>r, <3>1, WritesMove DEF DeleteVideo
  <2> QED
    BY <1>5, <2>2, <2>3 DEF DeleteVideo
<1>6. ASSUME NEW w \in Writer, DelL1(w) PROVE DetailsOK'
  <2>1. CachesOK' /\ UNCHANGED read
    BY <1>0, <1>6 DEF DelL1, rowVars, l2Vars, lockVars, CachesOK
  <2> QED
    BY <1>0, <1>6, <1>p, <1>r, <2>1, WritesMove DEF DelL1
<1>7. ASSUME NEW w \in Writer, DelL2(w) PROVE DetailsOK'
  <2>1. CachesOK' /\ UNCHANGED read
    BY <1>0, <1>7 DEF DelL2, rowVars, l1Vars, lockVars, CachesOK
  <2> QED
    BY <1>0, <1>7, <1>p, <1>r, <2>1, WritesMove DEF DelL2
<1>8. ASSUME NEW p \in Process, ExpireL1(p) PROVE DetailsOK'
  <2>1. CachesOK' /\ WritesOK' /\ UNCHANGED read
    BY <1>0, <1>8 DEF ExpireL1, rowVars, l2Vars, lockVars, CachesOK, WritesOK
  <2> QED
    BY <1>p, <1>r, <2>1
<1>9. CASE ExpireL2
  <2>1. CachesOK' /\ WritesOK' /\ UNCHANGED read
    BY <1>0, <1>9 DEF ExpireL2, rowVars, l1Vars, lockVars, CachesOK, WritesOK
  <2> QED
    BY <1>p, <1>r, <2>1
<1>10. CASE ExpireLock
  <2>1. CachesOK' /\ WritesOK' /\ UNCHANGED read
    BY <1>0, <1>10 DEF ExpireLock, rowVars, l1Vars, l2Vars, Locked, CachesOK, WritesOK
  <2> QED
    BY <1>p, <1>r, <2>1
<1>11. ASSUME NEW p \in Process, Crash(p) PROVE DetailsOK'
  <2>1. /\ read' = [r \in Reader |-> IF ProcessOf[r] = p THEN Idle ELSE read[r]]
        /\ write' = [w \in Writer |-> IF ProcessOf[w] = p THEN Idle ELSE write[w]]
    BY <1>11 DEF Crash
  <2>2. ReadsOK'
    BY <1>0, <2>1 DEF ReadsOK, ReadOK, Carries
  <2>3. WritesOK'
    BY <1>0, <2>1 DEF WritesOK
  <2>4. CachesOK'
    BY <1>0, <1>11 DEF Crash, rowVars, CachesOK
  <2> QED
    BY <1>p, <2>2, <2>3, <2>4
<1>12. CASE CountByWorker
  <2>1. version' \in Version
    BY <1>0, <1>12 DEF CountByWorker, CachesOK, Version
  <2>2. CachesOK' /\ WritesOK' /\ UNCHANGED read
    BY <1>0, <1>12, <2>1 DEF CountByWorker, lockVars, CachesOK, WritesOK
  <2> QED
    BY <1>p, <1>r, <2>2
<1>13. CASE UNCHANGED detailVars
  <2>1. CachesOK' /\ WritesOK' /\ UNCHANGED read
    BY <1>0, <1>13 DEF detailVars, rowVars, l1Vars, l2Vars, lockVars, CachesOK, WritesOK
  <2> QED
    BY <1>p, <1>r, <2>1
<1> QED
  BY <1>1, <1>2, <1>3, <1>4, <1>5, <1>6, <1>7, <1>8, <1>9, <1>10, <1>11, <1>12, <1>13 DEF DetailNext

-----------------------------------------------------------------------------
(* OneFiller for each reader: what it takes to be inductive. *)
Holders == \A r \in Locked \ overrun : lock = r

LEMMA HoldersKept ==
  ASSUME DetailsOK, Holders, NEW r \in Reader, NEW v, Moves(r, v), UNCHANGED overrun,
         lock' = lock \/ (lock = NoReader /\ lock' = r)
  PROVE  Holders'
<1> USE VideoDetailAssumption DEF VideoDetailAssumption
<1>1. read'[r] = v /\ \A s \in Reader : s # r => read'[s] = read[s]
  BY DEF Moves, DetailsOK, DetailTypeOK
<1>2. ASSUME NEW s \in Locked', s \notin overrun', s # r PROVE lock' = s
  BY <1>1, <1>2 DEF Locked, Holders, NoReader
<1>3. ASSUME r \in Locked', r \notin overrun' PROVE lock' = r
  <2>1. v # Idle /\ v.locked
    BY <1>1, <1>3 DEF Locked
  <2> QED
    BY <1>3, <2>1 DEF Moves, Holders, NoReader
<1> QED
  BY <1>2, <1>3 DEF Holders

LEMMA HolderStep == DetailsOK /\ Holders /\ [DetailNext]_detailVars => Holders'
<1> USE VideoDetailAssumption DEF VideoDetailAssumption
<1> SUFFICES ASSUME DetailsOK, Holders, [DetailNext]_detailVars PROVE Holders'
  OBVIOUS
<1>s. UNCHANGED <<read, lock, overrun>> => Holders'
  BY DEF Holders, Locked
<1>1. ASSUME NEW r \in Reader, GetDetail(r) PROVE Holders'
  <2>1. UNCHANGED <<lock, overrun>>
    BY <1>1 DEF GetDetail, lockVars
  <2> QED
    BY <1>1, <2>1, GetMoves, HoldersKept
<1>2. ASSUME NEW r \in Reader, ReaderStep(r) PROVE Holders'
  <2>1. CASE Unlock(r)
    <3>1. read'[r] = Idle /\ \A s \in Reader : s # r => read'[s] = read[s]
      BY <2>1 DEF Unlock, ReadReturn, DetailsOK, DetailTypeOK
    <3>2. ASSUME NEW s \in Locked', s \notin overrun' PROVE lock' = s
      <4>1. s # r /\ s \in Locked
        BY <3>1 DEF Locked
      <4> QED
        BY <2>1, <3>2, <4>1 DEF Unlock, Holders
    <3> QED
      BY <3>2 DEF Holders
  <2>2. CASE ~Unlock(r)
    <3>1. UNCHANGED overrun /\ (lock' = lock \/ (lock = NoReader /\ lock' = r))
      BY <1>2, <2>2 DEF ReaderStep, HitL1, HitL2, FillL1, Miss, CountHit, TryLock, Wait, Find,
         CacheL1, CacheL2, lockVars
    <3> QED
      BY <1>2, <3>1, ReaderMoves, HoldersKept
  <2> QED
    BY <2>1, <2>2
<1>3. ASSUME NEW w \in Writer, UpdateLikesCount(w) PROVE Holders'
  BY <1>3, <1>s DEF UpdateLikesCount, Changed, lockVars
<1>4. ASSUME NEW w \in Writer, DeleteFound(w) PROVE Holders'
  BY <1>4, <1>s DEF DeleteFound, lockVars
<1>5. ASSUME NEW w \in Writer, DeleteVideo(w) PROVE Holders'
  BY <1>5, <1>s DEF DeleteVideo, Changed, lockVars
<1>6. ASSUME NEW w \in Writer, DelL1(w) PROVE Holders'
  BY <1>6, <1>s DEF DelL1, lockVars
<1>7. ASSUME NEW w \in Writer, DelL2(w) PROVE Holders'
  BY <1>7, <1>s DEF DelL2, lockVars
<1>8. ASSUME NEW p \in Process, ExpireL1(p) PROVE Holders'
  BY <1>8, <1>s DEF ExpireL1, lockVars
<1>9. CASE ExpireL2
  BY <1>9, <1>s DEF ExpireL2, lockVars
<1>10. CASE ExpireLock
  BY <1>10 DEF ExpireLock, Holders, Locked
<1>11. ASSUME NEW p \in Process, Crash(p) PROVE Holders'
  <2>1. /\ read' = [r \in Reader |-> IF ProcessOf[r] = p THEN Idle ELSE read[r]]
        /\ overrun' = {r \in overrun : ProcessOf[r] # p}
        /\ lock' = lock
    BY <1>11 DEF Crash
  <2> QED
    BY <2>1 DEF Holders, Locked
<1>12. CASE CountByWorker
  BY <1>12, <1>s DEF CountByWorker, lockVars
<1>13. CASE UNCHANGED detailVars
  BY <1>13, <1>s DEF detailVars, lockVars
<1> QED
  BY <1>1, <1>2, <1>3, <1>4, <1>5, <1>6, <1>7, <1>8, <1>9, <1>10, <1>11, <1>12, <1>13 DEF DetailNext

(* Whoever holds the lock is one. *)
LEMMA HoldersAreOne == Holders => OneFiller
<1> SUFFICES ASSUME Holders PROVE OneFiller
  OBVIOUS
<1> DEFINE S == Locked \ overrun
<1>1. CASE S = {}
  BY <1>1, FS_EmptySet DEF OneFiller
<1>2. CASE S # {}
  <2>1. S = {lock}
    BY <1>2 DEF Holders
  <2>2. Cardinality(S) = 1
    BY <2>1, FS_Singleton
  <2> QED
    BY <2>2 DEF OneFiller
<1> QED
  BY <1>1, <1>2

(***************************************************************************)
(* However many requests miss, in however many processes, one reader at a  *)
(* time refills the caches, unless the lock has run out on it              *)
(* (video_service.go GetDetail, redis.go Lock and Unlock).                 *)
(***************************************************************************)
THEOREM OneReaderRefills == DetailSpec => []OneFiller
<1>1. DetailInit => DetailsOK
  BY TypeInit
<1>2. DetailInit => Holders
  BY DEF DetailInit, Holders, Locked
<1>3. DetailsOK /\ [DetailNext]_detailVars => DetailsOK'
  BY TypeStep
<1>4. DetailsOK /\ Holders /\ [DetailNext]_detailVars => Holders'
  BY HolderStep
<1>5. Holders => OneFiller
  BY HoldersAreOne
<1> QED
  BY <1>1, <1>2, <1>3, <1>4, <1>5, PTL DEF DetailSpec

(***************************************************************************)
(* Row, caches, hit counter, lock and the requests in every process keep   *)
(* their types; the counter of misses stays below the threshold            *)
(* (video_service.go GetDetail, invalidateCache, localcache.go, redis.go). *)
(***************************************************************************)
THEOREM DetailTypeCorrect == DetailSpec => []DetailTypeOK
<1>1. DetailInit => DetailsOK
  BY TypeInit
<1>2. DetailsOK /\ [DetailNext]_detailVars => DetailsOK'
  BY TypeStep
<1>3. DetailsOK => DetailTypeOK
  BY DEF DetailsOK
<1> QED
  BY <1>1, <1>2, <1>3, PTL DEF DetailSpec

-----------------------------------------------------------------------------
(***************************************************************************)
(* What makes StaleOnlyByRace inductive: a reader that was not overtaken   *)
(* carries the row as it is.                                               *)
(***************************************************************************)
InTime == \A r \in Reader : Carries(read[r]) /\ r \notin overtaken => read[r].found = version

(* The two halves of StaleOnlyByRace. *)
RedisFresh == ~l2Late /\ ~Invalidating => l2 \in {Nothing, version}

Telling(p) == \E w \in Writer : ProcessOf[w] = p /\ write[w].pc = "delL1"

ProcessesFresh == \A p \in Process : ~l1Late[p] /\ ~Telling(p) => l1[p] \in {Nothing, version}

CachesFresh == InTime /\ RedisFresh /\ ProcessesFresh

LEMMA FreshParts == CachesFresh => StaleOnlyByRace
  BY DEF CachesFresh, RedisFresh, ProcessesFresh, Telling, StaleOnlyByRace

LEMMA InTimeKept ==
  ASSUME DetailsOK, InTime, NEW r \in Reader, NEW v, Moves(r, v), UNCHANGED version,
         \/ ~Carries(v) /\ overtaken \subseteq overtaken' \cup {r}
         \/ overtaken \subseteq overtaken' /\ (HitL2(r) => r \in overtaken' \/ l2 = version)
  PROVE  InTime'
<1>1. read'[r] = v /\ \A s \in Reader : s # r => read'[s] = read[s]
  BY DEF Moves, DetailsOK, DetailTypeOK
<1>2. ASSUME NEW s \in Reader, s # r, Carries(read'[s]), s \notin overtaken'
      PROVE  read'[s].found = version'
  BY <1>1, <1>2 DEF InTime
<1>3. ASSUME Carries(v), r \notin overtaken' PROVE v.found = version'
  BY <1>3 DEF Moves, InTime
<1> QED
  BY <1>1, <1>2, <1>3 DEF InTime, Carries

LEMMA ReaderStaysFresh ==
  ASSUME DetailsOK, CachesFresh, NEW r \in Reader, ReaderStep(r)
  PROVE  CachesFresh'
<1> USE VideoDetailAssumption DEF VideoDetailAssumption
<1>0. InTime /\ RedisFresh /\ ProcessesFresh /\ DetailTypeOK
  BY DEF CachesFresh, DetailsOK
<1>1. UNCHANGED <<version, write>>
  BY DEF ReaderStep, HitL1, HitL2, FillL1, Miss, CountHit, TryLock, Wait, Find, CacheL1,
     CacheL2, Unlock, rowVars
<1>2. (Invalidating' <=> Invalidating) /\ \A p \in Process : Telling(p)' <=> Telling(p)
  BY <1>1 DEF Invalidating, Telling
<1>3. PICK v : Moves(r, v)
  BY ReaderMoves
<1>4. UNCHANGED l2Vars => RedisFresh'
  BY <1>0, <1>1, <1>2 DEF RedisFresh, l2Vars
<1>5. UNCHANGED l1Vars => ProcessesFresh'
  BY <1>0, <1>1, <1>2 DEF ProcessesFresh, l1Vars
<1>6. SetL1(r) /\ Carries(read[r]) => ProcessesFresh'
  <2> SUFFICES ASSUME SetL1(r), Carries(read[r]), NEW p \in Process, ~l1Late'[p], ~Telling(p)
               PROVE  l1'[p] \in {Nothing, version}
    BY <1>1, <1>2 DEF ProcessesFresh
  <2>1. CASE p = ProcessOf[r]
    BY <1>0, <2>1 DEF SetL1, DetailTypeOK, InTime
  <2>2. CASE p # ProcessOf[r]
    BY <1>0, <2>2 DEF SetL1, DetailTypeOK, ProcessesFresh
  <2> QED
    BY <2>1, <2>2
<1>7. CASE HitL2(r)
  <2>1. overtaken \subseteq overtaken' /\ (r \in overtaken' \/ l2 = version)
    BY <1>0, <1>7 DEF HitL2, RedisFresh
  <2>2. UNCHANGED <<l1Vars, l2Vars>>
    BY <1>7 DEF HitL2
  <2> QED
    BY <1>0, <1>1, <1>3, <1>4, <1>5, <2>1, <2>2, InTimeKept DEF CachesFresh
<1>8. CASE FillL1(r)
  <2>1. Carries(read[r]) /\ read[r] # Idle /\ SetL1(r) /\ UNCHANGED l2Vars
    BY <1>8 DEF FillL1, Carries, Idle
  <2>2. PICK u : Moves(r, u) /\ ~Carries(u)
    BY <1>8, <2>1, Answers DEF FillL1
  <2>3. InTime'
    BY <1>0, <1>1, <1>8, <2>2, InTimeKept DEF FillL1
  <2> QED
    BY <1>4, <1>6, <2>1, <2>3 DEF CachesFresh
<1>9. CASE CacheL1(r)
  <2>1. /\ Carries(read[r]) /\ SetL1(r) /\ UNCHANGED <<l2Vars, overtaken>>
        /\ ~HitL2(r)
    BY <1>9 DEF CacheL1, HitL2, Carries
  <2>2. InTime'
    BY <1>0, <1>1, <1>3, <2>1, InTimeKept
  <2> QED
    BY <1>4, <1>6, <2>1, <2>2 DEF CachesFresh
<1>10. CASE CacheL2(r)
  <2>1. Carries(read[r]) /\ read[r] # Idle /\ UNCHANGED l1Vars
    BY <1>10 DEF CacheL2, Carries, Idle
  <2>2. PICK u : Moves(r, u) /\ ~Carries(u)
    BY <1>10, <2>1, Answers DEF CacheL2
  <2>3. InTime'
    BY <1>0, <1>1, <1>10, <2>2, InTimeKept DEF CacheL2
  <2>4. RedisFresh'
    <3>1. CASE l2' = read[r].found /\ l2Late' = (r \in overtaken)
      BY <1>0, <1>1, <2>1, <3>1 DEF InTime, RedisFresh
    <3>2. CASE UNCHANGED l2Vars
      BY <1>4, <3>2
    <3> QED
      BY <1>10, <3>1, <3>2 DEF CacheL2
  <2> QED
    BY <1>5, <2>1, <2>3, <2>4 DEF CachesFresh
<1>11. CASE ~HitL2(r) /\ ~FillL1(r) /\ ~CacheL1(r) /\ ~CacheL2(r)
  <2>1. UNCHANGED <<l1Vars, l2Vars, overtaken>>
    BY <1>11 DEF ReaderStep, HitL1, Miss, CountHit, TryLock, Wait, Find, Unlock
  <2>2. InTime'
    BY <1>0, <1>1, <1>3, <1>11, <2>1, InTimeKept
  <2> QED
    BY <1>4, <1>5, <2>1, <2>2 DEF CachesFresh
<1> QED
  BY <1>7, <1>8, <1>9, <1>10, <1>11

(* The row changes, and its writer is about to tell the caches. *)
LEMMA ChangeStaysFresh ==
  ASSUME DetailsOK, CachesFresh, NEW w \in Writer, Changed(w), Goto(w, "delL1")
  PROVE  CachesFresh'
<1> USE VideoDetailAssumption DEF VideoDetailAssumption
<1>1. write'[w].pc = "delL1" /\ \A x \in Writer : x # w => write'[x] = write[x]
  BY DEF Goto, DetailsOK, DetailTypeOK
<1>2. InTime'
  BY DEF Changed, InTime, Carries
<1>3. RedisFresh'
  BY <1>1 DEF RedisFresh, Invalidating
<1>4. ASSUME NEW p \in Process, ~l1Late'[p], ~Telling(p)' PROVE l1'[p] \in {Nothing, version'}
  <2>1. p # ProcessOf[w]
    BY <1>1, <1>4 DEF Telling
  <2>2. l1[p] = Nothing
    BY <1>4, <2>1 DEF Changed
  <2> QED
    BY <2>2 DEF Changed
<1> QED
  BY <1>2, <1>3, <1>4 DEF CachesFresh, ProcessesFresh

(* A writer goes on, and leaves row and caches alone. *)
LEMMA WriterStaysFresh ==
  ASSUME DetailsOK, CachesFresh, NEW w \in Writer, NEW pc \in {"delete", "delL1"}, Goto(w, pc),
         ~(write[w].pc \in {"delL1", "delL2"}),
         UNCHANGED <<version, l1Vars, l2Vars, read, overtaken>>
  PROVE  CachesFresh'
<1>1. write'[w].pc = pc /\ \A x \in Writer : x # w => write'[x] = write[x]
  BY DEF Goto, DetailsOK, DetailTypeOK
<1>2. (Invalidating => Invalidating') /\ \A p \in Process : Telling(p) => Telling(p)'
  BY <1>1 DEF Invalidating, Telling
<1>3. InTime'
  BY DEF CachesFresh, InTime, Carries
<1>4. RedisFresh' /\ ProcessesFresh'
  BY <1>2 DEF CachesFresh, RedisFresh, ProcessesFresh, l1Vars, l2Vars
<1> QED
  BY <1>3, <1>4 DEF CachesFresh

LEMMA FreshStep == DetailsOK /\ CachesFresh /\ [DetailNext]_detailVars => CachesFresh'
<1> USE VideoDetailAssumption DEF VideoDetailAssumption
<1> SUFFICES ASSUME DetailsOK, CachesFresh, [DetailNext]_detailVars PROVE CachesFresh'
  OBVIOUS
<1>0. InTime /\ RedisFresh /\ ProcessesFresh /\ DetailTypeOK
  BY DEF CachesFresh, DetailsOK
<1>t. UNCHANGED <<version, read, overtaken>> => InTime'
  BY <1>0 DEF InTime, Carries
<1>w. UNCHANGED write => (Invalidating' <=> Invalidating) /\ \A p \in Process : Telling(p)' <=> Telling(p)
  BY DEF Invalidating, Telling
<1>1. ASSUME NEW r \in Reader, GetDetail(r) PROVE CachesFresh'
  <2>1. UNCHANGED <<version, l1Vars, l2Vars, write, overtaken>> /\ ~HitL2(r)
    BY <1>1 DEF GetDetail, HitL2, Idle, rowVars
  <2>2. InTime'
    BY <1>0, <1>1, <2>1, GetMoves, InTimeKept
  <2>3. RedisFresh' /\ ProcessesFresh'
    BY <1>0, <1>w, <2>1 DEF RedisFresh, ProcessesFresh, l1Vars, l2Vars
  <2> QED
    BY <2>2, <2>3 DEF CachesFresh
<1>2. ASSUME NEW r \in Reader, ReaderStep(r) PROVE CachesFresh'
  BY <1>2, ReaderStaysFresh
<1>3. ASSUME NEW w \in Writer, UpdateLikesCount(w) PROVE CachesFresh'
  <2>1. Goto(w, "delL1") /\ ~(write[w].pc \in {"delL1", "delL2"})
    BY <1>3 DEF UpdateLikesCount, Idle
  <2>2. Changed(w) \/ UNCHANGED <<version, l1Vars, l2Vars, read, overtaken>>
    BY <1>3 DEF UpdateLikesCount
  <2> QED
    BY <2>1, <2>2, ChangeStaysFresh, WriterStaysFresh
<1>4. ASSUME NEW w \in Writer, DeleteFound(w) PROVE CachesFresh'
  <2>1. /\ Goto(w, "delete") /\ ~(write[w].pc \in {"delL1", "delL2"})
        /\ UNCHANGED <<version, l1Vars, l2Vars, read, overtaken>>
    BY <1>4 DEF DeleteFound, Idle, rowVars
  <2> QED
    BY <2>1, WriterStaysFresh
<1>5. ASSUME NEW w \in Writer, DeleteVideo(w) PROVE CachesFresh'
  <2>1. Goto(w, "delL1") /\ ~(write[w].pc \in {"delL1", "delL2"})
    BY <1>5 DEF DeleteVideo
  <2>2. Changed(w) \/ UNCHANGED <<version, l1Vars, l2Vars, read, overtaken>>
    BY <1>5 DEF DeleteVideo
  <2> QED
    BY <2>1, <2>2, ChangeStaysFresh, WriterStaysFresh
<1>6. ASSUME NEW w \in Writer, DelL1(w) PROVE CachesFresh'
  <2>1. write'[w].pc = "delL2" /\ \A x \in Writer : x # w => write'[x] = write[x]
    BY <1>0, <1>6 DEF DelL1, Goto, DetailTypeOK
  <2>2. UNCHANGED <<version, l2Vars, read, overtaken>>
    BY <1>6 DEF DelL1, rowVars
  <2>3. RedisFresh'
    BY <2>1 DEF RedisFresh, Invalidating
  <2>4. ASSUME NEW p \in Process, ~l1Late'[p], ~Telling(p)' PROVE l1'[p] \in {Nothing, version'}
    <3>1. CASE p = ProcessOf[w]
      BY <1>0, <1>6, <3>1 DEF DelL1, DetailTypeOK
    <3>2. CASE p # ProcessOf[w]
      <4>1. ~Telling(p)
        BY <2>1, <2>4, <3>2 DEF Telling
      <4>2. l1'[p] = l1[p] /\ l1Late'[p] = l1Late[p]
        BY <1>0, <1>6, <3>2 DEF DelL1, DetailTypeOK
      <4> QED
        BY <1>0, <2>2, <2>4, <4>1, <4>2 DEF ProcessesFresh
    <3> QED
      BY <3>1, <3>2
  <2> QED
    BY <1>t, <2>2, <2>3, <2>4 DEF CachesFresh, ProcessesFresh
<1>7. ASSUME NEW w \in Writer, DelL2(w) PROVE CachesFresh'
  <2>1. write'[w] = Idle /\ \A x \in Writer : x # w => write'[x] = write[x]
    BY <1>0, <1>7 DEF DelL2, Return, DetailTypeOK
  <2>2. UNCHANGED <<version, l1Vars, read, overtaken>> /\ write[w].pc = "delL2"
    BY <1>7 DEF DelL2, rowVars
  <2>3. RedisFresh'
    BY <1>7 DEF DelL2, RedisFresh
  <2>4. \A p \in Process : Telling(p) => Telling(p)'
    BY <2>1, <2>2 DEF Telling
  <2>5. ProcessesFresh'
    BY <1>0, <2>2, <2>4 DEF ProcessesFresh, l1Vars
  <2> QED
    BY <1>t, <2>2, <2>3, <2>5 DEF CachesFresh
<1>8. ASSUME NEW p \in Process, ExpireL1(p) PROVE CachesFresh'
  <2>1. UNCHANGED <<version, l2Vars, read, write, overtaken>>
    BY <1>8 DEF ExpireL1, rowVars
  <2>2. RedisFresh'
    BY <1>0, <1>w, <2>1 DEF RedisFresh, l2Vars
  <2>3. \A q \in Process : l1'[q] = Nothing \/ (l1'[q] = l1[q] /\ l1Late'[q] = l1Late[q])
    BY <1>0, <1>8 DEF ExpireL1, DetailTypeOK
  <2>4. ProcessesFresh'
    BY <1>0, <1>w, <2>1, <2>3 DEF ProcessesFresh
  <2> QED
    BY <1>t, <2>1, <2>2, <2>4 DEF CachesFresh
<1>9. CASE ExpireL2
  <2>1. UNCHANGED <<version, l1Vars, read, write, overtaken>> /\ l2' = Nothing
    BY <1>9 DEF ExpireL2, rowVars
  <2> QED
    BY <1>0, <1>t, <1>w, <2>1 DEF CachesFresh, RedisFresh, ProcessesFresh, l1Vars
<1>10. CASE ExpireLock
  <2>1. UNCHANGED <<version, l1Vars, l2Vars, read, write, overtaken>>
    BY <1>10 DEF ExpireLock, rowVars
  <2> QED
    BY <1>0, <1>t, <1>w, <2>1 DEF CachesFresh, RedisFresh, ProcessesFresh, l1Vars, l2Vars
<1>11. ASSUME NEW p \in Process, Crash(p) PROVE CachesFresh'
  <2> DEFINE torn == \E w \in Writer : ProcessOf[w] = p /\ write[w].pc \in {"delL1", "delL2"}
  <2>1. /\ read' = [r \in Reader |-> IF ProcessOf[r] = p THEN Idle ELSE read[r]]
        /\ write' = [w \in Writer |-> IF ProcessOf[w] = p THEN Idle ELSE write[w]]
        /\ overtaken' = {r \in overtaken : ProcessOf[r] # p}
        /\ l1' = [l1 EXCEPT ![p] = Nothing]
        /\ l1Late' = [l1Late EXCEPT ![p] = FALSE]
        /\ l2Late' = (l2Late \/ (torn /\ l2 # Nothing))
        /\ l2' = l2 /\ version' = version
    BY <1>11 DEF Crash, rowVars
  <2>2. InTime'
    BY <1>0, <2>1 DEF InTime, Carries, Idle
  <2>3. Invalidating => Invalidating' \/ torn
    BY <2>1 DEF Invalidating
  <2>4. RedisFresh'
    BY <1>0, <2>1, <2>3 DEF RedisFresh
  <2>5. ASSUME NEW q \in Process, q # p PROVE Telling(q) => Telling(q)'
    BY <2>1, <2>5 DEF Telling
  <2>6. ProcessesFresh'
    BY <1>0, <2>1, <2>5 DEF ProcessesFresh, DetailTypeOK
  <2> QED
    BY <2>2, <2>4, <2>6 DEF CachesFresh
<1>12. CASE CountByWorker
  <2>1. InTime'
    BY <1>12 DEF CountByWorker, InTime, Carries
  <2>2. RedisFresh'
    BY <1>12 DEF CountByWorker, RedisFresh
  <2>3. ProcessesFresh'
    BY <1>12 DEF CountByWorker, ProcessesFresh
  <2> QED
    BY <2>1, <2>2, <2>3 DEF CachesFresh
<1>13. CASE UNCHANGED detailVars
  BY <1>0, <1>t, <1>w, <1>13 DEF detailVars, rowVars, l1Vars, l2Vars, CachesFresh, RedisFresh,
     ProcessesFresh
<1> QED
  BY <1>1, <1>2, <1>3, <1>4, <1>5, <1>6, <1>7, <1>8, <1>9, <1>10, <1>11, <1>12, <1>13 DEF DetailNext

(***************************************************************************)
(* However many processes cache the row and however many requests read and *)
(* change it, an old row stays in a cache in the five ways named at        *)
(* StaleOnlyByRace only (video_service.go GetDetail, invalidateCache).     *)
(***************************************************************************)
THEOREM DetailStaleOnlyByRace == DetailSpec => []StaleOnlyByRace
<1>1. DetailInit => DetailsOK
  BY TypeInit
<1>2. DetailInit => CachesFresh
  BY DEF DetailInit, CachesFresh, InTime, RedisFresh, ProcessesFresh, Carries, Idle
<1>3. DetailsOK /\ [DetailNext]_detailVars => DetailsOK'
  BY TypeStep
<1>4. DetailsOK /\ CachesFresh /\ [DetailNext]_detailVars => CachesFresh'
  BY FreshStep
<1>5. CachesFresh => StaleOnlyByRace
  BY FreshParts
<1> QED
  BY <1>1, <1>2, <1>3, <1>4, <1>5, PTL DEF DetailSpec

-----------------------------------------------------------------------------
(***************************************************************************)
(* The page: the detail, and the titles suggested for it.                  *)
(***************************************************************************)

(* Requests of the author, which go through the rows of suggestions, are    *)
(* writers of the detail; the other steps leave them alone or end them.     *)

Deciding(w) == write[w].pc \in {"newest", "meta"}

LEMMA GotoWrites ==
  ASSUME WritesOK, NEW w \in Writer, NEW pc, Goto(w, pc)
  PROVE  /\ write'[w] = [pc |-> pc, found |-> 0]
         /\ \A x \in Writer : x # w => write'[x] = write[x]
  BY DEF WritesOK, Goto

LEMMA ReturnWrites ==
  ASSUME WritesOK, NEW w \in Writer, Return(w)
  PROVE  /\ write'[w] = Idle
         /\ \A x \in Writer : x # w => write'[x] = write[x]
  BY DEF WritesOK, Return

LEMMA DetailKeepsDeciding ==
  ASSUME WritesOK, [DetailNext]_detailVars, NEW w \in Writer, Deciding(w)'
  PROVE  write'[w] = write[w]
<1>1. UNCHANGED write => write'[w] = write[w]
  OBVIOUS
<1>2. ASSUME NEW x \in Writer, NEW pc \in {"delete", "delL1", "delL2"}, Goto(x, pc)
      PROVE  write'[w] = write[w]
  <2>1. write'[x] = [pc |-> pc, found |-> 0] /\ (w # x => write'[w] = write[w])
    BY <1>2, GotoWrites
  <2>2. write'[x].pc = pc
    BY <2>1
  <2> QED
    BY <2>1, <2>2 DEF Deciding
<1>3. ASSUME NEW x \in Writer, Return(x) PROVE write'[w] = write[w]
  BY <1>3, ReturnWrites DEF Deciding, Idle
<1>4. ASSUME NEW x \in Writer,
             \/ UpdateLikesCount(x) \/ DeleteFound(x) \/ DeleteVideo(x)
             \/ DelL1(x) \/ DelL2(x)
      PROVE  write'[w] = write[w]
  BY <1>2, <1>3, <1>4 DEF UpdateLikesCount, DeleteFound, DeleteVideo, DelL1, DelL2
<1>5. ASSUME NEW r \in Reader, GetDetail(r) \/ ReaderStep(r) PROVE write'[w] = write[w]
  BY <1>1, <1>5 DEF GetDetail, ReaderStep, HitL1, HitL2, FillL1, Miss, CountHit, TryLock, Wait,
     Find, CacheL1, CacheL2, Unlock
<1>6. ASSUME NEW p \in Process, Crash(p) PROVE write'[w] = write[w]
  <2>1. write' = [x \in Writer |-> IF ProcessOf[x] = p THEN Idle ELSE write[x]]
    BY <1>6 DEF Crash
  <2> QED
    BY <2>1 DEF Deciding, Idle
<1>7. ASSUME NEW p \in Process, ExpireL1(p) PROVE write'[w] = write[w]
  BY <1>7 DEF ExpireL1
<1>8. CASE CountByWorker \/ ExpireL2 \/ ExpireLock \/ UNCHANGED detailVars
  BY <1>1, <1>8 DEF CountByWorker, ExpireL2, ExpireLock, detailVars
<1> QED
  BY <1>4, <1>5, <1>6, <1>7, <1>8 DEF DetailNext

-----------------------------------------------------------------------------
(* Types of the page *)

Suggestion == [status : Decided \cup {"pending"}, title : Titles]

PageOK ==
    /\ DetailsOK
    /\ suggestions \in Seq(Suggestion)
    /\ title \in 0 .. Len(suggestions)
    /\ redelivered \in Nat
    /\ agent \in {Asleep, [pc |-> "ack"]}
                 \cup {Think(n) : n \in Nat}
                 \cup {[pc |-> "create", title |-> t] : t \in Titles}
    /\ \A w \in Writer : write[w].pc = "meta" => write[w].found \in DOMAIN suggestions

LEMMA AgentKinds ==
  ASSUME PageOK
  PROVE  /\ agent = Asleep <=> agent.pc = "asleep"
         /\ agent.pc = "create" => agent.title \in Titles
         /\ agent.pc \in {"asleep", "ack", "think", "create"}
         /\ agent.pc = "think" => agent.round \in Nat
  BY DEF PageOK, Asleep, Think

LEMMA DecideType ==
  ASSUME suggestions \in Seq(Suggestion), NEW status \in Decided, Decide(status)
  PROVE  /\ suggestions' \in Seq(Suggestion)
         /\ Len(suggestions') = Len(suggestions)
         /\ DOMAIN suggestions' = DOMAIN suggestions
         /\ \A k \in DOMAIN suggestions :
               /\ suggestions'[k].status # "pending"
               /\ suggestions'[k].title = suggestions[k].title
<1> DEFINE n == Len(suggestions)
<1>1. n \in Nat /\ DOMAIN suggestions = 1 .. n
  OBVIOUS
<1>2. suggestions' = [k \in 1 .. n |-> IF suggestions[k].status = "pending"
                                       THEN [suggestions[k] EXCEPT !.status = status]
                                       ELSE suggestions[k]]
  BY <1>1 DEF Decide
<1>3. \A k \in 1 .. n : suggestions[k] \in Suggestion
  OBVIOUS
<1> HIDE DEF n
<1>4. ASSUME NEW k \in 1 .. n
      PROVE  /\ suggestions'[k] \in Suggestion
             /\ suggestions'[k].status # "pending"
             /\ suggestions'[k].title = suggestions[k].title
  BY <1>2, <1>3 DEF Suggestion, Decided
<1>5. suggestions' \in [1 .. n -> Suggestion]
  BY <1>2, <1>4
<1>6. suggestions' \in Seq(Suggestion) /\ Len(suggestions') = n
  BY <1>1, <1>5
<1> QED
  BY <1>1, <1>4, <1>5, <1>6 DEF n

LEMMA AddType ==
  ASSUME suggestions \in Seq(Suggestion), NEW s \in Suggestion,
         suggestions' = Append(suggestions, s)
  PROVE  /\ suggestions' \in Seq(Suggestion)
         /\ Len(suggestions') = Len(suggestions) + 1
         /\ DOMAIN suggestions' = DOMAIN suggestions \cup {Len(suggestions) + 1}
         /\ \A k \in DOMAIN suggestions : suggestions'[k] = suggestions[k]
  OBVIOUS

(* A request of the author keeps the detail in order. *)
LEMMA AuthorDetail ==
  ASSUME DetailsOK, NEW w \in Writer, Confirm(w) \/ GetByVideoID(w) \/ UpdateVideoMeta(w)
  PROVE  DetailsOK'
<1>0. ReadsOK /\ CachesOK /\ WritesOK
  BY PartsOfType
<1>p. ReadsOK' /\ CachesOK' /\ WritesOK' => DetailsOK'
  BY DEF DetailsOK, DetailTypeOK, ReadsOK, CachesOK, WritesOK
<1>r. UNCHANGED read => ReadsOK'
  BY <1>0 DEF ReadsOK, ReadOK, Carries
<1>1. CASE Confirm(w)
  <2>1. CachesOK' /\ UNCHANGED read
    BY <1>0, <1>1 DEF Confirm, rowVars, l1Vars, l2Vars, lockVars, CachesOK
  <2>2. WritesOK'
    BY <1>0, <1>1 DEF Confirm, Goto, WritesOK, WriteState
  <2> QED
    BY <1>p, <1>r, <2>1, <2>2
<1>2. CASE GetByVideoID(w)
  <2>1. CachesOK' /\ UNCHANGED read
    BY <1>0, <1>2 DEF GetByVideoID, rowVars, l1Vars, l2Vars, lockVars, CachesOK
  <2>2. WritesOK'
    <3>1. CASE Return(w)
      BY <1>0, <3>1, WritesMove
    <3>2. CASE write' = [write EXCEPT ![w] = [pc |-> "meta", found |-> Len(suggestions)]]
      <4>1. [pc |-> "meta", found |-> Len(suggestions)] \in WriteState
        BY DEF WriteState
      <4> QED
        BY <1>0, <3>2, <4>1 DEF WritesOK
    <3> QED
      BY <1>2, <3>1, <3>2 DEF GetByVideoID
  <2> QED
    BY <1>p, <1>r, <2>1, <2>2
<1>3. CASE UpdateVideoMeta(w)
  <2>1. WritesOK'
    BY <1>0, <1>3, WritesMove DEF UpdateVideoMeta
  <2>2. CASE Changed(w)
    <3>1. deleted' \in BOOLEAN
      BY <1>0, <1>3 DEF UpdateVideoMeta, CachesOK
    <3> QED
      BY <1>0, <1>p, <1>r, <2>1, <2>2, <3>1, RowChanges DEF Changed
  <2>3. CASE UNCHANGED <<version, l1Vars, l2Vars, lockVars, read, overtaken>>
    <3>1. CachesOK' /\ UNCHANGED read
      BY <1>0, <1>3, <2>3 DEF UpdateVideoMeta, l1Vars, l2Vars, lockVars, CachesOK
    <3> QED
      BY <1>p, <1>r, <2>1, <3>1
  <2> QED
    BY <1>3, <2>2, <2>3 DEF UpdateVideoMeta
<1> QED
  BY <1>1, <1>2, <1>3

(* Every other step leaves the rows of suggestions, or adds one. *)
AgentSteps == PublishAnalyze \/ Deliver \/ AgentStep \/ AgentCrash

LEMMA AgentStepFacts ==
  ASSUME PageOK, AgentSteps
  PROVE  /\ UNCHANGED <<detailVars, title>>
         /\ \/ UNCHANGED <<suggestions, slipped>>
            \/ AgentCreate
  BY DEF AgentSteps, AgentStep, PublishAnalyze, Deliver, Ask, AskFails, AgentCreate,
     CreateFails, Ack, AgentCrash, Requeue

LEMMA AgentCreates ==
  ASSUME PageOK, AgentCreate
  PROVE  /\ suggestions' \in Seq(Suggestion)
         /\ Len(suggestions') = Len(suggestions) + 1
         /\ DOMAIN suggestions' = DOMAIN suggestions \cup {Len(suggestions) + 1}
         /\ \A k \in DOMAIN suggestions : suggestions'[k] = suggestions[k]
<1> DEFINE s == [status |-> "pending", title |-> agent.title]
<1>1. s \in Suggestion
  BY AgentKinds DEF AgentCreate, Suggestion
<1>2. suggestions' = Append(suggestions, s) /\ suggestions \in Seq(Suggestion)
  BY DEF AgentCreate, PageOK
<1> HIDE DEF s
<1> QED
  BY <1>1, <1>2, AddType

LEMMA PageInit == Init => PageOK
<1> SUFFICES ASSUME Init PROVE PageOK
  OBVIOUS
<1>1. DetailsOK
  BY TypeInit DEF Init
<1>2. \A w \in Writer : write[w].pc # "meta"
  BY DEF Init, DetailInit, Idle
<1>3. suggestions = << >> /\ title = 0 /\ redelivered = 0 /\ agent = Asleep
  BY DEF Init, SuggestionsInit, Own
<1>4. Len(<< >>) = 0
  OBVIOUS
<1> QED
  BY <1>1, <1>2, <1>3, <1>4 DEF PageOK

LEMMA DetailsOfPage ==
  ASSUME PageOK, [Next]_vars
  PROVE  DetailsOK'
<1>1. DetailsOK
  BY DEF PageOK
<1>2. CASE [DetailNext]_detailVars
  BY <1>1, <1>2, TypeStep
<1>3. CASE UNCHANGED vars
  BY <1>2, <1>3 DEF vars
<1>4. CASE AgentSteps \/ Reject
  BY <1>2, <1>4, AgentStepFacts DEF Reject
<1>5. ASSUME NEW w \in Writer, Confirm(w) \/ GetByVideoID(w) \/ UpdateVideoMeta(w)
      PROVE  DetailsOK'
  BY <1>1, <1>5, AuthorDetail
<1> QED
  BY <1>2, <1>3, <1>4, <1>5 DEF Next, SuggestionsNext, AgentSteps

(* What the agent, the event and the count of redeliveries may be. *)
LEMMA AgentType ==
  ASSUME PageOK, [Next]_vars
  PROVE  /\ redelivered' \in Nat
         /\ agent' \in {Asleep, [pc |-> "ack"]}
                       \cup {Think(n) : n \in Nat}
                       \cup {[pc |-> "create", title |-> t] : t \in Titles}
<1> DEFINE Goal == /\ redelivered' \in Nat
                   /\ agent' \in {Asleep, [pc |-> "ack"]}
                                 \cup {Think(n) : n \in Nat}
                                 \cup {[pc |-> "create", title |-> t] : t \in Titles}
<1>1. ASSUME UNCHANGED <<agent, redelivered>> PROVE Goal
  BY <1>1 DEF PageOK
<1>2. ASSUME redelivered' = redelivered \/ redelivered' = redelivered + 1,
             agent' = Asleep \/ agent' = [pc |-> "ack"]
      PROVE  Goal
  BY <1>2 DEF PageOK
<1>3. ASSUME Deliver PROVE Goal
  BY <1>3 DEF Deliver, PageOK
<1>4. ASSUME Ask PROVE Goal
  <2>1. CASE agent' = Think(agent.round + 1)
    <3>1. agent.round + 1 \in Nat
      BY <1>4, AgentKinds DEF Ask
    <3> QED
      BY <1>4, <2>1, <3>1 DEF Ask, PageOK
  <2>2. CASE Concluded
    BY <1>4, <2>2 DEF Ask, Concluded, PageOK
  <2> QED
    BY <1>4, <2>1, <2>2 DEF Ask
<1> HIDE DEF Goal
<1>5. ASSUME AskFails \/ CreateFails \/ AgentCrash PROVE Goal
  BY <1>2, <1>5 DEF AskFails, CreateFails, AgentCrash, Requeue
<1>6. ASSUME AgentCreate \/ Ack PROVE Goal
  BY <1>2, <1>6 DEF AgentCreate, Ack
<1>7. ASSUME PublishAnalyze PROVE Goal
  BY <1>1, <1>7 DEF PublishAnalyze
<1>8. ASSUME NEW w \in Writer, Confirm(w) \/ GetByVideoID(w) \/ UpdateVideoMeta(w) PROVE Goal
  BY <1>1, <1>8 DEF Confirm, GetByVideoID, UpdateVideoMeta, suggestionVars, agentVars
<1>9. ASSUME Reject PROVE Goal
  BY <1>1, <1>9 DEF Reject, agentVars
<1>10. ASSUME UNCHANGED suggestionVars PROVE Goal
  BY <1>1, <1>10 DEF suggestionVars, agentVars
<1>11. UNCHANGED vars => Goal
  BY <1>10 DEF vars
<1> QED
  BY <1>3, <1>4, <1>5, <1>6, <1>7, <1>8, <1>9, <1>10, <1>11
     DEF Next, SuggestionsNext, AgentStep, Goal

(***************************************************************************)
(* What makes PendingNotShown inductive: between the two statements of a   *)
(* Confirm only rows that slipped in are pending, and the row it has found *)
(* is decided, or slipped in.                                              *)
(***************************************************************************)
Undecided(k) == suggestions[k].status = "pending" /\ k \notin slipped

WriterDecided(w) ==
    /\ write[w].pc = "meta" =>
          write[w].found \in DOMAIN suggestions /\ ~Undecided(write[w].found)
    /\ write[w].pc = "newest" => \A k \in DOMAIN suggestions : ~Undecided(k)

TitleDecided ==
    /\ title # Own => title \in DOMAIN suggestions /\ ~Undecided(title)
    /\ \A w \in Writer : WriterDecided(w)

(* The parts of PageOK and of TitleDecided about the rows, in one step. *)
RowsKept ==
    /\ suggestions' \in Seq(Suggestion)
    /\ Len(suggestions') >= Len(suggestions)
    /\ slipped \subseteq slipped'
    /\ \A k \in DOMAIN suggestions :
          k \in DOMAIN suggestions'
          /\ (suggestions'[k].status = "pending" => suggestions[k].status = "pending")

WritesKept == \A w \in Writer : Deciding(w)' => write'[w] = write[w] \/ WriterDecided(w)'

LEMMA RowsUnchanged ==
  ASSUME PageOK, UNCHANGED <<suggestions, slipped>>
  PROVE  RowsKept /\ DOMAIN suggestions' = DOMAIN suggestions
<1>1. Len(suggestions) \in Nat
  BY DEF PageOK
<1> QED
  BY <1>1 DEF RowsKept, PageOK

(* A row added while a Confirm is between its statements has slipped in. *)
AddedSlip ==
    \A k \in DOMAIN suggestions' : k \in DOMAIN suggestions \/ k \in slipped' \/ ~Confirming

LEMMA PageMoves ==
  ASSUME PageOK, TitleDecided, DetailsOK', RowsKept, WritesKept, AddedSlip,
         redelivered' \in Nat,
         agent' \in {Asleep, [pc |-> "ack"]}
                    \cup {Think(n) : n \in Nat}
                    \cup {[pc |-> "create", title |-> t] : t \in Titles},
         \/ title' \in {title, Own}
         \/ \E k \in DOMAIN suggestions' : title' = k /\ ~Undecided(k)'
  PROVE  PageOK' /\ TitleDecided'
<1>1. ASSUME NEW k \in DOMAIN suggestions, ~Undecided(k)
      PROVE  k \in DOMAIN suggestions' /\ ~Undecided(k)'
  BY <1>1 DEF Undecided, RowsKept
<1>2. ASSUME NEW w \in Writer PROVE WriterDecided(w)'
  <2>1. CASE write'[w] = write[w]
    <3>1. ASSUME write'[w].pc = "meta"
          PROVE  write'[w].found \in DOMAIN suggestions' /\ ~Undecided(write[w].found)'
      <4>1. PICK k \in DOMAIN suggestions : k = write[w].found /\ ~Undecided(k)
        BY <2>1, <3>1 DEF TitleDecided, WriterDecided
      <4> QED
        BY <1>1, <2>1, <4>1 DEF Undecided
    <3>2. ASSUME write'[w].pc = "newest", NEW k \in DOMAIN suggestions' PROVE ~Undecided(k)'
      <4>1. Confirming
        BY <2>1, <3>2 DEF Confirming
      <4>2. CASE k \in DOMAIN suggestions
        BY <1>1, <2>1, <3>2, <4>2 DEF TitleDecided, WriterDecided
      <4>3. CASE k \in slipped'
        BY <4>3 DEF Undecided
      <4> QED
        BY <4>1, <4>2, <4>3 DEF AddedSlip
    <3> QED
      BY <3>1, <3>2 DEF WriterDecided, Undecided
  <2>2. CASE WriterDecided(w)'
    BY <2>2
  <2>3. CASE ~Deciding(w)'
    BY <2>3 DEF Deciding, WriterDecided
  <2> QED
    BY <2>1, <2>2, <2>3 DEF WritesKept
<1>3. title' # Own => \E k \in DOMAIN suggestions' : title' = k /\ ~Undecided(k)'
  <2>1. CASE title' = title /\ title # Own
    <3>1. PICK k \in DOMAIN suggestions : k = title /\ ~Undecided(k)
      BY <2>1 DEF TitleDecided
    <3> QED
      BY <1>1, <2>1, <3>1
  <2> QED
    BY <2>1
<1>4. title' \in 0 .. Len(suggestions')
  <2>1. Len(suggestions') \in Nat /\ DOMAIN suggestions' = 1 .. Len(suggestions')
    BY DEF RowsKept
  <2> QED
    BY <1>3, <2>1 DEF Own
<1>5. TitleDecided'
  BY <1>2, <1>3 DEF TitleDecided, Undecided
<1>6. \A w \in Writer : write'[w].pc = "meta" => write'[w].found \in DOMAIN suggestions'
  BY <1>2 DEF WriterDecided
<1> QED
  BY <1>4, <1>5, <1>6 DEF PageOK, RowsKept

LEMMA DecideRows ==
  ASSUME PageOK, NEW status \in Decided, Decide(status), UNCHANGED slipped
  PROVE  RowsKept /\ AddedSlip /\ \A k \in DOMAIN suggestions' : ~Undecided(k)'
<1>1. suggestions \in Seq(Suggestion) /\ Len(suggestions) \in Nat
  BY DEF PageOK
<1> QED
  BY <1>1, DecideType DEF RowsKept, AddedSlip, Undecided

LEMMA PageStep == PageOK /\ TitleDecided /\ [Next]_vars => PageOK' /\ TitleDecided'
<1> SUFFICES ASSUME PageOK, TitleDecided, [Next]_vars PROVE PageOK' /\ TitleDecided'
  OBVIOUS
<1> DEFINE Ready == RowsKept /\ WritesKept /\ AddedSlip
           Title == \/ title' \in {title, Own}
                    \/ \E k \in DOMAIN suggestions' : title' = k /\ ~Undecided(k)'
<1>1. Ready /\ Title => PageOK' /\ TitleDecided'
  BY DetailsOfPage, AgentType, PageMoves
<1>2. /\ suggestions \in Seq(Suggestion) /\ Len(suggestions) \in Nat
      /\ DetailsOK /\ WritesOK
  BY PartsOfType DEF PageOK
<1>3. UNCHANGED <<suggestions, slipped>> => RowsKept /\ AddedSlip
  BY RowsUnchanged DEF AddedSlip
<1>4. ASSUME [DetailNext]_detailVars, UNCHANGED suggestionVars PROVE Ready /\ Title
  <2>1. WritesKept
    BY <1>2, <1>4, DetailKeepsDeciding DEF WritesKept
  <2> QED
    BY <1>3, <1>4, <2>1 DEF suggestionVars
<1>5. ASSUME AgentSteps PROVE Ready /\ Title
  <2>1. UNCHANGED <<write, title>>
    BY <1>5, AgentStepFacts DEF detailVars
  <2>2. WritesKept
    BY <2>1 DEF WritesKept
  <2>3. CASE AgentCreate
    <3>1. slipped' = IF Confirming THEN slipped \cup {Len(suggestions) + 1} ELSE slipped
      BY <2>3 DEF AgentCreate
    <3>2. /\ suggestions' \in Seq(Suggestion)
          /\ Len(suggestions') = Len(suggestions) + 1
          /\ DOMAIN suggestions' = DOMAIN suggestions \cup {Len(suggestions) + 1}
          /\ \A k \in DOMAIN suggestions : suggestions'[k] = suggestions[k]
      BY <2>3, AgentCreates
    <3>3. RowsKept
      BY <1>2, <3>1, <3>2 DEF RowsKept
    <3>4. AddedSlip
      BY <3>1, <3>2 DEF AddedSlip
    <3> QED
      BY <2>1, <2>2, <3>3, <3>4
  <2> QED
    BY <1>3, <1>5, <2>1, <2>2, <2>3, AgentStepFacts
<1>6. ASSUME Reject PROVE Ready /\ Title
  <2>1. UNCHANGED <<write, title, slipped>> /\ Decide("rejected")
    BY <1>6 DEF Reject, detailVars
  <2> QED
    BY <2>1, DecideRows DEF Decided, WritesKept
<1>7. ASSUME NEW w \in Writer, Confirm(w) PROVE Ready /\ Title
  <2>1. /\ UNCHANGED <<title, slipped>> /\ Decide("confirmed") /\ Goto(w, "newest")
    BY <1>7 DEF Confirm
  <2>2. /\ write'[w] = [pc |-> "newest", found |-> 0]
        /\ \A x \in Writer : x # w => write'[x] = write[x]
    BY <1>2, <2>1, GotoWrites
  <2>3. RowsKept /\ AddedSlip /\ \A k \in DOMAIN suggestions' : ~Undecided(k)'
    BY <2>1, DecideRows DEF Decided
  <2>4. write'[w].pc = "newest"
    BY <2>2
  <2>5. WriterDecided(w)'
    BY <2>3, <2>4 DEF WriterDecided
  <2>6. WritesKept
    BY <2>2, <2>5 DEF WritesKept
  <2> QED
    BY <2>1, <2>3, <2>6
<1>8. ASSUME NEW w \in Writer, GetByVideoID(w) PROVE Ready /\ Title
  <2>1. /\ UNCHANGED <<suggestions, slipped, title>>
        /\ write[w].pc = "newest"
    BY <1>8 DEF GetByVideoID, suggestionVars
  <2>2. CASE Return(w)
    <3>1. write'[w] = Idle /\ \A x \in Writer : x # w => write'[x] = write[x]
      BY <1>2, <2>2, ReturnWrites
    <3>2. ~Deciding(w)'
      BY <3>1 DEF Deciding, Idle
    <3> QED
      BY <1>3, <2>1, <3>1, <3>2 DEF WritesKept
  <2>3. CASE /\ Len(suggestions) # 0
             /\ write' = [write EXCEPT ![w] = [pc |-> "meta", found |-> Len(suggestions)]]
    <3>1. /\ write'[w] = [pc |-> "meta", found |-> Len(suggestions)]
          /\ \A x \in Writer : x # w => write'[x] = write[x]
      BY <1>2, <2>3 DEF WritesOK
    <3>2. Len(suggestions) \in DOMAIN suggestions
      BY <1>2, <2>3
    <3>3. ~Undecided(Len(suggestions))
      BY <2>1, <3>2 DEF TitleDecided, WriterDecided
    <3>4. write'[w].pc = "meta" /\ write'[w].found = Len(suggestions)
      BY <3>1
    <3>5. WriterDecided(w)'
      BY <2>1, <3>2, <3>3, <3>4 DEF WriterDecided, Undecided
    <3>6. WritesKept
      BY <3>1, <3>5 DEF WritesKept
    <3> QED
      BY <1>3, <2>1, <3>6
  <2> QED
    BY <1>8, <2>2, <2>3 DEF GetByVideoID
<1>9. ASSUME NEW w \in Writer, UpdateVideoMeta(w) PROVE Ready /\ Title
  <2>1. /\ UNCHANGED <<suggestions, slipped>>
        /\ write[w].pc = "meta"
        /\ \/ title' \in {title, Own}
           \/ title' = write[w].found
        /\ Goto(w, "delL1") \/ Return(w)
    BY <1>9 DEF UpdateVideoMeta
  <2>2. PICK k \in DOMAIN suggestions : write[w].found = k /\ ~Undecided(k)
    BY <2>1 DEF TitleDecided, WriterDecided
  <2>3. Title
    BY <2>1, <2>2 DEF Undecided
  <2>4. /\ write'[w] \in {Idle, [pc |-> "delL1", found |-> 0]}
        /\ \A x \in Writer : x # w => write'[x] = write[x]
    BY <1>2, <2>1, GotoWrites, ReturnWrites
  <2>5. ~Deciding(w)'
    BY <2>4 DEF Deciding, Idle
  <2>6. WritesKept
    BY <2>4, <2>5 DEF WritesKept
  <2> QED
    BY <1>3, <2>1, <2>3, <2>6
<1>10. ASSUME UNCHANGED vars PROVE Ready /\ Title
  BY <1>4, <1>10 DEF vars
<1> HIDE DEF Ready, Title
<1> QED
  BY <1>1, <1>4, <1>5, <1>6, <1>7, <1>8, <1>9, <1>10 DEF Next, SuggestionsNext, AgentSteps

(***************************************************************************)
(* No suggestion the author has not decided on becomes the title, except   *)
(* one that the worker adds between the two statements of a Confirm, with  *)
(* any number of requests and redeliveries.                                *)
(***************************************************************************)
THEOREM PendingIsNotShown == Spec => []PendingNotShown
<1>1. Init => PageOK
  BY PageInit
<1>2. Init => TitleDecided
  BY DEF Init, DetailInit, SuggestionsInit, TitleDecided, WriterDecided, Idle
<1>3. TitleDecided => PendingNotShown
  BY DEF TitleDecided, Undecided, PendingNotShown
<1> QED
  BY <1>1, <1>2, <1>3, PageStep, PTL DEF Spec

-----------------------------------------------------------------------------
(***************************************************************************)
(* What makes SuggestionsLand inductive: the worker holds the event, or is *)
(* asleep; and the row that this delivery may still add is allowed for.    *)
(***************************************************************************)
RowDue == event \in {"none", "queued"} \/ agent.pc \in {"think", "create"}

EventFollows ==
    /\ agent # Asleep <=> event = "delivered"
    /\ Len(suggestions) <= redelivered + 1
    /\ RowDue => Len(suggestions) <= redelivered
    /\ event = "acked" \/ agent.pc = "ack" => suggestions # << >>

LEMMA EventStep == PageOK /\ PageOK' /\ EventFollows /\ [Next]_vars => EventFollows'
<1> SUFFICES ASSUME PageOK, PageOK', EventFollows, [Next]_vars PROVE EventFollows'
  OBVIOUS
<1>1. Len(suggestions) \in Nat /\ redelivered \in Nat /\ suggestions \in Seq(Suggestion)
  BY DEF PageOK
<1>2. agent = Asleep <=> agent.pc = "asleep"
  BY AgentKinds
<1>3. ASSUME UNCHANGED agentVars, Len(suggestions') = Len(suggestions),
             suggestions # << >> => suggestions' # << >>
      PROVE  EventFollows'
  BY <1>3 DEF EventFollows, RowDue, agentVars
<1>4. ASSUME UNCHANGED <<agentVars, suggestions>> PROVE EventFollows'
  BY <1>3, <1>4
<1>5. ASSUME PublishAnalyze PROVE EventFollows'
  BY <1>1, <1>2, <1>5 DEF PublishAnalyze, EventFollows, RowDue
<1>6. ASSUME Deliver PROVE EventFollows'
  BY <1>1, <1>6 DEF Deliver, EventFollows, RowDue, Asleep, Think
<1>7. ASSUME Ask PROVE EventFollows'
  <2>1. UNCHANGED <<event, suggestions, redelivered>> /\ agent.pc = "think"
    BY <1>7 DEF Ask
  <2>2. agent'.pc \in {"think", "create"}
    BY <1>7 DEF Ask, Concluded, Think
  <2>3. agent' # Asleep
    BY <2>2 DEF Asleep
  <2> QED
    BY <1>2, <2>1, <2>2, <2>3 DEF EventFollows, RowDue
<1>8. ASSUME Requeue, agent # Asleep PROVE EventFollows'
  BY <1>1, <1>8 DEF Requeue, EventFollows, RowDue, Asleep
<1>9. ASSUME AgentCreate PROVE EventFollows'
  <2>1. agent'.pc = "ack" /\ agent' # Asleep /\ UNCHANGED <<event, redelivered>>
    BY <1>9 DEF AgentCreate, Asleep
  <2>2. Len(suggestions') = Len(suggestions) + 1 /\ suggestions' \in Seq(Suggestion)
    BY <1>9, AgentCreates
  <2>3. suggestions' # << >>
    BY <1>1, <2>2
  <2>4. agent.pc = "create"
    BY <1>9 DEF AgentCreate
  <2> QED
    BY <1>1, <1>2, <2>1, <2>2, <2>3, <2>4 DEF EventFollows, RowDue
<1>10. ASSUME Ack PROVE EventFollows'
  BY <1>1, <1>10 DEF Ack, EventFollows, RowDue, Asleep
<1>11. ASSUME NEW status \in Decided, Decide(status), UNCHANGED agentVars PROVE EventFollows'
  <2>1. Len(suggestions') = Len(suggestions) /\ suggestions' \in Seq(Suggestion)
    BY <1>1, <1>11, DecideType
  <2>2. suggestions # << >> => suggestions' # << >>
    BY <1>1, <2>1
  <2> QED
    BY <1>3, <1>11, <2>1, <2>2
<1>12. ASSUME NEW w \in Writer, Confirm(w) PROVE EventFollows'
  BY <1>11, <1>12 DEF Confirm, Decided
<1>13. ASSUME Reject PROVE EventFollows'
  BY <1>11, <1>13 DEF Reject, Decided
<1>14. ASSUME NEW w \in Writer, GetByVideoID(w) \/ UpdateVideoMeta(w) PROVE EventFollows'
  BY <1>4, <1>14 DEF GetByVideoID, UpdateVideoMeta, suggestionVars
<1>15. ASSUME AskFails \/ CreateFails \/ AgentCrash PROVE EventFollows'
  BY <1>2, <1>8, <1>15 DEF AskFails, CreateFails, AgentCrash
<1>16. ASSUME UNCHANGED suggestionVars PROVE EventFollows'
  BY <1>4, <1>16 DEF suggestionVars
<1>17. ASSUME UNCHANGED vars PROVE EventFollows'
  BY <1>16, <1>17 DEF vars
<1> QED
  BY <1>5, <1>6, <1>7, <1>9, <1>10, <1>12, <1>13, <1>14, <1>15, <1>16, <1>17
     DEF Next, SuggestionsNext, AgentStep

(***************************************************************************)
(* What the types of the suggestions need beside PageOK and EventFollows.  *)
(***************************************************************************)
PageBounds ==
    /\ event \in {"none", "lost", "queued", "delivered", "acked"}
    /\ agent.pc = "think" => agent.round < MaxRounds
    /\ redelivered <= MaxRedelivered
    /\ slipped \subseteq DOMAIN suggestions

LEMMA BoundsStep == PageOK /\ PageBounds /\ [Next]_vars => PageBounds'
<1> SUFFICES ASSUME PageOK, PageBounds, [Next]_vars PROVE PageBounds'
  OBVIOUS
<1>0. /\ suggestions \in Seq(Suggestion) /\ redelivered \in Nat
      /\ MaxRounds \in Nat \ {0} /\ MaxRedelivered \in Nat
      /\ Asleep.pc = "asleep"
  BY SuggestionsAssumption DEF PageOK, Asleep
<1>1. ASSUME UNCHANGED agentVars, slipped' = slipped, DOMAIN suggestions' = DOMAIN suggestions
      PROVE  PageBounds'
  BY <1>1 DEF PageBounds, agentVars
<1>2. ASSUME PublishAnalyze PROVE PageBounds'
  BY <1>2 DEF PublishAnalyze, PageBounds
<1>3. ASSUME Deliver PROVE PageBounds'
  <2>1. agent'.pc = "think" /\ agent'.round = 0
    BY <1>3 DEF Deliver, Think
  <2>2. 0 < MaxRounds
    BY <1>0
  <2> QED
    BY <1>3, <2>1, <2>2 DEF Deliver, PageBounds
<1>4. ASSUME Ask PROVE PageBounds'
  <2>1. agent'.pc = "think" => agent'.round < MaxRounds
    <3>1. CASE agent.round + 1 < MaxRounds /\ agent' = Think(agent.round + 1)
      BY <3>1 DEF Think
    <3>2. CASE Concluded
      BY <3>2 DEF Concluded
    <3> QED
      BY <1>4, <3>1, <3>2 DEF Ask
  <2> QED
    BY <1>4, <2>1 DEF Ask, PageBounds
<1>5. ASSUME Requeue PROVE PageBounds'
  <2>1. redelivered' <= MaxRedelivered
    BY <1>0, <1>5 DEF Requeue
  <2> QED
    BY <1>0, <1>5, <2>1 DEF Requeue, PageBounds
<1>6. ASSUME AgentCreate PROVE PageBounds'
  <2>1. DOMAIN suggestions' = DOMAIN suggestions \cup {Len(suggestions) + 1}
    BY <1>6, AgentCreates
  <2>2. slipped' \subseteq slipped \cup {Len(suggestions) + 1}
    BY <1>6 DEF AgentCreate
  <2>3. agent'.pc = "ack"
    BY <1>6 DEF AgentCreate
  <2> QED
    BY <1>6, <2>1, <2>2, <2>3 DEF AgentCreate, PageBounds
<1>7. ASSUME Ack PROVE PageBounds'
  BY <1>0, <1>7 DEF Ack, PageBounds
<1>8. ASSUME NEW w \in Writer, Confirm(w) PROVE PageBounds'
  <2>1. DOMAIN suggestions' = DOMAIN suggestions
    BY <1>0, <1>8, DecideType DEF Confirm, Decided
  <2> QED
    BY <1>1, <1>8, <2>1 DEF Confirm
<1>9. ASSUME NEW w \in Writer, GetByVideoID(w) \/ UpdateVideoMeta(w) PROVE PageBounds'
  BY <1>1, <1>9 DEF GetByVideoID, UpdateVideoMeta, suggestionVars
<1>10. ASSUME Reject PROVE PageBounds'
  <2>1. DOMAIN suggestions' = DOMAIN suggestions
    BY <1>0, <1>10, DecideType DEF Reject, Decided
  <2> QED
    BY <1>1, <1>10, <2>1 DEF Reject
<1>11. ASSUME UNCHANGED suggestionVars PROVE PageBounds'
  BY <1>1, <1>11 DEF suggestionVars
<1> QED
  BY <1>2, <1>3, <1>4, <1>5, <1>6, <1>7, <1>8, <1>9, <1>10, <1>11
     DEF Next, SuggestionsNext, AgentStep, AskFails, CreateFails, AgentCrash, vars

(***************************************************************************)
(* The detail, the rows of suggestions and the worker keep their types:    *)
(* the model is asked MaxRounds times at most for one delivery, and the    *)
(* title is the author's or that of a row (orchestrationworker.go process, *)
(* ai_suggestion.go Confirm).                                              *)
(***************************************************************************)
THEOREM PageTypeCorrect == Spec => []TypeOK
<1>1. Init => PageOK
  BY PageInit
<1>2. Init => TitleDecided
  BY DEF Init, DetailInit, SuggestionsInit, TitleDecided, WriterDecided, Idle
<1>3. Init => EventFollows /\ PageBounds
  <2> SUFFICES ASSUME Init PROVE EventFollows /\ PageBounds
    OBVIOUS
  <2>1. /\ event = "none" /\ agent = Asleep /\ suggestions = << >> /\ redelivered = 0
        /\ slipped = {}
    BY DEF Init, SuggestionsInit
  <2>2. Len(<< >>) = 0 /\ Asleep.pc = "asleep"
    BY DEF Asleep
  <2> QED
    BY <2>1, <2>2, SuggestionsAssumption DEF EventFollows, RowDue, PageBounds
<1>4. PageOK /\ EventFollows /\ PageBounds => TypeOK
  <2> SUFFICES ASSUME PageOK, EventFollows, PageBounds PROVE TypeOK
    OBVIOUS
  <2>1. redelivered \in Nat /\ Len(suggestions) \in Nat /\ MaxRounds \in Nat /\ MaxRedelivered \in Nat
    BY SuggestionsAssumption DEF PageOK
  <2>2. redelivered \in 0 .. MaxRedelivered /\ Len(suggestions) <= MaxRedelivered + 1
    BY <2>1 DEF EventFollows, PageBounds
  <2>3. agent \in {Asleep, [pc |-> "ack"]}
                  \cup {Think(n) : n \in 0 .. MaxRounds - 1}
                  \cup {[pc |-> "create", title |-> t] : t \in Titles}
    <3>1. ASSUME NEW n \in Nat, agent = Think(n) PROVE n \in 0 .. MaxRounds - 1
      <4>1. agent.pc = "think" /\ agent.round = n
        BY <3>1 DEF Think
      <4> QED
        BY <2>1, <4>1 DEF PageBounds
    <3> QED
      BY <3>1 DEF PageOK
  <2>4. DetailTypeOK
    BY DEF PageOK, DetailsOK
  <2> QED
    BY <2>2, <2>3, <2>4 DEF PageOK, PageBounds, Suggestion, TypeOK, SuggestionsTypeOK
<1> QED
  BY <1>1, <1>2, <1>3, <1>4, PageStep, EventStep, BoundsStep, PTL DEF Spec

(***************************************************************************)
(* A settled analyze event has left a suggestion, and as many suggestions  *)
(* as there are deliveries are the most an event leaves, whenever the      *)
(* worker stops.                                                           *)
(***************************************************************************)
THEOREM SuggestionsDoLand == Spec => []SuggestionsLand
<1>1. Init => PageOK
  BY PageInit
<1>2. Init => TitleDecided
  BY DEF Init, DetailInit, SuggestionsInit, TitleDecided, WriterDecided, Idle
<1>3. Init => EventFollows
  <2> SUFFICES ASSUME Init PROVE EventFollows
    OBVIOUS
  <2>1. /\ event = "none" /\ agent = Asleep /\ suggestions = << >> /\ redelivered = 0
    BY DEF Init, SuggestionsInit
  <2>2. Len(<< >>) = 0 /\ Asleep.pc = "asleep"
    BY DEF Asleep
  <2> QED
    BY <2>1, <2>2 DEF EventFollows, RowDue
<1>4. PageOK /\ EventFollows => SuggestionsLand
  <2> SUFFICES ASSUME PageOK, EventFollows PROVE SuggestionsLand
    OBVIOUS
  <2>1. Len(suggestions) \in Nat /\ redelivered \in Nat
    BY DEF PageOK
  <2> QED
    BY <2>1 DEF EventFollows, SuggestionsLand
<1> QED
  BY <1>1, <1>2, <1>3, <1>4, PageStep, EventStep, PTL DEF Spec

-----------------------------------------------------------------------------
(* A request of the author that has not come to the UPDATE of the video, or *)
(* whose UPDATE has failed, leaves the caches as fresh as they were.        *)
LEMMA AuthorStaysFresh ==
  ASSUME DetailsOK, CachesFresh, NEW w \in Writer,
         \A x \in Writer : x # w => write'[x] = write[x],
         ~(write[w].pc \in {"delL1", "delL2"}),
         UNCHANGED <<version, l1Vars, l2Vars, read, overtaken>>
  PROVE  CachesFresh'
<1>1. (Invalidating => Invalidating') /\ \A p \in Process : Telling(p) => Telling(p)'
  BY DEF Invalidating, Telling
<1>2. InTime'
  BY DEF CachesFresh, InTime, Carries
<1>3. RedisFresh' /\ ProcessesFresh'
  BY <1>1 DEF CachesFresh, RedisFresh, ProcessesFresh, l1Vars, l2Vars
<1> QED
  BY <1>2, <1>3 DEF CachesFresh

LEMMA PageFreshStep == PageOK /\ CachesFresh /\ [Next]_vars => CachesFresh'
<1> SUFFICES ASSUME PageOK, CachesFresh, [Next]_vars PROVE CachesFresh'
  OBVIOUS
<1>1. DetailsOK /\ WritesOK
  BY PartsOfType DEF PageOK
<1>2. UNCHANGED detailVars => CachesFresh'
  BY <1>1, FreshStep
<1>3. DetailNext => CachesFresh'
  BY <1>1, FreshStep
<1>4. AgentSteps => CachesFresh'
  BY <1>2, AgentStepFacts
<1>5. Reject => CachesFresh'
  BY <1>2 DEF Reject
<1>6. ASSUME NEW w \in Writer, Confirm(w) PROVE CachesFresh'
  <2>1. \A x \in Writer : x # w => write'[x] = write[x]
    BY <1>1, <1>6, GotoWrites DEF Confirm
  <2>2. ~(write[w].pc \in {"delL1", "delL2"})
    BY <1>6 DEF Confirm, Idle
  <2>3. UNCHANGED <<version, l1Vars, l2Vars, read, overtaken>>
    BY <1>6 DEF Confirm, rowVars
  <2> QED
    BY <1>1, <2>1, <2>2, <2>3, AuthorStaysFresh
<1>7. ASSUME NEW w \in Writer, GetByVideoID(w) PROVE CachesFresh'
  <2>1. \A x \in Writer : x # w => write'[x] = write[x]
    BY <1>1, <1>7, ReturnWrites DEF GetByVideoID, WritesOK
  <2>2. ~(write[w].pc \in {"delL1", "delL2"})
    BY <1>7 DEF GetByVideoID
  <2>3. UNCHANGED <<version, l1Vars, l2Vars, read, overtaken>>
    BY <1>7 DEF GetByVideoID, rowVars
  <2> QED
    BY <1>1, <2>1, <2>2, <2>3, AuthorStaysFresh
<1>8. ASSUME NEW w \in Writer, UpdateVideoMeta(w) PROVE CachesFresh'
  <2>1. CASE Changed(w) /\ Goto(w, "delL1")
    BY <1>1, <2>1, ChangeStaysFresh
  <2>2. CASE /\ Goto(w, "delL1") \/ Return(w)
             /\ UNCHANGED <<version, l1Vars, l2Vars, lockVars, read, overtaken>>
    <3>1. \A x \in Writer : x # w => write'[x] = write[x]
      BY <1>1, <2>2, GotoWrites, ReturnWrites
    <3>2. ~(write[w].pc \in {"delL1", "delL2"})
      BY <1>8 DEF UpdateVideoMeta
    <3> QED
      BY <1>1, <2>2, <3>1, <3>2, AuthorStaysFresh
  <2> QED
    BY <1>8, <2>1, <2>2 DEF UpdateVideoMeta
<1>9. UNCHANGED vars => CachesFresh'
  BY <1>2 DEF vars
<1> QED
  BY <1>3, <1>4, <1>5, <1>6, <1>7, <1>8, <1>9 DEF Next, SuggestionsNext, AgentSteps

(***************************************************************************)
(* The caches of the page keep an old row in the five ways named at        *)
(* StaleOnlyByRace only, also when the title is changed by a confirmed     *)
(* suggestion while the worker adds others (video_service.go               *)
(* ConfirmAISuggestion, invalidateCache).                                  *)
(***************************************************************************)
THEOREM PageStaleOnlyByRace == Spec => []StaleOnlyByRace
<1>1. Init => PageOK
  BY PageInit
<1>2. Init => TitleDecided
  BY DEF Init, DetailInit, SuggestionsInit, TitleDecided, WriterDecided, Idle
<1>3. Init => CachesFresh
  BY DEF Init, DetailInit, CachesFresh, InTime, RedisFresh, ProcessesFresh, Carries, Idle
<1>4. CachesFresh => StaleOnlyByRace
  BY FreshParts
<1> QED
  BY <1>1, <1>2, <1>3, <1>4, PageStep, PageFreshStep, PTL DEF Spec
=============================================================================
