----------------------------- MODULE Tokens_proofs -----------------------------
(***************************************************************************)
(* Theorems about Tokens: what the row and Redis hold of a session, for    *)
(* any number of requests, seconds, renames and password changes.          *)
(***************************************************************************)
EXTENDS Tokens, TLAPS

(* What the types leave open of a call under way. *)
CallOK(v) ==
    \/ v = Idle
    \/ /\ v \in CallState
       /\ v.pc \in {"get", "find", "fill"} => v.goal \in Goal
       /\ v.pc \in {"get", "find", "fill", "store", "cache"} => v.token \in Token
       /\ v.pc = "passwordStore" => v.goal = "changePassword"

CallsOK == TypeOK /\ \A c \in Caller : CallOK(call[c])

LEMMA TypeInit == Init => CallsOK
<1> USE TokensAssumption DEF TokensAssumption
<1> SUFFICES ASSUME Init PROVE CallsOK
  OBVIOUS
<1>1. /\ name \in 0 .. MaxName /\ password \in 0 .. MaxPassword
      /\ second \in 0 .. MaxSecond /\ opened \in Gone .. MaxPassword
  BY DEF Init, Gone
<1>2. call \in [Caller -> CallState \cup {Idle}] /\ \A c \in Caller : CallOK(call[c])
  BY DEF Init, CallOK
<1> QED
  BY <1>1, <1>2 DEF Init, CallsOK, TypeOK

(* One call changes. *)
LEMMA CallMoves ==
  ASSUME CallsOK, NEW c \in Caller, NEW v, CallOK(v), call' = [call EXCEPT ![c] = v]
  PROVE  call' \in [Caller -> CallState \cup {Idle}] /\ \A d \in Caller : CallOK(call[d])'
<1>1. v \in CallState \cup {Idle}
  BY DEF CallOK
<1>2. call \in [Caller -> CallState \cup {Idle}]
  BY DEF CallsOK, TypeOK
<1>3. call' \in [Caller -> CallState \cup {Idle}]
  BY <1>1, <1>2
<1>4. ASSUME NEW d \in Caller PROVE CallOK(call'[d])
  BY <1>2 DEF CallsOK
<1> QED
  BY <1>3, <1>4 DEF CallOK

(* A request past the check is answered or goes on; no check begins anew. *)
LEMMA AcceptedIs ==
  ASSUME CallsOK, NEW c \in Caller, call[c].pc \in {"get", "fill"},
         NEW p \in Gone .. MaxPassword, Accepted(c, p)
  PROVE  \E v : /\ CallOK(v)
                /\ call' = [call EXCEPT ![c] = v]
                /\ v.pc \in {"idle", "renameStore", "logoutFind"}
                /\ v = Idle \/ v.goal \in Goal
<1>1. call[c] \in CallState /\ call[c].goal \in Goal
  BY DEF CallsOK, CallOK, TypeOK, Idle
<1>2. CASE call[c].goal = "read"
  <2>1. call' = [call EXCEPT ![c] = Idle] /\ Idle.pc = "idle" /\ CallOK(Idle)
    BY <1>2 DEF Accepted, Return, Idle, CallOK
  <2> QED
    BY <2>1
<1>3. CASE call[c].goal = "rename"
  <2> DEFINE v == [call[c] EXCEPT !.pc = "renameStore", !.opened = p]
  <2>1. v \in CallState /\ v.pc = "renameStore" /\ v.goal = call[c].goal
    BY <1>1 DEF CallState
  <2>2. call' = [call EXCEPT ![c] = v]
    BY <1>3 DEF Accepted
  <2>3. CallOK(v)
    BY <2>1 DEF CallOK
  <2> HIDE DEF v
  <2> QED
    BY <1>1, <2>1, <2>2, <2>3
<1>4. CASE call[c].goal = "logout"
  <2> DEFINE v == [call[c] EXCEPT !.pc = "logoutFind"]
  <2>1. v \in CallState /\ v.pc = "logoutFind" /\ v.goal = call[c].goal
    BY <1>1 DEF CallState
  <2>2. call' = [call EXCEPT ![c] = v]
    BY <1>4 DEF Accepted, Goto
  <2>3. CallOK(v)
    BY <2>1 DEF CallOK
  <2> HIDE DEF v
  <2> QED
    BY <1>1, <2>1, <2>2, <2>3
<1> QED
  BY <1>1, <1>2, <1>3, <1>4 DEF Goal

LEMMA TypeStep == CallsOK /\ [Next]_vars => CallsOK'
<1> SUFFICES ASSUME CallsOK, [Next]_vars PROVE CallsOK'
  OBVIOUS
<1> USE TokensAssumption DEF TokensAssumption
<1>0. TypeOK /\ \A c \in Caller : CallOK(call[c])
  BY DEF CallsOK
<1>i. CallOK(Idle)
  BY DEF CallOK
<1>1. ASSUME NEW c \in Caller, NEW goal \in Goal, NEW t \in Token, Present(c, goal, t) PROVE CallsOK'
  <2> DEFINE v == [pc |-> "get", goal |-> goal, token |-> t, opened |-> Gone]
  <2>v. CallOK(v) /\ call' = [call EXCEPT ![c] = v]
    BY <1>0, <1>1 DEF Present, CallOK, CallState, Gone, Goal
  <2> HIDE DEF v
  <2>m. call' \in [Caller -> CallState \cup {Idle}] /\ \A d \in Caller : CallOK(call[d])'
    BY <2>v, CallMoves
  <2> QED
    BY <1>0, <1>1, <2>m DEF Present, rowVars, cacheVars, CallsOK, TypeOK
<1>2. ASSUME NEW c \in Caller, LoginStart(c) PROVE CallsOK'
  <2> DEFINE v == [pc |-> "store", goal |-> "login", token |-> Issue(name), opened |-> password]
  <2>v. CallOK(v) /\ call' = [call EXCEPT ![c] = v]
    BY <1>0, <1>2 DEF LoginStart, Issue, Token, CallOK, CallState, TypeOK, Gone
  <2> HIDE DEF v
  <2>m. call' \in [Caller -> CallState \cup {Idle}] /\ \A d \in Caller : CallOK(call[d])'
    BY <2>v, CallMoves
  <2> QED
    BY <1>0, <1>2, <2>m DEF LoginStart, rowVars, cacheVars, CallsOK, TypeOK
<1>3. ASSUME NEW c \in Caller, ChangePasswordStart(c) PROVE CallsOK'
  <2> DEFINE v == [pc |-> "passwordStore",
                    goal |-> "changePassword", token |-> NoToken, opened |-> Gone]
  <2>v. CallOK(v) /\ call' = [call EXCEPT ![c] = v]
    BY <1>0, <1>3 DEF ChangePasswordStart, CallOK, CallState, Gone
  <2> HIDE DEF v
  <2>m. call' \in [Caller -> CallState \cup {Idle}] /\ \A d \in Caller : CallOK(call[d])'
    BY <2>v, CallMoves
  <2> QED
    BY <1>0, <1>3, <2>m DEF ChangePasswordStart, rowVars, cacheVars, CallsOK, TypeOK
<1>4. ASSUME NEW c \in Caller, CheckHit(c) PROVE CallsOK'
  <2>p. PICK v : CallOK(v) /\ call' = [call EXCEPT ![c] = v]
    <3>1. CASE cached = call[c].token
      <4>1. (IF cached = token THEN opened ELSE Gone) \in Gone .. MaxPassword
        BY <1>0 DEF TypeOK, Gone
      <4> QED
        BY <1>4, <3>1, <4>1, AcceptedIs DEF CheckHit
    <3>2. CASE cached # call[c].token
      BY <1>i, <1>4, <3>2 DEF CheckHit, Return
    <3> QED
      BY <3>1, <3>2
  <2>m. call' \in [Caller -> CallState \cup {Idle}] /\ \A d \in Caller : CallOK(call[d])'
    BY <2>p, CallMoves
  <2> QED
    BY <1>0, <1>4, <2>m DEF CheckHit, rowVars, cacheVars, CallsOK, TypeOK
<1>5. ASSUME NEW c \in Caller, CheckMiss(c) PROVE CallsOK'
  <2>p. PICK v : CallOK(v) /\ call' = [call EXCEPT ![c] = v]
    <3>1. CallOK([call[c] EXCEPT !.pc = "find"])
      BY <1>0, <1>5 DEF CheckMiss, CallOK, CallState, Idle
    <3> QED
      BY <1>i, <1>5, <3>1 DEF CheckMiss, Goto
  <2>m. call' \in [Caller -> CallState \cup {Idle}] /\ \A d \in Caller : CallOK(call[d])'
    BY <2>p, CallMoves
  <2> QED
    BY <1>0, <1>5, <2>m DEF CheckMiss, rowVars, cacheVars, CallsOK, TypeOK
<1>6. ASSUME NEW c \in Caller, CheckFind(c) PROVE CallsOK'
  <2>1. call[c] \in CallState /\ call[c].goal \in Goal /\ call[c].token \in Token
    BY <1>0, <1>6 DEF CheckFind, CallOK, Idle
  <2>p. PICK v : CallOK(v) /\ call' = [call EXCEPT ![c] = v]
    <3>1. CASE token = call[c].token /\ Fill(c)
      <4> DEFINE p == IF call[c].goal = "rename" THEN opened ELSE Gone
                 v == [call[c] EXCEPT !.pc = "fill", !.opened = p]
      <4>1. p \in Gone .. MaxPassword
        BY <1>0 DEF TypeOK, Gone
      <4>2. call' = [call EXCEPT ![c] = v]
        BY <3>1 DEF Fill
      <4> HIDE DEF p
      <4>3. CallOK(v)
        BY <2>1, <4>1 DEF CallOK, CallState
      <4> QED
        BY <4>2, <4>3
    <3>2. CASE Return(c)
      BY <1>i, <3>2 DEF Return
    <3> QED
      BY <1>6, <3>1, <3>2 DEF CheckFind
  <2>m. call' \in [Caller -> CallState \cup {Idle}] /\ \A d \in Caller : CallOK(call[d])'
    BY <2>p, CallMoves
  <2> QED
    BY <1>0, <1>6, <2>m DEF CheckFind, rowVars, cacheVars, CallsOK, TypeOK
<1>7. ASSUME NEW c \in Caller, CheckFill(c) PROVE CallsOK'
  <2>1. /\ call[c].token \in Token
        /\ call[c].opened \in Gone .. MaxPassword
    BY <1>0, <1>7 DEF CheckFill, CallOK, CallState, Idle
  <2>p. PICK v : CallOK(v) /\ call' = [call EXCEPT ![c] = v]
    BY <1>7, <2>1, AcceptedIs DEF CheckFill
  <2>2. cached' \in Token \cup {NoToken} /\ aged' \in BOOLEAN /\ cacheRaced' \in BOOLEAN
    BY <1>0, <1>7, <2>1 DEF CheckFill, Written, SetBytes, WriteFails, LogoutPending, TypeOK
  <2>m. call' \in [Caller -> CallState \cup {Idle}] /\ \A d \in Caller : CallOK(call[d])'
    BY <2>p, CallMoves
  <2> QED
    BY <1>0, <1>7, <2>2, <2>m DEF CheckFill, Written, rowVars, cacheVars, CallsOK, TypeOK
<1>8. ASSUME NEW c \in Caller, LoginStore(c) PROVE CallsOK'
  <2> DEFINE t == call[c].token
             w == [pc |-> "cache", goal |-> "login", token |-> t, opened |-> Gone]
  <2>1. CASE call' = [call EXCEPT ![c] = w] /\ Store(t, call[c].opened)
    <3>1. t \in Token /\ call[c].opened \in Gone .. MaxPassword
      BY <1>0, <1>8, <2>1 DEF LoginStore, CallOK, CallState, TypeOK, Idle
    <3> HIDE DEF t
    <3>2. CallOK(w)
      BY <3>1 DEF CallOK, CallState, Gone
    <3>3. call' \in [Caller -> CallState \cup {Idle}] /\ \A d \in Caller : CallOK(call[d])'
      BY <2>1, <3>2, CallMoves
    <3>4. tokenRaced' \in BOOLEAN /\ overtaken' \subseteq Caller /\ token' = t /\ opened' = call[c].opened
      BY <1>0, <2>1 DEF Store, Overtake, TypeOK
    <3> QED
      BY <1>0, <1>8, <3>1, <3>3, <3>4 DEF LoginStore, rowVars, cacheVars, CallsOK, TypeOK
  <2>2. CASE Return(c) /\ UNCHANGED <<name, token, opened, tokenRaced, overtaken>>
    <3>1. call' \in [Caller -> CallState \cup {Idle}] /\ \A d \in Caller : CallOK(call[d])'
      BY <1>i, <2>2, CallMoves DEF Return
    <3> QED
      BY <1>0, <1>8, <2>2, <3>1 DEF LoginStore, rowVars, cacheVars, CallsOK, TypeOK
  <2> QED
    BY <1>8, <2>1, <2>2 DEF LoginStore, Cache
<1>9. ASSUME NEW c \in Caller, RenameStore(c) PROVE CallsOK'
  <2> DEFINE t == Issue(name + 1)
             w == [pc |-> "cache", goal |-> "login", token |-> t, opened |-> Gone]
  <2>1. CASE /\ name < MaxName /\ name' = name + 1
             /\ call' = [call EXCEPT ![c] = w] /\ Store(t, call[c].opened)
    <3>1. t \in Token /\ call[c].opened \in Gone .. MaxPassword /\ name' \in 0 .. MaxName
      BY <1>0, <1>9, <2>1 DEF RenameStore, Issue, Token, CallOK, CallState, TypeOK, Idle
    <3> HIDE DEF t
    <3>2. CallOK(w)
      BY <3>1 DEF CallOK, CallState, Gone
    <3>3. call' \in [Caller -> CallState \cup {Idle}] /\ \A d \in Caller : CallOK(call[d])'
      BY <2>1, <3>2, CallMoves
    <3>4. tokenRaced' \in BOOLEAN /\ overtaken' \subseteq Caller /\ token' = t /\ opened' = call[c].opened
      BY <1>0, <2>1 DEF Store, Overtake, TypeOK
    <3> QED
      BY <1>0, <1>9, <3>1, <3>3, <3>4 DEF RenameStore, rowVars, cacheVars, CallsOK, TypeOK
  <2>2. CASE Return(c) /\ UNCHANGED <<name, token, opened, tokenRaced, overtaken>>
    <3>1. call' \in [Caller -> CallState \cup {Idle}] /\ \A d \in Caller : CallOK(call[d])'
      BY <1>i, <2>2, CallMoves DEF Return
    <3> QED
      BY <1>0, <1>9, <2>2, <3>1 DEF RenameStore, rowVars, cacheVars, CallsOK, TypeOK
  <2> QED
    BY <1>9, <2>1, <2>2 DEF RenameStore, Cache
<1>10. ASSUME NEW c \in Caller, CacheToken(c) PROVE CallsOK'
  <2>1. call[c].token \in Token
    BY <1>0, <1>10 DEF CacheToken, CallOK, Idle
  <2>p. CallOK(Idle) /\ call' = [call EXCEPT ![c] = Idle]
    BY <1>i, <1>10 DEF CacheToken, Return
  <2>2. cached' \in Token \cup {NoToken} /\ aged' \in BOOLEAN /\ cacheRaced' \in BOOLEAN
    BY <1>0, <1>10, <2>1 DEF CacheToken, Written, SetBytes, WriteFails, LogoutPending, TypeOK
  <2>m. call' \in [Caller -> CallState \cup {Idle}] /\ \A d \in Caller : CallOK(call[d])'
    BY <2>p, CallMoves
  <2> QED
    BY <1>0, <1>10, <2>1, <2>2, <2>m DEF CacheToken, Written, rowVars, cacheVars, CallsOK, TypeOK
<1>11. ASSUME NEW c \in Caller, PasswordStore(c) PROVE CallsOK'
  <2>p. PICK v : CallOK(v) /\ call' = [call EXCEPT ![c] = v]
    <3>1. CallOK([call[c] EXCEPT !.pc = "logoutFind"])
      BY <1>0, <1>11 DEF PasswordStore, CallOK, CallState, Idle
    <3> QED
      BY <1>i, <1>11, <3>1 DEF PasswordStore, Goto, Return
  <2>m. call' \in [Caller -> CallState \cup {Idle}] /\ \A d \in Caller : CallOK(call[d])'
    BY <2>p, CallMoves
  <2> QED
    BY <1>0, <1>11, <2>m DEF PasswordStore, rowVars, cacheVars, CallsOK, TypeOK
<1>12. ASSUME NEW c \in Caller, LogoutFind(c) PROVE CallsOK'
  <2>p. PICK v : CallOK(v) /\ call' = [call EXCEPT ![c] = v]
    <3>1. CallOK([call[c] EXCEPT !.pc = "logoutDel"])
      BY <1>0, <1>12 DEF LogoutFind, CallOK, CallState, Idle
    <3> QED
      BY <1>i, <1>12, <3>1 DEF LogoutFind, GiveUp, Goto, Return
  <2>m. call' \in [Caller -> CallState \cup {Idle}] /\ \A d \in Caller : CallOK(call[d])'
    BY <2>p, CallMoves
  <2> QED
    BY <1>0, <1>12, <2>m DEF LogoutFind, GiveUp, cacheVars, CallsOK, TypeOK
<1>13. ASSUME NEW c \in Caller, LogoutDel(c) PROVE CallsOK'
  <2>p. PICK v : CallOK(v) /\ call' = [call EXCEPT ![c] = v]
    <3>1. CallOK([call[c] EXCEPT !.pc = "logoutStore"])
      BY <1>0, <1>13 DEF LogoutDel, CallOK, CallState, Idle
    <3> QED
      BY <1>i, <1>13, <3>1 DEF LogoutDel, Goto
  <2>m. call' \in [Caller -> CallState \cup {Idle}] /\ \A d \in Caller : CallOK(call[d])'
    BY <2>p, CallMoves
  <2> QED
    BY <1>0, <1>13, <2>m DEF LogoutDel, Del, WriteFails, rowVars, cacheVars, CallsOK, TypeOK
<1>14. ASSUME NEW c \in Caller, LogoutStore(c) PROVE CallsOK'
  <2>p. CallOK(Idle) /\ call' = [call EXCEPT ![c] = Idle]
    BY <1>i, <1>14 DEF LogoutStore, GiveUp, Return
  <2>m. call' \in [Caller -> CallState \cup {Idle}] /\ \A d \in Caller : CallOK(call[d])'
    BY <2>p, CallMoves
  <2> QED
    BY <1>0, <1>14, <2>m DEF LogoutStore, GiveUp, Overtake, rowVars, cacheVars, CallsOK, TypeOK
<1>15. CASE Tick
  BY <1>0, <1>15 DEF Tick, rowVars, cacheVars, CallsOK, TypeOK, CallOK
<1>16. CASE Age
  BY <1>0, <1>16 DEF Age, rowVars, CallsOK, TypeOK, CallOK
<1>17. CASE Expire
  BY <1>0, <1>17 DEF Expire, Del, rowVars, CallsOK, TypeOK, CallOK
<1>18. CASE Evict
  BY <1>0, <1>18 DEF Evict, Del, rowVars, CallsOK, TypeOK, CallOK
<1>19. CASE UNCHANGED vars
  BY <1>0, <1>19 DEF vars, rowVars, cacheVars, CallsOK, TypeOK, CallOK
<1>20. ASSUME NEW c \in Caller, Stop(c) PROVE CallsOK'
  <2>p. CallOK(Idle) /\ call' = [call EXCEPT ![c] = Idle]
    BY <1>i, <1>20 DEF Stop, GiveUp, Return
  <2>m. call' \in [Caller -> CallState \cup {Idle}] /\ \A d \in Caller : CallOK(call[d])'
    BY <2>p, CallMoves
  <2> QED
    BY <1>0, <1>20, <2>m DEF Stop, GiveUp, WriteFails, cacheVars, CallsOK, TypeOK
<1> QED
  BY <1>1, <1>2, <1>3, <1>4, <1>5, <1>6, <1>7, <1>8, <1>9, <1>10, <1>11, <1>12, <1>13,
     <1>14, <1>15, <1>16, <1>17, <1>18, <1>19, <1>20 DEF Next, Step

THEOREM TypeCorrect == Spec => []TypeOK
<1>1. Init => CallsOK
  BY TypeInit
<1>2. CallsOK /\ [Next]_vars => CallsOK'
  BY TypeStep
<1>3. CallsOK => TypeOK
  BY DEF CallsOK
<1> QED
  BY <1>1, <1>2, <1>3, PTL DEF Spec

-----------------------------------------------------------------------------
(* While the row stays as it is, nobody who is about to clear it gives up. *)
LEMMA StillChanging ==
  ASSUME PasswordEndsSessions, UNCHANGED rowVars,
         \A d \in Caller : Changing(d) => Changing(d)'
  PROVE  PasswordEndsSessions'
  BY DEF PasswordEndsSessions, rowVars

(* A request that was changing no password changes that of no other. *)
LEMMA OthersStillChanging ==
  ASSUME CallsOK, NEW c \in Caller, NEW v, call' = [call EXCEPT ![c] = v], ~Changing(c)
  PROVE  \A d \in Caller : Changing(d) => Changing(d)'
<1>1. \A d \in Caller : d # c => call'[d] = call[d]
  BY DEF CallsOK, TypeOK
<1> QED
  BY <1>1 DEF Changing

LEMMA PasswordStep == CallsOK /\ PasswordEndsSessions /\ [Next]_vars => PasswordEndsSessions'
<1> SUFFICES ASSUME CallsOK, PasswordEndsSessions, [Next]_vars PROVE PasswordEndsSessions'
  OBVIOUS
<1>0. TypeOK /\ \A c \in Caller : CallOK(call[c])
  BY DEF CallsOK
<1>a. ASSUME NEW c \in Caller, NEW v, call' = [call EXCEPT ![c] = v], ~Changing(c),
             UNCHANGED rowVars
      PROVE  PasswordEndsSessions'
  BY <1>a, StillChanging, OthersStillChanging
<1>b. ASSUME NEW c \in Caller, call[c] = Idle PROVE ~Changing(c)
  BY <1>b DEF Changing
<1>1. ASSUME NEW c \in Caller, NEW goal \in Goal, NEW t \in Token, Present(c, goal, t)
      PROVE  PasswordEndsSessions'
  BY <1>1, <1>a, <1>b DEF Present
<1>2. ASSUME NEW c \in Caller, LoginStart(c) PROVE PasswordEndsSessions'
  BY <1>2, <1>a, <1>b DEF LoginStart
<1>3. ASSUME NEW c \in Caller, ChangePasswordStart(c) PROVE PasswordEndsSessions'
  BY <1>3, <1>a, <1>b DEF ChangePasswordStart
<1>4. ASSUME NEW c \in Caller, CheckHit(c) PROVE PasswordEndsSessions'
  <2>1. ~Changing(c) /\ UNCHANGED rowVars
    BY <1>4 DEF CheckHit, Changing, rowVars
  <2>2. PICK v : call' = [call EXCEPT ![c] = v]
    <3>1. (IF cached = token THEN opened ELSE Gone) \in Gone .. MaxPassword
      BY <1>0, TokensAssumption DEF TokensAssumption, TypeOK, Gone
    <3> QED
      BY <1>4, <3>1, AcceptedIs DEF CheckHit, Return
  <2> QED
    BY <1>a, <2>1, <2>2
<1>5. ASSUME NEW c \in Caller, CheckMiss(c) PROVE PasswordEndsSessions'
  <2>1. ~Changing(c) /\ UNCHANGED rowVars
    BY <1>5 DEF CheckMiss, Changing, rowVars
  <2> QED
    BY <1>a, <1>5, <2>1 DEF CheckMiss, Goto
<1>6. ASSUME NEW c \in Caller, CheckFind(c) PROVE PasswordEndsSessions'
  <2>1. ~Changing(c) /\ UNCHANGED rowVars
    BY <1>6 DEF CheckFind, Changing, rowVars
  <2> QED
    BY <1>a, <1>6, <2>1 DEF CheckFind, Fill, Return
<1>7. ASSUME NEW c \in Caller, CheckFill(c) PROVE PasswordEndsSessions'
  <2>1. ~Changing(c) /\ UNCHANGED rowVars
    BY <1>7 DEF CheckFill, Changing, rowVars
  <2>2. call[c].opened \in Gone .. MaxPassword
    BY <1>0, <1>7 DEF CheckFill, CallOK, CallState, Idle
  <2>3. PICK v : call' = [call EXCEPT ![c] = v]
    BY <1>7, <2>2, AcceptedIs DEF CheckFill
  <2> QED
    BY <1>a, <2>1, <2>3
<1>s. ASSUME NEW t, NEW p, Store(t, p), UNCHANGED password PROVE PasswordEndsSessions'
  BY <1>s DEF Store, PasswordEndsSessions
<1>r. ASSUME NEW c \in Caller, ~Changing(c), Return(c),
             UNCHANGED <<token, opened, tokenRaced, password>>
      PROVE  PasswordEndsSessions'
  <2>1. \A d \in Caller : Changing(d) => Changing(d)'
    BY <1>r, OthersStillChanging DEF Return
  <2> QED
    BY <1>r, <2>1 DEF PasswordEndsSessions
<1>8. ASSUME NEW c \in Caller, LoginStore(c) PROVE PasswordEndsSessions'
  <2>1. ~Changing(c) /\ UNCHANGED password
    BY <1>8 DEF LoginStore, Changing
  <2> QED
    BY <1>r, <1>s, <1>8, <2>1 DEF LoginStore
<1>9. ASSUME NEW c \in Caller, RenameStore(c) PROVE PasswordEndsSessions'
  <2>1. ~Changing(c) /\ UNCHANGED password
    BY <1>9 DEF RenameStore, Changing
  <2> QED
    BY <1>r, <1>s, <1>9, <2>1 DEF RenameStore
<1>10. ASSUME NEW c \in Caller, CacheToken(c) PROVE PasswordEndsSessions'
  <2>1. ~Changing(c) /\ UNCHANGED rowVars
    BY <1>10 DEF CacheToken, Changing, rowVars
  <2> QED
    BY <1>a, <1>10, <2>1 DEF CacheToken, Return
<1>11. ASSUME NEW c \in Caller, PasswordStore(c) PROVE PasswordEndsSessions'
  <2>1. CASE Goto(c, "logoutFind")
    <3>1. call[c].goal = "changePassword" /\ call[c] \in CallState
      BY <1>0, <1>11 DEF PasswordStore, CallOK, Idle
    <3>2. call'[c] = [call[c] EXCEPT !.pc = "logoutFind"]
      BY <1>0, <2>1 DEF Goto, TypeOK
    <3>3. Changing(c)'
      BY <3>1, <3>2 DEF Changing, CallState, Idle
    <3> QED
      BY <3>3 DEF PasswordEndsSessions
  <2>2. CASE Return(c) /\ UNCHANGED password
    <3>1. ~Changing(c) /\ UNCHANGED <<token, opened, tokenRaced>>
      BY <1>11 DEF PasswordStore, Changing
    <3> QED
      BY <1>r, <2>2, <3>1
  <2> QED
    BY <1>11, <2>1, <2>2 DEF PasswordStore
<1>g. ASSUME NEW c \in Caller, NEW pc \in {"logoutDel", "logoutStore"}, Goto(c, pc),
             call[c] # Idle, UNCHANGED rowVars
      PROVE  PasswordEndsSessions'
  <2>1. call[c] \in CallState
    BY <1>0, <1>g DEF CallOK
  <2>2. call'[c] = [call[c] EXCEPT !.pc = pc] /\ \A d \in Caller : d # c => call'[d] = call[d]
    BY <1>0, <1>g DEF Goto, TypeOK
  <2>3. Changing(c) => Changing(c)'
    BY <1>g, <2>1, <2>2 DEF Changing, CallState, Idle
  <2>4. \A d \in Caller : Changing(d) => Changing(d)'
    BY <2>2, <2>3 DEF Changing
  <2> QED
    BY <1>g, <2>4, StillChanging
<1>u. ASSUME NEW c \in Caller, GiveUp(c), UNCHANGED <<token, opened, password>>
      PROVE  PasswordEndsSessions'
  <2>1. CASE Changing(c)
    BY <1>u, <2>1 DEF GiveUp, PasswordEndsSessions
  <2>2. CASE ~Changing(c)
    <3>1. tokenRaced' = tokenRaced
      BY <1>0, <1>u, <2>2 DEF GiveUp, TypeOK
    <3> QED
      BY <1>r, <1>u, <2>2, <3>1 DEF GiveUp
  <2> QED
    BY <2>1, <2>2
<1>12. ASSUME NEW c \in Caller, LogoutFind(c) PROVE PasswordEndsSessions'
  <2>1. UNCHANGED <<name, password, token, opened>> /\ call[c] # Idle
    BY <1>12 DEF LogoutFind, Idle
  <2>2. CASE GiveUp(c)
    BY <1>u, <2>1, <2>2
  <2>3. CASE Goto(c, "logoutDel") /\ UNCHANGED tokenRaced
    BY <1>g, <2>1, <2>3 DEF rowVars
  <2> QED
    BY <1>12, <2>2, <2>3 DEF LogoutFind
<1>13. ASSUME NEW c \in Caller, LogoutDel(c) PROVE PasswordEndsSessions'
  <2>1. UNCHANGED rowVars /\ call[c] # Idle
    BY <1>13 DEF LogoutDel, rowVars, Idle
  <2> QED
    BY <1>13, <1>g, <2>1 DEF LogoutDel
<1>14. ASSUME NEW c \in Caller, LogoutStore(c) PROVE PasswordEndsSessions'
  <2>1. CASE token' = NoToken
    BY <2>1 DEF PasswordEndsSessions
  <2>2. CASE GiveUp(c) /\ UNCHANGED <<token, overtaken>>
    BY <1>14, <1>u, <2>2 DEF LogoutStore
  <2> QED
    BY <1>14, <2>1, <2>2 DEF LogoutStore
<1>15. CASE Tick
  BY <1>15, StillChanging DEF Tick, Changing
<1>16. CASE Age
  BY <1>16, StillChanging DEF Age, Changing
<1>17. CASE Expire
  BY <1>17, StillChanging DEF Expire, Changing
<1>18. CASE Evict
  BY <1>18, StillChanging DEF Evict, Changing
<1>19. CASE UNCHANGED vars
  BY <1>19, StillChanging DEF vars, Changing
<1>20. ASSUME NEW c \in Caller, Stop(c) PROVE PasswordEndsSessions'
  BY <1>20, <1>u DEF Stop
<1> QED
  BY <1>1, <1>2, <1>3, <1>4, <1>5, <1>6, <1>7, <1>8, <1>9, <1>10, <1>11, <1>12, <1>13,
     <1>14, <1>15, <1>16, <1>17, <1>18, <1>19, <1>20 DEF Next, Step

(***************************************************************************)
(* However many requests race, a changed password ends the sessions opened *)
(* under the old one, unless a statement of the change failed, its process *)
(* stopped, or a login or a rename that rested on the old password stored  *)
(* its token after it (service.go ChangePassword, Logout, Login, Rename).  *)
(***************************************************************************)
THEOREM NewPasswordEndsSessions == Spec => []PasswordEndsSessions
<1>1. Init => PasswordEndsSessions
  BY DEF Init, PasswordEndsSessions
<1>2. Init => CallsOK
  BY TypeInit
<1>3. CallsOK /\ [Next]_vars => CallsOK'
  BY TypeStep
<1>4. CallsOK /\ PasswordEndsSessions /\ [Next]_vars => PasswordEndsSessions'
  BY PasswordStep
<1> QED
  BY <1>1, <1>2, <1>3, <1>4, PTL DEF Spec

-----------------------------------------------------------------------------
(***************************************************************************)
(* What makes StaleOnlyByRace inductive.  Who is about to cache a token    *)
(* and was not overtaken has the token of the row; between the two         *)
(* statements of a logout, Redis holds nothing that did not come late.     *)
(***************************************************************************)
Writing(v) == v.pc \in {"fill", "cache"}

InTime == \A c \in Caller : Writing(call[c]) /\ c \notin overtaken => call[c].token = token
Emptied == LogoutPending /\ ~cacheRaced => cached = NoToken

CacheInv == InTime /\ Emptied /\ StaleOnlyByRace

(* A call that neither writes to Redis nor to the row changes. *)
LEMMA CallChanges ==
  ASSUME CallsOK, CacheInv, NEW c \in Caller, NEW v, call' = [call EXCEPT ![c] = v],
         call[c].pc # "cache", v.pc # "logoutStore",
         Writing(v) => v.token = token,
         UNCHANGED <<token, cached, cacheRaced, overtaken>>
  PROVE  CacheInv'
<1>1. call'[c] = v /\ \A d \in Caller : d # c => call'[d] = call[d]
  BY DEF CallsOK, TypeOK
<1>2. InTime'
  BY <1>1 DEF CacheInv, InTime, Writing
<1>3. LogoutPending' => LogoutPending
  BY <1>1 DEF LogoutPending
<1>4. Emptied'
  BY <1>3 DEF CacheInv, Emptied
<1>5. StaleOnlyByRace'
  BY <1>1 DEF CacheInv, StaleOnlyByRace, CacheAgrees
<1> QED
  BY <1>2, <1>4, <1>5 DEF CacheInv

(* A call writes to Redis and goes on with something else. *)
LEMMA CallWrites ==
  ASSUME CallsOK, CacheInv, NEW c \in Caller, NEW v, call' = [call EXCEPT ![c] = v],
         Writing(call[c]), ~Writing(v), v.pc # "logoutStore", Written(c), UNCHANGED token
  PROVE  CacheInv'
<1>1. call'[c] = v /\ \A d \in Caller : d # c => call'[d] = call[d]
  BY DEF CallsOK, TypeOK
<1>2. InTime'
  BY <1>1 DEF CacheInv, InTime, Written
<1>3. LogoutPending' => LogoutPending
  BY <1>1 DEF LogoutPending
<1>4. CASE SetBytes(c)
  <2>1. Emptied'
    BY <1>3, <1>4 DEF SetBytes, Emptied
  <2>2. StaleOnlyByRace'
    BY <1>4 DEF SetBytes, CacheInv, InTime, StaleOnlyByRace, CacheAgrees
  <2> QED
    BY <1>2, <2>1, <2>2 DEF CacheInv
<1>5. CASE WriteFails
  BY <1>2, <1>5 DEF WriteFails, CacheInv, Emptied, StaleOnlyByRace, CacheAgrees
<1> QED
  BY <1>4, <1>5 DEF Written

(* A request has stored its token in the row and is to cache it. *)
LEMMA CallStores ==
  ASSUME CallsOK, CacheInv, NEW c \in Caller, NEW t, NEW p, Store(t, p), Cache(c, t),
         UNCHANGED <<cached, cacheRaced>>
  PROVE  CacheInv'
<1>1. /\ call'[c].pc = "cache" /\ call'[c].token = t
      /\ \A d \in Caller : d # c => call'[d] = call[d]
  BY DEF CallsOK, TypeOK, Cache
<1>2. InTime'
  BY <1>1 DEF Store, Overtake, InTime, Writing
<1>3. LogoutPending' => LogoutPending
  BY <1>1 DEF LogoutPending
<1>4. Emptied'
  BY <1>3 DEF CacheInv, Emptied
<1>5. StaleOnlyByRace'
  BY <1>1 DEF StaleOnlyByRace
<1> QED
  BY <1>2, <1>4, <1>5 DEF CacheInv

(* The key is gone. *)
LEMMA KeyGone ==
  ASSUME InTime', Del
  PROVE  CacheInv'
  BY DEF Del, CacheInv, Emptied, StaleOnlyByRace, CacheAgrees

LEMMA CacheStep == CallsOK /\ CacheInv /\ [Next]_vars => CacheInv'
<1> SUFFICES ASSUME CallsOK, CacheInv, [Next]_vars PROVE CacheInv'
  OBVIOUS
<1>0. TypeOK /\ \A c \in Caller : CallOK(call[c])
  BY DEF CallsOK
<1>1. ASSUME NEW c \in Caller, NEW goal \in Goal, NEW t \in Token, Present(c, goal, t)
      PROVE  CacheInv'
  <2> DEFINE v == [pc |-> "get", goal |-> goal, token |-> t, opened |-> Gone]
  <2>1. call' = [call EXCEPT ![c] = v] /\ ~Writing(v) /\ v.pc # "logoutStore"
    BY <1>1 DEF Present, Writing
  <2>2. call[c].pc # "cache" /\ UNCHANGED <<token, cached, cacheRaced, overtaken>>
    BY <1>1 DEF Present, Idle, rowVars, cacheVars
  <2> HIDE DEF v
  <2> QED
    BY <2>1, <2>2, CallChanges
<1>2. ASSUME NEW c \in Caller, LoginStart(c) PROVE CacheInv'
  <2> DEFINE v == [pc |-> "store", goal |-> "login", token |-> Issue(name), opened |-> password]
  <2>1. call' = [call EXCEPT ![c] = v] /\ ~Writing(v) /\ v.pc # "logoutStore"
    BY <1>2 DEF LoginStart, Writing
  <2>2. call[c].pc # "cache" /\ UNCHANGED <<token, cached, cacheRaced, overtaken>>
    BY <1>2 DEF LoginStart, Idle, rowVars, cacheVars
  <2> HIDE DEF v
  <2> QED
    BY <2>1, <2>2, CallChanges
<1>3. ASSUME NEW c \in Caller, ChangePasswordStart(c) PROVE CacheInv'
  <2> DEFINE v == [pc |-> "passwordStore",
                    goal |-> "changePassword", token |-> NoToken, opened |-> Gone]
  <2>1. call' = [call EXCEPT ![c] = v] /\ ~Writing(v) /\ v.pc # "logoutStore"
    BY <1>3 DEF ChangePasswordStart, Writing
  <2>2. call[c].pc # "cache" /\ UNCHANGED <<token, cached, cacheRaced, overtaken>>
    BY <1>3 DEF ChangePasswordStart, Idle, rowVars, cacheVars
  <2> HIDE DEF v
  <2> QED
    BY <2>1, <2>2, CallChanges
<1>g. ASSUME NEW c \in Caller, NEW pc \in {"find", "logoutFind", "logoutDel"}, Goto(c, pc),
             call[c] # Idle, call[c].pc # "cache", UNCHANGED <<token, cached, cacheRaced, overtaken>>
      PROVE  CacheInv'
  <2> DEFINE v == [call[c] EXCEPT !.pc = pc]
  <2>1. call[c] \in CallState
    BY <1>0, <1>g DEF CallOK
  <2>2. v.pc = pc /\ call' = [call EXCEPT ![c] = v]
    BY <1>g, <2>1 DEF CallState, Goto
  <2> HIDE DEF v
  <2>3. ~Writing(v) /\ v.pc # "logoutStore"
    BY <2>2 DEF Writing
  <2> QED
    BY <1>g, <2>2, <2>3, CallChanges
<1>r. ASSUME NEW c \in Caller, Return(c), call[c].pc # "cache",
             UNCHANGED <<token, cached, cacheRaced, overtaken>>
      PROVE  CacheInv'
  <2>1. call' = [call EXCEPT ![c] = Idle] /\ ~Writing(Idle) /\ Idle.pc # "logoutStore"
    BY <1>r DEF Return, Idle, Writing
  <2> QED
    BY <1>r, <2>1, CallChanges
<1>4. ASSUME NEW c \in Caller, CheckHit(c) PROVE CacheInv'
  <2>1. call[c].pc # "cache" /\ UNCHANGED <<token, cached, cacheRaced, overtaken>>
    BY <1>4 DEF CheckHit, rowVars, cacheVars
  <2>2. CASE cached = call[c].token
    <3>1. (IF cached = token THEN opened ELSE Gone) \in Gone .. MaxPassword
      BY <1>0, TokensAssumption DEF TokensAssumption, TypeOK, Gone
    <3>2. PICK v : /\ call' = [call EXCEPT ![c] = v]
                   /\ v.pc \in {"idle", "renameStore", "logoutFind"}
      BY <1>4, <2>2, <3>1, AcceptedIs DEF CheckHit
    <3>3. ~Writing(v) /\ v.pc # "logoutStore"
      BY <3>2 DEF Writing
    <3> QED
      BY <2>1, <3>2, <3>3, CallChanges
  <2>3. CASE cached # call[c].token
    BY <1>4, <1>r, <2>1, <2>3 DEF CheckHit
  <2> QED
    BY <2>2, <2>3
<1>5. ASSUME NEW c \in Caller, CheckMiss(c) PROVE CacheInv'
  <2>1. /\ call[c] # Idle /\ call[c].pc # "cache"
        /\ UNCHANGED <<token, cached, cacheRaced, overtaken>>
    BY <1>5 DEF CheckMiss, Idle, rowVars, cacheVars
  <2> QED
    BY <1>5, <1>g, <2>1 DEF CheckMiss
<1>6. ASSUME NEW c \in Caller, CheckFind(c) PROVE CacheInv'
  <2>1. /\ call[c] \in CallState /\ call[c].pc # "cache"
        /\ UNCHANGED <<token, cached, cacheRaced, overtaken>>
    BY <1>0, <1>6 DEF CheckFind, CallOK, Idle, rowVars, cacheVars
  <2>2. CASE token = call[c].token /\ Fill(c)
    <3> DEFINE p == IF call[c].goal = "rename" THEN opened ELSE Gone
               v == [call[c] EXCEPT !.pc = "fill", !.opened = p]
    <3>1. call' = [call EXCEPT ![c] = v]
      BY <2>2 DEF Fill
    <3> HIDE DEF p
    <3>2. v.pc = "fill" /\ v.token = token
      BY <2>1, <2>2 DEF CallState
    <3> HIDE DEF v
    <3> QED
      BY <2>1, <3>1, <3>2, CallChanges
  <2>3. CASE Return(c)
    BY <1>r, <2>1, <2>3
  <2> QED
    BY <1>6, <2>2, <2>3 DEF CheckFind
<1>7. ASSUME NEW c \in Caller, CheckFill(c) PROVE CacheInv'
  <2>1. Writing(call[c]) /\ Written(c) /\ UNCHANGED token
    BY <1>7 DEF CheckFill, Writing, rowVars
  <2>2. call[c].opened \in Gone .. MaxPassword
    BY <1>0, <1>7 DEF CheckFill, CallOK, CallState, Idle
  <2>3. PICK v : /\ call' = [call EXCEPT ![c] = v]
                 /\ v.pc \in {"idle", "renameStore", "logoutFind"}
    BY <1>7, <2>2, AcceptedIs DEF CheckFill
  <2>4. ~Writing(v) /\ v.pc # "logoutStore"
    BY <2>3 DEF Writing
  <2> QED
    BY <2>1, <2>3, <2>4, CallWrites
<1>8. ASSUME NEW c \in Caller, LoginStore(c) PROVE CacheInv'
  BY <1>8, <1>r, CallStores DEF LoginStore, cacheVars
<1>9. ASSUME NEW c \in Caller, RenameStore(c) PROVE CacheInv'
  BY <1>9, <1>r, CallStores DEF RenameStore, cacheVars
<1>10. ASSUME NEW c \in Caller, CacheToken(c) PROVE CacheInv'
  <2>1. call' = [call EXCEPT ![c] = Idle] /\ ~Writing(Idle) /\ Idle.pc # "logoutStore"
    BY <1>10 DEF CacheToken, Return, Idle, Writing
  <2>2. Writing(call[c]) /\ Written(c) /\ UNCHANGED token
    BY <1>10 DEF CacheToken, Writing, rowVars
  <2> QED
    BY <2>1, <2>2, CallWrites
<1>11. ASSUME NEW c \in Caller, PasswordStore(c) PROVE CacheInv'
  <2>1. /\ call[c] # Idle /\ call[c].pc # "cache"
        /\ UNCHANGED <<token, cached, cacheRaced, overtaken>>
    BY <1>11 DEF PasswordStore, Idle, cacheVars
  <2> QED
    BY <1>11, <1>g, <1>r, <2>1 DEF PasswordStore
<1>12. ASSUME NEW c \in Caller, LogoutFind(c) PROVE CacheInv'
  <2>1. /\ call[c] # Idle /\ call[c].pc # "cache"
        /\ UNCHANGED <<token, cached, cacheRaced, overtaken>>
    BY <1>12 DEF LogoutFind, Idle, cacheVars
  <2> QED
    BY <1>12, <1>g, <1>r, <2>1 DEF LogoutFind, GiveUp
<1>13. ASSUME NEW c \in Caller, LogoutDel(c) PROVE CacheInv'
  <2>1. /\ call[c] \in CallState /\ call[c].pc = "logoutDel"
        /\ UNCHANGED <<token, overtaken>>
    BY <1>0, <1>13 DEF LogoutDel, CallOK, Idle, rowVars
  <2>2. call'[c] = [call[c] EXCEPT !.pc = "logoutStore"] /\ \A d \in Caller : d # c => call'[d] = call[d]
    BY <1>0, <1>13 DEF LogoutDel, Goto, TypeOK
  <2>3. call'[c].pc = "logoutStore"
    BY <2>1, <2>2 DEF CallState
  <2>4. InTime'
    BY <2>1, <2>2, <2>3 DEF CacheInv, InTime, Writing
  <2>5. CASE Del
    BY <2>4, <2>5, KeyGone
  <2>6. CASE WriteFails
    BY <2>4, <2>6 DEF WriteFails, CacheInv, Emptied, StaleOnlyByRace, CacheAgrees
  <2> QED
    BY <1>13, <2>5, <2>6 DEF LogoutDel
<1>14. ASSUME NEW c \in Caller, LogoutStore(c) PROVE CacheInv'
  <2>1. /\ call[c].pc = "logoutStore" /\ UNCHANGED <<cached, cacheRaced>>
        /\ Return(c)
    BY <1>14 DEF LogoutStore, GiveUp, cacheVars
  <2>2. CASE UNCHANGED <<token, overtaken>>
    BY <1>r, <2>1, <2>2
  <2>3. CASE token' = NoToken /\ Overtake(NoToken)
    <3>1. call'[c] = Idle /\ \A d \in Caller : d # c => call'[d] = call[d]
      BY <1>0, <2>1 DEF Return, TypeOK
    <3>2. InTime'
      BY <2>3, <3>1 DEF Overtake, InTime, Writing, Idle
    <3>3. Emptied'
      BY <2>1, <3>1 DEF CacheInv, Emptied, LogoutPending, Idle
    <3>4. StaleOnlyByRace'
      BY <2>1, <2>3 DEF CacheInv, Emptied, LogoutPending, StaleOnlyByRace, CacheAgrees
    <3> QED
      BY <3>2, <3>3, <3>4 DEF CacheInv
  <2> QED
    BY <1>14, <2>2, <2>3 DEF LogoutStore
<1>15. CASE Tick
  BY <1>15 DEF Tick, rowVars, cacheVars, CacheInv, InTime, Emptied, LogoutPending, StaleOnlyByRace,
     CacheAgrees
<1>16. CASE Age
  BY <1>16 DEF Age, rowVars, CacheInv, InTime, Emptied, LogoutPending, StaleOnlyByRace, CacheAgrees
<1>17. CASE Expire
  BY <1>17, KeyGone DEF Expire, rowVars, CacheInv, InTime
<1>18. CASE Evict
  BY <1>18, KeyGone DEF Evict, rowVars, CacheInv, InTime
<1>19. CASE UNCHANGED vars
  BY <1>19 DEF vars, rowVars, cacheVars, CacheInv, InTime, Emptied, LogoutPending, StaleOnlyByRace,
     CacheAgrees
<1>20. ASSUME NEW c \in Caller, Stop(c) PROVE CacheInv'
  <2>1. Return(c) /\ UNCHANGED token /\ overtaken' = overtaken \ {c}
    BY <1>20 DEF Stop, GiveUp
  <2>2. call'[c] = Idle /\ \A d \in Caller : d # c => call'[d] = call[d]
    BY <1>0, <2>1 DEF Return, TypeOK
  <2>3. InTime'
    BY <2>1, <2>2 DEF CacheInv, InTime, Writing, Idle
  <2>4. LogoutPending' => LogoutPending
    BY <2>2 DEF LogoutPending, Idle
  <2>5. CASE call[c].pc = "cache"
    BY <1>20, <2>3, <2>5 DEF Stop, WriteFails, CacheInv, Emptied, StaleOnlyByRace, CacheAgrees
  <2>6. CASE call[c].pc # "cache"
    <3>1. UNCHANGED <<cached, cacheRaced>>
      BY <1>20, <2>6 DEF Stop, cacheVars
    <3>2. Emptied'
      BY <2>4, <3>1 DEF CacheInv, Emptied
    <3>3. StaleOnlyByRace'
      BY <2>1, <2>2, <2>6, <3>1 DEF CacheInv, StaleOnlyByRace, CacheAgrees
    <3> QED
      BY <2>3, <3>2, <3>3 DEF CacheInv
  <2> QED
    BY <2>5, <2>6
<1> QED
  BY <1>1, <1>2, <1>3, <1>4, <1>5, <1>6, <1>7, <1>8, <1>9, <1>10, <1>11, <1>12, <1>13,
     <1>14, <1>15, <1>16, <1>17, <1>18, <1>19, <1>20 DEF Next, Step

(***************************************************************************)
(* However many requests race, Redis would refuse the session of the row,  *)
(* or accept another, only where a token was cached late, between the      *)
(* statements of a logout, or not at all (jwt.go check, service.go).       *)
(***************************************************************************)
THEOREM CacheStaleOnlyByRace == Spec => []StaleOnlyByRace
<1>1. Init => CallsOK
  BY TypeInit
<1>2. Init => CacheInv
  BY DEF Init, CacheInv, InTime, Emptied, LogoutPending, StaleOnlyByRace, CacheAgrees, Writing, Idle
<1>3. CallsOK /\ [Next]_vars => CallsOK'
  BY TypeStep
<1>4. CallsOK /\ CacheInv /\ [Next]_vars => CacheInv'
  BY CacheStep
<1>5. CacheInv => StaleOnlyByRace
  BY DEF CacheInv
<1> QED
  BY <1>1, <1>2, <1>3, <1>4, <1>5, PTL DEF Spec
=============================================================================
