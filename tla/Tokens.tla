-------------------------------- MODULE Tokens --------------------------------
(***************************************************************************)
(* The session token of one account (account/service.go and repo.go,       *)
(* middleware/jwt/jwt.go): the column accounts.token, its copy under the   *)
(* Redis key account:<id>, and the requests that read and write the two    *)
(* one statement at a time.                                                *)
(*                                                                         *)
(* A JWT is signed over the account, its name and the second of issue, so  *)
(* a token is a pair of those two: a second login within one second yields *)
(* the same token again.  Redis may lose the key at any time; a call of it *)
(* may fail; a request may stop with its process after any statement.      *)
(* Passwords are numbered by the changes that set them.                    *)
(***************************************************************************)
EXTENDS Integers

CONSTANTS
    Caller,             \* requests that can be active at once
    MaxSecond,          \* bound: seconds in which tokens are issued
    MaxName,            \* bound: renames
    MaxPassword         \* bound: password changes

ASSUME TokensAssumption ==
    /\ MaxSecond \in Nat
    /\ MaxName \in Nat
    /\ MaxPassword \in Nat

VARIABLES
    name,               \* accounts.username
    password,           \* accounts.password
    token,              \* accounts.token
    cached,             \* the value of account:<id> in Redis
    aged,               \* the value was written long ago: its TTL can pass
    call,               \* the active requests
    second,             \* the clock
    opened,             \* history: the password behind the session in token
    tokenRaced,         \* history: that session outlived its password: it was
                        \* stored late, or a change did not get to clear it
    cacheRaced,         \* history: the value in Redis came late or was missed
    overtaken,          \* history: requests about to cache a replaced token
    given               \* history: the tokens handed out

rowVars == <<name, password, token, opened, tokenRaced>>
cacheVars == <<cached, aged, cacheRaced>>
vars == <<rowVars, cacheVars, call, second, overtaken, given>>

-----------------------------------------------------------------------------
NoToken == [name |-> -1, at |-> -1]
Token == [name : 0 .. MaxName, at : 0 .. MaxSecond]

(* The password of a session that the row no longer knows. *)
Gone == -1

Idle == [pc |-> "idle"]

(* What an authenticated request is for; "read" stands for every handler   *)
(* that leaves the account alone.                                          *)
Goal == {"read", "rename", "logout"}

CallState ==
    [pc     : {"get", "find", "fill", "renameStore", "store", "cache",
               "passwordStore", "logoutFind", "logoutDel", "logoutStore"},
     goal   : Goal \cup {"login", "changePassword"},
     token  : Token \cup {NoToken},     \* the token it presents or issues
     opened : Gone .. MaxPassword]      \* the password its session rests on

Goto(c, pc) == call' = [call EXCEPT ![c] = [@ EXCEPT !.pc = pc]]
Return(c) == call' = [call EXCEPT ![c] = Idle]

(* A password change that has yet to end the old sessions. *)
Changing(c) ==
    /\ call[c] # Idle
    /\ call[c].goal = "changePassword"
    /\ call[c].pc \in {"logoutFind", "logoutDel", "logoutStore"}

(* The request is over before its time: a statement failed, or it stopped. *)
GiveUp(c) ==
    /\ Return(c)
    /\ tokenRaced' = (tokenRaced \/ (Changing(c) /\ token # NoToken /\ opened # password))

(* GenerateToken *)
Issue(n) == [name |-> n, at |-> second]

-----------------------------------------------------------------------------
(* The cache.  Its calls have 50 ms; their errors are logged and forgotten. *)

(* A logout has deleted the key and not yet cleared the row. *)
LogoutPending == \E c \in Caller : call[c].pc = "logoutStore"

SetBytes(c) ==
    /\ cached' = call[c].token
    /\ aged' = FALSE
    /\ cacheRaced' = (c \in overtaken \/ LogoutPending)

Del ==
    /\ cached' = NoToken
    /\ aged' = FALSE
    /\ cacheRaced' = FALSE

(* A write that fails leaves the old value, if there is one. *)
WriteFails ==
    /\ cacheRaced' = (cached # NoToken)
    /\ UNCHANGED <<cached, aged>>

Written(c) ==
    /\ SetBytes(c) \/ WriteFails
    /\ overtaken' = overtaken \ {c}

-----------------------------------------------------------------------------
(* check: the middleware in front of every protected handler *)

(* The handler behind the middleware begins. *)
Accepted(c, p) ==
    CASE call[c].goal = "read"   -> Return(c)
      [] call[c].goal = "rename" ->
            call' = [call EXCEPT ![c] = [@ EXCEPT !.pc = "renameStore", !.opened = p]]
      [] call[c].goal = "logout" -> Goto(c, "logoutFind")

(* A client presents a token that it was once given. *)
Present(c, goal, t) ==
    /\ call[c] = Idle
    /\ t \in given
    /\ call' = [call EXCEPT ![c] =
          [pc |-> "get", goal |-> goal, token |-> t, opened |-> Gone]]
    /\ UNCHANGED <<rowVars, cacheVars, second, overtaken, given>>

(* Mutant: every use of a cached token prolongs its life. *)
CheckHitSliding(c) ==
    /\ call[c].pc = "get"
    /\ cached # NoToken
    /\ IF cached = call[c].token
       THEN Accepted(c, IF cached = token THEN opened ELSE Gone)
       ELSE Return(c)
    /\ aged' = FALSE
    /\ UNCHANGED <<rowVars, cached, cacheRaced, second, overtaken, given>>

CheckHit(c) ==
    /\ call[c].pc = "get"
    /\ cached # NoToken
    /\ IF cached = call[c].token
       THEN Accepted(c, IF cached = token THEN opened ELSE Gone)
       ELSE Return(c)
    /\ UNCHANGED <<rowVars, cacheVars, second, overtaken, given>>

(* No such key, or Redis does not answer. *)
CheckMiss(c) ==
    /\ call[c].pc = "get"
    /\ Goto(c, "find")
    /\ UNCHANGED <<rowVars, cacheVars, second, overtaken, given>>

Fill(c) ==
    call' = [call EXCEPT ![c] =
        [@ EXCEPT !.pc = "fill", !.opened = IF call[c].goal = "rename" THEN opened ELSE Gone]]

(* Mutant: the row is not asked whether it holds this very token. *)
CheckFindAny(c) ==
    /\ call[c].pc = "find"
    /\ IF token # NoToken THEN Fill(c) ELSE Return(c)
    /\ UNCHANGED <<rowVars, cacheVars, second, overtaken, given>>

(* The row holds another token, or the SELECT fails. *)
CheckFind(c) ==
    /\ call[c].pc = "find"
    /\ \/ token = call[c].token /\ Fill(c)
       \/ Return(c)
    /\ UNCHANGED <<rowVars, cacheVars, second, overtaken, given>>

CheckFill(c) ==
    /\ call[c].pc = "fill"
    /\ Written(c)
    /\ Accepted(c, call[c].opened)
    /\ UNCHANGED <<rowVars, second, given>>

-----------------------------------------------------------------------------
(* Login and Rename *)

(* Login has compared the password and signed a token. *)
LoginStart(c) ==
    /\ call[c] = Idle
    /\ call' = [call EXCEPT ![c] =
          [pc |-> "store", goal |-> "login", token |-> Issue(name), opened |-> password]]
    /\ UNCHANGED <<rowVars, cacheVars, second, overtaken, given>>

(* Requests that have yet to cache another token than t. *)
Overtake(t) ==
    overtaken' = overtaken \cup
        {d \in Caller : call[d].pc \in {"fill", "cache"} /\ call[d].token # t}

(* The row gets token t, of a session that rests on password p. *)
Store(t, p) ==
    /\ token' = t
    /\ opened' = p
    /\ tokenRaced' = (p # password)
    /\ Overtake(t)

(* What is left of the request: to cache t and to answer with it. *)
Cache(c, t) ==
    call' = [call EXCEPT ![c] =
        [pc |-> "cache", goal |-> "login", token |-> t, opened |-> Gone]]

(* An UPDATE that fails ends the request with an error. *)
LoginStore(c) ==
    /\ call[c].pc = "store"
    /\ \/ Store(call[c].token, call[c].opened) /\ Cache(c, call[c].token)
       \/ Return(c) /\ UNCHANGED <<token, opened, tokenRaced, overtaken>>
    /\ UNCHANGED <<name, password, cacheVars, second, given>>

(* RenameWithToken writes name and token in one transaction; a name that   *)
(* is taken ends the request with an error.                                *)
RenameStore(c) ==
    LET new == Issue(name + 1)
    IN  /\ call[c].pc = "renameStore"
        /\ \/ /\ name < MaxName
              /\ name' = name + 1
              /\ Store(new, call[c].opened)
              /\ Cache(c, new)
           \/ Return(c) /\ UNCHANGED <<name, token, opened, tokenRaced, overtaken>>
        /\ UNCHANGED <<password, cacheVars, second, given>>

(* The answer with the token follows, whether Redis took it or not. *)
CacheToken(c) ==
    /\ call[c].pc = "cache"
    /\ Written(c)
    /\ given' = given \cup {call[c].token}
    /\ Return(c)
    /\ UNCHANGED <<rowVars, second>>

-----------------------------------------------------------------------------
(* ChangePassword and Logout *)

(* The old password was right. *)
ChangePasswordStart(c) ==
    /\ call[c] = Idle
    /\ call' = [call EXCEPT ![c] =
          [pc |-> "passwordStore", goal |-> "changePassword",
           token |-> NoToken, opened |-> Gone]]
    /\ UNCHANGED <<rowVars, cacheVars, second, overtaken, given>>

(* Mutant: a new password leaves the sessions alone. *)
PasswordStoreOnly(c) ==
    /\ call[c].pc = "passwordStore"
    /\ password < MaxPassword
    /\ password' = password + 1
    /\ Return(c)
    /\ UNCHANGED <<name, token, opened, tokenRaced, cacheVars, second, overtaken, given>>

PasswordStore(c) ==
    /\ call[c].pc = "passwordStore"
    /\ \/ /\ password < MaxPassword
          /\ password' = password + 1
          /\ Goto(c, "logoutFind")
       \/ Return(c) /\ UNCHANGED password
    /\ UNCHANGED <<name, token, opened, tokenRaced, cacheVars, second, overtaken, given>>

(* Logout has nothing to do for an account without a token; a SELECT that  *)
(* fails, as when the client is gone, ends it with the token still there.  *)
LogoutFind(c) ==
    /\ call[c].pc = "logoutFind"
    /\ \/ token # NoToken /\ Goto(c, "logoutDel") /\ UNCHANGED tokenRaced
       \/ GiveUp(c)
    /\ UNCHANGED <<name, password, token, opened, cacheVars, second, overtaken, given>>

LogoutDel(c) ==
    /\ call[c].pc = "logoutDel"
    /\ Del \/ WriteFails
    /\ Goto(c, "logoutStore")
    /\ UNCHANGED <<rowVars, second, overtaken, given>>

LogoutStore(c) ==
    /\ call[c].pc = "logoutStore"
    /\ \/ /\ token' = NoToken
          /\ tokenRaced' = FALSE
          /\ Overtake(NoToken)
          /\ Return(c)
       \/ GiveUp(c) /\ UNCHANGED <<token, overtaken>>
    /\ UNCHANGED <<name, password, opened, cacheVars, second, given>>

-----------------------------------------------------------------------------
(* The surroundings *)

(* The process of the request stops; a token it was to cache is not there. *)
Stop(c) ==
    /\ call[c] # Idle
    /\ GiveUp(c)
    /\ IF call[c].pc = "cache" THEN WriteFails ELSE UNCHANGED cacheVars
    /\ overtaken' = overtaken \ {c}
    /\ UNCHANGED <<name, password, token, opened, second, given>>

Tick ==
    /\ second < MaxSecond
    /\ second' = second + 1
    /\ UNCHANGED <<rowVars, cacheVars, call, overtaken, given>>

(* The TTL of 24 h runs from the last SetBytes. *)
Age ==
    /\ cached # NoToken /\ ~aged
    /\ aged' = TRUE
    /\ UNCHANGED <<rowVars, cached, cacheRaced, call, second, overtaken, given>>

Expire ==
    /\ aged
    /\ Del
    /\ UNCHANGED <<rowVars, call, second, overtaken, given>>

(* Redis is restarted or makes room. *)
Evict ==
    /\ cached # NoToken
    /\ Del
    /\ UNCHANGED <<rowVars, call, second, overtaken, given>>

-----------------------------------------------------------------------------
Init ==
    /\ name = 0 /\ password = 0
    /\ token = NoToken /\ opened = 0 /\ tokenRaced = FALSE
    /\ cached = NoToken /\ aged = FALSE /\ cacheRaced = FALSE
    /\ call = [c \in Caller |-> Idle]
    /\ second = 0
    /\ overtaken = {}
    /\ given = {}

Step(c) ==
    \/ CheckHit(c)
    \/ CheckMiss(c)
    \/ CheckFind(c)
    \/ CheckFill(c)
    \/ LoginStore(c)
    \/ RenameStore(c)
    \/ CacheToken(c)
    \/ PasswordStore(c)
    \/ LogoutFind(c)
    \/ LogoutDel(c)
    \/ LogoutStore(c)

Next ==
    \/ \E c \in Caller, goal \in Goal, t \in Token : Present(c, goal, t)
    \/ \E c \in Caller : LoginStart(c)
    \/ \E c \in Caller : ChangePasswordStart(c)
    \/ \E c \in Caller : Step(c)
    \/ \E c \in Caller : Stop(c)
    \/ Tick
    \/ Age
    \/ Expire
    \/ Evict

Spec == Init /\ [][Next]_vars

(***************************************************************************)
(* A request that has begun goes on to its answer unless its process       *)
(* stops, and Redis lets a key go when its TTL has passed without another  *)
(* SetBytes.                                                               *)
(***************************************************************************)
Fairness ==
    /\ \A c \in Caller : WF_vars(Step(c))
    /\ WF_vars(Age)
    /\ WF_vars(Expire)

FairSpec == Spec /\ Fairness

-----------------------------------------------------------------------------
TypeOK ==
    /\ name \in 0 .. MaxName
    /\ password \in 0 .. MaxPassword
    /\ token \in Token \cup {NoToken}
    /\ cached \in Token \cup {NoToken}
    /\ aged \in BOOLEAN
    /\ call \in [Caller -> CallState \cup {Idle}]
    /\ second \in 0 .. MaxSecond
    /\ opened \in Gone .. MaxPassword
    /\ tokenRaced \in BOOLEAN
    /\ cacheRaced \in BOOLEAN
    /\ overtaken \subseteq Caller
    /\ given \subseteq Token

(* Redis would not refuse the session of the row, nor accept another. *)
CacheAgrees == cached \in {NoToken, token}

(***************************************************************************)
(* Redis and the row part in three ways only: a token is cached after the  *)
(* row has moved on, or between the two statements of a logout, or a write *)
(* to Redis fails or is cut off. Without these, and once a request that    *)
(* stored a token has cached it too, a revoked token is refused and the    *)
(* current one is accepted, in whatever order logins, renames, logouts,    *)
(* password changes, checks and the loss of the key come (jwt.go check,    *)
(* service.go Login, Rename, Logout).                                      *)
(***************************************************************************)
StaleOnlyByRace ==
    ~cacheRaced /\ (\A c \in Caller : call[c].pc # "cache") => CacheAgrees

(***************************************************************************)
(* A changed password ends the sessions opened under the old one: when no  *)
(* change is under way, the row holds no token of such a session.  The     *)
(* exceptions: a change did not get to clear the row, because a statement  *)
(* after its first UPDATE failed or its process stopped; or a login that   *)
(* had compared the old password, or a rename that had passed the check,   *)
(* stored its token after the change (service.go ChangePassword, Logout,   *)
(* Login, Rename).                                                         *)
(***************************************************************************)
PasswordEndsSessions ==
    ~tokenRaced /\ (\A c \in Caller : ~Changing(c)) =>
        token = NoToken \/ opened = password

(***************************************************************************)
(* A cache that has parted from the row does not stay so: its TTL runs     *)
(* from the last write, and checks that hit do not prolong it.  The clock  *)
(* stops at MaxSecond, so logins that overlap without end, each caching    *)
(* another token than the row's, are beyond this.                          *)
(***************************************************************************)
CacheHeals == []<>CacheAgrees
=============================================================================
