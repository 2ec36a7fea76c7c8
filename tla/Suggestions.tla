------------------------------ MODULE Suggestions ------------------------------
(***************************************************************************)
(* What an LLM suggests for a new video (worker/orchestrationworker.go,    *)
(* video/ai_suggestion.go): the analyze event that Publish leaves behind,  *)
(* the worker that runs the agent and adds a row, and the author who       *)
(* confirms or rejects it, which may change the title and so the detail    *)
(* that VideoDetail caches.                                                *)
(*                                                                         *)
(* A suggested title is a new one, blank, or the author's own, which the   *)
(* worker falls back to if it cannot parse the answer.  The prompt, the    *)
(* trends the agent asks for and the other columns are left out.           *)
(***************************************************************************)
EXTENDS VideoDetail, Sequences

CONSTANTS
    MaxRounds,          \* calls of the LLM for one event (agentMaxRounds, 5)
    MaxRedelivered      \* bound: times the event is delivered again

ASSUME SuggestionsAssumption == MaxRounds \in Nat \ {0} /\ MaxRedelivered \in Nat

VARIABLES
    event,              \* where the analyze event is
    agent,              \* the worker
    suggestions,        \* the rows of the video, in the order of their ids
    title,              \* videos.title: the suggestion it is from, or Own
    redelivered,        \* history: times the event was delivered again
    slipped             \* history: rows added between the two statements of Confirm

agentVars == <<event, agent, redelivered>>
suggestionVars == <<agentVars, suggestions, title, slipped>>

Own == 0
Titles == {"blank", "own", "new"}
Decided == {"confirmed", "rejected"}
Asleep == [pc |-> "asleep"]
Think(n) == [pc |-> "think", round |-> n]

-----------------------------------------------------------------------------
(* Publish: the event is out, or the publisher has logged that it is not. *)
PublishAnalyze ==
    /\ event = "none"
    /\ event' \in {"queued", "lost"}
    /\ UNCHANGED <<detailVars, agent, redelivered, suggestions, title, slipped>>

Deliver ==
    /\ event = "queued"
    /\ event' = "delivered"
    /\ agent' = Think(0)
    /\ UNCHANGED <<detailVars, redelivered, suggestions, title, slipped>>

(* The event goes back to the queue. *)
Requeue ==
    /\ redelivered < MaxRedelivered
    /\ redelivered' = redelivered + 1
    /\ event' = "queued"
    /\ agent' = Asleep
    /\ UNCHANGED <<detailVars, suggestions, title, slipped>>

Concluded == \E t \in Titles : agent' = [pc |-> "create", title |-> t]

(* One call of the LLM.  It asks for the tool, and is called again with    *)
(* what the tool returned, up to MaxRounds calls; or it stops, for any     *)
(* other reason.  The last text is parsed.                                 *)
Ask ==
    /\ agent.pc = "think"
    /\ \/ agent.round + 1 < MaxRounds /\ agent' = Think(agent.round + 1)
       \/ Concluded
    /\ UNCHANGED <<detailVars, event, redelivered, suggestions, title, slipped>>

(* The call fails: Nack with requeue. *)
AskFails == agent.pc = "think" /\ Requeue

Confirming == \E w \in Writer : write[w].pc = "newest"

AgentCreate ==
    /\ agent.pc = "create"
    /\ suggestions' = Append(suggestions, [status |-> "pending", title |-> agent.title])
    /\ slipped' = IF Confirming THEN slipped \cup {Len(suggestions) + 1} ELSE slipped
    /\ agent' = [pc |-> "ack"]
    /\ UNCHANGED <<detailVars, event, redelivered, title>>

(* Mutant: the event is settled although its row was not written. *)
CreateDropped ==
    /\ agent.pc = "create"
    /\ event' = "acked"
    /\ agent' = Asleep
    /\ UNCHANGED <<detailVars, redelivered, suggestions, title, slipped>>

CreateFails == agent.pc = "create" /\ Requeue

Ack ==
    /\ agent.pc = "ack"
    /\ event' = "acked"
    /\ agent' = Asleep
    /\ UNCHANGED <<detailVars, redelivered, suggestions, title, slipped>>

(* The worker stops, or loses its channel, with the event not yet acked: *)
(* the row may be there already.                                         *)
AgentCrash == agent # Asleep /\ Requeue

-----------------------------------------------------------------------------
(* The author's requests, for which checkOwnership has found the video.  A *)
(* request of the author is a writer of VideoDetail.                       *)

Decide(status) ==
    suggestions' = [k \in DOMAIN suggestions |->
        IF suggestions[k].status = "pending"
        THEN [suggestions[k] EXCEPT !.status = status]
        ELSE suggestions[k]]

(* Mutant: UPDATE ... LIMIT 1. *)
ConfirmFirst(w) ==
    LET open == {k \in DOMAIN suggestions : suggestions[k].status = "pending"}
    IN  /\ write[w] = Idle
        /\ ~deleted
        /\ suggestions' = [k \in DOMAIN suggestions |->
              IF k \in open /\ \A j \in open : k <= j
              THEN [suggestions[k] EXCEPT !.status = "confirmed"]
              ELSE suggestions[k]]
        /\ Goto(w, "newest")
        /\ UNCHANGED <<rowVars, l1Vars, l2Vars, lockVars, read, overtaken,
                       agentVars, title, slipped>>

(* The UPDATE of Confirm, which is no error if nothing was pending. *)
Confirm(w) ==
    /\ write[w] = Idle
    /\ ~deleted
    /\ Decide("confirmed")
    /\ Goto(w, "newest")
    /\ UNCHANGED <<rowVars, l1Vars, l2Vars, lockVars, read, overtaken, agentVars, title, slipped>>

(* Its SELECT takes the newest row, whatever its status; a video without  *)
(* one, and a suggestion without a title, end the request.                *)
GetByVideoID(w) ==
    LET newest == Len(suggestions)
    IN  /\ write[w].pc = "newest"
        /\ IF newest = 0 \/ suggestions[newest].title = "blank"
           THEN Return(w)
           ELSE write' = [write EXCEPT ![w] = [pc |-> "meta", found |-> newest]]
        /\ UNCHANGED <<rowVars, l1Vars, l2Vars, lockVars, read, overtaken, suggestionVars>>

(* Mutant: the caches are not told of a new title. *)
UpdateMetaOnly(w) ==
    LET k == write[w].found
    IN  /\ write[w].pc = "meta"
        /\ ~deleted
        /\ Changed(w)
        /\ title' = IF suggestions[k].title = "own" THEN Own ELSE k
        /\ Return(w)
        /\ UNCHANGED <<deleted, agentVars, suggestions, slipped>>

(* The UPDATE of the video, and then invalidateCache; or it fails. *)
UpdateVideoMeta(w) ==
    LET k == write[w].found
    IN  /\ write[w].pc = "meta"
        /\ \/ /\ ~deleted
              /\ Changed(w)
              /\ title' = IF suggestions[k].title = "own" THEN Own ELSE k
              /\ Goto(w, "delL1")
           \/ /\ deleted
              /\ Goto(w, "delL1")
              /\ UNCHANGED <<version, l1Vars, l2Vars, lockVars, read, overtaken, title>>
           \/ /\ Return(w)
              /\ UNCHANGED <<version, l1Vars, l2Vars, lockVars, read, overtaken, title>>
        /\ UNCHANGED <<deleted, agentVars, suggestions, slipped>>

Reject ==
    /\ ~deleted
    /\ \E k \in DOMAIN suggestions : suggestions[k].status = "pending"
    /\ Decide("rejected")
    /\ UNCHANGED <<detailVars, agentVars, title, slipped>>

-----------------------------------------------------------------------------
SuggestionsInit ==
    /\ event = "none"
    /\ agent = Asleep
    /\ suggestions = << >>
    /\ title = Own
    /\ redelivered = 0
    /\ slipped = {}

AgentStep ==
    \/ Ask
    \/ AskFails
    \/ AgentCreate
    \/ CreateFails
    \/ Ack

SuggestionsNext ==
    \/ PublishAnalyze
    \/ Deliver
    \/ AgentStep
    \/ AgentCrash
    \/ \E w \in Writer : Confirm(w)
    \/ \E w \in Writer : GetByVideoID(w)
    \/ \E w \in Writer : UpdateVideoMeta(w)
    \/ Reject

SuggestionsTypeOK ==
    /\ event \in {"none", "lost", "queued", "delivered", "acked"}
    /\ agent \in {Asleep, [pc |-> "ack"]}
                 \cup {Think(n) : n \in 0 .. MaxRounds - 1}
                 \cup {[pc |-> "create", title |-> t] : t \in Titles}
    /\ suggestions \in Seq([status : Decided \cup {"pending"}, title : Titles])
    /\ Len(suggestions) <= MaxRedelivered + 1
    /\ title \in 0 .. Len(suggestions)
    /\ redelivered \in 0 .. MaxRedelivered
    /\ slipped \subseteq DOMAIN suggestions
=============================================================================
