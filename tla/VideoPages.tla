------------------------------ MODULE VideoPages ------------------------------
(***************************************************************************)
(* The page of one video: its cached detail (VideoDetail) and the titles   *)
(* suggested for it (Suggestions), with API processes, Redis, the database *)
(* and the orchestration worker acting in any order.                       *)
(***************************************************************************)
EXTENDS Suggestions

vars == <<detailVars, suggestionVars>>

Init == DetailInit /\ SuggestionsInit

Next ==
    \/ DetailNext /\ UNCHANGED suggestionVars
    \/ SuggestionsNext

Spec == Init /\ [][Next]_vars

-----------------------------------------------------------------------------
TypeOK == DetailTypeOK /\ SuggestionsTypeOK

(***************************************************************************)
(* An event that is settled has left a suggestion, and no event leaves     *)
(* more of them than the deliveries it took (orchestrationworker.go        *)
(* handleDelivery, process).                                               *)
(***************************************************************************)
SuggestionsLand ==
    /\ event = "acked" => suggestions # << >>
    /\ Len(suggestions) <= 1 + redelivered

(***************************************************************************)
(* A suggestion the author has not decided on is not shown as the title,   *)
(* unless the worker added it between the UPDATE and the SELECT of a       *)
(* Confirm (ai_suggestion.go Confirm, video_service.go                     *)
(* ConfirmAISuggestion).                                                   *)
(***************************************************************************)
PendingNotShown ==
    title # Own /\ suggestions[title].status = "pending" => title \in slipped
=============================================================================
