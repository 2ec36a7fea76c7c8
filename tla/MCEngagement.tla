----------------------------- MODULE MCEngagement -----------------------------
(* Engagement for TLC; the model values come from the cfg.                 *)
EXTENDS Engagement, TLC

ToldCounts == {-1, 2}
=============================================================================
