----------------------------- MODULE MCFeedFanout -----------------------------
(* Instances of FeedFanout for TLC: one author, and others who follow it. *)
EXTENDS FeedFanout, TLC

CONSTANTS star, ann, ben, cem, dan

MCAuthorOf == [v \in Video |-> star]
MCFans == <<<<ann, star>>, <<ben, star>>, <<cem, star>>>>
=============================================================================
