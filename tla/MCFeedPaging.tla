----------------------------- MODULE MCFeedPaging -----------------------------
(* Instances of FeedPaging for TLC.  Videos 1 and 2 share a second, and 1  *)
(* is the newer one; their inbox entries have one score, and their outbox  *)
(* rows are in the other order.                                            *)
EXTENDS FeedPaging, TLC

MCRankings == {<<>>, <<4, 3, 2, 1>>}
MCCreateTime == <<1500, 1000, 2000, 3000>>
MCInboxScore == <<1510, 1510, 2010, 3010>>
MCOutboxScore == <<1520, 1530, 2020, 3020>>
MCPlace == [mysql |-> <<2, 1, 3, 4>>, redis |-> <<1, 2, 3, 4>>, outbox |-> <<1, 2, 3, 4>>]
=============================================================================
