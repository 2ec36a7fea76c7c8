----------------------------- MODULE MCVideoDetail -----------------------------
(* VideoDetail for TLC: two API processes.                                 *)
EXTENDS VideoDetail

MCProcessOf == [x \in Reader \cup Writer |->
    IF x \in {"r1", "w1"} THEN "p1" ELSE "p2"]
=============================================================================
