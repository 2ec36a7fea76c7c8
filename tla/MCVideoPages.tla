----------------------------- MODULE MCVideoPages -----------------------------
(* VideoPages for TLC: one API process.                                    *)
EXTENDS VideoPages

MCProcessOf == [x \in Reader \cup Writer |-> "p1"]
=============================================================================
