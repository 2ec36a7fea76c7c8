------------------------------ MODULE MCPayLocks ------------------------------
(* PayLocks for TLC: each account has a video; two have an order.          *)
EXTENDS PayLocks, TLC

MCOwnerOf == [o \in Paper |-> o]
MCAuthorOf == [v \in Video |-> v]
Symmetry == Permutations(Tx)
=============================================================================
