------------------------------- MODULE MCTokens -------------------------------
(* Tokens for TLC; the model values come from the cfg.                     *)
EXTENDS Tokens, TLC
=============================================================================
