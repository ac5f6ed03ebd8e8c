----------------------------- MODULE MCLimiter -----------------------------
(***************************************************************************)
(* Finite instances of Limiter for TLC.                                    *)
(***************************************************************************)
EXTENDS Limiter

CONSTANTS w1, w2, w3
=============================================================================
