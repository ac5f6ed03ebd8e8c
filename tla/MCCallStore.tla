---------------------------- MODULE MCCallStore ----------------------------
(***************************************************************************)
(* Finite instances of CallStore for TLC.                                  *)
(***************************************************************************)
EXTENDS CallStore, TLC

CONSTANTS w1, w2, w3

MCSymmetry == Permutations({w1, w2, w3})
=============================================================================
