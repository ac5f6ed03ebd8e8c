--------------------------- MODULE MCCallPipeline ---------------------------
(***************************************************************************)
(* Finite instances of CallPipeline for TLC.                               *)
(***************************************************************************)
EXTENDS CallPipeline

CONSTANTS c1, c2

\* One call may be attempted once, the other twice.
MCMixedAttempts == [c \in Calls |-> IF c = c1 THEN 2 ELSE 1]

\* Every call may be attempted three times.
MCThreeAttempts == [c \in Calls |-> 3]
=============================================================================
