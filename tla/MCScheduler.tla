---------------------------- MODULE MCScheduler ----------------------------
(***************************************************************************)
(* Finite instances of Scheduler for TLC.                                  *)
(***************************************************************************)
EXTENDS Scheduler

CONSTANTS s1, s2

\* Targets are numbered; the first was created alone, the others together after it.
MCCreatedAt == [t \in Targets |-> IF t = 1 THEN 0 ELSE 1]
=============================================================================
