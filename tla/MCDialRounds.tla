---------------------------- MODULE MCDialRounds ----------------------------
(***************************************************************************)
(* Finite instances of DialRounds for TLC.                                 *)
(***************************************************************************)
EXTENDS DialRounds

CONSTANTS c1, c2

At(h) == [hour |-> h, minute |-> 0]

\* The first half of the last day of the week, for one campaign.
MCHourLists ==
  [c \in Campaigns |->
     {{}} \cup IF c = c1 THEN {{[day |-> 2, start |-> At(0), end |-> At(1)]}} ELSE {}]

\* Half a day ahead of UTC: some Saturday of the campaign is Friday in UTC.
MCZone == [c \in Campaigns |-> {1}]
=============================================================================
