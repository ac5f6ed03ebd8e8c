------------------------- MODULE MCCampaignService -------------------------
(***************************************************************************)
(* Finite instances of CampaignService and RetryBackoff for TLC.           *)
(***************************************************************************)
EXTENDS RetryBackoff, TLC

CONSTANTS c1, c2, p1, p2

\* A window within a day, and one that spans midnight.
Daytime == {[start |-> 9, end |-> 17]}
Overnight == {[start |-> 22, end |-> 2]}
MCHourLists == {Daytime, Overnight}

\* A lower delay above the default upper one and no whole number of milliseconds, and no
\* upper delay.
MCPolicies == {[maxAttempts |-> -1, baseDelay |-> 23, maxDelay |-> 0]}

MCSymmetry == Permutations({c1, c2}) \cup Permutations({p1, p2})
=============================================================================
