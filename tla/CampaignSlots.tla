--------------------------- MODULE CampaignSlots ---------------------------
(***************************************************************************)
(* What the limiter promises the call workers, whatever Redis does: at     *)
(* most Limit of them are inside a call of the campaign at any time.       *)
(***************************************************************************)
EXTENDS Integers, FiniteSets

CONSTANTS Workers,  \* concurrent processMessage calls for the campaign
          Limit     \* its concurrency limit

VARIABLE active     \* the workers inside a call

SlotsInit == active = {}

Enter(w) ==
  /\ w \notin active
  /\ Cardinality(active) < Limit
  /\ active' = active \cup {w}

Leave(w) ==
  /\ w \in active
  /\ active' = active \ {w}

SlotsNext == \E w \in Workers : Enter(w) \/ Leave(w)

SlotsSpec == SlotsInit /\ [][SlotsNext]_active
=============================================================================
