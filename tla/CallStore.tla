----------------------------- MODULE CallStore -----------------------------
(***************************************************************************)
(* The Scylla call store (internal/repository/scylla/call_store.go) for    *)
(* one call: its row in calls_by_campaign and its entries in               *)
(* calls_by_status, which has one partition per status.  Every CQL         *)
(* statement is one step; nothing spans two.  The statements of different  *)
(* calls touch different rows, so one call is enough.                      *)
(*                                                                         *)
(* Writers are the status workers.  Each is called with any outcome of the *)
(* call at any time: with the next one, with one that is delivered again   *)
(* after a crash, or, after a call was dialled twice, with another one for *)
(* the same attempt.  Phone number, bucket and time stamps are payload;    *)
(* that an entry lacks its phone number is kept.                           *)
(***************************************************************************)
EXTENDS Integers, FiniteSets

CONSTANTS
  Writers,      \* status workers that may handle the call's outcomes
  Outcomes,     \* statuses an outcome may have
  Attempts,     \* attempt numbers
  MaxFaults,    \* bound: errors and deaths in a behaviour
  MaxOverlaps   \* bound: updates begun while another is under way

ASSUME StoreAssumption ==
  /\ IsFiniteSet(Outcomes)
  /\ "queued" \notin Outcomes /\ "absent" \notin Outcomes
  /\ Attempts \subseteq Nat
  /\ MaxFaults \in Nat
  /\ MaxOverlaps \in Nat

Statuses == Outcomes \cup {"queued"}
Outcome == [status : Outcomes, attempts : Attempts]
Queued == [status |-> "queued", attempts |-> 0]
NoRow == [status |-> "absent", attempts |-> 0]

VARIABLES
  row,       \* calls_by_campaign: status and attempt_count
  listed,    \* calls_by_status: the call's entry under each status
  create,    \* progress of CreateCall
  pc,        \* next statement of each writer's UpdateCallStatus
  arg,       \* the outcome it was called with
  seen,      \* the status GetCall read
  result,    \* what its last call returned
  alone,     \* history: the update under way, unless others overlap it
  solo,      \* history: the last update to return ran alone and succeeded
  overlaps,  \* updates begun while another was under way
  faults     \* faults so far

tables == <<row, listed>>
history == <<alone, solo, overlaps>>
vars == <<tables, create, pc, arg, seen, result, history, faults>>

\* An UPDATE makes an entry of the columns it sets when there is none: it has no phone
\* number.  An INSERT sets them all.
Entries == {"absent", "bare", "full"}

\* Altered forms: an update that needs an entry to work on, a delete that is forgotten, and
\* one that leaves a mark.
TouchedIfListed(status) == listed
DeletedNot(status) == listed
DeletedMarked(status) == [listed EXCEPT ![status] = "tombstone"]

Touched(status) == [listed EXCEPT ![status] = IF @ = "absent" THEN "bare" ELSE @]
Inserted(status) == [listed EXCEPT ![status] = "full"]
Deleted(status) == [listed EXCEPT ![status] = "absent"]

Pcs == {"idle", "get", "campaign", "touch", "delete", "insert"}

Init ==
  /\ row = NoRow
  /\ listed = [s \in Statuses |-> "absent"]
  /\ create = "campaign"
  /\ pc = [w \in Writers |-> "idle"]
  /\ arg = [w \in Writers |-> NoRow]
  /\ seen = [w \in Writers |-> "absent"]
  /\ result = [w \in Writers |-> "none"]
  /\ alone = {}
  /\ solo = FALSE
  /\ overlaps = 0
  /\ faults = 0

Fault == faults < MaxFaults /\ faults' = faults + 1
NoFault == UNCHANGED faults

-----------------------------------------------------------------------------
(* CreateCall; the call is dispatched, and has outcomes, only if it succeeds *)

InsertCall ==
  /\ create = "campaign"
  /\ \/ NoFault /\ row' = Queued /\ create' = "status"
     \/ Fault /\ row' \in {row, Queued} /\ create' = "failed"
  /\ UNCHANGED <<listed, pc, arg, seen, result, history>>

InsertQueued ==
  /\ create = "status"
  /\ \/ NoFault /\ listed' = Inserted("queued") /\ create' = "created"
     \/ Fault /\ listed' \in {listed, Inserted("queued")} /\ create' = "failed"
  /\ UNCHANGED <<row, pc, arg, seen, result, history>>

-----------------------------------------------------------------------------
(* UpdateCallStatus *)

Busy(w) == {v \in Writers \ {w} : pc[v] # "idle"}

Call(w) ==
  /\ create = "created" /\ pc[w] = "idle"
  /\ \E o \in Outcome : arg' = [arg EXCEPT ![w] = o]
  /\ pc' = [pc EXCEPT ![w] = "get"]
  /\ result' = [result EXCEPT ![w] = "none"]
  /\ \/ Busy(w) = {} /\ alone' = {w} /\ UNCHANGED overlaps
     \/ /\ Busy(w) # {} /\ overlaps < MaxOverlaps
        /\ alone' = {}
        /\ overlaps' = overlaps + 1
  /\ solo' = FALSE
  /\ UNCHANGED <<tables, create, seen, faults>>

Goto(w, step) ==
  /\ pc' = [pc EXCEPT ![w] = step]
  /\ UNCHANGED <<arg, seen, result, history>>

Return(w, answer) ==
  /\ pc' = [pc EXCEPT ![w] = "idle"]
  /\ arg' = [arg EXCEPT ![w] = NoRow]
  /\ seen' = [seen EXCEPT ![w] = "absent"]
  /\ result' = [result EXCEPT ![w] = answer]
  /\ solo' = (answer = "ok" /\ w \in alone)
  /\ alone' = alone \ {w}
  /\ UNCHANGED overlaps

\* Altered form: the call is taken to be queued.
GetCallQueued(w) ==
  /\ pc[w] = "get"
  /\ NoFault
  /\ seen' = [seen EXCEPT ![w] = "queued"]
  /\ pc' = [pc EXCEPT ![w] = "campaign"]
  /\ UNCHANGED <<arg, result, history, tables, create>>

\* The rest of the update depends on the status read here.
GetCall(w) ==
  /\ pc[w] = "get"
  /\ \/ /\ NoFault
        /\ seen' = [seen EXCEPT ![w] = row.status]
        /\ pc' = [pc EXCEPT ![w] = "campaign"]
        /\ UNCHANGED <<arg, result, history>>
     \/ Fault /\ Return(w, "error")
  /\ UNCHANGED <<tables, create>>

\* Altered form: the row is written only if it still has the status read before.
UpdateCampaignIfSeen(w) ==
  /\ pc[w] = "campaign"
  /\ NoFault
  /\ row' = IF row.status = seen[w] THEN arg[w] ELSE row
  /\ Goto(w, "touch")
  /\ UNCHANGED <<listed, create>>

\* A statement that reports an error may have had its effect.
UpdateCampaign(w) ==
  /\ pc[w] = "campaign"
  /\ \/ NoFault /\ row' = arg[w] /\ Goto(w, "touch")
     \/ Fault /\ row' \in {row, arg[w]} /\ Return(w, "error")
  /\ UNCHANGED <<listed, create>>

TouchStatus(w) ==
  /\ pc[w] = "touch"
  /\ \/ /\ NoFault
        /\ listed' = Touched(seen[w])
        /\ IF seen[w] # arg[w].status THEN Goto(w, "delete") ELSE Return(w, "ok")
     \/ Fault /\ listed' \in {listed, Touched(seen[w])} /\ Return(w, "error")
  /\ UNCHANGED <<row, create>>

DeleteOld(w) ==
  /\ pc[w] = "delete"
  /\ \/ NoFault /\ listed' = Deleted(seen[w]) /\ Goto(w, "insert")
     \/ Fault /\ listed' \in {listed, Deleted(seen[w])} /\ Return(w, "error")
  /\ UNCHANGED <<row, create>>

InsertNew(w) ==
  LET inserted == Inserted(arg[w].status)
  IN  /\ pc[w] = "insert"
      /\ \/ NoFault /\ listed' = inserted /\ Return(w, "ok")
         \/ Fault /\ listed' \in {listed, inserted} /\ Return(w, "error")
      /\ UNCHANGED <<row, create>>

\* The worker dies between two statements.
Die(w) ==
  /\ pc[w] # "idle"
  /\ Fault
  /\ Return(w, "error")
  /\ UNCHANGED <<tables, create>>

UpdateCallStatus(w) ==
  \/ GetCall(w) \/ UpdateCampaign(w) \/ TouchStatus(w) \/ DeleteOld(w) \/ InsertNew(w)

Next ==
  \/ InsertCall \/ InsertQueued
  \/ \E w \in Writers : Call(w) \/ UpdateCallStatus(w) \/ Die(w)

Spec == Init /\ [][Next]_vars

-----------------------------------------------------------------------------
(* Properties *)

\* Every variable has its type.
StoreTypeOK ==
  /\ row \in Outcome \cup {Queued, NoRow}
  /\ listed \in [Statuses -> Entries]
  /\ create \in {"campaign", "status", "created", "failed"}
  /\ pc \in [Writers -> Pcs]
  /\ arg \in [Writers -> Outcome \cup {NoRow}]
  /\ seen \in [Writers -> Statuses \cup {"absent"}]
  /\ result \in [Writers -> {"none", "ok", "error"}]
  /\ alone \subseteq Writers
  /\ solo \in BOOLEAN
  /\ overlaps \in Nat
  /\ faults \in Nat

Idle == create = "created" /\ \A w \in Writers : pc[w] = "idle"

\* The entry the call should have under a status.
Due(s) == IF s = row.status THEN "full" ELSE "absent"
Wrong == {s \in Statuses : listed[s] # Due(s)}

\* While updates neither fail nor overlap, the index lists the call under its status,
\* with its phone number, and under no other (UpdateCallStatus moves the entry).
IndexAgrees == Idle /\ faults = 0 /\ overlaps = 0 => Wrong = {}

\* A broken or overlapped update leaves at most its old and its new entry wrong, and later
\* updates do not spread the damage.
DamageBounded == Idle => Cardinality(Wrong) <= 2 * (faults + overlaps)

\* Whatever happened before, an update that succeeds with nobody beside it leaves the call
\* listed under its status: also one that is repeated after its first try died between
\* two statements and finds the row written already (the UPDATE of calls_by_status).
SoloUpdateLists == solo => listed[row.status] # "absent"

\* How far an update is, for somebody who sees only the row.
Progress(step) ==
  IF step = "idle" THEN "idle" ELSE IF step \in {"get", "campaign"} THEN "called" ELSE "made"

\* The row of the call is a register, although an update takes five statements.
Register == INSTANCE CallRegister WITH
  Values <- Outcome, First <- Queued, None <- NoRow, row <- row, arg <- arg, result <- result,
  op <- [w \in Writers |-> Progress(pc[w])]

\* What the status worker may rely on: an update that returned without an error took effect,
\* once and at one moment, whatever the others did meanwhile.
ImplementsRegister == Register!RegisterSpec

-----------------------------------------------------------------------------
(* Inductive strengthenings *)

\* There are updates only of a call that was created, and each has its outcome and, once it
\* has read the row, a status.
UpdatesInv ==
  /\ create = "campaign" => row = NoRow
  /\ create \in {"status", "created"} => row # NoRow
  /\ \A w \in Writers :
        /\ pc[w] # "idle" => create = "created" /\ arg[w] \in Outcome
        /\ pc[w] \in {"campaign", "touch", "delete", "insert"} => seen[w] \in Statuses

\* An update nobody overlaps finds the row as it read or wrote it.
SoloInv ==
  /\ \A w \in alone :
        /\ pc[w] # "idle" /\ \A v \in Writers \ {w} : pc[v] = "idle"
        /\ pc[w] = "campaign" => seen[w] = row.status
        /\ pc[w] \in {"touch", "delete", "insert"} => row = arg[w]
  /\ solo => create = "created" /\ \A w \in Writers : pc[w] = "idle"
  /\ SoloUpdateLists

\* While nothing fails and nothing overlaps, the one entry follows the row.
ListedOnly(status) == \A s \in Statuses : listed[s] = IF s = status THEN "full" ELSE "absent"
Unlisted == \A s \in Statuses : listed[s] = "absent"

Stage(w) ==
  /\ pc[w] \in {"get", "campaign"} => ListedOnly(row.status)
  /\ pc[w] = "campaign" => seen[w] = row.status
  /\ pc[w] \in {"touch", "delete"} => ListedOnly(seen[w])
  /\ pc[w] = "insert" => Unlisted
  /\ pc[w] \in {"touch", "delete", "insert"} => row = arg[w]

IndexInv ==
  faults = 0 /\ overlaps = 0 =>
     /\ create # "failed"
     /\ create \in {"campaign", "status"} => Unlisted
     /\ create = "status" => row = Queued
     /\ \A v, w \in Writers : pc[v] # "idle" /\ pc[w] # "idle" => v = w
     /\ \A w \in Writers : Stage(w)
     /\ Idle => ListedOnly(row.status)

StoreInv == StoreTypeOK /\ UpdatesInv /\ SoloInv /\ IndexInv

\* An update before and after it writes the row.
Before(w) == pc[w] \in {"get", "campaign"}
After(w) == pc[w] \in {"touch", "delete", "insert"}

\* The statuses whose entries are wrong or may become so, if no update begins.
AtRisk ==
  {s \in Statuses :
     s \in Wrong \/ s = row.status \/ \E w \in Writers : pc[w] # "idle" /\ s \in {arg[w].status, seen[w]}}

\* What the faults and overlaps so far may have cost.
Damage == 2 * (faults + overlaps)

\* The row's entry is right, or is going to be, and nobody is going to spoil it.
Mended ==
  /\ \A w \in Writers : After(w) => seen[w] # row.status
  /\ \/ listed[row.status] = "full"
     \/ \E w \in Writers : After(w) /\ arg[w].status = row.status
  /\ \A u \in Writers : Before(u) =>
        /\ arg[u].status # row.status
        /\ \A v \in Writers : pc[v] # "idle" =>
              arg[u].status # seen[v] /\ (Before(v) /\ v # u => arg[u].status # arg[v].status)

\* An update nobody overlaps is going to mend its old and its new entry.
SoloDamage(w) ==
  /\ Before(w) \/ seen[w] = arg[w].status => Cardinality(Wrong) <= Damage
  /\ After(w) => Cardinality(Wrong \ {seen[w], arg[w].status}) <= Damage
  /\ pc[w] \in {"delete", "insert"} => seen[w] # arg[w].status
  /\ pc[w] = "insert" => listed[seen[w]] = "absent"

DamageInv ==
  /\ create \in {"campaign", "status"} => Unlisted
  /\ \A w \in Writers : pc[w] \in {"idle", "get"} => seen[w] = "absent"
  /\ create = "status" => row = Queued
  /\ \A w \in alone : SoloDamage(w)
  /\ create = "created" /\ alone = {} =>
       /\ Cardinality(AtRisk) <= Damage + 1
       /\ Cardinality(AtRisk) = Damage + 1 => Mended
=============================================================================
