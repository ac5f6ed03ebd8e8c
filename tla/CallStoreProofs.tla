-------------------------- MODULE CallStoreProofs --------------------------
(***************************************************************************)
(* The call store for any number of writers, any outcomes and any number   *)
(* of faults and overlapping updates.                                      *)
(***************************************************************************)
EXTENDS CallStore, CountingProofs, TLAPS

\* The three kinds of row are different, and a row that exists has a status.
LEMMA RowFacts ==
  /\ NoRow \notin Outcome /\ NoRow # Queued /\ Queued \notin Outcome
  /\ Queued.status = "queued" /\ NoRow.status = "absent"
  /\ "queued" \in Statuses /\ "absent" \notin Statuses
  /\ \A r \in Outcome \cup {Queued} : r.status \in Statuses
  /\ \A o \in Outcome : o.status # "queued"
BY StoreAssumption DEF NoRow, Queued, Outcome, Statuses

\* What the statements make of the index is an index.
LEMMA IndexFacts ==
  ASSUME StoreTypeOK, NEW s \in Statuses
  PROVE  /\ Touched(s) \in [Statuses -> Entries]
         /\ Inserted(s) \in [Statuses -> Entries]
         /\ Deleted(s) \in [Statuses -> Entries]
         /\ Touched(s)[s] # "absent" /\ Inserted(s)[s] # "absent"
         /\ ListedOnly(s) => Touched(s) = listed
         /\ ListedOnly(s) => \A t \in Statuses : Deleted(s)[t] = "absent"
         /\ Unlisted => \A t \in Statuses : Inserted(s)[t] = IF t = s THEN "full" ELSE "absent"
BY DEF StoreTypeOK, Entries, Touched, Inserted, Deleted, ListedOnly, Unlisted

LEMMA StoreInitial == Init => StoreInv
<1> SUFFICES ASSUME Init PROVE StoreInv
  OBVIOUS
<1>1. StoreTypeOK
  BY RowFacts DEF Init, StoreTypeOK, Entries, Pcs
<1>2. UpdatesInv /\ SoloInv
  BY RowFacts DEF Init, UpdatesInv, SoloInv, SoloUpdateLists
<1>3. IndexInv
  BY DEF Init, IndexInv, Unlisted, Stage, Idle
<1> QED
  BY <1>1, <1>2, <1>3 DEF StoreInv

-----------------------------------------------------------------------------
(* CreateCall *)

LEMMA InsertCallKeeps ==
  ASSUME StoreInv, InsertCall
  PROVE  StoreInv'
<1> USE DEF StoreInv
<1>1. /\ create = "campaign" /\ create' \in {"status", "failed"}
      /\ row' \in {row, Queued} /\ (create' = "status" => row' = Queued)
      /\ faults' \in Nat /\ (faults' = faults => create' = "status")
      /\ faults' # 0 \/ faults' = faults
      /\ UNCHANGED <<listed, pc, arg, seen, result, alone, solo, overlaps>>
  BY DEF InsertCall, Fault, NoFault, history, StoreTypeOK
<1>2. \A w \in Writers : pc[w] = "idle"
  BY <1>1 DEF UpdatesInv
<1>3. StoreTypeOK'
  BY <1>1 DEF StoreTypeOK
<1>4. UpdatesInv'
  BY <1>1, <1>2, RowFacts DEF UpdatesInv
<1>5. alone = {} /\ solo = FALSE
  BY <1>1, <1>2 DEF SoloInv, StoreTypeOK
<1>6. SoloInv'
  BY <1>1, <1>5 DEF SoloInv, SoloUpdateLists
<1>7. IndexInv'
  BY <1>1, <1>2 DEF IndexInv, Stage, Unlisted, Idle
<1> QED
  BY <1>3, <1>4, <1>6, <1>7

LEMMA InsertQueuedKeeps ==
  ASSUME StoreInv, InsertQueued
  PROVE  StoreInv'
<1> USE DEF StoreInv
<1>1. /\ create = "status" /\ create' \in {"created", "failed"}
      /\ listed' \in {listed, Inserted("queued")}
      /\ create' = "created" => listed' = Inserted("queued") /\ faults' = faults
      /\ faults' \in Nat /\ (faults' = faults => create' = "created")
      /\ faults' # 0 \/ faults' = faults
      /\ UNCHANGED <<row, pc, arg, seen, result, alone, solo, overlaps>>
  BY DEF InsertQueued, Fault, NoFault, history, StoreTypeOK
<1>2. \A w \in Writers : pc[w] = "idle"
  BY <1>1 DEF UpdatesInv
<1>3. StoreTypeOK'
  BY <1>1, RowFacts, IndexFacts DEF StoreTypeOK
<1>4. UpdatesInv'
  BY <1>1, <1>2 DEF UpdatesInv
<1>5. alone = {} /\ solo = FALSE
  BY <1>1, <1>2 DEF SoloInv, StoreTypeOK
<1>6. SoloInv'
  BY <1>1, <1>5 DEF SoloInv, SoloUpdateLists
<1>7. IndexInv'
  <2>1. SUFFICES ASSUME faults' = 0, overlaps' = 0
                 PROVE  IndexInv'
    BY DEF IndexInv
  <2>2. create' = "created" /\ row' = Queued /\ Unlisted /\ listed' = Inserted("queued")
    BY <1>1, <2>1 DEF IndexInv
  <2>3. ListedOnly(row.status)'
    BY <2>2, RowFacts, IndexFacts DEF ListedOnly
  <2> QED
    BY <1>1, <1>2, <2>2, <2>3 DEF IndexInv, Stage
<1> QED
  BY <1>3, <1>4, <1>6, <1>7

-----------------------------------------------------------------------------
(* UpdateCallStatus *)

LEMMA CallKeeps ==
  ASSUME StoreInv, NEW w \in Writers, Call(w)
  PROVE  StoreInv'
<1> USE DEF StoreInv
<1>1. /\ create = "created" /\ pc[w] = "idle"
      /\ arg'[w] \in Outcome /\ arg' \in [Writers -> Outcome \cup {NoRow}]
      /\ \A v \in Writers \ {w} : arg'[v] = arg[v]
      /\ pc' = [pc EXCEPT ![w] = "get"]
      /\ result' \in [Writers -> {"none", "ok", "error"}]
      /\ solo' = FALSE
      /\ UNCHANGED <<row, listed, create, seen, faults>>
  BY DEF Call, tables, StoreTypeOK
<1>2. /\ alone' \in {{}, {w}}
      /\ alone' = {w} => \A v \in Writers \ {w} : pc[v] = "idle"
      /\ overlaps' \in Nat
      /\ overlaps' = 0 => /\ overlaps = 0
                          /\ \A v \in Writers \ {w} : pc[v] = "idle"
  BY DEF Call, Busy, StoreTypeOK
<1>3. /\ pc' \in [Writers -> Pcs] /\ pc'[w] = "get"
      /\ \A v \in Writers \ {w} : pc'[v] = pc[v]
  BY <1>1 DEF StoreTypeOK, Pcs
<1>4. StoreTypeOK'
  BY <1>1, <1>2, <1>3 DEF StoreTypeOK
<1>5. UpdatesInv'
  BY <1>1, <1>3 DEF UpdatesInv
<1>6. SoloInv'
  BY <1>1, <1>2, <1>3 DEF SoloInv, SoloUpdateLists
<1>7. IndexInv'
  <2>1. SUFFICES ASSUME faults' = 0, overlaps' = 0
                 PROVE  IndexInv'
    BY DEF IndexInv
  <2>2. Idle /\ ListedOnly(row.status)
    BY <1>1, <1>2, <2>1 DEF IndexInv, Idle
  <2>3. \A v \in Writers : Stage(v)'
    BY <1>1, <1>2, <1>3, <2>1, <2>2 DEF Stage, Idle, ListedOnly
  <2> QED
    BY <1>1, <1>2, <1>3, <2>1, <2>2, <2>3 DEF IndexInv, Idle
<1> QED
  BY <1>4, <1>5, <1>6, <1>7

\* While w has an update under way, nobody else's is the only one.
LEMMA NobodyElseAlone ==
  ASSUME StoreInv, NEW w \in Writers, pc[w] # "idle"
  PROVE  /\ alone \ {w} = {} /\ solo = FALSE
         /\ create = "created" /\ row \in Outcome \cup {Queued} /\ arg[w] \in Outcome
         /\ faults = 0 /\ overlaps = 0 => \A v \in Writers \ {w} : pc[v] = "idle"
BY RowFacts DEF StoreInv, SoloInv, UpdatesInv, StoreTypeOK, IndexInv

\* An update that breaks off, whatever part of its statement took effect.
LEMMA BreakKeeps ==
  ASSUME StoreInv, NEW w \in Writers, pc[w] # "idle", Fault, Return(w, "error"),
         row' \in {row, arg[w]}, listed' \in [Statuses -> Entries], UNCHANGED create
  PROVE  StoreInv'
<1> USE DEF StoreInv
<1>1. /\ pc' = [pc EXCEPT ![w] = "idle"] /\ arg' = [arg EXCEPT ![w] = NoRow]
      /\ seen' = [seen EXCEPT ![w] = "absent"] /\ result' = [result EXCEPT ![w] = "error"]
      /\ alone' = {} /\ overlaps' = overlaps
      /\ faults' \in Nat \ {0}
  <2>1. alone' = {}
    BY NobodyElseAlone, Zenon DEF Return
  <2>2. faults' \in Nat \ {0}
    BY DEF Fault, StoreTypeOK
  <2> QED
    BY <2>1, <2>2, Zenon DEF Return
<1>6. solo' = FALSE
  BY Zenon DEF Return
<1>2. StoreTypeOK'
  <2>1. row' \in Outcome \cup {Queued, NoRow}
    BY NobodyElseAlone DEF StoreTypeOK
  <2>2. pc' \in [Writers -> Pcs] /\ arg' \in [Writers -> Outcome \cup {NoRow}]
    BY <1>1 DEF StoreTypeOK, Pcs
  <2>3. /\ seen' \in [Writers -> Statuses \cup {"absent"}]
        /\ result' \in [Writers -> {"none", "ok", "error"}]
    BY <1>1 DEF StoreTypeOK
  <2>4. solo' \in BOOLEAN
    BY <1>6, Zenon
  <2> QED
    BY <1>1, <2>1, <2>2, <2>3, <2>4 DEF StoreTypeOK
<1>3. UpdatesInv'
  BY <1>1, RowFacts, NobodyElseAlone DEF UpdatesInv, StoreTypeOK
<1>4. SoloInv'
  BY <1>1, <1>6 DEF SoloInv, SoloUpdateLists
<1>5. IndexInv'
  BY <1>1 DEF IndexInv
<1> QED
  BY <1>2, <1>3, <1>4, <1>5

\* An update that goes on to its next statement or returns leaves the others alone.
LEMMA OthersStay ==
  ASSUME StoreInv, NEW w \in Writers, NEW step \in Pcs, Goto(w, step)
  PROVE  /\ pc' \in [Writers -> Pcs] /\ pc'[w] = step
         /\ \A v \in Writers \ {w} : pc'[v] = pc[v]
         /\ UNCHANGED <<arg, seen, result, alone, solo, overlaps>>
BY DEF StoreInv, StoreTypeOK, Goto, history

LEMMA GetCallKeeps ==
  ASSUME StoreInv, NEW w \in Writers, GetCall(w)
  PROVE  StoreInv'
<1>1. pc[w] = "get" /\ UNCHANGED <<row, listed, create>>
  BY DEF GetCall, tables
<1>2. CASE Fault /\ Return(w, "error")
  BY <1>1, <1>2, BreakKeeps DEF StoreInv, StoreTypeOK
<1>3. CASE /\ NoFault
           /\ seen' = [seen EXCEPT ![w] = row.status]
           /\ pc' = [pc EXCEPT ![w] = "campaign"]
           /\ UNCHANGED <<arg, result, history>>
  <2> USE DEF StoreInv
  <2>1. /\ pc' \in [Writers -> Pcs] /\ pc'[w] = "campaign" /\ seen'[w] = row.status
        /\ seen' \in [Writers -> Statuses \cup {"absent"}] /\ row.status \in Statuses
        /\ \A v \in Writers \ {w} : pc'[v] = pc[v] /\ seen'[v] = seen[v]
        /\ UNCHANGED <<arg, result, alone, solo, overlaps, faults>>
    BY <1>1, <1>3, NobodyElseAlone, RowFacts DEF StoreTypeOK, Pcs, history, NoFault
  <2>2. StoreTypeOK'
    BY <1>1, <2>1 DEF StoreTypeOK
  <2>3. UpdatesInv'
    BY <1>1, <2>1 DEF UpdatesInv
  <2>4. SoloInv'
    BY <1>1, <2>1, NobodyElseAlone DEF SoloInv, SoloUpdateLists
  <2>5. IndexInv'
    BY <1>1, <2>1, NobodyElseAlone DEF IndexInv, Stage, ListedOnly, Unlisted, Idle
  <2> QED
    BY <2>2, <2>3, <2>4, <2>5
<1> QED
  BY <1>2, <1>3 DEF GetCall

LEMMA UpdateCampaignKeeps ==
  ASSUME StoreInv, NEW w \in Writers, UpdateCampaign(w)
  PROVE  StoreInv'
<1>1. pc[w] = "campaign" /\ UNCHANGED <<listed, create>>
  BY DEF UpdateCampaign
<1>2. CASE Fault /\ row' \in {row, arg[w]} /\ Return(w, "error")
  BY <1>1, <1>2, BreakKeeps DEF StoreInv, StoreTypeOK
<1>3. CASE NoFault /\ row' = arg[w] /\ Goto(w, "touch")
  <2> USE DEF StoreInv
  <2>1. /\ pc' \in [Writers -> Pcs] /\ pc'[w] = "touch"
        /\ \A v \in Writers \ {w} : pc'[v] = pc[v]
        /\ UNCHANGED <<arg, seen, result, alone, solo, overlaps, faults>>
    BY <1>3, OthersStay DEF Pcs, NoFault
  <2>2. StoreTypeOK'
    BY <1>1, <1>3, <2>1, NobodyElseAlone DEF StoreTypeOK
  <2>3. UpdatesInv'
    BY <1>1, <1>3, <2>1, NobodyElseAlone, RowFacts DEF UpdatesInv
  <2>4. SoloInv'
    BY <1>1, <1>3, <2>1, NobodyElseAlone DEF SoloInv, SoloUpdateLists
  <2>5. IndexInv'
    <3>1. SUFFICES ASSUME faults' = 0, overlaps' = 0
                   PROVE  IndexInv'
      BY DEF IndexInv
    <3>2. \A v \in Writers \ {w} : pc[v] = "idle"
      BY <1>1, <2>1, <3>1, NobodyElseAlone
    <3>3. ListedOnly(seen[w]) /\ create = "created"
      BY <1>1, <2>1, <3>1, NobodyElseAlone DEF IndexInv, Stage
    <3>4. Stage(w)'
      BY <1>1, <1>3, <2>1, <3>3 DEF Stage, ListedOnly
    <3>5. \A v \in Writers \ {w} : Stage(v)'
      BY <2>1, <3>2 DEF Stage
    <3> QED
      BY <1>1, <2>1, <3>2, <3>3, <3>4, <3>5 DEF IndexInv, Idle
  <2> QED
    BY <2>2, <2>3, <2>4, <2>5
<1> QED
  BY <1>2, <1>3 DEF UpdateCampaign

\* An update that goes on to a later statement and has left the row alone.
LEMMA GoOnKeeps ==
  ASSUME StoreInv, NEW w \in Writers, NEW step \in {"delete", "insert"},
         pc[w] \in {"touch", "delete"}, Goto(w, step), NoFault, UNCHANGED <<row, create>>,
         listed' \in [Statuses -> Entries],
         faults = 0 /\ overlaps = 0 => IF step = "insert" THEN Unlisted' ELSE listed' = listed
  PROVE  StoreInv'
<1> USE DEF StoreInv
<1>1. /\ pc' \in [Writers -> Pcs] /\ pc'[w] = step
      /\ \A v \in Writers \ {w} : pc'[v] = pc[v]
      /\ UNCHANGED <<arg, seen, result, alone, solo, overlaps, faults>>
  BY OthersStay DEF Pcs, NoFault
<1>2. StoreTypeOK'
  BY <1>1 DEF StoreTypeOK
<1>3. UpdatesInv'
  BY <1>1 DEF UpdatesInv
<1>4. SoloInv'
  BY <1>1, NobodyElseAlone DEF SoloInv, SoloUpdateLists
<1>5. IndexInv'
  <2>1. SUFFICES ASSUME faults' = 0, overlaps' = 0
                 PROVE  IndexInv'
    BY DEF IndexInv
  <2>2. /\ \A v \in Writers \ {w} : pc[v] = "idle"
        /\ create = "created" /\ ListedOnly(seen[w]) /\ row = arg[w]
    BY <1>1, <2>1, NobodyElseAlone DEF IndexInv, Stage
  <2>3. Stage(w)'
    BY <1>1, <2>1, <2>2 DEF Stage, ListedOnly
  <2>4. \A v \in Writers \ {w} : Stage(v)'
    BY <1>1, <2>2 DEF Stage
  <2> QED
    BY <1>1, <2>2, <2>3, <2>4 DEF IndexInv, Idle
<1> QED
  BY <1>2, <1>3, <1>4, <1>5

\* An update that succeeds.
LEMMA SucceedKeeps ==
  ASSUME StoreInv, NEW w \in Writers, pc[w] \in {"touch", "insert"}, Return(w, "ok"), NoFault,
         UNCHANGED <<row, create>>, listed' \in [Statuses -> Entries],
         listed'[arg[w].status] # "absent",
         faults = 0 /\ overlaps = 0 =>
            \A s \in Statuses : listed'[s] = IF s = arg[w].status THEN "full" ELSE "absent"
  PROVE  StoreInv'
<1> USE DEF StoreInv
<1>1. /\ pc' = [pc EXCEPT ![w] = "idle"] /\ arg' = [arg EXCEPT ![w] = NoRow]
      /\ seen' = [seen EXCEPT ![w] = "absent"] /\ result' = [result EXCEPT ![w] = "ok"]
      /\ alone' = {} /\ overlaps' = overlaps /\ faults' = faults
  <2>1. alone' = {}
    BY NobodyElseAlone, Zenon DEF Return
  <2> QED
    BY <2>1, Zenon DEF Return, NoFault
<1>2. solo' \in BOOLEAN /\ (solo' => w \in alone)
  BY Zenon DEF Return
<1>3. /\ pc' \in [Writers -> Pcs] /\ pc'[w] = "idle"
      /\ \A v \in Writers \ {w} : pc'[v] = pc[v] /\ arg'[v] = arg[v] /\ seen'[v] = seen[v]
  BY <1>1 DEF StoreTypeOK, Pcs
<1>4. StoreTypeOK'
  <2>1. arg' \in [Writers -> Outcome \cup {NoRow}]
    BY <1>1 DEF StoreTypeOK
  <2>2. /\ seen' \in [Writers -> Statuses \cup {"absent"}]
        /\ result' \in [Writers -> {"none", "ok", "error"}]
    BY <1>1 DEF StoreTypeOK
  <2> QED
    BY <1>1, <1>2, <1>3, <2>1, <2>2 DEF StoreTypeOK
<1>5. UpdatesInv'
  BY <1>3 DEF UpdatesInv
<1>6. SoloInv'
  <2>1. ASSUME solo'
        PROVE  /\ create' = "created" /\ \A v \in Writers : pc'[v] = "idle"
               /\ listed'[row'.status] # "absent"
    BY <1>2, <1>3, <2>1, NobodyElseAlone DEF SoloInv
  <2> QED
    BY <1>1, <2>1 DEF SoloInv, SoloUpdateLists
<1>7. IndexInv'
  <2>1. SUFFICES ASSUME faults' = 0, overlaps' = 0
                 PROVE  IndexInv'
    BY DEF IndexInv
  <2>2. /\ \A v \in Writers \ {w} : pc[v] = "idle"
        /\ create = "created" /\ row = arg[w]
    BY <1>1, <2>1, NobodyElseAlone DEF IndexInv, Stage
  <2>3. ListedOnly(row.status)'
    BY <1>1, <2>1, <2>2 DEF ListedOnly
  <2>4. \A v \in Writers : Stage(v)'
    BY <1>3, <2>2 DEF Stage
  <2> QED
    BY <1>3, <2>2, <2>3, <2>4 DEF IndexInv, Idle
<1> QED
  BY <1>4, <1>5, <1>6, <1>7

LEMMA TouchStatusKeeps ==
  ASSUME StoreInv, NEW w \in Writers, TouchStatus(w)
  PROVE  StoreInv'
<1>1. pc[w] = "touch" /\ seen[w] \in Statuses /\ UNCHANGED <<row, create>>
  BY DEF TouchStatus, StoreInv, UpdatesInv
<1>2. CASE Fault /\ listed' \in {listed, Touched(seen[w])} /\ Return(w, "error")
  <2>1. StoreTypeOK /\ listed \in [Statuses -> Entries]
    BY DEF StoreInv, StoreTypeOK
  <2>2. listed' \in [Statuses -> Entries]
    BY <1>1, <1>2, <2>1, IndexFacts
  <2> QED
    BY <1>1, <1>2, <2>2, BreakKeeps
<1>3. faults = 0 /\ overlaps = 0 => ListedOnly(seen[w])
  BY <1>1 DEF StoreInv, IndexInv, Stage
<1>4. CASE NoFault /\ listed' = Touched(seen[w]) /\ Goto(w, "delete")
  BY <1>1, <1>3, <1>4, GoOnKeeps, IndexFacts DEF StoreInv
<1>5. CASE /\ NoFault /\ listed' = Touched(seen[w])
           /\ seen[w] = arg[w].status /\ Return(w, "ok")
  <2>1. ListedOnly(seen[w]) =>
          \A s \in Statuses : listed'[s] = IF s = arg[w].status THEN "full" ELSE "absent"
    BY <1>1, <1>5, IndexFacts DEF ListedOnly, StoreInv
  <2> QED
    BY <1>1, <1>3, <1>5, <2>1, SucceedKeeps, IndexFacts DEF StoreInv
<1> QED
  BY <1>2, <1>4, <1>5 DEF TouchStatus

LEMMA DeleteOldKeeps ==
  ASSUME StoreInv, NEW w \in Writers, DeleteOld(w)
  PROVE  StoreInv'
<1>1. pc[w] = "delete" /\ seen[w] \in Statuses /\ UNCHANGED <<row, create>>
  BY DEF DeleteOld, StoreInv, UpdatesInv
<1>2. CASE Fault /\ listed' \in {listed, Deleted(seen[w])} /\ Return(w, "error")
  <2>1. StoreTypeOK /\ listed \in [Statuses -> Entries]
    BY DEF StoreInv, StoreTypeOK
  <2>2. listed' \in [Statuses -> Entries]
    BY <1>1, <1>2, <2>1, IndexFacts
  <2> QED
    BY <1>1, <1>2, <2>2, BreakKeeps
<1>3. CASE NoFault /\ listed' = Deleted(seen[w]) /\ Goto(w, "insert")
  <2>1. faults = 0 /\ overlaps = 0 => Unlisted'
    BY <1>1, <1>3, IndexFacts DEF StoreInv, IndexInv, Stage, Unlisted
  <2> QED
    BY <1>1, <1>3, <2>1, GoOnKeeps, IndexFacts DEF StoreInv
<1> QED
  BY <1>2, <1>3 DEF DeleteOld

LEMMA InsertNewKeeps ==
  ASSUME StoreInv, NEW w \in Writers, InsertNew(w)
  PROVE  StoreInv'
<1>1. pc[w] = "insert" /\ arg[w].status \in Statuses /\ UNCHANGED <<row, create>>
  BY RowFacts DEF InsertNew, StoreInv, UpdatesInv
<1>2. CASE Fault /\ listed' \in {listed, Inserted(arg[w].status)} /\ Return(w, "error")
  <2>1. StoreTypeOK /\ listed \in [Statuses -> Entries]
    BY DEF StoreInv, StoreTypeOK
  <2>2. listed' \in [Statuses -> Entries]
    BY <1>1, <1>2, <2>1, IndexFacts
  <2> QED
    BY <1>1, <1>2, <2>2, BreakKeeps
<1>3. CASE NoFault /\ listed' = Inserted(arg[w].status) /\ Return(w, "ok")
  <2>1. faults = 0 /\ overlaps = 0 =>
          \A s \in Statuses : listed'[s] = IF s = arg[w].status THEN "full" ELSE "absent"
    BY <1>1, <1>3, IndexFacts DEF StoreInv, IndexInv, Stage
  <2> QED
    BY <1>1, <1>3, <2>1, SucceedKeeps, IndexFacts DEF StoreInv
<1> QED
  BY <1>2, <1>3 DEF InsertNew

LEMMA DieKeeps ==
  ASSUME StoreInv, NEW w \in Writers, Die(w)
  PROVE  StoreInv'
<1>1. listed \in [Statuses -> Entries]
  BY DEF StoreInv, StoreTypeOK
<1> QED
  BY <1>1, BreakKeeps DEF Die, tables

\* The inductive invariant of the call store.
THEOREM StoreInvariant == Spec => []StoreInv
<1>1. ASSUME StoreInv, [Next]_vars
      PROVE  StoreInv'
  <2>1. CASE UNCHANGED vars
    BY <1>1, <2>1 DEF vars, tables, history, StoreInv, StoreTypeOK, UpdatesInv, SoloInv,
       SoloUpdateLists, IndexInv, Stage, ListedOnly, Unlisted, Idle
  <2>2. CASE Next
    BY <1>1, <2>2, InsertCallKeeps, InsertQueuedKeeps, CallKeeps, GetCallKeeps,
       UpdateCampaignKeeps, TouchStatusKeeps, DeleteOldKeeps, InsertNewKeeps, DieKeeps
       DEF Next, UpdateCallStatus
  <2> QED
    BY <1>1, <2>1, <2>2
<1> QED
  BY <1>1, StoreInitial, PTL DEF Spec

\* Every variable of the call store keeps its type.
THEOREM StoreTypeCorrect == Spec => []StoreTypeOK
<1>1. StoreInv => StoreTypeOK
  BY DEF StoreInv
<1> QED
  BY <1>1, StoreInvariant, PTL

\* An update that succeeds with nobody beside it leaves the call listed under its status,
\* after any number of broken and overlapping updates.
THEOREM SoloUpdatesList == Spec => []SoloUpdateLists
<1>1. StoreInv => SoloUpdateLists
  BY DEF StoreInv, SoloInv
<1> QED
  BY <1>1, StoreInvariant, PTL

\* While updates neither fail nor overlap the index lists the call under its status only.
THEOREM IndexFollowsRow == Spec => []IndexAgrees
<1>1. StoreInv => IndexAgrees
  <2> SUFFICES ASSUME StoreInv, Idle, faults = 0, overlaps = 0
               PROVE  Wrong = {}
    BY DEF IndexAgrees
  <2>1. ListedOnly(row.status)
    BY DEF StoreInv, IndexInv
  <2> QED
    BY <2>1 DEF ListedOnly, Wrong, Due
<1> QED
  BY <1>1, StoreInvariant, PTL

-----------------------------------------------------------------------------
(* The damage broken and overlapping updates do *)

LEMMA DamageFacts ==
  ASSUME StoreInv
  PROVE  /\ IsFiniteSet(Statuses)
         /\ Wrong \in SUBSET Statuses /\ AtRisk \in SUBSET Statuses /\ Wrong \subseteq AtRisk
         /\ Damage \in Nat
         /\ IsFiniteSet(Wrong) /\ Cardinality(Wrong) \in Nat
         /\ IsFiniteSet(AtRisk) /\ Cardinality(AtRisk) \in Nat
<1>1. IsFiniteSet(Statuses)
  BY StoreAssumption, FS_AddElement DEF Statuses
<1>2. Wrong \in SUBSET Statuses /\ AtRisk \in SUBSET Statuses /\ Wrong \subseteq AtRisk
  BY DEF Wrong, AtRisk
<1>3. Damage \in Nat
  BY DEF Damage, StoreInv, StoreTypeOK
<1> QED
  BY <1>1, <1>2, <1>3, PartsCounted

\* While no update is under way, only what is wrong and the row's status are at risk.
LEMMA IdleRisk ==
  ASSUME StoreInv, Idle
  PROVE  /\ Cardinality(Wrong) <= Damage => /\ Cardinality(AtRisk) <= Damage + 1
                                            /\ Cardinality(AtRisk) = Damage + 1 => Mended
         /\ /\ Cardinality(AtRisk) <= Damage + 1
            /\ Cardinality(AtRisk) = Damage + 1 => Mended
            => Cardinality(Wrong) <= Damage
<1>1. \A w \in Writers : pc[w] = "idle" /\ ~Before(w) /\ ~After(w)
  BY DEF Idle, Before, After
<1>2. row.status \in Statuses
  BY RowFacts DEF Idle, StoreInv, UpdatesInv, StoreTypeOK
<1>3. AtRisk = Wrong \cup {row.status}
  BY <1>1, <1>2 DEF AtRisk, Wrong
<1>4. Mended <=> listed[row.status] = "full"
  BY <1>1 DEF Mended
<1>5. row.status \notin Wrong <=> listed[row.status] = "full"
  BY <1>2 DEF Wrong, Due
<1>6. Cardinality(AtRisk) = IF row.status \in Wrong THEN Cardinality(Wrong) ELSE Cardinality(Wrong) + 1
  BY <1>3, DamageFacts, FS_AddElement
<1> QED
  BY <1>4, <1>5, <1>6, DamageFacts

\* A statement of w's update, whether it succeeds, fails or is not reached: what it writes,
\* and where the update goes on.
LEMMA StatementEffect ==
  ASSUME StoreInv, DamageInv, NEW w \in Writers, UpdateCallStatus(w) \/ Die(w)
  PROVE  /\ pc[w] # "idle" /\ create = "created" /\ UNCHANGED <<create, overlaps>>
         /\ alone' \subseteq alone /\ (pc'[w] # "idle" => alone' = alone)
         /\ row' \in {row, arg[w]}
         /\ \A s \in Statuses : s \notin {seen[w], arg[w].status} => listed'[s] = listed[s]
         /\ Before(w) => listed' = listed
         /\ After(w) => row' = row
         /\ \A v \in Writers \ {w} : pc'[v] = pc[v] /\ arg'[v] = arg[v] /\ seen'[v] = seen[v]
         /\ \/ pc'[w] = "idle" /\ seen'[w] = "absent"
            \/ /\ pc'[w] \notin {"idle", "get"} /\ faults' = faults
               /\ arg'[w] = arg[w] /\ seen'[w] \in {seen[w], row.status}
         /\ \/ faults' = faults /\ Damage' = Damage
            \/ faults' = faults + 1 /\ Damage' = Damage + 2 /\ pc'[w] = "idle"
<1>1. pc[w] # "idle" /\ create = "created"
  BY NobodyElseAlone DEF UpdateCallStatus, GetCall, UpdateCampaign, TouchStatus, DeleteOld, InsertNew, Die
<1>2. /\ faults \in Nat /\ overlaps \in Nat
      /\ seen[w] \in Statuses \cup {"absent"} /\ arg[w].status \in Statuses
      /\ listed \in [Statuses -> Entries]
      /\ pc \in [Writers -> Pcs] /\ arg \in [Writers -> Outcome \cup {NoRow}]
      /\ seen \in [Writers -> Statuses \cup {"absent"}]
  BY <1>1, NobodyElseAlone, RowFacts DEF StoreInv, StoreTypeOK
<1>3. Before(w) <=> pc[w] \in {"get", "campaign"}
  BY DEF Before
<1>4. After(w) <=> pc[w] \in {"touch", "delete", "insert"}
  BY DEF After
<1>5. /\ \A s \in Statuses : s # seen[w] => Touched(seen[w])[s] = listed[s]
      /\ \A s \in Statuses : s # seen[w] => Deleted(seen[w])[s] = listed[s]
      /\ \A s \in Statuses : s # arg[w].status => Inserted(arg[w].status)[s] = listed[s]
  BY <1>2 DEF Touched, Deleted, Inserted
<1>6. /\ create' = create /\ row' \in {row, arg[w]}
      /\ \A s \in Statuses : s \notin {seen[w], arg[w].status} => listed'[s] = listed[s]
      /\ Before(w) => listed' = listed
      /\ After(w) => row' = row
  BY <1>3, <1>4, <1>5 DEF UpdateCallStatus, GetCall, UpdateCampaign, TouchStatus, DeleteOld, InsertNew, Die, tables
<1>7. \/ Fault /\ Return(w, "error")
      \/ NoFault /\ Return(w, "ok")
      \/ NoFault /\ \E step \in {"campaign", "touch", "delete", "insert"} :
            /\ pc' = [pc EXCEPT ![w] = step] /\ seen' \in {seen, [seen EXCEPT ![w] = row.status]}
            /\ UNCHANGED <<arg, alone, overlaps>>
  BY DEF UpdateCallStatus, GetCall, UpdateCampaign, TouchStatus, DeleteOld, InsertNew, Die, Goto, history
<1>8. CASE \E answer \in {"ok", "error"} : Return(w, answer)
  <2>1. /\ pc' = [pc EXCEPT ![w] = "idle"] /\ arg' = [arg EXCEPT ![w] = NoRow]
        /\ seen' = [seen EXCEPT ![w] = "absent"] /\ alone' = alone \ {w} /\ overlaps' = overlaps
    BY <1>8, Zenon DEF Return
  <2>2. faults' \in {faults, faults + 1}
    BY <1>7 DEF Fault, NoFault
  <2>3. pc'[w] = "idle" /\ seen'[w] = "absent"
    BY <2>1, <1>2
  <2>4. \A v \in Writers \ {w} : pc'[v] = pc[v] /\ arg'[v] = arg[v] /\ seen'[v] = seen[v]
    BY <2>1, <1>2
  <2>5. Damage' = IF faults' = faults THEN Damage ELSE Damage + 2
    <3>1. faults \in Nat /\ overlaps \in Nat /\ overlaps' = overlaps
      BY <1>2, <2>1
    <3>2. CASE faults' = faults
      BY <3>1, <3>2 DEF Damage
    <3>3. CASE faults' = faults + 1
      <4>1. Damage' = 2 * ((faults + 1) + overlaps)
        BY <3>1, <3>3 DEF Damage
      <4>2. Damage' = Damage + 2
        BY <3>1, <4>1 DEF Damage
      <4> QED
        BY <3>1, <3>3, <4>2
    <3> QED
      BY <2>2, <3>2, <3>3
  <2>6. alone' \subseteq alone
    BY <2>1
  <2> QED
    BY <1>1, <1>6, <2>1, <2>2, <2>3, <2>4, <2>5, <2>6
<1>9. CASE NoFault /\ \E step \in {"campaign", "touch", "delete", "insert"} :
            /\ pc' = [pc EXCEPT ![w] = step] /\ seen' \in {seen, [seen EXCEPT ![w] = row.status]}
            /\ UNCHANGED <<arg, alone, overlaps>>
  <2>1. /\ pc'[w] \notin {"idle", "get"} /\ seen'[w] \in {seen[w], row.status}
        /\ \A v \in Writers \ {w} : pc'[v] = pc[v] /\ arg'[v] = arg[v] /\ seen'[v] = seen[v]
    BY <1>9, <1>2
  <2>2. faults' = faults /\ Damage' = Damage
    BY <1>9 DEF NoFault, Damage
  <2> QED
    BY <1>1, <1>6, <1>9, <2>1, <2>2
<1> QED
  BY <1>7, <1>8, <1>9

\* No statement puts a status at risk that was not.
LEMMA StatementRisk ==
  ASSUME StoreInv, DamageInv, StoreInv', NEW w \in Writers, UpdateCallStatus(w) \/ Die(w)
  PROVE  AtRisk' \subseteq AtRisk
<1>1. row.status \in Statuses /\ arg[w].status \in Statuses
  BY StatementEffect, NobodyElseAlone, RowFacts
<1>2. ASSUME NEW s \in Wrong'
      PROVE  s \in AtRisk
  <2>1. s \in Statuses /\ listed'[s] # Due(s)'
    BY <1>2 DEF Wrong
  <2>2. CASE s \in {row.status, arg[w].status, seen[w]}
    BY <2>1, <2>2, StatementEffect DEF AtRisk
  <2>3. CASE s \notin {row.status, arg[w].status, seen[w]}
    <3>1. listed'[s] = listed[s] /\ Due(s)' = "absent" /\ Due(s) = "absent"
      BY <2>1, <2>3, StatementEffect DEF Due
    <3> QED
      BY <2>1, <3>1 DEF Wrong, AtRisk
  <2> QED
    BY <2>2, <2>3
<1>3. row'.status \in AtRisk
  BY <1>1, StatementEffect DEF AtRisk
<1>4. ASSUME NEW s \in Statuses, NEW v \in Writers, pc'[v] # "idle", s \in {arg'[v].status, seen'[v]}
      PROVE  s \in AtRisk
  <2>1. CASE v = w
    <3>1. s \in {arg[w].status, seen[w], row.status} /\ pc[w] # "idle"
      BY <1>4, <2>1, StatementEffect
    <3> QED
      BY <3>1, <1>1 DEF AtRisk
  <2>2. CASE v # w
    <3>1. s \in {arg[v].status, seen[v]} /\ pc[v] # "idle"
      BY <1>4, <2>2, StatementEffect
    <3> QED
      BY <3>1 DEF AtRisk
  <2> QED
    BY <2>1, <2>2
<1> QED
  BY <1>2, <1>3, <1>4 DEF AtRisk

\* A statement that succeeds keeps the row's entry mended.
LEMMA StatementMends ==
  ASSUME StoreInv, DamageInv, NEW w \in Writers, UpdateCallStatus(w) \/ Die(w), UNCHANGED faults, Mended
  PROVE  Mended'
<1> USE DEF Before, After
<1>0. faults \in Nat /\ pc \in [Writers -> Pcs] /\ ~Fault
  BY DEF StoreInv, StoreTypeOK, Fault
<1>1. /\ arg[w].status \in Statuses /\ row.status \in Statuses
      /\ listed \in [Statuses -> Entries]
      /\ \A v \in Writers \ {w} : pc'[v] = pc[v] /\ arg'[v] = arg[v] /\ seen'[v] = seen[v]
      /\ pc'[w] = "idle" \/ arg'[w] = arg[w]
  BY StatementEffect, NobodyElseAlone, RowFacts DEF StoreInv, StoreTypeOK
<1>2. /\ \A v \in Writers : After(v) => seen[v] # row.status
      /\ listed[row.status] = "full" \/ \E v \in Writers : After(v) /\ arg[v].status = row.status
      /\ \A u \in Writers : Before(u) => arg[u].status # row.status
      /\ \A u, v \in Writers : Before(u) /\ pc[v] # "idle" => arg[u].status # seen[v]
      /\ \A u, v \in Writers : Before(u) /\ Before(v) /\ v # u => arg[u].status # arg[v].status
  BY DEF Mended
<1>3. CASE GetCall(w)
  <2>1. /\ pc[w] = "get" /\ pc'[w] = "campaign" /\ seen'[w] = row.status /\ arg' = arg
        /\ row' = row /\ listed' = listed
    BY <1>0, <1>3 DEF GetCall, NoFault, tables, StoreInv, StoreTypeOK
  <2> QED
    BY <1>1, <1>2, <2>1 DEF Mended
<1>4. CASE UpdateCampaign(w)
  <2>1. /\ pc[w] = "campaign" /\ pc'[w] = "touch" /\ seen' = seen /\ arg' = arg
        /\ row' = arg[w] /\ listed' = listed
    BY <1>0, <1>4 DEF UpdateCampaign, NoFault, Goto
  <2> QED
    BY <1>1, <1>2, <2>1 DEF Mended
<1>5. CASE TouchStatus(w)
  <2>1. /\ pc[w] = "touch" /\ listed' = Touched(seen[w]) /\ row' = row
        /\ \/ pc'[w] = "delete" /\ seen' = seen /\ arg' = arg
           \/ pc'[w] = "idle" /\ seen[w] = arg[w].status
    BY <1>0, <1>5 DEF TouchStatus, NoFault, Goto, Return
  <2>2. listed'[row.status] = listed[row.status]
    BY <1>1, <1>2, <2>1 DEF Touched
  <2> QED
    BY <1>1, <1>2, <2>1, <2>2 DEF Mended
<1>6. CASE DeleteOld(w)
  <2>1. /\ pc[w] = "delete" /\ listed' = Deleted(seen[w]) /\ row' = row
        /\ pc'[w] = "insert" /\ seen' = seen /\ arg' = arg
    BY <1>0, <1>6 DEF DeleteOld, NoFault, Goto
  <2>2. listed'[row.status] = listed[row.status]
    BY <1>1, <1>2, <2>1 DEF Deleted
  <2> QED
    BY <1>1, <1>2, <2>1, <2>2 DEF Mended
<1>7. CASE InsertNew(w)
  <2>1. /\ pc[w] = "insert" /\ listed' = Inserted(arg[w].status) /\ row' = row /\ pc'[w] = "idle"
    BY <1>0, <1>7 DEF InsertNew, NoFault, Return
  <2>2. \/ listed'[row.status] = "full"
        \/ listed'[row.status] = listed[row.status] /\ arg[w].status # row.status
    BY <1>1, <2>1 DEF Inserted
  <2> QED
    BY <1>1, <1>2, <2>1, <2>2 DEF Mended
<1> QED
  BY <1>0, <1>3, <1>4, <1>5, <1>6, <1>7 DEF UpdateCallStatus, Die

\* What a statement of an update nobody overlaps does to the damage.
LEMMA SoloStatement ==
  ASSUME StoreInv, DamageInv, StoreInv', NEW w \in alone, UpdateCallStatus(w) \/ Die(w)
  PROVE  /\ pc'[w] = "idle" => Cardinality(Wrong') <= Damage'
         /\ pc'[w] # "idle" => SoloDamage(w)'
<1> USE DEF Before, After
<1>0. /\ w \in Writers /\ faults \in Nat /\ pc \in [Writers -> Pcs]
      /\ listed \in [Statuses -> Entries] /\ Damage \in Nat
  BY DamageFacts DEF StoreInv, StoreTypeOK
<1>1. /\ arg[w].status \in Statuses /\ row.status \in Statuses /\ pc[w] # "idle"
      /\ After(w) => seen[w] \in Statuses
  BY <1>0, StatementEffect, NobodyElseAlone, RowFacts DEF StoreInv, UpdatesInv
<1>2. /\ Before(w) \/ seen[w] = arg[w].status => Cardinality(Wrong) <= Damage
      /\ After(w) => Cardinality(Wrong \ {seen[w], arg[w].status}) <= Damage
      /\ pc[w] \in {"delete", "insert"} => seen[w] # arg[w].status
      /\ pc[w] = "insert" => listed[seen[w]] = "absent"
  BY DEF DamageInv, SoloDamage
<1>3. /\ pc[w] = "campaign" => seen[w] = row.status
      /\ pc[w] \in {"touch", "delete", "insert"} => row = arg[w]
  BY DEF StoreInv, SoloInv
<1>4. /\ IsFiniteSet(Statuses) /\ Wrong \in SUBSET Statuses
      /\ Wrong' \in SUBSET Statuses /\ Wrong \ {seen[w], arg[w].status} \in SUBSET Statuses
  BY DamageFacts DEF Wrong
<1>5. Before(w) \/ After(w)
  BY <1>0, <1>1 DEF Pcs
<1>6. ASSUME faults' # faults
      PROVE  pc'[w] = "idle" /\ Cardinality(Wrong') <= Damage'
  <2>1. pc'[w] = "idle" /\ Damage' = Damage + 2
    BY <1>0, <1>6, StatementEffect
  <2> DEFINE Kept == IF Before(w) THEN Wrong ELSE Wrong \ {seen[w], arg[w].status}
             x == IF Before(w) THEN row.status ELSE seen[w]
             y == arg[w].status
  <2>2. Kept \in SUBSET Statuses /\ Cardinality(Kept) <= Damage
    BY <1>2, <1>4, <1>5
  <2>3. Wrong' \subseteq Kept \cup {x, y}
    <3>1. CASE Before(w)
      <4>1. listed' = listed /\ row' \in {row, arg[w]}
        BY <1>0, <3>1, StatementEffect
      <4> QED
        BY <3>1, <4>1 DEF Wrong, Due
    <3>2. CASE After(w)
      <4>1. /\ row' = row
            /\ \A s \in Statuses : s \notin {seen[w], arg[w].status} => listed'[s] = listed[s]
        BY <1>0, <3>2, StatementEffect
      <4> QED
        BY <3>2, <4>1 DEF Wrong, Due
    <3> QED
      BY <1>5, <3>1, <3>2
  <2> HIDE DEF Kept, x, y
  <2>4. Cardinality(Wrong') <= Damage + 2
    <3>1. \A s, t \in Statuses : Wrong' \subseteq Kept \cup {s, t} => Cardinality(Wrong') <= Damage + 2
      BY <1>0, <1>4, <2>2, ThreeMore
    <3>2. x \in Statuses /\ y \in Statuses
      BY <1>1, <1>5 DEF x, y
    <3> QED
      BY <2>3, <3>1, <3>2
  <2> QED
    BY <2>1, <2>4
<1>7. ASSUME faults' = faults
      PROVE  /\ pc'[w] = "idle" => Cardinality(Wrong') <= Damage'
             /\ pc'[w] # "idle" => SoloDamage(w)'
  <2>0. ~Fault /\ Damage' = Damage
    BY <1>0, <1>7, StatementEffect DEF Fault
  <2>1. CASE GetCall(w)
    <3>1. /\ pc[w] = "get" /\ pc'[w] = "campaign" /\ row' = row /\ listed' = listed
      BY <1>0, <2>0, <2>1 DEF GetCall, NoFault, tables
    <3>2. Wrong' = Wrong
      BY <3>1 DEF Wrong, Due
    <3> QED
      BY <1>2, <2>0, <3>1, <3>2 DEF SoloDamage
  <2>2. CASE UpdateCampaign(w)
    <3>1. /\ pc[w] = "campaign" /\ pc'[w] = "touch" /\ row' = arg[w] /\ listed' = listed
          /\ seen' = seen /\ arg' = arg
      BY <1>0, <2>0, <2>2 DEF UpdateCampaign, NoFault, Goto
    <3>2. seen[w] = arg[w].status => Wrong' = Wrong
      BY <1>3, <3>1 DEF Wrong, Due
    <3>3. Wrong' \ {seen[w], arg[w].status} \subseteq Wrong
      BY <1>3, <3>1 DEF Wrong, Due
    <3>4. Wrong' \ {seen[w], arg[w].status} \in SUBSET Statuses
      BY <1>4
    <3>5. Cardinality(Wrong' \ {seen[w], arg[w].status}) <= Damage
      <4>1. Cardinality(Wrong' \ {seen[w], arg[w].status}) <= Cardinality(Wrong)
        BY <1>4, <3>3, <3>4, Counts
      <4>2. Cardinality(Wrong' \ {seen[w], arg[w].status}) \in Nat /\ Cardinality(Wrong) \in Nat
        BY <1>4, <3>4, PartsCounted
      <4> QED
        BY <1>0, <1>2, <3>1, <4>1, <4>2
    <3> QED
      BY <1>2, <2>0, <3>1, <3>2, <3>5 DEF SoloDamage
  <2>3. CASE TouchStatus(w)
    <3>1. /\ pc[w] = "touch" /\ listed' = Touched(seen[w]) /\ row' = row
          /\ \/ pc'[w] = "delete" /\ seen' = seen /\ arg' = arg /\ seen[w] # arg[w].status
             \/ pc'[w] = "idle" /\ seen[w] = arg[w].status
      BY <1>0, <2>0, <2>3 DEF TouchStatus, NoFault, Goto, Return
    <3>5. /\ \A s \in Statuses : s # seen[w] => listed'[s] = listed[s]
          /\ listed'[seen[w]] = "full" <=> listed[seen[w]] = "full"
          /\ seen[w] \in Statuses
      BY <1>0, <1>1, <3>1 DEF Touched
    <3>6. \A s : Due(s)' = Due(s)
      BY <3>1 DEF Due
    <3>2. seen[w] = arg[w].status => Wrong' = Wrong
      <4>1. seen[w] = arg[w].status => Due(seen[w]) = "full"
        BY <1>3, <3>1 DEF Due
      <4> QED
        BY <3>5, <3>6, <4>1 DEF Wrong
    <3>3. Wrong' \ {seen[w], arg[w].status} = Wrong \ {seen[w], arg[w].status}
      BY <3>5, <3>6 DEF Wrong
    <3> QED
      BY <1>2, <2>0, <3>1, <3>2, <3>3 DEF SoloDamage
  <2>4. CASE DeleteOld(w)
    <3>1. /\ pc[w] = "delete" /\ listed' = Deleted(seen[w]) /\ row' = row
          /\ pc'[w] = "insert" /\ seen' = seen /\ arg' = arg
      BY <1>0, <2>0, <2>4 DEF DeleteOld, NoFault, Goto
    <3>2. /\ Wrong' \ {seen[w], arg[w].status} = Wrong \ {seen[w], arg[w].status}
          /\ listed'[seen[w]] = "absent"
      BY <1>0, <1>1, <3>1 DEF Wrong, Due, Deleted
    <3> QED
      BY <1>2, <2>0, <3>1, <3>2 DEF SoloDamage
  <2>5. CASE InsertNew(w)
    <3>1. /\ pc[w] = "insert" /\ listed' = Inserted(arg[w].status) /\ row' = row /\ pc'[w] = "idle"
      BY <1>0, <2>0, <2>5 DEF InsertNew, NoFault, Return
    <3>2. Wrong' \subseteq Wrong \ {seen[w], arg[w].status}
      BY <1>0, <1>1, <1>2, <1>3, <3>1 DEF Wrong, Due, Inserted
    <3>3. Cardinality(Wrong') <= Cardinality(Wrong \ {seen[w], arg[w].status})
      BY <1>4, <3>2, Counts
    <3>4. Cardinality(Wrong') \in Nat /\ Cardinality(Wrong \ {seen[w], arg[w].status}) \in Nat
      BY <1>4, PartsCounted
    <3> QED
      BY <1>0, <1>2, <2>0, <3>1, <3>3, <3>4
  <2> QED
    BY <2>0, <2>1, <2>2, <2>3, <2>4, <2>5 DEF UpdateCallStatus, Die
<1> QED
  BY <1>6, <1>7

\* Every statement of an update keeps the damage within what its faults and overlaps allow.
LEMMA StatementDamage ==
  ASSUME StoreInv, DamageInv, StoreInv', NEW w \in Writers, UpdateCallStatus(w) \/ Die(w)
  PROVE  DamageInv'
<1>1. /\ pc[w] # "idle" /\ create = "created" /\ create' = "created"
      /\ Damage \in Nat /\ Damage' \in {Damage, Damage + 2}
      /\ faults' # faults => Damage' = Damage + 2
      /\ alone \subseteq {w} /\ alone' \subseteq alone /\ (pc'[w] # "idle" => alone' = alone)
  BY StatementEffect, DamageFacts, NobodyElseAlone
<1>2. \A v \in Writers : pc'[v] \in {"idle", "get"} => seen'[v] = "absent"
  BY StatementEffect DEF DamageInv
<1>3. CASE w \in alone
  <2>1. \A v \in Writers \ {w} : pc'[v] = "idle"
    BY <1>3, StatementEffect DEF StoreInv, SoloInv
  <2>2. CASE pc'[w] = "idle"
    <3>1. Idle' /\ alone' = {}
      BY <1>1, <2>1, <2>2 DEF Idle, StoreInv, SoloInv
    <3>2. Cardinality(Wrong') <= Damage'
      BY <1>3, <2>2, SoloStatement
    <3>3. /\ Cardinality(AtRisk') <= Damage' + 1
          /\ Cardinality(AtRisk') = Damage' + 1 => Mended'
      <4>1. (Cardinality(Wrong) <= Damage => /\ Cardinality(AtRisk) <= Damage + 1
                                             /\ Cardinality(AtRisk) = Damage + 1 => Mended)'
        BY <3>1, IdleRisk, PTL
      <4> QED
        BY <3>2, <4>1
    <3> QED
      BY <1>1, <1>2, <3>1, <3>3 DEF DamageInv
  <2>3. CASE pc'[w] # "idle"
    BY <1>1, <1>2, <1>3, <2>3, SoloStatement DEF DamageInv
  <2> QED
    BY <2>2, <2>3
<1>4. CASE w \notin alone
  <2>1. alone = {} /\ alone' = {}
    BY <1>1, <1>4
  <2>2. /\ Cardinality(AtRisk) <= Damage + 1
        /\ Cardinality(AtRisk) = Damage + 1 => Mended
    BY <1>1, <2>1 DEF DamageInv
  <2>3. IsFiniteSet(AtRisk) /\ Cardinality(AtRisk) \in Nat /\ AtRisk' \subseteq AtRisk
    BY DamageFacts, StatementRisk
  <2>4. Cardinality(AtRisk') <= Cardinality(AtRisk) /\ Cardinality(AtRisk') \in Nat
    BY <2>3, FS_Subset, FS_CardinalityType
  <2>5. CASE faults' = faults
    BY <1>1, <1>2, <2>1, <2>2, <2>3, <2>4, <2>5, StatementMends, StatementEffect DEF DamageInv
  <2>6. CASE faults' # faults
    <3>1. Cardinality(AtRisk') < Damage' + 1
      BY <1>1, <2>2, <2>3, <2>4, <2>6
    <3>2. Damage' \in Nat
      BY <1>1
    <3> QED
      BY <1>1, <1>2, <2>1, <2>4, <3>1, <3>2 DEF DamageInv
  <2> QED
    BY <2>5, <2>6
<1> QED
  BY <1>3, <1>4

\* An update that begins beside another one puts its status at risk and buys two.
LEMMA CallDamage ==
  ASSUME StoreInv, DamageInv, StoreInv', NEW w \in Writers, Call(w)
  PROVE  DamageInv'
<1>1. /\ create = "created" /\ pc[w] = "idle" /\ UNCHANGED <<row, listed, create, seen, faults>>
      /\ pc'[w] = "get" /\ seen[w] = "absent" /\ arg'[w] \in Outcome /\ arg'[w].status \in Statuses
      /\ \A v \in Writers \ {w} : pc'[v] = pc[v] /\ arg'[v] = arg[v]
      /\ w \notin alone /\ row.status \in Statuses
  <2>1. /\ create = "created" /\ pc[w] = "idle" /\ UNCHANGED <<row, listed, create, seen, faults>>
        /\ pc' = [pc EXCEPT ![w] = "get"] /\ \E o \in Outcome : arg' = [arg EXCEPT ![w] = o]
    BY DEF Call, tables
  <2>2. pc \in [Writers -> Pcs] /\ arg \in [Writers -> Outcome \cup {NoRow}]
    BY DEF StoreInv, StoreTypeOK
  <2>3. /\ pc'[w] = "get" /\ arg'[w] \in Outcome
        /\ \A v \in Writers \ {w} : pc'[v] = pc[v] /\ arg'[v] = arg[v]
    BY <2>1, <2>2
  <2>4. seen[w] = "absent" /\ w \notin alone
    BY <2>1 DEF DamageInv, StoreInv, SoloInv
  <2>5. row.status \in Statuses /\ arg'[w].status \in Statuses
    BY <2>1, <2>3, RowFacts DEF StoreInv, StoreTypeOK, UpdatesInv
  <2> QED
    BY <2>1, <2>3, <2>4, <2>5
<1>2. /\ Wrong' = Wrong /\ Damage \in Nat /\ faults \in Nat /\ overlaps \in Nat
      /\ IsFiniteSet(Statuses) /\ Wrong \in SUBSET Statuses
      /\ AtRisk \in SUBSET Statuses /\ AtRisk' \in SUBSET Statuses
  BY <1>1, DamageFacts DEF Wrong, Due, AtRisk, StoreInv, StoreTypeOK
<1>3. \A v \in Writers : pc'[v] \in {"idle", "get"} => seen'[v] = "absent"
  BY <1>1 DEF DamageInv
<1>4. CASE Busy(w) = {} /\ alone' = {w} /\ UNCHANGED overlaps
  <2>1. Idle /\ alone = {}
    BY <1>1, <1>4 DEF Idle, Busy, StoreInv, SoloInv, StoreTypeOK
  <2>2. Cardinality(Wrong) <= Damage
    BY <1>1, <2>1, IdleRisk DEF DamageInv
  <2>3. Damage' = Damage
    BY <1>1, <1>4 DEF Damage
  <2>4. SoloDamage(w)'
    BY <1>1, <1>2, <2>2, <2>3 DEF SoloDamage, Before, After
  <2> QED
    BY <1>1, <1>3, <1>4, <2>4 DEF DamageInv
<1>5. CASE Busy(w) # {} /\ alone' = {} /\ overlaps' = overlaps + 1
  <2>1. Damage' = Damage + 2
    <3>1. Damage' = 2 * (faults + (overlaps + 1))
      BY <1>1, <1>5 DEF Damage
    <3> QED
      BY <1>2, <3>1 DEF Damage
  <2> DEFINE a == arg'[w].status
  <2>2. ASSUME NEW s \in AtRisk'
        PROVE  /\ s \in Statuses
               /\ \/ s \in Wrong \cup {row.status, a}
                  \/ \E v \in Writers \ {w} : pc[v] # "idle" /\ s \in {arg[v].status, seen[v]}
    <3>1. s \in Statuses /\ s # seen'[w]
      BY <1>1, RowFacts DEF AtRisk
    <3>2. s \in Wrong \/ s = row.status \/ \E v \in Writers : pc'[v] # "idle" /\ s \in {arg'[v].status, seen'[v]}
      BY <1>1, <1>2 DEF AtRisk
    <3>3. ASSUME NEW v \in Writers, pc'[v] # "idle", s \in {arg'[v].status, seen'[v]}
          PROVE  s = a \/ (v # w /\ pc[v] # "idle" /\ s \in {arg[v].status, seen[v]})
      BY <1>1, <3>1, <3>3
    <3> QED
      BY <3>1, <3>2, <3>3
  <2>6. AtRisk' \subseteq AtRisk \cup {a}
    BY <2>2 DEF AtRisk
  <2>3. ASSUME /\ Cardinality(AtRisk') <= Damage' + 1
               /\ Cardinality(AtRisk') = Damage' + 1 => Mended'
        PROVE  DamageInv'
    BY <1>1, <1>3, <1>5, <2>3 DEF DamageInv
  <2>4. CASE alone = {}
    <3>1. Cardinality(AtRisk) <= Damage + 1
      BY <1>1, <2>4 DEF DamageInv
    <3>2. /\ Cardinality(AtRisk') <= Cardinality(AtRisk) + 1
          /\ Cardinality(AtRisk') \in Nat /\ Cardinality(AtRisk) \in Nat
      BY <1>2, <2>6, Counts
    <3>3. Cardinality(AtRisk') < Damage' + 1 /\ Damage' \in Nat
      BY <1>2, <2>1, <3>1, <3>2
    <3> QED
      BY <2>3, <3>2, <3>3
  <2>5. CASE alone # {}
    <3>1. PICK u \in alone : SoloDamage(u)
      BY <2>5 DEF DamageInv
    <3>2. /\ u \in Writers /\ u # w /\ pc[u] # "idle" /\ pc[u] \in Pcs
          /\ \A v \in Writers \ {u} : pc[v] = "idle"
          /\ pc[u] = "campaign" => seen[u] = row.status
          /\ pc[u] = "get" => seen[u] = "absent"
          /\ After(u) => row = arg[u]
      BY <1>1 DEF StoreInv, SoloInv, StoreTypeOK, DamageInv, After
    <3>3. pc'[u] = pc[u] /\ arg'[u] = arg[u] /\ seen'[u] = seen[u] /\ \A v \in Writers \ {u, w} : pc'[v] = "idle"
      BY <1>1, <3>2
    <3>4. AtRisk' \subseteq Wrong \cup {row.status, arg[u].status, seen[u], a}
      BY <2>2, <3>2
    <3>5. "absent" \notin Statuses /\ a # "absent"
      BY <1>1, RowFacts
    <3>6. CASE Before(u)
      <4>1. Cardinality(Wrong) <= Damage
        BY <3>1, <3>6 DEF SoloDamage
      <4>2. AtRisk' \subseteq Wrong \cup {row.status, arg[u].status, a}
        BY <1>2, <3>2, <3>4, <3>5, <3>6 DEF Before
      <4>3. /\ Cardinality(AtRisk') \in Nat /\ Cardinality(AtRisk') <= Damage + 3
            /\ Cardinality(AtRisk') = Damage + 3 =>
                 row.status \notin Wrong /\ row.status # arg[u].status /\ row.status # a /\ arg[u].status # a
        <5>1. /\ Cardinality(AtRisk') \in Nat
              /\ \A x, y, z \in Statuses : AtRisk' \subseteq Wrong \cup {x, y, z} =>
                /\ Cardinality(AtRisk') <= Damage + 3
                /\ Cardinality(AtRisk') = Damage + 3 =>
                     x \notin Wrong /\ x # y /\ x # z /\ y # z
          BY <1>2, <4>1, ThreeMore
        <5>2. a \in Statuses /\ row.status \in Statuses /\ arg[u].status \in Statuses
          BY <1>1, <3>2, NobodyElseAlone, RowFacts
        <5> HIDE DEF a
        <5> QED
          BY <4>2, <5>1, <5>2
      <4>4. ASSUME Cardinality(AtRisk') = Damage + 3
            PROVE  Mended'
        <5>1. listed'[row'.status] = "full"
          BY <1>1, <4>3, <4>4 DEF Wrong, Due
        <5>2. \A v \in Writers : ~After(v)' /\ (pc'[v] # "idle" => v \in {u, w})
          BY <1>1, <3>3, <3>6 DEF After, Before
        <5>3. /\ seen'[u] \in {"absent", row'.status} /\ seen'[w] = "absent" /\ Before(w)' /\ Before(u)'
              /\ \A v \in Writers : Before(v)' => v \in {u, w}
          BY <1>1, <3>2, <3>3, <3>6 DEF Before
        <5>4. arg[u].status # "absent"
          <6>1. arg[u] \in Outcome
            BY <3>2, NobodyElseAlone
          <6> QED
            BY <6>1, RowFacts
        <5> QED
          BY <1>1, <3>3, <3>5, <4>3, <4>4, <5>1, <5>2, <5>3, <5>4 DEF Mended
      <4> QED
        BY <1>2, <2>1, <2>3, <4>3, <4>4
    <3>7. CASE After(u)
      <4>1. Cardinality(Wrong \ {seen[u], arg[u].status}) <= Damage
        BY <3>1, <3>7 DEF SoloDamage
      <4>2. AtRisk' \subseteq (Wrong \ {seen[u], arg[u].status}) \cup {seen[u], arg[u].status, a}
        BY <3>2, <3>4, <3>7
      <4>3. /\ Cardinality(AtRisk') \in Nat /\ Cardinality(AtRisk') <= Damage + 3
            /\ Cardinality(AtRisk') = Damage + 3 =>
                 seen[u] # arg[u].status /\ seen[u] # a /\ arg[u].status # a
        <5>1. Wrong \ {seen[u], arg[u].status} \in SUBSET Statuses
          BY <1>2
        <5>2. /\ Cardinality(AtRisk') \in Nat
              /\ \A x, y, z \in Statuses : AtRisk' \subseteq (Wrong \ {seen[u], arg[u].status}) \cup {x, y, z} =>
                /\ Cardinality(AtRisk') <= Damage + 3
                /\ Cardinality(AtRisk') = Damage + 3 =>
                     x # y /\ x # z /\ y # z
          BY <1>2, <4>1, <5>1, ThreeMore
        <5>3. a \in Statuses /\ seen[u] \in Statuses /\ arg[u].status \in Statuses
          BY <1>1, <3>2, <3>7, NobodyElseAlone, RowFacts DEF StoreInv, UpdatesInv, After
        <5> HIDE DEF a
        <5> QED
          BY <4>2, <5>2, <5>3
      <4>4. ASSUME Cardinality(AtRisk') = Damage + 3
            PROVE  Mended'
        <5>1. After(u)' /\ arg'[u].status = row'.status
          BY <1>1, <3>2, <3>3, <3>7 DEF After
        <5>2. \A v \in Writers : (After(v)' => v = u) /\ (Before(v)' => v = w) /\ (pc'[v] # "idle" => v \in {u, w})
          BY <1>1, <3>2, <3>3, <3>7 DEF After, Before
        <5> QED
          BY <1>1, <3>2, <3>3, <3>5, <3>7, <4>3, <4>4, <5>1, <5>2 DEF Mended
      <4> QED
        BY <1>2, <2>1, <2>3, <4>3, <4>4
    <3> QED
      BY <3>2, <3>6, <3>7 DEF Pcs, Before, After
  <2> QED
    BY <2>4, <2>5
<1> QED
  BY <1>4, <1>5 DEF Call

LEMMA CreateDamage ==
  ASSUME StoreInv, DamageInv, StoreInv', InsertCall \/ InsertQueued
  PROVE  DamageInv'
<1>1. /\ create \in {"campaign", "status"} /\ UNCHANGED <<pc, arg, seen, alone, overlaps>>
      /\ \A w \in Writers : pc[w] = "idle"
  BY DEF InsertCall, InsertQueued, history, StoreInv, UpdatesInv
<1>2. alone = {} /\ Unlisted /\ \A w \in Writers : pc[w] \in {"idle", "get"} => seen[w] = "absent"
  BY <1>1 DEF StoreInv, SoloInv, StoreTypeOK, DamageInv
<1>3. CASE InsertCall
  BY <1>1, <1>2, <1>3 DEF InsertCall, DamageInv, Unlisted
<1>4. CASE InsertQueued
  <2>1. CASE create' = "failed"
    BY <1>1, <1>2, <2>1 DEF DamageInv
  <2>2. CASE create' # "failed"
    <3>1. create' = "created" /\ listed' = Inserted("queued") /\ row = Queued /\ row' = row
      BY <1>4, <2>2 DEF InsertQueued, DamageInv
    <3>2. \A s \in Statuses : listed'[s] = IF s = "queued" THEN "full" ELSE "absent"
      BY <1>2, <3>1, IndexFacts, RowFacts DEF StoreInv
    <3>3. Wrong' = {}
      BY <3>1, <3>2, RowFacts DEF Wrong, Due
    <3>4. Idle'
      BY <1>1, <3>1 DEF Idle
    <3>5. (/\ IsFiniteSet(Wrong) /\ Damage \in Nat
           /\ Cardinality(Wrong) <= Damage => /\ Cardinality(AtRisk) <= Damage + 1
                                              /\ Cardinality(AtRisk) = Damage + 1 => Mended)'
      BY <3>4, IdleRisk, DamageFacts, PTL
    <3>6. Cardinality(Wrong') <= Damage'
      BY <3>3, <3>5, FS_EmptySet
    <3> QED
      BY <1>1, <1>2, <3>1, <3>5, <3>6 DEF DamageInv
  <2> QED
    BY <2>1, <2>2
<1> QED
  BY <1>3, <1>4

\* A broken or overlapped update leaves at most its old and its new entry wrong, for any
\* number of writers, outcomes, faults and overlaps.
THEOREM DamageStaysBounded == Spec => []DamageBounded
<1>1. Init => DamageInv
  BY DEF Init, DamageInv, Unlisted
<1>2. ASSUME StoreInv, DamageInv, StoreInv', [Next]_vars
      PROVE  DamageInv'
  <2>1. CASE UNCHANGED vars
    BY <1>2, <2>1 DEF vars, tables, history, DamageInv, Unlisted, SoloDamage, Before, After, Wrong, Due,
       AtRisk, Mended, Damage
  <2>2. CASE Next
    BY <1>2, <2>2, CreateDamage, CallDamage, StatementDamage DEF Next
  <2> QED
    BY <1>2, <2>1, <2>2
<1>3. StoreInv /\ DamageInv => DamageBounded
  <2> SUFFICES ASSUME StoreInv, DamageInv, Idle
               PROVE  Cardinality(Wrong) <= Damage
    BY DEF DamageBounded, Damage
  <2>1. create = "created" /\ alone = {}
    BY DEF Idle, StoreInv, SoloInv, StoreTypeOK
  <2> QED
    BY <2>1, IdleRisk DEF DamageInv
<1> QED
  BY <1>1, <1>2, <1>3, StoreInvariant, PTL DEF Spec

-----------------------------------------------------------------------------
(* The row is a register *)

\* The progress of the updates, as the register sees it.
LEMMA ProgressMoves ==
  ASSUME StoreTypeOK, NEW w \in Writers, NEW step \in Pcs, pc' = [pc EXCEPT ![w] = step]
  PROVE  [v \in Writers |-> Progress(pc[v])]'
           = [[v \in Writers |-> Progress(pc[v])] EXCEPT ![w] = Progress(step)]
BY DEF StoreTypeOK

LEMMA StoreStepRefines ==
  ASSUME StoreInv, [Next]_vars
  PROVE  [Register!Next]_(Register!vars)
<1> DEFINE op == [v \in Writers |-> Progress(pc[v])]
<1> USE DEF Register!vars, Register!Next
<1>1. CASE UNCHANGED vars
  BY <1>1 DEF vars, tables
<1>2. CASE InsertCall
  <2>1. row = NoRow /\ UNCHANGED <<op, arg, result>>
    BY <1>2 DEF InsertCall, StoreInv, UpdatesInv
  <2> QED
    BY <1>2, <2>1 DEF InsertCall, Register!Create
<1>3. CASE InsertQueued
  BY <1>3 DEF InsertQueued
<1>4. ASSUME NEW w \in Writers, Call(w)
      PROVE  Register!Next
  <2>1. PICK o \in Outcome : arg' = [arg EXCEPT ![w] = o]
    BY <1>4 DEF Call
  <2>2. op' = [op EXCEPT ![w] = "called"] /\ op[w] = "idle" /\ row # NoRow
    BY <1>4, ProgressMoves DEF Call, Pcs, Progress, StoreInv, UpdatesInv
  <2>3. Register!Call(w, o)
    BY <1>4, <2>1, <2>2 DEF Call, tables, Register!Call
  <2> QED
    BY <2>3
<1>5. ASSUME NEW w \in Writers, Return(w, "error"), pc[w] # "idle",
             \/ UNCHANGED row
             \/ pc[w] = "campaign" /\ row' = arg[w]
      PROVE  Register!Next
  <2>1. op' = [op EXCEPT ![w] = "idle"] /\ op[w] # "idle" /\ (pc[w] = "campaign" => op[w] = "called")
    BY <1>5, ProgressMoves DEF Return, Pcs, Progress, StoreInv
  <2>2. Register!Fail(w)
    BY <1>5, <2>1 DEF Return, Register!Fail, Register!Return
  <2> QED
    BY <2>2
<1>6. ASSUME NEW w \in Writers, Return(w, "ok"), pc[w] \in {"touch", "insert"}, UNCHANGED row
      PROVE  Register!Next
  <2>1. op' = [op EXCEPT ![w] = "idle"] /\ op[w] = "made"
    BY <1>6, ProgressMoves DEF Return, Pcs, Progress, StoreInv
  <2>2. Register!Succeed(w)
    BY <1>6, <2>1 DEF Return, Register!Succeed, Register!Return
  <2> QED
    BY <2>2
<1>7. ASSUME NEW w \in Writers, NEW step \in {"delete", "insert"}, Goto(w, step),
             pc[w] \in {"touch", "delete"}, UNCHANGED row
      PROVE  UNCHANGED Register!vars
  <2>1. op' = op
    BY <1>7, ProgressMoves DEF Goto, Pcs, Progress, StoreInv, StoreTypeOK
  <2> QED
    BY <1>7, <2>1 DEF Goto
<1>8. ASSUME NEW w \in Writers, GetCall(w)
      PROVE  [Register!Next]_(Register!vars)
  <2>1. CASE Return(w, "error")
    BY <1>5, <1>8, <2>1 DEF GetCall, tables
  <2>2. CASE pc' = [pc EXCEPT ![w] = "campaign"] /\ UNCHANGED <<arg, result>>
    <3>1. op' = op
      BY <1>8, <2>2, ProgressMoves DEF GetCall, Pcs, Progress, StoreInv, StoreTypeOK
    <3> QED
      BY <1>8, <2>2, <3>1 DEF GetCall, tables
  <2> QED
    BY <1>8, <2>1, <2>2 DEF GetCall
<1>9. ASSUME NEW w \in Writers, UpdateCampaign(w)
      PROVE  Register!Next
  <2>1. CASE Return(w, "error")
    BY <1>5, <1>9, <2>1 DEF UpdateCampaign
  <2>2. CASE row' = arg[w] /\ Goto(w, "touch")
    <3>1. op' = [op EXCEPT ![w] = "made"] /\ op[w] = "called"
      BY <1>9, <2>2, ProgressMoves DEF UpdateCampaign, Goto, Pcs, Progress, StoreInv
    <3>2. Register!Overwrite(w)
      BY <2>2, <3>1 DEF Goto, Register!Overwrite
    <3> QED
      BY <3>2
  <2> QED
    BY <1>9, <2>1, <2>2 DEF UpdateCampaign
<1>10. ASSUME NEW w \in Writers, TouchStatus(w) \/ DeleteOld(w) \/ InsertNew(w) \/ Die(w)
       PROVE  [Register!Next]_(Register!vars)
  <2>1. /\ UNCHANGED row
        /\ \/ Return(w, "error") /\ pc[w] # "idle"
           \/ Return(w, "ok") /\ pc[w] \in {"touch", "insert"}
           \/ pc[w] \in {"touch", "delete"} /\ \E step \in {"delete", "insert"} : Goto(w, step)
    BY <1>10 DEF TouchStatus, DeleteOld, InsertNew, Die, tables
  <2> QED
    BY <1>5, <1>6, <1>7, <2>1
<1> QED
  BY <1>1, <1>2, <1>3, <1>4, <1>8, <1>9, <1>10 DEF Next, UpdateCallStatus

\* UpdateCallStatus, five statements over two tables, is one atomic overwrite of the row.
THEOREM StoreImplementsRegister == Spec => ImplementsRegister
<1>1. Init => Register!Init
  BY DEF Init, Register!Init, Progress
<1>2. StoreInv /\ [Next]_vars => [Register!Next]_(Register!vars)
  BY StoreStepRefines
<1> QED
  BY <1>1, <1>2, StoreInvariant, PTL DEF Spec, ImplementsRegister, Register!RegisterSpec
=============================================================================
