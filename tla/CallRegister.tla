---------------------------- MODULE CallRegister ----------------------------
(***************************************************************************)
(* What the call store promises about the row of one call: it is created   *)
(* once and then overwritten.  An update that returns without an error has *)
(* been made, at one moment after it was called, and was made once; one    *)
(* that returns an error may have been made.  The status worker's step     *)
(* SWUpdate (module StatusWorker) relies on this.                          *)
(***************************************************************************)
CONSTANTS
  Writers,  \* processes that may update the call
  Values,   \* contents of the row
  First,    \* what it is created with
  None      \* there is no row

VARIABLES
  row,     \* the row
  op,      \* progress of each writer's update
  arg,     \* what it writes
  result   \* what its last update returned

vars == <<row, op, arg, result>>

Init ==
  /\ row = None
  /\ op = [w \in Writers |-> "idle"]
  /\ arg = [w \in Writers |-> None]
  /\ result = [w \in Writers |-> "none"]

Create == row = None /\ row' = First /\ UNCHANGED <<op, arg, result>>

Call(w, v) ==
  /\ row # None /\ op[w] = "idle"
  /\ op' = [op EXCEPT ![w] = "called"]
  /\ arg' = [arg EXCEPT ![w] = v]
  /\ result' = [result EXCEPT ![w] = "none"]
  /\ UNCHANGED row

Overwrite(w) ==
  /\ op[w] = "called"
  /\ row' = arg[w]
  /\ op' = [op EXCEPT ![w] = "made"]
  /\ UNCHANGED <<arg, result>>

Return(w, answer) ==
  /\ op' = [op EXCEPT ![w] = "idle"]
  /\ arg' = [arg EXCEPT ![w] = None]
  /\ result' = [result EXCEPT ![w] = answer]

Succeed(w) == op[w] = "made" /\ Return(w, "ok") /\ UNCHANGED row

Fail(w) ==
  /\ op[w] # "idle"
  /\ Return(w, "error")
  /\ \/ UNCHANGED row
     \/ op[w] = "called" /\ row' = arg[w]

Next ==
  \/ Create
  \/ \E w \in Writers : (\E v \in Values : Call(w, v)) \/ Overwrite(w) \/ Succeed(w) \/ Fail(w)

RegisterSpec == Init /\ [][Next]_vars
=============================================================================
