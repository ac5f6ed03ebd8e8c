------------------------------ MODULE Messages ------------------------------
(***************************************************************************)
(* The messages of internal/queue/messages.go.  Kept are the fields that   *)
(* steer control: the call, the attempt number, the attempt limit, the     *)
(* outcome and whether it is to be retried.  Phone number, metadata, the   *)
(* delays and the time stamps are payload.  NextAttempt of a status        *)
(* message is set exactly when Retryable is, so it is not a field.         *)
(***************************************************************************)
EXTENDS Integers

FinalStatuses == {"completed", "failed"}

DispatchMessage(Calls) == [call : Calls, attempt : Nat, maxAttempts : Nat]

StatusMessage(Calls) ==
  [call : Calls, attempt : Nat, maxAttempts : Nat,
   status : FinalStatuses, retryable : BOOLEAN]

(***************************************************************************)
(* RetryMessage embeds DispatchMessage and declares MaxAttempts again with *)
(* the same JSON key.  encoding/json lets the shallower field win: the     *)
(* JSON object holds the outer value, and decoding it fills only the outer *)
(* field, so the embedded DispatchMessage.MaxAttempts stays zero.          *)
(***************************************************************************)
RetryMessage(dispatch, max) == [dispatch |-> dispatch, maxAttempts |-> max]

MarshalRetry(msg) ==
  [call |-> msg.dispatch.call, attempt |-> msg.dispatch.attempt,
   maxAttempts |-> msg.maxAttempts]

UnmarshalRetry(json) ==
  RetryMessage([call |-> json.call, attempt |-> json.attempt, maxAttempts |-> 0],
               json.maxAttempts)

(***************************************************************************)
(* What the telephony provider can return: the call went through, it       *)
(* failed, or the request timeout cut it off (an error beside the result). *)
(* noText says whether Result.Error is empty.                              *)
(***************************************************************************)
Result(status, retryable, noText, callErr) ==
  [status |-> status, retryable |-> retryable, noText |-> noText, callErr |-> callErr]

PlaceCall == {Result("completed", FALSE, TRUE, FALSE),
              Result("failed", TRUE, FALSE, FALSE),
              Result("failed", TRUE, FALSE, TRUE)}

\* Altered forms of StatusOf: the attempt limit is not looked at, and every outcome
\* with budget left is retried.
StatusUnlimited(dispatch, result) ==
  [call |-> dispatch.call, attempt |-> dispatch.attempt,
   maxAttempts |-> dispatch.maxAttempts,
   status |-> result.status, retryable |-> result.retryable]

StatusAlwaysRetried(dispatch, result) ==
  [call |-> dispatch.call, attempt |-> dispatch.attempt,
   maxAttempts |-> dispatch.maxAttempts, status |-> result.status,
   retryable |-> dispatch.attempt < dispatch.maxAttempts]

\* The status message the call worker makes of a result; an error the result does
\* not describe overrides the result.
StatusOf(dispatch, result) ==
  LET mayRetry  == dispatch.attempt < dispatch.maxAttempts
      overridden == result.callErr /\ result.noText
  IN  [call |-> dispatch.call, attempt |-> dispatch.attempt,
       maxAttempts |-> dispatch.maxAttempts,
       status |-> IF overridden THEN "failed" ELSE result.status,
       retryable |-> mayRetry /\ (overridden \/ result.retryable)]
=============================================================================
