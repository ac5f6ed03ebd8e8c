---------------------------- MODULE RetryBackoff ----------------------------
(***************************************************************************)
(* How long the call worker has a failed attempt wait                      *)
(* (computeNextAttempt of internal/worker/call/worker.go) under the retry  *)
(* policy that is stored for the campaign.  Delays are in the units of     *)
(* CampaignService; a Duration has a fixed width, and its products wrap.   *)
(***************************************************************************)
EXTENDS CampaignService

CONSTANTS
  DurationBits,  \* 64 in the code
  JitterParts,   \* fineness of jitters
  Jitters        \* RetryPolicy.Jitter, in such parts

ASSUME BackoffAssumption ==
  /\ DurationBits \in Nat \ {0}
  /\ JitterParts \in Nat \ {0}
  /\ Jitters \subseteq Nat

Pow2[n \in Nat] == IF n = 0 THEN 1 ELSE 2 * Pow2[n - 1]

Largest == Pow2[DurationBits - 1] - 1
Durations == -Largest - 1 .. Largest
Wrap(n) == ((n + Largest + 1) % Pow2[DurationBits]) - Largest - 1

\* A float as a Duration.  One beyond the range becomes the smallest or the largest
\* Duration, depending on the processor.
ToDuration(n) == IF n \in Durations THEN {n} ELSE {-Largest - 1, Largest}

Lesser(m, n) == IF m < n THEN m ELSE n
Greater(m, n) == IF m < n THEN n ELSE m

\* A delay that was rounded to nothing is replaced by the default.
Base(p) == IF p.baseDelay = 0 THEN BaseDelay ELSE p.baseDelay * TicksPerMs
Cap(p) == IF p.maxDelay = 0 THEN MaxDelay ELSE p.maxDelay * TicksPerMs

\* 2 to the attempt - 1.
Multipliers(attempt) == ToDuration(Pow2[attempt - 1])

\* Altered form: without an upper limit.
UncappedDelays(p, attempt) == {Wrap(m * Base(p)) : m \in Multipliers(attempt)}

Delays(p, attempt) == {Lesser(Wrap(m * Base(p)), Cap(p)) : m \in Multipliers(attempt)}

\* A part of a delay, rounded towards zero.
Share(delay, parts) ==
  LET n == delay * parts IN IF n >= 0 THEN n \div JitterParts ELSE -((-n) \div JitterParts)

NextDelays(p, attempt, jitter) ==
  IF jitter = 0 THEN Delays(p, attempt)
  ELSE UNION {{Greater(Base(p), Wrap(d + n)) : n \in ToDuration(Share(d, parts))} :
                d \in Delays(p, attempt), parts \in -(jitter \div 2) .. jitter \div 2}

Fits(p, attempt) == Pow2[attempt - 1] * Base(p) <= Largest

\* The delays that follow from a stored policy.  Without jitter none is longer than the upper
\* delay; with one of up to two, none that fits a Duration is longer than that and half the
\* jitter, or than the lower delay if rounding put that above.  With jitter none is shorter
\* than the lower delay.  Without, none that fits is shorter than the lesser of the two delays
\* (which is the upper one when rounding brings in the default of the lower one), and delays
\* grow as long as they fit; what follows may not wait at all.
Paced(p) ==
  \A attempt \in 1 .. DurationBits + 1, jitter \in Jitters :
     \A d \in NextDelays(p, attempt, jitter) :
        /\ jitter = 0 => d <= Cap(p)
        /\ jitter <= 2 * JitterParts /\ Fits(p, attempt) =>
             d <= Greater(Base(p), Cap(p) + Share(Cap(p), jitter \div 2))
        /\ jitter > 0 => d >= Base(p)
        /\ Fits(p, attempt) => d >= Lesser(Base(p), Cap(p))
        /\ jitter = 0 /\ Fits(p, attempt + 1) =>
             \A next \in NextDelays(p, attempt + 1, 0) : d <= next

StoredPolicies == {StoredPolicy(NormalizeRetry(q)) : q \in Policies \cup {ZeroPolicy}}
PacedPolicies == {p \in StoredPolicies : Paced(p)}

\* However often requests read and write back a policy it is one that some request asked
\* for, and its delays keep to it (normalizeRetry, campaignRecord, computeNextAttempt).
RetryDelaysBounded == row.status # "absent" => row.policy \in PacedPolicies

-----------------------------------------------------------------------------
(* Inductive strengthening *)

\* A copy of the row has such a policy, in the units of a Duration.
AskedInv ==
  /\ row.status # "absent" => row.policy \in StoredPolicies
  /\ \A c \in Clients : req[c].copy.status # "absent" =>
        \E p \in StoredPolicies : req[c].copy.policy = LoadedPolicy(p)
=============================================================================
