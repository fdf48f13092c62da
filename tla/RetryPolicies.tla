--------------------------- MODULE RetryPolicies ---------------------------
(***************************************************************************)
(* How long a product waits after a failure, over many runs: the page that *)
(* failed for now waits in the queue of its run (QueueRetryPolicy), the    *)
(* product whose page is dead waits in the catalog for a later run         *)
(* (ProductCatalogRetryPolicy).  One run at a time has the product         *)
(* (CatalogLeases.tla), so its errors are read before they are counted.    *)
(* One unit of time stands for a millisecond and for a minute; the width   *)
(* of a number and the shift at which the catalog stops doubling are       *)
(* parameters, so that the boundaries are within reach.                    *)
(***************************************************************************)
EXTENDS Integers

CONSTANTS
  LongMax,      \* the largest number of ticks
  ShiftCap,     \* errors from which on the longest delay is taken (30)
  MaxTries,     \* QueueOptions.MaxAttempts
  MaxNumber,    \* bound: configured delays
  MaxErrors     \* bound: failed runs in a row

(* A configured delay is a number of ticks. *)
ASSUME RetryPoliciesAssumption ==
  /\ {LongMax, ShiftCap, MaxTries, MaxNumber, MaxErrors} \subseteq Nat \ {0}
  /\ MaxNumber <= LongMax

VARIABLES
  baseDelay, maxDelay,  \* as configured; either policy has a pair of its own
  failures,   \* failed attempts at the page in its run
  wait,       \* the delay of its next attempt, 0 before the first failure
  throttled,  \* the last failure was TooManyRequests
  errors,     \* product_catalog.consecutive_errors
  rest        \* the delay of the next check after an error, 0 without one

retryVars == <<baseDelay, maxDelay, failures, wait, throttled, errors, rest>>

AtLeast(n, m) == IF n < m THEN m ELSE n
AtMost(n, m)  == IF n > m THEN m ELSE n

TwoTo[n \in Nat] == IF n = 0 THEN 1 ELSE 2 * TwoTo[n - 1]

-----------------------------------------------------------------------------
(* In floating point, so it does not overflow; the jitter is under the cap. *)
ComputeBackoffDelay(failureAttempt, jitter) ==
  LET base == AtLeast(baseDelay, 1) IN
  AtMost(base * TwoTo[AtLeast(failureAttempt, 1) - 1] + jitter, AtLeast(maxDelay, base))

(* FinalizeFailedItemAsync doubles the delay of too many requests; only the  *)
(* configured maximum is its cap.                                            *)
TooManyRequestsDelay(failureAttempt, jitter) ==
  AtMost(2 * ComputeBackoffDelay(failureAttempt, jitter), AtLeast(maxDelay, 1))

(* Faulty variant, used by no specification: the multiplication wraps. *)
BugComputeDelay(n) ==
  LET base == AtLeast(baseDelay, 1) longest == AtLeast(maxDelay, 1) IN
  IF n >= ShiftCap THEN longest ELSE AtMost((base * TwoTo[AtLeast(n, 0)]) % (LongMax + 1), longest)

(* delayTicks saturates. *)
ComputeDelay(n) ==
  LET base    == AtLeast(baseDelay, 1)
      longest == AtLeast(maxDelay, 1)
      factor  == TwoTo[AtLeast(n, 0)]
  IN IF n >= ShiftCap THEN longest
     ELSE AtMost(IF base > LongMax \div factor THEN LongMax ELSE base * factor, longest)

-----------------------------------------------------------------------------
RetryInit ==
  /\ baseDelay \in -1..MaxNumber /\ maxDelay \in -1..MaxNumber
  /\ failures = 0 /\ wait = 0 /\ throttled = FALSE
  /\ errors = 0 /\ rest = 0

(* Random.Shared.Next(0, Math.Max(1, RetryBaseDelayMs)) *)
Jitters == 0..(AtLeast(baseDelay, 1) - 1)

(* A transient failure with attempts left. *)
Retried ==
  /\ failures + 1 < MaxTries
  /\ failures' = failures + 1
  /\ \E jitter \in Jitters, tooMany \in BOOLEAN :
       /\ throttled' = tooMany
       /\ wait' = IF tooMany THEN TooManyRequestsDelay(failures + 1, jitter)
                             ELSE ComputeBackoffDelay(failures + 1, jitter)
  /\ UNCHANGED <<baseDelay, maxDelay, errors, rest>>

(* The queue row is settled; a later run has a row of its own. *)
Settled ==
  /\ failures' = 0 /\ wait' = 0 /\ throttled' = FALSE
  /\ UNCHANGED <<baseDelay, maxDelay>>

(* OnItemDead, with ConsecutiveErrors as read when the row was selected, and *)
(* product_catalog_mark_failed, which counts the error: more than once when  *)
(* its answer is lost, since the page then fails again.                      *)
Died ==
  /\ Settled
  /\ errors' \in (errors + 1)..MaxErrors
  /\ rest' = ComputeDelay(errors)

(* product_catalog_mark_checked *)
Checked == Settled /\ errors' = 0 /\ rest' = 0

RetryNext == Retried \/ Died \/ Checked

RetrySpec == RetryInit /\ [][RetryNext]_retryVars

-----------------------------------------------------------------------------
(* Properties.                                                              *)

RetryTypeOK ==
  /\ baseDelay \in -1..MaxNumber /\ maxDelay \in -1..MaxNumber
  /\ failures \in 0..MaxTries /\ wait \in Nat /\ throttled \in BOOLEAN
  /\ errors \in 0..MaxErrors /\ rest \in Nat

(* What the waits have been computed from. *)
WaitsAreOfTheLastFailure ==
  /\ failures > 0 /\ ~throttled => \E jitter \in Jitters : wait = ComputeBackoffDelay(failures, jitter)
  /\ errors > 0 => \E n \in 0..(errors - 1) : rest = ComputeDelay(n)

RetryIInv == RetryTypeOK /\ WaitsAreOfTheLastFailure

Base    == AtLeast(baseDelay, 1)
Longest == AtLeast(maxDelay, 1)

(* Whatever is configured and whatever jitter is drawn, a wait is never      *)
(* shorter than the first one nor longer than the longest, and one failure   *)
(* more never shortens it (QueueRetryPolicy).  Being told of too many        *)
(* requests does not either, unless the base delay is over the maximum; but  *)
(* it doubles the jitter, so the wait after it may be shorter.  The catalog  *)
(* doubles until it reaches the longest delay, and no number overflows on    *)
(* the way (ProductCatalogRetryPolicy).                                      *)
QueueWaitsGrow ==
  failures' > failures /\ (throttled' => Base <= Longest) =>
    /\ wait' \in Base..AtLeast(Longest, Base)
    /\ failures > 0 /\ ~throttled => wait <= wait'

CatalogRestsGrow ==
  errors' > errors =>
    /\ rest' \in 1..Longest
    /\ errors > 0 => rest <= rest'
    /\ rest' < Longest => rest' = Base * TwoTo[errors]

DelaysGrowToTheirCap == [][QueueWaitsGrow /\ CatalogRestsGrow]_retryVars
=============================================================================
