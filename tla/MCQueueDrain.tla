---------------------------- MODULE MCQueueDrain ----------------------------
(* Small instances for TLC of QueueDrain and, beside it, of RetryPolicies,  *)
(* which has the delays of its retries: five doublings of a base delay of   *)
(* up to 12 units pass the largest number, 40.                              *)
EXTENDS QueueDrain, RetryPolicies

CONSTANTS l1, p1, p2   \* one listing page and two product pages

(* A listing and a product are seeded; the listing may find the other one.  *)
MixedItems    == {l1, p1, p2}
MixedSeeds    == {l1, p1}
MixedListings == {l1}

(* The queue and the delays share no variable: each is explored from the    *)
(* first states of the other, which is all there is to see of either.       *)
QueueStep == RetryInit /\ baseDelay = 1 /\ maxDelay = 1 /\ Next /\ UNCHANGED retryVars
DelayStep == Init /\ RetryNext /\ UNCHANGED vars

MCInit == Init /\ RetryInit

MCSpec == MCInit /\ [][QueueStep \/ DelayStep]_<<vars, retryVars>>
=============================================================================
