------------------------ MODULE RequestCoordinator ------------------------
(***************************************************************************)
(* How requests reach the shop (VarusRequestCoordinator): every call waits *)
(* while the breaker is open, then in line for the permits of a token      *)
(* bucket, then for its jitter, and is sent.  Product calls report their   *)
(* answers: transient failures in a row open the breaker for a while, any  *)
(* other answer ends the row.  The coordinator takes no lock: it is a      *)
(* counter and a time that the calls of a process change with interlocked  *)
(* operations, and each of those is a step here.                           *)
(*                                                                         *)
(* One coordinator serves the whole process.  The worker's has the handlers*)
(* of one collection; the web's has those of every crawl it was asked for  *)
(* (IngestVegetables) and every live check (RefreshLatestProducts), whose  *)
(* number nothing bounds.                                                  *)
(*                                                                         *)
(* Times are relative to the present, in seconds.  Cancellation ends the   *)
(* process and is left out.                                                *)
(***************************************************************************)
EXTENDS Integers, Sequences, FiniteSets

CONSTANTS
  Clients,     \* the calls a process makes at a time
  MaxConcurrency, \* CrawlerOptions.MaxConcurrency: handlers of one collection
  RateTenths,  \* RequestsPerSecond, in tenths
  Threshold,   \* BreakerFailureThreshold
  OpenSeconds, \* BreakerOpenSeconds
  MaxAttempts, \* RetryCount + 1
  QueueFactor, \* the 4 of the queue's limit
  MaxStall     \* bound: seconds a call takes from reading the clock to clearing the counter

ASSUME RequestAssumption ==
  /\ IsFiniteSet(Clients)
  /\ {MaxConcurrency, RateTenths, Threshold, OpenSeconds, MaxAttempts, QueueFactor} \subseteq Nat \ {0}
  /\ MaxStall \in 0..OpenSeconds - 1

VARIABLES
  pc,       \* where each call is
  attempt,  \* the attempt of its product call; 0 in a call for a listing or category page
  age,      \* seconds since it read the clock
  failures, \* _consecutiveTemporaryFailures
  until,    \* _breakerOpenUntilUtcTicks; in the past it is kept down to -MaxStall
  tokens,   \* permits in the bucket
  line,     \* the bucket's queue
  slipped,  \* calls that sent a request since the breaker opened
  hot       \* transient failures in a row while the breaker was not open

callVars == <<pc, attempt, age>>
breakerVars == <<failures, until, slipped, hot>>
vars == <<callVars, breakerVars, tokens, line>>

PermitsPerRequest == 10

Larger(a, b) == IF a > b THEN a ELSE b

(* Permits per second, and as many at most: a rate below one counts as one. *)
Permits == Larger(PermitsPerRequest, RateTenths)

(* Faulty variant, used by no specification: the limit is in requests.        *)
BugQueueLimit == Larger(MaxConcurrency, QueueFactor)

(* In permits, as the limiter counts. *)
QueueLimit == Larger(Permits * MaxConcurrency, Permits * QueueFactor)

Goes(c, to) == pc' = [pc EXCEPT ![c] = to]

BreakerIsOpen == until > 0

Init ==
  /\ pc = [c \in Clients |-> "idle"] /\ attempt = [c \in Clients |-> 0] /\ age = [c \in Clients |-> 0]
  /\ failures = 0 /\ until = -MaxStall
  /\ tokens = Permits /\ line = <<>>
  /\ slipped = {} /\ hot = 0

-----------------------------------------------------------------------------
(* A request on its way.                                                    *)

(* A product call (1), or a page call (0), which has one attempt. *)
Begin(c) ==
  /\ pc[c] = "idle"
  /\ Goes(c, "waiting")
  /\ \E first \in {0, 1} : attempt' = [attempt EXCEPT ![c] = first]
  /\ UNCHANGED <<age, breakerVars, tokens, line>>

(* WaitIfBreakerOpenAsync returns, and AcquireAsync serves the call at once,  *)
(* puts it into the queue, or refuses it.  The exception of a refusal is not *)
(* caught in the extractors: it ends the call, and the breaker never sees it.*)
Served(c) ==
  /\ line = <<>> /\ tokens >= PermitsPerRequest
  /\ tokens' = tokens - PermitsPerRequest
  /\ Goes(c, "granted") /\ UNCHANGED line

HasRoom == PermitsPerRequest * (Len(line) + 1) <= QueueLimit

Pass(c) ==
  /\ pc[c] = "waiting" /\ ~BreakerIsOpen
  /\ \/ Served(c)
     \/ /\ line # <<>> \/ tokens < PermitsPerRequest
        /\ IF HasRoom THEN line' = Append(line, c) /\ Goes(c, "line")
                      ELSE Goes(c, "idle") /\ UNCHANGED line
        /\ UNCHANGED tokens
  /\ UNCHANGED <<attempt, age, breakerVars>>

(* The jitter is over; nobody looks at the breaker again. *)
Send(c) ==
  /\ pc[c] = "granted"
  /\ Goes(c, "sent")
  /\ slipped' = IF BreakerIsOpen THEN slipped \cup {c} ELSE slipped
  /\ UNCHANGED <<attempt, age, failures, until, hot, tokens, line>>

-----------------------------------------------------------------------------
(* Answers.                                                                 *)

(* What follows a transient failure: another attempt or the end. *)
After(c) == IF attempt[c] < MaxAttempts THEN "retry" ELSE "idle"

(* 429, 5xx or a timeout: the counter's new value decides. *)
TransientFailure(c) ==
  /\ pc[c] = "sent" /\ attempt[c] > 0
  /\ failures' = failures + 1
  /\ Goes(c, IF failures' < Threshold THEN After(c) ELSE "counted")
  /\ hot' = IF BreakerIsOpen THEN hot ELSE hot + 1
  /\ UNCHANGED <<attempt, age, until, slipped, tokens, line>>

(* A product, a page that is gone or cannot be parsed, any other answer.  *)
OtherAnswer(c) ==
  /\ pc[c] = "sent" /\ attempt[c] > 0
  /\ failures' = 0 /\ hot' = 0
  /\ Goes(c, "idle")
  /\ UNCHANGED <<attempt, age, until, slipped, tokens, line>>

(* Calls for pages report nothing. *)
PageAnswer(c) ==
  /\ pc[c] = "sent" /\ attempt[c] = 0
  /\ Goes(c, "idle")
  /\ UNCHANGED <<attempt, age, breakerVars, tokens, line>>

(* The retry delay is over. *)
Retry(c) ==
  /\ pc[c] = "retry"
  /\ Goes(c, "waiting")
  /\ attempt' = [attempt EXCEPT ![c] = @ + 1]
  /\ UNCHANGED <<age, breakerVars, tokens, line>>

-----------------------------------------------------------------------------
(* MarkTemporaryFailure from the threshold on.                              *)

(* The clock is read. *)
Stamp(c) ==
  /\ pc[c] = "counted"
  /\ Goes(c, "stamped")
  /\ UNCHANGED <<attempt, age, breakerVars, tokens, line>>

(* The breaker is open by the time the clock showed. *)
OpenAlready(c) == until > -age[c]

Leave(c) ==
  /\ Goes(c, After(c))
  /\ age' = [age EXCEPT ![c] = 0]
  /\ UNCHANGED <<attempt, until, slipped, hot, tokens, line>>

SeeOpen(c) ==
  /\ pc[c] = "stamped" /\ OpenAlready(c)
  /\ Leave(c)
  /\ UNCHANGED failures

(* Faulty variant: the time is stored without the interval. *)
BugOpen(c) ==
  /\ pc[c] = "stamped" /\ ~OpenAlready(c)
  /\ Goes(c, "opened")
  /\ until' = -age[c]
  /\ UNCHANGED <<attempt, age, failures, slipped, hot, tokens, line>>

(* The exchange succeeds; when another call was faster, the loop looks again. *)
Open(c) ==
  /\ pc[c] = "stamped" /\ ~OpenAlready(c)
  /\ Goes(c, "opened")
  /\ until' = OpenSeconds - age[c]
  /\ slipped' = {} /\ hot' = 0
  /\ UNCHANGED <<attempt, age, failures, tokens, line>>

(* Faulty variant: the failures that opened the breaker are taken off. *)
BugClear(c) ==
  /\ pc[c] = "opened"
  /\ failures' = failures - Threshold
  /\ Leave(c)

Clear(c) ==
  /\ pc[c] = "opened"
  /\ failures' = 0
  /\ Leave(c)

Smaller(a, b) == IF a < b THEN a ELSE b

(* How many of the line a full bucket serves. *)
Serves == Smaller(Len(line), Permits \div PermitsPerRequest)

(* Faulty variant: nobody replenishes the bucket (AutoReplenishment = false). *)
BugReplenish == UNCHANGED <<pc, tokens, line>>

(* The bucket is full again, and serves the oldest of the line: new permits    *)
(* and the line are under the limiter's lock.                                *)
Replenish ==
  /\ tokens' = Permits - PermitsPerRequest * Serves
  /\ line' = SubSeq(line, Serves + 1, Len(line))
  /\ pc' = [c \in Clients |-> IF \E i \in 1..Serves : line[i] = c THEN "granted" ELSE pc[c]]

(* A second passes.  Calls that wait for the breaker look every second, and    *)
(* when the time is over.                                                    *)
Tick ==
  /\ \A c \in Clients : pc[c] = "waiting" => BreakerIsOpen
  /\ \A c \in Clients : pc[c] \in {"stamped", "opened"} => age[c] < MaxStall
  /\ until' = Larger(until - 1, -MaxStall)
  /\ age' = [c \in Clients |-> IF pc[c] \in {"stamped", "opened"} THEN age[c] + 1 ELSE 0]
  /\ Replenish
  /\ UNCHANGED <<attempt, failures, slipped, hot>>

Step(c) ==
  \/ Pass(c) \/ Send(c)
  \/ TransientFailure(c) \/ OtherAnswer(c) \/ PageAnswer(c) \/ Retry(c)
  \/ Stamp(c) \/ SeeOpen(c) \/ Open(c) \/ Clear(c)

Next == Tick \/ \E c \in Clients : Begin(c) \/ Step(c)

Spec == Init /\ [][Next]_vars

(* Requests are answered or time out, delays end.  The clock goes on however  *)
(* many calls are refused meanwhile: not even they take no time at all.      *)
FairSpec == Spec /\ SF_vars(Tick) /\ \A c \in Clients : WF_vars(Step(c))

-----------------------------------------------------------------------------
(* Properties.                                                              *)

RequestTypeOK ==
  /\ pc \in [Clients -> {"idle", "waiting", "line", "granted", "sent", "retry", "counted", "stamped", "opened"}]
  /\ attempt \in [Clients -> 0..MaxAttempts]
  /\ age \in [Clients -> 0..MaxStall]
  /\ failures \in Nat /\ hot \in Nat
  /\ until \in -MaxStall..OpenSeconds
  /\ tokens \in 0..Permits
  /\ line \in Seq(Clients)
  /\ slipped \subseteq Clients

(* The breaker is asked before the wait for permits and jitter, so requests   *)
(* go out while it is open.  But at most one of each call: who has sent    *)
(* one since the breaker opened does not get at another before it closes.    *)
OneSlipEach == BreakerIsOpen => \A c \in slipped : pc[c] \notin {"line", "granted"}

(* With Threshold transient failures in a row the breaker opens, whatever the *)
(* calls' increments, clock readings, exchanges and resets have overtaken:    *)
(* beyond the threshold there is at most one failure of each call.           *)
PauseComesInTime == hot < Threshold + Cardinality(Clients)

(* Whoever else uses the process's coordinator, a call is refused only while   *)
(* as many others wait as one collection has handlers, and the factor at     *)
(* least: the queue has no room for a call that has left it.  So a collection*)
(* that is alone in its process is never refused, and a refusal takes crawls *)
(* or live checks beside each other in the web.                              *)
RefusedOnlyInACrowd ==
  [][\A c \in Clients : pc[c] = "waiting" /\ pc'[c] = "idle" =>
       Cardinality({d \in Clients : pc[d] = "line"}) >= Larger(MaxConcurrency, QueueFactor)]_vars

(* The line is of the calls that wait in it, each once.                       *)
InLineOnce ==
  /\ \A i, j \in 1..Len(line) : line[i] = line[j] => i = j
  /\ \A c \in Clients : pc[c] = "line" <=> \E i \in 1..Len(line) : line[i] = c

(* The inductive invariant behind them. *)
Pending == {c \in Clients : pc[c] \in {"counted", "stamped"} /\ ~OpenAlready(c)}

RequestIInv ==
  /\ RequestTypeOK /\ InLineOnce /\ OneSlipEach
  /\ \A c \in Clients : pc[c] \notin {"stamped", "opened"} => age[c] = 0
  /\ \A c \in Clients : pc[c] \in {"retry", "counted", "stamped", "opened"} => attempt[c] > 0
  /\ \A c \in Clients : pc[c] = "opened" => until = OpenSeconds - age[c]
  /\ \A c \in Clients : pc[c] = "retry" => attempt[c] < MaxAttempts
  /\ BreakerIsOpen => hot = 0
  /\ hot <= failures
  /\ hot < Threshold + Cardinality(Pending)

(* Every call ends, whatever the others do to the breaker, the bucket and the *)
(* line: provided that Threshold is not below the number of calls at a time. *)
(* Otherwise those under way can open the breaker again before one that      *)
(* waits gets by.                                                            *)
CallsEnd == \A c \in Clients : pc[c] # "idle" ~> pc[c] = "idle"
=============================================================================
