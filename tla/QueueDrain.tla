----------------------------- MODULE QueueDrain -----------------------------
(***************************************************************************)
(* One price-collection run draining its queue: the rows of                *)
(* price_collect_queue that belong to the run (db/routines/020), the loop  *)
(* PriceCollectionQueueProcessor.DrainQueueAsync, and the handlers that    *)
(* Parallel.ForEachAsync starts for the rows of one reserved batch.        *)
(*                                                                         *)
(* Every database call is a transaction of its own, so a handler is a      *)
(* sequence of steps between which other handlers run.  A call may fail    *)
(* without effect, or commit and lose its reply; MaxFaults bounds how      *)
(* often.  The clock is kept as the two comparisons the routines make      *)
(* (next_attempt_at <= now, lease_until < now), which may become true at   *)
(* any time: no lease is assumed to be long enough.                        *)
(***************************************************************************)
EXTENDS Integers, FiniteSets, FiniteSetsExt

CONSTANTS
  Items,            \* queue rows the run can ever have, one per URL
  Seeds,            \* the rows enqueued from product_catalog
  Listings,         \* the seeds that are listing pages
  MaxAttempts,      \* QueueOptions.MaxAttempts
  BatchSize,        \* QueueOptions.BatchSize
  MaxConcurrency,   \* CrawlerOptions.MaxConcurrency
  MaxFaults         \* bound on failed database calls

ASSUME QueueAssumption ==
  /\ IsFiniteSet(Items)
  /\ Seeds \subseteq Items
  /\ Listings \subseteq Seeds
  /\ MaxAttempts \in Nat \ {0}
  /\ BatchSize \in Nat \ {0}
  /\ MaxConcurrency \in Nat \ {0}
  /\ MaxFaults \in Nat

VARIABLES
  status,     \* price_collect_queue.status, "absent" before the row is inserted
  attempt,    \* price_collect_queue.attempt
  due,        \* rows whose next_attempt_at has passed
  expired,    \* reserved rows whose lease_until has passed
  loop,       \* where DrainQueueAsync is
  reaperDue,  \* nextReaperAt has passed
  cancelled,  \* the run's CancellationToken
  pc,         \* where the handler of each row is
  copy,       \* ReservedQueueItem.Attempt: the attempt read when the row was reserved
  inCatch,    \* handlers inside the catch block of ProcessQueueItemAsync
  stored,     \* rows whose observation is in product / price_snapshot
  errored,    \* rows whose final failure is in crawl_error
  catalog,    \* product_catalog row behind each seed, as this run left it
  visits,     \* how many times each row was handed to a handler
  faults      \* database calls that failed so far

rowVars  == <<status, attempt, due, expired>>
loopVars == <<loop, reaperDue, cancelled>>
sinkVars == <<stored, errored, catalog>>
vars == <<rowVars, loopVars, pc, copy, inCatch, sinkVars, visits, faults>>

Terminal    == {"succeeded", "dead"}
Outstanding == {"pending", "retry", "reserved"}
Status      == Terminal \cup Outstanding \cup {"absent"}
Ended       == {"returned", "failed", "cancelled"}

(* A product is leased from its selection to its verdict; "free" only if the  *)
(* run never took it or gave it back (CollectProductPrices.tla).              *)
CatalogStatus == {"free", "reserved", "checked", "failed"}

Idle        == {"out", "batched", "done"}
Steps       == {"fetch", "store", "note", "callback", "mark_ok", "list_note",
                "enqueue", "retry", "dead_note", "dead", "dead_cb"}

Busy(i)  == pc[i] \notin Idle
Handling == {i \in Items : Busy(i)}

(* What a database call does to its caller: it returns, or it throws with  *)
(* or without having committed.                                            *)
Outcome      == {"ok", "lost", "failed"}
Committed(o) == o # "failed"

(* Nothing of the drain has happened yet. *)
Fresh ==
  /\ attempt   = [i \in Items |-> 0]
  /\ expired   = {}
  /\ loop      = "top"
  /\ reaperDue = TRUE
  /\ cancelled = FALSE
  /\ pc        = [i \in Items |-> "out"]
  /\ copy      = [i \in Items |-> 0]
  /\ inCatch   = {}
  /\ stored    = {}
  /\ errored   = {}
  /\ visits    = [i \in Items |-> 0]
  /\ faults    = 0

(* The seeds are enqueued, their catalog rows leased. *)
Init ==
  /\ status  = [i \in Items |-> IF i \in Seeds THEN "pending" ELSE "absent"]
  /\ due     = Seeds
  /\ catalog = [i \in Seeds |-> "reserved"]
  /\ Fresh

-----------------------------------------------------------------------------
(* Routines of db/routines/020__queue_routines.sql.                         *)

Reservable == {i \in due : status[i] \in {"pending", "retry"}}

(* Faulty variant, used by no specification: the limit is off by one. *)
BugBatchOneTooMany ==
  LET size == IF Cardinality(Reservable) <= BatchSize THEN Cardinality(Reservable) ELSE BatchSize + 1
  IN  kSubset(size, Reservable)

Batches ==
  LET size == IF Cardinality(Reservable) < BatchSize THEN Cardinality(Reservable) ELSE BatchSize
  IN  kSubset(size, Reservable)

ReserveRows(B) ==
  /\ status'  = [i \in Items |-> IF i \in B THEN "reserved" ELSE status[i]]
  /\ expired' = expired \ B
  /\ UNCHANGED <<attempt, due>>

ReapedRows == {i \in Items : status[i] = "reserved" /\ i \in expired}

ReapRows ==
  /\ status'  = [i \in Items |-> IF i \in ReapedRows THEN "retry" ELSE status[i]]
  /\ due'     = due \cup ReapedRows
  /\ expired' = expired \ ReapedRows
  /\ UNCHANGED attempt

SetSucceeded(i) ==
  /\ status'  = [status EXCEPT ![i] = "succeeded"]
  /\ expired' = expired \ {i}
  /\ UNCHANGED <<attempt, due>>

(* Faulty variant: a retry does not count the attempt. *)
BugRetryUncounted(i) ==
  /\ status'  = [status EXCEPT ![i] = "retry"]
  /\ due'     = due \ {i}
  /\ expired' = expired \ {i}
  /\ UNCHANGED attempt

SetRetry(i) ==
  /\ status'  = [status EXCEPT ![i] = "retry"]
  /\ attempt' = [attempt EXCEPT ![i] = @ + 1]
  /\ due'     = due \ {i}
  /\ expired' = expired \ {i}

SetDead(i) ==
  /\ status'  = [status EXCEPT ![i] = "dead"]
  /\ attempt' = [attempt EXCEPT ![i] = @ + 1]
  /\ expired' = expired \ {i}
  /\ UNCHANGED due

(* on conflict (run_id, url) do nothing *)
InsertRows(S) ==
  LET new == {i \in S : status[i] = "absent"}
  IN  /\ status' = [i \in Items |-> IF i \in new THEN "pending" ELSE status[i]]
      /\ due'    = due \cup new
      /\ UNCHANGED <<attempt, expired>>

HasOutstanding == \E i \in Items : status[i] \in Outstanding

-----------------------------------------------------------------------------
(* The loop of DrainQueueAsync.                                             *)

(* A call of the loop itself that throws ends the drain: nothing catches it *)
(* there.                                                                   *)
LoopCall(o, next) ==
  IF o = "ok" THEN loop' = next /\ UNCHANGED faults
              ELSE /\ faults < MaxFaults
                   /\ faults' = faults + 1
                   /\ loop' = "failed"

Reap ==
  /\ loop = "top" /\ ~cancelled /\ reaperDue
  /\ \E o \in Outcome :
       /\ IF Committed(o) THEN ReapRows ELSE UNCHANGED rowVars
       /\ LoopCall(o, "reserve")
  /\ reaperDue' = FALSE
  /\ UNCHANGED <<cancelled, pc, copy, inCatch, sinkVars, visits>>

SkipReap ==
  /\ loop = "top" /\ ~cancelled /\ ~reaperDue
  /\ loop' = "reserve"
  /\ UNCHANGED <<rowVars, reaperDue, cancelled, pc, copy, inCatch, sinkVars, visits, faults>>

ReserveBatch ==
  /\ loop = "reserve"
  /\ \E B \in Batches, o \in Outcome :
       /\ IF Committed(o) THEN ReserveRows(B) ELSE UNCHANGED rowVars
       /\ LoopCall(o, IF B = {} THEN "check" ELSE "batch")
       /\ IF o = "ok"
            THEN /\ pc'   = [i \in Items |-> IF i \in B THEN "batched" ELSE "out"]
                 /\ copy' = [i \in Items |-> IF i \in B THEN attempt[i] ELSE 0]
            ELSE UNCHANGED <<pc, copy>>
  /\ UNCHANGED <<reaperDue, cancelled, inCatch, sinkVars, visits>>

CheckOutstanding ==
  /\ loop = "check"
  /\ \E o \in {"ok", "failed"} : LoopCall(o, IF HasOutstanding THEN "top" ELSE "returned")
  /\ UNCHANGED <<rowVars, reaperDue, cancelled, pc, copy, inCatch, sinkVars, visits>>

(* ForEachAsync completes when every handler it started has; after a        *)
(* cancellation it starts no more of them.                                  *)
HandlersJoined == \A i \in Items : ~Busy(i) /\ (pc[i] = "batched" => cancelled)

(* Faulty variant: the handlers are started and not awaited. *)
BugFireAndForget ==
  /\ loop = "batch"
  /\ loop' = "top"
  /\ UNCHANGED <<rowVars, reaperDue, cancelled, pc, copy, inCatch, sinkVars, visits, faults>>

Join ==
  /\ loop = "batch" /\ HandlersJoined
  /\ loop'    = IF cancelled THEN "cancelled" ELSE "top"
  /\ pc'      = [i \in Items |-> "out"]
  /\ copy'    = [i \in Items |-> 0]
  /\ inCatch' = {}
  /\ UNCHANGED <<rowVars, reaperDue, cancelled, sinkVars, visits, faults>>

ObserveCancel ==
  /\ cancelled /\ loop \in {"top", "reserve", "check"}
  /\ loop' = "cancelled"
  /\ UNCHANGED <<rowVars, reaperDue, cancelled, pc, copy, inCatch, sinkVars, visits, faults>>

LoopStep == Reap \/ SkipReap \/ ReserveBatch \/ CheckOutstanding \/ Join \/ ObserveCancel

-----------------------------------------------------------------------------
(* ProcessQueueItemAsync for one reserved row.                              *)

(* QueueRetryPolicy.DecideFailureAction, and the first call of the branch   *)
(* it selects in FinalizeFailedItemAsync.                                   *)
FailurePath(transient, n) == IF transient /\ n < MaxAttempts THEN "retry" ELSE "dead_note"

(* An exception: the catch block finalizes the row once more, as a          *)
(* transient failure; an exception in the catch block is only logged.       *)
Thrown(i) ==
  IF i \in inCatch
    THEN pc' = [pc EXCEPT ![i] = "done"] /\ UNCHANGED inCatch
    ELSE /\ pc'      = [pc EXCEPT ![i] = FailurePath(TRUE, copy[i] + 1)]
         /\ inCatch' = inCatch \cup {i}

Call(i, o, next) ==
  IF o = "ok" THEN pc' = [pc EXCEPT ![i] = next] /\ UNCHANGED <<inCatch, faults>>
              ELSE faults < MaxFaults /\ faults' = faults + 1 /\ Thrown(i)

Start(i) ==
  /\ loop = "batch" /\ pc[i] = "batched" /\ ~cancelled
  /\ Cardinality(Handling) < MaxConcurrency
  /\ pc'     = [pc EXCEPT ![i] = "fetch"]
  /\ visits' = [visits EXCEPT ![i] = @ + 1]
  /\ UNCHANGED <<rowVars, loopVars, copy, inCatch, sinkVars, faults>>

(* The extractor of the page kind yields a card (or the product links of a *)
(* listing, or finds none), fails for good or fails for now; apart from a   *)
(* cancellation it catches every exception of its own.                      *)
Extract(i) ==
  /\ pc[i] = "fetch"
  /\ \/ \E next \in IF i \in Listings THEN {"enqueue", "list_note"} ELSE {"store"} :
          pc' = [pc EXCEPT ![i] = next]
     \/ \E transient \in BOOLEAN : pc' = [pc EXCEPT ![i] = FailurePath(transient, copy[i] + 1)]
  /\ UNCHANGED <<rowVars, loopVars, copy, inCatch, sinkVars, visits, faults>>

StoreObservation(i) ==
  /\ pc[i] = "store"
  /\ \E o \in Outcome, next \in {"note", "callback"} :
       /\ stored' = IF Committed(o) THEN stored \cup {i} ELSE stored
       /\ Call(i, o, next)
  /\ UNCHANGED <<rowVars, loopVars, copy, errored, catalog, visits>>

(* InsertCrawlErrorAsync on its three paths; only the last one records a    *)
(* final failure.                                                           *)
InsertCrawlError(i) ==
  /\ \E o \in Outcome :
       \/ pc[i] = "note" /\ Call(i, o, "callback") /\ UNCHANGED errored
       \/ pc[i] = "list_note" /\ Call(i, o, "mark_ok") /\ UNCHANGED errored
       \/ /\ pc[i] = "dead_note" /\ Call(i, o, "dead")
          /\ errored' = IF Committed(o) THEN errored \cup {i} ELSE errored
  /\ UNCHANGED <<rowVars, loopVars, copy, stored, catalog, visits>>

EnqueueDiscovered(i) ==
  /\ pc[i] = "enqueue"
  /\ \E S \in SUBSET (Items \ Listings), o \in Outcome :
       /\ IF Committed(o) THEN InsertRows(S) ELSE UNCHANGED rowVars
       /\ Call(i, o, "mark_ok")
  /\ UNCHANGED <<loopVars, copy, sinkVars, visits>>

(* The callbacks of CollectProductPricesUseCase: product_catalog_mark_checked *)
(* and product_catalog_mark_failed, for rows that have a catalog row.         *)
CatalogCallback(i, mark, next) ==
  /\ \E o \in Outcome :
       IF i \in Seeds
         THEN /\ catalog' = IF Committed(o) THEN [catalog EXCEPT ![i] = mark] ELSE catalog
              /\ Call(i, o, next)
         ELSE o = "ok" /\ Call(i, o, next) /\ UNCHANGED catalog
  /\ UNCHANGED <<rowVars, loopVars, copy, stored, errored, visits>>

OnItemSucceeded(i) == pc[i] = "callback" /\ CatalogCallback(i, "checked", "mark_ok")
OnItemDead(i)      == pc[i] = "dead_cb"  /\ CatalogCallback(i, "failed", "done")

MarkRow(i, step, Set(_), next) ==
  /\ pc[i] = step
  /\ \E o \in Outcome :
       /\ IF Committed(o) THEN Set(i) ELSE UNCHANGED rowVars
       /\ Call(i, o, next)
  /\ UNCHANGED <<loopVars, copy, sinkVars, visits>>

MarkSucceeded(i) == MarkRow(i, "mark_ok", SetSucceeded, "done")
MarkRetry(i)     == MarkRow(i, "retry", SetRetry, "done")
MarkDead(i)      == MarkRow(i, "dead", SetDead, "dead_cb")

(* OperationCanceledException leaves the handler wherever it was; inside    *)
(* the catch block it is swallowed like any other.                          *)
Abandon(i) ==
  /\ cancelled /\ Busy(i)
  /\ pc' = [pc EXCEPT ![i] = "done"]
  /\ UNCHANGED <<rowVars, loopVars, copy, inCatch, sinkVars, visits, faults>>

HandlerStep(i) ==
  \/ Start(i) \/ Extract(i) \/ StoreObservation(i) \/ InsertCrawlError(i)
  \/ EnqueueDiscovered(i) \/ OnItemSucceeded(i) \/ OnItemDead(i)
  \/ MarkSucceeded(i) \/ MarkRetry(i) \/ MarkDead(i) \/ Abandon(i)

-----------------------------------------------------------------------------
(* The clock and the operator.                                              *)

RetryDelayPasses(i) ==
  /\ status[i] = "retry" /\ i \notin due
  /\ due' = due \cup {i}
  /\ UNCHANGED <<status, attempt, expired, loopVars, pc, copy, inCatch, sinkVars, visits, faults>>

LeaseExpires(i) ==
  /\ status[i] = "reserved" /\ i \notin expired
  /\ expired' = expired \cup {i}
  /\ UNCHANGED <<status, attempt, due, loopVars, pc, copy, inCatch, sinkVars, visits, faults>>

ReaperTimer ==
  /\ ~reaperDue /\ loop \notin Ended
  /\ reaperDue' = TRUE
  /\ UNCHANGED <<rowVars, loop, cancelled, pc, copy, inCatch, sinkVars, visits, faults>>

Cancel ==
  /\ ~cancelled /\ loop \notin Ended
  /\ cancelled' = TRUE
  /\ UNCHANGED <<rowVars, loop, reaperDue, pc, copy, inCatch, sinkVars, visits, faults>>

Terminated == loop \in Ended /\ UNCHANGED vars

Clock == ReaperTimer \/ \E i \in Items : RetryDelayPasses(i) \/ LeaseExpires(i)

Next == LoopStep \/ (\E i \in Items : HandlerStep(i)) \/ Clock \/ Cancel \/ Terminated

Spec == Init /\ [][Next]_vars
-----------------------------------------------------------------------------
(* Properties.                                                              *)

(* Every variable keeps its type; a row never counts more than two attempts *)
(* beyond MaxAttempts, only reserved rows carry a lease, and no handler     *)
(* runs unless the loop waits for its batch.                                *)
TypeOK ==
  /\ status \in [Items -> Status]
  /\ attempt \in [Items -> 0..(MaxAttempts + 2)]
  /\ due \subseteq Items
  /\ expired \subseteq {i \in Items : status[i] = "reserved"}
  /\ loop \in {"top", "reserve", "check", "batch"} \cup Ended
  /\ reaperDue \in BOOLEAN
  /\ cancelled \in BOOLEAN
  /\ pc \in [Items -> Steps \cup Idle]
  /\ copy \in [Items -> 0..MaxAttempts]
  /\ inCatch \subseteq Items
  /\ stored \subseteq Items
  /\ errored \subseteq Items
  /\ catalog \in [Seeds -> CatalogStatus]
  /\ visits \in [Items -> Nat]
  /\ faults \in 0..MaxFaults
  /\ loop # "batch" => \A i \in Items : pc[i] = "out"

(* The reaper and a second reservation can never take a row away from the   *)
(* handler working on it, however short the lease is: until the handler     *)
(* writes a verdict the row is reserved and its attempt is the one read     *)
(* when it was reserved.  No routine checks the owner; what protects the    *)
(* row is that DrainQueueAsync reaps only after all handlers have returned. *)
HandlerOwnsRow ==
  \A i \in Items :
    pc[i] = "batched" \/ (Busy(i) /\ pc[i] # "dead_cb" /\ i \notin inCatch)
      => status[i] = "reserved" /\ attempt[i] = copy[i]

(* A row that will be tried again still has attempts recorded within        *)
(* QueueOptions.MaxAttempts, and as long as no database call has failed     *)
(* neither the counted nor the real number of tries exceeds it.             *)
AttemptsBounded ==
  /\ \A i \in Items : status[i] = "retry" => attempt[i] <= MaxAttempts
  /\ faults = 0 => \A i \in Items : visits[i] <= MaxAttempts /\ attempt[i] <= MaxAttempts

(* A try of a URL goes uncounted only if two database calls fail: the one   *)
(* that throws and the one by which the catch block would count the try (the *)
(* row then stays reserved and the reaper returns it as it was).  The tries  *)
(* beyond the counted attempts, except the one under way or successful, are  *)
(* at most half the failed calls.                                            *)
VisitsAccounted == \A i \in Items : 2 * visits[i] <= 2 * attempt[i] + faults + 2

(* DrainQueueAsync returns only when every row of the run is succeeded or   *)
(* dead and no handler runs: the statistics and the verdict of the run are  *)
(* computed from final rows.                                                *)
ReturnsOnlyWhenSettled ==
  loop = "returned" =>
    \A i \in Items : status[i] \in Terminal \cup {"absent"} /\ ~Busy(i)

(* A succeeded product row has its observation stored and its catalog row   *)
(* rescheduled, and a dead row has its crawl_error, whatever call failed on *)
(* the way.                                                                 *)
TerminalRowsAreAccountedFor ==
  \A i \in Items :
    /\ status[i] = "succeeded" /\ i \notin Listings =>
         /\ i \in stored
         /\ i \in Seeds => catalog[i] = "checked"
    /\ status[i] = "dead" => i \in errored

(* Once the handler of a row has returned, a succeeded or dead row never    *)
(* changes: neither the reaper nor a reservation nor a rediscovery of its   *)
(* URL revives it.                                                          *)
KeepsVerdicts ==
  \A i \in Items : status[i] \in Terminal /\ ~Busy(i)
                     => status'[i] = status[i] /\ attempt'[i] = attempt[i]

SettledIsFinal == [][KeepsVerdicts]_vars

-----------------------------------------------------------------------------
(* The inductive invariant behind the properties: what each handler step    *)
(* relies on.                                                               *)

(* A failed row goes to retry only with an attempt to spare; the catch      *)
(* block, entered after at most one write of the handler, adds at most one  *)
(* more.                                                                    *)
HandlerSteps ==
  \A i \in Items :
    /\ i \in inCatch => pc[i] \in {"retry", "dead_note", "dead", "dead_cb", "done"}
    /\ pc[i] = "retry" => copy[i] + 1 < MaxAttempts
    /\ pc[i] \in {"retry", "dead_note", "dead"} => attempt[i] <= copy[i] + 1
    /\ pc[i] = "dead_cb" => status[i] = "dead" /\ attempt[i] <= copy[i] + 2
    /\ pc[i] = "dead_cb" /\ i \notin inCatch => attempt[i] <= copy[i] + 1
    /\ pc[i] \in {"dead", "dead_cb"} => i \in errored
    /\ pc[i] \in {"enqueue", "list_note"} => i \in Listings
    /\ pc[i] \in {"note", "callback", "mark_ok"} /\ i \notin Listings => i \in stored
    /\ pc[i] = "mark_ok" /\ i \in Seeds \ Listings => catalog[i] = "checked"

RowAttempts ==
  /\ \A i \in Items : status[i] \in Outstanding \cup {"absent"} => attempt[i] <= MaxAttempts
  /\ faults = 0 =>
       /\ inCatch = {}
       /\ \A i \in Items :
            /\ attempt[i] <= MaxAttempts
            /\ status[i] # "dead" => attempt[i] < MaxAttempts

VisitsPaid ==
  \A i \in Items : LET unpaid == 2 * visits[i] - 2 * attempt[i] - faults IN
    /\ unpaid <= 2
    /\ i \in inCatch => unpaid <= 1
    /\ status[i] \notin {"reserved", "succeeded"} => unpaid <= 0
    /\ ~cancelled /\ status[i] = "reserved" /\ pc[i] \in Idle => unpaid <= 0

IInv ==
  /\ TypeOK
  /\ HandlerOwnsRow
  /\ HandlerSteps
  /\ RowAttempts
  /\ VisitsPaid
  /\ ReturnsOnlyWhenSettled
  /\ TerminalRowsAreAccountedFor

-----------------------------------------------------------------------------
(* The drain keeps the promise of QueueContract: the rows a handler has or  *)
(* is about to get are held, every other row keeps its verdict.             *)
Contract == INSTANCE QueueContract WITH
  verdict <- [i \in Items |-> IF status[i] \in Outstanding THEN "open" ELSE status[i]],
  held    <- {i \in Items : pc[i] \notin {"out", "done"}},
  closed  <- loop = "returned"

ImplementsContract == Contract!Spec

=============================================================================
