--------------------------- MODULE CatalogRefresh ---------------------------
(***************************************************************************)
(* Catalog refreshes (RefreshProductCatalogUseCase.ExecuteAsync) running as *)
(* processes of their own over one product_catalog: each opens a            *)
(* crawler_run and a product_catalog_refresh session, counts the active     *)
(* rows, discovers products, upserts them, deactivates rows missing for     *)
(* the grace period if the safety policy lets it, and closes session and    *)
(* run.  A session older than the running timeout is abandoned by the next  *)
(* refresh although its process may still be at work.  Calls fail or lose   *)
(* their reply and processes are cancelled at any step; a process that dies *)
(* is one that takes no further step.                                       *)
(*                                                                          *)
(* The clock counts ticks shorter than the grace period and the timeout; a  *)
(* process may be arbitrarily slow between two calls.                       *)
(***************************************************************************)
EXTENDS Integers, FiniteSets

CONSTANTS
  Refreshes,        \* the refreshes ever started
  Products,         \* the URLs of the shop
  NoRefresh,        \* last_seen_refresh_id of a row no refresh has seen
  Timeout,          \* CrawlerOptions.CatalogRefreshRunningTimeoutMinutes, in ticks
  Grace,            \* CrawlerOptions.CatalogMissingGracePeriodDays, in ticks
  MinimumExpected,  \* CrawlerOptions.CatalogMinimumExpectedUrls
  RatioPercent,     \* CrawlerOptions.CatalogMinimumPreviousRatio, in percent
  MaxTime,          \* bound on the clock
  MaxFaults         \* bound on failed database calls

ASSUME RefreshAssumption ==
  /\ IsFiniteSet(Refreshes)
  /\ IsFiniteSet(Products)
  /\ NoRefresh \notin Refreshes
  /\ Timeout \in Nat \ {0}
  /\ Grace \in Nat \ {0}
  /\ MinimumExpected \in Nat \ {0}
  /\ RatioPercent \in 1..100
  /\ MaxTime \in Nat
  /\ MaxFaults \in Nat

VARIABLES
  session,      \* product_catalog_refresh.status of each refresh, "none" before its row exists
  started,      \* product_catalog_refresh.started_at
  run,          \* crawler_run.status of each refresh
  phase,        \* the statement of ExecuteAsync each process is about to run
  before,       \* activeCountBefore
  found,        \* the discovered URLs
  discoveredAt, \* discoveredAt
  answer,       \* status of RefreshProductCatalogResult, "none" until returned
  active,       \* product_catalog rows with is_active
  seenBy,       \* product_catalog.last_seen_refresh_id
  lastSeen,     \* product_catalog.last_discovered_at
  behind,       \* the longest time from a discovery to its upsert so far
  now,          \* the clock
  faults        \* database calls that failed so far

sessionVars == <<session, started, run>>
localVars   == <<before, found, discoveredAt>>
catalogVars == <<active, seenBy, lastSeen, behind>>
vars == <<sessionVars, phase, localVars, answer, catalogVars, now, faults>>

Over    == {"over", "swallowed", "escaped"}   \* returned, returned past a cancellation, threw
Working == {"start", "count", "discover", "upsert", "deactivate", "complete", "stats",
            "fail", "fail_stats", "fail_late", "fail_late_stats", "undo", "undo_stats"}
Closing == {"fail_late", "fail_late_stats", "undo", "undo_stats"}   \* calls with CancellationToken.None
Closed  == {"ok", "error", "cancelled"}

Outcome      == {"ok", "lost", "failed"}
Committed(o) == o # "failed"

Goto(r, next) == phase' = [phase EXCEPT ![r] = next]

(* What a call does to its caller: it goes on, or it throws. *)
Call(r, o, next, onThrow) ==
  IF o = "ok" THEN Goto(r, next) /\ UNCHANGED faults
              ELSE faults < MaxFaults /\ faults' = faults + 1 /\ Goto(r, onThrow)

Return(r, status) == answer' = [answer EXCEPT ![r] = IF phase'[r] = "over" THEN status ELSE @]

Init ==
  /\ session = [r \in Refreshes |-> "none"]
  /\ started = [r \in Refreshes |-> 0]
  /\ run     = [r \in Refreshes |-> "none"]
  /\ phase   = [r \in Refreshes |-> "idle"]
  /\ before  = [r \in Refreshes |-> 0]
  /\ found   = [r \in Refreshes |-> {}]
  /\ discoveredAt = [r \in Refreshes |-> 0]
  /\ answer  = [r \in Refreshes |-> "none"]
  /\ active \in SUBSET Products
  /\ seenBy   = [p \in Products |-> NoRefresh]
  /\ lastSeen = [p \in Products |-> 0]
  /\ behind = 0
  /\ now = 0
  /\ faults = 0

-----------------------------------------------------------------------------
(* crawler_run_start, before the try block. *)
StartRun(r) ==
  /\ phase[r] = "idle"
  /\ \E o \in Outcome : /\ run' = [run EXCEPT ![r] = IF Committed(o) THEN "running" ELSE @]
                        /\ Call(r, o, "start", "escaped")
  /\ UNCHANGED <<session, started, localVars, answer, catalogVars, now>>

(* product_catalog_refresh_start gives up on sessions older than the timeout *)
(* and refuses to start beside a younger one.                                *)
Stale(r)   == session[r] = "running" /\ started[r] + Timeout < now
Young(r)   == session[r] = "running" /\ ~Stale(r)

OthersRun == \E r \in Refreshes : Young(r)

StartRefused(r) ==
  /\ phase[r] = "start" /\ OthersRun
  /\ Goto(r, "fail")
  /\ UNCHANGED <<sessionVars, localVars, answer, catalogVars, now, faults>>

(* Nothing catches an exception of the call: it leaves ExecuteAsync. *)
StartSession(r) ==
  /\ phase[r] = "start" /\ ~OthersRun
  /\ \E o \in Outcome :
       /\ session' = IF Committed(o)
                       THEN [s \in Refreshes |-> CASE s = r -> "running"
                                                   [] Stale(s) -> "error"
                                                   [] OTHER -> session[s]]
                       ELSE session
       /\ started' = IF Committed(o) THEN [started EXCEPT ![r] = now] ELSE started
       /\ Call(r, o, "count", "escaped")
  /\ UNCHANGED <<run, localVars, answer, catalogVars, now>>

(* Two calls may both have found no running session; the unique index on     *)
(* running sessions makes the second insert fail.                            *)
StartCollides(r) ==
  /\ phase[r] = "start" /\ \E s \in Refreshes : Young(s) /\ started[s] = now
  /\ Goto(r, "escaped")
  /\ UNCHANGED <<sessionVars, localVars, answer, catalogVars, now, faults>>

GetActiveCount(r) ==
  /\ phase[r] = "count"
  /\ \E o \in {"ok", "failed"} : /\ before' = [before EXCEPT ![r] = IF o = "ok" THEN Cardinality(active) ELSE @]
                                 /\ Call(r, o, "discover", "escaped")
  /\ UNCHANGED <<sessionVars, found, discoveredAt, answer, catalogVars, now>>

(* A discovery that finds no URL is an error like one that throws.  An HTTP  *)
(* timeout (robots.txt, a sitemap) is an OperationCanceledException without  *)
(* the token being set: no catch of ExecuteAsync takes it.  The time of the  *)
(* discovery is read when it returns.                                        *)
Discover(r) ==
  /\ phase[r] = "discover"
  /\ \/ \E S \in (SUBSET Products) \ {{}} :
          /\ found' = [found EXCEPT ![r] = S]
          /\ discoveredAt' = [discoveredAt EXCEPT ![r] = now]
          /\ Goto(r, "upsert")
     \/ (Goto(r, "fail") \/ Goto(r, "escaped")) /\ UNCHANGED <<found, discoveredAt>>
  /\ UNCHANGED <<sessionVars, before, answer, catalogVars, now, faults>>

(* CatalogRefreshSafetyPolicy.Evaluate; required is rounded up. *)
Required(count) == (count * RatioPercent + 99) \div 100
Unsafe(accepted, count) == accepted < MinimumExpected \/ (count > 0 /\ accepted < Required(count))

(* full: the deactivation is enabled and the discovery was of the category   *)
(* seeds without a filter.                                                   *)
Judged(r, full) == CASE ~full -> "complete"
                     [] full /\ Unsafe(Cardinality(found[r]), before[r]) -> "fail"
                     [] OTHER -> "deactivate"

(* product_catalog_upsert_discovered.  Rows another refresh found later go    *)
(* back to the time of this discovery.                                       *)
UpsertRows(r) ==
  /\ active'   = active \cup found[r]
  /\ seenBy'   = [p \in Products |-> IF p \in found[r] THEN r ELSE seenBy[p]]
  /\ lastSeen' = [p \in Products |-> IF p \in found[r] THEN discoveredAt[r] ELSE lastSeen[p]]
  /\ behind'   = IF now - discoveredAt[r] > behind THEN now - discoveredAt[r] ELSE behind

UpsertDiscovered(r) ==
  /\ phase[r] = "upsert"
  /\ \E o \in Outcome, full \in BOOLEAN :
       /\ IF Committed(o) THEN UpsertRows(r) ELSE UNCHANGED catalogVars
       /\ Call(r, o, Judged(r, full), "fail")
  /\ UNCHANGED <<sessionVars, localVars, answer, now>>

(* Faulty variant, used by no specification: the grace period is forgotten. *)
BugNoGrace(r) == {p \in active : seenBy[p] # r}

(* product_catalog_deactivate_missing, without the lease of the row. *)
Missing(r) == {p \in active : seenBy[p] # r /\ lastSeen[p] < now - Grace}

(* Rows leased by a price collection are spared. *)
DeactivateMissing(r) ==
  /\ phase[r] = "deactivate"
  /\ \E o \in Outcome, leased \in SUBSET Missing(r) :
       /\ active' = IF Committed(o) THEN active \ (Missing(r) \ leased) ELSE active
       /\ Call(r, o, "complete", "fail")
  /\ UNCHANGED <<sessionVars, localVars, answer, seenBy, lastSeen, behind, now>>

(* product_catalog_refresh_complete_with_run and _fail_with_run raise unless *)
(* the session is running: they close session and run together or neither.   *)
CloseBoth(r, sessionStatus, runStatus) ==
  /\ session' = [session EXCEPT ![r] = sessionStatus]
  /\ run'     = [run EXCEPT ![r] = runStatus]

CompleteWithRun(r) ==
  /\ phase[r] = "complete"
  /\ IF session[r] = "running"
       THEN \E o \in Outcome : /\ IF Committed(o) THEN CloseBoth(r, "ok", "ok") ELSE UNCHANGED <<session, run>>
                               /\ Call(r, o, "stats", "fail_late")
       ELSE Goto(r, "fail_late") /\ UNCHANGED <<session, run, faults>>
  /\ UNCHANGED <<started, localVars, answer, catalogVars, now>>

(* crawler_run_complete with the statistics. *)
CompleteStatistics(r) ==
  /\ phase[r] = "stats"
  /\ \E o \in Outcome : /\ run' = [run EXCEPT ![r] = IF Committed(o) THEN "ok" ELSE @]
                        /\ Call(r, o, "over", "fail_late")
  /\ Return(r, "ok")
  /\ UNCHANGED <<session, started, localVars, catalogVars, now>>
-----------------------------------------------------------------------------
(* FinishFailureAsync: its exceptions are logged and the answer is an error. *)

(* Faulty variant: the routine closes a session whatever its status is. *)
BugFailAnySession(r) ==
  /\ phase[r] \in {"fail", "fail_late"}
  /\ CloseBoth(r, "error", "error")
  /\ Goto(r, IF phase[r] = "fail" THEN "fail_stats" ELSE "fail_late_stats")
  /\ UNCHANGED <<started, localVars, answer, catalogVars, now, faults>>

(* Faulty variant: a refused refresh returns without closing its run. *)
BugRefusedRunLeftOpen(r) ==
  /\ phase[r] \in {"fail", "fail_late"} /\ session[r] = "none"
  /\ Goto(r, "over")
  /\ Return(r, "error")
  /\ UNCHANGED <<sessionVars, localVars, catalogVars, now, faults>>

FailWithRun(r) ==
  /\ phase[r] \in {"fail", "fail_late"}
  /\ LET next == IF phase[r] = "fail" THEN "fail_stats" ELSE "fail_late_stats" IN
       CASE session[r] = "running" ->
              \E o \in Outcome : /\ IF Committed(o) THEN CloseBoth(r, "error", "error") ELSE UNCHANGED <<session, run>>
                                 /\ Call(r, o, next, "over")
         [] session[r] = "none" ->
              \E o \in Outcome : /\ run' = [run EXCEPT ![r] = IF Committed(o) THEN "error" ELSE @]
                                 /\ UNCHANGED session
                                 /\ Call(r, o, next, "over")
         [] OTHER -> Goto(r, "over") /\ UNCHANGED <<session, run, faults>>
  /\ Return(r, "error")
  /\ UNCHANGED <<started, localVars, catalogVars, now>>

FailStatistics(r) ==
  /\ phase[r] \in {"fail_stats", "fail_late_stats"}
  /\ \E o \in Outcome : /\ run' = [run EXCEPT ![r] = IF Committed(o) THEN "error" ELSE @]
                        /\ Call(r, o, "over", "over")
  /\ Return(r, "error")
  /\ UNCHANGED <<session, started, localVars, catalogVars, now>>
-----------------------------------------------------------------------------
(* Cancellation.                                                            *)

(* The next call given the token throws; inside FinishFailureAsync that is   *)
(* swallowed with every other exception and the run stays as it is.          *)
CancelledCall(r) ==
  /\ phase[r] \in Working \ Closing
  /\ IF phase[r] \in {"fail", "fail_stats"}
       THEN Goto(r, "swallowed") /\ answer' = [answer EXCEPT ![r] = "error"]
       ELSE Goto(r, "undo") /\ UNCHANGED answer
  /\ UNCHANGED <<sessionVars, localVars, catalogVars, now, faults>>

(* Faulty variant: the run is given the status of the session. *)
BugRunTakesSessionStatus(r) ==
  /\ phase[r] = "undo" /\ session[r] = "running"
  /\ CloseBoth(r, "cancelled", "cancelled")
  /\ Goto(r, "undo_stats")
  /\ UNCHANGED <<started, localVars, answer, catalogVars, now, faults>>

(* The catch block of ExecuteAsync: both calls are tried, then the           *)
(* cancellation goes on.                                                     *)
UndoRefresh(r) ==
  /\ phase[r] = "undo"
  /\ IF session[r] = "running" \/ session[r] = "none"
       THEN \E o \in Outcome :
              /\ run' = [run EXCEPT ![r] = IF Committed(o) THEN "error" ELSE @]
              /\ session' = [session EXCEPT ![r] = IF Committed(o) /\ @ = "running" THEN "cancelled" ELSE @]
              /\ Call(r, o, "undo_stats", "undo_stats")
       ELSE Goto(r, "undo_stats") /\ UNCHANGED <<session, run, faults>>
  /\ UNCHANGED <<started, localVars, answer, catalogVars, now>>

UndoStatistics(r) ==
  /\ phase[r] = "undo_stats"
  /\ \E o \in Outcome : /\ run' = [run EXCEPT ![r] = IF Committed(o) THEN "error" ELSE @]
                        /\ Call(r, o, "escaped", "escaped")
  /\ UNCHANGED <<session, started, localVars, answer, catalogVars, now>>

Tick ==
  /\ now < MaxTime
  /\ now' = now + 1
  /\ UNCHANGED <<sessionVars, phase, localVars, answer, catalogVars, faults>>

RefreshStep(r) ==
  \/ StartRun(r) \/ StartRefused(r) \/ StartSession(r) \/ StartCollides(r) \/ GetActiveCount(r)
  \/ Discover(r) \/ UpsertDiscovered(r) \/ DeactivateMissing(r) \/ CompleteWithRun(r)
  \/ CompleteStatistics(r) \/ FailWithRun(r) \/ FailStatistics(r) \/ CancelledCall(r)
  \/ UndoRefresh(r) \/ UndoStatistics(r)

Terminated ==
  /\ now = MaxTime /\ \A r \in Refreshes : phase[r] \in Over
  /\ UNCHANGED vars

Next == (\E r \in Refreshes : RefreshStep(r)) \/ Tick \/ Terminated

Spec == Init /\ [][Next]_vars

-----------------------------------------------------------------------------
(* Properties.                                                              *)

RefreshTypeOK ==
  /\ session \in [Refreshes -> Closed \cup {"none", "running"}]
  /\ started \in [Refreshes -> 0..MaxTime]
  /\ run \in [Refreshes -> {"none", "running", "ok", "error"}]
  /\ phase \in [Refreshes -> Working \cup Over \cup {"idle"}]
  /\ before \in [Refreshes -> 0..Cardinality(Products)]
  /\ found \in [Refreshes -> SUBSET Products]
  /\ discoveredAt \in [Refreshes -> 0..MaxTime]
  /\ answer \in [Refreshes -> {"none", "ok", "error"}]
  /\ active \subseteq Products
  /\ seenBy \in [Products -> Refreshes \cup {NoRefresh}]
  /\ lastSeen \in [Products -> 0..MaxTime]
  /\ now \in 0..MaxTime /\ behind \in 0..MaxTime
  /\ faults \in 0..MaxFaults

(* Whatever concurrent starts, abandonments and lost replies there are, one   *)
(* session at most is running.                                               *)
OneRunning ==
  \A r, s \in Refreshes : session[r] = "running" /\ session[s] = "running" => r = s

(* A session that was given up, cancelled or closed keeps its verdict: its    *)
(* process, which may still be alive, cannot reopen or overwrite it.          *)
SessionsAreFinal ==
  [][\A r \in Refreshes : session[r] \in Closed => session'[r] = session[r]]_vars

(* A crawler_run that says ok belongs to a session that says ok; an abandoned *)
(* refresh that finishes its work is not recorded as a success.              *)
OkRunHasOkSession ==
  \A r \in Refreshes : /\ run[r] = "ok" => session[r] = "ok"
                       /\ answer[r] = "ok" => run[r] = "ok"

(* A refresh that returns has closed its session, and leaves its run open     *)
(* only if another gave it up.  FinishFailureAsync swallows what goes wrong  *)
(* when it closes them, so a refresh may return with both open; but each one *)
(* that does has met a failed call of its own, whatever else failed.         *)
LeftOpen == {r \in Refreshes :
  /\ phase[r] = "over"
  /\ session[r] = "running" \/ (run[r] = "running" /\ session[r] # "error")}

ReturnedRefreshIsClosed == Cardinality(LeftOpen) <= faults

(* A deactivation soon after its discovery leaves every URL it found active,  *)
(* and so the share of the rows counted at the start that the safety policy   *)
(* asked for, whatever other refreshes upserted or deactivated in between.    *)
(* An upsert sets the time back to that of its own discovery: the grace       *)
(* period is shorter by the longest time any upsert came after it.            *)
Soon(r) == now + behind <= discoveredAt[r] + Grace

DeactivationKeepsTheFound ==
  [][\A r \in Refreshes :
       phase[r] = "deactivate" /\ active' # active /\ Soon(r) =>
         /\ found[r] \subseteq active'
         /\ 100 * Cardinality(active') >= RatioPercent * before[r]]_vars

(* Why the safety properties hold: a session exists once the start has        *)
(* returned, the statistics follow a closed session, an answer is the last    *)
(* word, a session that ends other than by being given up ends with its run,  *)
(* and the rows a refresh found stay fresh until it deactivates.              *)
SessionAfterStart == \A r \in Refreshes : phase[r] \in {"idle", "start"} => session[r] = "none"
StatsAfterSession == \A r \in Refreshes : phase[r] = "stats" => session[r] = "ok"
AnswerIsLast      == \A r \in Refreshes : answer[r] # "none" => phase[r] \in {"over", "swallowed"}
EndsWithItsRun    == \A r \in Refreshes : session[r] \in {"ok", "cancelled"} => run[r] # "running"
FailsClosed ==
  \A r \in Refreshes : phase[r] \in {"fail_stats", "fail_late_stats"} =>
    session[r] # "running" /\ run[r] # "running"
FoundInThePast ==
  /\ \A p \in Products : lastSeen[p] <= now
  /\ \A r \in Refreshes : discoveredAt[r] <= now
FoundStayFresh ==
  \A r \in Refreshes : phase[r] = "deactivate" =>
    /\ \A p \in found[r] : discoveredAt[r] <= lastSeen[p] + behind
    /\ Soon(r) => found[r] \subseteq active
    /\ 100 * Cardinality(found[r]) >= RatioPercent * before[r]

RefreshIInv ==
  /\ RefreshTypeOK /\ OneRunning /\ OkRunHasOkSession
  /\ SessionAfterStart /\ StatsAfterSession /\ AnswerIsLast
  /\ EndsWithItsRun /\ FailsClosed /\ ReturnedRefreshIsClosed
  /\ FoundInThePast /\ FoundStayFresh
-----------------------------------------------------------------------------
(* What the documentation says, and the code does not do.                   *)

(* docs/architecture.md: partial counters are finalized on errors.           *)
FailedRefreshIsFinalized ==
  \A r \in Refreshes : phase[r] = "escaped" /\ faults = 0 => session[r] # "running"
=============================================================================
