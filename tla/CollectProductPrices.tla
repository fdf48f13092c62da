------------------------ MODULE CollectProductPrices ------------------------
(***************************************************************************)
(* The use case CollectProductPricesUseCase.ExecuteAsync around the drain: *)
(* it opens a crawler_run and an ingestion_run, leases due catalog rows,   *)
(* enqueues them, drains the queue (module QueueDrain), judges the run by  *)
(* its dead rows and closes both run rows; its catch blocks close them as  *)
(* failed.  The process may be cancelled, or killed between any two steps. *)
(***************************************************************************)
EXTENDS QueueDrain

CONSTANT DeadThresholdPercent   \* CrawlerOptions.RunErrorDeadThresholdPercent

ASSUME ThresholdAssumption == DeadThresholdPercent \in 0..100

VARIABLES
  phase,      \* the statement of ExecuteAsync about to run
  run,        \* crawler_run.status of the run, "none" before the row exists
  ingestion,  \* ingestion_run.status
  verdict,    \* runStatus of ExecuteAsync
  answer      \* status of CollectProductPricesResult, "none" until returned

useCaseVars == <<phase, run, ingestion, verdict, answer>>
collectVars == <<vars, useCaseVars>>

(* The drain's variables but for rows, catalog, faults and cancellation: no  *)
(* step of the use case touches them.                                        *)
innerVars == <<attempt, expired, loop, reaperDue, pc, copy, inCatch, stored, errored, visits>>

Over == {"over", "escaped", "killed"}

CollectInit ==
  /\ status  = [i \in Items |-> "absent"]
  /\ due     = {}
  /\ catalog = [i \in Seeds |-> "free"]
  /\ Fresh
  /\ phase = "start" /\ run = "none" /\ ingestion = "none"
  /\ verdict = "ok" /\ answer = "none"

-----------------------------------------------------------------------------
(* RunOutcomePolicy.Evaluate: dead rows fail the run only above a share of  *)
(* the finished ones.                                                       *)
Evaluate(succeeded, retry, dead) ==
  IF dead = 0 \/ dead * 100 <= DeadThresholdPercent * (succeeded + retry + dead) THEN "ok" ELSE "error"

(* price_collect_queue_get_run_stats *)
Count(s) == Cardinality({i \in Items : status[i] = s})
RowsVerdict == Evaluate(Count("succeeded"), Count("retry"), Count("dead"))

(* Where an exception is caught: ExecuteAsync closes what it knows by id.   *)
(* Faulty variant, used by no specification: only crawler_run is closed. *)
BugForgetsIngestion == IF phase = "start" THEN "over" ELSE "catch_run"

CatchPhase == CASE phase = "start"  -> "over"
                [] phase = "ingest" -> "catch_run"
                [] OTHER            -> "catch_ingestion"

Answers(next) == answer' = IF next = "over" THEN verdict' ELSE answer

(* A database call inside the try block. *)
Try(o, next) ==
  IF o = "ok" THEN phase' = next /\ UNCHANGED <<verdict, faults>>
              ELSE /\ faults < MaxFaults
                   /\ faults' = faults + 1
                   /\ phase' = CatchPhase
                   /\ verdict' = "error"

StartRun ==
  /\ phase = "start"
  /\ \E o \in Outcome : /\ run' = IF Committed(o) THEN "running" ELSE run
                        /\ Try(o, "ingest")
  /\ Answers(phase')
  /\ UNCHANGED <<status, due, catalog, cancelled, innerVars, ingestion>>

StartIngestion ==
  /\ phase = "ingest"
  /\ \E o \in Outcome : /\ ingestion' = IF Committed(o) THEN "running" ELSE ingestion
                        /\ Try(o, "select")
  /\ UNCHANGED <<status, due, catalog, cancelled, innerVars, run, answer>>

(* GetDueProductsAsync leases every due row, if any is due. *)
SelectDue ==
  /\ phase = "select"
  /\ \E o \in Outcome, selected \in {{}, Seeds} :
       /\ catalog' = IF Committed(o) /\ selected # {} THEN [i \in Seeds |-> "reserved"] ELSE catalog
       /\ Try(o, IF selected = {} THEN "close_empty" ELSE "enqueue")
  /\ UNCHANGED <<status, due, cancelled, innerVars, run, ingestion, answer>>

(* Rows whose URL is already queued for the run are not accepted.  A failed  *)
(* call releases all leases before the exception goes on.                    *)
Enqueue ==
  /\ phase = "enqueue"
  /\ \E o \in Outcome, accepted \in (SUBSET Seeds) \ {{}} :
       /\ IF Committed(o) THEN InsertRows(accepted) ELSE UNCHANGED rowVars
       /\ IF o = "ok"
            THEN phase' = (IF accepted = Seeds THEN "drain" ELSE "release_some") /\ UNCHANGED faults
            ELSE faults < MaxFaults /\ faults' = faults + 1 /\ phase' = "release_all"
  /\ UNCHANGED <<catalog, loopVars, pc, copy, inCatch, stored, errored, visits, run, ingestion, verdict, answer>>

Release(S) == catalog' = [i \in Seeds |-> IF i \in S THEN "free" ELSE catalog[i]]

(* Faulty variant: a release that fails is only logged. *)
BugReleaseMayFail ==
  /\ phase = "release_some" /\ phase' = "drain"
  /\ \E o \in Outcome : /\ IF Committed(o) THEN Release({i \in Seeds : status[i] = "absent"})
                                           ELSE UNCHANGED catalog
                        /\ o # "ok" => faults < MaxFaults
                        /\ faults' = IF o = "ok" THEN faults ELSE faults + 1
  /\ UNCHANGED verdict
  /\ UNCHANGED <<status, due, cancelled, innerVars, run, ingestion, answer>>

(* product_catalog_release_reservations for the rows not accepted ... *)
ReleaseNotAccepted ==
  /\ phase = "release_some"
  /\ \E o \in Outcome : /\ IF Committed(o) THEN Release({i \in Seeds : status[i] = "absent"})
                                           ELSE UNCHANGED catalog
                        /\ Try(o, "drain")
  /\ UNCHANGED <<status, due, cancelled, innerVars, run, ingestion, answer>>

(* ... and for all of them when the enqueue threw: whatever happens here,    *)
(* the outer catch comes next.                                               *)
ReleaseAll ==
  /\ phase = "release_all"
  /\ \E o \in Outcome : /\ IF Committed(o) THEN Release(Seeds) ELSE UNCHANGED catalog
                        /\ o # "ok" => faults < MaxFaults
                        /\ faults' = IF o = "ok" THEN faults ELSE faults + 1
  /\ phase' = "catch_ingestion" /\ verdict' = "error"
  /\ UNCHANGED <<status, due, cancelled, innerVars, run, ingestion, answer>>

(* A row the enqueue did not accept stays absent: its URL is another row's. *)
DrainStep ==
  /\ phase = "drain" /\ loop \notin Ended
  /\ LoopStep \/ (\E i \in Items : HandlerStep(i)) \/ Clock
  /\ \A i \in Seeds : status[i] = "absent" => status'[i] = "absent"
  /\ UNCHANGED useCaseVars

(* Faulty variants: the drain is not awaited; its exception is swallowed;    *)
(* only its success is noticed.                                              *)
BugDrainNotAwaited ==
  /\ phase = "drain" /\ phase' = "stats"
  /\ UNCHANGED <<vars, run, ingestion, verdict, answer>>
BugSwallowsDrainFailure ==
  /\ phase = "drain" /\ loop \in Ended /\ phase' = "stats"
  /\ UNCHANGED <<vars, run, ingestion, verdict, answer>>
BugAwaitsSuccess ==
  /\ phase = "drain" /\ loop = "returned" /\ phase' = "stats"
  /\ UNCHANGED <<vars, run, ingestion, verdict, answer>>

(* DrainQueueAsync returned or threw. *)
DrainEnded ==
  /\ phase = "drain" /\ loop \in Ended
  /\ IF loop = "returned" THEN phase' = "stats" /\ UNCHANGED verdict
                          ELSE phase' = "catch_ingestion" /\ verdict' = "error"
  /\ UNCHANGED <<vars, run, ingestion, answer>>

Judge ==
  /\ phase = "stats"
  /\ \/ phase' = "close_ingestion" /\ verdict' = RowsVerdict /\ UNCHANGED faults
     \/ Try("failed", "close_ingestion")
  /\ UNCHANGED <<status, due, catalog, cancelled, innerVars, run, ingestion, answer>>

(* ingestion_run_finish, after the drain or after an empty selection. *)
CloseIngestion ==
  /\ phase \in {"close_ingestion", "close_empty"}
  /\ \E o \in Outcome : /\ ingestion' = IF Committed(o) THEN verdict ELSE ingestion
                        /\ Try(o, "close_run")
  /\ UNCHANGED <<status, due, catalog, cancelled, innerVars, run, answer>>

(* crawler_run_complete *)
CloseRun ==
  /\ phase = "close_run"
  /\ \E o \in Outcome : /\ run' = IF Committed(o) THEN verdict ELSE run
                        /\ Try(o, "over")
  /\ Answers(phase')
  /\ UNCHANGED <<status, due, catalog, cancelled, innerVars, ingestion>>

-----------------------------------------------------------------------------
(* The catch blocks, which use CancellationToken.None.  Nothing catches an  *)
(* exception they throw.                                                    *)
Catch(o, next) ==
  IF o = "ok" THEN phase' = next /\ UNCHANGED faults
              ELSE faults < MaxFaults /\ faults' = faults + 1 /\ phase' = "escaped"

(* Faulty variant: what is still reserved, by then perhaps by another run, is *)
(* released when the run has failed.                                         *)
BugReleasesLate ==
  /\ phase = "catch_ingestion"
  /\ Release({i \in Seeds : catalog[i] = "reserved"})
  /\ \E o \in Outcome : /\ ingestion' = IF Committed(o) THEN "error" ELSE ingestion
                        /\ Catch(o, "catch_run")
  /\ UNCHANGED <<status, due, cancelled, innerVars, run, verdict, answer>>

CatchIngestion ==
  /\ phase = "catch_ingestion"
  /\ \E o \in Outcome : /\ ingestion' = IF Committed(o) THEN "error" ELSE ingestion
                        /\ Catch(o, "catch_run")
  /\ UNCHANGED <<status, due, catalog, cancelled, innerVars, run, verdict, answer>>

(* CompletePartialAsync; a failure of its statistics query is swallowed.    *)
(* A cancellation is rethrown, any other exception becomes an answer.       *)
CatchRun ==
  /\ phase = "catch_run"
  /\ \E o \in Outcome, next \in IF cancelled THEN {"escaped", "over"} ELSE {"over"} :
       /\ run' = IF Committed(o) THEN "error" ELSE run
       /\ Catch(o, next)
  /\ UNCHANGED <<status, due, catalog, cancelled, innerVars, ingestion, verdict>>
  /\ Answers(phase')

-----------------------------------------------------------------------------
OperatorCancel ==
  /\ ~cancelled /\ phase \notin Over \cup {"catch_ingestion", "catch_run"}
  /\ cancelled' = TRUE
  /\ UNCHANGED <<rowVars, loop, reaperDue, pc, copy, inCatch, sinkVars, visits, faults, useCaseVars>>

(* The next call that takes the token throws. *)
CancelledCall ==
  /\ cancelled /\ phase \notin Over \cup {"drain", "catch_ingestion", "catch_run"}
  /\ phase' = (IF phase = "start" THEN "escaped" ELSE CatchPhase) /\ verdict' = "error"
  /\ UNCHANGED <<vars, run, ingestion, answer>>

Kill ==
  /\ phase \notin Over
  /\ phase' = "killed"
  /\ UNCHANGED <<vars, run, ingestion, verdict, answer>>

ProcessStep ==
  \/ StartRun \/ StartIngestion \/ SelectDue \/ Enqueue \/ ReleaseNotAccepted \/ ReleaseAll
  \/ DrainEnded \/ Judge \/ CloseIngestion \/ CloseRun \/ CatchIngestion \/ CatchRun \/ CancelledCall

CollectNext ==
  \/ ProcessStep \/ DrainStep \/ OperatorCancel \/ Kill
  \/ phase \in Over /\ UNCHANGED collectVars

CollectSpec == CollectInit /\ [][CollectNext]_collectVars

CollectFairSpec ==
  /\ CollectSpec
  /\ WF_collectVars(ProcessStep)
  /\ WF_collectVars(phase = "drain" /\ LoopStep /\ UNCHANGED useCaseVars)
  /\ WF_collectVars(phase = "drain" /\ ReaperTimer /\ UNCHANGED useCaseVars)
  /\ \A i \in Items :
       /\ WF_collectVars(phase = "drain" /\ HandlerStep(i) /\ UNCHANGED useCaseVars)
       /\ WF_collectVars(phase = "drain" /\ RetryDelayPasses(i) /\ UNCHANGED useCaseVars)
       /\ WF_collectVars(phase = "drain" /\ LeaseExpires(i) /\ UNCHANGED useCaseVars)

-----------------------------------------------------------------------------
(* Properties.                                                              *)

CollectTypeOK ==
  /\ TypeOK
  /\ phase \in Over \cup {"start", "ingest", "select", "close_empty", "enqueue", "release_all",
                          "release_some", "drain", "stats", "close_ingestion", "close_run",
                          "catch_ingestion", "catch_run"}
  /\ run \in {"none", "running", "ok", "error"}
  /\ ingestion \in {"none", "running", "ok", "error"}
  /\ verdict \in {"ok", "error"}
  /\ answer \in {"none", "ok", "error"}

(* No row is open, and the dead ones are within the threshold.                *)
RowsAreComplete ==
  /\ \A i \in Items : status[i] \in Terminal \cup {"absent"} /\ ~Busy(i)
  /\ 100 * Count("dead") <= DeadThresholdPercent * Cardinality({i \in Items : status[i] # "absent"})

(* A crawler_run recorded as ok has complete rows: a drain that threw, a      *)
(* cancellation or a lost reply never leaves a half-collected run that looks  *)
(* complete.                                                                 *)
OkRunIsComplete == run = "ok" => RowsAreComplete

(* The caller (exit code 0 of the Worker) is told "ok" only about a run whose *)
(* both rows say so.                                                         *)
OkAnswerIsRecorded == answer = "ok" => run = "ok" /\ ingestion = "ok"

(* A process that ends by itself leaves no run open, even when it was         *)
(* cancelled, and one failed call never makes crawler_run and ingestion_run   *)
(* close with different verdicts.                                             *)
RunsAreClosed ==
  phase \in {"over", "escaped"} =>
    /\ faults = 0 => run # "running" /\ ingestion # "running"
    /\ faults <= 1 /\ {run, ingestion} \subseteq {"ok", "error"} => run = ingestion

(* Every leased product row is given back: rescheduled after its verdict, or  *)
(* released when it was not accepted.  Without failures and cancellation this *)
(* holds of every run; and whatever call failed, a run recorded as ok keeps   *)
(* the lease of no other product than one that died and whose own callback    *)
(* failed, so that a failing release cannot hide behind an ok.               *)
OnlyDeadKeepTheirLease == \A i \in Seeds \ Listings : catalog[i] = "reserved" => status[i] = "dead"

ProductLeasesAreReturned ==
  /\ phase = "over" /\ faults = 0 /\ ~cancelled => \A i \in Seeds \ Listings : catalog[i] # "reserved"
  /\ run = "ok" => OnlyDeadKeepTheirLease

(* The inductive invariant behind the safety properties: the queue keeps its  *)
(* own (IInv) through the whole use case, and each phase relies on what the   *)
(* earlier ones did to rows, product leases and the two run rows.  An         *)
(* exception has a cause: a failed call or the cancellation.                  *)
Unselected == {"start", "ingest", "select", "close_empty"}
Undrained  == Unselected \cup {"enqueue", "release_some", "release_all"}
Judged     == {"close_ingestion", "close_run"}
Trying     == Undrained \cup {"drain", "stats"} \cup Judged
Catching   == {"catch_ingestion", "catch_run"}

RowsFollowThePhase ==
  /\ phase \in Unselected => \A i \in Items : status[i] = "absent"
  /\ phase \in Undrained => loop = "top" /\ \A i \in Items : status[i] \in {"absent", "pending"}
  /\ phase \notin {"drain", "killed"} => loop # "batch"
  /\ phase = "stats" => loop = "returned"
  /\ phase \in Judged /\ verdict = "ok" => RowsAreComplete

LeasesFollowThePhase ==
  /\ phase \in Unselected => \A i \in Seeds : catalog[i] = "free"
  /\ phase = "drain" => \A i \in Seeds : status[i] = "absent" => catalog[i] = "free"
  /\ phase \in {"stats"} \cup Judged \/ run = "ok" => OnlyDeadKeepTheirLease
  /\ faults = 0 /\ ~cancelled =>
       /\ \A i \in Seeds : status[i] = "dead" /\ pc[i] # "dead_cb" => catalog[i] = "failed"
       /\ phase \in {"stats"} \cup Judged => \A i \in Seeds \ Listings : catalog[i] # "reserved"

RunsFollowThePhase ==
  /\ phase \in Trying \ {"start"} => run = "running"
  /\ phase = "start" => run = "none"
  /\ phase \in {"start", "ingest"} => ingestion = "none"
  /\ phase = "close_run" => ingestion = verdict
  /\ phase \in Catching /\ faults = 0 => run = "running"
  /\ phase = "catch_run" => ingestion # "ok" /\ (faults = 0 => ingestion # "running")
  /\ answer # "none" => phase = "over"

ExceptionsHaveACause ==
  /\ loop = "failed" => faults > 0
  /\ loop = "cancelled" => cancelled
  /\ phase \in Catching \cup {"release_all"} => faults > 0 \/ cancelled
  /\ phase \in Catching => verdict = "error"

CollectIInv ==
  /\ CollectTypeOK
  /\ IInv
  /\ RowsFollowThePhase /\ LeasesFollowThePhase /\ RunsFollowThePhase /\ ExceptionsHaveACause
  /\ OkRunIsComplete /\ OkAnswerIsRecorded /\ RunsAreClosed /\ ProductLeasesAreReturned

(* The use case keeps LeaseContract, with nobody else at the catalog: of the  *)
(* rows it selected it hands back those not accepted before the drain begins, *)
(* then each when its handler is through with it, and touches none after a    *)
(* failure, a cancellation or a kill has ended the run.                      *)
HeldRows == CASE phase \in {"enqueue", "release_all", "release_some"} -> Seeds
              [] phase = "drain" -> {i \in Seeds : status[i] \in Outstanding \/ Busy(i)}
              [] OTHER -> {}

Unreserved == {i \in Seeds : catalog[i] # "reserved"}

Lease == INSTANCE LeaseContract WITH
  Rows    <- Seeds,
  Shared  <- {},
  held    <- HeldRows,
  working <- phase = "drain" /\ HeldRows # {},
  kept    <- Seeds \ Unreserved,
  loose   <- HeldRows \cap Unreserved

KeepsLeaseContract == Lease!Spec

(* The use case ends, whatever fails and whenever it is cancelled.            *)
CollectEnds == <>(phase \in Over)
=============================================================================
