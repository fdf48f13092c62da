----------------------------- MODULE LegacyCrawl -----------------------------
(***************************************************************************)
(* The vegetables crawl (RunCrawlerUseCase): discovery, crawler_run and    *)
(* ingestion_run, a queue of product pages, and the final status of both.  *)
(* The worker starts it, and so does the dashboard (POST IngestVegetables), *)
(* whose crawl is cancelled with its request: crawls run side by side and   *)
(* write what they see of the same products (price_observation_store).     *)
(*                                                                          *)
(* The queue itself is QueueDrain's; here a page is still to be visited,    *)
(* succeeded or dead, and pages of one crawl are visited one by one.        *)
(***************************************************************************)
EXTENDS Naturals, FiniteSets, Sequences, SequencesExt

CONSTANTS
  Crawls,
  Pages,        \* the product pages of the shop
  CardUrl,      \* the address in the card of each page
  CardId,       \* the external id in the card of each page
  NoId,         \* external_id is null
  States,       \* price, old price, promotion and stock, taken together
  ValidStates,  \* those with a price or in stock
  DeadPercent,  \* CrawlerOptions.RunErrorDeadThresholdPercent
  MaxChanges,   \* bound: changes of the shop
  MaxFaults     \* bound: calls that fail

ASSUME LegacyCrawlAssumption ==
  /\ IsFiniteSet(Crawls) /\ IsFiniteSet(Pages)
  /\ CardUrl \in [Pages -> STRING] /\ DOMAIN CardId = Pages
  /\ ValidStates \subseteq States /\ "none" \notin States
  /\ {DeadPercent, MaxChanges, MaxFaults} \subseteq Nat

VARIABLES
  shop,      \* the state each page shows
  phase,     \* the statement each crawl is about to run
  cancelled, \* the crawls whose token is cancelled
  run,       \* crawler_run.status
  ingestion, \* ingestion_run.status
  answer,    \* the status of CrawlerRunResult
  pages,     \* the pages of its queue, by what became of them
  visit,     \* the page it is at, what it saw there, and when; the row it has locked
             \* and the state of the latest snapshot it found there
  rows,      \* product: url and external_id, by id
  history,   \* price_snapshot of each row, in the order of its id
  clock, changes, faults,
  newest,    \* the newest valid observation stored for each row
  late       \* rows for which an older observation came after a newer one

runVars   == <<run, ingestion, answer>>
storeVars == <<rows, history, newest, late>>
envVars   == <<shop, changes>>
vars == <<envVars, phase, cancelled, runVars, pages, visit, storeVars, clock, faults>>

Starting == {"discover", "start", "ingest", "start_failed", "ingest_failed", "finish_failed", "finish_run_failed"}
Guarded  == {"enqueue", "drain", "found", "new", "stats", "finish", "finish_run"}   \* in the try block
Catching == {"catch", "catch_run"}
Over     == {"answered", "threw"}

NoVisit == [page |-> "none", state |-> "none", at |-> 0, row |-> 0, seen |-> "none"]
NoPages == [todo |-> {}, succeeded |-> {}, dead |-> {}]

Outcome      == {"ok", "lost", "failed"}
Committed(o) == o # "failed"
Goto(r, next) == phase' = [phase EXCEPT ![r] = next]
Call(r, o, next, onThrow) ==
  IF o = "ok" THEN Goto(r, next) /\ UNCHANGED faults
              ELSE faults < MaxFaults /\ faults' = faults + 1 /\ Goto(r, onThrow)

Init ==
  /\ shop \in [Pages -> States]
  /\ phase = [r \in Crawls |-> "discover"]
  /\ cancelled = {}
  /\ run = [r \in Crawls |-> "none"] /\ ingestion = [r \in Crawls |-> "none"]
  /\ answer = [r \in Crawls |-> "none"]
  /\ pages = [r \in Crawls |-> NoPages]
  /\ visit = [r \in Crawls |-> NoVisit]
  /\ rows = <<>> /\ history = <<>> /\ newest = <<>> /\ late = {}
  /\ clock = 0 /\ changes = 0 /\ faults = 0

-----------------------------------------------------------------------------
(* The surroundings.                                                        *)

ShopChanges ==
  /\ changes < MaxChanges /\ changes' = changes + 1
  /\ \E u \in Pages, s \in States : s # shop[u] /\ shop' = [shop EXCEPT ![u] = s]
  /\ UNCHANGED <<phase, cancelled, runVars, pages, visit, storeVars, clock, faults>>

(* The browser leaves the page, or Ctrl+C. *)
Cancel(r) ==
  /\ phase[r] \notin Over /\ r \notin cancelled
  /\ faults < MaxFaults /\ faults' = faults + 1
  /\ cancelled' = cancelled \cup {r}
  /\ UNCHANGED <<envVars, phase, runVars, pages, visit, storeVars, clock>>

-----------------------------------------------------------------------------
(* RunVegetablesAsync.  No call is made once the token is cancelled.        *)

At(r, p) == phase[r] = p /\ r \notin cancelled

(* Any exception of the discovery, a cancellation too, is its failure.       *)
Discover(r) ==
  /\ phase[r] = "discover"
  /\ \/ /\ r \notin cancelled
        /\ \E todo \in (SUBSET Pages) \ {{}} : pages' = [pages EXCEPT ![r].todo = todo]
        /\ Goto(r, "start") /\ UNCHANGED faults
     \/ /\ r \in cancelled
        /\ Goto(r, "start_failed") /\ UNCHANGED <<pages, faults>>
     \/ /\ Call(r, "failed", "start", "start_failed") /\ UNCHANGED pages
  /\ UNCHANGED <<envVars, cancelled, runVars, visit, storeVars, clock>>

(* crawler_run_start and ingestion_run_start; nothing catches what they throw. *)
StartRun(r) ==
  /\ At(r, "start") \/ At(r, "start_failed")
  /\ \E o \in Outcome : /\ run' = [run EXCEPT ![r] = IF Committed(o) THEN "running" ELSE @]
                        /\ Call(r, o, IF phase[r] = "start" THEN "ingest" ELSE "ingest_failed", "threw")
  /\ UNCHANGED <<envVars, cancelled, ingestion, answer, pages, visit, storeVars, clock>>

StartIngestion(r) ==
  /\ At(r, "ingest") \/ At(r, "ingest_failed")
  /\ \E o \in Outcome : /\ ingestion' = [ingestion EXCEPT ![r] = IF Committed(o) THEN "running" ELSE @]
                        /\ Call(r, o, IF phase[r] = "ingest" THEN "enqueue" ELSE "finish_failed", "threw")
  /\ UNCHANGED <<envVars, cancelled, run, answer, pages, visit, storeVars, clock>>

(* The idempotency key makes a page of the run one item. *)
Enqueue(r) ==
  /\ At(r, "enqueue")
  /\ \E o \in {"ok", "failed"} : Call(r, o, "drain", "catch")
  /\ UNCHANGED <<envVars, cancelled, runVars, pages, visit, storeVars, clock>>

-----------------------------------------------------------------------------
(* A visit to a product page.                                               *)

Leave(r, p) ==
  /\ visit' = [visit EXCEPT ![r] = NoVisit]
  /\ pages' = [pages EXCEPT ![r] = p]

(* A visit fails: the item is retried or dead. *)
Fails(r) ==
  LET u == visit[r].page p == pages[r] IN
  /\ \/ Leave(r, p)
     \/ Leave(r, [p EXCEPT !.todo = @ \ {u}, !.dead = @ \cup {u}])
  /\ Goto(r, "drain")

(* The page is read and the observation given its time. *)
Extract(r) ==
  /\ At(r, "drain")
  /\ clock' = clock + 1
  /\ \E u \in pages[r].todo :
       visit' = [visit EXCEPT ![r] = [NoVisit EXCEPT !.page = u, !.state = shop[u], !.at = clock']]
  /\ Goto(r, "found")
  /\ UNCHANGED <<envVars, cancelled, runVars, pages, storeVars, faults>>

ExtractFails(r) ==
  /\ At(r, "found") /\ visit[r].row = 0
  /\ faults < MaxFaults /\ faults' = faults + 1
  /\ Fails(r)
  /\ UNCHANGED <<envVars, cancelled, runVars, storeVars, clock>>

(* price_observation_store: the row of the address, or else the first with   *)
(* the external id.  Its latest snapshot is read while the row is locked.    *)
ByUrl(u) == {i \in DOMAIN rows : rows[i].url = CardUrl[u]}
ById(u)  == {i \in DOMAIN rows : CardId[u] # NoId /\ rows[i].id = CardId[u]}
First(S) == CHOOSE i \in S : \A j \in S : i <= j
RowOf(u) == IF ByUrl(u) # {} THEN First(ByUrl(u)) ELSE First(ById(u))

(* Faulty variant: the row is read without a lock. *)
BugLocked(i) == FALSE

Locked(i) == \E r \in Crawls : phase[r] = "found" /\ visit[r].row = i

Latest(h) ==
  IF h = <<>> THEN "none" ELSE (CHOOSE s \in ToSet(h) : \A t \in ToSet(h) : s.at >= t.at).state

FindProduct(r) ==
  /\ At(r, "found") /\ visit[r].row = 0
  /\ LET u == visit[r].page
         i == RowOf(u)
     IN
       IF ByUrl(u) \cup ById(u) = {}
         THEN Goto(r, "new") /\ UNCHANGED visit
         ELSE ~Locked(i) /\ visit' = [visit EXCEPT ![r].row = i, ![r].seen = Latest(history[i])] /\ UNCHANGED phase
  /\ UNCHANGED <<envVars, cancelled, runVars, pages, storeVars, clock, faults>>

(* Faulty variant: every valid observation is a snapshot. *)
BugSnapshots(h, v) == IF v.state \in ValidStates THEN Append(h, [at |-> v.at, state |-> v.state]) ELSE h

(* A snapshot of a valid state that differs from the latest. *)
Snapshots(h, v) ==
  IF v.state \in ValidStates /\ v.state # v.seen THEN Append(h, [at |-> v.at, state |-> v.state]) ELSE h

Newer(n, v) == IF v.state \in ValidStates /\ v.at > n.at THEN [at |-> v.at, state |-> v.state] ELSE n

UpdateRow(v) ==
  /\ rows' = [rows EXCEPT ![v.row].url = CardUrl[v.page], ![v.row].id = IF CardId[v.page] = NoId THEN @ ELSE CardId[v.page]]
  /\ history' = [history EXCEPT ![v.row] = Snapshots(@, v)]
  /\ newest' = [newest EXCEPT ![v.row] = Newer(@, v)]
  /\ late' = IF v.state \in ValidStates /\ v.at < newest[v.row].at THEN late \cup {v.row} ELSE late

InsertRow(v) ==
  /\ rows' = Append(rows, [url |-> CardUrl[v.page], id |-> CardId[v.page]])
  /\ history' = Append(history, Snapshots(<<>>, v))
  /\ newest' = Append(newest, Newer([at |-> 0, state |-> "none"], v))
  /\ UNCHANGED late

(* What follows the call: the item has succeeded, or is retried or dead. *)
Stored(r, o) ==
  IF o = "ok"
    THEN /\ Leave(r, [pages[r] EXCEPT !.todo = @ \ {visit[r].page}, !.succeeded = @ \cup {visit[r].page}])
         /\ Goto(r, "drain") /\ UNCHANGED faults
    ELSE /\ faults < MaxFaults /\ faults' = faults + 1
         /\ Fails(r)

(* The address may have gone to another row meanwhile: the unique index. *)
UpdateProduct(r) ==
  /\ At(r, "found") /\ visit[r].row # 0
  /\ LET v == visit[r] IN
       IF ByUrl(v.page) \ {v.row} # {}
         THEN Fails(r) /\ UNCHANGED <<storeVars, faults>>
         ELSE \E o \in Outcome : /\ IF Committed(o) THEN UpdateRow(v) ELSE UNCHANGED storeVars
                                 /\ Stored(r, o)
  /\ UNCHANGED <<envVars, cancelled, runVars, clock>>

InsertProduct(r) ==
  /\ At(r, "new")
  /\ IF ByUrl(visit[r].page) # {}
       THEN Fails(r) /\ UNCHANGED <<storeVars, faults>>
       ELSE \E o \in Outcome : /\ IF Committed(o) THEN InsertRow(visit[r]) ELSE UNCHANGED storeVars
                               /\ Stored(r, o)
  /\ UNCHANGED <<envVars, cancelled, runVars, clock>>

-----------------------------------------------------------------------------
(* The end of a crawl.                                                      *)

(* RunOutcomePolicy.Evaluate; nothing waits for a retry when the queue is empty. *)
Evaluate(p) ==
  LET dead == Cardinality(p.dead) finished == dead + Cardinality(p.succeeded) IN
  IF dead * 100 <= DeadPercent * finished THEN "ok" ELSE "error"

GetRunStats(r) ==
  /\ At(r, "drain") /\ pages[r].todo = {}
  /\ \E o \in {"ok", "failed"} : Call(r, o, "finish", "catch")
  /\ UNCHANGED <<envVars, cancelled, runVars, pages, visit, storeVars, clock>>

(* What each finishing call writes, where it goes on, and where it throws. *)
Status(r) == IF phase[r] \in {"finish", "finish_run"} THEN Evaluate(pages[r]) ELSE "error"

FinishIngestion(r) ==
  /\ At(r, "finish") \/ At(r, "catch") \/ At(r, "finish_failed")
  /\ \E o \in Outcome :
       /\ ingestion' = [ingestion EXCEPT ![r] = IF Committed(o) THEN Status(r) ELSE @]
       /\ Call(r, o, CASE phase[r] = "finish" -> "finish_run"
                       [] phase[r] = "catch" -> "catch_run"
                       [] OTHER -> "finish_run_failed",
               IF phase[r] = "finish" THEN "catch" ELSE "threw")
  /\ UNCHANGED <<envVars, cancelled, run, answer, pages, visit, storeVars, clock>>

(* Faulty variant: the catch block leaves a crawler_run alone. *)
BugFinishRun(r) ==
  /\ At(r, "finish_run") \/ At(r, "catch_run") \/ At(r, "finish_run_failed")
  /\ \E o \in Outcome :
       /\ run' = [run EXCEPT ![r] = IF Committed(o) /\ phase[r] # "catch_run" THEN Status(r) ELSE @]
       /\ Call(r, o, "answered", IF phase[r] = "finish_run" THEN "catch" ELSE "threw")
       /\ answer' = [answer EXCEPT ![r] = IF o = "ok" THEN Status(r) ELSE @]
  /\ UNCHANGED <<envVars, cancelled, ingestion, pages, visit, storeVars, clock>>

FinishRun(r) ==
  /\ At(r, "finish_run") \/ At(r, "catch_run") \/ At(r, "finish_run_failed")
  /\ \E o \in Outcome :
       /\ run' = [run EXCEPT ![r] = IF Committed(o) THEN Status(r) ELSE @]
       /\ Call(r, o, "answered", IF phase[r] = "finish_run" THEN "catch" ELSE "threw")
       /\ answer' = [answer EXCEPT ![r] = IF o = "ok" THEN Status(r) ELSE @]
  /\ UNCHANGED <<envVars, cancelled, ingestion, pages, visit, storeVars, clock>>

(* The next call throws; so does the first of the catch block. *)
CancelledCall(r) ==
  /\ r \in cancelled /\ phase[r] \notin Over \cup {"discover"}
  /\ Goto(r, IF phase[r] \in Guarded THEN "catch" ELSE "threw")
  /\ visit' = [visit EXCEPT ![r] = NoVisit]
  /\ UNCHANGED <<envVars, cancelled, runVars, pages, storeVars, clock, faults>>

CrawlStep(r) ==
  \/ Discover(r) \/ StartRun(r) \/ StartIngestion(r) \/ Enqueue(r) \/ Extract(r) \/ ExtractFails(r)
  \/ FindProduct(r) \/ UpdateProduct(r) \/ InsertProduct(r) \/ GetRunStats(r) \/ FinishIngestion(r)
  \/ FinishRun(r) \/ CancelledCall(r)

Done ==
  /\ \A r \in Crawls : phase[r] \in Over
  /\ UNCHANGED vars

Next == ShopChanges \/ (\E r \in Crawls : CrawlStep(r) \/ Cancel(r)) \/ Done

Spec == Init /\ [][Next]_vars

-----------------------------------------------------------------------------
(* Properties.                                                              *)

Statuses == {"none", "running", "ok", "error"}

Queues == {p \in [todo : SUBSET Pages, succeeded : SUBSET Pages, dead : SUBSET Pages] :
             p.todo \cap (p.succeeded \cup p.dead) = {} /\ p.succeeded \cap p.dead = {}}
Visits == [page : Pages \cup {"none"}, state : States \cup {"none"}, at : Nat, row : Nat,
           seen : ValidStates \cup {"none"}]
Cards  == [url : STRING, id : {NoId} \cup {CardId[u] : u \in Pages}]
Snapshot == [at : Nat, state : ValidStates]
Newest   == [at : Nat, state : ValidStates \cup {"none"}]

StoreTypeOK ==
  /\ rows \in Seq(Cards)
  /\ history \in Seq(Seq(Snapshot)) /\ Len(history) = Len(rows)
  /\ newest \in Seq(Newest) /\ Len(newest) = Len(rows)
  /\ late \subseteq DOMAIN rows

LegacyCrawlTypeOK ==
  /\ shop \in [Pages -> States]
  /\ phase \in [Crawls -> Starting \cup Guarded \cup Catching \cup Over]
  /\ cancelled \subseteq Crawls
  /\ run \in [Crawls -> Statuses] /\ ingestion \in [Crawls -> Statuses]
  /\ answer \in [Crawls -> {"none", "ok", "error"}]
  /\ pages \in [Crawls -> Queues]
  /\ visit \in [Crawls -> Visits] /\ \A r \in Crawls : visit[r].row \in {0} \cup DOMAIN rows
  /\ StoreTypeOK
  /\ clock \in Nat /\ changes \in 0..MaxChanges /\ faults \in 0..MaxFaults

(* RunCrawlerUseCase: a crawl that gives an answer has closed its run and    *)
(* its ingestion with that status, whatever failed, or closed late, before.  *)
AnswersAreRecorded ==
  \A r \in Crawls : phase[r] = "answered" =>
    answer[r] \in {"ok", "error"} /\ run[r] = answer[r] /\ ingestion[r] = answer[r]

(* Every variable has its type, a page is in one state of its queue, and the  *)
(* answers are true.                                                         *)
LegacyCrawlInv == LegacyCrawlTypeOK /\ AnswersAreRecorded

(* docs/architecture.md:22: on failure the crawler run is marked Error.  It  *)
(* is not when a crawl fails because it is cancelled: the catch block of     *)
(* RunVegetablesAsync makes its calls with the cancelled token.              *)
FailedCrawlIsMarked ==
  \A r \in cancelled : phase[r] = "threw" /\ ingestion[r] # "none" => run[r] = "error"

(* price_observation_store, README.md:474-476: with two crawls that write of *)
(* one product, neighbours in its history differ, and the latest snapshot is *)
(* the newest valid observation, unless an older one was stored after it.    *)
HistoryIsOfChanges ==
  \A i \in DOMAIN rows \ late :
    \A k \in 1..(Len(history[i]) - 1) :
      /\ history[i][k].at < history[i][k + 1].at
      /\ history[i][k].state # history[i][k + 1].state

LatestIsNewest ==
  \A i \in DOMAIN rows \ late :
    newest[i].at > 0 => history[i] # <<>> /\ Last(history[i]).state = newest[i].state

(* The inductive invariant behind them.  A crawl is at a page only while it   *)
(* visits one; what the finishing calls wrote is what the answer will be.     *)
PhasesAgree ==
  \A r \in Crawls :
    /\ IF phase[r] \in {"found", "new"}
         THEN visit[r].page \in pages[r].todo /\ visit[r].state \in States /\ visit[r].at \in 1..clock
         ELSE visit[r] = NoVisit
    /\ phase[r] = "new" => visit[r].row = 0
    /\ phase[r] = "discover" => pages[r] = NoPages
    /\ phase[r] = "finish_run" => ingestion[r] = Evaluate(pages[r])
    /\ phase[r] \in {"catch_run", "finish_run_failed"} => ingestion[r] = "error"

(* No two observations have one time. *)
TimesDiffer ==
  /\ \A i \in DOMAIN rows : newest[i].at <= clock
  /\ \A r \in Crawls : visit[r].at # 0 =>
       /\ \A s \in Crawls \ {r} : visit[s].at # visit[r].at
       /\ \A i \in DOMAIN rows : newest[i].at # visit[r].at

(* Of a locked row, the snapshot that was read is still the latest. *)
LockedRowsStand ==
  \A r \in Crawls :
    IF visit[r].row = 0
      THEN visit[r].seen = "none"
      ELSE /\ \A s \in Crawls \ {r} : visit[s].row # visit[r].row
           /\ visit[r].seen = Latest(history[visit[r].row])

(* Snapshots are not newer than the newest observation, and in their order    *)
(* unless a late one came between.                                           *)
SnapshotsAreInOrder ==
  \A i \in DOMAIN rows :
    /\ newest[i].at = 0 => history[i] = <<>>
    /\ \A k \in DOMAIN history[i] : history[i][k].at <= newest[i].at
    /\ i \notin late => \A k, l \in DOMAIN history[i] : k < l => history[i][k].at < history[i][l].at

LegacyIInv ==
  /\ LegacyCrawlInv
  /\ PhasesAgree /\ TimesDiffer /\ LockedRowsStand /\ SnapshotsAreInOrder
  /\ HistoryIsOfChanges /\ LatestIsNewest
=============================================================================
