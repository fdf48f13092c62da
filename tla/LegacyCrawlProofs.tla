--------------------------- MODULE LegacyCrawlProofs ---------------------------
(***************************************************************************)
(* Proofs about LegacyCrawl for any number of crawls, pages, changes of    *)
(* the shop and failed calls, and any cards: pages that share an external  *)
(* id or an address, and products without one.                             *)
(***************************************************************************)
EXTENDS LegacyCrawl, SequenceTheorems, WellFoundedInduction, TLAPS

-----------------------------------------------------------------------------
(* The rows and snapshots that are looked up.                                *)

LEMMA LeastNatural == ASSUME NEW S \in SUBSET Nat, S # {} PROVE \E n \in S : \A m \in S : n <= m
<1>1. PICK n \in S : \A m \in S : ~(<<m, n>> \in OpToRel(<, Nat))
  BY WFMin, NatLessThanWellFounded
<1>2. \A m \in S : ~(m < n)
  BY <1>1 DEF OpToRel
<1> QED
  BY <1>2

LEMMA FirstIsOne == ASSUME NEW S \in SUBSET Nat, S # {} PROVE First(S) \in S
<1> QED
  BY LeastNatural DEF First

(* The latest snapshot of a history has a valid state, whatever its order ... *)
LEMMA LatestIsValid ==
  ASSUME NEW h \in Seq(Snapshot), h # <<>>, NEW n \in Nat, \A k \in DOMAIN h : h[k].at <= n
  PROVE  Latest(h) \in ValidStates
<1>1. \A k \in DOMAIN h : h[k].at \in Nat /\ h[k].state \in ValidStates
  <2>1. \A k \in DOMAIN h : h[k] \in Snapshot
    OBVIOUS
  <2> QED
    BY <2>1 DEF Snapshot
<1> DEFINE ages == {n - h[k].at : k \in DOMAIN h}
<1>2. ages \in SUBSET Nat /\ ages # {}
  BY <1>1
<1>3. PICK a \in ages : \A b \in ages : a <= b
  BY <1>2, LeastNatural
<1>4. PICK k \in DOMAIN h : a = n - h[k].at
  BY <1>3
<1>5. \A l \in DOMAIN h : h[k].at >= h[l].at
  <2> SUFFICES ASSUME NEW l \in DOMAIN h PROVE h[k].at >= h[l].at
    OBVIOUS
  <2>1. n - h[k].at <= n - h[l].at
    BY <1>3, <1>4
  <2> QED
    BY <1>1, <2>1
<1>6. h[k] \in ToSet(h) /\ \A t \in ToSet(h) : h[k].at >= t.at
  BY <1>5 DEF ToSet
<1>7. (CHOOSE s \in ToSet(h) : \A t \in ToSet(h) : s.at >= t.at) \in ToSet(h)
  BY <1>6
<1> QED
  BY <1>1, <1>7 DEF Latest, ToSet

(* ... and is the last one when they are in the order of their times.         *)
LEMMA LatestIsLast ==
  ASSUME NEW h \in Seq(Snapshot), h # <<>>, \A k, l \in DOMAIN h : k < l => h[k].at < h[l].at
  PROVE  Latest(h) = Last(h).state
<1> DEFINE n == Len(h)
<1>1. n \in Nat \ {0} /\ DOMAIN h = 1..n
  OBVIOUS
<1>2. \A k \in DOMAIN h : h[k].at \in Nat
  <2>1. \A k \in DOMAIN h : h[k] \in Snapshot
    OBVIOUS
  <2> QED
    BY <2>1 DEF Snapshot
<1>3. h[n] \in ToSet(h) /\ \A t \in ToSet(h) : h[n].at >= t.at
  BY <1>1, <1>2 DEF ToSet
<1>4. ASSUME NEW s \in ToSet(h), \A t \in ToSet(h) : s.at >= t.at PROVE s = h[n]
  <2>1. PICK k \in DOMAIN h : s = h[k]
    BY <1>4 DEF ToSet
  <2>2. ~(k < n)
    BY <1>1, <1>2, <1>3, <1>4, <2>1
  <2> QED
    BY <1>1, <2>1, <2>2
<1>5. (CHOOSE s \in ToSet(h) : \A t \in ToSet(h) : s.at >= t.at) = h[n]
  BY <1>3, <1>4
<1> QED
  BY <1>5 DEF Latest, Last

-----------------------------------------------------------------------------
(* What a step leaves alone.                                                 *)

LEMMA LegacyTypes ==
  ASSUME LegacyIInv
  PROVE  /\ \A r \in Crawls : visit[r].at \in Nat /\ visit[r].row \in {0} \cup DOMAIN rows
         /\ DOMAIN rows = 1..Len(rows) /\ DOMAIN history = DOMAIN rows /\ DOMAIN newest = DOMAIN rows
         /\ Len(rows) \in Nat /\ clock \in Nat
         /\ \A i \in DOMAIN rows : /\ history[i] \in Seq(Snapshot) /\ newest[i] \in Newest
                                   /\ newest[i].at \in Nat
<1> USE DEF LegacyIInv, LegacyCrawlInv, LegacyCrawlTypeOK, StoreTypeOK
<1>1. \A r \in Crawls : visit[r].at \in Nat /\ visit[r].row \in {0} \cup DOMAIN rows
  BY DEF Visits
<1>2. /\ DOMAIN rows = 1..Len(rows) /\ DOMAIN history = 1..Len(history) /\ DOMAIN newest = 1..Len(newest)
      /\ Len(rows) \in Nat /\ Len(history) = Len(rows) /\ Len(newest) = Len(rows)
  OBVIOUS
<1>3. \A i \in DOMAIN history : history[i] \in Seq(Snapshot)
  OBVIOUS
<1>4. \A i \in DOMAIN newest : newest[i] \in Newest
  OBVIOUS
<1>5. \A n \in Newest : n.at \in Nat
  BY DEF Newest
<1> QED
  BY <1>1, <1>2, <1>3, <1>4, <1>5

LEMMA NoVisitType == NoVisit \in Visits /\ NoPages \in Queues
<1>1. NoVisit \in Visits
  BY DEF NoVisit, Visits
<1>2. NoPages \in Queues
  BY DEF NoPages, Queues
<1> QED
  BY <1>1, <1>2

(* A page goes from the pages to be visited to those that succeeded or died.  *)
LEMMA QueueMoves ==
  ASSUME NEW p \in Queues, NEW u \in p.todo
  PROVE  /\ [p EXCEPT !.todo = @ \ {u}, !.dead = @ \cup {u}] \in Queues
         /\ [p EXCEPT !.todo = @ \ {u}, !.succeeded = @ \cup {u}] \in Queues
<1> QED
  BY DEF Queues

StoreInv == TimesDiffer /\ LockedRowsStand /\ SnapshotsAreInOrder /\ HistoryIsOfChanges /\ LatestIsNewest

(* Leaving a page disturbs neither the other visits nor the rows. *)
LEMMA StoreLeftAlone ==
  ASSUME LegacyIInv, UNCHANGED <<storeVars, clock>>,
         \/ UNCHANGED visit
         \/ \E r \in Crawls : visit' = [visit EXCEPT ![r] = NoVisit]
  PROVE  StoreInv'
<1> USE DEF storeVars
<1>1. \A s \in Crawls : visit'[s] = visit[s] \/ (visit'[s].at = 0 /\ visit'[s].row = 0 /\ visit'[s].seen = "none")
  BY DEF NoVisit, LegacyIInv, LegacyCrawlInv, LegacyCrawlTypeOK
<1>2. TimesDiffer'
  BY <1>1, LegacyTypes DEF LegacyIInv, TimesDiffer
<1>3. LockedRowsStand'
  BY <1>1 DEF LegacyIInv, LockedRowsStand
<1>4. SnapshotsAreInOrder' /\ HistoryIsOfChanges' /\ LatestIsNewest'
  BY DEF LegacyIInv, SnapshotsAreInOrder, HistoryIsOfChanges, LatestIsNewest
<1> QED
  BY <1>2, <1>3, <1>4 DEF StoreInv

LEMMA EvaluateType == \A p : Evaluate(p) \in {"ok", "error"}
<1> QED
  BY DEF Evaluate

LEMMA LegacyInit == Init => LegacyIInv
<1> SUFFICES ASSUME Init PROVE LegacyIInv
  OBVIOUS
<1> USE LegacyCrawlAssumption DEF Init
<1>1. LegacyCrawlTypeOK
  <2>1. StoreTypeOK
    BY DEF StoreTypeOK
  <2>2. visit \in [Crawls -> Visits] /\ pages \in [Crawls -> Queues] /\ \A r \in Crawls : visit[r].row = 0
    BY NoVisitType DEF NoVisit
  <2>3. /\ phase \in [Crawls -> Starting] /\ run \in [Crawls -> Statuses] /\ ingestion \in [Crawls -> Statuses]
        /\ answer \in [Crawls -> {"none", "ok", "error"}]
    BY DEF Starting, Statuses
  <2> QED
    BY <2>1, <2>2, <2>3 DEF LegacyCrawlTypeOK
<1>2. AnswersAreRecorded /\ PhasesAgree
  BY DEF AnswersAreRecorded, PhasesAgree
<1>n. \A r \in Crawls : visit[r].at = 0 /\ visit[r].row = 0 /\ visit[r].seen = "none"
  BY DEF NoVisit
<1>3. TimesDiffer /\ LockedRowsStand /\ SnapshotsAreInOrder /\ HistoryIsOfChanges /\ LatestIsNewest
  BY <1>n DEF TimesDiffer, LockedRowsStand, SnapshotsAreInOrder, HistoryIsOfChanges, LatestIsNewest
<1> QED
  BY <1>1, <1>2, <1>3 DEF LegacyIInv, LegacyCrawlInv
-----------------------------------------------------------------------------
(* The steps that do not touch the products.                                 *)

LEMMA DiscoverPages == \A todo \in SUBSET Pages : [NoPages EXCEPT !.todo = todo] \in Queues
<1> QED
  BY DEF NoPages, Queues

LEMMA ShopChangesLegacy == ASSUME LegacyIInv, ShopChanges PROVE LegacyIInv'
<1> USE LegacyCrawlAssumption
    DEF LegacyIInv, LegacyCrawlInv, ShopChanges, envVars, runVars, storeVars,
        Starting, Guarded, Catching, Over
<1>1. StoreInv'
  BY StoreLeftAlone
<1>2. LegacyCrawlTypeOK'
  <2>1. /\ phase' \in [Crawls -> Starting \cup Guarded \cup Catching \cup Over]
        /\ run' \in [Crawls -> Statuses] /\ ingestion' \in [Crawls -> Statuses]
        /\ answer' \in [Crawls -> {"none", "ok", "error"}]
    BY DEF LegacyCrawlTypeOK, Statuses
  <2>2. pages' \in [Crawls -> Queues]
    BY DEF LegacyCrawlTypeOK
  <2>3. visit' \in [Crawls -> Visits] /\ \A s \in Crawls : visit'[s].row \in {0} \cup DOMAIN rows
    BY NoVisitType DEF LegacyCrawlTypeOK, NoVisit
  <2>4. StoreTypeOK' /\ rows' = rows
    BY DEF LegacyCrawlTypeOK, StoreTypeOK
  <2>5. /\ shop' \in [Pages -> States] /\ cancelled' \subseteq Crawls
        /\ clock' \in Nat /\ changes' \in 0..MaxChanges /\ faults' \in 0..MaxFaults
    BY DEF LegacyCrawlTypeOK
  <2> QED
    BY <2>1, <2>2, <2>3, <2>4, <2>5 DEF LegacyCrawlTypeOK
<1>3. AnswersAreRecorded'
  BY DEF AnswersAreRecorded, LegacyCrawlTypeOK, PhasesAgree
<1>4. PhasesAgree'
  BY DEF PhasesAgree, LegacyCrawlTypeOK
<1> QED
  BY <1>1, <1>2, <1>3, <1>4 DEF StoreInv

LEMMA CancelLegacy == ASSUME LegacyIInv, NEW r \in Crawls, Cancel(r) PROVE LegacyIInv'
<1> USE LegacyCrawlAssumption
    DEF LegacyIInv, LegacyCrawlInv, Cancel, envVars, runVars, storeVars,
        Starting, Guarded, Catching, Over
<1>1. StoreInv'
  BY StoreLeftAlone
<1>2. LegacyCrawlTypeOK'
  <2>1. /\ phase' \in [Crawls -> Starting \cup Guarded \cup Catching \cup Over]
        /\ run' \in [Crawls -> Statuses] /\ ingestion' \in [Crawls -> Statuses]
        /\ answer' \in [Crawls -> {"none", "ok", "error"}]
    BY DEF LegacyCrawlTypeOK, Statuses
  <2>2. pages' \in [Crawls -> Queues]
    BY DEF LegacyCrawlTypeOK
  <2>3. visit' \in [Crawls -> Visits] /\ \A s \in Crawls : visit'[s].row \in {0} \cup DOMAIN rows
    BY NoVisitType DEF LegacyCrawlTypeOK, NoVisit
  <2>4. StoreTypeOK' /\ rows' = rows
    BY DEF LegacyCrawlTypeOK, StoreTypeOK
  <2>5. /\ shop' \in [Pages -> States] /\ cancelled' \subseteq Crawls
        /\ clock' \in Nat /\ changes' \in 0..MaxChanges /\ faults' \in 0..MaxFaults
    BY DEF LegacyCrawlTypeOK
  <2> QED
    BY <2>1, <2>2, <2>3, <2>4, <2>5 DEF LegacyCrawlTypeOK
<1>3. AnswersAreRecorded'
  BY DEF AnswersAreRecorded, LegacyCrawlTypeOK, PhasesAgree
<1>4. PhasesAgree'
  BY DEF PhasesAgree, LegacyCrawlTypeOK
<1> QED
  BY <1>1, <1>2, <1>3, <1>4 DEF StoreInv

LEMMA DiscoverLegacy == ASSUME LegacyIInv, NEW r \in Crawls, Discover(r) PROVE LegacyIInv'
<1> USE LegacyCrawlAssumption
    DEF LegacyIInv, LegacyCrawlInv, Discover, At, Call, Goto, Outcome, Committed, envVars, runVars, storeVars,
        Starting, Guarded, Catching, Over
<1>1. StoreInv'
  BY StoreLeftAlone
<1>2. LegacyCrawlTypeOK'
  <2>1. /\ phase' \in [Crawls -> Starting \cup Guarded \cup Catching \cup Over]
        /\ run' \in [Crawls -> Statuses] /\ ingestion' \in [Crawls -> Statuses]
        /\ answer' \in [Crawls -> {"none", "ok", "error"}]
    BY DEF LegacyCrawlTypeOK, Statuses
  <2>2. pages' \in [Crawls -> Queues]
    <3>1. pages[r] = NoPages /\ pages \in [Crawls -> Queues]
      BY DEF LegacyCrawlTypeOK, PhasesAgree
    <3> QED
      BY <3>1, DiscoverPages
  <2>3. visit' \in [Crawls -> Visits] /\ \A s \in Crawls : visit'[s].row \in {0} \cup DOMAIN rows
    BY NoVisitType DEF LegacyCrawlTypeOK, NoVisit
  <2>4. StoreTypeOK' /\ rows' = rows
    BY DEF LegacyCrawlTypeOK, StoreTypeOK
  <2>5. /\ shop' \in [Pages -> States] /\ cancelled' \subseteq Crawls
        /\ clock' \in Nat /\ changes' \in 0..MaxChanges /\ faults' \in 0..MaxFaults
    BY DEF LegacyCrawlTypeOK
  <2> QED
    BY <2>1, <2>2, <2>3, <2>4, <2>5 DEF LegacyCrawlTypeOK
<1>3. AnswersAreRecorded'
  BY DEF AnswersAreRecorded, LegacyCrawlTypeOK, PhasesAgree
<1>4. PhasesAgree'
  BY DEF PhasesAgree, LegacyCrawlTypeOK
<1> QED
  BY <1>1, <1>2, <1>3, <1>4 DEF StoreInv

LEMMA StartRunLegacy == ASSUME LegacyIInv, NEW r \in Crawls, StartRun(r) PROVE LegacyIInv'
<1> USE LegacyCrawlAssumption
    DEF LegacyIInv, LegacyCrawlInv, StartRun, At, Call, Goto, Outcome, Committed, envVars, runVars, storeVars,
        Starting, Guarded, Catching, Over
<1>1. StoreInv'
  BY StoreLeftAlone
<1>2. LegacyCrawlTypeOK'
  <2>1. /\ phase' \in [Crawls -> Starting \cup Guarded \cup Catching \cup Over]
        /\ run' \in [Crawls -> Statuses] /\ ingestion' \in [Crawls -> Statuses]
        /\ answer' \in [Crawls -> {"none", "ok", "error"}]
    BY DEF LegacyCrawlTypeOK, Statuses
  <2>2. pages' \in [Crawls -> Queues]
    BY DEF LegacyCrawlTypeOK
  <2>3. visit' \in [Crawls -> Visits] /\ \A s \in Crawls : visit'[s].row \in {0} \cup DOMAIN rows
    BY NoVisitType DEF LegacyCrawlTypeOK, NoVisit
  <2>4. StoreTypeOK' /\ rows' = rows
    BY DEF LegacyCrawlTypeOK, StoreTypeOK
  <2>5. /\ shop' \in [Pages -> States] /\ cancelled' \subseteq Crawls
        /\ clock' \in Nat /\ changes' \in 0..MaxChanges /\ faults' \in 0..MaxFaults
    BY DEF LegacyCrawlTypeOK
  <2> QED
    BY <2>1, <2>2, <2>3, <2>4, <2>5 DEF LegacyCrawlTypeOK
<1>3. AnswersAreRecorded'
  BY DEF AnswersAreRecorded, LegacyCrawlTypeOK, PhasesAgree
<1>4. PhasesAgree'
  BY DEF PhasesAgree, LegacyCrawlTypeOK
<1> QED
  BY <1>1, <1>2, <1>3, <1>4 DEF StoreInv

LEMMA StartIngestionLegacy == ASSUME LegacyIInv, NEW r \in Crawls, StartIngestion(r) PROVE LegacyIInv'
<1> USE LegacyCrawlAssumption
    DEF LegacyIInv, LegacyCrawlInv, StartIngestion, At, Call, Goto, Outcome, Committed, envVars, runVars, storeVars,
        Starting, Guarded, Catching, Over
<1>1. StoreInv'
  BY StoreLeftAlone
<1>2. LegacyCrawlTypeOK'
  <2>1. /\ phase' \in [Crawls -> Starting \cup Guarded \cup Catching \cup Over]
        /\ run' \in [Crawls -> Statuses] /\ ingestion' \in [Crawls -> Statuses]
        /\ answer' \in [Crawls -> {"none", "ok", "error"}]
    BY DEF LegacyCrawlTypeOK, Statuses
  <2>2. pages' \in [Crawls -> Queues]
    BY DEF LegacyCrawlTypeOK
  <2>3. visit' \in [Crawls -> Visits] /\ \A s \in Crawls : visit'[s].row \in {0} \cup DOMAIN rows
    BY NoVisitType DEF LegacyCrawlTypeOK, NoVisit
  <2>4. StoreTypeOK' /\ rows' = rows
    BY DEF LegacyCrawlTypeOK, StoreTypeOK
  <2>5. /\ shop' \in [Pages -> States] /\ cancelled' \subseteq Crawls
        /\ clock' \in Nat /\ changes' \in 0..MaxChanges /\ faults' \in 0..MaxFaults
    BY DEF LegacyCrawlTypeOK
  <2> QED
    BY <2>1, <2>2, <2>3, <2>4, <2>5 DEF LegacyCrawlTypeOK
<1>3. AnswersAreRecorded'
  BY DEF AnswersAreRecorded, LegacyCrawlTypeOK, PhasesAgree
<1>4. PhasesAgree'
  BY DEF PhasesAgree, LegacyCrawlTypeOK
<1> QED
  BY <1>1, <1>2, <1>3, <1>4 DEF StoreInv

LEMMA EnqueueLegacy == ASSUME LegacyIInv, NEW r \in Crawls, Enqueue(r) PROVE LegacyIInv'
<1> USE LegacyCrawlAssumption
    DEF LegacyIInv, LegacyCrawlInv, Enqueue, At, Call, Goto, Outcome, Committed, envVars, runVars, storeVars,
        Starting, Guarded, Catching, Over
<1>1. StoreInv'
  BY StoreLeftAlone
<1>2. LegacyCrawlTypeOK'
  <2>1. /\ phase' \in [Crawls -> Starting \cup Guarded \cup Catching \cup Over]
        /\ run' \in [Crawls -> Statuses] /\ ingestion' \in [Crawls -> Statuses]
        /\ answer' \in [Crawls -> {"none", "ok", "error"}]
    BY DEF LegacyCrawlTypeOK, Statuses
  <2>2. pages' \in [Crawls -> Queues]
    BY DEF LegacyCrawlTypeOK
  <2>3. visit' \in [Crawls -> Visits] /\ \A s \in Crawls : visit'[s].row \in {0} \cup DOMAIN rows
    BY NoVisitType DEF LegacyCrawlTypeOK, NoVisit
  <2>4. StoreTypeOK' /\ rows' = rows
    BY DEF LegacyCrawlTypeOK, StoreTypeOK
  <2>5. /\ shop' \in [Pages -> States] /\ cancelled' \subseteq Crawls
        /\ clock' \in Nat /\ changes' \in 0..MaxChanges /\ faults' \in 0..MaxFaults
    BY DEF LegacyCrawlTypeOK
  <2> QED
    BY <2>1, <2>2, <2>3, <2>4, <2>5 DEF LegacyCrawlTypeOK
<1>3. AnswersAreRecorded'
  BY DEF AnswersAreRecorded, LegacyCrawlTypeOK, PhasesAgree
<1>4. PhasesAgree'
  BY DEF PhasesAgree, LegacyCrawlTypeOK
<1> QED
  BY <1>1, <1>2, <1>3, <1>4 DEF StoreInv

(* A visit that fails leaves its page to be visited again, or dead.          *)
LEMMA FailsPages ==
  ASSUME LegacyIInv, NEW r \in Crawls, Fails(r), phase[r] \in {"found", "new"}
  PROVE  pages' \in [Crawls -> Queues]
<1>1. pages \in [Crawls -> Queues] /\ visit[r].page \in pages[r].todo
  BY DEF LegacyIInv, LegacyCrawlInv, LegacyCrawlTypeOK, PhasesAgree
<1>2. [pages[r] EXCEPT !.todo = @ \ {visit[r].page}, !.dead = @ \cup {visit[r].page}] \in Queues
  BY <1>1, QueueMoves
<1> QED
  BY <1>1, <1>2 DEF Fails, Leave

LEMMA ExtractFailsLegacy == ASSUME LegacyIInv, NEW r \in Crawls, ExtractFails(r) PROVE LegacyIInv'
<1> USE LegacyCrawlAssumption
    DEF LegacyIInv, LegacyCrawlInv, ExtractFails, At, Goto, Fails, Leave, envVars, runVars, storeVars,
        Starting, Guarded, Catching, Over
<1>1. StoreInv'
  BY StoreLeftAlone
<1>2. LegacyCrawlTypeOK'
  <2>1. /\ phase' \in [Crawls -> Starting \cup Guarded \cup Catching \cup Over]
        /\ run' \in [Crawls -> Statuses] /\ ingestion' \in [Crawls -> Statuses]
        /\ answer' \in [Crawls -> {"none", "ok", "error"}]
    BY DEF LegacyCrawlTypeOK, Statuses
  <2>2. pages' \in [Crawls -> Queues]
    BY FailsPages
  <2>3. visit' \in [Crawls -> Visits] /\ \A s \in Crawls : visit'[s].row \in {0} \cup DOMAIN rows
    BY NoVisitType DEF LegacyCrawlTypeOK, NoVisit
  <2>4. StoreTypeOK' /\ rows' = rows
    BY DEF LegacyCrawlTypeOK, StoreTypeOK
  <2>5. /\ shop' \in [Pages -> States] /\ cancelled' \subseteq Crawls
        /\ clock' \in Nat /\ changes' \in 0..MaxChanges /\ faults' \in 0..MaxFaults
    BY DEF LegacyCrawlTypeOK
  <2> QED
    BY <2>1, <2>2, <2>3, <2>4, <2>5 DEF LegacyCrawlTypeOK
<1>3. AnswersAreRecorded'
  BY DEF AnswersAreRecorded, LegacyCrawlTypeOK, PhasesAgree
<1>4. PhasesAgree'
  BY DEF PhasesAgree, LegacyCrawlTypeOK
<1> QED
  BY <1>1, <1>2, <1>3, <1>4 DEF StoreInv

LEMMA GetRunStatsLegacy == ASSUME LegacyIInv, NEW r \in Crawls, GetRunStats(r) PROVE LegacyIInv'
<1> USE LegacyCrawlAssumption
    DEF LegacyIInv, LegacyCrawlInv, GetRunStats, At, Call, Goto, Outcome, Committed, envVars, runVars, storeVars,
        Starting, Guarded, Catching, Over
<1>1. StoreInv'
  BY StoreLeftAlone
<1>2. LegacyCrawlTypeOK'
  <2>1. /\ phase' \in [Crawls -> Starting \cup Guarded \cup Catching \cup Over]
        /\ run' \in [Crawls -> Statuses] /\ ingestion' \in [Crawls -> Statuses]
        /\ answer' \in [Crawls -> {"none", "ok", "error"}]
    BY DEF LegacyCrawlTypeOK, Statuses
  <2>2. pages' \in [Crawls -> Queues]
    BY DEF LegacyCrawlTypeOK
  <2>3. visit' \in [Crawls -> Visits] /\ \A s \in Crawls : visit'[s].row \in {0} \cup DOMAIN rows
    BY NoVisitType DEF LegacyCrawlTypeOK, NoVisit
  <2>4. StoreTypeOK' /\ rows' = rows
    BY DEF LegacyCrawlTypeOK, StoreTypeOK
  <2>5. /\ shop' \in [Pages -> States] /\ cancelled' \subseteq Crawls
        /\ clock' \in Nat /\ changes' \in 0..MaxChanges /\ faults' \in 0..MaxFaults
    BY DEF LegacyCrawlTypeOK
  <2> QED
    BY <2>1, <2>2, <2>3, <2>4, <2>5 DEF LegacyCrawlTypeOK
<1>3. AnswersAreRecorded'
  BY DEF AnswersAreRecorded, LegacyCrawlTypeOK, PhasesAgree
<1>4. PhasesAgree'
  BY DEF PhasesAgree, LegacyCrawlTypeOK
<1> QED
  BY <1>1, <1>2, <1>3, <1>4 DEF StoreInv

LEMMA FinishIngestionLegacy == ASSUME LegacyIInv, NEW r \in Crawls, FinishIngestion(r) PROVE LegacyIInv'
<1> USE LegacyCrawlAssumption
    DEF LegacyIInv, LegacyCrawlInv, FinishIngestion, At, Call, Goto, Outcome, Committed, Status, envVars, runVars, storeVars,
        Starting, Guarded, Catching, Over
<1>1. StoreInv'
  BY StoreLeftAlone
<1>2. LegacyCrawlTypeOK'
  <2>1. /\ phase' \in [Crawls -> Starting \cup Guarded \cup Catching \cup Over]
        /\ run' \in [Crawls -> Statuses] /\ ingestion' \in [Crawls -> Statuses]
        /\ answer' \in [Crawls -> {"none", "ok", "error"}]
    BY EvaluateType DEF LegacyCrawlTypeOK, Statuses
  <2>2. pages' \in [Crawls -> Queues]
    BY DEF LegacyCrawlTypeOK
  <2>3. visit' \in [Crawls -> Visits] /\ \A s \in Crawls : visit'[s].row \in {0} \cup DOMAIN rows
    BY NoVisitType DEF LegacyCrawlTypeOK, NoVisit
  <2>4. StoreTypeOK' /\ rows' = rows
    BY DEF LegacyCrawlTypeOK, StoreTypeOK
  <2>5. /\ shop' \in [Pages -> States] /\ cancelled' \subseteq Crawls
        /\ clock' \in Nat /\ changes' \in 0..MaxChanges /\ faults' \in 0..MaxFaults
    BY DEF LegacyCrawlTypeOK
  <2> QED
    BY <2>1, <2>2, <2>3, <2>4, <2>5 DEF LegacyCrawlTypeOK
<1>3. AnswersAreRecorded'
  BY EvaluateType DEF AnswersAreRecorded, LegacyCrawlTypeOK, PhasesAgree
<1>4. PhasesAgree'
  BY EvaluateType DEF PhasesAgree, LegacyCrawlTypeOK
<1> QED
  BY <1>1, <1>2, <1>3, <1>4 DEF StoreInv

LEMMA FinishRunLegacy == ASSUME LegacyIInv, NEW r \in Crawls, FinishRun(r) PROVE LegacyIInv'
<1> USE LegacyCrawlAssumption
    DEF LegacyIInv, LegacyCrawlInv, FinishRun, At, Call, Goto, Outcome, Committed, Status, envVars, runVars, storeVars,
        Starting, Guarded, Catching, Over
<1>1. StoreInv'
  BY StoreLeftAlone
<1>2. LegacyCrawlTypeOK'
  <2>1. /\ phase' \in [Crawls -> Starting \cup Guarded \cup Catching \cup Over]
        /\ run' \in [Crawls -> Statuses] /\ ingestion' \in [Crawls -> Statuses]
        /\ answer' \in [Crawls -> {"none", "ok", "error"}]
    BY EvaluateType DEF LegacyCrawlTypeOK, Statuses
  <2>2. pages' \in [Crawls -> Queues]
    BY DEF LegacyCrawlTypeOK
  <2>3. visit' \in [Crawls -> Visits] /\ \A s \in Crawls : visit'[s].row \in {0} \cup DOMAIN rows
    BY NoVisitType DEF LegacyCrawlTypeOK, NoVisit
  <2>4. StoreTypeOK' /\ rows' = rows
    BY DEF LegacyCrawlTypeOK, StoreTypeOK
  <2>5. /\ shop' \in [Pages -> States] /\ cancelled' \subseteq Crawls
        /\ clock' \in Nat /\ changes' \in 0..MaxChanges /\ faults' \in 0..MaxFaults
    BY DEF LegacyCrawlTypeOK
  <2> QED
    BY <2>1, <2>2, <2>3, <2>4, <2>5 DEF LegacyCrawlTypeOK
<1>3. AnswersAreRecorded'
  BY EvaluateType DEF AnswersAreRecorded, LegacyCrawlTypeOK, PhasesAgree
<1>4. PhasesAgree'
  BY EvaluateType DEF PhasesAgree, LegacyCrawlTypeOK
<1> QED
  BY <1>1, <1>2, <1>3, <1>4 DEF StoreInv

LEMMA CancelledCallLegacy == ASSUME LegacyIInv, NEW r \in Crawls, CancelledCall(r) PROVE LegacyIInv'
<1> USE LegacyCrawlAssumption
    DEF LegacyIInv, LegacyCrawlInv, CancelledCall, Goto, envVars, runVars, storeVars,
        Starting, Guarded, Catching, Over
<1>1. StoreInv'
  BY StoreLeftAlone
<1>2. LegacyCrawlTypeOK'
  <2>1. /\ phase' \in [Crawls -> Starting \cup Guarded \cup Catching \cup Over]
        /\ run' \in [Crawls -> Statuses] /\ ingestion' \in [Crawls -> Statuses]
        /\ answer' \in [Crawls -> {"none", "ok", "error"}]
    BY DEF LegacyCrawlTypeOK, Statuses
  <2>2. pages' \in [Crawls -> Queues]
    BY DEF LegacyCrawlTypeOK
  <2>3. visit' \in [Crawls -> Visits] /\ \A s \in Crawls : visit'[s].row \in {0} \cup DOMAIN rows
    BY NoVisitType DEF LegacyCrawlTypeOK, NoVisit
  <2>4. StoreTypeOK' /\ rows' = rows
    BY DEF LegacyCrawlTypeOK, StoreTypeOK
  <2>5. /\ shop' \in [Pages -> States] /\ cancelled' \subseteq Crawls
        /\ clock' \in Nat /\ changes' \in 0..MaxChanges /\ faults' \in 0..MaxFaults
    BY DEF LegacyCrawlTypeOK
  <2> QED
    BY <2>1, <2>2, <2>3, <2>4, <2>5 DEF LegacyCrawlTypeOK
<1>3. AnswersAreRecorded'
  BY DEF AnswersAreRecorded, LegacyCrawlTypeOK, PhasesAgree
<1>4. PhasesAgree'
  BY DEF PhasesAgree, LegacyCrawlTypeOK
<1> QED
  BY <1>1, <1>2, <1>3, <1>4 DEF StoreInv

-----------------------------------------------------------------------------
(* A row and what one more observation does to it.                           *)

Bounded(h, n) == (n.at = 0 => h = <<>>) /\ \A k \in DOMAIN h : h[k].at <= n.at
Ordered(h)    == \A k, l \in DOMAIN h : k < l => h[k].at < h[l].at
Changing(h)   == \A k \in 1..(Len(h) - 1) : h[k].at < h[k + 1].at /\ h[k].state # h[k + 1].state
Newly(h, n)   == n.at > 0 => h # <<>> /\ Last(h).state = n.state

RowInv(h, n, isLate) == Bounded(h, n) /\ (~isLate => Ordered(h) /\ Changing(h) /\ Newly(h, n))

LEMMA RowInvMeans ==
  (\A i \in DOMAIN rows : RowInv(history[i], newest[i], i \in late))
    <=> SnapshotsAreInOrder /\ HistoryIsOfChanges /\ LatestIsNewest
<1> QED
  BY DEF RowInv, Bounded, Ordered, Changing, Newly, SnapshotsAreInOrder, HistoryIsOfChanges, LatestIsNewest

LEMMA ObservationTypes ==
  ASSUME NEW h \in Seq(Snapshot), NEW n \in Newest, NEW v \in Visits
  PROVE  Snapshots(h, v) \in Seq(Snapshot) /\ Newer(n, v) \in Newest /\ Newer(n, v).at \in {n.at, v.at}
<1>1. v.state \in ValidStates => [at |-> v.at, state |-> v.state] \in Snapshot
  BY DEF Visits, Snapshot
<1>2. Snapshot \subseteq Newest
  BY DEF Snapshot, Newest
<1> QED
  BY <1>1, <1>2, AppendProperties DEF Snapshots, Newer

LEMMA NextPlace == \A n \in Nat : \A k \in 1..n : k # n => k \in 1..(n - 1) /\ k + 1 \in 1..n
<1> QED
  OBVIOUS

LEMMA ObservationStored ==
  ASSUME NEW h \in Seq(Snapshot), NEW n \in Newest, NEW v \in Visits, NEW isLate \in BOOLEAN,
         v.at # 0, v.at # n.at, v.state \in States, v.seen = Latest(h), RowInv(h, n, isLate)
  PROVE  RowInv(Snapshots(h, v), Newer(n, v), isLate \/ (v.state \in ValidStates /\ v.at < n.at))
<1> USE LegacyCrawlAssumption
<1>1. n.at \in Nat /\ v.at \in Nat /\ Len(h) \in Nat /\ DOMAIN h = 1..Len(h)
  BY DEF Newest, Visits
<1>2. \A k \in DOMAIN h : h[k] \in Snapshot /\ h[k].at \in Nat /\ h[k].state \in ValidStates
  <2>1. \A k \in DOMAIN h : h[k] \in Snapshot
    OBVIOUS
  <2> QED
    BY <2>1 DEF Snapshot
<1>3. CASE v.state \notin ValidStates
  BY <1>3 DEF Snapshots, Newer
<1>4. CASE v.state \in ValidStates
  <2> DEFINE w == [at |-> v.at, state |-> v.state]
  <2>1. w \in Snapshot /\ w.at = v.at /\ w.state = v.state
    BY <1>4 DEF Snapshot, Visits
  <2>2. Newer(n, v) = IF v.at > n.at THEN w ELSE n
    BY <1>4 DEF Newer
  <2>3. Snapshots(h, v) = IF v.state # v.seen THEN Append(h, w) ELSE h
    BY <1>4 DEF Snapshots
  <2> HIDE DEF w
  <2>4. /\ Append(h, w) \in Seq(Snapshot) /\ Len(Append(h, w)) = Len(h) + 1 /\ Append(h, w) # <<>>
        /\ \A k \in 1..Len(h) : Append(h, w)[k] = h[k]
        /\ Append(h, w)[Len(h) + 1] = w /\ DOMAIN Append(h, w) = 1..(Len(h) + 1)
    BY <2>1, AppendProperties, LenProperties
  <2>5. Bounded(Snapshots(h, v), Newer(n, v))
    <3>1. Bounded(h, Newer(n, v)) /\ Newer(n, v).at # 0 /\ v.at <= Newer(n, v).at
      BY <1>1, <1>2, <2>1, <2>2 DEF RowInv, Bounded
    <3>2. Bounded(Append(h, w), Newer(n, v))
      BY <1>1, <2>1, <2>4, <3>1 DEF Bounded
    <3> QED
      BY <2>3, <3>1, <3>2
  <2>6. ASSUME ~isLate, ~(v.at < n.at) PROVE Ordered(Snapshots(h, v)) /\ Changing(Snapshots(h, v)) /\ Newly(Snapshots(h, v), w)
    <3>0. Ordered(h) /\ Changing(h) /\ Newly(h, n) /\ Bounded(h, n) /\ n.at < v.at
      BY <1>1, <2>6 DEF RowInv
    <3>1. h # <<>> => v.seen = h[Len(h)].state
      BY <3>0, LatestIsLast DEF Ordered, Last
    <3>2. h = <<>> => v.seen = "none"
      BY DEF Latest
    <3>3. CASE v.state = v.seen
      <4>1. h # <<>> /\ h[Len(h)].state = v.state
        BY <3>1, <3>2, <3>3
      <4> QED
        BY <2>1, <2>3, <3>0, <3>3, <4>1 DEF Newly, Last
    <3>4. CASE v.state # v.seen
      <4>1. Ordered(Append(h, w))
        BY <1>1, <1>2, <2>1, <2>4, <3>0 DEF Ordered, Bounded
      <4>2. Changing(Append(h, w))
        <5> DEFINE g == Append(h, w)
        <5>1. /\ Len(g) - 1 = Len(h) /\ g[Len(h) + 1] = w
              /\ \A k \in 1..Len(h) : g[k] = h[k]
          BY <1>1, <2>4
        <5> HIDE DEF g
        <5>2. ASSUME NEW k \in 1..Len(h), k # Len(h) PROVE g[k].at < g[k + 1].at /\ g[k].state # g[k + 1].state
          <6>1. k \in 1..(Len(h) - 1) /\ k + 1 \in 1..Len(h)
            BY <1>1, <5>2, NextPlace
          <6> QED
            BY <3>0, <5>1, <6>1 DEF Changing
        <5>3. ASSUME Len(h) \in 1..Len(h) PROVE g[Len(h)].at < g[Len(h) + 1].at /\ g[Len(h)].state # g[Len(h) + 1].state
          <6>1. h[Len(h)].at <= n.at /\ h[Len(h)].at \in Nat /\ h # <<>>
            BY <1>1, <1>2, <3>0, <5>3 DEF Bounded
          <6>2. h[Len(h)].state # w.state /\ h[Len(h)].at < w.at
            BY <1>1, <2>1, <3>0, <3>1, <3>4, <6>1
          <6> QED
            BY <5>1, <5>3, <6>2
        <5>4. \A k \in 1..(Len(g) - 1) : g[k].at < g[k + 1].at /\ g[k].state # g[k + 1].state
          BY <5>1, <5>2, <5>3
        <5> QED
          BY <5>4 DEF Changing, g
      <4>3. Newly(Append(h, w), w)
        BY <1>1, <2>4 DEF Newly, Last
      <4> QED
        BY <2>3, <3>4, <4>1, <4>2, <4>3
    <3> QED
      BY <3>3, <3>4
  <2>7. ~(v.at < n.at) => Newer(n, v) = w
    BY <1>1, <2>2
  <2> QED
    BY <1>4, <2>5, <2>6, <2>7 DEF RowInv
<1> QED
  BY <1>3, <1>4

-----------------------------------------------------------------------------
(* The steps of a visit.                                                     *)

LEMMA ExtractLegacy == ASSUME LegacyIInv, NEW r \in Crawls, Extract(r) PROVE LegacyIInv'
<1> USE LegacyCrawlAssumption
    DEF LegacyIInv, LegacyCrawlInv, Extract, At, Goto, envVars, runVars, storeVars, Starting, Guarded, Catching, Over
<1>1. PICK u \in pages[r].todo :
        visit' = [visit EXCEPT ![r] = [NoVisit EXCEPT !.page = u, !.state = shop[u], !.at = clock']]
  OBVIOUS
<1>2. pages[r] \in Queues /\ u \in Pages /\ shop[u] \in States
  <2>1. pages[r] \in Queues
    BY DEF LegacyCrawlTypeOK
  <2>2. u \in Pages
    BY <2>1 DEF Queues
  <2> QED
    BY <2>1, <2>2 DEF LegacyCrawlTypeOK
<1>3. clock' = clock + 1 /\ clock' \in Nat /\ clock \in Nat
  BY LegacyTypes
<1>4. [NoVisit EXCEPT !.page = u, !.state = shop[u], !.at = clock'] \in Visits
  BY <1>2, <1>3 DEF NoVisit, Visits
<1>5. /\ visit'[r].page = u /\ visit'[r].state = shop[u] /\ visit'[r].at = clock + 1 /\ visit'[r].row = 0
      /\ visit'[r].seen = "none" /\ visit' \in [Crawls -> Visits] /\ \A s \in Crawls \ {r} : visit'[s] = visit[s]
  BY <1>1, <1>3, <1>4 DEF LegacyCrawlTypeOK, NoVisit
<1>6. LegacyCrawlTypeOK'
  BY <1>3, <1>5 DEF LegacyCrawlTypeOK, StoreTypeOK
<1>7. AnswersAreRecorded'
  BY DEF AnswersAreRecorded, LegacyCrawlTypeOK
<1>8. PhasesAgree'
  BY <1>2, <1>3, <1>5 DEF PhasesAgree, LegacyCrawlTypeOK
<1>9. TimesDiffer'
  <2>1. \A s \in Crawls : visit[s].at <= clock
    BY <1>3 DEF PhasesAgree, NoVisit
  <2> QED
    <3>1. /\ \A s \in Crawls : visit[s].at \in Nat /\ visit[s].at # clock + 1
          /\ \A i \in DOMAIN rows : newest[i].at <= clock /\ newest[i].at \in Nat /\ newest[i].at # clock + 1
      BY <1>3, <2>1, LegacyTypes DEF TimesDiffer
    <3>2. \A i \in DOMAIN rows : newest[i].at <= clock'
      BY <1>3, <3>1
    <3>3. ASSUME NEW s \in Crawls, visit'[s].at # 0
          PROVE  /\ \A t \in Crawls \ {s} : visit'[t].at # visit'[s].at
                 /\ \A i \in DOMAIN rows : newest[i].at # visit'[s].at
      <4>1. CASE s = r
        BY <1>5, <3>1, <4>1
      <4>2. CASE s # r
        BY <1>5, <3>1, <3>3, <4>2 DEF TimesDiffer
      <4> QED
        BY <4>1, <4>2
    <3>4. rows' = rows /\ newest' = newest
      OBVIOUS
    <3> QED
      BY <3>2, <3>3, <3>4 DEF TimesDiffer
<1>10. LockedRowsStand'
  BY <1>5, LegacyTypes DEF LockedRowsStand
<1>11. SnapshotsAreInOrder' /\ HistoryIsOfChanges' /\ LatestIsNewest'
  BY DEF SnapshotsAreInOrder, HistoryIsOfChanges, LatestIsNewest
<1> QED
  BY <1>6, <1>7, <1>8, <1>9, <1>10, <1>11

(* The row that is looked up exists, and no other visit has it locked.        *)
LEMMA RowOfIsRow == ASSUME LegacyIInv, NEW u, ByUrl(u) \cup ById(u) # {} PROVE RowOf(u) \in DOMAIN rows
<1>1. ByUrl(u) \in SUBSET Nat /\ ById(u) \in SUBSET Nat
  BY LegacyTypes DEF ByUrl, ById
<1>2. RowOf(u) \in ByUrl(u) \cup ById(u)
  BY <1>1, FirstIsOne DEF RowOf
<1> QED
  BY <1>2 DEF ByUrl, ById

LEMMA LatestType == ASSUME LegacyIInv, NEW i \in DOMAIN rows PROVE Latest(history[i]) \in ValidStates \cup {"none"}
<1>1. CASE history[i] = <<>>
  BY <1>1 DEF Latest
<1>2. CASE history[i] # <<>>
  BY <1>2, LegacyTypes, LatestIsValid DEF LegacyIInv, SnapshotsAreInOrder
<1> QED
  BY <1>1, <1>2

LEMMA FindProductLegacy == ASSUME LegacyIInv, NEW r \in Crawls, FindProduct(r) PROVE LegacyIInv'
<1> USE LegacyCrawlAssumption
    DEF LegacyIInv, LegacyCrawlInv, FindProduct, At, Goto, envVars, runVars, storeVars, Starting, Guarded, Catching, Over
<1> DEFINE i == RowOf(visit[r].page)
<1>0. phase[r] = "found" /\ visit[r].row = 0 /\ visit[r] \in Visits
  BY DEF LegacyCrawlTypeOK
<1>1. CASE visit' = visit /\ phase' = [phase EXCEPT ![r] = "new"]
  <2>1. LegacyCrawlTypeOK'
    BY <1>1 DEF LegacyCrawlTypeOK, StoreTypeOK
  <2>2. AnswersAreRecorded' /\ PhasesAgree'
    BY <1>0, <1>1 DEF AnswersAreRecorded, PhasesAgree, LegacyCrawlTypeOK
  <2> QED
    BY <1>1, <2>1, <2>2, StoreLeftAlone DEF StoreInv
<1>2. CASE /\ i \in DOMAIN rows /\ ~Locked(i) /\ phase' = phase
           /\ visit' = [visit EXCEPT ![r].row = i, ![r].seen = Latest(history[i])]
  <2>1. i \in Nat /\ i # 0
    BY <1>2, LegacyTypes
  <2>2. Latest(history[i]) \in ValidStates \cup {"none"}
    BY <1>2, LatestType
  <2>n. /\ visit'[r] = [visit[r] EXCEPT !.row = i, !.seen = Latest(history[i])]
        /\ visit' = [visit EXCEPT ![r] = [visit[r] EXCEPT !.row = i, !.seen = Latest(history[i])]]
    BY <1>2 DEF LegacyCrawlTypeOK
  <2> HIDE DEF i
  <2>3. /\ [visit[r] EXCEPT !.row = i, !.seen = Latest(history[i])] \in Visits
        /\ visit'[r].page = visit[r].page /\ visit'[r].state = visit[r].state /\ visit'[r].at = visit[r].at
        /\ visit'[r].row = i /\ visit'[r].seen = Latest(history[i])
    <3> DEFINE seen == Latest(history[i])
    <3>1. seen \in ValidStates \cup {"none"} /\ visit'[r] = [visit[r] EXCEPT !.row = i, !.seen = seen]
      BY <2>2, <2>n
    <3> HIDE DEF seen
    <3> DEFINE w == [visit[r] EXCEPT !.row = i, !.seen = seen]
    <3>2. visit[r] \in Visits /\ i \in Nat
      BY <1>0, <2>1 DEF LegacyCrawlTypeOK
    <3>3. w = [[visit[r] EXCEPT !.row = i] EXCEPT !.seen = seen]
      OBVIOUS
    <3>4. [visit[r] EXCEPT !.row = i] \in Visits
      BY <3>2 DEF Visits
    <3>5. w \in Visits
      BY <3>1, <3>3, <3>4 DEF Visits
    <3>6. /\ w.page = visit[r].page /\ w.state = visit[r].state /\ w.at = visit[r].at
          /\ w.row = i /\ w.seen = seen
      BY <3>2 DEF Visits
    <3>7. /\ [visit[r] EXCEPT !.row = i, !.seen = seen] \in Visits
          /\ visit'[r].page = visit[r].page /\ visit'[r].state = visit[r].state /\ visit'[r].at = visit[r].at
          /\ visit'[r].row = i /\ visit'[r].seen = seen
      BY <3>1, <3>5, <3>6
    <3> QED
      BY <3>7 DEF seen
  <2>4. visit' \in [Crawls -> Visits] /\ \A s \in Crawls \ {r} : visit'[s] = visit[s]
    BY <2>n, <2>3 DEF LegacyCrawlTypeOK
  <2>5. LegacyCrawlTypeOK'
    BY <1>2, <2>3, <2>4 DEF LegacyCrawlTypeOK, StoreTypeOK
  <2>6. AnswersAreRecorded'
    BY <1>2 DEF AnswersAreRecorded
  <2>7. PhasesAgree'
    BY <1>0, <1>2, <2>3, <2>4 DEF PhasesAgree
  <2>8. TimesDiffer'
    BY <2>3, <2>4 DEF TimesDiffer
  <2>9. \A s \in Crawls \ {r} : visit[s].row # i
    BY <1>2, <2>1 DEF Locked, PhasesAgree, NoVisit
  <2>10. LockedRowsStand'
    BY <2>1, <2>3, <2>4, <2>9 DEF LockedRowsStand
  <2>11. SnapshotsAreInOrder' /\ HistoryIsOfChanges' /\ LatestIsNewest'
    BY DEF SnapshotsAreInOrder, HistoryIsOfChanges, LatestIsNewest
  <2> QED
    BY <2>5, <2>6, <2>7, <2>8, <2>10, <2>11
<1> QED
  BY <1>1, <1>2, RowOfIsRow

(* What an observation that is stored leaves in the tables: row i of the new  *)
(* ones holds it, every other row is as it was.                              *)
StoredAt(v, i) ==
  /\ StoreTypeOK' /\ DOMAIN rows \subseteq DOMAIN rows' /\ DOMAIN rows' = DOMAIN rows \cup {i}
  /\ RowInv(history'[i], newest'[i], i \in late')
  /\ newest'[i].at = v.at \/ (i \in DOMAIN rows /\ newest'[i].at = newest[i].at)
     \/ newest'[i].at = 0
  /\ \A j \in DOMAIN rows \ {i} : history'[j] = history[j] /\ newest'[j] = newest[j] /\ (j \in late' <=> j \in late)

LEMMA StoredKeepsOrder ==
  ASSUME LegacyIInv, NEW i, NEW v, StoredAt(v, i)
  PROVE  SnapshotsAreInOrder' /\ HistoryIsOfChanges' /\ LatestIsNewest'
<1>1. \A j \in DOMAIN rows : RowInv(history[j], newest[j], j \in late)
  BY RowInvMeans DEF LegacyIInv
<1>2. \A j \in DOMAIN rows' : RowInv(history'[j], newest'[j], j \in late')
  <2> SUFFICES ASSUME NEW j \in DOMAIN rows' PROVE RowInv(history'[j], newest'[j], j \in late')
    OBVIOUS
  <2>1. CASE j = i
    BY <2>1 DEF StoredAt
  <2>2. CASE j # i
    <3>1. j \in DOMAIN rows /\ history'[j] = history[j] /\ newest'[j] = newest[j] /\ (j \in late' <=> j \in late)
      BY <2>2 DEF StoredAt
    <3>2. RowInv(history[j], newest[j], j \in late)
      BY <1>1, <3>1
    <3> QED
      BY <3>1, <3>2 DEF RowInv
  <2> QED
    BY <2>1, <2>2
<1> QED
  BY <1>2 DEF RowInv, Bounded, Ordered, Changing, Newly, SnapshotsAreInOrder, HistoryIsOfChanges, LatestIsNewest

(* The visit that stored it, or whose reply was lost, is over.                *)
LEMMA StoredKeepsStore ==
  ASSUME LegacyIInv, NEW r \in Crawls, visit[r].at # 0, NEW i, i = visit[r].row \/ i \notin DOMAIN rows,
         StoredAt(visit[r], i), visit' = [visit EXCEPT ![r] = NoVisit], clock' = clock, visit[r].at <= clock
  PROVE  StoreInv'
<1>1. /\ visit'[r].at = 0 /\ visit'[r].row = 0 /\ visit'[r].seen = "none"
      /\ \A s \in Crawls \ {r} : visit'[s] = visit[s]
  BY DEF LegacyIInv, LegacyCrawlInv, LegacyCrawlTypeOK, NoVisit
<1>2. TimesDiffer'
  <2>1. \A j \in DOMAIN rows' : \/ newest'[j].at \in {visit[r].at, 0}
                                \/ j \in DOMAIN rows /\ newest'[j].at = newest[j].at
    BY DEF StoredAt
  <2>2. \A j \in DOMAIN rows' : newest'[j].at <= clock'
    BY <2>1, LegacyTypes DEF LegacyIInv, TimesDiffer
  <2>3. \A s \in Crawls : visit'[s].at # 0 => s # r /\ visit'[s] = visit[s]
    BY <1>1
  <2>4. \A s \in Crawls : visit'[s].at # 0 =>
          /\ \A t \in Crawls \ {s} : visit'[t].at # visit'[s].at
          /\ \A j \in DOMAIN rows' : newest'[j].at # visit'[s].at
    BY <1>1, <2>1, <2>3 DEF LegacyIInv, TimesDiffer
  <2> QED
    BY <2>2, <2>4 DEF TimesDiffer
<1>3. LockedRowsStand'
  <2> SUFFICES ASSUME NEW s \in Crawls
               PROVE  IF visit'[s].row = 0 THEN visit'[s].seen = "none"
                        ELSE /\ \A t \in Crawls \ {s} : visit'[t].row # visit'[s].row
                             /\ visit'[s].seen = Latest(history'[visit'[s].row])
    BY DEF LockedRowsStand
  <2>1. CASE s = r
    BY <1>1, <2>1
  <2>2. CASE s # r /\ visit[s].row = 0
    BY <1>1, <2>2 DEF LegacyIInv, LockedRowsStand
  <2>3. CASE s # r /\ visit[s].row # 0
    <3>1. visit[s].row \in DOMAIN rows /\ visit'[s] = visit[s] /\ visit[s].row # visit[r].row
      BY <1>1, <2>3, LegacyTypes DEF LegacyIInv, LockedRowsStand
    <3>2. history'[visit[s].row] = history[visit[s].row]
      BY <3>1 DEF StoredAt
    <3> QED
      BY <1>1, <2>3, <3>1, <3>2 DEF LegacyIInv, LockedRowsStand
  <2> QED
    BY <2>1, <2>2, <2>3
<1> QED
  BY <1>2, <1>3, StoredKeepsOrder DEF StoreInv

(* The facts about a visit that is about to be stored.                        *)
LEMMA VisitFacts ==
  ASSUME LegacyIInv, NEW r \in Crawls, phase[r] \in {"found", "new"}
  PROVE  /\ visit[r] \in Visits /\ visit[r].page \in Pages /\ visit[r].state \in States
         /\ visit[r].at # 0 /\ visit[r].at <= clock
         /\ \A i \in DOMAIN rows : visit[r].at # newest[i].at
         /\ CardUrl[visit[r].page] \in STRING
<1> USE LegacyCrawlAssumption DEF LegacyIInv, LegacyCrawlInv
<1>1. visit[r] \in Visits /\ pages[r] \in Queues /\ clock \in Nat
  BY DEF LegacyCrawlTypeOK
<1>2. visit[r].page \in pages[r].todo /\ visit[r].state \in States /\ visit[r].at \in 1..clock
  BY DEF PhasesAgree
<1>3. visit[r].page \in Pages
  BY <1>1, <1>2 DEF Queues
<1> QED
  BY <1>1, <1>2, <1>3 DEF TimesDiffer

LEMMA UpdateRowStores ==
  ASSUME LegacyIInv, NEW r \in Crawls, phase[r] = "found", visit[r].row # 0, UpdateRow(visit[r])
  PROVE  StoredAt(visit[r], visit[r].row)
<1> DEFINE v == visit[r]
           i == v.row
           card == [rows[i] EXCEPT !.url = CardUrl[v.page], !.id = IF CardId[v.page] = NoId THEN @ ELSE CardId[v.page]]
<1>1. i \in DOMAIN rows /\ i \in 1..Len(rows) /\ Len(history) = Len(rows) /\ Len(newest) = Len(rows)
  BY LegacyTypes DEF LegacyIInv, LegacyCrawlInv, LegacyCrawlTypeOK, StoreTypeOK
<1>2. rows \in Seq(Cards) /\ history \in Seq(Seq(Snapshot)) /\ newest \in Seq(Newest) /\ late \subseteq DOMAIN rows
  BY DEF LegacyIInv, LegacyCrawlInv, LegacyCrawlTypeOK, StoreTypeOK
<1>3. history[i] \in Seq(Snapshot) /\ newest[i] \in Newest /\ rows[i] \in Cards
  BY <1>1, <1>2
<1>4. Snapshots(history[i], v) \in Seq(Snapshot) /\ Newer(newest[i], v) \in Newest /\ Newer(newest[i], v).at \in {newest[i].at, v.at}
  BY <1>3, VisitFacts, ObservationTypes
<1>5. card \in Cards
  BY <1>3, VisitFacts DEF Cards
<1>6. /\ rows' = [rows EXCEPT ![i] = card] /\ history' = [history EXCEPT ![i] = Snapshots(history[i], v)]
      /\ newest' = [newest EXCEPT ![i] = Newer(newest[i], v)]
      /\ late' = IF v.state \in ValidStates /\ v.at < newest[i].at THEN late \cup {i} ELSE late
  BY <1>1, <1>2 DEF UpdateRow
<1>7. RowInv(history[i], newest[i], i \in late) /\ v.seen = Latest(history[i])
  BY <1>1, RowInvMeans DEF LegacyIInv, LockedRowsStand
<1>8. RowInv(Snapshots(history[i], v), Newer(newest[i], v), i \in late \/ (v.state \in ValidStates /\ v.at < newest[i].at))
  <2> DEFINE h == history[i]
             n == newest[i]
             isLate == i \in late
  <2>1. v \in Visits /\ v.at # 0 /\ v.at # n.at /\ v.state \in States
    BY <1>1, VisitFacts, LegacyTypes
  <2>2. h \in Seq(Snapshot) /\ n \in Newest /\ isLate \in BOOLEAN /\ v.seen = Latest(h) /\ RowInv(h, n, isLate)
    BY <1>3, <1>7
  <2> HIDE DEF h, n, isLate, v, i
  <2>3. RowInv(Snapshots(h, v), Newer(n, v), isLate \/ (v.state \in ValidStates /\ v.at < n.at))
    BY <2>1, <2>2, ObservationStored
  <2> QED
    BY <2>3 DEF h, n, isLate
<1>9. i \in late' <=> i \in late \/ (v.state \in ValidStates /\ v.at < newest[i].at)
  BY <1>6
<1> HIDE DEF v, i, card
<1>10. /\ rows' \in Seq(Cards) /\ Len(rows') = Len(rows)
       /\ history' \in Seq(Seq(Snapshot)) /\ Len(history') = Len(history)
       /\ \A j \in DOMAIN rows : history'[j] = IF j = i THEN Snapshots(history[i], v) ELSE history[j]
       /\ newest' \in Seq(Newest) /\ Len(newest') = Len(newest)
       /\ \A j \in DOMAIN rows : newest'[j] = IF j = i THEN Newer(newest[i], v) ELSE newest[j]
  <2>1. rows' \in Seq(Cards) /\ Len(rows') = Len(rows)
    BY <1>1, <1>2, <1>5, <1>6, ExceptSeq
  <2>2. /\ history' \in Seq(Seq(Snapshot)) /\ Len(history') = Len(history)
        /\ \A j \in 1..Len(history) : history'[j] = IF j = i THEN Snapshots(history[i], v) ELSE history[j]
    BY <1>1, <1>2, <1>4, <1>6, ExceptSeq
  <2>3. /\ newest' \in Seq(Newest) /\ Len(newest') = Len(newest)
        /\ \A j \in 1..Len(newest) : newest'[j] = IF j = i THEN Newer(newest[i], v) ELSE newest[j]
    BY <1>1, <1>2, <1>4, <1>6, ExceptSeq
  <2> QED
    BY <1>1, <2>1, <2>2, <2>3, LegacyTypes
<1>11. DOMAIN rows' = DOMAIN rows
  BY <1>2, <1>10
<1>12. StoreTypeOK'
  BY <1>1, <1>2, <1>6, <1>10, <1>11 DEF StoreTypeOK
<1>13. RowInv(history'[i], newest'[i], i \in late')
  BY <1>1, <1>8, <1>9, <1>10 DEF RowInv
<1>14. newest'[i].at = v.at \/ (i \in DOMAIN rows /\ newest'[i].at = newest[i].at)
  BY <1>1, <1>4, <1>10
<1>15. \A j \in DOMAIN rows \ {i} : history'[j] = history[j] /\ newest'[j] = newest[j] /\ (j \in late' <=> j \in late)
  BY <1>6, <1>10
<1>16. StoredAt(v, i)
  BY <1>1, <1>11, <1>12, <1>13, <1>14, <1>15 DEF StoredAt
<1> QED
  BY <1>16 DEF v, i

LEMMA InsertRowStores ==
  ASSUME LegacyIInv, NEW r \in Crawls, phase[r] = "new", InsertRow(visit[r])
  PROVE  StoredAt(visit[r], Len(rows) + 1)
<1> DEFINE v == visit[r]
           i == Len(rows) + 1
           card == [url |-> CardUrl[v.page], id |-> CardId[v.page]]
           none == [at |-> 0, state |-> "none"]
<1>1. /\ rows \in Seq(Cards) /\ history \in Seq(Seq(Snapshot)) /\ newest \in Seq(Newest) /\ late \subseteq DOMAIN rows
      /\ Len(history) = Len(rows) /\ Len(newest) = Len(rows) /\ Len(rows) \in Nat /\ DOMAIN rows = 1..Len(rows)
  BY DEF LegacyIInv, LegacyCrawlInv, LegacyCrawlTypeOK, StoreTypeOK
<1>2. none \in Newest /\ none.at = 0 /\ <<>> \in Seq(Snapshot)
  BY DEF Newest
<1>3. Snapshots(<<>>, v) \in Seq(Snapshot) /\ Newer(none, v) \in Newest /\ Newer(none, v).at \in {0, v.at}
  BY <1>2, VisitFacts, ObservationTypes
<1>4. card \in Cards
  BY VisitFacts DEF Cards
<1>5. v.seen = Latest(<<>>)
  BY DEF LegacyIInv, PhasesAgree, LockedRowsStand, Latest
<1>6. RowInv(<<>>, none, FALSE)
  BY <1>2 DEF RowInv, Bounded, Ordered, Changing, Newly
<1>7. v.at \in Nat /\ v.at # 0 /\ ~(v.at < 0)
  BY VisitFacts, LegacyTypes
<1>8. RowInv(Snapshots(<<>>, v), Newer(none, v), FALSE \/ (v.state \in ValidStates /\ v.at < none.at))
  <2>1. v \in Visits /\ v.state \in States /\ v.at # none.at
    BY <1>2, <1>7, VisitFacts
  <2> HIDE DEF v, none
  <2> QED
    BY <1>2, <1>5, <1>6, <1>7, <2>1, ObservationStored
<1>9. RowInv(Snapshots(<<>>, v), Newer(none, v), FALSE)
  BY <1>2, <1>7, <1>8 DEF RowInv
<1>10. /\ rows' = Append(rows, card) /\ history' = Append(history, Snapshots(<<>>, v))
       /\ newest' = Append(newest, Newer(none, v)) /\ late' = late
  BY DEF InsertRow
<1> HIDE DEF v, none, card
<1>11. /\ rows' \in Seq(Cards) /\ Len(rows') = i
       /\ history' \in Seq(Seq(Snapshot)) /\ Len(history') = i
       /\ history'[i] = Snapshots(<<>>, v) /\ \A j \in 1..Len(rows) : history'[j] = history[j]
       /\ newest' \in Seq(Newest) /\ Len(newest') = i
       /\ newest'[i] = Newer(none, v) /\ \A j \in 1..Len(rows) : newest'[j] = newest[j]
  BY <1>1, <1>3, <1>4, <1>10, AppendProperties
<1>12. DOMAIN rows' = 1..i /\ i \in Nat /\ i \notin 1..Len(rows) /\ 1..i = 1..Len(rows) \cup {i}
  BY <1>1, <1>11
<1>13. StoreTypeOK'
  BY <1>1, <1>10, <1>11, <1>12 DEF StoreTypeOK
<1>14. i \notin late'
  BY <1>1, <1>10, <1>12
<1>15. RowInv(history'[i], newest'[i], i \in late')
  BY <1>9, <1>11, <1>14 DEF RowInv
<1>16. newest'[i].at \in {0, v.at}
  BY <1>3, <1>11
<1>17. StoredAt(v, i)
  BY <1>1, <1>10, <1>11, <1>12, <1>13, <1>15, <1>16 DEF StoredAt
<1> QED
  BY <1>17 DEF v

(* The end of a visit, whatever became of its call.                           *)
LEMMA VisitEnds ==
  ASSUME LegacyIInv, NEW r \in Crawls, phase[r] \in {"found", "new"}, r \notin cancelled,
         UNCHANGED <<envVars, cancelled, runVars, clock>>,
         (Fails(r) /\ UNCHANGED faults) \/ \E o \in Outcome : Stored(r, o),
         StoreInv', StoreTypeOK', DOMAIN rows \subseteq DOMAIN rows'
  PROVE  LegacyIInv'
<1> USE LegacyCrawlAssumption
    DEF LegacyIInv, LegacyCrawlInv, Goto, envVars, runVars, Starting, Guarded, Catching, Over
<1>1. visit' = [visit EXCEPT ![r] = NoVisit] /\ phase' = [phase EXCEPT ![r] = "drain"] /\ faults' \in 0..MaxFaults
  BY DEF Fails, Stored, Leave, LegacyCrawlTypeOK
<1>2. pages' \in [Crawls -> Queues] /\ \A s \in Crawls \ {r} : pages'[s] = pages[s]
  <2>1. CASE Fails(r)
    BY <2>1, FailsPages DEF Fails, Leave, LegacyCrawlTypeOK
  <2>2. CASE pages' = [pages EXCEPT ![r] = [pages[r] EXCEPT !.todo = @ \ {visit[r].page}, !.succeeded = @ \cup {visit[r].page}]]
    <3>1. pages \in [Crawls -> Queues] /\ visit[r].page \in pages[r].todo
      BY DEF LegacyCrawlTypeOK, PhasesAgree
    <3>2. [pages[r] EXCEPT !.todo = @ \ {visit[r].page}, !.succeeded = @ \cup {visit[r].page}] \in Queues
      BY <3>1, QueueMoves
    <3> QED
      BY <2>2, <3>1, <3>2
  <2> QED
    BY <2>1, <2>2 DEF Stored, Leave
<1>3. /\ visit'[r] = NoVisit /\ phase'[r] = "drain" /\ visit' \in [Crawls -> Visits]
      /\ \A s \in Crawls \ {r} : visit'[s] = visit[s] /\ phase'[s] = phase[s]
  BY <1>1, NoVisitType DEF LegacyCrawlTypeOK
<1>4. LegacyCrawlTypeOK'
  <2>1. \A s \in Crawls : visit'[s].row \in {0} \cup DOMAIN rows'
    BY <1>3, LegacyTypes DEF NoVisit
  <2> QED
    BY <1>1, <1>2, <1>3, <2>1 DEF LegacyCrawlTypeOK
<1>5. AnswersAreRecorded'
  BY <1>3 DEF AnswersAreRecorded
<1>6. PhasesAgree'
  <2> SUFFICES ASSUME NEW s \in Crawls
      PROVE  /\ IF phase'[s] \in {"found", "new"}
                  THEN visit'[s].page \in pages'[s].todo /\ visit'[s].state \in States /\ visit'[s].at \in 1..clock'
                  ELSE visit'[s] = NoVisit
             /\ phase'[s] = "new" => visit'[s].row = 0
             /\ phase'[s] = "discover" => pages'[s] = NoPages
             /\ phase'[s] = "finish_run" => ingestion'[s] = Evaluate(pages'[s])
             /\ phase'[s] \in {"catch_run", "finish_run_failed"} => ingestion'[s] = "error"
    BY DEF PhasesAgree
  <2>1. CASE s = r
    BY <1>3, <2>1
  <2>2. CASE s # r
    BY <1>2, <1>3, <2>2 DEF PhasesAgree
  <2> QED
    BY <2>1, <2>2
<1> QED
  BY <1>4, <1>5, <1>6 DEF StoreInv

LEMMA StoreProductLegacy ==
  ASSUME LegacyIInv, NEW r \in Crawls, UpdateProduct(r) \/ InsertProduct(r)
  PROVE  LegacyIInv'
<1>1. /\ phase[r] \in {"found", "new"} /\ r \notin cancelled
      /\ UNCHANGED <<envVars, cancelled, runVars, clock>>
      /\ visit' = [visit EXCEPT ![r] = NoVisit]
      /\ (Fails(r) /\ UNCHANGED faults) \/ \E o \in Outcome : Stored(r, o)
  BY DEF UpdateProduct, InsertProduct, At, Fails, Stored, Leave
<1>2. \/ UNCHANGED storeVars
      \/ phase[r] = "found" /\ visit[r].row # 0 /\ UpdateRow(visit[r])
      \/ phase[r] = "new" /\ InsertRow(visit[r])
  BY DEF UpdateProduct, InsertProduct, At
<1>3. CASE UNCHANGED storeVars
  <2>1. StoreInv'
    BY <1>1, <1>3, StoreLeftAlone
  <2>2. StoreTypeOK' /\ rows' = rows
    BY <1>3 DEF LegacyIInv, LegacyCrawlInv, LegacyCrawlTypeOK, StoreTypeOK, storeVars
  <2> QED
    BY <1>1, <2>1, <2>2, VisitEnds
<1>4. CASE \E i : StoredAt(visit[r], i) /\ (i = visit[r].row \/ i \notin DOMAIN rows)
  <2> PICK i : StoredAt(visit[r], i) /\ (i = visit[r].row \/ i \notin DOMAIN rows)
    BY <1>4
  <2>1. StoreInv'
    BY <1>1, VisitFacts, StoredKeepsStore
  <2>2. StoreTypeOK' /\ DOMAIN rows \subseteq DOMAIN rows'
    BY DEF StoredAt
  <2> QED
    BY <1>1, <2>1, <2>2, VisitEnds
<1>5. CASE phase[r] = "found" /\ visit[r].row # 0 /\ UpdateRow(visit[r])
  BY <1>4, <1>5, UpdateRowStores
<1>6. CASE phase[r] = "new" /\ InsertRow(visit[r])
  <2>1. Len(rows) + 1 \notin DOMAIN rows
    BY LegacyTypes
  <2> QED
    BY <1>4, <1>6, <2>1, InsertRowStores
<1> QED
  BY <1>2, <1>3, <1>5, <1>6

LEMMA LegacyStep == LegacyIInv /\ [Next]_vars => LegacyIInv'
<1> SUFFICES ASSUME LegacyIInv, [Next]_vars PROVE LegacyIInv'
  OBVIOUS
<1>1. ASSUME NEW r \in Crawls, CrawlStep(r) PROVE LegacyIInv'
  BY <1>1, DiscoverLegacy, StartRunLegacy, StartIngestionLegacy, EnqueueLegacy, ExtractLegacy, ExtractFailsLegacy,
     FindProductLegacy, StoreProductLegacy, GetRunStatsLegacy, FinishIngestionLegacy, FinishRunLegacy,
     CancelledCallLegacy DEF CrawlStep
<1>2. CASE UNCHANGED vars
  <2> USE <1>2 DEF vars, envVars, runVars, storeVars
  <2>1. StoreInv'
    BY StoreLeftAlone
  <2>2. LegacyCrawlTypeOK' /\ AnswersAreRecorded' /\ PhasesAgree'
    BY DEF LegacyIInv, LegacyCrawlInv, LegacyCrawlTypeOK, StoreTypeOK, AnswersAreRecorded, PhasesAgree
  <2> QED
    BY <2>1, <2>2 DEF LegacyIInv, LegacyCrawlInv, StoreInv
<1> QED
  BY <1>1, <1>2, ShopChangesLegacy, CancelLegacy DEF Next, Done

(* The invariant of the crawls holds, whatever fails or is cancelled.         *)
THEOREM LegacyInductive == Spec => []LegacyIInv
<1> QED
  BY LegacyInit, LegacyStep, PTL DEF Spec

(* An answer is given only once run and ingestion are closed with it.         *)
THEOREM LegacyAnswersTruly == Spec => []LegacyCrawlInv
<1> QED
  BY LegacyInductive, PTL DEF LegacyIInv

(* Crawls side by side never write two snapshots of one state in a row, nor   *)
(* out of order, unless an observation came late.                             *)
THEOREM LegacyHistory == Spec => []HistoryIsOfChanges
<1> QED
  BY LegacyInductive, PTL DEF LegacyIInv

(* The latest snapshot is the newest valid observation, unless one came late. *)
THEOREM LegacyLatest == Spec => []LatestIsNewest
<1> QED
  BY LegacyInductive, PTL DEF LegacyIInv
=============================================================================
