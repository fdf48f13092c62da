------------------------ MODULE CatalogRefreshProofs ------------------------
(***************************************************************************)
(* Proofs about CatalogRefresh for any number of refreshes and products,   *)
(* any timeout, grace period and thresholds.  The inductive invariant is   *)
(* RefreshIInv; every action keeps it, and two action properties follow.   *)
(***************************************************************************)
EXTENDS CatalogRefresh, FiniteSetTheorems, TLAPS

(* The part of the invariant that concerns sessions, runs and answers.       *)
Verdicts == OneRunning /\ OkRunHasOkSession /\ SessionAfterStart /\ StatsAfterSession /\ AnswerIsLast

(* The part that concerns how sessions and their runs end. *)
Endings == EndsWithItsRun /\ FailsClosed

(* A share rounded up is at least the share. *)
LEMMA RoundedUp == ASSUME NEW k \in Nat PROVE 100 * ((k + 99) \div 100) >= k
  OBVIOUS

LEMMA SafeShare ==
  ASSUME NEW n \in Nat, NEW b \in Nat, ~Unsafe(n, b)
  PROVE  100 * n >= RatioPercent * b
<1> DEFINE k == b * RatioPercent
<1>1. k \in Nat /\ k = RatioPercent * b
  BY RefreshAssumption
<1>2. CASE b = 0
  BY <1>2, RefreshAssumption
<1>3. CASE b > 0
  <2>1. n >= (k + 99) \div 100
    BY <1>1, <1>3, RefreshAssumption DEF Unsafe, Required
  <2>2. 100 * ((k + 99) \div 100) >= k
    BY <1>1, RoundedUp
  <2>3. 100 * n >= k
    <3> HIDE DEF k
    <3> QED BY <2>1, <2>2, <1>1
  <2> QED
    BY <2>3, <1>1
<1> QED
  BY <1>2, <1>3

(* The active rows can be counted. *)
LEMMA Counted ==
  ASSUME NEW S \in SUBSET Products
  PROVE  IsFiniteSet(S) /\ Cardinality(S) \in 0..Cardinality(Products)
<1>1. IsFiniteSet(S) /\ Cardinality(S) <= Cardinality(Products)
  BY RefreshAssumption, FS_Subset
<1> QED
  BY <1>1, RefreshAssumption, FS_CardinalityType

(* A step that leaves the catalog and the clock alone and brings nobody to    *)
(* the deactivation keeps the found rows fresh.                               *)
LEMMA QuietStep ==
  ASSUME RefreshIInv, UNCHANGED <<catalogVars, now>>,
         \A r \in Refreshes : discoveredAt'[r] \in {discoveredAt[r], now},
         \A r \in Refreshes : phase'[r] = "deactivate" =>
           /\ phase[r] = "deactivate"
           /\ found'[r] = found[r] /\ discoveredAt'[r] = discoveredAt[r] /\ before'[r] = before[r]
  PROVE  FoundInThePast' /\ FoundStayFresh'
<1>1. now \in Nat /\ now' = now /\ lastSeen' = lastSeen /\ active' = active /\ behind' = behind
  BY RefreshAssumption DEF RefreshIInv, RefreshTypeOK, catalogVars
<1>2. FoundInThePast'
  BY <1>1 DEF RefreshIInv, FoundInThePast
<1>3. FoundStayFresh'
  BY <1>1 DEF RefreshIInv, FoundStayFresh, Soon
<1> QED
  BY <1>2, <1>3

(* A step of r that leaves nobody open, or r alone after a failed call, keeps *)
(* the count.                                                                *)
LEMMA OpenIsCounted ==
  ASSUME RefreshIInv, NEW r \in Refreshes, faults' \in Nat, faults <= faults',
         \A s \in LeftOpen' : s \in LeftOpen \/ (s = r /\ faults < faults')
  PROVE  ReturnedRefreshIsClosed'
<1>1. LeftOpen \subseteq Refreshes /\ LeftOpen' \subseteq Refreshes
  BY DEF LeftOpen
<1>2. IsFiniteSet(LeftOpen) /\ Cardinality(LeftOpen) \in Nat /\ Cardinality(LeftOpen) <= faults
  BY <1>1, RefreshAssumption, FS_Subset, FS_CardinalityType DEF RefreshIInv, ReturnedRefreshIsClosed
<1>3. faults \in Nat
  BY RefreshAssumption DEF RefreshIInv, RefreshTypeOK
<1>4. CASE faults < faults'
  <2>1. IsFiniteSet(LeftOpen \cup {r}) /\ Cardinality(LeftOpen \cup {r}) <= Cardinality(LeftOpen) + 1
    <3>1. \/ Cardinality(LeftOpen \cup {r}) = Cardinality(LeftOpen)
          \/ Cardinality(LeftOpen \cup {r}) = Cardinality(LeftOpen) + 1
      BY <1>2, FS_AddElement
    <3> QED
      BY <1>2, <3>1, FS_AddElement
  <2>2. LeftOpen' \subseteq LeftOpen \cup {r}
    OBVIOUS
  <2>3. Cardinality(LeftOpen') <= Cardinality(LeftOpen \cup {r})
    BY <2>1, <2>2, FS_Subset
  <2>4. Cardinality(LeftOpen') \in Nat /\ Cardinality(LeftOpen \cup {r}) \in Nat
    BY <2>1, <2>2, FS_Subset, FS_CardinalityType
  <2> QED
    BY <1>2, <1>3, <1>4, <2>1, <2>3, <2>4 DEF ReturnedRefreshIsClosed
<1>5. CASE ~(faults < faults')
  <2>1. LeftOpen' \subseteq LeftOpen
    BY <1>5
  <2>2. Cardinality(LeftOpen') <= Cardinality(LeftOpen) /\ Cardinality(LeftOpen') \in Nat
    BY <1>2, <2>1, FS_Subset, FS_CardinalityType
  <2> QED
    BY <1>2, <1>3, <2>2 DEF ReturnedRefreshIsClosed
<1> QED
  BY <1>4, <1>5

LEMMA InitIInv == Init => RefreshIInv
<1> SUFFICES ASSUME Init PROVE RefreshIInv
  OBVIOUS
<1>1. RefreshTypeOK
  BY RefreshAssumption, Counted DEF Init, RefreshTypeOK, Closed
<1>2. Verdicts
  BY DEF Init, Verdicts, OneRunning, OkRunHasOkSession, SessionAfterStart, StatsAfterSession, AnswerIsLast
<1>3. FoundInThePast /\ FoundStayFresh
  BY DEF Init, FoundInThePast, FoundStayFresh
<1>4. Endings
  BY DEF Init, Endings, EndsWithItsRun, FailsClosed
<1>5. ReturnedRefreshIsClosed
  BY FS_EmptySet, <1>1 DEF Init, ReturnedRefreshIsClosed, LeftOpen
<1> QED
  BY <1>1, <1>2, <1>3, <1>4, <1>5 DEF RefreshIInv, Verdicts, Endings

-----------------------------------------------------------------------------
(* The actions that open and close sessions and runs.                       *)

LEMMA StartRunIInv == ASSUME RefreshIInv, NEW r \in Refreshes, StartRun(r) PROVE RefreshIInv'
<1> USE RefreshAssumption
    DEF RefreshIInv, RefreshTypeOK, StartRun, Call, Goto, Committed, Outcome, sessionVars, localVars,
        catalogVars, Working, Over, Closed
<1>1. RefreshTypeOK'
  OBVIOUS
<1>2. Verdicts'
  BY DEF Verdicts, OneRunning, OkRunHasOkSession, SessionAfterStart, StatsAfterSession, AnswerIsLast
<1>3. FoundInThePast' /\ FoundStayFresh'
  BY QuietStep
<1>4. Endings'
  BY DEF Endings, EndsWithItsRun, FailsClosed, SessionAfterStart
<1>5. ReturnedRefreshIsClosed'
  <2>1. \A s \in LeftOpen' : s \in LeftOpen \/ (s = r /\ faults < faults')
    BY DEF LeftOpen
  <2>2. faults' \in Nat /\ faults <= faults'
    OBVIOUS
  <2> QED
    BY <2>1, <2>2, OpenIsCounted
<1> QED
  BY <1>1, <1>2, <1>3, <1>4, <1>5 DEF Verdicts, Endings

LEMMA StartRefusedIInv ==
  ASSUME RefreshIInv, NEW r \in Refreshes, StartRefused(r) \/ StartCollides(r) PROVE RefreshIInv'
<1> USE DEF RefreshIInv, RefreshTypeOK, StartRefused, StartCollides, Goto, sessionVars, localVars,
        catalogVars, Working, Over, Closed
<1>1. RefreshTypeOK'
  OBVIOUS
<1>2. Verdicts'
  BY DEF Verdicts, OneRunning, OkRunHasOkSession, SessionAfterStart, StatsAfterSession, AnswerIsLast
<1>3. FoundInThePast' /\ FoundStayFresh'
  BY QuietStep
<1>4. Endings'
  BY DEF Endings, EndsWithItsRun, FailsClosed
<1>5. ReturnedRefreshIsClosed'
  <2>1. \A s \in LeftOpen' : s \in LeftOpen \/ (s = r /\ faults < faults')
    BY DEF LeftOpen
  <2>2. faults' \in Nat /\ faults <= faults'
    OBVIOUS
  <2> QED
    BY <2>1, <2>2, OpenIsCounted
<1> QED
  BY <1>1, <1>2, <1>3, <1>4, <1>5 DEF Verdicts, Endings

LEMMA StartSessionIInv == ASSUME RefreshIInv, NEW r \in Refreshes, StartSession(r) PROVE RefreshIInv'
<1> USE RefreshAssumption
    DEF RefreshIInv, RefreshTypeOK, StartSession, Call, Goto, Committed, Outcome, sessionVars, localVars,
        catalogVars, Working, Over, Closed
<1>1. RefreshTypeOK'
  OBVIOUS
<1>2. \A s \in Refreshes : session'[s] = "running" => s = r \/ (session'[s] = session[s] /\ session' = session)
  BY DEF OthersRun, Young, Stale
<1>3. OneRunning'
  BY <1>2 DEF OneRunning
<1>4. OkRunHasOkSession' /\ SessionAfterStart' /\ StatsAfterSession' /\ AnswerIsLast'
  <2>1. \A s \in Refreshes : session[s] = "ok" => session'[s] = "ok"
    BY DEF SessionAfterStart, Stale
  <2>2. \A s \in Refreshes : session[s] = "none" /\ s # r => session'[s] = "none"
    BY DEF Stale
  <2> QED
    BY <2>1, <2>2 DEF OkRunHasOkSession, SessionAfterStart, StatsAfterSession, AnswerIsLast
<1>5. FoundInThePast' /\ FoundStayFresh'
  BY QuietStep
<1>6. Endings'
  BY DEF Endings, EndsWithItsRun, FailsClosed, SessionAfterStart, Stale
<1>7. ReturnedRefreshIsClosed'
  <2>1. \A s \in LeftOpen' : s \in LeftOpen \/ (s = r /\ faults < faults')
    BY DEF Stale, LeftOpen
  <2>2. faults' \in Nat /\ faults <= faults'
    OBVIOUS
  <2> QED
    BY <2>1, <2>2, OpenIsCounted
<1> QED
  BY <1>1, <1>3, <1>4, <1>5, <1>6, <1>7 DEF Endings

LEMMA CompleteIInv ==
  ASSUME RefreshIInv, NEW r \in Refreshes, CompleteWithRun(r) \/ CompleteStatistics(r) PROVE RefreshIInv'
<1> USE RefreshAssumption
    DEF RefreshIInv, RefreshTypeOK, CompleteWithRun, CompleteStatistics, CloseBoth, Return, Call, Goto,
        Committed, Outcome, sessionVars, localVars, catalogVars, Working, Over, Closed
<1>1. RefreshTypeOK'
  OBVIOUS
<1>2. OneRunning'
  BY DEF OneRunning
<1>3. OkRunHasOkSession' /\ SessionAfterStart' /\ StatsAfterSession' /\ AnswerIsLast'
  BY DEF OkRunHasOkSession, SessionAfterStart, StatsAfterSession, AnswerIsLast
<1>4. FoundInThePast' /\ FoundStayFresh'
  BY QuietStep
<1>5. Endings'
  BY DEF Endings, EndsWithItsRun, FailsClosed, StatsAfterSession
<1>6. ReturnedRefreshIsClosed'
  <2>1. \A s \in LeftOpen' : s \in LeftOpen \/ (s = r /\ faults < faults')
    BY DEF EndsWithItsRun, StatsAfterSession, LeftOpen
  <2>2. faults' \in Nat /\ faults <= faults'
    OBVIOUS
  <2> QED
    BY <2>1, <2>2, OpenIsCounted
<1> QED
  BY <1>1, <1>2, <1>3, <1>4, <1>5, <1>6 DEF Endings

LEMMA FailIInv ==
  ASSUME RefreshIInv, NEW r \in Refreshes, FailWithRun(r) \/ FailStatistics(r) PROVE RefreshIInv'
<1> USE RefreshAssumption
    DEF RefreshIInv, RefreshTypeOK, FailWithRun, FailStatistics, CloseBoth, Return, Call, Goto,
        Committed, Outcome, sessionVars, localVars, catalogVars, Working, Over, Closed
<1>1. RefreshTypeOK'
  OBVIOUS
<1>2. OneRunning'
  BY DEF OneRunning
<1>3. OkRunHasOkSession' /\ SessionAfterStart' /\ StatsAfterSession' /\ AnswerIsLast'
  BY DEF OkRunHasOkSession, SessionAfterStart, StatsAfterSession, AnswerIsLast
<1>4. FoundInThePast' /\ FoundStayFresh'
  BY QuietStep
<1>5. Endings'
  BY DEF Endings, EndsWithItsRun, FailsClosed
<1>6. ReturnedRefreshIsClosed'
  <2>1. \A s \in LeftOpen' : s \in LeftOpen \/ (s = r /\ faults < faults')
    BY DEF EndsWithItsRun, FailsClosed, LeftOpen
  <2>2. faults' \in Nat /\ faults <= faults'
    OBVIOUS
  <2> QED
    BY <2>1, <2>2, OpenIsCounted
<1> QED
  BY <1>1, <1>2, <1>3, <1>4, <1>5, <1>6 DEF Endings

LEMMA CancelIInv ==
  ASSUME RefreshIInv, NEW r \in Refreshes,
         CancelledCall(r) \/ UndoRefresh(r) \/ UndoStatistics(r)
  PROVE  RefreshIInv'
<1> USE RefreshAssumption
    DEF RefreshIInv, RefreshTypeOK, CancelledCall, UndoRefresh, UndoStatistics,
        Call, Goto, Committed, Outcome, sessionVars, localVars, catalogVars, Working, Closing, Over, Closed
<1>1. RefreshTypeOK'
  OBVIOUS
<1>2. OneRunning'
  BY DEF OneRunning
<1>3. OkRunHasOkSession' /\ SessionAfterStart' /\ StatsAfterSession' /\ AnswerIsLast'
  BY DEF OkRunHasOkSession, SessionAfterStart, StatsAfterSession, AnswerIsLast
<1>4. FoundInThePast' /\ FoundStayFresh'
  BY QuietStep
<1>5. Endings'
  BY DEF Endings, EndsWithItsRun, FailsClosed
<1>6. ReturnedRefreshIsClosed'
  <2>1. \A s \in LeftOpen' : s \in LeftOpen \/ (s = r /\ faults < faults')
    BY DEF LeftOpen
  <2>2. faults' \in Nat /\ faults <= faults'
    OBVIOUS
  <2> QED
    BY <2>1, <2>2, OpenIsCounted
<1> QED
  BY <1>1, <1>2, <1>3, <1>4, <1>5, <1>6 DEF Endings
-----------------------------------------------------------------------------
(* The actions that count, discover, upsert and deactivate.                 *)

LEMMA CountIInv == ASSUME RefreshIInv, NEW r \in Refreshes, GetActiveCount(r) PROVE RefreshIInv'
<1> USE RefreshAssumption
    DEF RefreshIInv, RefreshTypeOK, GetActiveCount, Call, Goto, sessionVars, localVars,
        catalogVars, Working, Over, Closed
<1>1. RefreshTypeOK'
  BY Counted
<1>2. Verdicts'
  BY DEF Verdicts, OneRunning, OkRunHasOkSession, SessionAfterStart, StatsAfterSession, AnswerIsLast
<1>3. FoundInThePast' /\ FoundStayFresh'
  BY QuietStep
<1>4. Endings'
  BY DEF Endings, EndsWithItsRun, FailsClosed
<1>5. ReturnedRefreshIsClosed'
  <2>1. \A s \in LeftOpen' : s \in LeftOpen \/ (s = r /\ faults < faults')
    BY DEF LeftOpen
  <2>2. faults' \in Nat /\ faults <= faults'
    OBVIOUS
  <2> QED
    BY <2>1, <2>2, OpenIsCounted
<1> QED
  BY <1>1, <1>2, <1>3, <1>4, <1>5 DEF Verdicts, Endings

LEMMA DiscoverIInv == ASSUME RefreshIInv, NEW r \in Refreshes, Discover(r) PROVE RefreshIInv'
<1> USE DEF RefreshIInv, RefreshTypeOK, Discover, Goto, sessionVars, localVars,
        catalogVars, Working, Over, Closed
<1>1. RefreshTypeOK'
  OBVIOUS
<1>2. Verdicts'
  BY DEF Verdicts, OneRunning, OkRunHasOkSession, SessionAfterStart, StatsAfterSession, AnswerIsLast
<1>3. FoundInThePast' /\ FoundStayFresh'
  BY QuietStep
<1>4. Endings'
  BY DEF Endings, EndsWithItsRun, FailsClosed
<1>5. ReturnedRefreshIsClosed'
  <2>1. \A s \in LeftOpen' : s \in LeftOpen \/ (s = r /\ faults < faults')
    BY DEF LeftOpen
  <2>2. faults' \in Nat /\ faults <= faults'
    OBVIOUS
  <2> QED
    BY <2>1, <2>2, OpenIsCounted
<1> QED
  BY <1>1, <1>2, <1>3, <1>4, <1>5 DEF Verdicts, Endings

LEMMA UpsertIInv == ASSUME RefreshIInv, NEW r \in Refreshes, UpsertDiscovered(r) PROVE RefreshIInv'
<1> USE RefreshAssumption
    DEF RefreshIInv, RefreshTypeOK, UpsertDiscovered, UpsertRows, Call, Goto, Committed, Outcome,
        sessionVars, catalogVars
<1>0. \A full \in BOOLEAN : Judged(r, full) \in {"complete", "fail", "deactivate"}
  BY DEF Judged
<1>1. RefreshTypeOK'
  <2>1. now \in Nat /\ discoveredAt[r] \in 0..now /\ now - discoveredAt[r] \in 0..MaxTime
    BY DEF FoundInThePast
  <2> QED
    <3>1. active' \subseteq Products /\ seenBy' \in [Products -> Refreshes \cup {NoRefresh}]
      OBVIOUS
    <3>2. lastSeen' \in [Products -> 0..MaxTime] /\ behind' \in 0..MaxTime
      BY <2>1
    <3>3. phase' \in [Refreshes -> Working \cup Over \cup {"idle"}] /\ faults' \in 0..MaxFaults
      BY <1>0 DEF Working, Over
    <3> QED
      BY <3>1, <3>2, <3>3 DEF Closed, localVars
<1>2. Verdicts'
  BY <1>0 DEF Verdicts, OneRunning, OkRunHasOkSession, SessionAfterStart, StatsAfterSession, AnswerIsLast
<1>3. FoundInThePast'
  BY DEF FoundInThePast, localVars
<1>4. FoundStayFresh'
  <2> SUFFICES ASSUME NEW s \in Refreshes, phase'[s] = "deactivate"
               PROVE  /\ \A p \in found[s] : discoveredAt[s] <= lastSeen'[p] + behind'
                      /\ now + behind' <= discoveredAt[s] + Grace => found[s] \subseteq active'
                      /\ 100 * Cardinality(found[s]) >= RatioPercent * before[s]
    BY DEF FoundStayFresh, Soon, localVars
  <2>1. active \subseteq active' /\ behind <= behind'
    OBVIOUS
  <2>2. \A p \in Products : lastSeen'[p] = lastSeen[p] \/ now <= lastSeen'[p] + behind'
    BY DEF FoundInThePast
  <2>3. discoveredAt[s] <= now /\ now \in Nat /\ discoveredAt[s] \in Nat /\ behind \in Nat /\ behind' \in Nat
    BY <1>1 DEF FoundInThePast
  <2>4. CASE s = r
    <3>1. UpsertRows(r) /\ \E full \in BOOLEAN : phase'[r] = Judged(r, full)
      <4>1. PICK o \in Outcome, full \in BOOLEAN :
              /\ IF Committed(o) THEN UpsertRows(r) ELSE UNCHANGED catalogVars
              /\ Call(r, o, Judged(r, full), "fail")
        OBVIOUS
      <4>2. o = "ok"
        BY <2>4, <4>1
      <4> QED
        BY <4>1, <4>2
    <3>2. ~Unsafe(Cardinality(found[r]), before[r])
      BY <2>4, <3>1 DEF Judged
    <3>3. Cardinality(found[r]) \in Nat /\ before[r] \in Nat
      BY Counted
    <3>4. 100 * Cardinality(found[r]) >= RatioPercent * before[r]
      BY <3>2, <3>3, SafeShare
    <3>5. found[r] \subseteq active' /\ \A p \in found[r] : lastSeen'[p] = discoveredAt[r]
      <4>1. found[r] \subseteq Products
        OBVIOUS
      <4> QED
        BY <3>1, <4>1
    <3> QED
      BY <2>3, <2>4, <3>4, <3>5
  <2>5. CASE s # r
    <3>1. phase[s] = "deactivate"
      BY <2>5
    <3>2. /\ \A p \in found[s] : p \in Products /\ discoveredAt[s] <= lastSeen[p] + behind
          /\ now + behind <= discoveredAt[s] + Grace => found[s] \subseteq active
          /\ 100 * Cardinality(found[s]) >= RatioPercent * before[s]
      BY <3>1 DEF FoundStayFresh, Soon
    <3>3. \A p \in Products : lastSeen[p] \in Nat /\ lastSeen'[p] \in Nat
      BY <1>1
    <3>4. \A p \in found[s] : discoveredAt[s] <= lastSeen'[p] + behind'
      BY <2>1, <2>2, <2>3, <3>2, <3>3
    <3> QED
      BY <2>1, <2>3, <3>2, <3>4
  <2> QED
    BY <2>4, <2>5
<1>5. Endings'
  BY <1>0 DEF Endings, EndsWithItsRun, FailsClosed
<1>6. ReturnedRefreshIsClosed'
  <2>1. \A s \in LeftOpen' : s \in LeftOpen \/ (s = r /\ faults < faults')
    BY <1>0 DEF LeftOpen
  <2>2. faults' \in Nat /\ faults <= faults'
    OBVIOUS
  <2> QED
    BY <2>1, <2>2, OpenIsCounted
<1> QED
  BY <1>1, <1>2, <1>3, <1>4, <1>5, <1>6 DEF Verdicts, Endings

LEMMA DeactivateIInv == ASSUME RefreshIInv, NEW r \in Refreshes, DeactivateMissing(r) PROVE RefreshIInv'
<1> USE RefreshAssumption
    DEF RefreshIInv, RefreshTypeOK, DeactivateMissing, Call, Goto, Committed, Outcome,
        sessionVars, localVars
<1>1. RefreshTypeOK'
  BY DEF Working, Over, Closed
<1>2. Verdicts'
  BY DEF Verdicts, OneRunning, OkRunHasOkSession, SessionAfterStart, StatsAfterSession, AnswerIsLast
<1>3. FoundInThePast'
  BY DEF FoundInThePast
<1>4. FoundStayFresh'
  <2> SUFFICES ASSUME NEW s \in Refreshes, phase'[s] = "deactivate"
               PROVE  /\ \A p \in found[s] : discoveredAt[s] <= lastSeen[p] + behind
                      /\ Soon(s) => found[s] \subseteq active'
                      /\ 100 * Cardinality(found[s]) >= RatioPercent * before[s]
    BY DEF FoundStayFresh, Soon
  <2>1. phase[s] = "deactivate"
    OBVIOUS
  <2>2. ASSUME Soon(s), NEW p \in found[s] PROVE p \in active'
    <3>1. p \in active /\ discoveredAt[s] <= lastSeen[p] + behind
      BY <2>1, <2>2 DEF FoundStayFresh
    <3>2. p \notin Missing(r)
      BY <2>2, <3>1 DEF Missing, Soon
    <3> QED
      BY <3>1, <3>2
  <2> QED
    BY <2>1, <2>2 DEF FoundStayFresh
<1>5. Endings'
  BY DEF Endings, EndsWithItsRun, FailsClosed
<1>6. ReturnedRefreshIsClosed'
  <2>1. \A s \in LeftOpen' : s \in LeftOpen \/ (s = r /\ faults < faults')
    BY DEF LeftOpen
  <2>2. faults' \in Nat /\ faults <= faults'
    OBVIOUS
  <2> QED
    BY <2>1, <2>2, OpenIsCounted
<1> QED
  BY <1>1, <1>2, <1>3, <1>4, <1>5, <1>6 DEF Verdicts, Endings

LEMMA TickIInv == ASSUME RefreshIInv, Tick PROVE RefreshIInv'
<1> USE RefreshAssumption DEF RefreshIInv, RefreshTypeOK, Tick, sessionVars, localVars, catalogVars
<1>1. RefreshTypeOK'
  OBVIOUS
<1>2. Verdicts'
  BY DEF Verdicts, OneRunning, OkRunHasOkSession, SessionAfterStart, StatsAfterSession, AnswerIsLast
<1>3. FoundInThePast' /\ FoundStayFresh'
  BY DEF FoundInThePast, FoundStayFresh, Soon
<1>4. Endings'
  BY DEF Endings, EndsWithItsRun, FailsClosed
<1>5. ReturnedRefreshIsClosed'
  BY DEF ReturnedRefreshIsClosed, LeftOpen
<1> QED
  BY <1>1, <1>2, <1>3, <1>4, <1>5 DEF Verdicts, Endings
-----------------------------------------------------------------------------

LEMMA NextIInv == ASSUME RefreshIInv, [Next]_vars PROVE RefreshIInv'
<1>1. CASE UNCHANGED vars
  BY <1>1 DEF vars, sessionVars, localVars, catalogVars, RefreshIInv, RefreshTypeOK, OneRunning,
              OkRunHasOkSession, SessionAfterStart, StatsAfterSession, AnswerIsLast, FoundInThePast,
              FoundStayFresh, EndsWithItsRun, FailsClosed, ReturnedRefreshIsClosed, LeftOpen,
              Soon
<1>2. ASSUME NEW r \in Refreshes, RefreshStep(r) PROVE RefreshIInv'
  BY <1>2, StartRunIInv, StartRefusedIInv, StartSessionIInv, CompleteIInv, FailIInv, CancelIInv,
     CountIInv, DiscoverIInv, UpsertIInv, DeactivateIInv DEF RefreshStep
<1>3. CASE Tick
  BY <1>3, TickIInv
<1> QED
  BY <1>1, <1>2, <1>3 DEF Next, Terminated

(* RefreshIInv holds in every reachable state. *)
THEOREM RefreshInductive == Spec => []RefreshIInv
  BY InitIInv, NextIInv, PTL DEF Spec

(* One running session at most, and no run says ok for a session that does    *)
(* not (product_catalog_refresh_start, _complete_with_run).                   *)
THEOREM RefreshSafety == Spec => [](OneRunning /\ OkRunHasOkSession)
<1>1. RefreshIInv => OneRunning /\ OkRunHasOkSession
  BY DEF RefreshIInv
<1> QED
  BY <1>1, RefreshInductive, PTL

(* No more refreshes return with their session, or the run of a session that  *)
(* was not given up, still open than calls have failed: a refresh none of     *)
(* whose calls fails closes both (product_catalog_refresh_complete_with_run,  *)
(* _fail_with_run).                                                           *)
THEOREM RefreshReturnsClosed == Spec => []ReturnedRefreshIsClosed
  BY RefreshInductive, PTL DEF RefreshIInv

(* A closed session keeps its verdict: every routine that writes one asks     *)
(* for a running session.                                                     *)
THEOREM SessionsStayClosed == Spec => SessionsAreFinal
<1>1. ASSUME RefreshIInv, [Next]_vars, NEW r \in Refreshes, session[r] \in Closed
      PROVE  session'[r] = session[r]
  <2> USE <1>1 DEF Closed, RefreshIInv, RefreshTypeOK
  <2>1. CASE UNCHANGED vars \/ Tick
    BY <2>1 DEF vars, sessionVars, Tick
  <2>2. ASSUME NEW s \in Refreshes, StartSession(s) PROVE session'[r] = session[r]
    BY <2>2 DEF StartSession, SessionAfterStart, Stale
  <2>3. ASSUME NEW s \in Refreshes, CompleteWithRun(s) \/ FailWithRun(s) \/ UndoRefresh(s)
        PROVE  session'[r] = session[r]
    BY <2>3 DEF CompleteWithRun, FailWithRun, UndoRefresh, CloseBoth
  <2>4. ASSUME NEW s \in Refreshes,
               \/ StartRun(s) \/ StartRefused(s) \/ StartCollides(s) \/ GetActiveCount(s) \/ Discover(s)
               \/ UpsertDiscovered(s) \/ DeactivateMissing(s) \/ CompleteStatistics(s) \/ FailStatistics(s)
               \/ CancelledCall(s) \/ UndoStatistics(s)
        PROVE  session'[r] = session[r]
    BY <2>4 DEF StartRun, StartRefused, StartCollides, GetActiveCount, Discover, UpsertDiscovered,
                DeactivateMissing, CompleteStatistics, FailStatistics, CancelledCall, UndoStatistics,
                sessionVars
  <2> QED
    BY <2>1, <2>2, <2>3, <2>4 DEF Next, RefreshStep, Terminated
<1>2. RefreshIInv /\ [Next]_vars =>
        [\A r \in Refreshes : session[r] \in Closed => session'[r] = session[r]]_vars
  BY <1>1
<1> QED
  BY <1>2, RefreshInductive, PTL DEF Spec, SessionsAreFinal

(* The deactivation of a refresh within the grace period of its discovery,    *)
(* less the longest time an upsert came after its own discovery, spares what  *)
(* the refresh found, and so the share of the catalog that the safety policy  *)
(* asked for, however many other refreshes are at work.                       *)
THEOREM DeactivationIsSafe == Spec => DeactivationKeepsTheFound
<1>1. ASSUME RefreshIInv, RefreshIInv', [Next]_vars, NEW r \in Refreshes,
             phase[r] = "deactivate", active' # active, Soon(r)
      PROVE  found[r] \subseteq active' /\ 100 * Cardinality(active') >= RatioPercent * before[r]
  <2> USE RefreshAssumption, <1>1 DEF RefreshIInv, RefreshTypeOK
  <2>1. found[r] \subseteq active /\ \A p \in found[r] : discoveredAt[r] <= lastSeen[p] + behind
    BY DEF FoundStayFresh
  <2>2. found[r] \subseteq active'
    <3>1. ASSUME NEW s \in Refreshes, DeactivateMissing(s) PROVE found[r] \subseteq active'
      <4>1. \A p \in found[r] : p \notin Missing(s)
        BY <2>1 DEF Missing, Soon
      <4> QED
        BY <2>1, <3>1, <4>1 DEF DeactivateMissing
    <3>2. ASSUME NEW s \in Refreshes, UpsertDiscovered(s) PROVE active \subseteq active'
      BY <3>2 DEF UpsertDiscovered, UpsertRows, catalogVars
    <3>3. ASSUME NEW s \in Refreshes,
                 \/ StartRun(s) \/ StartRefused(s) \/ StartSession(s) \/ StartCollides(s)
                 \/ GetActiveCount(s) \/ Discover(s) \/ CompleteWithRun(s) \/ CompleteStatistics(s)
                 \/ FailWithRun(s) \/ FailStatistics(s) \/ CancelledCall(s) \/ UndoRefresh(s)
                 \/ UndoStatistics(s)
          PROVE  active' = active
      BY <3>3 DEF StartRun, StartRefused, StartSession, StartCollides, GetActiveCount, Discover,
                  CompleteWithRun, CompleteStatistics, FailWithRun, FailStatistics, CancelledCall,
                  UndoRefresh, UndoStatistics, catalogVars
    <3>4. ~Tick /\ ~UNCHANGED vars
      BY DEF Tick, vars, catalogVars
    <3> QED
      BY <2>1, <3>1, <3>2, <3>3, <3>4 DEF Next, RefreshStep, Terminated
  <2>3. Cardinality(found[r]) <= Cardinality(active')
    BY <2>2, Counted, FS_Subset
  <2>4. Cardinality(found[r]) \in Nat /\ Cardinality(active') \in Nat
    BY Counted
  <2>5. 100 * Cardinality(found[r]) >= RatioPercent * before[r]
    BY DEF FoundStayFresh
  <2>6. RatioPercent * before[r] \in Nat
    BY RefreshAssumption
  <2> QED
    BY <2>2, <2>3, <2>4, <2>5, <2>6
<1>2. RefreshIInv /\ RefreshIInv' /\ [Next]_vars =>
        [\A r \in Refreshes :
           phase[r] = "deactivate" /\ active' # active /\ Soon(r) =>
             /\ found[r] \subseteq active'
             /\ 100 * Cardinality(active') >= RatioPercent * before[r]]_vars
  BY <1>1
<1> QED
  BY <1>2, RefreshInductive, PTL DEF Spec, DeactivationKeepsTheFound
=============================================================================
