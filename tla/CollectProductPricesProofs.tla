---------------------- MODULE CollectProductPricesProofs ----------------------
(***************************************************************************)
(* Proofs about QueueDrain, and about CollectProductPrices, which drives   *)
(* it, for every set of rows, every MaxAttempts, BatchSize and             *)
(* MaxConcurrency and every number of failed calls.                        *)
(*                                                                         *)
(* The first part shows that each step of the queue keeps its inductive    *)
(* invariant IInv, conjunct by conjunct, and that the queue implements its *)
(* contract.  The second part is about the use case.  The drain's steps    *)
(* keep IInv because they are steps of QueueDrain; every other step of the *)
(* use case touches the queue only from outside (OutsideIInv).  Each lemma *)
(* then shows that one step keeps CollectIInv, conjunct by conjunct.       *)
(* The last part is the refinement of LeaseContract: a use case with one   *)
(* of the steps above is one step of the contract, or none.                *)
(***************************************************************************)
EXTENDS CollectProductPrices, FiniteSetTheorems, TLAPS

-----------------------------------------------------------------------------
(* The queue.                                                                 *)

LEMMA InitIInv == Init => IInv
<1> USE QueueAssumption DEF Init, Fresh
<1>1. Init => TypeOK
  <2> SUFFICES ASSUME Init PROVE TypeOK
    OBVIOUS
  <2>1. attempt \in [Items -> 0..(MaxAttempts + 2)] /\ copy \in [Items -> 0..MaxAttempts]
    OBVIOUS
  <2>2. status \in [Items -> Status] /\ pc \in [Items -> Steps \cup Idle]
    BY DEF Status, Outstanding, Idle
  <2>3. faults \in 0..MaxFaults /\ visits \in [Items -> Nat]
    OBVIOUS
  <2> QED
    BY <2>1, <2>2, <2>3 DEF TypeOK, Ended, CatalogStatus
<1>2. Init => HandlerOwnsRow /\ HandlerSteps /\ RowAttempts /\ VisitsPaid
  BY DEF HandlerOwnsRow, HandlerSteps, RowAttempts, VisitsPaid, Busy, Idle, Outstanding
<1>3. Init => ReturnsOnlyWhenSettled /\ TerminalRowsAreAccountedFor
  BY DEF ReturnsOnlyWhenSettled, TerminalRowsAreAccountedFor, Terminal
<1> QED
  BY <1>1, <1>2, <1>3 DEF IInv

LEMMA ReapIInv == ASSUME IInv, Reap PROVE IInv'
<1> USE QueueAssumption
    DEF IInv, TypeOK, Reap, ReapRows, ReapedRows, LoopCall, Committed, Outcome,
        rowVars, loopVars, sinkVars, Busy, Idle, Steps, Outstanding, Terminal, Status, Ended
<1>1. TypeOK'
  <2> PICK o \in Outcome : /\ IF Committed(o) THEN ReapRows ELSE UNCHANGED rowVars
                           /\ LoopCall(o, "reserve")
    OBVIOUS
  <2>1. status' \in [Items -> Status] /\ due' \subseteq Items /\ attempt' = attempt
    OBVIOUS
  <2>2. expired' \subseteq {i \in Items : status'[i] = "reserved"}
    BY <2>1
  <2>3. faults' \in 0..MaxFaults /\ loop' \in {"reserve", "failed"}
    OBVIOUS
  <2> QED
    BY <2>1, <2>2, <2>3
<1>2. HandlerOwnsRow'
  BY DEF HandlerOwnsRow
<1>3. HandlerSteps'
  BY DEF HandlerSteps, HandlerOwnsRow
<1>4. RowAttempts'
  BY DEF RowAttempts, HandlerSteps, HandlerOwnsRow
<1>5. VisitsPaid'
  BY DEF VisitsPaid, HandlerSteps, HandlerOwnsRow
<1>6. ReturnsOnlyWhenSettled'
  BY DEF ReturnsOnlyWhenSettled
<1>7. TerminalRowsAreAccountedFor'
  BY DEF TerminalRowsAreAccountedFor, HandlerSteps
<1> QED
  BY <1>1, <1>2, <1>3, <1>4, <1>5, <1>6, <1>7

LEMMA SkipReapIInv == ASSUME IInv, SkipReap PROVE IInv'
<1> USE QueueAssumption
    DEF IInv, TypeOK, SkipReap,
        rowVars, loopVars, sinkVars, Busy, Idle, Steps, Outstanding, Terminal, Status, Ended
<1>1. TypeOK'
  BY DEF HandlerSteps, RowAttempts
<1>2. HandlerOwnsRow'
  BY DEF HandlerOwnsRow
<1>3. HandlerSteps'
  BY DEF HandlerSteps, HandlerOwnsRow
<1>4. RowAttempts'
  BY DEF RowAttempts, HandlerSteps, HandlerOwnsRow
<1>5. VisitsPaid'
  BY DEF VisitsPaid, HandlerSteps, HandlerOwnsRow
<1>6. ReturnsOnlyWhenSettled'
  BY DEF ReturnsOnlyWhenSettled
<1>7. TerminalRowsAreAccountedFor'
  BY DEF TerminalRowsAreAccountedFor, HandlerSteps
<1> QED
  BY <1>1, <1>2, <1>3, <1>4, <1>5, <1>6, <1>7

LEMMA CheckOutstandingIInv == ASSUME IInv, CheckOutstanding PROVE IInv'
<1> USE QueueAssumption
    DEF IInv, TypeOK, CheckOutstanding, HasOutstanding, LoopCall,
        rowVars, loopVars, sinkVars, Busy, Idle, Steps, Outstanding, Terminal, Status, Ended
<1>1. TypeOK'
  BY DEF HandlerSteps, RowAttempts
<1>2. HandlerOwnsRow'
  BY DEF HandlerOwnsRow
<1>3. HandlerSteps'
  BY DEF HandlerSteps, HandlerOwnsRow
<1>4. RowAttempts'
  BY DEF RowAttempts, HandlerSteps, HandlerOwnsRow
<1>5. VisitsPaid'
  BY DEF VisitsPaid, HandlerSteps, HandlerOwnsRow
<1>6. ReturnsOnlyWhenSettled'
  BY DEF ReturnsOnlyWhenSettled
<1>7. TerminalRowsAreAccountedFor'
  BY DEF TerminalRowsAreAccountedFor, HandlerSteps
<1> QED
  BY <1>1, <1>2, <1>3, <1>4, <1>5, <1>6, <1>7

LEMMA JoinIInv == ASSUME IInv, Join PROVE IInv'
<1> USE QueueAssumption
    DEF IInv, TypeOK, Join, HandlersJoined,
        rowVars, loopVars, sinkVars, Busy, Idle, Steps, Outstanding, Terminal, Status, Ended
<1>1. TypeOK'
  BY DEF HandlerSteps, RowAttempts
<1>2. HandlerOwnsRow'
  BY DEF HandlerOwnsRow
<1>3. HandlerSteps'
  BY DEF HandlerSteps, HandlerOwnsRow
<1>4. RowAttempts'
  BY DEF RowAttempts, HandlerSteps, HandlerOwnsRow
<1>5. VisitsPaid'
  BY DEF VisitsPaid, HandlerSteps, HandlerOwnsRow
<1>6. ReturnsOnlyWhenSettled'
  BY DEF ReturnsOnlyWhenSettled
<1>7. TerminalRowsAreAccountedFor'
  BY DEF TerminalRowsAreAccountedFor, HandlerSteps
<1> QED
  BY <1>1, <1>2, <1>3, <1>4, <1>5, <1>6, <1>7

LEMMA ObserveCancelIInv == ASSUME IInv, ObserveCancel PROVE IInv'
<1> USE QueueAssumption
    DEF IInv, TypeOK, ObserveCancel,
        rowVars, loopVars, sinkVars, Busy, Idle, Steps, Outstanding, Terminal, Status, Ended
<1>1. TypeOK'
  BY DEF HandlerSteps, RowAttempts
<1>2. HandlerOwnsRow'
  BY DEF HandlerOwnsRow
<1>3. HandlerSteps'
  BY DEF HandlerSteps, HandlerOwnsRow
<1>4. RowAttempts'
  BY DEF RowAttempts, HandlerSteps, HandlerOwnsRow
<1>5. VisitsPaid'
  BY DEF VisitsPaid, HandlerSteps, HandlerOwnsRow
<1>6. ReturnsOnlyWhenSettled'
  BY DEF ReturnsOnlyWhenSettled
<1>7. TerminalRowsAreAccountedFor'
  BY DEF TerminalRowsAreAccountedFor, HandlerSteps
<1> QED
  BY <1>1, <1>2, <1>3, <1>4, <1>5, <1>6, <1>7

LEMMA StartIInv == ASSUME IInv, NEW i \in Items, Start(i) PROVE IInv'
<1> USE QueueAssumption
    DEF IInv, TypeOK, Start,
        rowVars, loopVars, sinkVars, Busy, Idle, Steps, Outstanding, Terminal, Status, Ended
<1>1. TypeOK'
  BY DEF HandlerSteps, RowAttempts
<1>2. HandlerOwnsRow'
  BY DEF HandlerOwnsRow
<1>3. HandlerSteps'
  BY DEF HandlerSteps, HandlerOwnsRow
<1>4. RowAttempts'
  BY DEF RowAttempts, HandlerSteps, HandlerOwnsRow
<1>5. VisitsPaid'
  BY DEF VisitsPaid, HandlerSteps, HandlerOwnsRow
<1>6. ReturnsOnlyWhenSettled'
  BY DEF ReturnsOnlyWhenSettled
<1>7. TerminalRowsAreAccountedFor'
  BY DEF TerminalRowsAreAccountedFor, HandlerSteps
<1> QED
  BY <1>1, <1>2, <1>3, <1>4, <1>5, <1>6, <1>7

LEMMA ExtractIInv == ASSUME IInv, NEW i \in Items, Extract(i) PROVE IInv'
<1> USE QueueAssumption
    DEF IInv, TypeOK, Extract, FailurePath,
        rowVars, loopVars, sinkVars, Busy, Idle, Steps, Outstanding, Terminal, Status, Ended
<1>1. TypeOK'
  BY DEF HandlerSteps, RowAttempts
<1>2. HandlerOwnsRow'
  BY DEF HandlerOwnsRow
<1>3. HandlerSteps'
  BY DEF HandlerSteps, HandlerOwnsRow
<1>4. RowAttempts'
  BY DEF RowAttempts, HandlerSteps, HandlerOwnsRow
<1>5. VisitsPaid'
  BY DEF VisitsPaid, HandlerSteps, HandlerOwnsRow
<1>6. ReturnsOnlyWhenSettled'
  BY DEF ReturnsOnlyWhenSettled
<1>7. TerminalRowsAreAccountedFor'
  BY DEF TerminalRowsAreAccountedFor, HandlerSteps
<1> QED
  BY <1>1, <1>2, <1>3, <1>4, <1>5, <1>6, <1>7

LEMMA StoreObservationIInv == ASSUME IInv, NEW i \in Items, StoreObservation(i) PROVE IInv'
<1> USE QueueAssumption
    DEF IInv, TypeOK, StoreObservation, Call, Thrown, FailurePath, Committed, Outcome,
        rowVars, loopVars, sinkVars, Busy, Idle, Steps, Outstanding, Terminal, Status, Ended
<1>1. TypeOK'
  BY DEF HandlerSteps, RowAttempts
<1>2. HandlerOwnsRow'
  BY DEF HandlerOwnsRow
<1>3. HandlerSteps'
  BY DEF HandlerSteps, HandlerOwnsRow
<1>4. RowAttempts'
  BY DEF RowAttempts, HandlerSteps, HandlerOwnsRow
<1>5. VisitsPaid'
  BY DEF VisitsPaid, HandlerSteps, HandlerOwnsRow
<1>6. ReturnsOnlyWhenSettled'
  BY DEF ReturnsOnlyWhenSettled
<1>7. TerminalRowsAreAccountedFor'
  BY DEF TerminalRowsAreAccountedFor, HandlerSteps
<1> QED
  BY <1>1, <1>2, <1>3, <1>4, <1>5, <1>6, <1>7

LEMMA InsertCrawlErrorIInv == ASSUME IInv, NEW i \in Items, InsertCrawlError(i) PROVE IInv'
<1> USE QueueAssumption
    DEF IInv, TypeOK, InsertCrawlError, Call, Thrown, FailurePath, Committed, Outcome,
        rowVars, loopVars, sinkVars, Busy, Idle, Steps, Outstanding, Terminal, Status, Ended
<1>1. TypeOK'
  BY DEF HandlerSteps, RowAttempts
<1>2. HandlerOwnsRow'
  BY DEF HandlerOwnsRow
<1>3. HandlerSteps'
  BY DEF HandlerSteps, HandlerOwnsRow
<1>4. RowAttempts'
  BY DEF RowAttempts, HandlerSteps, HandlerOwnsRow
<1>5. VisitsPaid'
  BY DEF VisitsPaid, HandlerSteps, HandlerOwnsRow
<1>6. ReturnsOnlyWhenSettled'
  BY DEF ReturnsOnlyWhenSettled
<1>7. TerminalRowsAreAccountedFor'
  BY DEF TerminalRowsAreAccountedFor, HandlerSteps
<1> QED
  BY <1>1, <1>2, <1>3, <1>4, <1>5, <1>6, <1>7

LEMMA EnqueueDiscoveredIInv == ASSUME IInv, NEW i \in Items, EnqueueDiscovered(i) PROVE IInv'
<1> USE QueueAssumption
    DEF IInv, TypeOK, EnqueueDiscovered, InsertRows, Call, Thrown, FailurePath, Committed, Outcome,
        rowVars, loopVars, sinkVars, Busy, Idle, Steps, Outstanding, Terminal, Status, Ended
<1>1. TypeOK'
  BY DEF HandlerSteps, RowAttempts
<1>2. HandlerOwnsRow'
  BY DEF HandlerOwnsRow
<1>3. HandlerSteps'
  BY DEF HandlerSteps, HandlerOwnsRow
<1>4. RowAttempts'
  BY DEF RowAttempts, HandlerSteps, HandlerOwnsRow
<1>5. VisitsPaid'
  BY DEF VisitsPaid, HandlerSteps, HandlerOwnsRow
<1>6. ReturnsOnlyWhenSettled'
  BY DEF ReturnsOnlyWhenSettled
<1>7. TerminalRowsAreAccountedFor'
  BY DEF TerminalRowsAreAccountedFor, HandlerSteps
<1> QED
  BY <1>1, <1>2, <1>3, <1>4, <1>5, <1>6, <1>7

LEMMA OnItemSucceededIInv == ASSUME IInv, NEW i \in Items, OnItemSucceeded(i) PROVE IInv'
<1> USE QueueAssumption
    DEF IInv, TypeOK, OnItemSucceeded, CatalogCallback, Call, Thrown, FailurePath, Committed, Outcome,
        rowVars, loopVars, sinkVars, Busy, Idle, Steps, Outstanding, Terminal, Status, Ended
<1>1. TypeOK'
  BY DEF HandlerSteps, RowAttempts, CatalogStatus
<1>2. HandlerOwnsRow'
  BY DEF HandlerOwnsRow
<1>3. HandlerSteps'
  BY DEF HandlerSteps, HandlerOwnsRow
<1>4. RowAttempts'
  BY DEF RowAttempts, HandlerSteps, HandlerOwnsRow
<1>5. VisitsPaid'
  BY DEF VisitsPaid, HandlerSteps, HandlerOwnsRow
<1>6. ReturnsOnlyWhenSettled'
  BY DEF ReturnsOnlyWhenSettled
<1>7. TerminalRowsAreAccountedFor'
  BY DEF TerminalRowsAreAccountedFor, HandlerSteps
<1> QED
  BY <1>1, <1>2, <1>3, <1>4, <1>5, <1>6, <1>7

LEMMA OnItemDeadIInv == ASSUME IInv, NEW i \in Items, OnItemDead(i) PROVE IInv'
<1> USE QueueAssumption
    DEF IInv, TypeOK, OnItemDead, CatalogCallback, Call, Thrown, FailurePath, Committed, Outcome,
        rowVars, loopVars, sinkVars, Busy, Idle, Steps, Outstanding, Terminal, Status, Ended
<1>1. TypeOK'
  BY DEF HandlerSteps, RowAttempts, CatalogStatus
<1>2. HandlerOwnsRow'
  BY DEF HandlerOwnsRow
<1>3. HandlerSteps'
  BY DEF HandlerSteps, HandlerOwnsRow
<1>4. RowAttempts'
  BY DEF RowAttempts, HandlerSteps, HandlerOwnsRow
<1>5. VisitsPaid'
  BY DEF VisitsPaid, HandlerSteps, HandlerOwnsRow
<1>6. ReturnsOnlyWhenSettled'
  BY DEF ReturnsOnlyWhenSettled
<1>7. TerminalRowsAreAccountedFor'
  BY DEF TerminalRowsAreAccountedFor, HandlerSteps
<1> QED
  BY <1>1, <1>2, <1>3, <1>4, <1>5, <1>6, <1>7

LEMMA MarkSucceededIInv == ASSUME IInv, NEW i \in Items, MarkSucceeded(i) PROVE IInv'
<1> USE QueueAssumption
    DEF IInv, TypeOK, MarkSucceeded, MarkRow, SetSucceeded, Call, Thrown, FailurePath, Committed, Outcome,
        rowVars, loopVars, sinkVars, Busy, Idle, Steps, Outstanding, Terminal, Status, Ended
<1>1. TypeOK'
  BY DEF HandlerSteps, RowAttempts
<1>2. HandlerOwnsRow'
  BY DEF HandlerOwnsRow
<1>3. HandlerSteps'
  BY DEF HandlerSteps, HandlerOwnsRow
<1>4. RowAttempts'
  BY DEF RowAttempts, HandlerSteps, HandlerOwnsRow
<1>5. VisitsPaid'
  BY DEF VisitsPaid, HandlerSteps, HandlerOwnsRow
<1>6. ReturnsOnlyWhenSettled'
  BY DEF ReturnsOnlyWhenSettled
<1>7. TerminalRowsAreAccountedFor'
  BY DEF TerminalRowsAreAccountedFor, HandlerSteps
<1> QED
  BY <1>1, <1>2, <1>3, <1>4, <1>5, <1>6, <1>7

LEMMA MarkRetryIInv == ASSUME IInv, NEW i \in Items, MarkRetry(i) PROVE IInv'
<1> USE QueueAssumption
    DEF IInv, TypeOK, MarkRetry, MarkRow, SetRetry, Call, Thrown, FailurePath, Committed, Outcome,
        rowVars, loopVars, sinkVars, Busy, Idle, Steps, Outstanding, Terminal, Status, Ended
<1>1. TypeOK'
  BY DEF HandlerSteps, RowAttempts
<1>2. HandlerOwnsRow'
  BY DEF HandlerOwnsRow
<1>3. HandlerSteps'
  BY DEF HandlerSteps, HandlerOwnsRow
<1>4. RowAttempts'
  BY DEF RowAttempts, HandlerSteps, HandlerOwnsRow
<1>5. VisitsPaid'
  BY DEF VisitsPaid, HandlerSteps, HandlerOwnsRow
<1>6. ReturnsOnlyWhenSettled'
  BY DEF ReturnsOnlyWhenSettled
<1>7. TerminalRowsAreAccountedFor'
  BY DEF TerminalRowsAreAccountedFor, HandlerSteps
<1> QED
  BY <1>1, <1>2, <1>3, <1>4, <1>5, <1>6, <1>7

LEMMA MarkDeadIInv == ASSUME IInv, NEW i \in Items, MarkDead(i) PROVE IInv'
<1> USE QueueAssumption
    DEF IInv, TypeOK, MarkDead, MarkRow, SetDead, Call, Thrown, FailurePath, Committed, Outcome,
        rowVars, loopVars, sinkVars, Busy, Idle, Steps, Outstanding, Terminal, Status, Ended
<1>1. TypeOK'
  BY DEF HandlerSteps, RowAttempts
<1>2. HandlerOwnsRow'
  BY DEF HandlerOwnsRow
<1>3. HandlerSteps'
  BY DEF HandlerSteps, HandlerOwnsRow
<1>4. RowAttempts'
  BY DEF RowAttempts, HandlerSteps, HandlerOwnsRow
<1>5. VisitsPaid'
  BY DEF VisitsPaid, HandlerSteps, HandlerOwnsRow
<1>6. ReturnsOnlyWhenSettled'
  BY DEF ReturnsOnlyWhenSettled
<1>7. TerminalRowsAreAccountedFor'
  BY DEF TerminalRowsAreAccountedFor, HandlerSteps
<1> QED
  BY <1>1, <1>2, <1>3, <1>4, <1>5, <1>6, <1>7

LEMMA AbandonIInv == ASSUME IInv, NEW i \in Items, Abandon(i) PROVE IInv'
<1> USE QueueAssumption
    DEF IInv, TypeOK, Abandon,
        rowVars, loopVars, sinkVars, Busy, Idle, Steps, Outstanding, Terminal, Status, Ended
<1>1. TypeOK'
  BY DEF HandlerSteps, RowAttempts
<1>2. HandlerOwnsRow'
  BY DEF HandlerOwnsRow
<1>3. HandlerSteps'
  BY DEF HandlerSteps, HandlerOwnsRow
<1>4. RowAttempts'
  BY DEF RowAttempts, HandlerSteps, HandlerOwnsRow
<1>5. VisitsPaid'
  BY DEF VisitsPaid, HandlerSteps, HandlerOwnsRow
<1>6. ReturnsOnlyWhenSettled'
  BY DEF ReturnsOnlyWhenSettled
<1>7. TerminalRowsAreAccountedFor'
  BY DEF TerminalRowsAreAccountedFor, HandlerSteps
<1> QED
  BY <1>1, <1>2, <1>3, <1>4, <1>5, <1>6, <1>7

LEMMA RetryDelayPassesIInv == ASSUME IInv, NEW i \in Items, RetryDelayPasses(i) PROVE IInv'
<1> USE QueueAssumption
    DEF IInv, TypeOK, RetryDelayPasses,
        rowVars, loopVars, sinkVars, Busy, Idle, Steps, Outstanding, Terminal, Status, Ended
<1>1. TypeOK'
  BY DEF HandlerSteps, RowAttempts
<1>2. HandlerOwnsRow'
  BY DEF HandlerOwnsRow
<1>3. HandlerSteps'
  BY DEF HandlerSteps, HandlerOwnsRow
<1>4. RowAttempts'
  BY DEF RowAttempts, HandlerSteps, HandlerOwnsRow
<1>5. VisitsPaid'
  BY DEF VisitsPaid, HandlerSteps, HandlerOwnsRow
<1>6. ReturnsOnlyWhenSettled'
  BY DEF ReturnsOnlyWhenSettled
<1>7. TerminalRowsAreAccountedFor'
  BY DEF TerminalRowsAreAccountedFor, HandlerSteps
<1> QED
  BY <1>1, <1>2, <1>3, <1>4, <1>5, <1>6, <1>7

LEMMA LeaseExpiresIInv == ASSUME IInv, NEW i \in Items, LeaseExpires(i) PROVE IInv'
<1> USE QueueAssumption
    DEF IInv, TypeOK, LeaseExpires,
        rowVars, loopVars, sinkVars, Busy, Idle, Steps, Outstanding, Terminal, Status, Ended
<1>1. TypeOK'
  BY DEF HandlerSteps, RowAttempts
<1>2. HandlerOwnsRow'
  BY DEF HandlerOwnsRow
<1>3. HandlerSteps'
  BY DEF HandlerSteps, HandlerOwnsRow
<1>4. RowAttempts'
  BY DEF RowAttempts, HandlerSteps, HandlerOwnsRow
<1>5. VisitsPaid'
  BY DEF VisitsPaid, HandlerSteps, HandlerOwnsRow
<1>6. ReturnsOnlyWhenSettled'
  BY DEF ReturnsOnlyWhenSettled
<1>7. TerminalRowsAreAccountedFor'
  BY DEF TerminalRowsAreAccountedFor, HandlerSteps
<1> QED
  BY <1>1, <1>2, <1>3, <1>4, <1>5, <1>6, <1>7

LEMMA ReaperTimerIInv == ASSUME IInv, ReaperTimer PROVE IInv'
<1> USE QueueAssumption
    DEF IInv, TypeOK, ReaperTimer,
        rowVars, loopVars, sinkVars, Busy, Idle, Steps, Outstanding, Terminal, Status, Ended
<1>1. TypeOK'
  BY DEF HandlerSteps, RowAttempts
<1>2. HandlerOwnsRow'
  BY DEF HandlerOwnsRow
<1>3. HandlerSteps'
  BY DEF HandlerSteps, HandlerOwnsRow
<1>4. RowAttempts'
  BY DEF RowAttempts, HandlerSteps, HandlerOwnsRow
<1>5. VisitsPaid'
  BY DEF VisitsPaid, HandlerSteps, HandlerOwnsRow
<1>6. ReturnsOnlyWhenSettled'
  BY DEF ReturnsOnlyWhenSettled
<1>7. TerminalRowsAreAccountedFor'
  BY DEF TerminalRowsAreAccountedFor, HandlerSteps
<1> QED
  BY <1>1, <1>2, <1>3, <1>4, <1>5, <1>6, <1>7

LEMMA CancelIInv == ASSUME IInv, Cancel PROVE IInv'
<1> USE QueueAssumption
    DEF IInv, TypeOK, Cancel,
        rowVars, loopVars, sinkVars, Busy, Idle, Steps, Outstanding, Terminal, Status, Ended
<1>1. TypeOK'
  BY DEF HandlerSteps, RowAttempts
<1>2. HandlerOwnsRow'
  BY DEF HandlerOwnsRow
<1>3. HandlerSteps'
  BY DEF HandlerSteps, HandlerOwnsRow
<1>4. RowAttempts'
  BY DEF RowAttempts, HandlerSteps, HandlerOwnsRow
<1>5. VisitsPaid'
  BY DEF VisitsPaid, HandlerSteps, HandlerOwnsRow
<1>6. ReturnsOnlyWhenSettled'
  BY DEF ReturnsOnlyWhenSettled
<1>7. TerminalRowsAreAccountedFor'
  BY DEF TerminalRowsAreAccountedFor, HandlerSteps
<1> QED
  BY <1>1, <1>2, <1>3, <1>4, <1>5, <1>6, <1>7

LEMMA ReserveBatchIInv == ASSUME IInv, ReserveBatch PROVE IInv'
<1> USE QueueAssumption
    DEF IInv, TypeOK, rowVars, loopVars, sinkVars, Busy, Idle, Steps, Outstanding, Terminal, Status, Ended
<1> PICK B \in Batches, o \in Outcome :
       /\ IF Committed(o) THEN ReserveRows(B) ELSE UNCHANGED rowVars
       /\ LoopCall(o, IF B = {} THEN "check" ELSE "batch")
       /\ IF o = "ok"
            THEN /\ pc'   = [i \in Items |-> IF i \in B THEN "batched" ELSE "out"]
                 /\ copy' = [i \in Items |-> IF i \in B THEN attempt[i] ELSE 0]
            ELSE UNCHANGED <<pc, copy>>
  BY DEF ReserveBatch
<1>a. /\ loop = "reserve" /\ \A i \in Items : pc[i] = "out"
      /\ UNCHANGED <<reaperDue, cancelled, inCatch, sinkVars, visits>>
  BY DEF ReserveBatch
<1>b. \A i \in B : i \in Items /\ i \in due /\ status[i] \in {"pending", "retry"}
  BY DEF Batches, Reservable, kSubset
<1> USE <1>a, <1>b DEF ReserveRows, LoopCall, Committed, Outcome
<1>1. TypeOK'
  <2>1. copy' \in [Items -> 0..MaxAttempts]
    BY DEF RowAttempts
  <2>2. status' \in [Items -> Status] /\ pc' \in [Items -> Steps \cup Idle]
    OBVIOUS
  <2>3. expired' \subseteq {i \in Items : status'[i] = "reserved"}
    OBVIOUS
  <2>4. /\ faults' \in 0..MaxFaults /\ loop' \in {"check", "batch", "failed"}
        /\ attempt' = attempt /\ due' = due
    OBVIOUS
  <2>5. loop' # "batch" => \A i \in Items : pc'[i] = "out"
    OBVIOUS
  <2> QED
    BY <2>1, <2>2, <2>3, <2>4, <2>5
<1>2. HandlerOwnsRow'
  BY DEF HandlerOwnsRow
<1>3. HandlerSteps'
  BY DEF HandlerSteps, HandlerOwnsRow
<1>4. RowAttempts'
  BY DEF RowAttempts, HandlerSteps, HandlerOwnsRow
<1>5. VisitsPaid'
  BY DEF VisitsPaid, HandlerSteps, HandlerOwnsRow
<1>6. ReturnsOnlyWhenSettled'
  BY DEF ReturnsOnlyWhenSettled
<1>7. TerminalRowsAreAccountedFor'
  BY DEF TerminalRowsAreAccountedFor, HandlerSteps
<1> QED
  BY <1>1, <1>2, <1>3, <1>4, <1>5, <1>6, <1>7

LEMMA UnchangedIInv == ASSUME IInv, UNCHANGED vars PROVE IInv'
<1> USE QueueAssumption
    DEF IInv, TypeOK, vars, rowVars, loopVars, sinkVars, Busy, Idle, Steps, Outstanding, Terminal, Status, Ended
<1>1. TypeOK'
  BY DEF HandlerSteps, RowAttempts
<1>2. HandlerOwnsRow'
  BY DEF HandlerOwnsRow
<1>3. HandlerSteps'
  BY DEF HandlerSteps, HandlerOwnsRow
<1>4. RowAttempts'
  BY DEF RowAttempts, HandlerSteps, HandlerOwnsRow
<1>5. VisitsPaid'
  BY DEF VisitsPaid, HandlerSteps, HandlerOwnsRow
<1>6. ReturnsOnlyWhenSettled'
  BY DEF ReturnsOnlyWhenSettled
<1>7. TerminalRowsAreAccountedFor'
  BY DEF TerminalRowsAreAccountedFor, HandlerSteps
<1> QED
  BY <1>1, <1>2, <1>3, <1>4, <1>5, <1>6, <1>7


LEMMA NextIInv == IInv /\ [Next]_vars => IInv'
<1> SUFFICES ASSUME IInv, [Next]_vars PROVE IInv'
  OBVIOUS
<1>1. CASE LoopStep
  BY <1>1, ReapIInv, SkipReapIInv, ReserveBatchIInv, CheckOutstandingIInv, JoinIInv, ObserveCancelIInv
     DEF LoopStep
<1>2. ASSUME NEW i \in Items, HandlerStep(i) PROVE IInv'
  BY <1>2, StartIInv, ExtractIInv, StoreObservationIInv, InsertCrawlErrorIInv, EnqueueDiscoveredIInv,
     OnItemSucceededIInv, OnItemDeadIInv, MarkSucceededIInv, MarkRetryIInv, MarkDeadIInv, AbandonIInv
     DEF HandlerStep
<1>3. CASE Clock
  BY <1>3, RetryDelayPassesIInv, LeaseExpiresIInv, ReaperTimerIInv DEF Clock
<1>4. CASE Cancel
  BY <1>4, CancelIInv
<1>5. CASE UNCHANGED vars
  BY <1>5, UnchangedIInv
<1> QED
  BY <1>1, <1>2, <1>3, <1>4, <1>5 DEF Next, Terminated

(* The inductive invariant holds in every reachable state. *)
THEOREM Invariance == Spec => []IInv
<1> QED
  BY InitIInv, NextIInv, PTL DEF Spec

-----------------------------------------------------------------------------
(* Every variable keeps its type, in particular no row counts more than     *)
(* MaxAttempts + 2 attempts and handlers run only while the loop waits.     *)
THEOREM TypeCorrect == Spec => []TypeOK
<1> QED
  BY Invariance, PTL DEF IInv

(* No reaper and no second reservation takes a row away from its handler.   *)
THEOREM Ownership == Spec => []HandlerOwnsRow
<1> QED
  BY Invariance, PTL DEF IInv

(* A row to be tried again is within MaxAttempts; without failed calls so   *)
(* is every row, in counted and in real tries.                              *)
THEOREM Attempts == Spec => []AttemptsBounded
<1>1. IInv => AttemptsBounded
  BY QueueAssumption
     DEF IInv, TypeOK, RowAttempts, VisitsPaid, AttemptsBounded, Outstanding, Terminal, Status
<1> QED
  BY <1>1, Invariance, PTL

(* An uncounted try costs two failed database calls.                        *)
THEOREM Accounting == Spec => []VisitsAccounted
<1>1. IInv => VisitsAccounted
  BY QueueAssumption DEF IInv, TypeOK, VisitsPaid, VisitsAccounted
<1> QED
  BY <1>1, Invariance, PTL

(* The drain returns only when every row of the run has a final verdict.    *)
THEOREM Settled == Spec => []ReturnsOnlyWhenSettled
<1> QED
  BY Invariance, PTL DEF IInv

(* Succeeded products are stored and rescheduled, dead rows have an error.  *)
THEOREM Recorded == Spec => []TerminalRowsAreAccountedFor
<1> QED
  BY Invariance, PTL DEF IInv

-----------------------------------------------------------------------------
(* What a step can do to the rows, read off the actions once.               *)

HeldRow(i) == pc[i] \notin {"out", "done"}

(* A handler step leaves every other row alone, except that a listing adds  *)
(* rows; only a running handler does either.                                *)
LEMMA HandlerStepEffect ==
  ASSUME IInv, NEW i \in Items, HandlerStep(i)
  PROVE  /\ HeldRow(i) /\ loop = "batch" /\ UNCHANGED loop
         /\ \A j \in Items \ {i} : pc'[j] = pc[j]
         /\ \/ /\ \A j \in Items \ {i} : status'[j] = status[j] /\ attempt'[j] = attempt[j]
               /\ \/ status'[i] = status[i] /\ attempt'[i] = attempt[i]
                  \/ Busy(i) /\ status'[i] \in {"retry", "succeeded", "dead"}
            \/ \E S \in SUBSET (Items \ Listings) : Busy(i) /\ InsertRows(S)
<1> USE DEF IInv, TypeOK, HeldRow, Busy, Idle, rowVars, loopVars
<1>1. CASE Start(i) \/ Extract(i) \/ StoreObservation(i) \/ InsertCrawlError(i) \/ Abandon(i)
  BY <1>1 DEF Start, Extract, StoreObservation, InsertCrawlError, Abandon, Call, Thrown
<1>2. CASE EnqueueDiscovered(i)
  BY <1>2 DEF EnqueueDiscovered, Call, Thrown
<1>3. CASE OnItemSucceeded(i) \/ OnItemDead(i)
  BY <1>3 DEF OnItemSucceeded, OnItemDead, CatalogCallback, Call, Thrown
<1>4. CASE MarkSucceeded(i)
  BY <1>4 DEF MarkSucceeded, MarkRow, SetSucceeded, Call, Thrown
<1>5. CASE MarkRetry(i)
  BY <1>5 DEF MarkRetry, MarkRow, SetRetry, Call, Thrown
<1>6. CASE MarkDead(i)
  BY <1>6 DEF MarkDead, MarkRow, SetDead, Call, Thrown
<1> QED
  BY <1>1, <1>2, <1>3, <1>4, <1>5, <1>6 DEF HandlerStep

(* A step of the loop moves rows only between pending, retry and reserved.  *)
LEMMA LoopStepEffect ==
  ASSUME IInv, LoopStep
  PROVE  /\ \A j \in Items : attempt'[j] = attempt[j]
         /\ \A j \in Items : \/ status'[j] = status[j]
                             \/ status[j] \in Outstanding /\ status'[j] \in Outstanding
<1> USE DEF IInv, TypeOK, rowVars, Outstanding
<1>1. CASE Reap
  BY <1>1 DEF Reap, ReapRows, ReapedRows
<1>2. CASE ReserveBatch
  BY <1>2 DEF ReserveBatch, ReserveRows, Batches, Reservable, kSubset
<1> QED
  BY <1>1, <1>2 DEF LoopStep, SkipReap, CheckOutstanding, Join, ObserveCancel

(* A verdict that its handler has left alone is final.                      *)
THEOREM Finality == Spec => SettledIsFinal
<1>1. IInv /\ [Next]_vars => KeepsVerdicts
  <2> SUFFICES ASSUME IInv, [Next]_vars, NEW i \in Items, status[i] \in Terminal, ~Busy(i)
               PROVE  status'[i] = status[i] /\ attempt'[i] = attempt[i]
    BY DEF KeepsVerdicts
  <2> USE DEF Terminal, Outstanding
  <2>1. CASE LoopStep
    BY <2>1, LoopStepEffect
  <2>2. ASSUME NEW j \in Items, HandlerStep(j) PROVE status'[i] = status[i] /\ attempt'[i] = attempt[i]
    BY <2>2, HandlerStepEffect DEF InsertRows, IInv, TypeOK
  <2>3. CASE Clock \/ Cancel \/ UNCHANGED vars
    BY <2>3 DEF Clock, ReaperTimer, RetryDelayPasses, LeaseExpires, Cancel, vars, rowVars
  <2> QED
    BY <2>1, <2>2, <2>3 DEF Next, Terminated
<1> QED
  BY <1>1, Invariance, PTL DEF Spec, SettledIsFinal

-----------------------------------------------------------------------------
(* Refinement of QueueContract.                                             *)

verdictBar == [i \in Items |-> IF status[i] \in Outstanding THEN "open" ELSE status[i]]
heldBar    == {i \in Items : pc[i] \notin {"out", "done"}}
closedBar  == loop = "returned"

LEMMA ContractInit == Init => Contract!Init
<1> QED
  BY QueueAssumption DEF Init, Fresh, Contract!Init, Outstanding

LEMMA LoopStepImplements == ASSUME IInv, LoopStep PROVE [Contract!Next]_(Contract!vars)
<1> USE DEF IInv, TypeOK, Contract!vars
<1>0. verdictBar' = verdictBar
  BY LoopStepEffect DEF verdictBar
<1>1. CASE Reap \/ SkipReap \/ ObserveCancel
  <2>1. heldBar' = heldBar /\ closedBar' = closedBar
    BY <1>1 DEF Reap, SkipReap, ObserveCancel, LoopCall, heldBar, closedBar
  <2> QED
    BY <1>0, <2>1 DEF verdictBar, heldBar, closedBar
<1>2. CASE ReserveBatch
  <2> PICK B \in Batches, o \in Outcome :
         /\ LoopCall(o, IF B = {} THEN "check" ELSE "batch")
         /\ IF o = "ok" THEN pc' = [i \in Items |-> IF i \in B THEN "batched" ELSE "out"]
                        ELSE UNCHANGED pc
    BY <1>2 DEF ReserveBatch
  <2>0. loop = "reserve" /\ heldBar = {}
    BY <1>2 DEF ReserveBatch, heldBar
  <2>1. ~closedBar /\ ~closedBar'
    BY <2>0 DEF closedBar, LoopCall
  <2>2. CASE o = "ok"
    <3>1. B \in SUBSET Items /\ B \subseteq {i \in Items : verdictBar[i] = "open"}
      BY DEF Batches, Reservable, kSubset, verdictBar, Outstanding
    <3>2. Cardinality(B) <= BatchSize
      <4>1. Cardinality(B) = IF Cardinality(Reservable) < BatchSize
                               THEN Cardinality(Reservable) ELSE BatchSize
        BY DEF Batches, kSubset
      <4>2. Cardinality(Reservable) \in Nat
        BY QueueAssumption, FS_Subset, FS_CardinalityType DEF Reservable
      <4> QED
        BY <4>1, <4>2, QueueAssumption
    <3>3. heldBar' = B
      BY <2>2, <3>1 DEF heldBar
    <3>4. closedBar' = closedBar
      BY <2>1 DEF closedBar
    <3>5. Contract!Cardinality(B) = Cardinality(B)
      BY DEF Contract!Cardinality, Cardinality
    <3>6. Contract!Take(B)
      BY <1>0, <2>0, <2>1, <3>1, <3>2, <3>3, <3>4, <3>5 DEF Contract!Take, verdictBar, heldBar, closedBar
    <3> QED
      BY <3>1, <3>6 DEF Contract!Next
  <2>3. CASE o # "ok"
    BY <1>0, <2>0, <2>1, <2>3 DEF verdictBar, heldBar, closedBar
  <2> QED
    BY <2>2, <2>3
<1>3. CASE CheckOutstanding
  <2>0. heldBar = {} /\ heldBar' = heldBar /\ ~closedBar
    BY <1>3 DEF CheckOutstanding, heldBar, closedBar
  <2>1. CASE closedBar'
    <3>1. \A i \in Items : verdictBar[i] # "open"
      BY <1>3, <2>1 DEF CheckOutstanding, HasOutstanding, LoopCall, verdictBar, closedBar,
                        Outstanding, Terminal, Status
    <3>2. Contract!Close
      BY <1>0, <2>0, <2>1, <3>1 DEF Contract!Close, verdictBar, heldBar, closedBar
    <3> QED
      BY <3>2 DEF Contract!Next
  <2>2. CASE ~closedBar'
    BY <1>0, <2>0, <2>2 DEF verdictBar, heldBar, closedBar
  <2> QED
    BY <2>1, <2>2
<1>4. CASE Join
  <2>1. heldBar' \in SUBSET heldBar /\ closedBar' = closedBar
    BY <1>4 DEF Join, heldBar, closedBar
  <2>2. Contract!LetGo
    BY <1>0, <2>1 DEF Contract!LetGo, Contract!MayLetGo, verdictBar, heldBar, closedBar
  <2> QED
    BY <2>2 DEF Contract!Next
<1> QED
  BY <1>1, <1>2, <1>3, <1>4 DEF LoopStep

LEMMA HandlerStepImplements ==
  ASSUME IInv, NEW i \in Items, HandlerStep(i) PROVE [Contract!Next]_(Contract!vars)
<1> USE DEF IInv, TypeOK, HeldRow
<1>1. i \in heldBar /\ heldBar' \in SUBSET heldBar /\ closedBar' = closedBar
  BY HandlerStepEffect DEF heldBar, closedBar
<1>2. CASE \A j \in Items : status'[j] = status[j]
  <2>1. verdictBar' = verdictBar
    BY <1>2 DEF verdictBar
  <2>2. Contract!LetGo
    BY <1>1, <2>1 DEF Contract!LetGo, Contract!MayLetGo, verdictBar, heldBar, closedBar
  <2> QED
    BY <2>2 DEF Contract!Next
<1>3. CASE /\ \A j \in Items \ {i} : status'[j] = status[j]
           /\ status'[i] \in {"retry", "succeeded", "dead"}
  <2>1. PICK v \in {"open", "succeeded", "dead"} : verdictBar' = [verdictBar EXCEPT ![i] = v]
    <3>1. verdictBar' = [verdictBar EXCEPT ![i] = IF status'[i] = "retry" THEN "open" ELSE status'[i]]
      BY <1>3 DEF verdictBar, Outstanding
    <3> QED
      BY <1>3, <3>1
  <2>2. Contract!Judge(i, v)
    BY <1>1, <2>1 DEF Contract!Judge, Contract!MayLetGo, verdictBar, heldBar, closedBar
  <2> QED
    BY <1>1, <2>1, <2>2 DEF Contract!Next, heldBar
<1>4. ASSUME NEW S \in SUBSET (Items \ Listings), InsertRows(S)
      PROVE  [Contract!Next]_(Contract!vars)
  <2>1. verdictBar' = [j \in Items |-> IF j \in S /\ verdictBar[j] = "absent" THEN "open" ELSE verdictBar[j]]
    BY <1>4 DEF InsertRows, verdictBar, Outstanding
  <2>2. Contract!Discover(S)
    BY <1>1, <2>1 DEF Contract!Discover, Contract!MayLetGo, verdictBar, heldBar, closedBar
  <2> QED
    BY <2>2 DEF Contract!Next
<1> QED
  BY <1>2, <1>3, <1>4, HandlerStepEffect

(* The drain of the code implements the contract.                           *)
THEOREM Implementation == Spec => ImplementsContract
<1>1. IInv /\ [Next]_vars => [Contract!Next]_(Contract!vars)
  <2> SUFFICES ASSUME IInv, [Next]_vars PROVE [Contract!Next]_(Contract!vars)
    OBVIOUS
  <2>1. ASSUME NEW i \in Items, RetryDelayPasses(i) \/ LeaseExpires(i)
        PROVE  UNCHANGED Contract!vars
    BY <2>1 DEF RetryDelayPasses, LeaseExpires, loopVars, Contract!vars
  <2>2. CASE ReaperTimer \/ Cancel \/ UNCHANGED vars
    BY <2>2 DEF ReaperTimer, Cancel, vars, rowVars, loopVars, Contract!vars
  <2> QED
    BY <2>1, <2>2, LoopStepImplements, HandlerStepImplements DEF Next, Clock, Terminated
<1> QED
  BY <1>1, ContractInit, Invariance, PTL DEF Spec, ImplementsContract, Contract!Spec

-----------------------------------------------------------------------------
(* The use case.                                                              *)

(* The use case may let rows in, change the leases of rows that have not      *)
(* succeeded, fail and be cancelled, without disturbing the queue.            *)
LEMMA OutsideIInv ==
  ASSUME IInv, UNCHANGED innerVars,
         status' \in [Items -> Status], due' \subseteq Items, catalog' \in [Seeds -> CatalogStatus],
         faults' \in faults..MaxFaults, cancelled' \in BOOLEAN, cancelled => cancelled',
         \A i \in Items : \/ status'[i] = status[i]
                          \/ status[i] = "absent" /\ status'[i] = "pending" /\ loop = "top",
         \A i \in Seeds : catalog'[i] = catalog[i] \/ (status[i] # "succeeded" /\ loop # "batch")
  PROVE  IInv'
<1> USE QueueAssumption
    DEF IInv, TypeOK, innerVars, Busy, Idle, Steps, Outstanding, Terminal, Status, Ended
<1>n. faults' \in 0..MaxFaults /\ (faults' = 0 => faults = 0)
  OBVIOUS
<1>1. TypeOK'
  <2>1. expired' \subseteq {i \in Items : status'[i] = "reserved"}
    OBVIOUS
  <2> QED
    BY <1>n, <2>1 DEF CatalogStatus
<1>2. HandlerOwnsRow'
  BY DEF HandlerOwnsRow
<1>3. HandlerSteps'
  BY DEF HandlerSteps, HandlerOwnsRow
<1>4. RowAttempts'
  BY <1>n DEF RowAttempts, HandlerSteps, HandlerOwnsRow
<1>5. VisitsPaid'
  BY <1>n DEF VisitsPaid, HandlerSteps, HandlerOwnsRow
<1>6. ReturnsOnlyWhenSettled'
  BY DEF ReturnsOnlyWhenSettled
<1>7. TerminalRowsAreAccountedFor'
  BY DEF TerminalRowsAreAccountedFor, HandlerSteps
<1> QED
  BY <1>1, <1>2, <1>3, <1>4, <1>5, <1>6, <1>7

LEMMA DrainIInv == ASSUME IInv, LoopStep \/ (\E i \in Items : HandlerStep(i)) \/ Clock PROVE IInv'
<1> QED
  BY NextIInv DEF Next

(* Nothing but rows and handlers decides whether the rows are complete. *)
LEMMA CompleteStays == ASSUME RowsAreComplete, UNCHANGED <<status, pc>> PROVE RowsAreComplete'
<1> QED
  BY DEF RowsAreComplete, Count, Busy

(* A run of which no row was ever queued is complete. *)
LEMMA EmptyIsComplete ==
  ASSUME \A i \in Items : status[i] = "absent" /\ pc[i] = "out" PROVE RowsAreComplete
<1>1. {i \in Items : status[i] # "absent"} = {} /\ {i \in Items : status[i] = "dead"} = {}
  OBVIOUS
<1>2. Cardinality({}) = 0
  BY FS_EmptySet
<1>3. Cardinality({i \in Items : status[i] = "dead"}) = 0 /\ Cardinality({i \in Items : status[i] # "absent"}) = 0
  BY <1>1, <1>2
<1>4. 100 * 0 <= DeadThresholdPercent * 0
  BY ThresholdAssumption
<1> QED
  BY <1>3, <1>4 DEF RowsAreComplete, Count, Busy, Idle

(* RunOutcomePolicy says "ok" of settled rows only within the threshold.  *)
LEMMA JudgedIsComplete ==
  ASSUME IInv, loop = "returned", RowsVerdict = "ok" PROVE RowsAreComplete
<1> DEFINE dead == {i \in Items : status[i] = "dead"}
           good == {i \in Items : status[i] = "succeeded"}
           late == {i \in Items : status[i] = "retry"}
           all  == {i \in Items : status[i] # "absent"}
<1>1. \A i \in Items : status[i] \in Terminal \cup {"absent"} /\ ~Busy(i)
  BY DEF IInv, ReturnsOnlyWhenSettled
<1>2. late = {} /\ all = good \cup dead /\ good \cap dead = {}
  BY <1>1 DEF Terminal
<1>3. IsFiniteSet(good) /\ IsFiniteSet(dead)
  BY QueueAssumption, FS_Subset
<1>4. Cardinality(late) = 0 /\ Cardinality(all) = Cardinality(good) + Cardinality(dead)
  <2>1. Cardinality(good \cap dead) = 0 /\ Cardinality(late) = 0
    BY <1>2, FS_EmptySet
  <2>2. Cardinality(good) \in Nat /\ Cardinality(dead) \in Nat
    BY <1>3, FS_CardinalityType
  <2>3. Cardinality(good \cup dead) = Cardinality(good) + Cardinality(dead) - Cardinality(good \cap dead)
    BY <1>3, FS_Union
  <2> HIDE DEF good, dead, late, all
  <2> QED
    BY <1>2, <2>1, <2>2, <2>3
<1>5. Cardinality(good) \in Nat /\ Cardinality(dead) \in Nat /\ DeadThresholdPercent \in Nat
  BY <1>3, FS_CardinalityType, ThresholdAssumption
<1>6. \/ Cardinality(dead) = 0
      \/ Cardinality(dead) * 100 <= DeadThresholdPercent * (Cardinality(good) + Cardinality(late) + Cardinality(dead))
  BY DEF RowsVerdict, Evaluate, Count
<1>7. Cardinality(good) + Cardinality(late) + Cardinality(dead) = Cardinality(all)
  BY <1>4, <1>5
<1>8. Cardinality(all) \in Nat
  BY <1>4, <1>5
<1> HIDE DEF dead, good, late, all
<1>9. 100 * Cardinality(dead) <= DeadThresholdPercent * Cardinality(all)
  <2>1. CASE Cardinality(dead) = 0
    BY <1>5, <1>8, <2>1
  <2>2. CASE Cardinality(dead) # 0
    BY <1>5, <1>6, <1>7, <1>8, <2>2
  <2> QED
    BY <2>1, <2>2
<1> QED
  BY <1>1, <1>9 DEF RowsAreComplete, Count, dead, all

LEMMA CollectInitIInv == CollectInit => CollectIInv
<1> SUFFICES ASSUME CollectInit PROVE CollectIInv
  OBVIOUS
<1> USE QueueAssumption DEF CollectInit, Fresh
<1>1. IInv
  <2>1. status \in [Items -> Status] /\ catalog \in [Seeds -> CatalogStatus] /\ pc \in [Items -> Steps \cup Idle]
    BY DEF Status, CatalogStatus, Idle
  <2>2. attempt \in [Items -> 0..(MaxAttempts + 2)] /\ copy \in [Items -> 0..MaxAttempts]
    OBVIOUS
  <2>3. faults \in 0..MaxFaults /\ visits \in [Items -> Nat]
    OBVIOUS
  <2>4. TypeOK
    BY <2>1, <2>2, <2>3 DEF TypeOK, Ended
  <2>5. HandlerOwnsRow /\ HandlerSteps /\ RowAttempts /\ VisitsPaid
    BY DEF HandlerOwnsRow, HandlerSteps, RowAttempts, VisitsPaid, Busy, Idle, Outstanding
  <2>6. ReturnsOnlyWhenSettled /\ TerminalRowsAreAccountedFor
    BY DEF ReturnsOnlyWhenSettled, TerminalRowsAreAccountedFor, Terminal
  <2> QED
    BY <2>4, <2>5, <2>6 DEF IInv
<1>2. CollectTypeOK
  BY <1>1 DEF IInv, CollectTypeOK
<1>3. RowsFollowThePhase /\ LeasesFollowThePhase
  BY DEF RowsFollowThePhase, LeasesFollowThePhase, OnlyDeadKeepTheirLease, Unselected, Undrained, Judged
<1>4. RunsFollowThePhase /\ ExceptionsHaveACause
  BY DEF RunsFollowThePhase, ExceptionsHaveACause, Trying, Undrained, Unselected, Judged, Catching
<1>5. OkRunIsComplete /\ OkAnswerIsRecorded /\ RunsAreClosed /\ ProductLeasesAreReturned
  BY DEF OkRunIsComplete, OkAnswerIsRecorded, RunsAreClosed, ProductLeasesAreReturned, OnlyDeadKeepTheirLease
<1> QED
  BY <1>1, <1>2, <1>3, <1>4, <1>5 DEF CollectIInv
-----------------------------------------------------------------------------
(* One lemma per step of the use case.                                       *)

LEMMA StartRunCollects == ASSUME CollectIInv, StartRun PROVE CollectIInv'
<1> USE QueueAssumption
    DEF CollectIInv, CollectTypeOK, StartRun, Try, CatchPhase, Outcome, Committed, Answers, innerVars, useCaseVars, rowVars, loopVars, sinkVars,
        Over, Unselected, Undrained, Judged, Trying, Catching
<1>1. IInv'
  <2>1. faults' \in faults..MaxFaults /\ status' \in [Items -> Status] /\ due' \subseteq Items
    BY DEF IInv, TypeOK, Status, Outstanding
  <2>2. catalog' \in [Seeds -> CatalogStatus]
    BY DEF IInv, TypeOK, CatalogStatus
  <2>3. \A i \in Items : \/ status'[i] = status[i]
                         \/ status[i] = "absent" /\ status'[i] = "pending" /\ loop = "top"
    BY DEF IInv, TypeOK, RowsFollowThePhase
  <2>4. \A i \in Seeds : catalog'[i] = catalog[i] \/ (status[i] # "succeeded" /\ loop # "batch")
    BY DEF IInv, TypeOK, RowsFollowThePhase
  <2>5. UNCHANGED innerVars /\ cancelled' \in BOOLEAN /\ (cancelled => cancelled')
    BY DEF IInv, TypeOK
  <2> QED
    BY <2>1, <2>2, <2>3, <2>4, <2>5, OutsideIInv
<1>2. CollectTypeOK'
  BY <1>1 DEF IInv
<1>3. RowsFollowThePhase'
  BY <1>1, CompleteStays DEF RowsFollowThePhase
<1>4. LeasesFollowThePhase'
  BY <1>1 DEF LeasesFollowThePhase, OnlyDeadKeepTheirLease, RowsFollowThePhase, IInv, TypeOK
<1>5. RunsFollowThePhase'
  BY DEF RunsFollowThePhase, IInv, TypeOK
<1>6. ExceptionsHaveACause'
  BY DEF ExceptionsHaveACause, IInv, TypeOK
<1>7. OkRunIsComplete'
  BY CompleteStays DEF OkRunIsComplete, RunsFollowThePhase, RowsFollowThePhase
<1>8. OkAnswerIsRecorded'
  BY DEF OkAnswerIsRecorded, RunsFollowThePhase, ExceptionsHaveACause
<1>9. RunsAreClosed'
  BY DEF RunsAreClosed, RunsFollowThePhase, IInv, TypeOK
<1>10. ProductLeasesAreReturned'
  BY DEF ProductLeasesAreReturned, OnlyDeadKeepTheirLease, LeasesFollowThePhase, ExceptionsHaveACause, IInv, TypeOK
<1> QED
  BY <1>1, <1>2, <1>3, <1>4, <1>5, <1>6, <1>7, <1>8, <1>9, <1>10

LEMMA StartIngestionCollects == ASSUME CollectIInv, StartIngestion PROVE CollectIInv'
<1> USE QueueAssumption
    DEF CollectIInv, CollectTypeOK, StartIngestion, Try, CatchPhase, Outcome, Committed, innerVars, useCaseVars, rowVars, loopVars, sinkVars,
        Over, Unselected, Undrained, Judged, Trying, Catching
<1>1. IInv'
  <2>1. faults' \in faults..MaxFaults /\ status' \in [Items -> Status] /\ due' \subseteq Items
    BY DEF IInv, TypeOK, Status, Outstanding
  <2>2. catalog' \in [Seeds -> CatalogStatus]
    BY DEF IInv, TypeOK, CatalogStatus
  <2>3. \A i \in Items : \/ status'[i] = status[i]
                         \/ status[i] = "absent" /\ status'[i] = "pending" /\ loop = "top"
    BY DEF IInv, TypeOK, RowsFollowThePhase
  <2>4. \A i \in Seeds : catalog'[i] = catalog[i] \/ (status[i] # "succeeded" /\ loop # "batch")
    BY DEF IInv, TypeOK, RowsFollowThePhase
  <2>5. UNCHANGED innerVars /\ cancelled' \in BOOLEAN /\ (cancelled => cancelled')
    BY DEF IInv, TypeOK
  <2> QED
    BY <2>1, <2>2, <2>3, <2>4, <2>5, OutsideIInv
<1>2. CollectTypeOK'
  BY <1>1 DEF IInv
<1>3. RowsFollowThePhase'
  BY <1>1, CompleteStays DEF RowsFollowThePhase
<1>4. LeasesFollowThePhase'
  BY <1>1 DEF LeasesFollowThePhase, OnlyDeadKeepTheirLease, RowsFollowThePhase, IInv, TypeOK
<1>5. RunsFollowThePhase'
  BY DEF RunsFollowThePhase, IInv, TypeOK
<1>6. ExceptionsHaveACause'
  BY DEF ExceptionsHaveACause, IInv, TypeOK
<1>7. OkRunIsComplete'
  BY CompleteStays DEF OkRunIsComplete, RunsFollowThePhase, RowsFollowThePhase
<1>8. OkAnswerIsRecorded'
  BY DEF OkAnswerIsRecorded, RunsFollowThePhase, ExceptionsHaveACause
<1>9. RunsAreClosed'
  BY DEF RunsAreClosed, RunsFollowThePhase, IInv, TypeOK
<1>10. ProductLeasesAreReturned'
  BY DEF ProductLeasesAreReturned, OnlyDeadKeepTheirLease, LeasesFollowThePhase, ExceptionsHaveACause, IInv, TypeOK
<1> QED
  BY <1>1, <1>2, <1>3, <1>4, <1>5, <1>6, <1>7, <1>8, <1>9, <1>10

LEMMA SelectDueCollects == ASSUME CollectIInv, SelectDue PROVE CollectIInv'
<1> USE QueueAssumption
    DEF CollectIInv, CollectTypeOK, SelectDue, Try, CatchPhase, Outcome, Committed, innerVars, useCaseVars, rowVars, loopVars, sinkVars,
        Over, Unselected, Undrained, Judged, Trying, Catching
<1>1. IInv'
  <2>1. faults' \in faults..MaxFaults /\ status' \in [Items -> Status] /\ due' \subseteq Items
    BY DEF IInv, TypeOK, Status, Outstanding
  <2>2. catalog' \in [Seeds -> CatalogStatus]
    BY DEF IInv, TypeOK, CatalogStatus
  <2>3. \A i \in Items : \/ status'[i] = status[i]
                         \/ status[i] = "absent" /\ status'[i] = "pending" /\ loop = "top"
    BY DEF IInv, TypeOK, RowsFollowThePhase
  <2>4. \A i \in Seeds : catalog'[i] = catalog[i] \/ (status[i] # "succeeded" /\ loop # "batch")
    BY DEF IInv, TypeOK, RowsFollowThePhase
  <2>5. UNCHANGED innerVars /\ cancelled' \in BOOLEAN /\ (cancelled => cancelled')
    BY DEF IInv, TypeOK
  <2> QED
    BY <2>1, <2>2, <2>3, <2>4, <2>5, OutsideIInv
<1>2. CollectTypeOK'
  BY <1>1 DEF IInv
<1>3. RowsFollowThePhase'
  BY <1>1, CompleteStays DEF RowsFollowThePhase
<1>4. LeasesFollowThePhase'
  BY <1>1 DEF LeasesFollowThePhase, OnlyDeadKeepTheirLease, RowsFollowThePhase, RunsFollowThePhase, IInv, TypeOK
<1>5. RunsFollowThePhase'
  BY DEF RunsFollowThePhase, IInv, TypeOK
<1>6. ExceptionsHaveACause'
  BY DEF ExceptionsHaveACause, IInv, TypeOK
<1>7. OkRunIsComplete'
  BY CompleteStays DEF OkRunIsComplete, RunsFollowThePhase, RowsFollowThePhase
<1>8. OkAnswerIsRecorded'
  BY DEF OkAnswerIsRecorded, RunsFollowThePhase, ExceptionsHaveACause
<1>9. RunsAreClosed'
  BY DEF RunsAreClosed, RunsFollowThePhase, IInv, TypeOK
<1>10. ProductLeasesAreReturned'
  BY DEF ProductLeasesAreReturned, OnlyDeadKeepTheirLease, LeasesFollowThePhase, ExceptionsHaveACause, RunsFollowThePhase, IInv, TypeOK
<1> QED
  BY <1>1, <1>2, <1>3, <1>4, <1>5, <1>6, <1>7, <1>8, <1>9, <1>10

LEMMA EnqueueCollects == ASSUME CollectIInv, Enqueue PROVE CollectIInv'
<1> USE QueueAssumption
    DEF CollectIInv, CollectTypeOK, Enqueue, InsertRows, Outcome, Committed, innerVars, useCaseVars, rowVars, loopVars, sinkVars,
        Over, Unselected, Undrained, Judged, Trying, Catching
<1>1. IInv'
  <2>1. faults' \in faults..MaxFaults /\ status' \in [Items -> Status] /\ due' \subseteq Items
    BY DEF IInv, TypeOK, Status, Outstanding
  <2>2. catalog' \in [Seeds -> CatalogStatus]
    BY DEF IInv, TypeOK, CatalogStatus
  <2>3. \A i \in Items : \/ status'[i] = status[i]
                         \/ status[i] = "absent" /\ status'[i] = "pending" /\ loop = "top"
    BY DEF IInv, TypeOK, RowsFollowThePhase
  <2>4. \A i \in Seeds : catalog'[i] = catalog[i] \/ (status[i] # "succeeded" /\ loop # "batch")
    BY DEF IInv, TypeOK, RowsFollowThePhase
  <2>5. UNCHANGED innerVars /\ cancelled' \in BOOLEAN /\ (cancelled => cancelled')
    BY DEF IInv, TypeOK
  <2> QED
    BY <2>1, <2>2, <2>3, <2>4, <2>5, OutsideIInv
<1>2. CollectTypeOK'
  BY <1>1 DEF IInv
<1>3. RowsFollowThePhase'
  BY <1>1, CompleteStays DEF RowsFollowThePhase
<1>4. LeasesFollowThePhase'
  BY <1>1 DEF LeasesFollowThePhase, OnlyDeadKeepTheirLease, RowsFollowThePhase, IInv, TypeOK
<1>5. RunsFollowThePhase'
  BY DEF RunsFollowThePhase, IInv, TypeOK
<1>6. ExceptionsHaveACause'
  BY DEF ExceptionsHaveACause, IInv, TypeOK
<1>7. OkRunIsComplete'
  BY CompleteStays DEF OkRunIsComplete, RunsFollowThePhase, RowsFollowThePhase
<1>8. OkAnswerIsRecorded'
  BY DEF OkAnswerIsRecorded, RunsFollowThePhase, ExceptionsHaveACause
<1>9. RunsAreClosed'
  BY DEF RunsAreClosed, RunsFollowThePhase, IInv, TypeOK
<1>10. ProductLeasesAreReturned'
  BY DEF ProductLeasesAreReturned, OnlyDeadKeepTheirLease, LeasesFollowThePhase, ExceptionsHaveACause, IInv, TypeOK
<1> QED
  BY <1>1, <1>2, <1>3, <1>4, <1>5, <1>6, <1>7, <1>8, <1>9, <1>10

LEMMA ReleaseNotAcceptedCollects == ASSUME CollectIInv, ReleaseNotAccepted PROVE CollectIInv'
<1> USE QueueAssumption
    DEF CollectIInv, CollectTypeOK, ReleaseNotAccepted, Try, CatchPhase, Outcome, Committed, Release, innerVars, useCaseVars, rowVars, loopVars, sinkVars,
        Over, Unselected, Undrained, Judged, Trying, Catching
<1>1. IInv'
  <2>1. faults' \in faults..MaxFaults /\ status' \in [Items -> Status] /\ due' \subseteq Items
    BY DEF IInv, TypeOK, Status, Outstanding
  <2>2. catalog' \in [Seeds -> CatalogStatus]
    BY DEF IInv, TypeOK, CatalogStatus
  <2>3. \A i \in Items : \/ status'[i] = status[i]
                         \/ status[i] = "absent" /\ status'[i] = "pending" /\ loop = "top"
    BY DEF IInv, TypeOK, RowsFollowThePhase
  <2>4. \A i \in Seeds : catalog'[i] = catalog[i] \/ (status[i] # "succeeded" /\ loop # "batch")
    BY DEF IInv, TypeOK, RowsFollowThePhase
  <2>5. UNCHANGED innerVars /\ cancelled' \in BOOLEAN /\ (cancelled => cancelled')
    BY DEF IInv, TypeOK
  <2> QED
    BY <2>1, <2>2, <2>3, <2>4, <2>5, OutsideIInv
<1>2. CollectTypeOK'
  BY <1>1 DEF IInv
<1>3. RowsFollowThePhase'
  BY <1>1, CompleteStays DEF RowsFollowThePhase
<1>4. LeasesFollowThePhase'
  BY <1>1 DEF LeasesFollowThePhase, OnlyDeadKeepTheirLease, RowsFollowThePhase, IInv, TypeOK
<1>5. RunsFollowThePhase'
  BY DEF RunsFollowThePhase, IInv, TypeOK
<1>6. ExceptionsHaveACause'
  BY DEF ExceptionsHaveACause, IInv, TypeOK
<1>7. OkRunIsComplete'
  BY CompleteStays DEF OkRunIsComplete, RunsFollowThePhase, RowsFollowThePhase
<1>8. OkAnswerIsRecorded'
  BY DEF OkAnswerIsRecorded, RunsFollowThePhase, ExceptionsHaveACause
<1>9. RunsAreClosed'
  BY DEF RunsAreClosed, RunsFollowThePhase, IInv, TypeOK
<1>10. ProductLeasesAreReturned'
  BY DEF ProductLeasesAreReturned, OnlyDeadKeepTheirLease, LeasesFollowThePhase, ExceptionsHaveACause, IInv, TypeOK
<1> QED
  BY <1>1, <1>2, <1>3, <1>4, <1>5, <1>6, <1>7, <1>8, <1>9, <1>10

LEMMA ReleaseAllCollects == ASSUME CollectIInv, ReleaseAll PROVE CollectIInv'
<1> USE QueueAssumption
    DEF CollectIInv, CollectTypeOK, ReleaseAll, Outcome, Committed, Release, innerVars, useCaseVars, rowVars, loopVars, sinkVars,
        Over, Unselected, Undrained, Judged, Trying, Catching
<1>1. IInv'
  <2>1. faults' \in faults..MaxFaults /\ status' \in [Items -> Status] /\ due' \subseteq Items
    BY DEF IInv, TypeOK, Status, Outstanding
  <2>2. catalog' \in [Seeds -> CatalogStatus]
    BY DEF IInv, TypeOK, CatalogStatus
  <2>3. \A i \in Items : \/ status'[i] = status[i]
                         \/ status[i] = "absent" /\ status'[i] = "pending" /\ loop = "top"
    BY DEF IInv, TypeOK, RowsFollowThePhase
  <2>4. \A i \in Seeds : catalog'[i] = catalog[i] \/ (status[i] # "succeeded" /\ loop # "batch")
    BY DEF IInv, TypeOK, RowsFollowThePhase
  <2>5. UNCHANGED innerVars /\ cancelled' \in BOOLEAN /\ (cancelled => cancelled')
    BY DEF IInv, TypeOK
  <2> QED
    BY <2>1, <2>2, <2>3, <2>4, <2>5, OutsideIInv
<1>2. CollectTypeOK'
  BY <1>1 DEF IInv
<1>3. RowsFollowThePhase'
  BY <1>1, CompleteStays DEF RowsFollowThePhase
<1>4. LeasesFollowThePhase'
  BY <1>1 DEF LeasesFollowThePhase, OnlyDeadKeepTheirLease, RowsFollowThePhase, IInv, TypeOK
<1>5. RunsFollowThePhase'
  BY DEF RunsFollowThePhase, IInv, TypeOK
<1>6. ExceptionsHaveACause'
  BY DEF ExceptionsHaveACause, IInv, TypeOK
<1>7. OkRunIsComplete'
  BY CompleteStays DEF OkRunIsComplete, RunsFollowThePhase, RowsFollowThePhase
<1>8. OkAnswerIsRecorded'
  BY DEF OkAnswerIsRecorded, RunsFollowThePhase, ExceptionsHaveACause
<1>9. RunsAreClosed'
  BY DEF RunsAreClosed, RunsFollowThePhase, IInv, TypeOK
<1>10. ProductLeasesAreReturned'
  BY DEF ProductLeasesAreReturned, OnlyDeadKeepTheirLease, LeasesFollowThePhase, ExceptionsHaveACause, IInv, TypeOK
<1> QED
  BY <1>1, <1>2, <1>3, <1>4, <1>5, <1>6, <1>7, <1>8, <1>9, <1>10

LEMMA DrainEndedCollects == ASSUME CollectIInv, DrainEnded PROVE CollectIInv'
<1> USE QueueAssumption
    DEF CollectIInv, CollectTypeOK, DrainEnded, Ended, vars, innerVars, useCaseVars, rowVars, loopVars, sinkVars,
        Over, Unselected, Undrained, Judged, Trying, Catching
<1>1. IInv'
  BY UnchangedIInv
<1>2. CollectTypeOK'
  BY <1>1 DEF IInv
<1>3. RowsFollowThePhase'
  BY <1>1, CompleteStays DEF RowsFollowThePhase
<1>4. LeasesFollowThePhase'
  BY <1>1 DEF LeasesFollowThePhase, OnlyDeadKeepTheirLease, RowsFollowThePhase, IInv, TypeOK, ReturnsOnlyWhenSettled, TerminalRowsAreAccountedFor, Terminal, Busy, Idle
<1>5. RunsFollowThePhase'
  BY DEF RunsFollowThePhase, IInv, TypeOK
<1>6. ExceptionsHaveACause'
  BY DEF ExceptionsHaveACause, IInv, TypeOK
<1>7. OkRunIsComplete'
  BY CompleteStays DEF OkRunIsComplete, RunsFollowThePhase, RowsFollowThePhase
<1>8. OkAnswerIsRecorded'
  BY DEF OkAnswerIsRecorded, RunsFollowThePhase, ExceptionsHaveACause
<1>9. RunsAreClosed'
  BY DEF RunsAreClosed, RunsFollowThePhase, IInv, TypeOK
<1>10. ProductLeasesAreReturned'
  BY DEF ProductLeasesAreReturned, OnlyDeadKeepTheirLease, LeasesFollowThePhase, ExceptionsHaveACause, IInv, TypeOK
<1> QED
  BY <1>1, <1>2, <1>3, <1>4, <1>5, <1>6, <1>7, <1>8, <1>9, <1>10

LEMMA JudgeCollects == ASSUME CollectIInv, Judge PROVE CollectIInv'
<1> USE QueueAssumption
    DEF CollectIInv, CollectTypeOK, Judge, Try, CatchPhase, innerVars, useCaseVars, rowVars, loopVars, sinkVars,
        Over, Unselected, Undrained, Judged, Trying, Catching
<1>1. IInv'
  <2>1. faults' \in faults..MaxFaults /\ status' \in [Items -> Status] /\ due' \subseteq Items
    BY DEF IInv, TypeOK, Status, Outstanding
  <2>2. catalog' \in [Seeds -> CatalogStatus]
    BY DEF IInv, TypeOK, CatalogStatus
  <2>3. \A i \in Items : \/ status'[i] = status[i]
                         \/ status[i] = "absent" /\ status'[i] = "pending" /\ loop = "top"
    BY DEF IInv, TypeOK, RowsFollowThePhase
  <2>4. \A i \in Seeds : catalog'[i] = catalog[i] \/ (status[i] # "succeeded" /\ loop # "batch")
    BY DEF IInv, TypeOK, RowsFollowThePhase
  <2>5. UNCHANGED innerVars /\ cancelled' \in BOOLEAN /\ (cancelled => cancelled')
    BY DEF IInv, TypeOK
  <2> QED
    BY <2>1, <2>2, <2>3, <2>4, <2>5, OutsideIInv
<1>2. CollectTypeOK'
  BY <1>1 DEF IInv, RowsVerdict, Evaluate
<1>3. RowsFollowThePhase'
  BY <1>1, CompleteStays, JudgedIsComplete DEF RowsFollowThePhase
<1>4. LeasesFollowThePhase'
  BY <1>1 DEF LeasesFollowThePhase, OnlyDeadKeepTheirLease, RowsFollowThePhase, IInv, TypeOK
<1>5. RunsFollowThePhase'
  BY DEF RunsFollowThePhase, IInv, TypeOK
<1>6. ExceptionsHaveACause'
  BY DEF ExceptionsHaveACause, IInv, TypeOK
<1>7. OkRunIsComplete'
  BY CompleteStays DEF OkRunIsComplete, RunsFollowThePhase, RowsFollowThePhase
<1>8. OkAnswerIsRecorded'
  BY DEF OkAnswerIsRecorded, RunsFollowThePhase, ExceptionsHaveACause
<1>9. RunsAreClosed'
  BY DEF RunsAreClosed, RunsFollowThePhase, IInv, TypeOK
<1>10. ProductLeasesAreReturned'
  BY DEF ProductLeasesAreReturned, OnlyDeadKeepTheirLease, LeasesFollowThePhase, ExceptionsHaveACause, IInv, TypeOK
<1> QED
  BY <1>1, <1>2, <1>3, <1>4, <1>5, <1>6, <1>7, <1>8, <1>9, <1>10

LEMMA CloseIngestionCollects == ASSUME CollectIInv, CloseIngestion PROVE CollectIInv'
<1> USE QueueAssumption
    DEF CollectIInv, CollectTypeOK, CloseIngestion, Try, CatchPhase, Outcome, Committed, innerVars, useCaseVars, rowVars, loopVars, sinkVars,
        Over, Unselected, Undrained, Judged, Trying, Catching
<1>1. IInv'
  <2>1. faults' \in faults..MaxFaults /\ status' \in [Items -> Status] /\ due' \subseteq Items
    BY DEF IInv, TypeOK, Status, Outstanding
  <2>2. catalog' \in [Seeds -> CatalogStatus]
    BY DEF IInv, TypeOK, CatalogStatus
  <2>3. \A i \in Items : \/ status'[i] = status[i]
                         \/ status[i] = "absent" /\ status'[i] = "pending" /\ loop = "top"
    BY DEF IInv, TypeOK, RowsFollowThePhase
  <2>4. \A i \in Seeds : catalog'[i] = catalog[i] \/ (status[i] # "succeeded" /\ loop # "batch")
    BY DEF IInv, TypeOK, RowsFollowThePhase
  <2>5. UNCHANGED innerVars /\ cancelled' \in BOOLEAN /\ (cancelled => cancelled')
    BY DEF IInv, TypeOK
  <2> QED
    BY <2>1, <2>2, <2>3, <2>4, <2>5, OutsideIInv
<1>2. CollectTypeOK'
  BY <1>1 DEF IInv
<1>3. RowsFollowThePhase'
  <2>1. CASE phase = "close_ingestion"
    BY <2>1, CompleteStays DEF RowsFollowThePhase
  <2>2. CASE phase = "close_empty"
    <3>1. RowsAreComplete
      BY <2>2, EmptyIsComplete DEF RowsFollowThePhase, IInv, TypeOK
    <3> QED
      BY <2>2, <3>1, CompleteStays DEF RowsFollowThePhase
  <2> QED
    BY <2>1, <2>2
<1>4. LeasesFollowThePhase'
  BY <1>1 DEF LeasesFollowThePhase, OnlyDeadKeepTheirLease, RowsFollowThePhase, IInv, TypeOK
<1>5. RunsFollowThePhase'
  BY DEF RunsFollowThePhase, IInv, TypeOK
<1>6. ExceptionsHaveACause'
  BY DEF ExceptionsHaveACause, IInv, TypeOK
<1>7. OkRunIsComplete'
  BY CompleteStays DEF OkRunIsComplete, RunsFollowThePhase, RowsFollowThePhase
<1>8. OkAnswerIsRecorded'
  BY DEF OkAnswerIsRecorded, RunsFollowThePhase, ExceptionsHaveACause
<1>9. RunsAreClosed'
  BY DEF RunsAreClosed, RunsFollowThePhase, IInv, TypeOK
<1>10. ProductLeasesAreReturned'
  BY DEF ProductLeasesAreReturned, OnlyDeadKeepTheirLease, LeasesFollowThePhase, ExceptionsHaveACause, IInv, TypeOK
<1> QED
  BY <1>1, <1>2, <1>3, <1>4, <1>5, <1>6, <1>7, <1>8, <1>9, <1>10

LEMMA CloseRunCollects == ASSUME CollectIInv, CloseRun PROVE CollectIInv'
<1> USE QueueAssumption
    DEF CollectIInv, CollectTypeOK, CloseRun, Try, CatchPhase, Outcome, Committed, Answers, innerVars, useCaseVars, rowVars, loopVars, sinkVars,
        Over, Unselected, Undrained, Judged, Trying, Catching
<1>1. IInv'
  <2>1. faults' \in faults..MaxFaults /\ status' \in [Items -> Status] /\ due' \subseteq Items
    BY DEF IInv, TypeOK, Status, Outstanding
  <2>2. catalog' \in [Seeds -> CatalogStatus]
    BY DEF IInv, TypeOK, CatalogStatus
  <2>3. \A i \in Items : \/ status'[i] = status[i]
                         \/ status[i] = "absent" /\ status'[i] = "pending" /\ loop = "top"
    BY DEF IInv, TypeOK, RowsFollowThePhase
  <2>4. \A i \in Seeds : catalog'[i] = catalog[i] \/ (status[i] # "succeeded" /\ loop # "batch")
    BY DEF IInv, TypeOK, RowsFollowThePhase
  <2>5. UNCHANGED innerVars /\ cancelled' \in BOOLEAN /\ (cancelled => cancelled')
    BY DEF IInv, TypeOK
  <2> QED
    BY <2>1, <2>2, <2>3, <2>4, <2>5, OutsideIInv
<1>2. CollectTypeOK'
  BY <1>1 DEF IInv
<1>3. RowsFollowThePhase'
  BY <1>1, CompleteStays DEF RowsFollowThePhase
<1>4. LeasesFollowThePhase'
  BY <1>1 DEF LeasesFollowThePhase, OnlyDeadKeepTheirLease, RowsFollowThePhase, IInv, TypeOK
<1>5. RunsFollowThePhase'
  BY DEF RunsFollowThePhase, IInv, TypeOK
<1>6. ExceptionsHaveACause'
  BY DEF ExceptionsHaveACause, IInv, TypeOK
<1>7. OkRunIsComplete'
  BY CompleteStays DEF OkRunIsComplete, RunsFollowThePhase, RowsFollowThePhase
<1>8. OkAnswerIsRecorded'
  BY DEF OkAnswerIsRecorded, RunsFollowThePhase, ExceptionsHaveACause
<1>9. RunsAreClosed'
  BY DEF RunsAreClosed, RunsFollowThePhase, IInv, TypeOK
<1>10. ProductLeasesAreReturned'
  BY DEF ProductLeasesAreReturned, OnlyDeadKeepTheirLease, LeasesFollowThePhase, ExceptionsHaveACause, IInv, TypeOK
<1> QED
  BY <1>1, <1>2, <1>3, <1>4, <1>5, <1>6, <1>7, <1>8, <1>9, <1>10

LEMMA CatchIngestionCollects == ASSUME CollectIInv, CatchIngestion PROVE CollectIInv'
<1> USE QueueAssumption
    DEF CollectIInv, CollectTypeOK, CatchIngestion, Catch, Outcome, Committed, innerVars, useCaseVars, rowVars, loopVars, sinkVars,
        Over, Unselected, Undrained, Judged, Trying, Catching
<1>1. IInv'
  <2>1. faults' \in faults..MaxFaults /\ status' \in [Items -> Status] /\ due' \subseteq Items
    BY DEF IInv, TypeOK, Status, Outstanding
  <2>2. catalog' \in [Seeds -> CatalogStatus]
    BY DEF IInv, TypeOK, CatalogStatus
  <2>3. \A i \in Items : \/ status'[i] = status[i]
                         \/ status[i] = "absent" /\ status'[i] = "pending" /\ loop = "top"
    BY DEF IInv, TypeOK, RowsFollowThePhase
  <2>4. \A i \in Seeds : catalog'[i] = catalog[i] \/ (status[i] # "succeeded" /\ loop # "batch")
    BY DEF IInv, TypeOK, RowsFollowThePhase
  <2>5. UNCHANGED innerVars /\ cancelled' \in BOOLEAN /\ (cancelled => cancelled')
    BY DEF IInv, TypeOK
  <2> QED
    BY <2>1, <2>2, <2>3, <2>4, <2>5, OutsideIInv
<1>2. CollectTypeOK'
  BY <1>1 DEF IInv
<1>3. RowsFollowThePhase'
  BY <1>1, CompleteStays DEF RowsFollowThePhase
<1>4. LeasesFollowThePhase'
  BY <1>1 DEF LeasesFollowThePhase, OnlyDeadKeepTheirLease, RowsFollowThePhase, IInv, TypeOK
<1>5. RunsFollowThePhase'
  BY DEF RunsFollowThePhase, IInv, TypeOK
<1>6. ExceptionsHaveACause'
  BY DEF ExceptionsHaveACause, IInv, TypeOK
<1>7. OkRunIsComplete'
  BY CompleteStays DEF OkRunIsComplete, RunsFollowThePhase, RowsFollowThePhase
<1>8. OkAnswerIsRecorded'
  BY DEF OkAnswerIsRecorded, RunsFollowThePhase, ExceptionsHaveACause
<1>9. RunsAreClosed'
  BY DEF RunsAreClosed, RunsFollowThePhase, IInv, TypeOK
<1>10. ProductLeasesAreReturned'
  BY DEF ProductLeasesAreReturned, OnlyDeadKeepTheirLease, LeasesFollowThePhase, ExceptionsHaveACause, IInv, TypeOK
<1> QED
  BY <1>1, <1>2, <1>3, <1>4, <1>5, <1>6, <1>7, <1>8, <1>9, <1>10

LEMMA CatchRunCollects == ASSUME CollectIInv, CatchRun PROVE CollectIInv'
<1> USE QueueAssumption
    DEF CollectIInv, CollectTypeOK, CatchRun, Catch, Answers, Outcome, Committed, innerVars, useCaseVars, rowVars, loopVars, sinkVars,
        Over, Unselected, Undrained, Judged, Trying, Catching
<1>1. IInv'
  <2>1. faults' \in faults..MaxFaults /\ status' \in [Items -> Status] /\ due' \subseteq Items
    BY DEF IInv, TypeOK, Status, Outstanding
  <2>2. catalog' \in [Seeds -> CatalogStatus]
    BY DEF IInv, TypeOK, CatalogStatus
  <2>3. \A i \in Items : \/ status'[i] = status[i]
                         \/ status[i] = "absent" /\ status'[i] = "pending" /\ loop = "top"
    BY DEF IInv, TypeOK, RowsFollowThePhase
  <2>4. \A i \in Seeds : catalog'[i] = catalog[i] \/ (status[i] # "succeeded" /\ loop # "batch")
    BY DEF IInv, TypeOK, RowsFollowThePhase
  <2>5. UNCHANGED innerVars /\ cancelled' \in BOOLEAN /\ (cancelled => cancelled')
    BY DEF IInv, TypeOK
  <2> QED
    BY <2>1, <2>2, <2>3, <2>4, <2>5, OutsideIInv
<1>2. CollectTypeOK'
  BY <1>1 DEF IInv
<1>3. RowsFollowThePhase'
  BY <1>1, CompleteStays DEF RowsFollowThePhase
<1>4. LeasesFollowThePhase'
  BY <1>1 DEF LeasesFollowThePhase, OnlyDeadKeepTheirLease, RowsFollowThePhase, IInv, TypeOK
<1>5. RunsFollowThePhase'
  BY DEF RunsFollowThePhase, IInv, TypeOK
<1>6. ExceptionsHaveACause'
  BY DEF ExceptionsHaveACause, IInv, TypeOK
<1>7. OkRunIsComplete'
  BY CompleteStays DEF OkRunIsComplete, RunsFollowThePhase, RowsFollowThePhase
<1>8. OkAnswerIsRecorded'
  BY DEF OkAnswerIsRecorded, RunsFollowThePhase, ExceptionsHaveACause
<1>9. RunsAreClosed'
  <2>1. phase = "catch_run" /\ ingestion' = ingestion /\ ingestion # "ok" /\ faults \in Nat
    BY DEF RunsFollowThePhase, IInv, TypeOK
  <2>2. run' \in {run, "error"} /\ (faults' = 0 => run' = "error" /\ ingestion # "running")
    BY <2>1 DEF RunsFollowThePhase
  <2>3. run' # "error" => faults' > 0 /\ (faults' <= 1 => run' = "running")
    BY <2>1 DEF RunsFollowThePhase
  <2> QED
    BY <2>1, <2>2, <2>3 DEF RunsAreClosed, RunsFollowThePhase
<1>10. ProductLeasesAreReturned'
  BY DEF ProductLeasesAreReturned, OnlyDeadKeepTheirLease, LeasesFollowThePhase, ExceptionsHaveACause, IInv, TypeOK
<1> QED
  BY <1>1, <1>2, <1>3, <1>4, <1>5, <1>6, <1>7, <1>8, <1>9, <1>10

LEMMA CancelledCallCollects == ASSUME CollectIInv, CancelledCall PROVE CollectIInv'
<1> USE QueueAssumption
    DEF CollectIInv, CollectTypeOK, CancelledCall, CatchPhase, vars, innerVars, useCaseVars, rowVars, loopVars, sinkVars,
        Over, Unselected, Undrained, Judged, Trying, Catching
<1>1. IInv'
  BY UnchangedIInv
<1>2. CollectTypeOK'
  BY <1>1 DEF IInv
<1>3. RowsFollowThePhase'
  BY <1>1, CompleteStays DEF RowsFollowThePhase
<1>4. LeasesFollowThePhase'
  BY <1>1 DEF LeasesFollowThePhase, OnlyDeadKeepTheirLease, RowsFollowThePhase, IInv, TypeOK
<1>5. RunsFollowThePhase'
  BY DEF RunsFollowThePhase, IInv, TypeOK
<1>6. ExceptionsHaveACause'
  BY DEF ExceptionsHaveACause, IInv, TypeOK
<1>7. OkRunIsComplete'
  BY CompleteStays DEF OkRunIsComplete, RunsFollowThePhase, RowsFollowThePhase
<1>8. OkAnswerIsRecorded'
  BY DEF OkAnswerIsRecorded, RunsFollowThePhase, ExceptionsHaveACause
<1>9. RunsAreClosed'
  BY DEF RunsAreClosed, RunsFollowThePhase, IInv, TypeOK
<1>10. ProductLeasesAreReturned'
  BY DEF ProductLeasesAreReturned, OnlyDeadKeepTheirLease, LeasesFollowThePhase, ExceptionsHaveACause, IInv, TypeOK
<1> QED
  BY <1>1, <1>2, <1>3, <1>4, <1>5, <1>6, <1>7, <1>8, <1>9, <1>10

LEMMA OperatorCancelCollects == ASSUME CollectIInv, OperatorCancel PROVE CollectIInv'
<1> USE QueueAssumption
    DEF CollectIInv, CollectTypeOK, OperatorCancel, innerVars, useCaseVars, rowVars, loopVars, sinkVars,
        Over, Unselected, Undrained, Judged, Trying, Catching
<1>1. IInv'
  <2>1. faults' \in faults..MaxFaults /\ status' \in [Items -> Status] /\ due' \subseteq Items
    BY DEF IInv, TypeOK, Status, Outstanding
  <2>2. catalog' \in [Seeds -> CatalogStatus]
    BY DEF IInv, TypeOK, CatalogStatus
  <2>3. \A i \in Items : \/ status'[i] = status[i]
                         \/ status[i] = "absent" /\ status'[i] = "pending" /\ loop = "top"
    BY DEF IInv, TypeOK, RowsFollowThePhase
  <2>4. \A i \in Seeds : catalog'[i] = catalog[i] \/ (status[i] # "succeeded" /\ loop # "batch")
    BY DEF IInv, TypeOK, RowsFollowThePhase
  <2>5. UNCHANGED innerVars /\ cancelled' \in BOOLEAN /\ (cancelled => cancelled')
    BY DEF IInv, TypeOK
  <2> QED
    BY <2>1, <2>2, <2>3, <2>4, <2>5, OutsideIInv
<1>2. CollectTypeOK'
  BY <1>1 DEF IInv
<1>3. RowsFollowThePhase'
  BY <1>1, CompleteStays DEF RowsFollowThePhase
<1>4. LeasesFollowThePhase'
  BY <1>1 DEF LeasesFollowThePhase, OnlyDeadKeepTheirLease, RowsFollowThePhase, IInv, TypeOK
<1>5. RunsFollowThePhase'
  BY DEF RunsFollowThePhase, IInv, TypeOK
<1>6. ExceptionsHaveACause'
  BY DEF ExceptionsHaveACause, IInv, TypeOK
<1>7. OkRunIsComplete'
  BY CompleteStays DEF OkRunIsComplete, RunsFollowThePhase, RowsFollowThePhase
<1>8. OkAnswerIsRecorded'
  BY DEF OkAnswerIsRecorded, RunsFollowThePhase, ExceptionsHaveACause
<1>9. RunsAreClosed'
  BY DEF RunsAreClosed, RunsFollowThePhase, IInv, TypeOK
<1>10. ProductLeasesAreReturned'
  BY DEF ProductLeasesAreReturned, OnlyDeadKeepTheirLease, LeasesFollowThePhase, ExceptionsHaveACause, IInv, TypeOK
<1> QED
  BY <1>1, <1>2, <1>3, <1>4, <1>5, <1>6, <1>7, <1>8, <1>9, <1>10

LEMMA KillCollects == ASSUME CollectIInv, Kill PROVE CollectIInv'
<1> USE QueueAssumption
    DEF CollectIInv, CollectTypeOK, Kill, vars, innerVars, useCaseVars, rowVars, loopVars, sinkVars,
        Over, Unselected, Undrained, Judged, Trying, Catching
<1>1. IInv'
  BY UnchangedIInv
<1>2. CollectTypeOK'
  BY <1>1 DEF IInv
<1>3. RowsFollowThePhase'
  BY <1>1, CompleteStays DEF RowsFollowThePhase
<1>4. LeasesFollowThePhase'
  BY <1>1 DEF LeasesFollowThePhase, OnlyDeadKeepTheirLease, RowsFollowThePhase, IInv, TypeOK
<1>5. RunsFollowThePhase'
  BY DEF RunsFollowThePhase, IInv, TypeOK
<1>6. ExceptionsHaveACause'
  BY DEF ExceptionsHaveACause, IInv, TypeOK
<1>7. OkRunIsComplete'
  BY CompleteStays DEF OkRunIsComplete, RunsFollowThePhase, RowsFollowThePhase
<1>8. OkAnswerIsRecorded'
  BY DEF OkAnswerIsRecorded, RunsFollowThePhase, ExceptionsHaveACause
<1>9. RunsAreClosed'
  BY DEF RunsAreClosed, RunsFollowThePhase, IInv, TypeOK
<1>10. ProductLeasesAreReturned'
  BY DEF ProductLeasesAreReturned, OnlyDeadKeepTheirLease, LeasesFollowThePhase, ExceptionsHaveACause, IInv, TypeOK
<1> QED
  BY <1>1, <1>2, <1>3, <1>4, <1>5, <1>6, <1>7, <1>8, <1>9, <1>10

(* What a step of the drain does to the leases, and why the drain fails.      *)

LEMMA HandlerLeases ==
  ASSUME IInv, NEW i \in Items, HandlerStep(i)
  PROVE  /\ UNCHANGED <<loop, cancelled>> /\ faults' \in Nat /\ faults' >= faults
         /\ \A j \in Seeds : catalog'[j] = catalog[j] \/ (j = i /\ status[i] # "absent" /\ status' = status)
<1> USE DEF IInv, TypeOK, rowVars, loopVars, sinkVars
<1>1. CASE Start(i) \/ Extract(i) \/ StoreObservation(i) \/ InsertCrawlError(i) \/ EnqueueDiscovered(i) \/ Abandon(i)
  BY <1>1 DEF Start, Extract, StoreObservation, InsertCrawlError, EnqueueDiscovered, Abandon, Call
<1>2. CASE MarkSucceeded(i) \/ MarkRetry(i) \/ MarkDead(i)
  BY <1>2 DEF MarkSucceeded, MarkRetry, MarkDead, MarkRow, Call
<1>3. CASE OnItemSucceeded(i) \/ OnItemDead(i)
  <2>1. status[i] # "absent"
    BY <1>3 DEF OnItemSucceeded, OnItemDead, HandlerOwnsRow, HandlerSteps, Busy, Idle
  <2> QED
    BY <1>3, <2>1 DEF OnItemSucceeded, OnItemDead, CatalogCallback, Call
<1> QED
  BY <1>1, <1>2, <1>3 DEF HandlerStep

(* A seed that is not in the queue stays as it was. *)
LEMMA DrainKeepsLeases ==
  ASSUME IInv, LoopStep \/ (\E i \in Items : HandlerStep(i)) \/ Clock,
         NEW j \in Seeds, status'[j] = "absent"
  PROVE  status[j] = "absent" /\ catalog'[j] = catalog[j]
<1>0. j \in Items
  BY QueueAssumption
<1>1. CASE LoopStep
  <2>1. status[j] = "absent"
    BY <1>0, <1>1, LoopStepEffect DEF Outstanding
  <2> QED
    BY <1>1, <2>1 DEF LoopStep, Reap, SkipReap, ReserveBatch, CheckOutstanding, Join, ObserveCancel, sinkVars
<1>2. ASSUME NEW i \in Items, HandlerStep(i) PROVE status[j] = "absent" /\ catalog'[j] = catalog[j]
  <2>1. status[j] = "absent"
    BY <1>0, <1>2, HandlerStepEffect DEF InsertRows
  <2> QED
    BY <1>2, <2>1, HandlerLeases
<1>3. CASE Clock
  BY <1>3 DEF Clock, ReaperTimer, RetryDelayPasses, LeaseExpires, rowVars, sinkVars
<1> QED
  BY <1>1, <1>2, <1>3

(* Undisturbed, a row that dies is handed to mark_failed. *)
LEMMA DrainReturnsDead ==
  ASSUME IInv, LoopStep \/ (\E i \in Items : HandlerStep(i)) \/ Clock,
         faults' = 0, ~cancelled',
         faults = 0 /\ ~cancelled => \A j \in Seeds : status[j] = "dead" /\ pc[j] # "dead_cb" => catalog[j] = "failed",
         NEW j \in Seeds, status'[j] = "dead", pc'[j] # "dead_cb"
  PROVE  catalog'[j] = "failed"
<1> USE DEF IInv, TypeOK
<1>0. j \in Items
  BY QueueAssumption
<1>1. CASE LoopStep
  <2>0. status[j] = "dead"
    BY <1>0, <1>1, LoopStepEffect DEF Outstanding
  <2>1. UNCHANGED <<cancelled, catalog>> /\ (faults' = 0 => faults = 0)
    BY <1>1 DEF LoopStep, Reap, SkipReap, ReserveBatch, CheckOutstanding, Join, ObserveCancel, LoopCall, sinkVars
  <2>2. pc[j] # "dead_cb"
    BY <1>0, <1>1, <2>0
       DEF LoopStep, Reap, SkipReap, ReserveBatch, CheckOutstanding, Join, ObserveCancel, HandlersJoined, Busy, Idle
  <2> QED
    BY <2>0, <2>1, <2>2
<1>2. ASSUME NEW i \in Items, HandlerStep(i) PROVE catalog'[j] = "failed"
  <2>1. faults = 0 /\ ~cancelled
    BY <1>2, HandlerLeases
  <2>2. CASE j # i
    <3>1. status[j] = "dead" /\ pc'[j] = pc[j]
      BY <1>0, <1>2, <2>2, HandlerStepEffect DEF InsertRows
    <3> QED
      BY <1>2, <2>1, <2>2, <3>1, HandlerLeases
  <2>3. CASE j = i /\ OnItemDead(i)
    BY <1>0, <2>1, <2>3 DEF OnItemDead, CatalogCallback, Call, Committed, Outcome
  <2>4. CASE j = i /\ ~OnItemDead(i)
    <3>0. inCatch = {}
      BY <2>1 DEF RowAttempts
    <3>1. pc[i] = "batched" \/ (Busy(i) /\ pc[i] # "dead_cb" /\ i \notin inCatch)
      BY <1>2, <2>1, <2>4, <3>0 DEF HandlerStep, Start, Extract, StoreObservation, InsertCrawlError,
         EnqueueDiscovered, OnItemSucceeded, MarkSucceeded, MarkRetry, MarkDead, MarkRow, Abandon, Busy, Idle
    <3>2. status[i] # "dead"
      BY <3>1 DEF HandlerOwnsRow
    <3>3. MarkDead(i)
      BY <1>2, <2>1, <2>4, <3>2 DEF HandlerStep, Abandon, Start, Extract, StoreObservation, InsertCrawlError,
         EnqueueDiscovered, InsertRows, OnItemSucceeded, CatalogCallback, MarkSucceeded, MarkRetry, MarkRow,
         SetSucceeded, SetRetry, rowVars
    <3> QED
      BY <1>0, <2>1, <2>4, <3>3 DEF MarkDead, MarkRow, Call
  <2> QED
    BY <2>2, <2>3, <2>4
<1>3. CASE Clock
  BY <1>3 DEF Clock, ReaperTimer, RetryDelayPasses, LeaseExpires, rowVars, loopVars, sinkVars
<1> QED
  BY <1>1, <1>2, <1>3

LEMMA DrainFails ==
  ASSUME IInv, LoopStep \/ (\E i \in Items : HandlerStep(i)) \/ Clock, loop \notin Ended
  PROVE  /\ loop' = "failed" => faults' > 0
         /\ loop' = "cancelled" => cancelled'
<1> USE DEF IInv, TypeOK, Ended
<1>1. CASE LoopStep
  BY <1>1 DEF LoopStep, Reap, SkipReap, ReserveBatch, CheckOutstanding, Join, ObserveCancel, LoopCall
<1>2. ASSUME NEW i \in Items, HandlerStep(i) PROVE loop' = loop
  BY <1>2, HandlerLeases
<1>3. CASE Clock
  BY <1>3 DEF Clock, ReaperTimer, RetryDelayPasses, LeaseExpires, loopVars
<1> QED
  BY <1>1, <1>2, <1>3

(* A step of the drain. *)
LEMMA DrainStepCollects == ASSUME CollectIInv, DrainStep PROVE CollectIInv'
<1> USE DEF CollectIInv, CollectTypeOK, useCaseVars, Over, Unselected, Undrained, Judged, Trying, Catching
<1>0. phase = "drain" /\ UNCHANGED useCaseVars /\ run = "running" /\ answer = "none"
  BY DEF DrainStep, RunsFollowThePhase
<1>1. IInv'
  BY DrainIInv DEF DrainStep
<1>2. CollectTypeOK'
  BY <1>0, <1>1 DEF IInv
<1>3. RowsFollowThePhase'
  BY <1>0 DEF RowsFollowThePhase
<1>4. LeasesFollowThePhase'
  <2>1. \A i \in Seeds : status'[i] = "absent" => catalog'[i] = "free"
    BY <1>0, DrainKeepsLeases DEF LeasesFollowThePhase, DrainStep
  <2>2. faults' = 0 /\ ~cancelled' => \A i \in Seeds : status'[i] = "dead" /\ pc'[i] # "dead_cb" => catalog'[i] = "failed"
    BY <1>0, DrainReturnsDead DEF LeasesFollowThePhase, DrainStep
  <2> QED
    BY <1>0, <2>1, <2>2 DEF LeasesFollowThePhase
<1>5. RunsFollowThePhase'
  BY <1>0 DEF RunsFollowThePhase
<1>6. ExceptionsHaveACause'
  BY <1>0, DrainFails DEF ExceptionsHaveACause, DrainStep
<1>7. OkRunIsComplete' /\ OkAnswerIsRecorded' /\ RunsAreClosed' /\ ProductLeasesAreReturned'
  BY <1>0 DEF OkRunIsComplete, OkAnswerIsRecorded, RunsAreClosed, ProductLeasesAreReturned, OnlyDeadKeepTheirLease
<1> QED
  BY <1>1, <1>2, <1>3, <1>4, <1>5, <1>6, <1>7

LEMMA CollectStutters == ASSUME CollectIInv, UNCHANGED collectVars PROVE CollectIInv'
<1> USE DEF CollectIInv, CollectTypeOK, collectVars, vars, useCaseVars, rowVars, loopVars, sinkVars
<1>1. IInv'
  BY UnchangedIInv
<1>2. CollectTypeOK'
  BY <1>1 DEF IInv
<1>3. RowsFollowThePhase'
  BY CompleteStays DEF RowsFollowThePhase
<1>4. LeasesFollowThePhase' /\ RunsFollowThePhase' /\ ExceptionsHaveACause'
  BY DEF LeasesFollowThePhase, OnlyDeadKeepTheirLease, RunsFollowThePhase, ExceptionsHaveACause
<1>5. OkRunIsComplete'
  BY CompleteStays DEF OkRunIsComplete
<1>6. OkAnswerIsRecorded' /\ RunsAreClosed' /\ ProductLeasesAreReturned'
  BY DEF OkAnswerIsRecorded, RunsAreClosed, ProductLeasesAreReturned, OnlyDeadKeepTheirLease
<1> QED
  BY <1>1, <1>2, <1>3, <1>4, <1>5, <1>6

LEMMA CollectStep == CollectIInv /\ [CollectNext]_collectVars => CollectIInv'
<1> SUFFICES ASSUME CollectIInv, [CollectNext]_collectVars PROVE CollectIInv'
  OBVIOUS
<1>1. CASE ProcessStep
  BY <1>1, StartRunCollects, StartIngestionCollects, SelectDueCollects, EnqueueCollects,
     ReleaseNotAcceptedCollects, ReleaseAllCollects, DrainEndedCollects, JudgeCollects, CloseIngestionCollects,
     CloseRunCollects, CatchIngestionCollects, CatchRunCollects, CancelledCallCollects DEF ProcessStep
<1>2. CASE UNCHANGED collectVars
  BY <1>2, CollectStutters
<1> QED
  BY <1>1, <1>2, DrainStepCollects, OperatorCancelCollects, KillCollects DEF CollectNext

(* The invariant of the use case holds whatever fails, and whenever the       *)
(* process is cancelled or killed.                                            *)
THEOREM CollectInductive == CollectSpec => []CollectIInv
<1> QED
  BY CollectInitIInv, CollectStep, PTL DEF CollectSpec

(* A run recorded as ok left no row open and kept within the error threshold. *)
THEOREM CollectOkIsComplete == CollectSpec => []OkRunIsComplete
<1> QED
  BY CollectInductive, PTL DEF CollectIInv

(* Both run rows say "ok" before the caller is told so.                       *)
THEOREM CollectAnswersTruly == CollectSpec => []OkAnswerIsRecorded
<1> QED
  BY CollectInductive, PTL DEF CollectIInv

(* A process that ends by itself closes its two run rows, alike unless two    *)
(* database calls failed.                                                     *)
THEOREM CollectClosesRuns == CollectSpec => []RunsAreClosed
<1> QED
  BY CollectInductive, PTL DEF CollectIInv

(* An undisturbed run gives every leased product back, a run recorded as ok    *)
(* all but those that died.                                                  *)
THEOREM CollectReturnsLeases == CollectSpec => []ProductLeasesAreReturned
<1> QED
  BY CollectInductive, PTL DEF CollectIInv

-----------------------------------------------------------------------------
(* Refinement of LeaseContract.                                               *)

LEMMA HeldByPhase ==
  /\ phase \in {"enqueue", "release_all", "release_some"} => HeldRows = Seeds
  /\ phase = "drain" => HeldRows = {i \in Seeds : status[i] \in Outstanding \/ Busy(i)}
  /\ phase \notin {"enqueue", "release_all", "release_some", "drain"} => HeldRows = {}
  /\ HeldRows \in SUBSET Seeds
<1> QED
  BY DEF HeldRows

LEMMA HeldByNextPhase ==
  /\ phase' \in {"enqueue", "release_all", "release_some"} => HeldRows' = Seeds
  /\ phase' = "drain" => HeldRows' = {i \in Seeds : status'[i] \in Outstanding \/ Busy(i)'}
  /\ phase' \notin {"enqueue", "release_all", "release_some", "drain"} => HeldRows' = {}
<1> QED
  BY DEF HeldRows

LEMMA LeaseSame ==
  ASSUME HeldRows' = HeldRows, catalog' = catalog, phase' = "drain" <=> phase = "drain"
  PROVE  [Lease!Next]_(Lease!vars)
<1>1. Unreserved' = Unreserved
  BY DEF Unreserved
<1> QED
  BY <1>1 DEF Lease!vars

(* Whatever ends the part of the run that has rows, and hands back none.      *)
LEMMA LeaseLeft ==
  ASSUME catalog' = catalog, phase' \notin {"enqueue", "release_all", "release_some", "drain"}
  PROVE  [Lease!Next]_(Lease!vars)
<1>1. HeldRows' = {} /\ phase' # "drain" /\ Unreserved' = Unreserved
  BY HeldByNextPhase DEF Unreserved
<1>2. CASE HeldRows = {}
  BY <1>1, <1>2 DEF Lease!vars
<1>3. CASE HeldRows # {}
  <2>1. Lease!GiveUp(HeldRows)
    BY <1>1, <1>3 DEF Lease!GiveUp
  <2> QED
    BY <2>1 DEF Lease!Next
<1> QED
  BY <1>2, <1>3

(* A release that is carried out before the run ends.                         *)
LEMMA LeaseReleased ==
  ASSUME phase \in {"release_some", "release_all"}, NEW S \in SUBSET Seeds, Release(S),
         phase' \notin {"enqueue", "release_all", "release_some", "drain"}
  PROVE  [Lease!Next]_(Lease!vars)
<1>1. HeldRows = Seeds /\ HeldRows' = {} /\ phase # "drain" /\ phase' # "drain"
  BY HeldByPhase, HeldByNextPhase
<1>2. Unreserved' = Unreserved \cup S
  BY DEF Release, Unreserved
<1>3. CASE Seeds = {}
  BY <1>1, <1>3 DEF Unreserved, Lease!vars
<1>4. CASE Seeds # {}
  <2>1. Lease!GiveUp(Seeds \ S)
    BY <1>1, <1>2, <1>4 DEF Lease!GiveUp
  <2>2. Seeds \ S \in SUBSET HeldRows
    BY <1>1
  <2> QED
    BY <2>1, <2>2 DEF Lease!Next
<1> QED
  BY <1>3, <1>4

LEMMA SelectDueLeases == ASSUME CollectIInv, SelectDue PROVE [Lease!Next]_(Lease!vars)
<1>1. PICK o \in Outcome, selected \in {{}, Seeds} :
        /\ catalog' = IF Committed(o) /\ selected # {} THEN [i \in Seeds |-> "reserved"] ELSE catalog
        /\ Try(o, IF selected = {} THEN "close_empty" ELSE "enqueue")
  BY DEF SelectDue
<1>2. /\ phase = "select" /\ HeldRows = {} /\ Unreserved = Seeds
      /\ phase' \in {"close_empty", "enqueue", "catch_ingestion"} /\ (phase' = "enqueue" => o = "ok" /\ selected # {})
  BY <1>1, HeldByPhase DEF SelectDue, Try, CatchPhase, CollectIInv, LeasesFollowThePhase, Unselected, Unreserved
<1>3. CASE ~(Committed(o) /\ selected # {})
  BY <1>1, <1>2, <1>3, LeaseLeft DEF Committed
<1>4. CASE Committed(o) /\ selected # {}
  <2>1. Seeds # {} /\ Unreserved' = {}
    BY <1>1, <1>4 DEF Unreserved
  <2>2. CASE phase' = "enqueue"
    <3>1. HeldRows' = Seeds
      BY <2>2, HeldByNextPhase
    <3>2. Lease!Reserve(Seeds)
      BY <1>2, <2>1, <2>2, <3>1 DEF Lease!Reserve
    <3> QED
      BY <2>1, <3>2 DEF Lease!Next
  <2>3. CASE phase' # "enqueue"
    <3>1. HeldRows' = {} /\ phase' # "drain"
      BY <1>2, <2>3, HeldByNextPhase
    <3>2. Lease!ReserveInVain(Seeds)
      BY <1>2, <2>1, <3>1 DEF Lease!ReserveInVain
    <3> QED
      BY <2>1, <3>2 DEF Lease!Next
  <2> QED
    BY <2>2, <2>3
<1> QED
  BY <1>3, <1>4

LEMMA EnqueueLeases == ASSUME CollectIInv, Enqueue PROVE [Lease!Next]_(Lease!vars)
<1>1. PICK o \in Outcome, accepted \in (SUBSET Seeds) \ {{}} :
        /\ IF Committed(o) THEN InsertRows(accepted) ELSE UNCHANGED rowVars
        /\ IF o = "ok"
             THEN phase' = (IF accepted = Seeds THEN "drain" ELSE "release_some")
             ELSE phase' = "release_all"
  BY DEF Enqueue
<1>2. phase = "enqueue" /\ HeldRows = Seeds /\ catalog' = catalog /\ Unreserved' = Unreserved /\ Seeds # {}
  BY HeldByPhase DEF Enqueue, Unreserved
<1>3. CASE phase' # "drain"
  <2>1. HeldRows' = Seeds
    BY <1>1, <1>3, HeldByNextPhase
  <2> QED
    BY <1>2, <1>3, <2>1, LeaseSame
<1>4. CASE phase' = "drain"
  <2>1. InsertRows(Seeds)
    BY <1>1, <1>4 DEF Committed
  <2>2. \A i \in Seeds : status'[i] = "pending"
    BY <1>2, <2>1, QueueAssumption
       DEF InsertRows, CollectIInv, RowsFollowThePhase, Undrained
  <2>3. HeldRows' = Seeds
    BY <1>4, <2>2, HeldByNextPhase DEF Outstanding
  <2>4. Lease!Begin(Seeds)
    BY <1>2, <1>4, <2>3 DEF Lease!Begin
  <2>5. Seeds \in (SUBSET HeldRows) \ {{}}
    BY <1>2
  <2> QED
    BY <2>4, <2>5 DEF Lease!Next
<1> QED
  BY <1>3, <1>4

LEMMA ReleaseNotAcceptedLeases == ASSUME CollectIInv, ReleaseNotAccepted PROVE [Lease!Next]_(Lease!vars)
<1> DEFINE out == {i \in Seeds : status[i] = "absent"}
<1>1. PICK o \in Outcome : /\ IF Committed(o) THEN Release(out) ELSE UNCHANGED catalog
                           /\ Try(o, "drain")
  BY DEF ReleaseNotAccepted
<1>2. /\ phase = "release_some" /\ HeldRows = Seeds /\ status' = status /\ pc' = pc
      /\ phase' \in {"drain", "catch_ingestion"} /\ (phase' = "drain" => o = "ok")
  BY <1>1, HeldByPhase DEF ReleaseNotAccepted, Try, CatchPhase, innerVars
<1>3. CASE ~Committed(o)
  <2>1. catalog' = catalog /\ phase' \notin {"enqueue", "release_all", "release_some", "drain"}
    BY <1>1, <1>2, <1>3 DEF Committed
  <2> QED
    BY <2>1, LeaseLeft
<1>4. CASE Committed(o) /\ phase' # "drain"
  <2>1. out \in SUBSET Seeds /\ Release(out) /\ phase' \notin {"enqueue", "release_all", "release_some", "drain"}
    BY <1>1, <1>2, <1>4
  <2> QED
    BY <1>2, <2>1, LeaseReleased
<1>5. CASE Committed(o) /\ phase' = "drain"
  <2>1. HeldRows' = Seeds \ out
    <3>1. \A i \in Seeds : status'[i] \in {"absent", "pending"} /\ pc'[i] = "out"
      BY <1>2, QueueAssumption
         DEF CollectIInv, RowsFollowThePhase, Undrained, IInv, TypeOK
    <3> QED
      BY <1>2, <1>5, <3>1, HeldByNextPhase DEF Outstanding, Busy, Idle
  <2>2. Unreserved' = Unreserved \cup out
    BY <1>1, <1>5 DEF Release, Unreserved
  <2> HIDE DEF out
  <2>3. CASE Seeds \ out # {}
    <3>1. Lease!Begin(Seeds \ out)
      BY <1>2, <1>5, <2>1, <2>2, <2>3 DEF Lease!Begin
    <3>2. Seeds \ out \in (SUBSET HeldRows) \ {{}}
      BY <1>2, <2>3
    <3> QED
      BY <3>1, <3>2 DEF Lease!Next
  <2>4. CASE Seeds \ out = {} /\ Seeds # {}
    <3>1. Lease!GiveUp({})
      BY <1>2, <2>1, <2>2, <2>4 DEF Lease!GiveUp
    <3> QED
      BY <3>1 DEF Lease!Next
  <2>5. CASE Seeds = {}
    BY <1>2, <2>1, <2>5 DEF Unreserved, Lease!vars
  <2> QED
    BY <2>3, <2>4, <2>5
<1> QED
  BY <1>3, <1>4, <1>5

LEMMA ReleaseAllLeases == ASSUME ReleaseAll PROVE [Lease!Next]_(Lease!vars)
<1>1. /\ phase \in {"release_some", "release_all"} /\ Seeds \in SUBSET Seeds
      /\ phase' \notin {"enqueue", "release_all", "release_some", "drain"}
      /\ Release(Seeds) \/ catalog' = catalog
  BY DEF ReleaseAll
<1> QED
  BY <1>1, LeaseLeft, LeaseReleased

(* What the callbacks leave is no reservation.                                *)
LEMMA CallbackMarks ==
  ASSUME IInv, NEW i \in Items, HandlerStep(i), NEW j \in Seeds, catalog'[j] # catalog[j]
  PROVE  j = i /\ catalog'[j] # "reserved"
<1> USE DEF IInv, TypeOK, sinkVars
<1>1. CASE OnItemSucceeded(i) \/ OnItemDead(i)
  BY <1>1 DEF OnItemSucceeded, OnItemDead, CatalogCallback
<1>2. CASE ~(OnItemSucceeded(i) \/ OnItemDead(i))
  BY <1>2 DEF HandlerStep, Start, Extract, StoreObservation, InsertCrawlError, EnqueueDiscovered,
     MarkSucceeded, MarkRetry, MarkDead, MarkRow, Abandon
<1> QED
  BY <1>1, <1>2

(* A step of a handler deals with its own row.                                *)
LEMMA HandlerLeasesOne ==
  ASSUME IInv, phase = "drain", phase' = "drain", NEW i \in Items, HandlerStep(i),
         \A j \in Seeds : status[j] = "absent" => status'[j] = "absent"
  PROVE  [Lease!Next]_(Lease!vars)
<1> USE QueueAssumption DEF IInv, TypeOK
<1>1. \A j \in Seeds : j # i => (j \in HeldRows' <=> j \in HeldRows) /\ (j \in Unreserved' <=> j \in Unreserved)
  <2> SUFFICES ASSUME NEW j \in Seeds, j # i
               PROVE  (j \in HeldRows' <=> j \in HeldRows) /\ (j \in Unreserved' <=> j \in Unreserved)
    OBVIOUS
  <2>1. status'[j] = status[j] /\ pc'[j] = pc[j]
    BY HandlerStepEffect DEF InsertRows
  <2>2. catalog'[j] = catalog[j]
    BY CallbackMarks
  <2> QED
    BY <2>1, <2>2, HeldByPhase, HeldByNextPhase DEF Unreserved, Busy
<1>2. HeldRows \in SUBSET Seeds /\ HeldRows' \in SUBSET Seeds /\ Unreserved \in SUBSET Seeds /\ Unreserved' \in SUBSET Seeds
  BY DEF HeldRows, Unreserved
<1>3. /\ i \notin HeldRows' => HeldRows' = HeldRows \ {i}
      /\ (i \in HeldRows' <=> i \in HeldRows) => HeldRows' = HeldRows
  <2>1. PICK H, K : H = HeldRows /\ K = HeldRows'
    OBVIOUS
  <2>2. H \in SUBSET Seeds /\ K \in SUBSET Seeds /\ \A j \in Seeds : j # i => (j \in K <=> j \in H)
    BY <1>1, <1>2, <2>1
  <2>3. (i \notin K => K = H \ {i}) /\ ((i \in K <=> i \in H) => K = H)
    BY <2>2
  <2> QED
    BY <2>1, <2>3
<1>4. /\ (i \in Unreserved' <=> i \in Unreserved) => Unreserved' = Unreserved
      /\ i \in Unreserved' => Unreserved' = Unreserved \cup {i}
  <2>1. PICK U, V : U = Unreserved /\ V = Unreserved'
    OBVIOUS
  <2>2. U \in SUBSET Seeds /\ V \in SUBSET Seeds /\ \A j \in Seeds : j # i => (j \in V <=> j \in U)
    BY <1>1, <1>2, <2>1
  <2>3. ((i \in V <=> i \in U) => V = U) /\ (i \in V => V = U \cup {i})
    BY <2>2
  <2> QED
    BY <2>1, <2>3
<1>5. CASE i \notin Seeds
  <2>1. HeldRows' = HeldRows /\ Unreserved' = Unreserved
    BY <1>1, <1>2, <1>3, <1>4, <1>5
  <2> QED
    BY <2>1 DEF Lease!vars
<1>6. CASE i \in Seeds
  <2>1. i \in HeldRows
    <3>1. Busy(i) \/ pc[i] = "batched"
      BY HandlerStepEffect DEF HeldRow, Busy, Idle
    <3>2. pc[i] = "batched" => status[i] = "reserved"
      BY DEF HandlerOwnsRow
    <3> QED
      BY <1>6, <3>1, <3>2, HeldByPhase DEF Outstanding
  <2>2. i \in Unreserved => i \in Unreserved'
    BY <1>6, CallbackMarks DEF Unreserved
  <2>3. CASE i \notin HeldRows'
    <3>1. HeldRows' = HeldRows \ {i} /\ (Unreserved' = Unreserved \/ Unreserved' = Unreserved \cup {i})
      BY <1>3, <1>4, <2>2, <2>3
    <3>2. Lease!Settle(i)
      BY <2>1, <3>1 DEF Lease!Settle
    <3> QED
      BY <2>1, <3>2 DEF Lease!Next
  <2>4. CASE i \in HeldRows' /\ (i \in Unreserved' <=> i \in Unreserved)
    <3>1. HeldRows' = HeldRows /\ Unreserved' = Unreserved
      BY <1>3, <1>4, <2>1, <2>4
    <3> QED
      BY <3>1 DEF Lease!vars
  <2>5. CASE i \in HeldRows' /\ i \in Unreserved' /\ i \notin Unreserved
    <3>1. HeldRows' = HeldRows /\ Unreserved' = Unreserved \cup {i}
      BY <1>3, <1>4, <2>1, <2>5
    <3>2. Lease!MarkEarly(i)
      BY <2>1, <3>1 DEF Lease!MarkEarly
    <3> QED
      BY <2>1, <3>2 DEF Lease!Next
  <2> QED
    BY <2>2, <2>3, <2>4, <2>5
<1> QED
  BY <1>5, <1>6

LEMMA DrainStepLeases == ASSUME CollectIInv, DrainStep PROVE [Lease!Next]_(Lease!vars)
<1> USE DEF CollectIInv, IInv, TypeOK
<1>1. phase = "drain" /\ phase' = "drain" /\ \A j \in Seeds : status[j] = "absent" => status'[j] = "absent"
  BY DEF DrainStep, useCaseVars
<1>2. ASSUME NEW i \in Items, HandlerStep(i) PROVE [Lease!Next]_(Lease!vars)
  BY <1>1, <1>2, HandlerLeasesOne
<1>3. CASE LoopStep
  <2>1. catalog' = catalog
    BY <1>3 DEF LoopStep, Reap, SkipReap, ReserveBatch, CheckOutstanding, Join, ObserveCancel, sinkVars
  <2>2. \A j \in Items : status'[j] \in Outstanding <=> status[j] \in Outstanding
    BY <1>3, LoopStepEffect
  <2>3. \A j \in Items : ~Busy(j) /\ ~Busy(j)'
    BY <1>3 DEF LoopStep, Reap, SkipReap, ReserveBatch, CheckOutstanding, Join, ObserveCancel, HandlersJoined, Busy, Idle
  <2>4. HeldRows' = HeldRows
    BY <1>1, <2>2, <2>3, HeldByPhase, HeldByNextPhase, QueueAssumption
  <2> QED
    BY <1>1, <2>1, <2>4, LeaseSame
<1>4. CASE Clock
  <2>1. UNCHANGED <<status, pc, catalog>>
    BY <1>4 DEF Clock, ReaperTimer, RetryDelayPasses, LeaseExpires, rowVars, sinkVars
  <2>2. HeldRows' = HeldRows
    BY <1>1, <2>1, HeldByPhase, HeldByNextPhase DEF Busy
  <2> QED
    BY <1>1, <2>1, <2>2, LeaseSame
<1> QED
  BY <1>2, <1>3, <1>4 DEF DrainStep

LEMMA OperatorCancelLeases == ASSUME OperatorCancel \/ UNCHANGED collectVars PROVE [Lease!Next]_(Lease!vars)
<1>1. UNCHANGED <<status, pc, catalog, phase>>
  BY DEF OperatorCancel, collectVars, vars, rowVars, sinkVars, useCaseVars
<1>2. HeldRows' = HeldRows
  BY <1>1 DEF HeldRows, Busy
<1> QED
  BY <1>1, <1>2, LeaseSame

(* Steps that touch no lease and leave the run without rows.                  *)
LEMMA OtherStepLeases ==
  ASSUME \/ StartRun \/ StartIngestion \/ DrainEnded \/ Judge \/ CloseIngestion \/ CloseRun
         \/ CatchIngestion \/ CatchRun \/ CancelledCall \/ Kill
  PROVE  [Lease!Next]_(Lease!vars)
<1>1. catalog' = catalog
  BY DEF StartRun, StartIngestion, DrainEnded, Judge, CloseIngestion, CloseRun, CatchIngestion, CatchRun,
     CancelledCall, Kill, vars, sinkVars
<1>2. phase' \notin {"enqueue", "release_all", "release_some", "drain"}
  BY DEF StartRun, StartIngestion, DrainEnded, Judge, CloseIngestion, CloseRun, CatchIngestion, CatchRun,
     CancelledCall, Kill, Try, Catch, CatchPhase
<1> QED
  BY <1>1, <1>2, LeaseLeft

LEMMA LeaseInitially == CollectInit => Lease!Init
<1> SUFFICES ASSUME CollectInit PROVE Lease!Init
  OBVIOUS
<1>1. HeldRows = {} /\ Unreserved = Seeds /\ phase # "drain"
  BY HeldByPhase DEF CollectInit, Unreserved
<1> QED
  BY <1>1 DEF Lease!Init

(* The use case implements LeaseContract: it touches the reservations of its  *)
(* rows as long as it has them, and no other.                                 *)
THEOREM CollectKeepsLeases == CollectSpec => KeepsLeaseContract
<1>1. CollectIInv /\ [CollectNext]_collectVars => [Lease!Next]_(Lease!vars)
  BY SelectDueLeases, EnqueueLeases, ReleaseNotAcceptedLeases, ReleaseAllLeases, DrainStepLeases,
     OperatorCancelLeases, OtherStepLeases DEF CollectNext, ProcessStep
<1> QED
  BY <1>1, LeaseInitially, CollectInductive, PTL DEF CollectSpec, KeepsLeaseContract, Lease!Spec
=============================================================================
