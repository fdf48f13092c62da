---------------------------- MODULE CrawlerProofs ----------------------------
(***************************************************************************)
(* Proofs about what the crawler does on its way to the shop: the          *)
(* coordinator every request passes (RequestCoordinator), for any number   *)
(* of calls, any rate, threshold, interval and number of attempts, and     *)
(* the reading of the categories (Categories), for any number of           *)
(* refreshes, any menus and listings, page size and page limit.            *)
(***************************************************************************)
EXTENDS RequestCoordinator, Categories, FiniteSetTheorems, SequenceTheorems, WellFoundedInduction, NaturalsInduction, TLAPS

-----------------------------------------------------------------------------
(* RequestCoordinator.                                                       *)


LEMMA RequestNumbers ==
  /\ Cardinality(Clients) \in Nat /\ Permits \in Nat /\ Permits >= 10 /\ PermitsPerRequest = 10
  /\ Threshold \in Nat \ {0} /\ OpenSeconds \in Nat \ {0} /\ MaxAttempts \in Nat \ {0}
  /\ MaxStall \in Nat /\ MaxStall < OpenSeconds
  /\ MaxConcurrency \in Nat \ {0} /\ QueueFactor \in Nat \ {0}
<1>1. Cardinality(Clients) \in Nat
  BY FS_CardinalityType, RequestAssumption
<1> QED
  BY <1>1, RequestAssumption DEF Permits, PermitsPerRequest, Larger

(* The part of the invariant about the breaker's numbers. *)
Counting ==
  /\ BreakerIsOpen => hot = 0
  /\ hot <= failures
  /\ hot < Threshold + Cardinality(Pending)

(* The part about single handlers. *)
Places ==
  /\ \A c \in Clients : pc[c] \notin {"stamped", "opened"} => age[c] = 0
  /\ \A c \in Clients : pc[c] \in {"retry", "counted", "stamped", "opened"} => attempt[c] > 0
  /\ \A c \in Clients : pc[c] = "opened" => until = OpenSeconds - age[c]
  /\ \A c \in Clients : pc[c] = "retry" => attempt[c] < MaxAttempts

LEMMA RequestParts == RequestIInv <=> RequestTypeOK /\ InLineOnce /\ OneSlipEach /\ Places /\ Counting
BY DEF RequestIInv, Places, Counting

LEMMA PendingCount ==
  /\ IsFiniteSet(Pending) /\ Cardinality(Pending) \in Nat /\ Cardinality(Pending) <= Cardinality(Clients)
<1>1. Pending \subseteq Clients
  BY DEF Pending
<1> QED
  BY <1>1, FS_Subset, FS_CardinalityType, RequestAssumption

-----------------------------------------------------------------------------
(* What keeps each part.                                                    *)

(* The line as it was, and nobody who enters or leaves it. *)
LEMMA SameLine ==
  ASSUME InLineOnce, line' = line, \A c \in Clients : pc'[c] = "line" <=> pc[c] = "line"
  PROVE  InLineOnce'
BY DEF InLineOnce

(* The breaker does not open, and nobody gets behind it. *)
LEMMA NoNewSlip ==
  ASSUME OneSlipEach, BreakerIsOpen' => BreakerIsOpen, slipped' = slipped, slipped \subseteq Clients,
         \A c \in Clients : pc'[c] \in {"line", "granted"} => pc[c] \in {"line", "granted"}
  PROVE  OneSlipEach'
BY DEF OneSlipEach

(* The numbers as they were, and nobody less who is about to open. *)
LEMMA SameCounts ==
  ASSUME RequestTypeOK, Counting, RequestTypeOK', hot' = hot, failures' >= failures, failures' \in Nat,
         BreakerIsOpen' => BreakerIsOpen, Pending \subseteq Pending'
  PROVE  Counting'
<1>1. Cardinality(Pending) <= Cardinality(Pending')
  <2>1. IsFiniteSet(Pending')
    <3>1. Pending' \subseteq Clients
      BY DEF Pending
    <3> QED
      BY <3>1, FS_Subset, RequestAssumption
  <2> QED
    BY <2>1, FS_Subset
<1>2. Cardinality(Pending) \in Nat /\ Cardinality(Pending') \in Nat
  <2>1. Pending \subseteq Clients /\ Pending' \subseteq Clients
    BY DEF Pending
  <2> QED
    BY <2>1, FS_Subset, FS_CardinalityType, RequestAssumption
<1> QED
  BY <1>1, <1>2, RequestNumbers DEF Counting, RequestTypeOK

LEMMA ZeroCounts ==
  ASSUME hot' = 0, failures' \in Nat
  PROVE  Counting'
<1>1. Cardinality(Pending') \in Nat
  <2>1. Pending' \subseteq Clients
    BY DEF Pending
  <2> QED
    BY <2>1, FS_Subset, FS_CardinalityType, RequestAssumption
<1> QED
  BY <1>1, RequestNumbers DEF Counting

LEMMA RequestInit == Init => RequestIInv
<1> SUFFICES ASSUME Init PROVE RequestIInv
  OBVIOUS
<1>1. RequestTypeOK /\ InLineOnce /\ OneSlipEach /\ Places
  BY RequestNumbers DEF Init, RequestTypeOK, InLineOnce, OneSlipEach, Places, BreakerIsOpen
<1>2. Counting
  BY PendingCount, RequestNumbers DEF Init, Counting
<1> QED
  BY <1>1, <1>2, RequestParts

-----------------------------------------------------------------------------
(* One lemma per action.                                                    *)

(* The steps on the way that touch neither the line nor the breaker. *)
LEMMA MoveKeeps ==
  ASSUME RequestIInv, NEW c \in Clients, Begin(c) \/ PageAnswer(c) \/ Retry(c) \/ Stamp(c)
  PROVE  RequestIInv'
<1>p. RequestTypeOK /\ InLineOnce /\ OneSlipEach /\ Places /\ Counting
  BY RequestParts
<1> USE <1>p
<1>1. /\ RequestTypeOK' /\ Places'
      /\ UNCHANGED <<breakerVars, tokens, line>>
      /\ \A d \in Clients : pc'[d] \in {"line", "granted"} <=> pc[d] \in {"line", "granted"}
      /\ \A d \in Clients : pc'[d] = "line" <=> pc[d] = "line"
  <2>1. CASE Begin(c)
    BY <2>1, RequestNumbers DEF Begin, RequestTypeOK, Places, Goes, breakerVars, BreakerIsOpen
  <2>2. CASE PageAnswer(c)
    BY <2>2, RequestNumbers DEF PageAnswer, RequestTypeOK, Places, Goes, breakerVars, BreakerIsOpen
  <2>3. CASE Retry(c)
    BY <2>3, RequestNumbers DEF Retry, RequestTypeOK, Places, Goes, breakerVars, BreakerIsOpen
  <2>4. CASE Stamp(c)
    BY <2>4, RequestNumbers DEF Stamp, RequestTypeOK, Places, Goes, breakerVars, BreakerIsOpen
  <2> QED
    BY <2>1, <2>2, <2>3, <2>4
<1>2. InLineOnce' /\ OneSlipEach'
  BY <1>1, SameLine, NoNewSlip DEF breakerVars, BreakerIsOpen, RequestTypeOK
<1>3. Pending \subseteq Pending'
  BY DEF Begin, PageAnswer, Retry, Stamp, RequestTypeOK, Goes, Pending, OpenAlready, breakerVars
<1>4. Counting'
  BY <1>1, <1>3, SameCounts DEF breakerVars, BreakerIsOpen, RequestTypeOK
<1> QED
  BY <1>1, <1>2, <1>4 DEF RequestIInv, Places, Counting

(* Who is served at once or refused does not enter the line.                  *)
LEMMA PassKeeps == ASSUME RequestIInv, NEW c \in Clients, Pass(c) PROVE RequestIInv'
<1>p. RequestTypeOK /\ InLineOnce /\ OneSlipEach /\ Places /\ Counting
  BY RequestParts
<1> USE <1>p
<1>0. /\ pc[c] = "waiting" /\ ~BreakerIsOpen /\ UNCHANGED <<attempt, age, breakerVars>>
      /\ \/ Goes(c, "line") /\ line' = Append(line, c)
         \/ Goes(c, "granted") /\ line' = line
         \/ Goes(c, "idle") /\ line' = line
  BY DEF Pass, Served
<1>1. RequestTypeOK' /\ Places' /\ UNCHANGED <<age, breakerVars>>
  <2>1. tokens' \in 0..Permits
    BY RequestNumbers DEF Pass, Served, RequestTypeOK
  <2>2. line' \in Seq(Clients)
    <3>1. line \in Seq(Clients)
      BY DEF RequestTypeOK
    <3>2. line' = Append(line, c) \/ line' = line
      BY <1>0
    <3> QED
      BY <3>1, <3>2
  <2> QED
    BY <1>0, <2>1, <2>2, RequestNumbers DEF RequestTypeOK, Places, Goes, breakerVars, BreakerIsOpen
<1>2. InLineOnce'
  <2>1. CASE Goes(c, "line") /\ line' = Append(line, c)
    <3>1. /\ line' = Append(line, c) /\ line \in Seq(Clients) /\ Len(line) \in Nat
          /\ Len(line') = Len(line) + 1 /\ line'[Len(line) + 1] = c
          /\ \A i \in 1..Len(line) : line'[i] = line[i]
          /\ pc'[c] = "line" /\ pc[c] # "line" /\ \A d \in Clients : d # c => pc'[d] = pc[d]
      BY <1>0, <2>1 DEF RequestTypeOK, Goes
    <3>2. \A i \in 1..Len(line) : line[i] # c
      BY <3>1 DEF InLineOnce
    <3>3. \A i, j \in 1..Len(line') : line'[i] = line'[j] => i = j
      BY <3>1, <3>2 DEF InLineOnce
    <3>4. \A d \in Clients : pc'[d] = "line" <=> \E i \in 1..Len(line') : line'[i] = d
      BY <3>1, <3>2 DEF InLineOnce
    <3> QED
      BY <3>3, <3>4 DEF InLineOnce
  <2>2. CASE (Goes(c, "granted") \/ Goes(c, "idle")) /\ line' = line
    <3>1. \A d \in Clients : pc'[d] = "line" <=> pc[d] = "line"
      BY <1>0, <2>2 DEF RequestTypeOK, Goes
    <3> QED
      BY <2>2, <3>1, SameLine
  <2> QED
    BY <1>0, <2>1, <2>2
<1>3. OneSlipEach'
  BY <1>0, <1>1 DEF OneSlipEach, BreakerIsOpen, breakerVars
<1>4. Pending \subseteq Pending'
  BY <1>0 DEF RequestTypeOK, Goes, Pending, OpenAlready, breakerVars
<1>5. Counting'
  BY <1>1, <1>4, SameCounts DEF breakerVars, BreakerIsOpen, RequestTypeOK
<1> QED
  BY <1>1, <1>2, <1>3, <1>5 DEF RequestIInv, Places, Counting

(* The line without its first calls, which are in it no more.                *)
LEMMA ReplenishKeeps ==
  ASSUME RequestTypeOK, InLineOnce, Replenish
  PROVE  /\ InLineOnce' /\ tokens' \in 0..Permits /\ line' \in Seq(Clients)
         /\ pc' \in [Clients -> {"idle", "waiting", "line", "granted", "sent", "retry", "counted", "stamped", "opened"}]
         /\ \A c \in Clients : pc'[c] \in {"line", "granted"} <=> pc[c] \in {"line", "granted"}
         /\ \A c \in Clients : pc'[c] \notin {"line", "granted"} => pc'[c] = pc[c]
         /\ \A c \in Clients : pc[c] \notin {"line", "granted"} => pc'[c] = pc[c]
<1> DEFINE k == Serves
<1>1. /\ Len(line) \in Nat /\ k \in 0..Len(line) /\ PermitsPerRequest * k <= Permits /\ PermitsPerRequest * k \in Nat
  <2>1. Permits \div 10 \in Nat /\ 10 * (Permits \div 10) <= Permits
    BY RequestNumbers
  <2>2. Len(line) \in Nat
    BY DEF RequestTypeOK
  <2> QED
    BY <2>1, <2>2, RequestNumbers DEF Serves, Smaller
<1>2. /\ tokens' = Permits - PermitsPerRequest * k
      /\ line' = SubSeq(line, k + 1, Len(line))
      /\ pc' = [c \in Clients |-> IF \E i \in 1..k : line[i] = c THEN "granted" ELSE pc[c]]
  BY DEF Replenish
<1> HIDE DEF k
<1>3. /\ line' \in Seq(Clients) /\ Len(line') = Len(line) - k
      /\ \A i \in 1..Len(line') : line'[i] = line[i + k]
  BY <1>1, <1>2 DEF RequestTypeOK
<1>4. \A c \in Clients : (\E i \in 1..k : line[i] = c) => pc[c] = "line"
  BY <1>1 DEF InLineOnce
<1>5. tokens' \in 0..Permits
  BY <1>1, <1>2, RequestNumbers
<1>6. pc' \in [Clients -> {"idle", "waiting", "line", "granted", "sent", "retry", "counted", "stamped", "opened"}]
  BY <1>2 DEF RequestTypeOK
<1>7. \A i, j \in 1..Len(line') : line'[i] = line'[j] => i = j
  <2> SUFFICES ASSUME NEW i \in 1..Len(line'), NEW j \in 1..Len(line'), line'[i] = line'[j] PROVE i = j
    OBVIOUS
  <2>1. i + k \in 1..Len(line) /\ j + k \in 1..Len(line) /\ line[i + k] = line[j + k]
    BY <1>1, <1>3
  <2>2. i + k = j + k
    BY <2>1 DEF InLineOnce
  <2> QED
    BY <1>1, <1>3, <2>2
<1>8. ASSUME NEW c \in Clients PROVE pc'[c] = "line" <=> \E i \in 1..Len(line') : line'[i] = c
  <2>1. ASSUME pc'[c] = "line" PROVE \E i \in 1..Len(line') : line'[i] = c
    <3>1. pc[c] = "line" /\ \A i \in 1..k : line[i] # c
      BY <1>2, <2>1
    <3>2. PICK n \in 1..Len(line) : line[n] = c
      BY <3>1 DEF InLineOnce
    <3>3. n - k \in 1..Len(line') /\ (n - k) + k = n
      BY <1>1, <1>3, <3>1, <3>2
    <3> QED
      BY <1>3, <3>2, <3>3
  <2>2. ASSUME NEW i \in 1..Len(line'), line'[i] = c PROVE pc'[c] = "line"
    <3>1. i + k \in 1..Len(line) /\ line[i + k] = c
      BY <1>1, <1>3, <2>2
    <3>2. pc[c] = "line"
      BY <3>1 DEF InLineOnce
    <3>3. \A n \in 1..k : line[n] # c
      <4> SUFFICES ASSUME NEW n \in 1..k, line[n] = c PROVE FALSE
        OBVIOUS
      <4>1. n \in 1..Len(line) /\ n # i + k
        BY <1>1
      <4> QED
        BY <3>1, <4>1 DEF InLineOnce
    <3> QED
      BY <1>2, <3>2, <3>3
  <2> QED
    BY <2>1, <2>2
<1>9. InLineOnce'
  BY <1>7, <1>8 DEF InLineOnce
<1> QED
  BY <1>2, <1>3, <1>4, <1>5, <1>6, <1>9

LEMMA SendKeeps == ASSUME RequestIInv, NEW c \in Clients, Send(c) PROVE RequestIInv'
<1>p. RequestTypeOK /\ InLineOnce /\ OneSlipEach /\ Places /\ Counting
  BY RequestParts
<1> USE <1>p
<1>1. /\ RequestTypeOK' /\ Places' /\ UNCHANGED <<age, failures, until, hot, line>>
      /\ \A d \in Clients : pc'[d] = "line" <=> pc[d] = "line"
  BY RequestNumbers DEF Send, RequestTypeOK, Places, Goes, BreakerIsOpen
<1>2. InLineOnce'
  BY <1>1, SameLine
<1>3. OneSlipEach'
  BY DEF Send, OneSlipEach, BreakerIsOpen, Goes, RequestTypeOK
<1>4. Pending \subseteq Pending'
  BY DEF Send, RequestTypeOK, Goes, Pending, OpenAlready
<1>5. Counting'
  BY <1>1, <1>4, SameCounts DEF BreakerIsOpen, RequestTypeOK
<1> QED
  BY <1>1, <1>2, <1>3, <1>5 DEF RequestIInv, Places, Counting

(* The failure that reaches the threshold is pending from then on. *)
LEMMA FailureKeeps == ASSUME RequestIInv, NEW c \in Clients, TransientFailure(c) PROVE RequestIInv'
<1>p. RequestTypeOK /\ InLineOnce /\ OneSlipEach /\ Places /\ Counting
  BY RequestParts
<1> USE <1>p
<1>1. /\ RequestTypeOK' /\ Places' /\ UNCHANGED <<age, until, slipped, line>>
      /\ \A d \in Clients : pc'[d] \in {"line", "granted"} <=> pc[d] \in {"line", "granted"}
      /\ \A d \in Clients : pc'[d] = "line" <=> pc[d] = "line"
  BY RequestNumbers DEF TransientFailure, After, RequestTypeOK, Places, Goes, BreakerIsOpen
<1>2. InLineOnce' /\ OneSlipEach'
  BY <1>1, SameLine, NoNewSlip DEF BreakerIsOpen, RequestTypeOK
<1>3. Pending \subseteq Pending' /\ c \notin Pending
  BY DEF TransientFailure, RequestTypeOK, Goes, Pending, OpenAlready
<1>t. /\ failures' = failures + 1 /\ hot' = IF BreakerIsOpen THEN hot ELSE hot + 1
      /\ failures \in Nat /\ hot \in Nat
  BY DEF TransientFailure, RequestTypeOK
<1>4. ASSUME BreakerIsOpen PROVE Counting'
  <2>1. failures' >= failures /\ failures' \in Nat /\ hot' = hot /\ (BreakerIsOpen' => BreakerIsOpen)
    BY <1>t, <1>4
  <2> QED
    BY <1>1, <1>3, <2>1, SameCounts
<1>5. ASSUME ~BreakerIsOpen, failures + 1 < Threshold PROVE Counting'
  <2>1. Cardinality(Pending') \in Nat
    <3>1. Pending' \subseteq Clients
      BY DEF Pending
    <3> QED
      BY <3>1, FS_Subset, FS_CardinalityType, RequestAssumption
  <2> QED
    BY <1>1, <1>t, <1>5, <2>1, RequestNumbers DEF Counting, BreakerIsOpen
<1>6. ASSUME ~BreakerIsOpen, ~(failures + 1 < Threshold) PROVE Counting'
  <2>1. Pending' = Pending \cup {c}
    <3>1. /\ pc' = [pc EXCEPT ![c] = "counted"] /\ until' = until /\ age' = age /\ pc[c] = "sent"
          /\ until \in Int /\ until <= 0 /\ age[c] = 0 /\ DOMAIN pc = Clients
      <4>1. pc' = [pc EXCEPT ![c] = "counted"] /\ until' = until /\ age' = age /\ pc[c] = "sent"
        BY <1>6 DEF TransientFailure, Goes, BreakerIsOpen
      <4>2. until \in Int /\ DOMAIN pc = Clients
        BY <1>t DEF RequestTypeOK
      <4>3. until <= 0
        BY <1>6, <4>2 DEF BreakerIsOpen
      <4>4. age[c] = 0
        BY <1>t, <4>1 DEF Places
      <4> QED
        BY <4>1, <4>2, <4>3, <4>4
    <3> QED
      BY <3>1 DEF Pending, OpenAlready
  <2>2. Cardinality(Pending') = Cardinality(Pending) + 1
    BY <1>3, <2>1, PendingCount, FS_AddElement
  <2> QED
    BY <1>1, <1>t, <1>6, <2>2, PendingCount, RequestNumbers DEF Counting, BreakerIsOpen
<1> QED
  BY <1>1, <1>2, <1>4, <1>5, <1>6 DEF RequestIInv, Places, Counting

LEMMA OtherAnswerKeeps == ASSUME RequestIInv, NEW c \in Clients, OtherAnswer(c) PROVE RequestIInv'
<1>p. RequestTypeOK /\ InLineOnce /\ OneSlipEach /\ Places /\ Counting
  BY RequestParts
<1> USE <1>p
<1>1. /\ RequestTypeOK' /\ Places' /\ UNCHANGED <<until, slipped, line>>
      /\ \A d \in Clients : pc'[d] \in {"line", "granted"} <=> pc[d] \in {"line", "granted"}
      /\ \A d \in Clients : pc'[d] = "line" <=> pc[d] = "line"
  BY RequestNumbers DEF OtherAnswer, RequestTypeOK, Places, Goes, BreakerIsOpen
<1>2. InLineOnce' /\ OneSlipEach'
  BY <1>1, SameLine, NoNewSlip DEF BreakerIsOpen, RequestTypeOK
<1>3. Counting'
  BY ZeroCounts DEF OtherAnswer
<1> QED
  BY <1>1, <1>2, <1>3 DEF RequestIInv, Places, Counting

(* Who sees the breaker open was not pending. *)
LEMMA SeeOpenKeeps == ASSUME RequestIInv, NEW c \in Clients, SeeOpen(c) PROVE RequestIInv'
<1>p. RequestTypeOK /\ InLineOnce /\ OneSlipEach /\ Places /\ Counting
  BY RequestParts
<1> USE <1>p
<1>1. /\ RequestTypeOK' /\ Places' /\ UNCHANGED <<until, slipped, line, hot, failures>>
      /\ \A d \in Clients : pc'[d] \in {"line", "granted"} <=> pc[d] \in {"line", "granted"}
      /\ \A d \in Clients : pc'[d] = "line" <=> pc[d] = "line"
  BY RequestNumbers DEF SeeOpen, Leave, After, RequestTypeOK, Places, Goes, BreakerIsOpen
<1>2. InLineOnce' /\ OneSlipEach'
  BY <1>1, SameLine, NoNewSlip DEF BreakerIsOpen, RequestTypeOK
<1>3. Pending \subseteq Pending'
  BY DEF SeeOpen, Leave, RequestTypeOK, Goes, Pending, OpenAlready
<1>4. Counting'
  BY <1>1, <1>3, SameCounts DEF BreakerIsOpen, RequestTypeOK
<1> QED
  BY <1>1, <1>2, <1>4 DEF RequestIInv, Places, Counting

LEMMA OpenKeeps == ASSUME RequestIInv, NEW c \in Clients, Open(c) PROVE RequestIInv'
<1>p. RequestTypeOK /\ InLineOnce /\ OneSlipEach /\ Places /\ Counting
  BY RequestParts
<1> USE <1>p
<1>0. until <= -age[c] /\ \A d \in Clients : pc[d] # "opened"
  BY RequestNumbers DEF Open, OpenAlready, Places, RequestTypeOK
<1>1. /\ RequestTypeOK' /\ Places' /\ UNCHANGED line
      /\ \A d \in Clients : pc'[d] = "line" <=> pc[d] = "line"
  BY <1>0, RequestNumbers DEF Open, RequestTypeOK, Places, Goes
<1>2. InLineOnce' /\ OneSlipEach'
  BY <1>1, SameLine DEF Open, OneSlipEach
<1>3. Counting'
  BY ZeroCounts DEF Open, RequestTypeOK
<1> QED
  BY <1>1, <1>2, <1>3 DEF RequestIInv, Places, Counting

(* The counter is cleared while the breaker is open. *)
LEMMA ClearKeeps == ASSUME RequestIInv, NEW c \in Clients, Clear(c) PROVE RequestIInv'
<1>p. RequestTypeOK /\ InLineOnce /\ OneSlipEach /\ Places /\ Counting
  BY RequestParts
<1> USE <1>p
<1>1. /\ RequestTypeOK' /\ Places' /\ UNCHANGED <<until, slipped, line, hot>>
      /\ \A d \in Clients : pc'[d] \in {"line", "granted"} <=> pc[d] \in {"line", "granted"}
      /\ \A d \in Clients : pc'[d] = "line" <=> pc[d] = "line"
  BY RequestNumbers DEF Clear, Leave, After, RequestTypeOK, Places, Goes, BreakerIsOpen
<1>2. InLineOnce' /\ OneSlipEach'
  BY <1>1, SameLine, NoNewSlip DEF BreakerIsOpen, RequestTypeOK
<1>3. hot = 0
  BY RequestNumbers DEF Clear, Places, Counting, BreakerIsOpen, RequestTypeOK
<1>4. Counting'
  BY <1>1, <1>3, ZeroCounts DEF Clear
<1> QED
  BY <1>1, <1>2, <1>4 DEF RequestIInv, Places, Counting

(* The breaker cannot close under a call that is about to clear the counter,  *)
(* nor hide from one that read the clock before.                             *)
LEMMA TickKeeps == ASSUME RequestIInv, Tick PROVE RequestIInv'
<1>p. RequestTypeOK /\ InLineOnce /\ OneSlipEach /\ Places /\ Counting
  BY RequestParts
<1> USE <1>p
<1>0. /\ InLineOnce' /\ tokens' \in 0..Permits /\ line' \in Seq(Clients)
      /\ pc' \in [Clients -> {"idle", "waiting", "line", "granted", "sent", "retry", "counted", "stamped", "opened"}]
      /\ \A c \in Clients : pc'[c] \in {"line", "granted"} <=> pc[c] \in {"line", "granted"}
      /\ \A c \in Clients : pc'[c] \notin {"line", "granted"} => pc'[c] = pc[c]
      /\ \A c \in Clients : pc[c] \notin {"line", "granted"} => pc'[c] = pc[c]
  BY ReplenishKeeps DEF Tick
<1>1. RequestTypeOK' /\ UNCHANGED <<attempt, failures, slipped, hot>>
  BY <1>0, RequestNumbers DEF Tick, RequestTypeOK, Larger
<1>2. InLineOnce' /\ OneSlipEach'
  BY <1>0, <1>1, NoNewSlip, RequestNumbers DEF Tick, BreakerIsOpen, RequestTypeOK, Larger
<1>3. Pending \subseteq Pending'
  <2> SUFFICES ASSUME NEW c \in Clients, pc[c] \in {"counted", "stamped"}, ~(until > -age[c])
               PROVE  pc'[c] = pc[c] /\ ~(until' > -(age'[c]))
    BY DEF Pending, OpenAlready
  <2>1. pc'[c] = pc[c]
    BY <1>0
  <2>2. /\ until' = Larger(until - 1, -MaxStall) /\ age'[c] = IF pc[c] = "stamped" THEN age[c] + 1 ELSE 0
        /\ pc[c] = "stamped" => age[c] < MaxStall
    BY DEF Tick
  <2>3. until \in Int /\ age[c] \in 0..MaxStall /\ (pc[c] = "counted" => age[c] = 0)
    BY RequestNumbers DEF RequestTypeOK, Places
  <2> QED
    BY <2>1, <2>2, <2>3, RequestNumbers DEF Larger
<1>4. Counting'
  BY <1>1, <1>3, SameCounts, RequestNumbers DEF Tick, BreakerIsOpen, RequestTypeOK, Larger
<1>5. Places'
  <2>0. /\ age' = [c \in Clients |-> IF pc[c] \in {"stamped", "opened"} THEN age[c] + 1 ELSE 0]
        /\ UNCHANGED attempt
    BY DEF Tick
  <2>1. ASSUME NEW c \in Clients, pc[c] = "opened" PROVE until' = OpenSeconds - age'[c]
    <3>1. /\ until = OpenSeconds - age[c] /\ age[c] < MaxStall /\ until' = Larger(until - 1, -MaxStall)
          /\ age'[c] = age[c] + 1
      BY <2>1 DEF Tick, Places, RequestTypeOK
    <3> QED
      BY <3>1, RequestNumbers DEF Larger, RequestTypeOK
  <2> QED
    BY <1>0, <2>0, <2>1 DEF Places
<1> QED
  BY <1>1, <1>2, <1>4, <1>5 DEF RequestIInv, Places, Counting

-----------------------------------------------------------------------------
(* The theorems.                                                            *)

LEMMA RequestStep == RequestIInv /\ [Next]_vars => RequestIInv'
<1> SUFFICES ASSUME RequestIInv, [Next]_vars PROVE RequestIInv'
  OBVIOUS
<1>1. ASSUME NEW c \in Clients, Begin(c) \/ Step(c) PROVE RequestIInv'
  BY <1>1, MoveKeeps, PassKeeps, SendKeeps, FailureKeeps, OtherAnswerKeeps, SeeOpenKeeps, OpenKeeps,
     ClearKeeps DEF Step
<1>2. CASE UNCHANGED vars
  BY <1>2 DEF vars, callVars, breakerVars, RequestIInv, RequestTypeOK, InLineOnce, OneSlipEach, Pending,
     OpenAlready, BreakerIsOpen
<1> QED
  BY <1>1, <1>2, TickKeeps DEF Next

(* The invariant holds of every behaviour. *)
THEOREM RequestInductive == Spec => []RequestIInv
<1> QED
  BY RequestInit, RequestStep, PTL DEF Spec

(* The calls in the line are as many as the line is long.                     *)
InLine == {d \in Clients : pc[d] = "line"}

LEMMA LineCount == RequestIInv => Len(line) \in Nat /\ Cardinality(InLine) = Len(line) /\ IsFiniteSet(InLine)
<1> SUFFICES ASSUME RequestIInv PROVE Len(line) \in Nat /\ Cardinality(InLine) = Len(line) /\ IsFiniteSet(InLine)
  OBVIOUS
<1>1. Len(line) \in Nat /\ line \in [1..Len(line) -> Clients]
  BY DEF RequestIInv, RequestTypeOK
<1>2. line \in Bijection(1..Len(line), InLine)
  BY <1>1 DEF RequestIInv, InLineOnce, InLine, Bijection, Injection, IsInjective, Surjection
<1>3. IsFiniteSet(1..Len(line)) /\ Cardinality(1..Len(line)) = Len(line)
  <2>1. Cardinality(1..Len(line)) = IF 1 > Len(line) THEN 0 ELSE Len(line) - 1 + 1
    BY <1>1, FS_Interval, 1 \in Int, Len(line) \in Int
  <2>2. IsFiniteSet(1..Len(line))
    BY <1>1, FS_Interval, 1 \in Int, Len(line) \in Int
  <2> QED
    BY <1>1, <2>1, <2>2
<1>4. IsFiniteSet(InLine)
  <2>1. InLine \subseteq Clients
    BY DEF InLine
  <2> QED
    BY <2>1, FS_Subset, RequestAssumption
<1>5. ExistsBijection(1..Len(line), InLine)
  BY <1>2 DEF ExistsBijection
<1>6. Cardinality(InLine) = Cardinality(1..Len(line))
  BY <1>3, <1>4, <1>5, FS_Bijection
<1> QED
  BY <1>1, <1>3, <1>4, <1>6

(* A request of each call at most passes an open breaker, and the pause        *)
(* comes within a failure of each call (WaitIfBreakerOpenAsync,            *)
(* MarkTemporaryFailure).                                                    *)
THEOREM RequestSafety == Spec => [](OneSlipEach /\ PauseComesInTime)
<1>1. RequestIInv => OneSlipEach
  BY DEF RequestIInv
<1>2. RequestIInv => PauseComesInTime
  BY PendingCount, RequestNumbers DEF RequestIInv, RequestTypeOK, PauseComesInTime
<1> QED
  BY <1>1, <1>2, RequestInductive, PTL

(* The room of the queue, in calls: with less than a collection's handlers in *)
(* the line, and less than the factor, there is place for one more.          *)
LEMMA RoomInCalls ==
  ASSUME NEW n \in Nat, PermitsPerRequest * (n + 1) > QueueLimit
  PROVE  n >= Larger(MaxConcurrency, QueueFactor)
<1> DEFINE p == Permits
           m == MaxConcurrency
           f == QueueFactor
<1>1. p \in Nat /\ p >= 10 /\ m \in Nat /\ f \in Nat /\ PermitsPerRequest = 10
  BY RequestNumbers
<1>2. QueueLimit = Larger(p * m, p * f)
  BY DEF QueueLimit
<1> HIDE DEF p, m, f
<1>3. p * m >= 10 * m /\ p * f >= 10 * f
  BY <1>1
<1>4. p * m \in Int /\ p * f \in Int
  BY <1>1
<1>5. QueueLimit >= 10 * m /\ QueueLimit >= 10 * f /\ QueueLimit \in Int
  BY <1>1, <1>2, <1>3, <1>4 DEF Larger
<1>6. n + 1 > m /\ n + 1 > f
  BY <1>1, <1>5
<1>7. n >= m /\ n >= f
  BY <1>1, <1>6
<1> QED
  BY <1>1, <1>7 DEF Larger, m, f

(* However many calls share the coordinator of a process, one is refused only *)
(* while as many others wait in line as one collection has handlers           *)
(* (VarusRequestCoordinator's constructor and AcquireRequestSlotAsync).      *)
THEOREM RefusalTakesACrowd == Spec => RefusedOnlyInACrowd
<1>1. ASSUME RequestIInv, [Next]_vars, NEW c \in Clients, pc[c] = "waiting", pc'[c] = "idle"
      PROVE  Cardinality({d \in Clients : pc[d] = "line"}) >= Larger(MaxConcurrency, QueueFactor)
  <2>1. Pass(c) /\ ~HasRoom
    <3>1. CASE Tick
      BY <1>1, <3>1, ReplenishKeeps DEF Tick, RequestIInv
    <3>2. CASE UNCHANGED vars
      BY <1>1, <3>2 DEF vars, callVars
    <3>3. CASE \E d \in Clients : Begin(d) \/ Step(d)
      <4>1. PICK d \in Clients : Begin(d) \/ Step(d)
        BY <3>3
      <4>2. d = c
        <5>1. \E to : Goes(d, to)
          BY <4>1 DEF Begin, Step, Pass, Served, Send, TransientFailure, OtherAnswer, PageAnswer, Retry, Stamp,
             SeeOpen, Open, Clear, Leave
        <5> QED
          BY <1>1, <5>1 DEF Goes, RequestIInv, RequestTypeOK
      <4>3. Pass(c)
        BY <1>1, <4>1, <4>2 DEF Begin, Step, Send, TransientFailure, OtherAnswer, PageAnswer, Retry, Stamp,
           SeeOpen, Open, Clear
      <4> QED
        BY <1>1, <4>3 DEF Pass, Served, Goes, RequestIInv, RequestTypeOK
    <3> QED
      BY <1>1, <3>1, <3>2, <3>3 DEF Next
  <2>2. Len(line) \in Nat /\ Cardinality(InLine) = Len(line)
    BY <1>1, LineCount
  <2>3. PermitsPerRequest * (Len(line) + 1) > QueueLimit
    <3>1. QueueLimit \in Int
      BY RequestNumbers DEF QueueLimit, Larger
    <3> QED
      BY <2>1, <2>2, <3>1, RequestNumbers DEF HasRoom
  <2> QED
    BY <2>2, <2>3, RoomInCalls DEF InLine
<1>2. RequestIInv /\ [Next]_vars => [\A c \in Clients : pc[c] = "waiting" /\ pc'[c] = "idle" =>
        Cardinality({d \in Clients : pc[d] = "line"}) >= Larger(MaxConcurrency, QueueFactor)]_vars
  BY <1>1
<1> QED
  BY <1>2, RequestInductive, PTL DEF Spec, RefusedOnlyInACrowd

(* A collection alone in its process, as in the worker: none of its handlers  *)
(* is ever refused.                                                          *)
COROLLARY AloneNobodyIsRefused ==
  ASSUME Cardinality(Clients) <= MaxConcurrency
  PROVE  Spec => [][\A c \in Clients : ~(pc[c] = "waiting" /\ pc'[c] = "idle")]_vars
<1>1. ASSUME RequestIInv, NEW c \in Clients, pc[c] = "waiting"
      PROVE  ~(Cardinality({d \in Clients : pc[d] = "line"}) >= Larger(MaxConcurrency, QueueFactor))
  <2>1. InLine \subseteq Clients /\ c \notin InLine
    BY <1>1 DEF InLine
  <2>2. Cardinality(InLine) < Cardinality(Clients)
    <3>1. Cardinality(InLine \cup {c}) = Cardinality(InLine) + 1
      BY <1>1, <2>1, LineCount, FS_AddElement
    <3>2. Cardinality(InLine \cup {c}) <= Cardinality(Clients)
      BY <2>1, FS_Subset, RequestAssumption
    <3> QED
      BY <1>1, <3>1, <3>2, LineCount, RequestNumbers
  <2> QED
    BY <1>1, <2>2, LineCount, RequestNumbers DEF InLine, Larger
<1>2. RequestIInv /\ [\A c \in Clients : pc[c] = "waiting" /\ pc'[c] = "idle" =>
        Cardinality({d \in Clients : pc[d] = "line"}) >= Larger(MaxConcurrency, QueueFactor)]_vars
      => [\A c \in Clients : ~(pc[c] = "waiting" /\ pc'[c] = "idle")]_vars
  BY <1>1
<1> QED
  BY <1>2, RequestInductive, RefusalTakesACrowd, PTL DEF RefusedOnlyInACrowd

-----------------------------------------------------------------------------
(* Categories: numbers, sequences and trees.                                 *)

LEMMA LeastNatural == ASSUME NEW T \in SUBSET Nat, T # {} PROVE \E x \in T : \A y \in T : x <= y
<1> DEFINE R == {ss \in Nat \X Nat : ss[1] < ss[2]}
<1>1. IsWellFoundedOn(R, Nat)
  BY NatLessThanWellFounded DEF OpToRel
<1>2. PICK x \in T : \A y \in T : ~(<<y, x>> \in R)
  BY <1>1, WFMin
<1>3. ASSUME NEW y \in T PROVE x <= y
  <2>1. x \in Nat /\ y \in Nat /\ <<y, x>> \notin R
    BY <1>2
  <2>2. <<y, x>> \in Nat \X Nat /\ <<y, x>>[1] = y /\ <<y, x>>[2] = x
    BY <2>1
  <2>3. ~(y < x)
    BY <2>1, <2>2
  <2> QED
    BY <2>1, <2>3
<1> QED
  BY <1>3

LEMMA PageNumbers ==
  ASSUME NEW k \in Nat \ {0}, NEW n \in Nat \ {0}
  PROVE  k * n \in Nat /\ (k - 1) * n \in Nat /\ k * n = (k - 1) * n + n /\ ((k + 1) - 1) * n = k * n
OBVIOUS

(* InsertAt moves what is behind the place by one. *)
LEMMA InsertAtPlaces ==
  ASSUME NEW S, NEW q \in Seq(S), NEW p \in S, NEW i \in 1..(Len(q) + 1)
  PROVE  /\ InsertAt(q, i, p) \in Seq(S) /\ Len(InsertAt(q, i, p)) = Len(q) + 1
         /\ \A k \in 1..(Len(q) + 1) :
              InsertAt(q, i, p)[k] = IF k < i THEN q[k] ELSE IF k = i THEN p ELSE q[k - 1]
<1> DEFINE a == SubSeq(q, 1, i - 1)
           b == <<p>>
           d == SubSeq(q, i, Len(q))
<1>0. Len(q) \in Nat /\ i \in Nat /\ i >= 1 /\ i <= Len(q) + 1 /\ \A k \in 1..Len(q) : q[k] \in S
  BY LenProperties
<1>1. a \in Seq(S) /\ Len(a) = i - 1 /\ \A k \in 1..(i - 1) : a[k] = q[k]
  <2>1. \A k \in 1..(i - 1) : q[k] \in S
    BY <1>0
  <2> QED
    BY <1>0, <2>1, SubSeqProperties
<1>2. b \in Seq(S) /\ Len(b) = 1 /\ b[1] = p
  OBVIOUS
<1>3. d \in Seq(S) /\ Len(d) = Len(q) - i + 1 /\ \A k \in 1..(Len(q) - i + 1) : d[k] = q[i + k - 1]
  <2>1. \A k \in i..Len(q) : q[k] \in S
    BY <1>0
  <2> QED
    BY <1>0, <2>1, SubSeqProperties
<1> HIDE DEF a, b, d
<1>4. /\ a \o b \in Seq(S) /\ Len(a \o b) = i
      /\ \A k \in 1..i : (a \o b)[k] = IF k <= i - 1 THEN a[k] ELSE b[k - (i - 1)]
  <2>1. /\ a \o b \in Seq(S) /\ Len(a \o b) = Len(a) + Len(b)
        /\ \A k \in 1..(Len(a) + Len(b)) : (a \o b)[k] = IF k <= Len(a) THEN a[k] ELSE b[k - Len(a)]
    BY <1>1, <1>2, ConcatProperties
  <2>2. Len(a) = i - 1 /\ Len(a) + Len(b) = i
    BY <1>0, <1>1, <1>2
  <2> QED
    BY <2>1, <2>2
<1>5. /\ (a \o b) \o d \in Seq(S) /\ Len((a \o b) \o d) = Len(q) + 1
      /\ \A k \in 1..(Len(q) + 1) : ((a \o b) \o d)[k] = IF k <= i THEN (a \o b)[k] ELSE d[k - i]
  <2> DEFINE e == a \o b
  <2>0. e \in Seq(S) /\ Len(e) = i /\ d \in Seq(S)
    BY <1>3, <1>4
  <2> HIDE DEF e
  <2>1. /\ e \o d \in Seq(S) /\ Len(e \o d) = Len(e) + Len(d)
        /\ \A k \in 1..(Len(e) + Len(d)) : (e \o d)[k] = IF k <= Len(e) THEN e[k] ELSE d[k - Len(e)]
    BY <2>0, ConcatProperties
  <2>2. Len(e) + Len(d) = Len(q) + 1
    BY <1>0, <1>3, <2>0
  <2>3. /\ e \o d \in Seq(S) /\ Len(e \o d) = Len(q) + 1
        /\ \A k \in 1..(Len(q) + 1) : (e \o d)[k] = IF k <= i THEN e[k] ELSE d[k - i]
    BY <2>0, <2>1, <2>2
  <2> QED
    BY <2>3 DEF e
<1>6. ASSUME NEW k \in 1..(Len(q) + 1)
      PROVE  ((a \o b) \o d)[k] = IF k < i THEN q[k] ELSE IF k = i THEN p ELSE q[k - 1]
  <2>1. CASE k < i
    BY <1>0, <1>1, <1>4, <1>5, <2>1
  <2>2. CASE k = i
    <3>1. k - (i - 1) = 1 /\ k \in 1..i /\ ~(k <= i - 1) /\ k <= i
      BY <1>0, <2>2
    <3>2. (a \o b)[k] = b[1]
      BY <1>4, <3>1
    <3>3. ((a \o b) \o d)[k] = (a \o b)[k]
      BY <1>5, <3>1
    <3>4. ((a \o b) \o d)[k] = p /\ ~(k < i)
      BY <1>0, <1>2, <2>2, <3>2, <3>3
    <3> QED
      BY <2>2, <3>4
  <2>3. CASE k > i
    <3>1. k - i \in 1..(Len(q) - i + 1) /\ i + (k - i) - 1 = k - 1
      BY <1>0, <2>3
    <3> QED
      BY <1>0, <1>3, <1>5, <2>3, <3>1
  <2> QED
    <3>1. k < i \/ k = i \/ k > i
      BY <1>0
    <3> QED
      BY <2>1, <2>2, <2>3, <3>1
<1> QED
  BY <1>5, <1>6 DEF InsertAt, a, b, d

LEMMA RemoveAtIsSeq ==
  ASSUME NEW S, NEW q \in Seq(S), NEW i \in DOMAIN q
  PROVE  RemoveAt(q, i) \in Seq(S)
<1>0. Len(q) \in Nat /\ i \in 1..Len(q) /\ \A k \in 1..Len(q) : q[k] \in S
  BY LenProperties
<1>1. SubSeq(q, 1, i - 1) \in Seq(S)
  <2>1. \A k \in 1..(i - 1) : q[k] \in S
    BY <1>0
  <2> QED
    BY <1>0, <2>1, SubSeqProperties
<1>2. SubSeq(q, i + 1, Len(q)) \in Seq(S)
  <2>1. \A k \in (i + 1)..Len(q) : q[k] \in S
    BY <1>0
  <2> QED
    BY <1>0, <2>1, SubSeqProperties
<1> QED
  BY <1>1, <1>2, ConcatProperties DEF RemoveAt

(* The set of a page. *)
LEMMA SetOfPage ==
  ASSUME NEW S, NEW q \in Seq(S), NEW m \in Nat, NEW n \in Nat, n <= Len(q)
  PROVE  ToSet(SubSeq(q, m + 1, n)) = {q[k] : k \in (m + 1)..n}
<1> DEFINE a == SubSeq(q, m + 1, n)
<1>0. Len(q) \in Nat /\ \A k \in 1..Len(q) : q[k] \in S
  BY LenProperties
<1>1. a \in Seq(S) /\ Len(a) = (IF m + 1 <= n THEN n - m ELSE 0) /\ \A k \in 1..(n - m) : a[k] = q[m + k]
  <2>1. \A k \in (m + 1)..n : q[k] \in S
    BY <1>0
  <2>2. /\ a \in Seq(S) /\ Len(a) = (IF m + 1 <= n THEN n - (m + 1) + 1 ELSE 0)
        /\ \A k \in 1..(n - (m + 1) + 1) : a[k] = q[(m + 1) + k - 1]
    BY <2>1, SubSeqProperties
  <2> QED
    BY <2>2
<1>2. DOMAIN a = 1..(n - m)
  BY <1>1, LenProperties
<1> HIDE DEF a
<1>3. ASSUME NEW k \in (m + 1)..n PROVE \E l \in DOMAIN a : a[l] = q[k]
  <2>1. k - m \in 1..(n - m) /\ m + (k - m) = k
    OBVIOUS
  <2> QED
    BY <1>1, <1>2, <2>1
<1>4. ASSUME NEW l \in DOMAIN a PROVE \E k \in (m + 1)..n : a[l] = q[k]
  <2>1. m + l \in (m + 1)..n
    BY <1>2
  <2> QED
    BY <1>1, <1>2, <2>1
<1> QED
  <2>1. ToSet(a) = {a[l] : l \in DOMAIN a}
    BY DEF ToSet
  <2>2. ToSet(a) = {q[k] : k \in (m + 1)..n}
    BY <1>3, <1>4, <2>1
  <2> QED
    BY <2>2 DEF a

LEMMA SetToSeqLists ==
  ASSUME NEW S, IsFiniteSet(S)
  PROVE  SetToSeq(S) \in Seq(S) /\ IsInjective(SetToSeq(S)) /\ ToSet(SetToSeq(S)) = S
<1> DEFINE n == Cardinality(S)
           q == SetToSeq(S)
<1>1. n \in Nat /\ \E f \in [1..n -> S] : IsInjective(f)
  BY FS_CardinalityType DEF ExistsBijection, Bijection, Injection
<1>2. q \in [1..n -> S] /\ IsInjective(q)
  BY <1>1 DEF SetToSeq
<1>3. q \in Surjection(1..n, S)
  <2>1. IsFiniteSet(1..n) /\ Cardinality(1..n) = n
    BY <1>1, FS_Interval
  <2>2. q \in Injection(1..n, S)
    BY <1>2 DEF Injection
  <2> QED
    BY <2>1, <2>2, FS_Injection
<1>4. ToSet(q) = S
  BY <1>2, <1>3 DEF Surjection, ToSet
<1>5. q \in Seq(S)
  BY <1>1, <1>2
<1> QED
  BY <1>2, <1>4, <1>5

(* The head of the seeds and the others. *)
LEMMA HeadAndTail ==
  ASSUME NEW S, NEW q \in Seq(S), q # <<>>, IsInjective(q)
  PROVE  /\ Head(q) \in S /\ Tail(q) \in Seq(S) /\ IsInjective(Tail(q))
         /\ Head(q) \notin ToSet(Tail(q)) /\ ToSet(q) = {Head(q)} \cup ToSet(Tail(q))
<1> DEFINE t == Tail(q)
<1>1. /\ Head(q) = q[1] /\ Head(q) \in S /\ t \in Seq(S) /\ Len(t) = Len(q) - 1 /\ Len(q) \in Nat /\ Len(q) >= 1
      /\ \A i \in 1..Len(t) : t[i] = q[i + 1]
  BY HeadTailProperties, LenProperties, EmptySeq
<1>2. DOMAIN t = 1..(Len(q) - 1) /\ DOMAIN q = 1..Len(q)
  BY <1>1, LenProperties
<1> HIDE DEF t
<1>3. IsInjective(t) /\ q[1] \notin ToSet(t)
  <2>1. \A i \in DOMAIN t : t[i] = q[i + 1] /\ i + 1 \in DOMAIN q /\ i + 1 # 1
    BY <1>1, <1>2
  <2>2. \A i, k \in DOMAIN t : i + 1 = k + 1 => i = k
    BY <1>1, <1>2
  <2>3. 1 \in DOMAIN q
    BY <1>1, <1>2
  <2> QED
    BY <2>1, <2>2, <2>3 DEF IsInjective, ToSet
<1>4. ToSet(q) = {q[1]} \cup ToSet(t)
  <2>1. ASSUME NEW i \in DOMAIN q, i # 1 PROVE \E k \in DOMAIN t : t[k] = q[i]
    <3>1. i - 1 \in DOMAIN t /\ (i - 1) + 1 = i
      BY <1>1, <1>2, <2>1
    <3> QED
      BY <1>1, <1>2, <3>1
  <2>2. ASSUME NEW k \in DOMAIN t PROVE k + 1 \in DOMAIN q /\ t[k] = q[k + 1]
    BY <1>1, <1>2
  <2>3. 1 \in DOMAIN q
    BY <1>1, <1>2
  <2> QED
    BY <2>1, <2>2, <2>3 DEF ToSet
<1> QED
  BY <1>1, <1>3, <1>4 DEF t

LEMMA TreeFacts ==
  ASSUME NEW t \in Trees
  PROVE  /\ DOMAIN t \subseteq CategoryIds /\ DOMAIN t # {} /\ t # NoTree
         /\ IsFiniteSet(Leaves(t)) /\ Leaves(t) \subseteq CategoryIds /\ Leaves(t) # {}
<1>1. /\ DOMAIN t \subseteq CategoryIds /\ DOMAIN t # {} /\ IsFiniteSet(DOMAIN t)
      /\ \A c \in DOMAIN t : t[c] \in DOMAIN t \cup {NoCategory}
  BY CategoriesAssumption, FS_Subset
<1>2. PICK place \in [DOMAIN t -> 1..Cardinality(DOMAIN t)] :
        \A c \in DOMAIN t : t[c] # NoCategory => place[t[c]] < place[c]
  BY CategoriesAssumption
<1>3. t # NoTree
  BY <1>1 DEF NoTree
<1>4. IsFiniteSet(Leaves(t)) /\ Leaves(t) \subseteq CategoryIds
  BY <1>1, FS_Subset DEF Leaves
<1>5. Leaves(t) # {}
  <2> DEFINE n == Cardinality(DOMAIN t)
             T == {n - place[c] : c \in DOMAIN t}
  <2>1. n \in Nat
    BY <1>1, FS_CardinalityType
  <2>2. T \in SUBSET Nat /\ T # {}
    BY <1>1, <1>2, <2>1
  <2>3. PICK x \in T : \A y \in T : x <= y
    BY <2>2, LeastNatural
  <2>4. PICK c \in DOMAIN t : x = n - place[c]
    BY <2>3
  <2>5. \A d \in DOMAIN t : place[d] <= place[c]
    <3> SUFFICES ASSUME NEW d \in DOMAIN t PROVE place[d] <= place[c]
      OBVIOUS
    <3>1. n - place[c] <= n - place[d]
      BY <2>3, <2>4
    <3>2. place[c] \in Nat /\ place[d] \in Nat
      BY <1>2
    <3> QED
      BY <2>1, <3>1, <3>2
  <2>6. ASSUME NEW d \in DOMAIN t, t[d] = c PROVE FALSE
    <3>1. t[d] # NoCategory
      BY <1>1, <2>6, CategoriesAssumption
    <3>2. place[c] < place[d] /\ place[c] \in Nat /\ place[d] \in Nat
      BY <1>2, <2>6, <3>1
    <3> QED
      BY <2>5, <3>2
  <2> QED
    BY <2>6 DEF Leaves
<1> QED
  BY <1>1, <1>3, <1>4, <1>5

-----------------------------------------------------------------------------
(* The local variables of a refresh.                                         *)

LEMMA JobTypes ==
  ASSUME NEW j \in Jobs
  PROVE  /\ j.tree \in Trees \cup {NoTree} /\ j.seeds \in Seq(CategoryIds) /\ j.page \in 1..MaxPages
         /\ j.listed \subseteq Products /\ j.discovered \subseteq Products
         /\ DOMAIN j.listings \subseteq CategoryIds /\ \A c \in DOMAIN j.listings : j.listings[c] \subseteq Products
         /\ j.complete \subseteq CategoryIds /\ j.seenAt \in Nat
         /\ j.came \subseteq Products \X CategoryIds /\ j.gone \subseteq Products \X CategoryIds
         /\ j.alone \in BOOLEAN
<1>1. PICK C \in SUBSET CategoryIds : j.listings \in [C -> SUBSET Products]
  BY DEF Jobs
<1>2. DOMAIN j.listings \subseteq CategoryIds /\ \A c \in DOMAIN j.listings : j.listings[c] \subseteq Products
  BY <1>1
<1> QED
  BY <1>2 DEF Jobs

(* What the rest of a refresh relies on. *)
SameJob(j, k) ==
  /\ k.tree = j.tree /\ k.seeds = j.seeds /\ k.page = j.page /\ k.listed = j.listed
  /\ k.listings = j.listings /\ k.complete = j.complete /\ k.seenAt = j.seenAt
  /\ k.came = j.came /\ k.gone = j.gone

LEMMA NewJobIsJob ==
  /\ NewJob \in Jobs /\ NewJob.tree = NoTree /\ NewJob.seeds = <<>> /\ NewJob.page = 1 /\ NewJob.listed = {}
  /\ DOMAIN NewJob.listings = {} /\ NewJob.complete = {} /\ NewJob.alone = TRUE
<1>1. NewJob.listings \in [{} -> SUBSET Products] /\ {} \in SUBSET CategoryIds /\ DOMAIN NewJob.listings = {}
  BY DEF NewJob
<1>2. NewJob.listings \in UNION {[C -> SUBSET Products] : C \in SUBSET CategoryIds}
  BY <1>1
<1>3. 1 \in 1..MaxPages
  BY CategoriesAssumption
<1> QED
  BY <1>1, <1>2, <1>3 DEF NewJob, Jobs

LEMMA AloneJob ==
  ASSUME NEW j \in Jobs, NEW b \in BOOLEAN
  PROVE  [j EXCEPT !.alone = b] \in Jobs /\ SameJob(j, [j EXCEPT !.alone = b]) /\ [j EXCEPT !.alone = b].alone = b
BY DEF Jobs, SameJob

(* The same refresh, with the changes of the shop it has met. *)
Observed(j, k, came, gone) ==
  /\ k.tree = j.tree /\ k.seeds = j.seeds /\ k.page = j.page /\ k.listed = j.listed
  /\ k.listings = j.listings /\ k.complete = j.complete /\ k.seenAt = j.seenAt /\ k.alone = j.alone
  /\ k.came = came /\ k.gone = gone

LEMMA CameJob ==
  ASSUME NEW j \in Jobs, NEW p \in Products, NEW c \in CategoryIds
  PROVE  /\ [j EXCEPT !.came = @ \cup {<<p, c>>}] \in Jobs
         /\ Observed(j, [j EXCEPT !.came = @ \cup {<<p, c>>}], j.came \cup {<<p, c>>}, j.gone)
<1> DEFINE pairs == j.came \cup {<<p, c>>}
           k == [j EXCEPT !.came = pairs]
<1>1. pairs \in SUBSET (Products \X CategoryIds)
  BY DEF Jobs
<1>2. [j EXCEPT !.came = @ \cup {<<p, c>>}] = k
  BY DEF Jobs
<1> HIDE DEF pairs
<1>3. k \in Jobs /\ Observed(j, k, pairs, j.gone)
  BY <1>1 DEF Jobs, Observed
<1> HIDE DEF k
<1> QED
  BY <1>2, <1>3 DEF pairs

LEMMA GoneJob ==
  ASSUME NEW j \in Jobs, NEW p \in Products, NEW c \in CategoryIds
  PROVE  /\ [j EXCEPT !.gone = @ \cup {<<p, c>>}] \in Jobs
         /\ Observed(j, [j EXCEPT !.gone = @ \cup {<<p, c>>}], j.came, j.gone \cup {<<p, c>>})
<1> DEFINE pairs == j.gone \cup {<<p, c>>}
           k == [j EXCEPT !.gone = pairs]
<1>1. pairs \in SUBSET (Products \X CategoryIds)
  BY DEF Jobs
<1>2. [j EXCEPT !.gone = @ \cup {<<p, c>>}] = k
  BY DEF Jobs
<1> HIDE DEF pairs
<1>3. k \in Jobs /\ Observed(j, k, j.came, pairs)
  BY <1>1 DEF Jobs, Observed
<1> HIDE DEF k
<1> QED
  BY <1>2, <1>3 DEF pairs

LEMMA SeedsJob ==
  ASSUME NEW j \in Jobs, NEW t \in Trees \cup {NoTree}, NEW q \in Seq(CategoryIds),
         NEW k, k = [j EXCEPT !.tree = t, !.seeds = q]
  PROVE  /\ k \in Jobs /\ k.tree = t /\ k.seeds = q /\ k.page = j.page /\ k.listed = j.listed
         /\ k.listings = j.listings /\ k.complete = j.complete /\ k.alone = j.alone
BY DEF Jobs

TimedJob(j, now) == [j EXCEPT !.seenAt = now]
TimedAs(j, k, now) ==
  /\ k.tree = j.tree /\ k.seeds = j.seeds /\ k.page = j.page /\ k.listed = j.listed
  /\ k.listings = j.listings /\ k.complete = j.complete /\ k.alone = j.alone
  /\ k.came = j.came /\ k.gone = j.gone /\ k.seenAt = now

LEMMA TimedJobIsJob ==
  ASSUME NEW j \in Jobs, NEW now \in Nat
  PROVE  TimedJob(j, now) \in Jobs /\ TimedAs(j, TimedJob(j, now), now)
BY DEF Jobs, TimedJob, TimedAs

PagedJob(j, found) == [j EXCEPT !.page = @ + 1, !.listed = @ \cup found, !.discovered = @ \cup found]
PagedAs(j, k, found) ==
  /\ k.tree = j.tree /\ k.seeds = j.seeds /\ k.page = j.page + 1 /\ k.listed = j.listed \cup found
  /\ k.listings = j.listings /\ k.complete = j.complete /\ k.alone = j.alone
  /\ k.came = j.came /\ k.gone = j.gone

LEMMA PagedJobIsJob ==
  ASSUME NEW j \in Jobs, NEW found \in SUBSET Products, j.page < MaxPages
  PROVE  PagedJob(j, found) \in Jobs /\ PagedAs(j, PagedJob(j, found), found)
<1>1. j.page + 1 \in 1..MaxPages
  BY CategoriesAssumption DEF Jobs
<1> QED
  BY <1>1 DEF Jobs, PagedJob, PagedAs

EndedJob(j, found, reason) ==
  [j EXCEPT !.seeds = Tail(@), !.page = 1, !.listed = {}, !.discovered = @ \cup found,
            !.listings = [d \in DOMAIN @ \cup {Head(j.seeds)} |-> IF d = Head(j.seeds) THEN j.listed \cup found ELSE @[d]],
            !.complete = IF IsComplete(reason) THEN @ \cup {Head(j.seeds)} ELSE @]

EndedAs(j, k, found, reason) ==
  /\ k.tree = j.tree /\ k.seeds = Tail(j.seeds) /\ k.page = 1 /\ k.listed = {}
  /\ DOMAIN k.listings = DOMAIN j.listings \cup {Head(j.seeds)}
  /\ k.listings[Head(j.seeds)] = j.listed \cup found
  /\ \A c \in DOMAIN j.listings \ {Head(j.seeds)} : k.listings[c] = j.listings[c]
  /\ k.complete = IF reason = "NoNextPage" THEN j.complete \cup {Head(j.seeds)} ELSE j.complete
  /\ k.alone = j.alone /\ k.came = j.came /\ k.gone = j.gone

LEMMA EndedJobIsJob ==
  ASSUME NEW j \in Jobs, NEW found \in SUBSET Products, NEW reason, j.seeds # <<>>
  PROVE  EndedJob(j, found, reason) \in Jobs /\ EndedAs(j, EndedJob(j, found, reason), found, reason)
<1> DEFINE head == Head(j.seeds)
           L == [d \in DOMAIN j.listings \cup {head} |-> IF d = head THEN j.listed \cup found ELSE j.listings[d]]
           C == IF IsComplete(reason) THEN j.complete \cup {head} ELSE j.complete
           k == EndedJob(j, found, reason)
<1>1. head \in CategoryIds /\ Tail(j.seeds) \in Seq(CategoryIds) /\ 1 \in 1..MaxPages
  BY JobTypes, HeadTailProperties, CategoriesAssumption
<1>2. L \in UNION {[D -> SUBSET Products] : D \in SUBSET CategoryIds}
  <2>1. DOMAIN j.listings \cup {head} \in SUBSET CategoryIds
    BY <1>1, JobTypes
  <2>2. L \in [DOMAIN j.listings \cup {head} -> SUBSET Products]
    BY JobTypes
  <2> QED
    BY <2>1, <2>2
<1>3. C \subseteq CategoryIds /\ j.discovered \cup found \subseteq Products
  BY <1>1, JobTypes
<1>4. k =
        [j EXCEPT !.seeds = Tail(j.seeds), !.page = 1, !.listed = {}, !.discovered = j.discovered \cup found,
                  !.listings = L, !.complete = C]
  BY DEF EndedJob, Jobs
<1> HIDE DEF k
<1>5. /\ DOMAIN L = DOMAIN j.listings \cup {head} /\ L[head] = j.listed \cup found
      /\ \A c \in DOMAIN j.listings \ {head} : L[c] = j.listings[c]
  OBVIOUS
<1>6. C = IF reason = "NoNextPage" THEN j.complete \cup {head} ELSE j.complete
  BY DEF IsComplete
<1> HIDE DEF L, C, head
<1>7. /\ k \in Jobs /\ k.tree = j.tree /\ k.seeds = Tail(j.seeds) /\ k.page = 1 /\ k.listed = {}
      /\ k.listings = L /\ k.complete = C
      /\ k.alone = j.alone /\ k.came = j.came /\ k.gone = j.gone
  BY <1>1, <1>2, <1>3, <1>4 DEF Jobs
<1> QED
  BY <1>5, <1>6, <1>7 DEF head, k, EndedAs

-----------------------------------------------------------------------------
(* What a step of one refresh leaves.                                        *)

LEMMA InvTypes ==
  ASSUME CategoriesIInv
  PROVE  /\ shop \in [CategoryIds -> Seq(Products)] /\ phase \in [Refreshes -> Phases] /\ job \in [Refreshes -> Jobs]
         /\ catalog \subseteq Accepted /\ clock \in Nat /\ faults \in Nat
         /\ PageSize \in Nat \ {0} /\ MaxPages \in Nat \ {0} /\ MaxFaults \in Nat
BY CategoriesAssumption DEF CategoriesIInv, CategoriesTypeOK

LEMMA FaultCounts ==
  ASSUME CategoriesIInv, Fault PROVE faults' = faults + 1 /\ faults' \in 0..MaxFaults /\ faults' # 0
<1>1. faults \in Nat /\ MaxFaults \in Nat
  BY InvTypes
<1> QED
  BY <1>1 DEF Fault

LEMMA TreeStays == ASSUME ActiveCategoriesAreShown, UNCHANGED treeVars PROVE ActiveCategoriesAreShown'
<1>1. Shown' = Shown
  BY DEF Shown, Children, treeVars
<1> QED
  BY <1>1 DEF ActiveCategoriesAreShown, treeVars

LEMMA OtherFollows ==
  ASSUME NEW s \in Refreshes, JobFollowsThePhase(s), phase'[s] = phase[s], SameJob(job[s], job'[s]),
         clock \in Nat, clock' \in Nat, clock <= clock'
  PROVE  JobFollowsThePhase(s)'
BY DEF JobFollowsThePhase, SameJob, Leaves

LEMMA OtherReads ==
  ASSUME NEW s \in Refreshes, NEW c \in CategoryIds, StayingAreRead(s, c), QuietAreRead(s, c),
         phase'[s] = phase[s], SameJob(job[s], job'[s]), shop' = shop, faults' = 0 => faults = 0
  PROVE  StayingAreRead(s, c)' /\ QuietAreRead(s, c)'
<1>1. PagesRead(job'[s]) = PagesRead(job[s]) /\ Listed(c)' = Listed(c)
  BY DEF PagesRead, SameJob, Listed
<1>2. StayingAreRead(s, c)'
  BY <1>1 DEF StayingAreRead, SameJob
<1>3. Quiet(s, c)' => Quiet(s, c)
  BY DEF Quiet, SameJob
<1>4. QuietAreRead(s, c)'
  BY <1>1, <1>3 DEF QuietAreRead, SameJob
<1> QED
  BY <1>2, <1>4

LEMMA StepOf ==
  ASSUME CategoriesIInv, CategoriesTypeOK', ActiveCategoriesAreShown', NEW r \in Refreshes,
         \A s \in Refreshes \ {r} : phase'[s] = phase[s] /\ SameJob(job[s], job'[s]),
         shop' = shop, clock' \in {clock, clock + 1}, faults' = 0 => faults = 0,
         JobFollowsThePhase(r)',
         phase'[r] # "idle" => \A c \in CategoryIds : StayingAreRead(r, c)' /\ QuietAreRead(r, c)',
         \A s \in Running' : AloneIsNewest(s)'
  PROVE  CategoriesIInv'
<1>1. clock \in Nat /\ clock' \in Nat /\ clock <= clock'
  BY InvTypes
<1>2. \A s \in Refreshes : JobFollowsThePhase(s)'
  BY <1>1, OtherFollows DEF CategoriesIInv
<1>3. ASSUME NEW s \in Running', NEW c \in CategoryIds PROVE StayingAreRead(s, c)' /\ QuietAreRead(s, c)'
  <2>1. CASE s = r
    BY <1>3, <2>1 DEF Running
  <2>2. CASE s # r
    <3>1. s \in Refreshes /\ s \in Running /\ phase'[s] = phase[s] /\ SameJob(job[s], job'[s])
      BY <1>3, <2>2 DEF Running
    <3>2. StayingAreRead(s, c) /\ QuietAreRead(s, c)
      BY <3>1 DEF CategoriesIInv
    <3> QED
      BY <3>1, <3>2, OtherReads
  <2> QED
    BY <2>1, <2>2
<1> QED
  BY <1>2, <1>3 DEF CategoriesIInv

LEMMA AloneStands ==
  ASSUME CategoriesIInv, NEW r \in Running,
         \A s \in Refreshes \ {r} : phase'[s] = phase[s] /\ job'[s].alone = job[s].alone,
         phase'[r] # "idle" => job'[r].alone = job[r].alone,
         phase'[r] \in {"count", "sync", "link"} =>
           \/ phase[r] \in {"count", "sync", "link"} /\ job'[r].seenAt = job[r].seenAt /\ UNCHANGED <<clock, links>>
           \/ job'[r].seenAt = clock' /\ \A l \in DOMAIN links' : links'[l] < clock'
  PROVE  \A s \in Running' : AloneIsNewest(s)'
<1> SUFFICES ASSUME NEW s \in Running', job'[s].alone PROVE AloneIsNewest(s)'
  BY DEF AloneIsNewest
<1>1. CASE s # r
  <2>1. s \in Running /\ job[s].alone
    BY <1>1 DEF Running
  <2>2. Running = {s}
    BY <2>1 DEF CategoriesIInv, AloneIsNewest
  <2> QED
    BY <1>1, <2>2
<1>2. CASE s = r
  <2>1. job[r].alone /\ AloneIsNewest(r)
    BY <1>2 DEF Running, CategoriesIInv
  <2>2. Running = {r} /\ Running' = {r}
    BY <1>2, <2>1 DEF AloneIsNewest, Running
  <2> QED
    BY <1>2, <2>1, <2>2 DEF AloneIsNewest
<1> QED
  BY <1>1, <1>2

(* A refresh that is over has nothing left. *)
LEMMA GivenBack ==
  ASSUME CategoriesIInv, NEW r \in Running, GiveBack(r), UNCHANGED <<shop, treeVars, clock, starts, changes, catalog>>,
         faults' \in {faults, faults + 1}, faults' \in 0..MaxFaults,
         DOMAIN links' \subseteq catalog \X DOMAIN parent, \A l \in DOMAIN links' : links'[l] \in 1..clock
  PROVE  CategoriesIInv'
<1>1. /\ r \in Refreshes /\ phase'[r] = "idle" /\ job'[r] = NewJob 
      /\ job' \in [Refreshes -> Jobs] /\ phase' \in [Refreshes -> Phases]
      /\ \A s \in Refreshes \ {r} : phase'[s] = phase[s] /\ job'[s] = job[s]
  BY InvTypes, NewJobIsJob DEF GiveBack, Goto, Running, Phases
<1>2. CategoriesTypeOK'
  BY <1>1 DEF CategoriesIInv, CategoriesTypeOK, treeVars
<1>3. ActiveCategoriesAreShown'
  BY TreeStays DEF CategoriesIInv
<1>4. JobFollowsThePhase(r)'
  <2>1. IsInjective(<<>>) /\ ToSet(<<>>) = {}
    BY DEF IsInjective, ToSet
  <2> QED
    BY <1>1, <2>1, NewJobIsJob DEF JobFollowsThePhase
<1>5. \A s \in Running' : AloneIsNewest(s)'
  BY <1>1, AloneStands
<1>6. \A s \in Refreshes \ {r} : SameJob(job[s], job'[s])
  BY <1>1 DEF SameJob
<1>7. faults' = 0 => faults = 0
  BY InvTypes
<1> QED
  BY <1>1, <1>2, <1>3, <1>4, <1>5, <1>6, <1>7, StepOf

-----------------------------------------------------------------------------
(* The steps of a refresh.                                                   *)

LEMMA StartRefreshKeeps == ASSUME CategoriesIInv, NEW r \in Refreshes, StartRefresh(r) PROVE CategoriesIInv'
<1> USE DEF StartRefresh, Goto, shopVars
<1>1. /\ phase[r] = "idle" /\ phase'[r] = "seeds" /\ phase' \in [Refreshes -> Phases]
      /\ \A s \in Refreshes \ {r} : phase'[s] = phase[s]
  BY InvTypes DEF Phases
<1>2. /\ job' \in [Refreshes -> Jobs] /\ \A s \in Refreshes : SameJob(job[s], job'[s])
      /\ Running # {} => \A s \in Running \cup {r} : ~job'[s].alone
  <2>1. CASE Running = {}
    BY <2>1, InvTypes DEF SameJob
  <2>2. CASE Running # {}
    <3>1. job' = [s \in Refreshes |-> IF s \in Running \cup {r} THEN [job[s] EXCEPT !.alone = FALSE] ELSE job[s]]
      BY <2>2
    <3>2. \A s \in Refreshes : job[s] \in Jobs
      BY InvTypes
    <3>3. \A s \in Refreshes : /\ [job[s] EXCEPT !.alone = FALSE] \in Jobs
                               /\ SameJob(job[s], [job[s] EXCEPT !.alone = FALSE])
                               /\ [job[s] EXCEPT !.alone = FALSE].alone = FALSE
      BY <3>2, AloneJob
    <3>4. \A s \in Refreshes : SameJob(job[s], job[s])
      BY DEF SameJob
    <3> QED
      BY <3>1, <3>2, <3>3, <3>4 DEF Running
  <2> QED
    BY <2>1, <2>2
<1>3. CategoriesTypeOK'
  <2>1. CategoriesTypeOK
    BY DEF CategoriesIInv
  <2>2. starts' \in 0..MaxStarts
    BY <2>1, CategoriesAssumption DEF CategoriesTypeOK
  <2> QED
    BY <1>1, <1>2, <2>1, <2>2 DEF CategoriesTypeOK, treeVars
<1>4. ActiveCategoriesAreShown'
  BY TreeStays DEF CategoriesIInv
<1>5. JobFollowsThePhase(r)'
  <2>1. JobFollowsThePhase(r)
    BY DEF CategoriesIInv
  <2> QED
    BY <1>1, <1>2, <2>1 DEF JobFollowsThePhase, SameJob
<1>6. ASSUME NEW c \in CategoryIds PROVE StayingAreRead(r, c)' /\ QuietAreRead(r, c)'
  <2>1. job'[r].complete = {} /\ DOMAIN job'[r].listings = {}
    BY <1>1, <1>5 DEF JobFollowsThePhase
  <2> QED
    BY <1>1, <2>1 DEF StayingAreRead, QuietAreRead
<1>7. \A s \in Running' : AloneIsNewest(s)'
  <2>1. CASE Running = {}
    <3>1. Running' = {r}
      BY <1>1, <2>1 DEF Running
    <3> QED
      BY <1>1, <3>1 DEF AloneIsNewest
  <2>2. CASE Running # {}
    <3>1. Running' = Running \cup {r}
      BY <1>1 DEF Running
    <3> QED
      BY <1>2, <2>2, <3>1 DEF AloneIsNewest
  <2> QED
    BY <2>1, <2>2
<1>8. clock' = clock /\ faults' = faults /\ shop' = shop
  OBVIOUS
<1> QED
  BY <1>1, <1>2, <1>3, <1>4, <1>5, <1>6, <1>7, <1>8, StepOf

(* Nothing is read of the seeds yet. *)
LEMMA SeedsFound ==
  ASSUME CategoriesIInv, NEW r \in Refreshes, phase[r] = "seeds", NEW t \in Trees \cup {NoTree},
         NEW q \in Seq(CategoryIds), q # <<>>, IsInjective(q), Leaves(t) \subseteq ToSet(q),
         job' = [job EXCEPT ![r] = [job[r] EXCEPT !.tree = t, !.seeds = q]],
         phase' = [phase EXCEPT ![r] = "read"],
         faults' \in {faults, faults + 1}, faults' \in 0..MaxFaults, t # NoTree => faults' = faults,
         UNCHANGED <<shopVars, catalog, treeVars, links, clock, starts>>
  PROVE  CategoriesIInv'
<1> DEFINE j == job[r]
           k == job'[r]
<1>1. /\ phase'[r] = "read" /\ phase' \in [Refreshes -> Phases]
      /\ \A s \in Refreshes \ {r} : phase'[s] = phase[s] /\ job'[s] = job[s]
  BY InvTypes DEF Phases
<1>2. j \in Jobs /\ j.page = 1 /\ j.listed = {} /\ DOMAIN j.listings = {} /\ j.complete = {}
  BY InvTypes DEF CategoriesIInv, JobFollowsThePhase
<1>3. /\ k \in Jobs /\ k.tree = t /\ k.seeds = q /\ k.page = 1 /\ k.listed = {} /\ DOMAIN k.listings = {}
      /\ k.complete = {} /\ k.alone = j.alone /\ job' \in [Refreshes -> Jobs]
  <2>1. k = [j EXCEPT !.tree = t, !.seeds = q]
    BY InvTypes
  <2> HIDE DEF j
  <2>2. /\ k \in Jobs /\ k.tree = t /\ k.seeds = q /\ k.page = 1 /\ k.listed = {} /\ DOMAIN k.listings = {}
        /\ k.complete = {} /\ k.alone = j.alone
    <3> HIDE DEF k
    <3>1. /\ k \in Jobs /\ k.tree = t /\ k.seeds = q /\ k.page = j.page /\ k.listed = j.listed
          /\ k.listings = j.listings /\ k.complete = j.complete /\ k.alone = j.alone
      BY <1>2, <2>1, SeedsJob DEF Jobs
    <3> QED
      BY <1>2, <3>1
  <2> QED
    BY <2>1, <2>2, InvTypes
<1> HIDE DEF j, k
<1>4. CategoriesTypeOK'
  BY <1>1, <1>3 DEF CategoriesIInv, CategoriesTypeOK, shopVars, treeVars
<1>5. ActiveCategoriesAreShown'
  BY TreeStays DEF CategoriesIInv
<1>6. JobFollowsThePhase(r)'
  BY <1>1, <1>3 DEF JobFollowsThePhase, k
<1>7. ASSUME NEW c \in CategoryIds PROVE StayingAreRead(r, c)' /\ QuietAreRead(r, c)'
  <2>1. PagesRead(k) = 0
    BY <1>3, InvTypes DEF PagesRead
  <2>2. StayingAreRead(r, c)'
    <3>1. \A i \in DOMAIN shop'[c] : ~(i <= 0)
      <4>1. shop'[c] \in Seq(Products)
        BY InvTypes DEF shopVars
      <4> QED
        BY <4>1, LenProperties
    <3> QED
      BY <1>3, <2>1, <3>1 DEF StayingAreRead, k
  <2>3. QuietAreRead(r, c)'
    <3>1. {shop'[c][i] : i \in 1..0} = {}
      OBVIOUS
    <3>2. Quiet(r, c)' => 0 < Len(shop'[c])
      BY DEF Quiet
    <3> QED
      BY <1>3, <2>1, <3>1, <3>2 DEF QuietAreRead, k
  <2> QED
    BY <2>2, <2>3
<1>8. \A s \in Running' : AloneIsNewest(s)'
  <2>1. r \in Running
    BY DEF Running
  <2> QED
    BY <1>1, <1>3, <2>1, AloneStands DEF j, k
<1>9. \A s \in Refreshes \ {r} : SameJob(job[s], job'[s])
  BY <1>1 DEF SameJob
<1>10. clock' = clock /\ (faults' = 0 => faults = 0) /\ shop' = shop
  BY InvTypes DEF shopVars
<1> QED
  BY <1>1, <1>4, <1>5, <1>6, <1>7, <1>8, <1>9, <1>10, StepOf

LEMMA ResolveSeedsKeeps == ASSUME CategoriesIInv, NEW r \in Refreshes, ResolveSeeds(r) PROVE CategoriesIInv'
<1> USE DEF ResolveSeeds, Goto, Fault
<1>0. phase[r] = "seeds" /\ r \in Running
  BY DEF Running
<1>1. CASE /\ \E t \in Trees : job' = [job EXCEPT ![r].tree = t, ![r].seeds = SetToSeq(Leaves(t))]
           /\ Goto(r, "read") /\ UNCHANGED faults
  <2>1. PICK t \in Trees : job' = [job EXCEPT ![r].tree = t, ![r].seeds = SetToSeq(Leaves(t))]
    BY <1>1
  <2> DEFINE q == SetToSeq(Leaves(t))
  <2>2. /\ q \in Seq(CategoryIds) /\ IsInjective(q) /\ ToSet(q) = Leaves(t) /\ q # <<>>
    <3>1. q \in Seq(Leaves(t)) /\ IsInjective(q) /\ ToSet(q) = Leaves(t)
      BY TreeFacts, SetToSeqLists
    <3>2. q \in Seq(CategoryIds)
      BY <3>1, TreeFacts, SeqMonotonic
    <3>3. ToSet(<<>>) = {}
      BY DEF ToSet
    <3> QED
      BY <3>1, <3>2, <3>3, TreeFacts
  <2> HIDE DEF q
  <2>3. job' = [job EXCEPT ![r] = [job[r] EXCEPT !.tree = t, !.seeds = q]]
    BY <2>1, InvTypes DEF q
  <2>4. faults' = faults /\ faults' \in 0..MaxFaults /\ phase' = [phase EXCEPT ![r] = "read"]
    BY <1>1 DEF CategoriesIInv, CategoriesTypeOK
  <2> QED
    BY <1>0, <2>2, <2>3, <2>4, SeedsFound
<1>2. CASE Fault /\ SeedFile = <<>> /\ GiveBack(r)
  <2>1. UNCHANGED <<shop, treeVars, clock, starts, changes, catalog, links>>
    BY DEF shopVars
  <2>2. faults' = faults + 1 /\ faults' \in 0..MaxFaults
    BY <1>2, FaultCounts
  <2>3. DOMAIN links' \subseteq catalog \X DOMAIN parent /\ \A l \in DOMAIN links' : links'[l] \in 1..clock
    BY <2>1 DEF CategoriesIInv, CategoriesTypeOK
  <2> QED
    BY <1>0, <1>2, <2>1, <2>2, <2>3, GivenBack
<1>3. CASE Fault /\ SeedFile # <<>> /\ job' = [job EXCEPT ![r].seeds = SeedFile] /\ Goto(r, "read")
  <2>1. faults' = faults + 1 /\ faults' \in 0..MaxFaults
    BY <1>3, FaultCounts
  <2>2. SeedFile \in Seq(CategoryIds) /\ IsInjective(SeedFile)
    BY CategoriesAssumption
  <2>3. job[r] \in Jobs /\ job[r].tree = NoTree
    BY <1>0, InvTypes DEF CategoriesIInv, JobFollowsThePhase
  <2>4. [job[r] EXCEPT !.seeds = SeedFile] = [job[r] EXCEPT !.tree = NoTree, !.seeds = SeedFile]
    BY <2>3 DEF Jobs
  <2>5. job' = [job EXCEPT ![r] = [job[r] EXCEPT !.tree = NoTree, !.seeds = SeedFile]]
    BY <1>3, <2>4
  <2>6. Leaves(NoTree) \subseteq ToSet(SeedFile)
    BY DEF Leaves, NoTree
  <2> QED
    BY <1>0, <1>3, <2>1, <2>2, <2>5, <2>6, SeedsFound
<1> QED
  BY <1>1, <1>2, <1>3

LEMMA AbortKeeps == ASSUME CategoriesIInv, NEW r \in Refreshes, Abort(r) PROVE CategoriesIInv'
<1>1. r \in Running /\ GiveBack(r) /\ UNCHANGED <<shop, treeVars, clock, starts, changes, catalog, links>>
  BY DEF Abort, Running, shopVars
<1>2. faults' = faults + 1 /\ faults' \in 0..MaxFaults
  BY FaultCounts DEF Abort
<1>3. DOMAIN links' \subseteq catalog \X DOMAIN parent /\ \A l \in DOMAIN links' : links'[l] \in 1..clock
  BY <1>1 DEF CategoriesIInv, CategoriesTypeOK
<1> QED
  BY <1>1, <1>2, <1>3, GivenBack

(* The first page of a category is about to be read. *)
LEMMA FirstPage ==
  ASSUME CategoriesIInv, NEW r \in Refreshes, NEW c \in CategoryIds, shop' = shop,
         job'[r].page = 1, job'[r].listed = {}
  PROVE  /\ \A i \in DOMAIN shop'[c] : ~(i <= PagesRead(job'[r]))
         /\ Quiet(r, c)' => /\ PagesRead(job'[r]) < Len(shop'[c])
                            /\ job'[r].listed = {shop'[c][i] : i \in 1..PagesRead(job'[r])}
<1>1. PagesRead(job'[r]) = 0
  BY InvTypes DEF PagesRead
<1>2. \A i \in DOMAIN shop'[c] : ~(i <= 0)
  <2>1. shop'[c] \in Seq(Products)
    BY InvTypes
  <2> QED
    BY <2>1, LenProperties
<1>3. {shop'[c][i] : i \in 1..0} = {}
  OBVIOUS
<1>4. Quiet(r, c)' => 0 < Len(shop'[c])
  BY DEF Quiet
<1> QED
  BY <1>1, <1>2, <1>3, <1>4

(* The head of the seeds is done, with what was found of it. *)
LEMMA EndCategoryKeeps ==
  ASSUME CategoriesIInv, NEW r \in Refreshes, phase[r] = "read", NEW found \in SUBSET Products, NEW reason,
         EndCategory(r, found, reason), faults' \in {faults, faults + 1}, faults' \in 0..MaxFaults,
         UNCHANGED <<shopVars, catalog, treeVars, links, clock, starts>>,
         reason = "NoNextPage" /\ (\A p \in Products : <<p, Head(job[r].seeds)>> \notin job[r].gone) =>
           \A p \in Listed(Head(job[r].seeds)) :
             <<p, Head(job[r].seeds)>> \notin job[r].came => p \in job[r].listed \cup found,
         faults' = 0 /\ Quiet(r, Head(job[r].seeds)) =>
           reason = "NoNextPage" /\ job[r].listed \cup found = Listed(Head(job[r].seeds))
  PROVE  CategoriesIInv'
<1> DEFINE j == job[r]
           k == job'[r]
           head == Head(j.seeds)
<1>1. j \in Jobs /\ JobFollowsThePhase(r) /\ j.seeds # <<>> /\ r \in Running
  BY InvTypes DEF CategoriesIInv, JobFollowsThePhase, Running
<1>2. job' = [job EXCEPT ![r] = EndedJob(j, found, reason)]
  BY DEF EndCategory, EndedJob
<1>3. k = EndedJob(j, found, reason) /\ \A s \in Refreshes \ {r} : job'[s] = job[s]
  BY <1>2, InvTypes
<1>4. /\ phase'[r] = IF Tail(j.seeds) = <<>> THEN "upsert" ELSE "read"
      /\ phase' \in [Refreshes -> Phases] /\ \A s \in Refreshes \ {r} : phase'[s] = phase[s]
  BY InvTypes DEF EndCategory, Goto, Phases
<1> HIDE DEF j, k
<1>5. /\ k \in Jobs /\ k.tree = j.tree /\ k.seeds = Tail(j.seeds) /\ k.page = 1 /\ k.listed = {}
      /\ DOMAIN k.listings = DOMAIN j.listings \cup {Head(j.seeds)}
      /\ k.listings[Head(j.seeds)] = j.listed \cup found
      /\ \A c \in DOMAIN j.listings \ {Head(j.seeds)} : k.listings[c] = j.listings[c]
      /\ k.complete = IF reason = "NoNextPage" THEN j.complete \cup {Head(j.seeds)} ELSE j.complete
      /\ k.alone = j.alone /\ k.came = j.came /\ k.gone = j.gone
  <2>1. k \in Jobs /\ EndedAs(j, k, found, reason)
    BY <1>1, <1>3, EndedJobIsJob
  <2> QED
    BY <2>1 DEF EndedAs
<1>6. job' \in [Refreshes -> Jobs]
  BY <1>2, <1>3, <1>5, InvTypes
<1>7. /\ head \in CategoryIds /\ Tail(j.seeds) \in Seq(CategoryIds) /\ IsInjective(Tail(j.seeds))
      /\ head \notin ToSet(Tail(j.seeds)) /\ ToSet(j.seeds) = {head} \cup ToSet(Tail(j.seeds))
  <2>1. j.seeds \in Seq(CategoryIds) /\ IsInjective(j.seeds)
    BY <1>1, JobTypes DEF JobFollowsThePhase, j
  <2> QED
    BY <1>1, <2>1, HeadAndTail
<1>8. /\ Leaves(j.tree) \subseteq ToSet(j.seeds) \cup DOMAIN j.listings
      /\ ToSet(j.seeds) \cap DOMAIN j.listings = {} /\ j.complete \subseteq DOMAIN j.listings
  BY <1>1 DEF JobFollowsThePhase, j
<1> HIDE DEF head
<1>9. CategoriesTypeOK'
  BY <1>4, <1>6 DEF CategoriesIInv, CategoriesTypeOK, shopVars, treeVars
<1>10. ActiveCategoriesAreShown'
  BY TreeStays DEF CategoriesIInv
<1>11. JobFollowsThePhase(r)'
  <2>1. /\ phase'[r] = "read" <=> k.seeds # <<>>
        /\ phase'[r] \notin {"idle", "seeds", "count", "sync", "link"}
    BY <1>4, <1>5
  <2>2. Leaves(k.tree) \subseteq ToSet(k.seeds) \cup DOMAIN k.listings
    BY <1>5, <1>7, <1>8 DEF head
  <2>3. IsInjective(k.seeds) /\ ToSet(k.seeds) \cap DOMAIN k.listings = {} /\ k.complete \subseteq DOMAIN k.listings
    BY <1>5, <1>7, <1>8 DEF head
  <2> QED
    BY <2>1, <2>2, <2>3 DEF JobFollowsThePhase, Leaves, k
<1>12. ASSUME NEW c \in CategoryIds PROVE StayingAreRead(r, c)' /\ QuietAreRead(r, c)'
  <2>1. /\ \A i \in DOMAIN shop'[c] : ~(i <= PagesRead(k))
        /\ Quiet(r, c)' => PagesRead(k) < Len(shop'[c]) /\ k.listed = {shop'[c][i] : i \in 1..PagesRead(k)}
    BY <1>5, FirstPage DEF k, shopVars
  <2>2. StayingAreRead(r, c) /\ QuietAreRead(r, c)
    BY <1>1 DEF CategoriesIInv
  <2>3. Listed(c)' = Listed(c)
    BY DEF Listed, shopVars
  <2>4. ASSUME \A p \in Products : <<p, c>> \notin k.gone, c \in k.complete, NEW p \in Listed(c), <<p, c>> \notin k.came
        PROVE  p \in k.listings[c]
    <3>1. CASE c = head
      <4>1. reason = "NoNextPage"
        BY <1>5, <1>7, <1>8, <2>4, <3>1
      <4>2. p \in j.listed \cup found
        BY <1>5, <2>4, <3>1, <4>1 DEF j, head
      <4> QED
        BY <1>5, <3>1, <4>2 DEF head
    <3>2. CASE c # head
      <4>1. c \in j.complete /\ c \in DOMAIN j.listings \ {head}
        BY <1>5, <1>8, <2>4, <3>2 DEF head
      <4>2. p \in j.listings[c]
        BY <1>5, <2>2, <2>4, <4>1 DEF StayingAreRead, j
      <4> QED
        BY <1>5, <4>1, <4>2 DEF head
    <3> QED
      BY <3>1, <3>2
  <2>5. StayingAreRead(r, c)'
    BY <2>1, <2>3, <2>4 DEF StayingAreRead, k
  <2>6. ASSUME Quiet(r, c)', c \in DOMAIN k.listings PROVE c \in k.complete /\ k.listings[c] = Listed(c)
    <3>1. faults' = 0 /\ Quiet(r, c)
      BY <1>5, <2>6, InvTypes DEF Quiet, shopVars, k, j
    <3>2. CASE c = head
      <4>1. reason = "NoNextPage" /\ j.listed \cup found = Listed(head)
        BY <3>1, <3>2 DEF j, head
      <4> QED
        BY <1>5, <3>2, <4>1 DEF head
    <3>3. CASE c # head
      <4>1. c \in DOMAIN j.listings \ {head}
        BY <1>5, <2>6, <3>3 DEF head
      <4>2. c \in j.complete /\ j.listings[c] = Listed(c)
        BY <2>2, <3>1, <4>1 DEF QuietAreRead, j
      <4> QED
        BY <1>5, <4>1, <4>2 DEF head
    <3> QED
      BY <3>2, <3>3
  <2>7. QuietAreRead(r, c)'
    BY <2>1, <2>3, <2>6 DEF QuietAreRead, k
  <2> QED
    BY <2>5, <2>7
<1>13. \A s \in Running' : AloneIsNewest(s)'
  BY <1>1, <1>3, <1>4, <1>5, AloneStands DEF j, k
<1>14. \A s \in Refreshes \ {r} : SameJob(job[s], job'[s])
  BY <1>3 DEF SameJob
<1>15. clock' = clock /\ (faults' = 0 => faults = 0) /\ shop' = shop
  BY InvTypes DEF shopVars
<1> QED
  BY <1>4, <1>9, <1>10, <1>11, <1>12, <1>13, <1>14, <1>15, StepOf

(* A page of a listing, from lo + 1 to hi. *)
Page(q, lo, hi) == ToSet(SubSeq(q, lo + 1, IF Len(q) < hi THEN Len(q) ELSE hi))
PageOf(q, lo, hi, S, found) ==
         /\ found \subseteq S /\ \A i \in DOMAIN q : lo < i /\ i <= hi => q[i] \in found
         /\ lo < Len(q) => /\ found # {}
                           /\ Len(q) <= hi => {q[i] : i \in 1..lo} \cup found = ToSet(q)
                           /\ Len(q) > hi => {q[i] : i \in 1..lo} \cup found = {q[i] : i \in 1..hi}

LEMMA PageIsPageOf ==
  ASSUME NEW S, NEW q \in Seq(S), NEW lo \in Nat, NEW hi \in Nat, lo < hi
  PROVE  PageOf(q, lo, hi, S, Page(q, lo, hi))
<1> DEFINE n == Len(q)
           up == IF n < hi THEN n ELSE hi
           found == ToSet(SubSeq(q, lo + 1, up))
<1>1. n \in Nat /\ DOMAIN q = 1..n /\ \A i \in 1..n : q[i] \in S
  BY LenProperties
<1> HIDE DEF n, up
<1>2. up \in Nat /\ up <= n /\ up <= hi /\ (n <= hi => up = n) /\ (n > hi => up = hi)
  <2>1. ASSUME NEW u, u = IF n < hi THEN n ELSE hi
        PROVE  u \in Nat /\ u <= n /\ u <= hi /\ (n <= hi => u = n) /\ (n > hi => u = hi)
    <3>1. CASE n < hi
      BY <1>1, <2>1, <3>1
    <3>2. CASE ~(n < hi)
      BY <1>1, <2>1, <3>2
    <3> QED
      BY <3>1, <3>2
  <2> QED
    BY <1>1, <2>1 DEF up
<1>3. found = {q[i] : i \in (lo + 1)..up}
  BY <1>2, SetOfPage DEF n
<1> HIDE DEF found
<1>4. found \subseteq S
  <2>1. \A i \in (lo + 1)..up : i \in 1..n
    BY <1>1, <1>2
  <2> QED
    BY <1>1, <1>3, <2>1
<1>5. ASSUME NEW i \in DOMAIN q, lo < i, i <= hi PROVE q[i] \in found
  <2>1. i \in (lo + 1)..up
    BY <1>1, <1>2, <1>5
  <2> QED
    BY <1>3, <2>1
<1>6. ASSUME lo < n PROVE found # {} /\ {q[i] : i \in 1..lo} \cup found = {q[i] : i \in 1..up}
  <2>1. lo < up
    BY <1>1, <1>2, <1>6
  <2>2. lo + 1 \in (lo + 1)..up /\ 1..up = (1..lo) \cup ((lo + 1)..up)
    BY <1>2, <2>1
  <2> QED
    BY <1>3, <2>2
<1>7. ToSet(q) = {q[i] : i \in 1..n}
  BY <1>1 DEF ToSet
<1> QED
  BY <1>2, <1>4, <1>5, <1>6, <1>7 DEF found, up, n, Page, PageOf

(* What ResolveStopReason answers. *)
LEMMA StopReasons ==
  ASSUME NEW found, NEW nextPage \in BOOLEAN, NEW page \in 1..MaxPages
  PROVE  /\ StopReason(found, nextPage, page) = "none" => found # {} /\ nextPage /\ page < MaxPages
         /\ StopReason(found, nextPage, page) = "NoNextPage" => found # {} /\ ~nextPage
         /\ found # {} /\ ~nextPage => StopReason(found, nextPage, page) = "NoNextPage"
         /\ found # {} /\ nextPage /\ page # MaxPages => StopReason(found, nextPage, page) = "none"
<1>1. page \in Nat /\ MaxPages \in Nat /\ page <= MaxPages
  BY CategoriesAssumption
<1>2. CASE found = {}
  BY <1>2 DEF StopReason
<1>3. CASE found # {} /\ ~nextPage
  BY <1>3 DEF StopReason
<1>4. CASE found # {} /\ nextPage
  BY <1>1, <1>4 DEF StopReason
<1> QED
  BY <1>2, <1>3, <1>4

(* Another page of the same category. *)
LEMMA NextPageKeeps ==
  ASSUME CategoriesIInv, NEW r \in Refreshes, phase[r] = "read", NEW found \in SUBSET Products,
         job[r].page < MaxPages, job' = [job EXCEPT ![r] = PagedJob(job[r], found)],
         UNCHANGED <<shopVars, phase, catalog, treeVars, links, clock, starts, faults>>,
         \A i \in DOMAIN shop[Head(job[r].seeds)] :
           PagesRead(job[r]) < i /\ i <= job[r].page * PageSize => shop[Head(job[r].seeds)][i] \in found,
         Quiet(r, Head(job[r].seeds)) =>
           /\ job[r].page * PageSize < Len(shop[Head(job[r].seeds)])
           /\ job[r].listed \cup found = {shop[Head(job[r].seeds)][i] : i \in 1..job[r].page * PageSize}
  PROVE  CategoriesIInv'
<1> DEFINE j == job[r]
           k == job'[r]
           head == Head(j.seeds)
<1>1. j \in Jobs /\ JobFollowsThePhase(r) /\ j.page \in Nat \ {0} /\ r \in Running
  BY InvTypes, JobTypes DEF CategoriesIInv, Running
<1>2. k = PagedJob(j, found) /\ \A s \in Refreshes \ {r} : job'[s] = job[s]
  BY InvTypes
<1> HIDE DEF j, k
<1>3. k \in Jobs /\ PagedAs(j, k, found)
  BY <1>1, <1>2, PagedJobIsJob DEF j
<1>4. /\ k.tree = j.tree /\ k.seeds = j.seeds /\ k.page = j.page + 1 /\ k.listed = j.listed \cup found
      /\ k.listings = j.listings /\ k.complete = j.complete /\ k.alone = j.alone
      /\ k.came = j.came /\ k.gone = j.gone
  BY <1>3 DEF PagedAs
<1>5. PagesRead(k) = j.page * PageSize /\ PagesRead(j) \in Nat /\ PagesRead(k) \in Nat
  BY <1>1, <1>4, PageNumbers, InvTypes DEF PagesRead
<1>6. job' \in [Refreshes -> Jobs]
  BY <1>2, <1>3, InvTypes DEF k, j
<1>7. CategoriesTypeOK'
  BY <1>6 DEF CategoriesIInv, CategoriesTypeOK, shopVars, treeVars
<1>8. ActiveCategoriesAreShown'
  BY TreeStays DEF CategoriesIInv
<1>9. JobFollowsThePhase(r)'
  BY <1>1, <1>4 DEF JobFollowsThePhase, Leaves, j, k
<1>10. ASSUME NEW c \in CategoryIds PROVE StayingAreRead(r, c)' /\ QuietAreRead(r, c)'
  <2>1. StayingAreRead(r, c) /\ QuietAreRead(r, c)
    BY <1>1 DEF CategoriesIInv
  <2>2. Listed(c)' = Listed(c) /\ shop' = shop
    BY DEF Listed, shopVars
  <2>3. ASSUME \A p \in Products : <<p, c>> \notin j.gone, c = Head(j.seeds), NEW i \in DOMAIN shop[c],
               i <= PagesRead(k), <<shop[c][i], c>> \notin j.came
        PROVE  shop[c][i] \in j.listed \cup found
    <3>1. CASE i <= PagesRead(j)
      BY <2>1, <2>3, <3>1 DEF StayingAreRead, j
    <3>2. CASE PagesRead(j) < i
      BY <1>5, <2>3, <3>2 DEF j
    <3>3. i \in Nat
      <4>1. shop[c] \in Seq(Products)
        BY InvTypes
      <4> QED
        BY <4>1, LenProperties
    <3> QED
      BY <1>5, <3>1, <3>2, <3>3
  <2>4. StayingAreRead(r, c)'
    BY <1>4, <2>1, <2>2, <2>3 DEF StayingAreRead, j, k
  <2>5. Quiet(r, c)' => Quiet(r, c)
    BY <1>4, <2>2 DEF Quiet, j, k
  <2>6. Quiet(r, c)' /\ c = Head(j.seeds) => PagesRead(k) < Len(shop[c]) /\ k.listed = {shop[c][i] : i \in 1..PagesRead(k)}
    BY <1>4, <1>5, <2>5 DEF j
  <2>7. QuietAreRead(r, c)'
    BY <1>4, <2>1, <2>2, <2>5, <2>6 DEF QuietAreRead, j, k
  <2> QED
    BY <2>4, <2>7
<1>11. \A s \in Running' : AloneIsNewest(s)'
  BY <1>1, <1>2, <1>4, AloneStands DEF j, k
<1>12. \A s \in Refreshes \ {r} : SameJob(job[s], job'[s])
  BY <1>2 DEF SameJob
<1>13. clock' = clock /\ (faults' = 0 => faults = 0) /\ shop' = shop
  BY DEF shopVars
<1> QED
  BY <1>7, <1>8, <1>9, <1>10, <1>11, <1>12, <1>13, StepOf

LEMMA ReadPageKeeps == ASSUME CategoriesIInv, NEW r \in Refreshes, ReadPage(r) PROVE CategoriesIInv'
<1> DEFINE j == job[r]
           head == Head(j.seeds)
           products == shop[head]
           lo == (j.page - 1) * PageSize
           hi == j.page * PageSize
           found == ToSet(SubSeq(products, lo + 1, IF Len(products) < hi THEN Len(products) ELSE hi))
           counted == IF j.tree = NoTree THEN found \ j.discovered ELSE found
           reason == StopReason(counted, Len(products) > hi, j.page)
<1>0. phase[r] = "read" /\ UNCHANGED <<shopVars, catalog, treeVars, links, clock, starts, faults>>
  BY DEF ReadPage
<1>1. \/ reason # "none" /\ EndCategory(r, found, reason)
      \/ reason = "none" /\ job' = [job EXCEPT ![r] = PagedJob(j, found)] /\ phase' = phase
  BY InvTypes DEF ReadPage, PagedJob
<1>2. j \in Jobs /\ JobFollowsThePhase(r) /\ j.seeds # <<>> /\ j.page \in 1..MaxPages /\ r \in Running
  BY <1>0, InvTypes, JobTypes DEF CategoriesIInv, JobFollowsThePhase, Running
<1>3. head \in CategoryIds /\ products \in Seq(Products)
  <2>1. head \in CategoryIds
    BY <1>2, JobTypes, HeadTailProperties
  <2> QED
    BY <2>1, InvTypes
<1>4. lo \in Nat /\ hi \in Nat /\ lo < hi /\ j.page \in Nat \ {0} /\ PageSize \in Nat \ {0} /\ PagesRead(j) = lo
  <2>1. j.page \in Nat \ {0} /\ PageSize \in Nat \ {0}
    BY <1>2, InvTypes
  <2>2. lo \in Nat /\ hi \in Nat /\ hi = lo + PageSize
    BY <2>1, PageNumbers
  <2> QED
    BY <2>1, <2>2 DEF PagesRead
<1>5. StayingAreRead(r, head) /\ QuietAreRead(r, head)
  BY <1>2, <1>3 DEF CategoriesIInv
<1>6. Quiet(r, head) => j.tree # NoTree /\ Len(products) <= MaxPages * PageSize
  BY <1>3 DEF Quiet
<1> HIDE DEF j, lo, hi, products
<1>7. /\ found \subseteq Products /\ \A i \in DOMAIN products : lo < i /\ i <= hi => products[i] \in found
      /\ lo < Len(products) => /\ found # {}
                               /\ Len(products) <= hi => {products[i] : i \in 1..lo} \cup found = ToSet(products)
                               /\ Len(products) > hi => {products[i] : i \in 1..lo} \cup found = {products[i] : i \in 1..hi}
  <2>1. found = Page(products, lo, hi)
    BY DEF Page
  <2>2. PageOf(products, lo, hi, Products, Page(products, lo, hi))
    BY <1>3, <1>4, PageIsPageOf
  <2> HIDE DEF found
  <2> QED
    BY <2>1, <2>2 DEF PageOf
<1> HIDE DEF found
<1>8. Len(products) \in Nat /\ DOMAIN products = 1..Len(products) /\ ToSet(products) = Listed(head)
  BY <1>3, LenProperties DEF Listed, products
<1>9. /\ reason = "none" => counted # {} /\ Len(products) > hi /\ j.page < MaxPages
      /\ reason = "NoNextPage" => counted # {} /\ ~(Len(products) > hi)
      /\ counted # {} /\ ~(Len(products) > hi) => reason = "NoNextPage"
      /\ counted # {} /\ Len(products) > hi /\ j.page # MaxPages => reason = "none"
  <2>1. (Len(products) > hi) \in BOOLEAN
    OBVIOUS
  <2> HIDE DEF counted
  <2> QED
    BY <1>2, <2>1, StopReasons
<1>10. ASSUME Quiet(r, head)
       PROVE  /\ lo < Len(products) /\ j.listed = {products[i] : i \in 1..lo} /\ counted # {}
              /\ Len(products) > hi => j.page # MaxPages
  <2>1. lo < Len(products) /\ j.listed = {products[i] : i \in 1..lo}
    BY <1>0, <1>4, <1>5, <1>10 DEF QuietAreRead, j, products
  <2>2. counted # {}
    BY <1>6, <1>7, <1>10, <2>1
  <2>3. Len(products) > hi => j.page # MaxPages
    BY <1>4, <1>6, <1>8, <1>10 DEF hi
  <2> QED
    BY <2>1, <2>2, <2>3
<1> HIDE DEF counted
<1>11. CASE reason # "none" /\ EndCategory(r, found, reason)
  <2>1. ASSUME reason = "NoNextPage", \A p \in Products : <<p, head>> \notin j.gone,
               NEW p \in Listed(head), <<p, head>> \notin j.came
        PROVE  p \in j.listed \cup found
    <3>1. PICK i \in DOMAIN products : p = products[i]
      BY <1>8 DEF ToSet
    <3>2. i <= hi /\ i \in Nat
      BY <1>4, <1>8, <1>9, <2>1, <3>1
    <3>3. CASE i <= lo
      BY <1>0, <1>4, <1>5, <2>1, <3>1, <3>3 DEF StayingAreRead, j, products
    <3>4. CASE lo < i
      BY <1>7, <3>1, <3>2, <3>4
    <3> QED
      BY <1>4, <3>2, <3>3, <3>4
  <2>2. ASSUME Quiet(r, head) PROVE reason = "NoNextPage" /\ j.listed \cup found = Listed(head)
    <3>1. ~(Len(products) > hi)
      BY <1>9, <1>10, <1>11, <2>2
    <3>2. Len(products) <= hi
      BY <1>4, <1>8, <3>1
    <3> QED
      BY <1>7, <1>8, <1>9, <1>10, <2>2, <3>1, <3>2
  <2>3. faults' \in {faults, faults + 1} /\ faults' \in 0..MaxFaults
    BY <1>0 DEF CategoriesIInv, CategoriesTypeOK
  <2> HIDE DEF reason
  <2> QED
    BY <1>0, <1>7, <1>11, <2>1, <2>2, <2>3, EndCategoryKeeps DEF j, head
<1>12. CASE reason = "none" /\ job' = [job EXCEPT ![r] = PagedJob(j, found)] /\ phase' = phase
  <2>1. \A i \in DOMAIN products : PagesRead(j) < i /\ i <= j.page * PageSize => products[i] \in found
    BY <1>4, <1>7 DEF hi
  <2>2. ASSUME Quiet(r, head)
        PROVE  j.page * PageSize < Len(products) /\ j.listed \cup found = {products[i] : i \in 1..j.page * PageSize}
    <3>1. hi < Len(products) /\ Len(products) > hi
      BY <1>4, <1>8, <1>9, <1>12
    <3>2. j.listed \cup found = {products[i] : i \in 1..hi}
      BY <1>7, <1>10, <2>2, <3>1
    <3> QED
      BY <3>1, <3>2 DEF hi
  <2>3. j.page < MaxPages
    BY <1>9, <1>12
  <2> QED
    BY <1>0, <1>7, <1>12, <2>1, <2>2, <2>3, NextPageKeeps DEF j, head, products
<1> QED
  BY <1>1, <1>11, <1>12

LEMMA PageUnavailableKeeps == ASSUME CategoriesIInv, NEW r \in Refreshes, PageUnavailable(r) PROVE CategoriesIInv'
<1>1. /\ phase[r] = "read" /\ Fault /\ EndCategory(r, {}, "PageUnavailable")
      /\ UNCHANGED <<shopVars, catalog, treeVars, links, clock, starts>>
  BY DEF PageUnavailable
<1>2. faults' = faults + 1 /\ faults' \in 0..MaxFaults /\ faults' # 0
  BY <1>1, FaultCounts
<1>3. {} \in SUBSET Products /\ "PageUnavailable" # "NoNextPage"
  OBVIOUS
<1> QED
  BY <1>1, <1>2, <1>3, EndCategoryKeeps

LEMMA UpsertDiscoveredKeeps == ASSUME CategoriesIInv, NEW r \in Refreshes, UpsertDiscovered(r) PROVE CategoriesIInv'
<1> DEFINE j == job[r]
           k == job'[r]
           urls == j.discovered \cap Accepted
<1>0. phase[r] = "upsert" /\ r \in Running /\ UNCHANGED <<shopVars, treeVars, links, starts, faults>>
  BY DEF UpsertDiscovered, Running
<1>1. CASE urls = {}
  <2>1. GiveBack(r) /\ UNCHANGED <<shop, treeVars, clock, starts, changes, catalog, links>>
    BY <1>1 DEF UpsertDiscovered, shopVars
  <2>2. /\ faults' = faults /\ faults' \in 0..MaxFaults
        /\ DOMAIN links' \subseteq catalog \X DOMAIN parent /\ \A l \in DOMAIN links' : links'[l] \in 1..clock
    BY <1>0, <2>1 DEF CategoriesIInv, CategoriesTypeOK
  <2> QED
    BY <1>0, <2>1, <2>2, GivenBack
<1>2. CASE urls # {}
  <2>1. /\ clock' = clock + 1 /\ job' = [job EXCEPT ![r] = TimedJob(j, clock')]
        /\ catalog' = catalog \cup urls
        /\ phase' = [phase EXCEPT ![r] = IF j.tree = NoTree THEN "link" ELSE "count"]
    BY <1>2 DEF UpsertDiscovered, TimedJob, Goto
  <2>2. /\ phase'[r] = (IF j.tree = NoTree THEN "link" ELSE "count") /\ phase' \in [Refreshes -> Phases]
        /\ \A s \in Refreshes \ {r} : phase'[s] = phase[s] /\ job'[s] = job[s]
    BY <2>1, InvTypes DEF Phases
  <2>3. j \in Jobs /\ JobFollowsThePhase(r) /\ clock \in Nat /\ clock' \in Nat
        /\ clock' \in 1..clock' /\ k = TimedJob(j, clock')
    BY <2>1, InvTypes DEF CategoriesIInv
  <2> HIDE DEF j, k
  <2>4. k \in Jobs /\ TimedAs(j, k, clock')
    BY <2>3, TimedJobIsJob
  <2>5. /\ k.tree = j.tree /\ k.seeds = j.seeds /\ k.page = j.page /\ k.listed = j.listed
        /\ k.listings = j.listings /\ k.complete = j.complete /\ k.alone = j.alone
        /\ k.came = j.came /\ k.gone = j.gone /\ k.seenAt = clock'
    BY <2>4 DEF TimedAs
  <2>6. job' \in [Refreshes -> Jobs]
    BY <2>1, <2>3, <2>4, InvTypes
  <2>7. CategoriesTypeOK'
    <3>1. \A l \in DOMAIN links' : links'[l] \in 1..clock'
      BY <1>0, <2>1, <2>3 DEF CategoriesIInv, CategoriesTypeOK
    <3> QED
      BY <1>0, <2>1, <2>2, <2>3, <2>6, <3>1 DEF CategoriesIInv, CategoriesTypeOK, shopVars, treeVars
  <2>8. ActiveCategoriesAreShown'
    BY <1>0, TreeStays DEF CategoriesIInv
  <2>9. JobFollowsThePhase(r)'
    BY <1>0, <2>2, <2>3, <2>5 DEF JobFollowsThePhase, Leaves, j, k
  <2>10. ASSUME NEW c \in CategoryIds PROVE StayingAreRead(r, c)' /\ QuietAreRead(r, c)'
    <3>1. StayingAreRead(r, c) /\ QuietAreRead(r, c)
      BY <1>0 DEF CategoriesIInv
    <3>2. Listed(c)' = Listed(c) /\ phase'[r] # "read"
      BY <1>0, <2>2 DEF Listed, shopVars
    <3>3. StayingAreRead(r, c)'
      BY <2>5, <3>1, <3>2 DEF StayingAreRead, j, k
    <3>4. Quiet(r, c)' => Quiet(r, c)
      BY <1>0, <2>5 DEF Quiet, j, k, shopVars
    <3>5. QuietAreRead(r, c)'
      BY <2>5, <3>1, <3>2, <3>4 DEF QuietAreRead, j, k
    <3> QED
      BY <3>3, <3>5
  <2>11. \A s \in Running' : AloneIsNewest(s)'
    <3>1. \A l \in DOMAIN links' : links'[l] < clock'
      <4>1. \A l \in DOMAIN links : links[l] \in 1..clock
        BY DEF CategoriesIInv, CategoriesTypeOK
      <4> QED
        BY <1>0, <2>1, <2>3, <4>1
    <3> QED
      BY <1>0, <2>2, <2>5, <3>1, AloneStands DEF j, k
  <2>12. \A s \in Refreshes \ {r} : SameJob(job[s], job'[s])
    BY <2>2 DEF SameJob
  <2>13. clock' = clock + 1 /\ (faults' = 0 => faults = 0) /\ shop' = shop
    BY <1>0, <2>1 DEF shopVars
  <2> QED
    BY <2>2, <2>7, <2>8, <2>9, <2>10, <2>11, <2>12, <2>13, StepOf
<1> QED
  BY <1>1, <1>2

(* The refresh goes on to its next statement, and leaves what it has. *)
LEMMA GoesOn ==
  ASSUME CategoriesIInv, NEW r \in Refreshes, phase[r] \in {"count", "sync"}, NEW next \in {"sync", "link"}, Goto(r, next),
         CategoriesTypeOK', ActiveCategoriesAreShown', UNCHANGED <<shop, job, links, clock, faults>>
  PROVE  CategoriesIInv'
<1>1. r \in Running /\ phase'[r] = next /\ \A s \in Refreshes \ {r} : phase'[s] = phase[s]
  BY InvTypes DEF Goto, Running
<1>2. JobFollowsThePhase(r)'
  <2>1. JobFollowsThePhase(r)
    BY DEF CategoriesIInv
  <2> QED
    BY <1>1, <2>1 DEF JobFollowsThePhase
<1>3. ASSUME NEW c \in CategoryIds PROVE StayingAreRead(r, c)' /\ QuietAreRead(r, c)'
  <2>1. StayingAreRead(r, c) /\ QuietAreRead(r, c)
    BY <1>1 DEF CategoriesIInv
  <2>2. (Listed(c)' = Listed(c)) /\ (Quiet(r, c)' => Quiet(r, c))
    BY DEF Listed, Quiet
  <2> QED
    BY <1>1, <2>1, <2>2 DEF StayingAreRead, QuietAreRead
<1>4. \A s \in Running' : AloneIsNewest(s)'
  BY <1>1, AloneStands
<1>5. \A s \in Refreshes \ {r} : SameJob(job[s], job'[s])
  BY DEF SameJob
<1> QED
  BY <1>1, <1>2, <1>3, <1>4, <1>5, StepOf

LEMMA GetActiveCountKeeps == ASSUME CategoriesIInv, NEW r \in Refreshes, GetActiveCount(r) PROVE CategoriesIInv'
<1>1. /\ phase[r] = "count" /\ UNCHANGED <<shopVars, job, catalog, treeVars, links, clock, starts, faults>>
      /\ Goto(r, "sync") \/ Goto(r, "link")
  BY DEF GetActiveCount
<1>2. CategoriesTypeOK'
  BY <1>1, InvTypes DEF CategoriesIInv, CategoriesTypeOK, Goto, Phases, shopVars, treeVars
<1>3. ActiveCategoriesAreShown'
  BY <1>1, TreeStays DEF CategoriesIInv
<1> QED
  BY <1>1, <1>2, <1>3, GoesOn DEF shopVars

(* The tree of the menu hangs together: every category is below a root. *)
LEMMA TreeIsReached ==
  ASSUME NEW t \in Trees, NEW S \in SUBSET DOMAIN t,
         \A d \in DOMAIN t : t[d] = NoCategory \/ t[d] \in S => d \in S
  PROVE  S = DOMAIN t
<1>1. \A c \in DOMAIN t : t[c] \in DOMAIN t \cup {NoCategory}
  BY CategoriesAssumption
<1>2. PICK place \in [DOMAIN t -> 1..Cardinality(DOMAIN t)] :
        \A c \in DOMAIN t : t[c] # NoCategory => place[t[c]] < place[c]
  BY CategoriesAssumption
<1> DEFINE T == {place[c] : c \in DOMAIN t \ S}
<1> SUFFICES ASSUME S # DOMAIN t PROVE FALSE
  OBVIOUS
<1>3. T \in SUBSET Nat /\ T # {}
  BY <1>2
<1>4. PICK x \in T : \A y \in T : x <= y
  BY <1>3, LeastNatural
<1>5. PICK d \in DOMAIN t \ S : x = place[d]
  BY <1>4
<1>6. t[d] \in DOMAIN t /\ t[d] # NoCategory /\ t[d] \notin S
  BY <1>1, <1>5
<1>7. place[t[d]] < place[d] /\ place[d] <= place[t[d]]
  BY <1>2, <1>4, <1>5, <1>6
<1>8. place[t[d]] \in Nat /\ place[d] \in Nat
  BY <1>2, <1>5, <1>6
<1> QED
  BY <1>7, <1>8

LEMMA SyncTreeKeeps == ASSUME CategoriesIInv, NEW r \in Refreshes, SyncTree(r) PROVE CategoriesIInv'
<1> DEFINE t == job[r].tree
<1>1. /\ phase[r] = "sync" /\ parent' = Parents(t) /\ active' = DOMAIN t /\ Goto(r, "link")
      /\ UNCHANGED <<shopVars, job, catalog, links, clock, starts, faults>>
  BY DEF SyncTree
<1>2. t \in Trees
  <2>1. t # NoTree /\ t \in Trees \cup {NoTree}
    BY <1>1, InvTypes, JobTypes DEF CategoriesIInv, JobFollowsThePhase
  <2> QED
    BY <2>1
<1> HIDE DEF t
<1>3. DOMAIN t \subseteq CategoryIds
  BY <1>2, TreeFacts
<1>4. DOMAIN parent' = DOMAIN parent \cup DOMAIN t /\ \A d \in DOMAIN t : parent'[d] = t[d]
  BY <1>1 DEF Parents
<1>5. CategoriesTypeOK'
  BY <1>1, <1>3, <1>4, InvTypes DEF CategoriesIInv, CategoriesTypeOK, Goto, Phases, shopVars
<1>6. ActiveCategoriesAreShown'
  <2>1. ASSUME NEW S \in SUBSET active', Children(NoCategory)' \subseteq S, \A c \in S : Children(c)' \subseteq S
        PROVE  S = active'
    <3>1. ASSUME NEW d \in DOMAIN t, NEW c, t[d] = c, c = NoCategory \/ c \in S PROVE d \in S
      <4>1. d \in Children(c)'
        BY <1>1, <1>4, <3>1 DEF Children
      <4> QED
        BY <2>1, <3>1, <4>1
    <3>2. \A d \in DOMAIN t : t[d] = NoCategory \/ t[d] \in S => d \in S
      BY <3>1
    <3> QED
      BY <1>1, <1>2, <3>2, TreeIsReached
  <2>2. Shown' = active'
    BY <2>1 DEF Shown
  <2> QED
    BY <1>1, <1>4, <2>2 DEF ActiveCategoriesAreShown
<1> QED
  BY <1>1, <1>5, <1>6, GoesOn DEF shopVars

LEMMA LinkProductsKeeps == ASSUME CategoriesIInv, NEW r \in Refreshes, LinkProducts(r) PROVE CategoriesIInv'
<1>1. /\ phase[r] = "link" /\ GiveBack(r) /\ r \in Running
      /\ UNCHANGED <<shop, treeVars, clock, starts, changes, catalog>> /\ faults' = faults
      /\ links' = [l \in DOMAIN Upserted(r) \ Outdated(Upserted(r), r) |-> Upserted(r)[l]]
  BY DEF LinkProducts, Running, shopVars
<1>2. /\ DOMAIN links \subseteq catalog \X DOMAIN parent /\ \A l \in DOMAIN links : links[l] \in 1..clock
      /\ job[r].seenAt \in 1..clock /\ faults \in 0..MaxFaults
  BY <1>1 DEF CategoriesIInv, CategoriesTypeOK, JobFollowsThePhase
<1>3. ReadLinks(r) \subseteq catalog \X DOMAIN parent
  BY DEF ReadLinks
<1>4. /\ DOMAIN Upserted(r) \subseteq catalog \X DOMAIN parent
      /\ \A l \in DOMAIN Upserted(r) : Upserted(r)[l] \in 1..clock
  BY <1>2, <1>3 DEF Upserted
<1>5. DOMAIN links' \subseteq catalog \X DOMAIN parent /\ \A l \in DOMAIN links' : links'[l] \in 1..clock
  BY <1>1, <1>4
<1> QED
  BY <1>1, <1>2, <1>5, GivenBack

-----------------------------------------------------------------------------
(* The steps of the shop.                                                    *)

(* One category changes, and every refresh that runs has met the change.     *)
LEMMA ShopChanges ==
  ASSUME CategoriesIInv, NEW c \in CategoryIds, shop' \in [CategoryIds -> Seq(Products)],
         \A d \in CategoryIds \ {c} : shop'[d] = shop[d],
         job' \in [Refreshes -> Jobs],
         \A s \in Refreshes : /\ Observed(job[s], job'[s], job'[s].came, job'[s].gone)
                              /\ \A p \in Products, d \in CategoryIds \ {c} :
                                   /\ <<p, d>> \in job'[s].came <=> <<p, d>> \in job[s].came
                                   /\ <<p, d>> \in job'[s].gone <=> <<p, d>> \in job[s].gone,
         \A s \in Running : StayingAreRead(s, c)' /\ ~Quiet(s, c)',
         Change, UNCHANGED <<phase, catalog, treeVars, links, clock, starts, faults>>
  PROVE  CategoriesIInv'
<1>1. \A s \in Refreshes : /\ job'[s].tree = job[s].tree /\ job'[s].seeds = job[s].seeds /\ job'[s].page = job[s].page
                           /\ job'[s].listed = job[s].listed /\ job'[s].listings = job[s].listings
                           /\ job'[s].complete = job[s].complete /\ job'[s].seenAt = job[s].seenAt
                           /\ job'[s].alone = job[s].alone
  BY DEF Observed
<1>2. CategoriesTypeOK'
  <2>1. CategoriesTypeOK
    BY DEF CategoriesIInv
  <2>2. changes' \in 0..MaxChanges
    BY <2>1, CategoriesAssumption DEF CategoriesTypeOK, Change
  <2> QED
    BY <2>1, <2>2 DEF CategoriesTypeOK, treeVars
<1>3. ActiveCategoriesAreShown'
  BY TreeStays DEF CategoriesIInv
<1>4. \A s \in Refreshes : JobFollowsThePhase(s)'
  <2> SUFFICES ASSUME NEW s \in Refreshes PROVE JobFollowsThePhase(s)'
    OBVIOUS
  <2>1. JobFollowsThePhase(s)
    BY DEF CategoriesIInv
  <2> QED
    BY <1>1, <2>1 DEF JobFollowsThePhase, Leaves
<1>5. Running' = Running
  BY DEF Running
<1>6. ASSUME NEW s \in Running, NEW d \in CategoryIds PROVE StayingAreRead(s, d)' /\ QuietAreRead(s, d)'
  <2>1. CASE d = c
    BY <2>1 DEF QuietAreRead
  <2>2. CASE d # c
    <3>1. StayingAreRead(s, d) /\ QuietAreRead(s, d) /\ s \in Refreshes
      BY DEF CategoriesIInv, Running
    <3>2. shop'[d] = shop[d] /\ Listed(d)' = Listed(d) /\ PagesRead(job'[s]) = PagesRead(job[s])
      BY <1>1, <2>2, <3>1 DEF Listed, PagesRead
    <3>3. \A p \in Products : (<<p, d>> \in job'[s].came <=> <<p, d>> \in job[s].came)
                              /\ (<<p, d>> \in job'[s].gone <=> <<p, d>> \in job[s].gone)
      BY <2>2, <3>1
    <3>4. shop[d] \in Seq(Products) /\ Listed(d) \subseteq Products /\ \A i \in DOMAIN shop[d] : shop[d][i] \in Products
      <4>1. shop[d] \in Seq(Products)
        BY InvTypes
      <4> QED
        BY <4>1, LenProperties DEF Listed, ToSet
    <3>5. StayingAreRead(s, d)'
      BY <1>1, <3>1, <3>2, <3>3, <3>4 DEF StayingAreRead
    <3>6. Quiet(s, d)' => Quiet(s, d)
      BY <1>1, <3>1, <3>2, <3>3 DEF Quiet
    <3>7. QuietAreRead(s, d)'
      BY <1>1, <3>1, <3>2, <3>6 DEF QuietAreRead
    <3> QED
      BY <3>5, <3>7
  <2> QED
    BY <2>1, <2>2
<1>7. \A s \in Running' : AloneIsNewest(s)'
  <2> SUFFICES ASSUME NEW s \in Running PROVE AloneIsNewest(s)'
    BY <1>5
  <2>1. AloneIsNewest(s) /\ s \in Refreshes
    BY DEF CategoriesIInv, Running
  <2> QED
    BY <1>1, <1>5, <2>1 DEF AloneIsNewest
<1> QED
  BY <1>2, <1>3, <1>4, <1>5, <1>6, <1>7 DEF CategoriesIInv

LEMMA ListKeeps ==
  ASSUME CategoriesIInv, NEW p \in Products, NEW c \in CategoryIds, List(p, c) PROVE CategoriesIInv'
<1>1. /\ Change /\ UNCHANGED <<phase, catalog, treeVars, links, clock, starts, faults>>
      /\ job' = [s \in Refreshes |-> IF s \in Running THEN [job[s] EXCEPT !.came = @ \cup {<<p, c>>}] ELSE job[s]]
  BY DEF List
<1>2. PICK i \in 1..(Len(shop[c]) + 1) : shop' = [shop EXCEPT ![c] = InsertAt(@, i, p)]
  BY DEF List
<1> DEFINE q == shop[c]
<1>3. q \in Seq(Products) /\ Len(q) \in Nat /\ DOMAIN q = 1..Len(q) /\ i \in 1..(Len(q) + 1)
  BY <1>2, InvTypes, LenProperties
<1>4. shop'[c] = InsertAt(q, i, p) /\ \A d \in CategoryIds \ {c} : shop'[d] = shop[d]
  BY <1>2, InvTypes
<1> HIDE DEF q
<1>5. /\ InsertAt(q, i, p) \in Seq(Products) /\ Len(InsertAt(q, i, p)) = Len(q) + 1
      /\ \A k \in 1..(Len(q) + 1) :
           InsertAt(q, i, p)[k] = IF k < i THEN q[k] ELSE IF k = i THEN p ELSE q[k - 1]
  BY <1>3, InsertAtPlaces
<1>6. shop' \in [CategoryIds -> Seq(Products)]
  BY <1>2, <1>4, <1>5, InvTypes DEF q
<1>7. /\ DOMAIN shop'[c] = 1..(Len(q) + 1)
      /\ \A k \in 1..(Len(q) + 1) : shop'[c][k] = IF k < i THEN q[k] ELSE IF k = i THEN p ELSE q[k - 1]
  <2>1. shop'[c] \in Seq(Products) /\ Len(shop'[c]) = Len(q) + 1
    BY <1>4, <1>5
  <2> QED
    BY <1>4, <1>5, <2>1, LenProperties
<1>8. \A s \in Refreshes : /\ [job[s] EXCEPT !.came = @ \cup {<<p, c>>}] \in Jobs
                           /\ Observed(job[s], [job[s] EXCEPT !.came = @ \cup {<<p, c>>}],
                                       job[s].came \cup {<<p, c>>}, job[s].gone)
  BY InvTypes, CameJob
<1>9. job' \in [Refreshes -> Jobs]
  BY <1>1, <1>8, InvTypes
<1>10. \A s \in Refreshes :
         /\ Observed(job[s], job'[s], job'[s].came, job'[s].gone)
         /\ job'[s].gone = job[s].gone
         /\ job'[s].came = IF s \in Running THEN job[s].came \cup {<<p, c>>} ELSE job[s].came
  <2> SUFFICES ASSUME NEW s \in Refreshes
               PROVE  /\ Observed(job[s], job'[s], job'[s].came, job'[s].gone)
                      /\ job'[s].gone = job[s].gone
                      /\ job'[s].came = IF s \in Running THEN job[s].came \cup {<<p, c>>} ELSE job[s].came
    OBVIOUS
  <2>1. CASE s \in Running
    <3>1. Observed(job[s], job'[s], job[s].came \cup {<<p, c>>}, job[s].gone)
      BY <1>1, <1>8, <2>1
    <3> QED
      BY <2>1, <3>1 DEF Observed
  <2>2. CASE s \notin Running
    <3>1. job'[s] = job[s]
      BY <1>1, <2>2
    <3> QED
      BY <2>2, <3>1 DEF Observed
  <2> QED
    BY <2>1, <2>2
<1>11. \A s \in Refreshes, x \in Products, d \in CategoryIds \ {c} :
         /\ <<x, d>> \in job'[s].came <=> <<x, d>> \in job[s].came
         /\ <<x, d>> \in job'[s].gone <=> <<x, d>> \in job[s].gone
  <2> SUFFICES ASSUME NEW s \in Refreshes, NEW x \in Products, NEW d \in CategoryIds \ {c}
               PROVE  /\ <<x, d>> \in job'[s].came <=> <<x, d>> \in job[s].came
                      /\ <<x, d>> \in job'[s].gone <=> <<x, d>> \in job[s].gone
    OBVIOUS
  <2>1. <<x, d>> # <<p, c>>
    OBVIOUS
  <2> QED
    <3>1. job'[s].gone = job[s].gone
      BY <1>10
    <3>2. job'[s].came = job[s].came \/ job'[s].came = job[s].came \cup {<<p, c>>}
      BY <1>10
    <3> QED
      BY <2>1, <3>1, <3>2
<1>12. ASSUME NEW s \in Running PROVE StayingAreRead(s, c)' /\ ~Quiet(s, c)'
  <2>1. /\ s \in Refreshes /\ <<p, c>> \in job'[s].came
        /\ job'[s].came = job[s].came \cup {<<p, c>>} /\ job'[s].gone = job[s].gone
    BY <1>10, <1>12 DEF Running
  <2>2. ~Quiet(s, c)'
    BY <2>1 DEF Quiet
  <2>3. StayingAreRead(s, c)
    BY DEF CategoriesIInv
  <2>4. /\ PagesRead(job'[s]) = PagesRead(job[s]) /\ PagesRead(job[s]) \in Nat
        /\ job'[s].seeds = job[s].seeds /\ job'[s].listed = job[s].listed
        /\ job'[s].complete = job[s].complete /\ job'[s].listings = job[s].listings
    <3>1. job[s].page \in Nat \ {0}
      BY <2>1, InvTypes, JobTypes
    <3> QED
      BY <1>10, <2>1, <3>1, PageNumbers, InvTypes DEF Observed, PagesRead
  <2>5. ASSUME \A x \in Products : <<x, c>> \notin job[s].gone, phase[s] = "read", c = Head(job[s].seeds),
               NEW k \in DOMAIN shop'[c], k <= PagesRead(job[s]), <<shop'[c][k], c>> \notin job'[s].came
        PROVE  shop'[c][k] \in job[s].listed
    <3>1. k \in 1..(Len(q) + 1) /\ k \in Nat /\ i \in Nat /\ i >= 1 /\ i <= Len(q) + 1
      BY <1>3, <1>7, <2>5
    <3>2. CASE k < i
      <4>1. k \in DOMAIN q /\ shop'[c][k] = q[k]
        BY <1>3, <1>7, <3>1, <3>2
      <4> QED
        BY <2>1, <2>3, <2>5, <4>1 DEF StayingAreRead, q
    <3>3. CASE k = i
      <4>1. shop'[c][k] = p
        <5>1. ~(k < i)
          BY <3>1, <3>3
        <5> QED
          BY <1>7, <3>1, <3>3, <5>1
      <4> QED
        BY <2>1, <2>5, <4>1
    <3>4. CASE i < k
      <4>1. k - 1 \in DOMAIN q /\ k - 1 <= PagesRead(job[s]) /\ ~(k < i) /\ k # i
        BY <1>3, <2>4, <2>5, <3>1, <3>4
      <4>2. shop'[c][k] = q[k - 1]
        BY <1>7, <3>1, <4>1
      <4> QED
        BY <2>1, <2>3, <2>5, <4>1, <4>2 DEF StayingAreRead, q
    <3> QED
      BY <3>1, <3>2, <3>3, <3>4
  <2>6. Listed(c)' \subseteq Listed(c) \cup {p}
    <3> SUFFICES ASSUME NEW k \in DOMAIN shop'[c] PROVE shop'[c][k] = p \/ \E l \in DOMAIN q : shop'[c][k] = q[l]
      BY DEF Listed, ToSet, q
    <3>1. k \in 1..(Len(q) + 1) /\ k \in Nat /\ i \in Nat /\ i >= 1 /\ i <= Len(q) + 1
      BY <1>3, <1>7
    <3>2. CASE k < i
      <4>1. k \in DOMAIN q /\ shop'[c][k] = q[k]
        BY <1>3, <1>7, <3>1, <3>2
      <4> QED
        BY <4>1
    <3>3. CASE k = i
      <4>1. ~(k < i)
        BY <3>1, <3>3
      <4> QED
        BY <1>7, <3>1, <3>3, <4>1
    <3>4. CASE i < k
      <4>1. k - 1 \in DOMAIN q /\ ~(k < i) /\ k # i
        BY <1>3, <3>1, <3>4
      <4> QED
        BY <1>7, <3>1, <4>1
    <3> QED
      BY <3>1, <3>2, <3>3, <3>4
  <2>7. StayingAreRead(s, c)'
    BY <1>1, <2>1, <2>3, <2>4, <2>5, <2>6 DEF StayingAreRead
  <2> QED
    BY <2>2, <2>7
<1> QED
  BY <1>1, <1>4, <1>6, <1>9, <1>10, <1>11, <1>12, ShopChanges

LEMMA UnlistKeeps ==
  ASSUME CategoriesIInv, NEW p \in Products, NEW c \in CategoryIds, Unlist(p, c) PROVE CategoriesIInv'
<1>1. /\ Change /\ UNCHANGED <<phase, catalog, treeVars, links, clock, starts, faults>>
      /\ job' = [s \in Refreshes |-> IF s \in Running THEN [job[s] EXCEPT !.gone = @ \cup {<<p, c>>}] ELSE job[s]]
  BY DEF Unlist
<1>2. PICK i \in DOMAIN shop[c] : shop' = [shop EXCEPT ![c] = RemoveAt(@, i)]
  BY DEF Unlist
<1>3. shop[c] \in Seq(Products)
  BY InvTypes
<1>4. RemoveAt(shop[c], i) \in Seq(Products)
  BY <1>3, RemoveAtIsSeq
<1>5. shop' \in [CategoryIds -> Seq(Products)] /\ \A d \in CategoryIds \ {c} : shop'[d] = shop[d]
  BY <1>2, <1>4, InvTypes
<1>6. \A s \in Refreshes : /\ [job[s] EXCEPT !.gone = @ \cup {<<p, c>>}] \in Jobs
                           /\ Observed(job[s], [job[s] EXCEPT !.gone = @ \cup {<<p, c>>}],
                                       job[s].came, job[s].gone \cup {<<p, c>>})
  BY InvTypes, GoneJob
<1>7. job' \in [Refreshes -> Jobs]
  BY <1>1, <1>6, InvTypes
<1>8. \A s \in Refreshes :
        /\ Observed(job[s], job'[s], job'[s].came, job'[s].gone)
        /\ job'[s].came = job[s].came
        /\ job'[s].gone = IF s \in Running THEN job[s].gone \cup {<<p, c>>} ELSE job[s].gone
  <2> SUFFICES ASSUME NEW s \in Refreshes
               PROVE  /\ Observed(job[s], job'[s], job'[s].came, job'[s].gone)
                      /\ job'[s].came = job[s].came
                      /\ job'[s].gone = IF s \in Running THEN job[s].gone \cup {<<p, c>>} ELSE job[s].gone
    OBVIOUS
  <2>1. CASE s \in Running
    <3>1. Observed(job[s], job'[s], job[s].came, job[s].gone \cup {<<p, c>>})
      BY <1>1, <1>6, <2>1
    <3> QED
      BY <2>1, <3>1 DEF Observed
  <2>2. CASE s \notin Running
    <3>1. job'[s] = job[s]
      BY <1>1, <2>2
    <3> QED
      BY <2>2, <3>1 DEF Observed
  <2> QED
    BY <2>1, <2>2
<1>9. \A s \in Refreshes, x \in Products, d \in CategoryIds \ {c} :
        /\ <<x, d>> \in job'[s].came <=> <<x, d>> \in job[s].came
        /\ <<x, d>> \in job'[s].gone <=> <<x, d>> \in job[s].gone
  <2> SUFFICES ASSUME NEW s \in Refreshes, NEW x \in Products, NEW d \in CategoryIds \ {c}
               PROVE  /\ <<x, d>> \in job'[s].came <=> <<x, d>> \in job[s].came
                      /\ <<x, d>> \in job'[s].gone <=> <<x, d>> \in job[s].gone
    OBVIOUS
  <2>1. <<x, d>> # <<p, c>>
    OBVIOUS
  <2> QED
    <3>1. job'[s].came = job[s].came
      BY <1>8
    <3>2. job'[s].gone = job[s].gone \/ job'[s].gone = job[s].gone \cup {<<p, c>>}
      BY <1>8
    <3> QED
      BY <2>1, <3>1, <3>2
<1>10. ASSUME NEW s \in Running PROVE StayingAreRead(s, c)' /\ ~Quiet(s, c)'
  <2>1. <<p, c>> \in job'[s].gone
    BY <1>8, <1>10 DEF Running
  <2> QED
    BY <2>1 DEF StayingAreRead, Quiet
<1> QED
  BY <1>1, <1>5, <1>7, <1>8, <1>9, <1>10, ShopChanges

-----------------------------------------------------------------------------
(* The invariant, and what follows from it.                                  *)

LEMMA CategoriesInitIInv == ASSUME CategoriesInit PROVE CategoriesIInv
<1>1. phase = [r \in Refreshes |-> "idle"] /\ job = [r \in Refreshes |-> NewJob] /\ Running = {}
  BY DEF CategoriesInit, Running
<1>2. shop \in [CategoryIds -> Seq(Products)]
  <2>1. ASSUME NEW s \in SeqOf(Products, Cardinality(Products)) PROVE s \in Seq(Products)
    <3>1. PICK m \in 0..Cardinality(Products) : s \in [1..m -> Products]
      BY <2>1 DEF SeqOf
    <3>2. m \in Nat
      OBVIOUS
    <3> QED
      BY <3>1, <3>2
  <2>2. shop \in [CategoryIds -> {s \in SeqOf(Products, Cardinality(Products)) : IsInjective(s)}]
    BY DEF CategoriesInit
  <2> QED
    BY <2>1, <2>2
<1>3. CategoriesTypeOK
  <2>1. job \in [Refreshes -> Jobs] /\ phase \in [Refreshes -> Phases]
    BY <1>1, NewJobIsJob DEF Phases
  <2>2. starts \in 0..MaxStarts /\ changes \in 0..MaxChanges /\ faults \in 0..MaxFaults /\ clock \in Nat
    BY CategoriesAssumption DEF CategoriesInit
  <2>3. DOMAIN parent = {} /\ DOMAIN links = {} /\ catalog = {}
    BY DEF CategoriesInit, NoTree
  <2> QED
    BY <1>2, <2>1, <2>2, <2>3 DEF CategoriesTypeOK
<1>4. ActiveCategoriesAreShown
  BY DEF CategoriesInit, ActiveCategoriesAreShown, Shown
<1>5. \A r \in Refreshes : JobFollowsThePhase(r)
  <2>1. IsInjective(<<>>) /\ ToSet(<<>>) = {}
    BY DEF IsInjective, ToSet
  <2> SUFFICES ASSUME NEW r \in Refreshes PROVE JobFollowsThePhase(r)
    OBVIOUS
  <2>2. job[r] = NewJob /\ phase[r] = "idle"
    BY <1>1
  <2> QED
    BY <2>1, <2>2, NewJobIsJob DEF JobFollowsThePhase
<1> QED
  BY <1>1, <1>3, <1>4, <1>5 DEF CategoriesIInv

LEMMA CategoriesStutter == ASSUME CategoriesIInv, UNCHANGED categoryVars PROVE CategoriesIInv'
<1> USE DEF categoryVars, shopVars, treeVars
<1>1. CategoriesTypeOK'
  BY DEF CategoriesIInv, CategoriesTypeOK
<1>2. ActiveCategoriesAreShown'
  BY TreeStays DEF CategoriesIInv
<1>3. Running' = Running /\ \A c \in CategoryIds : Listed(c)' = Listed(c)
  BY DEF Running, Listed
<1>4. \A r \in Refreshes : JobFollowsThePhase(r)'
  BY DEF CategoriesIInv, JobFollowsThePhase
<1>5. ASSUME NEW r \in Running, NEW c \in CategoryIds PROVE StayingAreRead(r, c)' /\ QuietAreRead(r, c)'
  <2>1. StayingAreRead(r, c) /\ QuietAreRead(r, c)
    BY DEF CategoriesIInv
  <2> QED
    BY <1>3, <2>1 DEF StayingAreRead, QuietAreRead, Quiet
<1>6. ASSUME NEW r \in Running PROVE AloneIsNewest(r)'
  <2>1. AloneIsNewest(r)
    BY DEF CategoriesIInv
  <2> QED
    BY <1>3, <2>1 DEF AloneIsNewest
<1> QED
  BY <1>1, <1>2, <1>3, <1>4, <1>5, <1>6 DEF CategoriesIInv

LEMMA CategoriesStep == ASSUME CategoriesIInv, [CategoriesNext]_categoryVars PROVE CategoriesIInv'
<1>1. ASSUME NEW p \in Products, NEW c \in CategoryIds, List(p, c) PROVE CategoriesIInv'
  BY <1>1, ListKeeps
<1>2. ASSUME NEW p \in Products, NEW c \in CategoryIds, Unlist(p, c) PROVE CategoriesIInv'
  BY <1>2, UnlistKeeps
<1>3. ASSUME NEW r \in Refreshes, RefreshStep(r) PROVE CategoriesIInv'
  <2>1. CASE StartRefresh(r)
    BY <2>1, StartRefreshKeeps
  <2>2. CASE ResolveSeeds(r)
    BY <2>2, ResolveSeedsKeeps
  <2>3. CASE ReadPage(r)
    BY <2>3, ReadPageKeeps
  <2>4. CASE PageUnavailable(r)
    BY <2>4, PageUnavailableKeeps
  <2>5. CASE UpsertDiscovered(r)
    BY <2>5, UpsertDiscoveredKeeps
  <2>6. CASE GetActiveCount(r)
    BY <2>6, GetActiveCountKeeps
  <2>7. CASE SyncTree(r)
    BY <2>7, SyncTreeKeeps
  <2>8. CASE LinkProducts(r)
    BY <2>8, LinkProductsKeeps
  <2>9. CASE Abort(r)
    BY <2>9, AbortKeeps
  <2> QED
    BY <1>3, <2>1, <2>2, <2>3, <2>4, <2>5, <2>6, <2>7, <2>8, <2>9 DEF RefreshStep
<1>4. CASE UNCHANGED categoryVars
  BY <1>4, CategoriesStutter
<1> QED
  BY <1>1, <1>2, <1>3, <1>4 DEF CategoriesNext, ShopStep

(* The inductive invariant of the categories: the stored tree is whole        *)
(* (PgCategoryRepository.SyncTreeAsync), links join stored rows, what stays   *)
(* in a category has been read of it, a quiet category is read to its end     *)
(* (CategoryProductUrlDiscoverySource), and a refresh that runs alone is the  *)
(* newest that wrote links.                                                   *)
THEOREM CategoriesInductive == CategoriesSpec => []CategoriesIInv
<1>1. CategoriesInit => CategoriesIInv
  BY CategoriesInitIInv
<1>2. CategoriesIInv /\ [CategoriesNext]_categoryVars => CategoriesIInv'
  BY CategoriesStep
<1> QED
  BY <1>1, <1>2, PTL DEF CategoriesSpec

(* A refresh comes to its end from the last statement in two ways. *)
LEMMA LinkingEnds ==
  ASSUME [CategoriesNext]_categoryVars, CategoriesIInv, NEW r \in Refreshes, phase[r] = "link", phase'[r] = "idle"
  PROVE  LinkProducts(r) \/ Abort(r)
<1>1. phase # phase' /\ CategoriesNext
  BY DEF categoryVars
<1>2. \E s \in Refreshes : RefreshStep(s)
  BY <1>1 DEF CategoriesNext, ShopStep, List, Unlist
<1>3. PICK s \in Refreshes : RefreshStep(s)
  BY <1>2
<1>4. ASSUME NEW next, Goto(s, next), s # r PROVE FALSE
  BY <1>4, InvTypes DEF Goto
<1>5. s = r
  <2>1. ReadPage(s) => phase' = phase \/ \E next : Goto(s, next)
    BY DEF ReadPage, EndCategory
  <2> QED
    BY <1>1, <1>3, <1>4, <2>1
      DEF RefreshStep, StartRefresh, ResolveSeeds, PageUnavailable, EndCategory, UpsertDiscovered, GetActiveCount, SyncTree,
          LinkProducts, Abort, GiveBack
<1> QED
  BY <1>3, <1>5
    DEF RefreshStep, StartRefresh, ResolveSeeds, ReadPage, PageUnavailable, UpsertDiscovered, GetActiveCount, SyncTree

(* What LinkProductsAsync leaves. *)
LEMMA LinksAfter ==
  ASSUME CategoriesIInv, NEW r \in Refreshes, LinkProducts(r), NEW l
  PROVE  /\ l \in ReadLinks(r) => l \in DOMAIN links'
         /\ l \in DOMAIN links /\ l[2] \notin job[r].complete => l \in DOMAIN links'
         /\ l \in DOMAIN links' => \/ l \in ReadLinks(r)
                                   \/ l \in DOMAIN links /\ ~(l[2] \in job[r].complete /\ links[l] < job[r].seenAt)
<1>1. links' = [m \in DOMAIN Upserted(r) \ Outdated(Upserted(r), r) |-> Upserted(r)[m]]
  BY DEF LinkProducts
<1>2. DOMAIN links' = DOMAIN Upserted(r) \ Outdated(Upserted(r), r)
  BY <1>1
<1>3. /\ DOMAIN Upserted(r) = DOMAIN links \cup ReadLinks(r)
      /\ l \in ReadLinks(r) => Upserted(r)[l] = job[r].seenAt
      /\ l \in DOMAIN links \ ReadLinks(r) => Upserted(r)[l] = links[l]
  BY DEF Upserted
<1>4. ~(job[r].seenAt < job[r].seenAt)
  <2>1. job[r].seenAt \in Nat
    BY InvTypes, JobTypes
  <2> QED
    BY <2>1
<1> QED
  BY <1>2, <1>3, <1>4 DEF Outdated

(* PgCategoryRepository.LinkProductsAsync: a refresh takes no link from a     *)
(* product that its category listed all the time since the refresh began, if  *)
(* the category lost no product meanwhile; whatever other refreshes do.       *)
THEOREM StayingKeepLinks == CategoriesSpec => StayingProductsKeepLinks
<1> DEFINE Kept == \A r \in Refreshes : \A l \in Unlinked(r) :
                     Stayed(r, l) => \E p \in Products : <<p, l[2]>> \in job[r].gone
<1>1. ASSUME CategoriesIInv, [CategoriesNext]_categoryVars PROVE Kept
  <2> SUFFICES ASSUME NEW r \in Refreshes, NEW l \in Unlinked(r), Stayed(r, l),
                      \A p \in Products : <<p, l[2]>> \notin job[r].gone
               PROVE  FALSE
    OBVIOUS
  <2>1. phase[r] = "link" /\ phase'[r] = "idle" /\ l \in DOMAIN links /\ l \notin DOMAIN links'
    BY DEF Unlinked
  <2>2. LinkProducts(r)
    <3>1. ~Abort(r)
      BY <2>1 DEF Abort
    <3> QED
      BY <1>1, <2>1, <3>1, LinkingEnds
  <2>3. l \in catalog \X DOMAIN parent /\ DOMAIN parent \subseteq CategoryIds
    BY <1>1, <2>1 DEF CategoriesIInv, CategoriesTypeOK
  <2>4. PICK p \in catalog, c \in DOMAIN parent : l = <<p, c>>
    BY <2>3
  <2>5. c \in job[r].complete /\ <<p, c>> \notin ReadLinks(r)
    BY <1>1, <2>1, <2>2, <2>4, LinksAfter
  <2>6. r \in Running /\ c \in CategoryIds /\ JobFollowsThePhase(r)
    BY <1>1, <2>1, <2>3 DEF Running, CategoriesIInv
  <2>7. p \in job[r].listings[c]
    <3>1. StayingAreRead(r, c)
      BY <1>1, <2>6 DEF CategoriesIInv
    <3> QED
      BY <2>4, <2>5, <3>1 DEF StayingAreRead, Stayed
  <2>8. <<p, c>> \in ReadLinks(r)
    BY <2>5, <2>6, <2>7 DEF ReadLinks, JobFollowsThePhase
  <2> QED
    BY <2>5, <2>8
<1>2. CategoriesSpec => []CategoriesIInv
  BY CategoriesInductive
<1>3. CategoriesIInv /\ [CategoriesNext]_categoryVars => [Kept]_categoryVars
  BY <1>1
<1> HIDE DEF Kept
<1>4. CategoriesSpec => [][Kept]_categoryVars
  BY <1>2, <1>3, PTL DEF CategoriesSpec
<1> QED
  BY <1>4 DEF Kept, StayingProductsKeepLinks

(* UpdateCategoriesAsync: a refresh that ran alone and met no failure links    *)
(* every leaf that did not change meanwhile, has products and is within the   *)
(* page limit to what it lists and the catalog has, and to nothing else.      *)
THEOREM QuietAreLinked == CategoriesSpec => QuietLeavesAreLinked
<1> DEFINE Linked ==
      \A r \in Refreshes :
        job[r].alone /\ phase[r] = "link" /\ phase'[r] = "idle" /\ faults' = 0 =>
          \A c \in Leaves(job[r].tree) \cap DOMAIN parent :
            /\ Len(shop[c]) \in 1..(MaxPages * PageSize)
            /\ \A p \in Products : <<p, c>> \notin job[r].came \cup job[r].gone
            => {p \in Products : <<p, c>> \in DOMAIN links'} = Listed(c) \cap catalog
<1>1. ASSUME CategoriesIInv, [CategoriesNext]_categoryVars PROVE Linked
  <2> SUFFICES ASSUME NEW r \in Refreshes, job[r].alone, phase[r] = "link", phase'[r] = "idle", faults' = 0,
                      NEW c \in Leaves(job[r].tree) \cap DOMAIN parent, Len(shop[c]) \in 1..(MaxPages * PageSize),
                      \A p \in Products : <<p, c>> \notin job[r].came \cup job[r].gone
               PROVE  {p \in Products : <<p, c>> \in DOMAIN links'} = Listed(c) \cap catalog
    OBVIOUS
  <2>1. LinkProducts(r)
    <3>1. ~Abort(r)
      BY <1>1, FaultCounts DEF Abort
    <3> QED
      BY <1>1, <3>1, LinkingEnds
  <2>2. faults = 0 /\ r \in Running /\ JobFollowsThePhase(r) /\ c \in CategoryIds /\ catalog \subseteq Products
    BY <1>1, <2>1, CategoriesAssumption DEF LinkProducts, Running, CategoriesIInv, CategoriesTypeOK
  <2>3. Quiet(r, c)
    <3>1. job[r].tree # NoTree
      BY DEF Leaves, NoTree
    <3> QED
      BY <2>2, <3>1 DEF Quiet
  <2>4. c \in DOMAIN job[r].listings
    <3>1. job[r].seeds = <<>> /\ ToSet(<<>>) = {}
      BY <2>2 DEF JobFollowsThePhase, ToSet
    <3> QED
      BY <2>2, <3>1 DEF JobFollowsThePhase
  <2>5. c \in job[r].complete /\ job[r].listings[c] = Listed(c)
    <3>1. QuietAreRead(r, c)
      BY <1>1, <2>2 DEF CategoriesIInv
    <3> QED
      BY <2>3, <2>4, <3>1 DEF QuietAreRead
  <2>6. \A l \in DOMAIN links : links[l] < job[r].seenAt
    <3>1. AloneIsNewest(r)
      BY <1>1, <2>2 DEF CategoriesIInv
    <3> QED
      BY <3>1 DEF AloneIsNewest
  <2>7. \A p : <<p, c>> \in ReadLinks(r) <=> p \in Listed(c) \cap catalog
    BY <2>4, <2>5 DEF ReadLinks
  <2>8. \A p : <<p, c>> \in DOMAIN links' <=> <<p, c>> \in ReadLinks(r)
    <3> SUFFICES ASSUME NEW p PROVE <<p, c>> \in DOMAIN links' <=> <<p, c>> \in ReadLinks(r)
      OBVIOUS
    <3> DEFINE l == <<p, c>>
    <3>1. l[2] = c
      OBVIOUS
    <3> HIDE DEF l
    <3>2. l \in DOMAIN links' <=> l \in ReadLinks(r)
      BY <1>1, <2>1, <2>5, <2>6, <3>1, LinksAfter
    <3> QED
      BY <3>2 DEF l
  <2> QED
    BY <2>2, <2>7, <2>8
<1>2. CategoriesSpec => []CategoriesIInv
  BY CategoriesInductive
<1>3. CategoriesIInv /\ [CategoriesNext]_categoryVars => [Linked]_categoryVars
  BY <1>1
<1> HIDE DEF Linked
<1>4. CategoriesSpec => [][Linked]_categoryVars
  BY <1>2, <1>3, PTL DEF CategoriesSpec
<1> QED
  BY <1>4 DEF Linked, QuietLeavesAreLinked
=============================================================================
