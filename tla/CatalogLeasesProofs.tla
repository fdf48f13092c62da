------------------------ MODULE CatalogLeasesProofs ------------------------
(***************************************************************************)
(* Proofs about who has a row of the catalog (CatalogLeases), for any      *)
(* number of collections and rows and any limit, and about how long a row  *)
(* waits after a failure (RetryPolicies), for any delays, number width and *)
(* number of failures.  LeaseIInv is inductive; the exclusion, the return  *)
(* of the reservations and the freedom of inactive rows are part of it.    *)
(* The refinement of LeaseContract is proved for each collection, of which *)
(* the others are the environment.                                         *)
(***************************************************************************)
EXTENDS CatalogLeases, RetryPolicies, FiniteSetTheorems, WellFoundedInduction, TLAPS

LEMMA LeastNatural == ASSUME NEW S \in SUBSET Nat, S # {} PROVE \E n \in S : \A m \in S : n <= m
<1>1. PICK n \in S : \A m \in S : ~(<<m, n>> \in OpToRel(<, Nat))
  BY WFMin, NatLessThanWellFounded
<1>2. \A m \in S : ~(m < n)
  BY <1>1 DEF OpToRel
<1> QED
  BY <1>2

-----------------------------------------------------------------------------
(* CatalogLeases.                                                           *)

LEMMA RowsCount == Cardinality(Products) \in Nat
BY FS_CardinalityType, LeaseAssumption

(* Going behind all others keeps the ranks a permutation. *)
LEMMA LastPermutes ==
  ASSUME LeaseTypeOK, NEW p \in Products
  PROVE  /\ Last(p) \in [Products -> 1..Cardinality(Products)]
         /\ \A q, s \in Products : Last(p)[q] = Last(p)[s] => q = s
<1> DEFINE N == Cardinality(Products)
<1>1. N \in Nat /\ rank \in [Products -> 1..N] /\ \A q, s \in Products : rank[q] = rank[s] => q = s
  BY RowsCount DEF LeaseTypeOK
<1> HIDE DEF N
<1> DEFINE f == [q \in Products |-> IF q = p THEN N ELSE IF rank[q] > rank[p] THEN rank[q] - 1 ELSE rank[q]]
<1>2. \A q \in Products : rank[q] \in 1..N /\ rank[q] \in Int
  BY <1>1
<1>3. \A q \in Products : q # p => rank[q] # rank[p]
  BY <1>1
<1>4. \A q \in Products : f[q] \in 1..N /\ (q # p => f[q] < N)
  BY <1>1, <1>2, <1>3
<1>5. \A q, s \in Products : f[q] = f[s] => q = s
  BY <1>1, <1>2, <1>3, <1>4
<1> QED
  BY <1>4, <1>5 DEF Last, N

(* Of some rows one is accepted: the one of least rank. *)
LEMMA SomeAreAccepted ==
  ASSUME LeaseTypeOK, NEW S \in SUBSET Products, S # {}
  PROVE  Accepted(S) # {}
<1>1. \A p \in Products : rank[p] \in Nat
  BY RowsCount DEF LeaseTypeOK
<1> DEFINE R == {rank[p] : p \in S}
<1>2. R \in SUBSET Nat /\ R # {}
  BY <1>1
<1>3. PICK n \in R : \A m \in R : n <= m
  BY <1>2, LeastNatural
<1>4. PICK p \in S : rank[p] = n
  BY <1>3
<1>5. \A q \in S : rank[p] <= rank[q]
  BY <1>3, <1>4
<1> QED
  BY <1>4, <1>5 DEF Accepted

(* What every step that ends a row's handling or a whole collection does: the *)
(* collection c keeps the rows W of its work, the rows D leave it, and no     *)
(* reservation outside D is given up.                                        *)
LEMMA HandsBack ==
  ASSUME LeaseIInv, NEW c \in Collectors, NEW W \in SUBSET work[c], Keep(c, W, {}),
         reserved' \subseteq reserved, reserved \ reserved' \subseteq work[c] \ W,
         orphaned \subseteq orphaned',
         \A p \in work[c] \ W : p \in reserved' => p \in orphaned',
         active' = active,
         enqueued'[c] => W # {}, \A d \in Collectors : d # c => enqueued'[d] = enqueued[d]
  PROVE  /\ HeldUnlessLoose' /\ WorkIsExclusive' /\ ReservationsAreReturned' /\ InactiveIsFree'
         /\ EnqueuedHasRows'
<1> USE DEF LeaseIInv, LeaseTypeOK, Keep
<1>1. /\ work'[c] = W /\ \A d \in Collectors : d # c => work'[d] = work[d]
      /\ work' \in [Collectors -> SUBSET Products]
  OBVIOUS
<1>2. \A d \in Collectors : \A p \in work'[d] : p \in work[d] /\ (p \in loose => p \in loose')
  BY <1>1 DEF Others
<1>3. HeldUnlessLoose'
  <2> SUFFICES ASSUME NEW d \in Collectors, NEW p \in work'[d], p \notin loose' PROVE p \in reserved'
    BY DEF HeldUnlessLoose
  <2>1. p \in work[d] /\ p \notin loose /\ p \in reserved
    BY <1>2 DEF HeldUnlessLoose
  <2>2. p \notin work[c] \ W
    BY <1>1, <2>1 DEF WorkIsExclusive
  <2> QED
    BY <2>1, <2>2
<1>4. WorkIsExclusive'
  BY <1>1, <1>2 DEF WorkIsExclusive
<1>5. ReservationsAreReturned'
  BY <1>1 DEF ReservationsAreReturned
<1>6. InactiveIsFree'
  BY DEF InactiveIsFree
<1>7. EnqueuedHasRows'
  BY <1>1 DEF EnqueuedHasRows
<1> QED
  BY <1>3, <1>4, <1>5, <1>6, <1>7

LEMMA LeaseInit == Init => LeaseIInv
BY LeaseAssumption, RowsCount
   DEF Init, LeaseIInv, LeaseTypeOK, HeldUnlessLoose, WorkIsExclusive, ReservationsAreReturned, InactiveIsFree,
   EnqueuedHasRows

-----------------------------------------------------------------------------
(* One lemma per action.                                                    *)

LEMMA SelectKeeps == ASSUME LeaseIInv, NEW c \in Collectors, Select(c) PROVE LeaseIInv'
<1> USE DEF LeaseIInv, LeaseTypeOK
<1>1. PICK locked \in SUBSET (Others(c) \cap Selectable) :
        LET chosen == Oldest(Selectable \ locked) IN
        /\ chosen # {}
        /\ reserved' = reserved \cup chosen
        /\ Keep(c, chosen, {})
        /\ orphaned' = orphaned \ chosen
  BY DEF Select
<1> DEFINE chosen == Oldest(Selectable \ locked)
<1>2. chosen \in SUBSET Products /\ \A p \in chosen : p \in active /\ p \notin reserved
  BY DEF Oldest, Selectable
<1> HIDE DEF chosen
<1>3. /\ reserved' = reserved \cup chosen
      /\ work' = [work EXCEPT ![c] = chosen]
      /\ loose' = loose \cap (chosen \cup Others(c))
      /\ orphaned' = orphaned \ chosen
      /\ UNCHANGED <<active, due, rank, enqueued, faults>>
  BY <1>1 DEF chosen, Keep, Select
<1>4. LeaseTypeOK'
  BY <1>2, <1>3
<1>5. work'[c] = chosen /\ \A d \in Collectors : d # c => work'[d] = work[d]
  BY <1>3
<1>6. \A d \in Collectors : d # c => work[d] \subseteq Others(c)
  BY DEF Others
<1>7. HeldUnlessLoose'
  BY <1>2, <1>3, <1>5, <1>6 DEF HeldUnlessLoose
<1>8. WorkIsExclusive'
  <2> SUFFICES ASSUME NEW d \in Collectors, NEW e \in Collectors, NEW p \in work'[d] \cap work'[e], d # e
               PROVE  p \in loose'
    BY DEF WorkIsExclusive
  <2>1. CASE d # c /\ e # c
    BY <1>3, <1>5, <1>6, <2>1 DEF WorkIsExclusive
  <2>2. CASE d = c \/ e = c
    <3>1. p \in chosen /\ p \in Others(c) /\ \E g \in Collectors : p \in work[g]
      BY <1>5, <1>6, <2>2
    <3>2. p \in loose
      BY <1>2, <3>1 DEF HeldUnlessLoose
    <3> QED
      BY <1>3, <3>1, <3>2
  <2> QED
    BY <2>1, <2>2
<1>9. ReservationsAreReturned'
  <2> SUFFICES ASSUME NEW p \in reserved', p \notin orphaned'
               PROVE  \E d \in Collectors : p \in work'[d]
    BY DEF ReservationsAreReturned
  <2>1. CASE p \in chosen
    BY <1>5, <2>1
  <2>2. CASE p \notin chosen
    <3>1. PICK d \in Collectors : p \in work[d]
      BY <1>3, <2>2 DEF ReservationsAreReturned
    <3>2. d # c
      BY <3>1 DEF Select
    <3> QED
      BY <1>5, <3>1, <3>2
  <2> QED
    BY <2>1, <2>2
<1>10. InactiveIsFree'
  BY <1>2, <1>3, <1>5 DEF InactiveIsFree
<1>11. EnqueuedHasRows'
  BY <1>1, <1>3, <1>5 DEF EnqueuedHasRows, chosen
<1> QED
  BY <1>4, <1>7, <1>8, <1>9, <1>10, <1>11

LEMMA GiveUpKeeps ==
  ASSUME LeaseIInv, NEW c \in Collectors, NEW lost \in SUBSET work[c], GiveUp(c, lost)
  PROVE  LeaseIInv'
<1> USE LeaseAssumption DEF LeaseIInv, LeaseTypeOK, GiveUp, Released, Fault, Drop
<1>1. /\ Keep(c, {}, {}) /\ active' = active
      /\ reserved' = reserved \ (work[c] \ lost) /\ orphaned' = orphaned \cup lost
  OBVIOUS
<1>2. LeaseTypeOK'
  BY DEF Keep, Others
<1>3. HeldUnlessLoose' /\ WorkIsExclusive' /\ ReservationsAreReturned' /\ InactiveIsFree' /\ EnqueuedHasRows'
  BY <1>1, HandsBack, {} \in SUBSET work[c]
<1> QED
  BY <1>2, <1>3

LEMMA AcceptKeeps ==
  ASSUME LeaseIInv, NEW c \in Collectors, Reserved(c), Accept(c, work[c] \ Accepted(work[c]))
  PROVE  LeaseIInv'
<1> DEFINE W == Accepted(work[c])
<1>1. W \in SUBSET work[c] /\ W # {}
  <2>1. work[c] \in SUBSET Products /\ work[c] # {}
    BY DEF LeaseIInv, LeaseTypeOK, Reserved
  <2>2. W # {}
    BY <2>1, SomeAreAccepted DEF LeaseIInv
  <2> QED
    BY <2>2 DEF Accepted
<1> HIDE DEF W
<1>2. /\ Keep(c, W, {}) /\ reserved' = reserved \ (work[c] \ W)
      /\ enqueued' = [enqueued EXCEPT ![c] = TRUE]
      /\ UNCHANGED <<active, due, rank, orphaned, faults>>
  BY DEF Accept, Released, W
<1> USE DEF LeaseIInv, LeaseTypeOK
<1>3. LeaseTypeOK'
  BY <1>1, <1>2 DEF Keep, Others
<1>4. HeldUnlessLoose' /\ WorkIsExclusive' /\ ReservationsAreReturned' /\ InactiveIsFree' /\ EnqueuedHasRows'
  BY <1>1, <1>2, HandsBack
<1> QED
  BY <1>3, <1>4

LEMMA EnqueueKeeps == ASSUME LeaseIInv, NEW c \in Collectors, Enqueue(c) PROVE LeaseIInv'
<1>1. Accepted(work[c]) \in SUBSET work[c]
  BY DEF Accepted
<1> QED
  BY <1>1, AcceptKeeps, GiveUpKeeps DEF Enqueue

(* A mark hands the row back. *)
LEMMA MarkKeeps ==
  ASSUME LeaseIInv, NEW c \in Collectors, NEW p \in work[c], Marked(p), Drop(c, {p}),
         UNCHANGED <<orphaned, faults>>
  PROVE  LeaseIInv'
<1> USE DEF LeaseIInv, LeaseTypeOK, Marked, Drop, Released
<1>1. p \in Products /\ work[c] \ {p} \in SUBSET work[c]
  OBVIOUS
<1>2. LeaseTypeOK'
  BY <1>1, LastPermutes DEF Keep, Others
<1>3. HeldUnlessLoose' /\ WorkIsExclusive' /\ ReservationsAreReturned' /\ InactiveIsFree' /\ EnqueuedHasRows'
  <2>1. /\ Keep(c, work[c] \ {p}, {}) /\ active' = active
        /\ reserved' = reserved \ {p} /\ orphaned' = orphaned
    OBVIOUS
  <2>2. /\ enqueued'[c] => work[c] \ {p} # {}
        /\ \A d \in Collectors : d # c => enqueued'[d] = enqueued[d]
    OBVIOUS
  <2> QED
    BY <1>1, <2>1, <2>2, HandsBack
<1> QED
  BY <1>2, <1>3

(* A row that leaves its collection with its reservation. *)
LEMMA OrphanKeeps ==
  ASSUME LeaseIInv, NEW c \in Collectors, NEW p \in work[c], Drop(c, {p}),
         orphaned' = orphaned \cup {p}, UNCHANGED catalogVars, faults' \in 0..MaxFaults
  PROVE  LeaseIInv'
<1> USE DEF LeaseIInv, LeaseTypeOK, catalogVars, Drop
<1>1. work[c] \ {p} \in SUBSET work[c]
  OBVIOUS
<1>2. LeaseTypeOK'
  BY DEF Keep, Others
<1>3. HeldUnlessLoose' /\ WorkIsExclusive' /\ ReservationsAreReturned' /\ InactiveIsFree' /\ EnqueuedHasRows'
  BY <1>1, HandsBack
<1> QED
  BY <1>2, <1>3

LEMMA HandleKeeps ==
  ASSUME LeaseIInv, NEW c \in Collectors, NEW p \in Products, Handle(c, p) \/ MarkLost(c, p)
  PROVE  LeaseIInv'
<1>1. CASE MarkChecked(c, p) \/ MarkFailed(c, p)
  BY <1>1, MarkKeeps DEF MarkChecked, MarkFailed
<1>2. CASE ListingParsed(c, p) \/ MarkLost(c, p)
  <2>1. faults' \in 0..MaxFaults
    BY <1>2, LeaseAssumption DEF ListingParsed, MarkLost, Fault, LeaseIInv, LeaseTypeOK
  <2> QED
    BY <1>2, <2>1, OrphanKeeps DEF ListingParsed, MarkLost
<1> QED
  BY <1>1, <1>2 DEF Handle

LEMMA MarkedEarlyKeeps ==
  ASSUME LeaseIInv, NEW c \in Collectors, NEW p \in Products, MarkedEarly(c, p) PROVE LeaseIInv'
<1> USE LeaseAssumption DEF LeaseIInv, LeaseTypeOK, MarkedEarly, Marked, Released, Keep, Fault
<1>1. /\ work' = work /\ p \in loose'
      /\ \A d \in Collectors : \A q \in work[d] : q \in loose => q \in loose'
  BY DEF Others
<1>2. LeaseTypeOK'
  BY LastPermutes DEF Others
<1>3. HeldUnlessLoose' /\ WorkIsExclusive'
  BY <1>1 DEF HeldUnlessLoose, WorkIsExclusive
<1>4. ReservationsAreReturned' /\ InactiveIsFree' /\ EnqueuedHasRows'
  BY <1>1 DEF ReservationsAreReturned, InactiveIsFree, EnqueuedHasRows
<1> QED
  BY <1>2, <1>3, <1>4

LEMMA ClockKeeps ==
  ASSUME LeaseIInv, NEW p \in Products, Expire(p) \/ ComesDue(p) \/ Deactivate(p) \/ Reactivate(p)
  PROVE  LeaseIInv'
<1> USE DEF LeaseIInv, LeaseTypeOK
<1>1. CASE Expire(p)
  BY <1>1 DEF Expire, Released, HeldUnlessLoose, WorkIsExclusive, ReservationsAreReturned, InactiveIsFree,
     EnqueuedHasRows
<1>2. CASE ComesDue(p)
  BY <1>2 DEF ComesDue, HeldUnlessLoose, WorkIsExclusive, ReservationsAreReturned, InactiveIsFree,
     EnqueuedHasRows
<1>3. CASE Deactivate(p)
  BY <1>3 DEF Deactivate, Deactivated, HeldUnlessLoose, WorkIsExclusive, ReservationsAreReturned, InactiveIsFree,
     EnqueuedHasRows
<1>4. CASE Reactivate(p)
  BY <1>4 DEF Reactivate, HeldUnlessLoose, WorkIsExclusive, ReservationsAreReturned, InactiveIsFree,
     EnqueuedHasRows
<1> QED
  BY <1>1, <1>2, <1>3, <1>4

-----------------------------------------------------------------------------
(* The theorems.                                                            *)

LEMMA LeaseStep == LeaseIInv /\ [Next]_vars => LeaseIInv'
<1> SUFFICES ASSUME LeaseIInv, [Next]_vars PROVE LeaseIInv'
  OBVIOUS
<1>1. ASSUME NEW c \in Collectors, Select(c) \/ Enqueue(c) \/ Stop(c) PROVE LeaseIInv'
  BY <1>1, SelectKeeps, EnqueueKeeps, GiveUpKeeps DEF Stop
<1>2. ASSUME NEW c \in Collectors, NEW p \in Products, Handle(c, p) \/ MarkLost(c, p) \/ MarkedEarly(c, p)
      PROVE  LeaseIInv'
  BY <1>2, HandleKeeps, MarkedEarlyKeeps
<1>3. ASSUME NEW p \in Products, Expire(p) \/ ComesDue(p) \/ Deactivate(p) \/ Reactivate(p) PROVE LeaseIInv'
  BY <1>3, ClockKeeps
<1>4. CASE UNCHANGED vars
  BY <1>4 DEF vars, catalogVars, LeaseIInv, LeaseTypeOK, HeldUnlessLoose, WorkIsExclusive,
     ReservationsAreReturned, InactiveIsFree, EnqueuedHasRows
<1> QED
  BY <1>1, <1>2, <1>3, <1>4 DEF Next

(* The invariant holds of every behaviour. *)
THEOREM LeaseInductive == Spec => []LeaseIInv
<1> QED
  BY LeaseInit, LeaseStep, PTL DEF Spec

(* Reservations keep collections apart until they run out, come back on every *)
(* path but the named ones, and are gone from inactive rows.                 *)
THEOREM LeaseSafety == Spec => [](WorkIsExclusive /\ ReservationsAreReturned /\ InactiveIsFree)
<1>1. LeaseIInv => WorkIsExclusive /\ ReservationsAreReturned /\ InactiveIsFree
  BY DEF LeaseIInv
<1> QED
  BY <1>1, LeaseInductive, PTL

-----------------------------------------------------------------------------
(* Collections implement LeaseContract: a step of a collection is one of its  *)
(* contract, a step of anything else is one of the others, for every          *)
(* collection.                                                               *)

(* Rows that are not loose keep their reservation. *)
LEMMA ElsewhereRule ==
  ASSUME LeaseTypeOK, NEW c \in Collectors,
         work'[c] = work[c], enqueued'[c] = enqueued[c], loose \cap work[c] \subseteq loose',
         \A p \in work[c] \ loose' : p \in reserved' <=> p \in reserved
  PROVE  Collection(c)!Next
<1>1. Collection(c)!Elsewhere
  BY DEF Collection!Elsewhere, LeaseTypeOK
<1> QED
  BY <1>1 DEF Collection!Next

(* Another collection d selects rows, or hands back rows it has. *)
LEMMA OtherCollection ==
  ASSUME LeaseIInv, NEW c \in Collectors, NEW d \in Collectors \ {c}, NEW W, NEW freed,
         Keep(d, W, freed), reserved \ reserved' \subseteq work[d],
         enqueued'[c] = enqueued[c]
  PROVE  Collection(c)!Next
<1>1. work'[c] = work[c] /\ loose' = (loose \cup freed) \cap (W \cup Others(d))
  BY DEF Keep, LeaseIInv, LeaseTypeOK
<1>2. work[c] \subseteq Others(d)
  BY DEF Others
<1>3. loose \cap work[c] \subseteq loose'
  BY <1>1, <1>2
<1>4. ASSUME NEW p \in work[c] \ loose' PROVE p \in reserved' <=> p \in reserved
  <2>1. p \in reserved /\ p \notin loose
    BY <1>3 DEF LeaseIInv, HeldUnlessLoose
  <2>2. p \notin work[d]
    BY <2>1 DEF LeaseIInv, WorkIsExclusive
  <2> QED
    BY <2>1, <2>2
<1> QED
  BY <1>1, <1>3, <1>4, ElsewhereRule DEF LeaseIInv

LEMMA SelectKeepsContract ==
  ASSUME LeaseIInv, NEW c \in Collectors, NEW d \in Collectors, Select(d)
  PROVE  Collection(c)!Next
<1>1. PICK chosen \in SUBSET Products :
        /\ work[d] = {} /\ chosen # {} /\ chosen \cap reserved = {}
        /\ reserved' = reserved \cup chosen
        /\ Keep(d, chosen, {})
        /\ enqueued' = enqueued
  <2>1. PICK locked \in SUBSET (Others(d) \cap Selectable) :
          LET chosen == Oldest(Selectable \ locked) IN
          /\ chosen # {}
          /\ reserved' = reserved \cup chosen
          /\ Keep(d, chosen, {})
    BY DEF Select
  <2>2. /\ Oldest(Selectable \ locked) \in SUBSET Products
        /\ Oldest(Selectable \ locked) \cap reserved = {}
    BY DEF Oldest, Selectable, LeaseIInv, LeaseTypeOK
  <2> QED
    BY <2>1, <2>2 DEF Select
<1>2. CASE c = d
  <2>1. work'[c] = chosen
    BY <1>1, <1>2 DEF Keep, LeaseIInv, LeaseTypeOK
  <2>2. Collection(c)!Reserve(chosen)
    BY <1>1, <1>2, <2>1 DEF Collection!Reserve
  <2>3. chosen \in (SUBSET Products) \ {{}}
    BY <1>1
  <2> QED
    BY <2>2, <2>3 DEF Collection!Next
<1>3. CASE c # d
  <2>1. reserved \ reserved' \subseteq work[d] /\ enqueued'[c] = enqueued[c] /\ d \in Collectors \ {c}
    BY <1>1, <1>3
  <2> QED
    BY <1>1, <2>1, OtherCollection
<1> QED
  BY <1>2, <1>3

LEMMA AcceptKeepsContract ==
  ASSUME LeaseIInv, NEW c \in Collectors, NEW d \in Collectors,
         Reserved(d), Accept(d, work[d] \ Accepted(work[d]))
  PROVE  Collection(c)!Next
<1> DEFINE W == Accepted(work[d])
<1>1. W \in SUBSET work[d] /\ W # {}
  <2>1. work[d] \in SUBSET Products /\ work[d] # {}
    BY DEF LeaseIInv, LeaseTypeOK, Reserved
  <2>2. W # {}
    BY <2>1, SomeAreAccepted DEF LeaseIInv
  <2> QED
    BY <2>2 DEF Accepted
<1>2. /\ Keep(d, W, {}) /\ reserved' = reserved \ (work[d] \ W)
      /\ enqueued' = [enqueued EXCEPT ![d] = TRUE] /\ ~enqueued[d]
  BY DEF Accept, Released, Reserved
<1> HIDE DEF W
<1>3. CASE c = d
  <2>1. /\ work'[c] = W /\ enqueued'[c] = TRUE
        /\ loose' = loose \cap (W \cup Others(c))
    BY <1>2, <1>3 DEF Keep, LeaseIInv, LeaseTypeOK
  <2>2. Collection(c)!Begin(W)
    BY <1>1, <1>2, <1>3, <2>1 DEF Collection!Begin
  <2>3. W \in (SUBSET work[c]) \ {{}}
    BY <1>1, <1>3
  <2> QED
    BY <2>2, <2>3 DEF Collection!Next
<1>4. CASE c # d
  <2>1. reserved \ reserved' \subseteq work[d] /\ enqueued'[c] = enqueued[c] /\ d \in Collectors \ {c}
    BY <1>2, <1>4 DEF LeaseIInv, LeaseTypeOK
  <2> QED
    BY <1>2, <2>1, OtherCollection
<1> QED
  BY <1>3, <1>4

LEMMA GiveUpKeepsContract ==
  ASSUME LeaseIInv, NEW c \in Collectors, NEW d \in Collectors, NEW lost \in SUBSET work[d],
         work[d] # {}, GiveUp(d, lost)
  PROVE  Collection(c)!Next
<1>1. /\ Keep(d, {}, {}) /\ reserved' = reserved \ (work[d] \ lost)
      /\ enqueued' = [enqueued EXCEPT ![d] = FALSE]
  BY DEF GiveUp, Released, Drop, LeaseIInv, LeaseTypeOK
<1>2. CASE c = d
  <2>1. work'[c] = {} /\ enqueued'[c] = FALSE
    BY <1>1, <1>2 DEF Keep, LeaseIInv, LeaseTypeOK
  <2>2. Collection(c)!GiveUp(lost)
    BY <1>1, <1>2, <2>1 DEF Collection!GiveUp
  <2> QED
    BY <1>2, <2>2 DEF Collection!Next
<1>3. CASE c # d
  <2>1. reserved \ reserved' \subseteq work[d] /\ enqueued'[c] = enqueued[c] /\ d \in Collectors \ {c}
    BY <1>1, <1>3 DEF LeaseIInv, LeaseTypeOK
  <2> QED
    BY <1>1, <2>1, OtherCollection
<1> QED
  BY <1>2, <1>3

LEMMA EnqueueKeepsContract ==
  ASSUME LeaseIInv, NEW c \in Collectors, NEW d \in Collectors, Enqueue(d)
  PROVE  Collection(c)!Next
<1>1. work[d] # {} /\ Accepted(work[d]) \in SUBSET work[d]
  BY DEF Enqueue, Reserved, Accepted
<1> QED
  BY <1>1, AcceptKeepsContract, GiveUpKeepsContract DEF Enqueue

LEMMA HandleKeepsContract ==
  ASSUME LeaseIInv, NEW c \in Collectors, NEW d \in Collectors, NEW p \in Products,
         Handle(d, p) \/ MarkLost(d, p)
  PROVE  Collection(c)!Next
<1>1. /\ enqueued[d] /\ p \in work[d]
      /\ Keep(d, work[d] \ {p}, {})
      /\ enqueued' = [enqueued EXCEPT ![d] = @ /\ work[d] \ {p} # {}]
      /\ reserved' = reserved \/ reserved' = reserved \ {p}
  BY DEF Handle, MarkChecked, MarkFailed, ListingParsed, MarkLost, Marked, Released, Drop, catalogVars
<1>2. CASE c = d
  <2>1. /\ work'[c] = work[c] \ {p}
        /\ enqueued'[c] = (work'[c] # {})
        /\ loose' = loose \cap ((work[c] \ {p}) \cup Others(c))
    BY <1>1, <1>2 DEF Keep, LeaseIInv, LeaseTypeOK
  <2>2. Collection(c)!Settle(p)
    BY <1>1, <1>2, <2>1 DEF Collection!Settle
  <2> QED
    BY <1>1, <1>2, <2>2 DEF Collection!Next
<1>3. CASE c # d
  <2>1. reserved \ reserved' \subseteq work[d] /\ enqueued'[c] = enqueued[c] /\ d \in Collectors \ {c}
    BY <1>1, <1>3 DEF LeaseIInv, LeaseTypeOK
  <2> QED
    BY <1>1, <2>1, OtherCollection
<1> QED
  BY <1>2, <1>3

LEMMA MarkedEarlyKeepsContract ==
  ASSUME LeaseIInv, NEW c \in Collectors, NEW d \in Collectors, NEW p \in Products, MarkedEarly(d, p)
  PROVE  Collection(c)!Next
<1>1. /\ enqueued[d] /\ p \in work[d] /\ enqueued' = enqueued
      /\ Keep(d, work[d], {p}) /\ reserved' = reserved \ {p}
  BY DEF MarkedEarly, Marked, Released
<1>2. CASE c = d
  <2>1. work'[c] = work[c] /\ loose' \cap work'[c] = (loose \cap work[c]) \cup {p}
    BY <1>1, <1>2 DEF Keep, LeaseIInv, LeaseTypeOK
  <2>2. Collection(c)!MarkEarly(p)
    BY <1>1, <1>2, <2>1 DEF Collection!MarkEarly
  <2> QED
    BY <1>1, <1>2, <2>2 DEF Collection!Next
<1>3. CASE c # d
  <2>1. reserved \ reserved' \subseteq work[d] /\ enqueued'[c] = enqueued[c] /\ d \in Collectors \ {c}
    BY <1>1, <1>3
  <2> QED
    BY <1>1, <2>1, OtherCollection
<1> QED
  BY <1>2, <1>3

LEMMA ClockKeepsContract ==
  ASSUME LeaseIInv, NEW c \in Collectors, NEW p \in Products,
         Expire(p) \/ ComesDue(p) \/ Deactivate(p) \/ Reactivate(p)
  PROVE  Collection(c)!Next
<1>1. CASE Expire(p)
  <2>1. /\ reserved' = reserved \ {p} /\ UNCHANGED <<work, enqueued>>
        /\ loose \subseteq loose' /\ (p \in work[c] => p \in loose')
    BY <1>1 DEF Expire, Released
  <2> QED
    BY <2>1, ElsewhereRule DEF LeaseIInv
<1>2. CASE ComesDue(p) \/ Deactivate(p) \/ Reactivate(p)
  <2>1. UNCHANGED <<reserved, work, enqueued, loose>>
    BY <1>2 DEF ComesDue, Deactivate, Deactivated, Reactivate
  <2> QED
    BY <2>1, ElsewhereRule DEF LeaseIInv
<1> QED
  BY <1>1, <1>2

LEMMA StepKeepsContract ==
  ASSUME LeaseIInv, [Next]_vars, NEW c \in Collectors
  PROVE  [Collection(c)!Next]_(Collection(c)!vars)
<1>1. ASSUME NEW d \in Collectors, Select(d) \/ Enqueue(d) \/ Stop(d) PROVE Collection(c)!Next
  <2>1. Stop(d) => work[d] # {}
    BY DEF Stop, LeaseIInv, EnqueuedHasRows
  <2> QED
    BY <1>1, <2>1, SelectKeepsContract, EnqueueKeepsContract, GiveUpKeepsContract DEF Stop
<1>2. ASSUME NEW d \in Collectors, NEW p \in Products, Handle(d, p) \/ MarkLost(d, p) \/ MarkedEarly(d, p)
      PROVE  Collection(c)!Next
  BY <1>2, HandleKeepsContract, MarkedEarlyKeepsContract
<1>3. ASSUME NEW p \in Products, Expire(p) \/ ComesDue(p) \/ Deactivate(p) \/ Reactivate(p)
      PROVE  Collection(c)!Next
  BY <1>3, ClockKeepsContract
<1>4. CASE UNCHANGED vars
  BY <1>4 DEF vars, catalogVars, Collection!vars
<1> QED
  BY <1>1, <1>2, <1>3, <1>4 DEF Next

LEMMA BeginsWithContract == ASSUME Init, NEW c \in Collectors PROVE Collection(c)!Init
<1> QED
  BY DEF Init, Collection!Init

(* Every collection implements LeaseContract among any number of others. *)
THEOREM CollectionsImplement == Spec => CollectionsKeepContract
<1>1. LeaseIInv /\ [Next]_vars => [\A c \in Collectors : [Collection(c)!Next]_(Collection(c)!vars)]_vars
  BY StepKeepsContract
<1>2. Init => \A c \in Collectors : Collection(c)!Init
  BY BeginsWithContract
<1> QED
  BY <1>1, <1>2, LeaseInductive, PTL DEF Spec, CollectionsKeepContract

-----------------------------------------------------------------------------
(* RetryPolicies: the powers of two.  That the recursion has a solution, and *)
(* what the solution is, follows from least counterexamples.                 *)

(* f holds the powers up to n. *)
PowersUpTo(f, n) ==
  /\ f \in [0..n -> Nat \ {0}]
  /\ f[0] = 1
  /\ \A i \in 1..n : f[i] = 2 * f[i - 1]

LEMMA PowersGoOn ==
  ASSUME NEW n \in Nat, NEW f, PowersUpTo(f, n)
  PROVE  PowersUpTo([i \in 0..(n + 1) |-> IF i = n + 1 THEN 2 * f[n] ELSE f[i]], n + 1)
<1> DEFINE g == [i \in 0..(n + 1) |-> IF i = n + 1 THEN 2 * f[n] ELSE f[i]]
<1>1. f \in [0..n -> Nat \ {0}] /\ f[0] = 1 /\ n \in 0..n
  BY DEF PowersUpTo
<1>2. \A i \in 0..n : f[i] \in Nat \ {0} /\ 2 * f[i] \in Nat \ {0}
  BY <1>1
<1>3. \A i \in 0..n : i \in 0..(n + 1) /\ i # n + 1 /\ g[i] = f[i]
  OBVIOUS
<1>4. g[n + 1] = 2 * f[n]
  OBVIOUS
<1> HIDE DEF g
<1>5. g \in [0..(n + 1) -> Nat \ {0}]
  <2>1. \A i \in 0..(n + 1) : g[i] \in Nat \ {0}
    <3> TAKE i \in 0..(n + 1)
    <3>1. CASE i = n + 1
      BY <3>1, <1>1, <1>2, <1>4
    <3>2. CASE i # n + 1
      <4>1. i \in 0..n
        BY <3>2
      <4> QED
        BY <4>1, <1>2, <1>3
    <3> QED
      BY <3>1, <3>2
  <2>2. g = [i \in 0..(n + 1) |-> g[i]]
    BY DEF g
  <2> QED
    BY <2>1, <2>2
<1>6. g[0] = 1
  <2>1. 0 \in 0..n
    OBVIOUS
  <2> QED
    BY <2>1, <1>1, <1>3
<1>7. ASSUME NEW i \in 1..(n + 1) PROVE g[i] = 2 * g[i - 1]
  <2>1. i - 1 \in 0..n
    OBVIOUS
  <2>2. CASE i = n + 1
    <3>1. i - 1 = n
      BY <2>2
    <3> QED
      BY <2>1, <2>2, <3>1, <1>3, <1>4
  <2>3. CASE i # n + 1
    <3>1. i \in 1..n /\ i \in 0..n
      BY <2>3
    <3>2. f[i] = 2 * f[i - 1]
      BY <3>1 DEF PowersUpTo
    <3> QED
      BY <3>1, <3>2, <2>1, <1>3
  <2> QED
    BY <2>2, <2>3
<1>8. PowersUpTo(g, n + 1)
  BY <1>5, <1>6, <1>7 DEF PowersUpTo
<1> QED
  BY <1>8 DEF g

LEMMA PowersExist == ASSUME NEW n \in Nat PROVE \E f : PowersUpTo(f, n)
<1> DEFINE Without == {m \in Nat : ~\E f : PowersUpTo(f, m)}
<1>1. SUFFICES ASSUME Without # {} PROVE FALSE
  OBVIOUS
<1>2. PICK m \in Without : \A k \in Without : m <= k
  BY <1>1, LeastNatural
<1>3. PowersUpTo([i \in 0..0 |-> 1], 0)
  BY DEF PowersUpTo
<1>4. m \in Nat /\ m # 0
  BY <1>3
<1>5. m - 1 \in Nat /\ ~(m <= m - 1) /\ (m - 1) + 1 = m
  BY <1>4
<1>6. m - 1 \notin Without
  BY <1>2, <1>5
<1>7. PICK f : PowersUpTo(f, m - 1)
  BY <1>5, <1>6
<1>8. \E g : PowersUpTo(g, (m - 1) + 1)
  BY <1>5, <1>7, PowersGoOn
<1> QED
  BY <1>5, <1>8

LEMMA PowersAgree ==
  ASSUME NEW n \in Nat, NEW m \in Nat, NEW f, PowersUpTo(f, n), NEW g, PowersUpTo(g, m),
         NEW i \in 0..n, i \in 0..m
  PROVE  f[i] = g[i]
<1> DEFINE Apart == {j \in Nat : j \in 0..n /\ j \in 0..m /\ f[j] # g[j]}
<1>1. SUFFICES ASSUME Apart # {} PROVE FALSE
  OBVIOUS
<1>2. PICK j \in Apart : \A k \in Apart : j <= k
  BY <1>1, LeastNatural
<1>3. j # 0
  BY <1>2 DEF PowersUpTo
<1>4. j - 1 \in Nat /\ ~(j <= j - 1) /\ j - 1 \in 0..n /\ j - 1 \in 0..m /\ j \in 1..n /\ j \in 1..m
  BY <1>3
<1>5. f[j - 1] = g[j - 1]
  BY <1>2, <1>4
<1>6. f[j] = 2 * f[j - 1] /\ g[j] = 2 * g[j - 1]
  BY <1>4 DEF PowersUpTo
<1> QED
  BY <1>5, <1>6

(* The recursion of TwoTo has a solution, so TwoTo is one. *)
LEMMA TwoToIsDefined == TwoTo = [n \in Nat |-> IF n = 0 THEN 1 ELSE 2 * TwoTo[n - 1]]
<1> DEFINE Powers(n) == CHOOSE f : PowersUpTo(f, n)
           h == [n \in Nat |-> Powers(n)[n]]
<1>1. \A n \in Nat : PowersUpTo(Powers(n), n)
  BY PowersExist
<1> HIDE DEF Powers
<1>2. ASSUME NEW n \in Nat PROVE h[n] = IF n = 0 THEN 1 ELSE 2 * h[n - 1]
  <2>1. CASE n = 0
    <3>1. h[0] = Powers(0)[0]
      OBVIOUS
    <3> QED
      BY <2>1, <3>1, <1>1 DEF PowersUpTo
  <2>2. CASE n # 0
    <3>1. n - 1 \in Nat /\ n - 1 \in 0..(n - 1) /\ n - 1 \in 0..n /\ n \in 1..n
      BY <2>2
    <3>2. Powers(n)[n] = 2 * Powers(n)[n - 1]
      BY <1>1, <3>1 DEF PowersUpTo
    <3>3. Powers(n)[n - 1] = Powers(n - 1)[n - 1]
      BY <1>1, <3>1, PowersAgree
    <3>4. h[n] = Powers(n)[n] /\ h[n - 1] = Powers(n - 1)[n - 1]
      BY <3>1
    <3> QED
      BY <2>2, <3>2, <3>3, <3>4
  <2> QED
    BY <2>1, <2>2
<1>3. h = [n \in Nat |-> IF n = 0 THEN 1 ELSE 2 * h[n - 1]]
  <2>1. \A n \in Nat : h[n] = [k \in Nat |-> IF k = 0 THEN 1 ELSE 2 * h[k - 1]][n]
    BY <1>2
  <2> QED
    BY <2>1
<1> HIDE DEF h
<1>4. \E f : f = [n \in Nat |-> IF n = 0 THEN 1 ELSE 2 * f[n - 1]]
  BY <1>3
<1> QED
  BY <1>4, Zenon DEF TwoTo

LEMMA TwoToGrows ==
  /\ TwoTo[0] = 1
  /\ \A n \in Nat : TwoTo[n] \in Nat \ {0} /\ TwoTo[n + 1] = 2 * TwoTo[n]
<1>1. TwoTo[0] = 1
  BY TwoToIsDefined
<1>2. ASSUME NEW n \in Nat PROVE TwoTo[n + 1] = 2 * TwoTo[n]
  <2>1. n + 1 \in Nat /\ n + 1 # 0 /\ (n + 1) - 1 = n
    OBVIOUS
  <2> QED
    BY <2>1, TwoToIsDefined
<1>3. ASSUME NEW n \in Nat PROVE TwoTo[n] \in Nat \ {0}
  <2> DEFINE Not == {m \in Nat : TwoTo[m] \notin Nat \ {0}}
  <2>1. SUFFICES ASSUME Not # {} PROVE FALSE
    OBVIOUS
  <2>2. PICK m \in Not : \A k \in Not : m <= k
    BY <2>1, LeastNatural
  <2>3. m \in Nat /\ m # 0
    BY <1>1
  <2>4. m - 1 \in Nat /\ ~(m <= m - 1) /\ (m - 1) + 1 = m
    BY <2>3
  <2>5. TwoTo[m - 1] \in Nat \ {0}
    BY <2>2, <2>4
  <2>6. TwoTo[m] = 2 * TwoTo[m - 1]
    BY <2>4, <1>2
  <2> QED
    BY <2>5, <2>6
<1> QED
  BY <1>1, <1>2, <1>3

-----------------------------------------------------------------------------
(* Arithmetic of the delays.                                                *)

LEMMA AtLeastIsOne ==
  ASSUME NEW n \in Int, NEW m \in Int
  PROVE  AtLeast(n, m) \in Int /\ n <= AtLeast(n, m) /\ m <= AtLeast(n, m)
<1> QED
  BY DEF AtLeast

(* A multiple of the powers doubles with them. *)
LEMMA MultiplesDouble ==
  ASSUME NEW b \in Nat \ {0}, NEW n \in Nat
  PROVE  /\ b * TwoTo[n] \in Nat /\ b <= b * TwoTo[n]
         /\ b * TwoTo[n + 1] = 2 * (b * TwoTo[n])
<1>1. PICK t : t = TwoTo[n]
  OBVIOUS
<1>2. t \in Nat /\ t >= 1 /\ TwoTo[n + 1] = 2 * t
  BY <1>1, TwoToGrows
<1>3. b * t \in Nat
  BY <1>2
<1>4. b <= b * t
  <2>1. b * t = b + b * (t - 1)
    BY <1>2
  <2>2. b * (t - 1) \in Nat
    BY <1>2
  <2> QED
    BY <2>1, <2>2
<1>5. b * (2 * t) = 2 * (b * t)
  BY <1>2
<1> QED
  BY <1>1, <1>2, <1>3, <1>4, <1>5

(* The test before the multiplication is exact. *)
LEMMA QuotientTest ==
  ASSUME NEW max \in Nat, NEW b \in Nat, NEW t \in Nat \ {0}
  PROVE  b > max \div t <=> b * t > max
<1>1. PICK q, r : q = max \div t /\ r = max % t
  OBVIOUS
<1>2. q \in Int /\ r \in 0..(t - 1) /\ max = t * q + r
  BY <1>1
<1>3. ASSUME b > q PROVE b * t > max
  <2>1. b - (q + 1) \in Nat
    BY <1>2, <1>3
  <2>2. t * b = t * q + t + t * (b - (q + 1))
    BY <1>2
  <2>3. t * (b - (q + 1)) \in Nat
    BY <2>1
  <2>4. b * t = t * b
    OBVIOUS
  <2>5. t * q \in Int /\ t * b \in Int
    BY <1>2
  <2> QED
    BY <2>2, <2>3, <2>4, <2>5, <1>2
<1>4. ASSUME ~(b > q) PROVE ~(b * t > max)
  <2>1. q - b \in Nat
    BY <1>2, <1>4
  <2>2. t * q = t * b + t * (q - b)
    BY <1>2
  <2>3. t * (q - b) \in Nat
    BY <2>1
  <2>4. b * t = t * b
    OBVIOUS
  <2>5. t * q \in Int /\ t * b \in Int
    BY <1>2
  <2> QED
    BY <2>2, <2>3, <2>4, <2>5, <1>2
<1> QED
  BY <1>1, <1>3, <1>4

LEMMA Configured ==
  ASSUME RetryTypeOK
  PROVE  /\ Base \in Nat \ {0} /\ Longest \in Nat \ {0} /\ Longest <= LongMax
         /\ Jitters = 0..(Base - 1)
         /\ AtLeast(maxDelay, Base) = AtLeast(Longest, Base)
<1> QED
  BY RetryPoliciesAssumption DEF RetryTypeOK, Base, Longest, Jitters, AtLeast

LEMMA BackoffGrows ==
  ASSUME RetryTypeOK, NEW n \in Nat \ {0}, NEW j \in Jitters
  PROVE  /\ ComputeBackoffDelay(n, j) \in Base..AtLeast(Longest, Base)
         /\ \A k \in Jitters : ComputeBackoffDelay(n, j) <= ComputeBackoffDelay(n + 1, k)
<1> DEFINE b == Base
           m == AtLeast(Longest, Base)
           x == b * TwoTo[n - 1]
<1>1. b \in Nat \ {0} /\ m \in Int /\ b <= m /\ AtLeast(maxDelay, b) = m /\ j \in 0..(b - 1)
  BY Configured, AtLeastIsOne
<1>2. n - 1 \in Nat /\ (n - 1) + 1 = n /\ (n + 1) - 1 = n
        /\ AtLeast(n, 1) = n /\ AtLeast(n + 1, 1) = n + 1
  BY DEF AtLeast
<1>3. x \in Nat /\ b <= x /\ b * TwoTo[n] = 2 * x
  BY <1>1, <1>2, MultiplesDouble
<1>4. ComputeBackoffDelay(n, j) = AtMost(x + j, m)
  BY <1>1, <1>2 DEF ComputeBackoffDelay, Base
<1>5. ASSUME NEW k \in Jitters PROVE ComputeBackoffDelay(n + 1, k) = AtMost(2 * x + k, m)
  BY <1>1, <1>2, <1>3 DEF ComputeBackoffDelay, Base
<1> HIDE DEF b, m, x
<1>6. AtMost(x + j, m) \in b..m
  BY <1>1, <1>3 DEF AtMost
<1>7. ASSUME NEW k \in Jitters PROVE AtMost(x + j, m) <= AtMost(2 * x + k, m)
  <2>1. k \in 0..(b - 1)
    BY <1>7, Configured DEF b
  <2> QED
    BY <1>1, <1>3, <2>1 DEF AtMost
<1> QED
  BY <1>4, <1>5, <1>6, <1>7 DEF b, m

LEMMA ThrottlingGrows ==
  ASSUME RetryTypeOK, Base <= Longest, NEW n \in Nat \ {0}, NEW k \in Jitters
  PROVE  /\ TooManyRequestsDelay(n, k) \in Base..AtLeast(Longest, Base)
         /\ ComputeBackoffDelay(n, k) <= TooManyRequestsDelay(n, k)
<1> DEFINE d == ComputeBackoffDelay(n, k)
<1>1. Base \in Nat \ {0} /\ Longest \in Nat \ {0} /\ AtLeast(Longest, Base) = Longest
  BY Configured DEF AtLeast
<1>2. d \in Base..Longest
  BY <1>1, BackoffGrows
<1>3. TooManyRequestsDelay(n, k) = AtMost(2 * d, Longest)
  BY DEF TooManyRequestsDelay, Longest
<1> HIDE DEF d
<1> QED
  BY <1>1, <1>2, <1>3 DEF AtMost, d

LEMMA CatalogDelay ==
  ASSUME RetryTypeOK, NEW n \in Nat
  PROVE  ComputeDelay(n) = IF n >= ShiftCap THEN Longest ELSE AtMost(Base * TwoTo[n], Longest)
<1> DEFINE b == Base
           t == TwoTo[n]
<1>1. b \in Nat \ {0} /\ Longest \in Nat \ {0} /\ Longest <= LongMax /\ LongMax \in Nat
  BY Configured, RetryPoliciesAssumption
<1>2. t \in Nat \ {0} /\ AtLeast(n, 0) = n
  BY TwoToGrows DEF AtLeast
<1>3. ComputeDelay(n) = IF n >= ShiftCap THEN Longest
                        ELSE AtMost(IF b > LongMax \div t THEN LongMax ELSE b * t, Longest)
  BY <1>2 DEF ComputeDelay, Base, Longest
<1>4. b > LongMax \div t <=> b * t > LongMax
  BY <1>1, <1>2, QuotientTest
<1>5. b * t \in Nat
  BY <1>1, <1>2
<1> HIDE DEF b, t
<1>6. AtMost(IF b > LongMax \div t THEN LongMax ELSE b * t, Longest) = AtMost(b * t, Longest)
  <2>1. CASE b > LongMax \div t
    <3>1. b * t > LongMax
      BY <1>4, <2>1
    <3> QED
      BY <1>1, <1>5, <2>1, <3>1 DEF AtMost
  <2>2. CASE ~(b > LongMax \div t)
    BY <2>2
  <2> QED
    BY <2>1, <2>2
<1> QED
  BY <1>3, <1>6 DEF b, t

LEMMA CatalogGrows ==
  ASSUME RetryTypeOK, NEW n \in Nat
  PROVE  /\ ComputeDelay(n) \in 1..Longest
         /\ ComputeDelay(n) <= ComputeDelay(n + 1)
         /\ ComputeDelay(n) < Longest => ComputeDelay(n) = Base * TwoTo[n]
<1> DEFINE x == Base * TwoTo[n]
<1>1. Base \in Nat \ {0} /\ Longest \in Nat \ {0} /\ ShiftCap \in Nat
  BY Configured, RetryPoliciesAssumption
<1>2. x \in Nat /\ Base <= x /\ Base * TwoTo[n + 1] = 2 * x
  BY <1>1, MultiplesDouble
<1>3. ComputeDelay(n) = IF n >= ShiftCap THEN Longest ELSE AtMost(x, Longest)
  BY CatalogDelay
<1>4. ComputeDelay(n + 1) = IF n + 1 >= ShiftCap THEN Longest ELSE AtMost(2 * x, Longest)
  BY <1>2, CatalogDelay
<1> HIDE DEF x
<1>5. AtMost(x, Longest) \in 1..Longest /\ AtMost(x, Longest) <= AtMost(2 * x, Longest)
        /\ (AtMost(x, Longest) < Longest => AtMost(x, Longest) = x)
  BY <1>1, <1>2 DEF AtMost
<1>6. n >= ShiftCap => n + 1 >= ShiftCap
  BY <1>1
<1> QED
  BY <1>1, <1>3, <1>4, <1>5, <1>6 DEF x

(* Later delays are no shorter, however many errors were counted between. *)
LEMMA CatalogMonotone ==
  ASSUME RetryTypeOK, NEW n \in Nat, NEW m \in Nat, n <= m
  PROVE  ComputeDelay(n) <= ComputeDelay(m)
<1> DEFINE Shorter == {k \in Nat : n <= k /\ ~(ComputeDelay(n) <= ComputeDelay(k))}
<1>1. SUFFICES ASSUME Shorter # {} PROVE FALSE
  OBVIOUS
<1>2. PICK k \in Shorter : \A l \in Shorter : k <= l
  BY <1>1, LeastNatural
<1>3. \A l \in Nat : ComputeDelay(l) \in Int
  BY CatalogGrows, Configured
<1>4. k # n
  BY <1>2, <1>3
<1>5. k - 1 \in Nat /\ n <= k - 1 /\ ~(k <= k - 1) /\ (k - 1) + 1 = k
  BY <1>2, <1>4
<1>6. ComputeDelay(n) <= ComputeDelay(k - 1)
  BY <1>2, <1>5
<1>7. ComputeDelay(k - 1) <= ComputeDelay((k - 1) + 1)
  BY <1>5, CatalogGrows
<1>8. ComputeDelay(n) \in Int /\ ComputeDelay(k - 1) \in Int /\ ComputeDelay(k) \in Int
  BY <1>2, <1>3, <1>5
<1> QED
  BY <1>2, <1>5, <1>6, <1>7, <1>8

-----------------------------------------------------------------------------
(* The waits of a product.                                                   *)

LEMMA SameConfiguration == ASSUME UNCHANGED <<baseDelay, maxDelay>> PROVE Jitters' = Jitters
<1> QED
  BY DEF Jitters

LEMMA RetryNumbers ==
  LongMax \in Nat /\ ShiftCap \in Nat /\ MaxTries \in Nat /\ MaxNumber \in Nat /\ MaxErrors \in Nat
<1> QED
  BY RetryPoliciesAssumption

LEMMA RetryInitially == RetryInit => RetryIInv
<1> SUFFICES ASSUME RetryInit PROVE RetryIInv
  OBVIOUS
<1>1. 0 \in 0..MaxTries /\ 0 \in 0..MaxErrors /\ 0 \in Nat /\ FALSE \in BOOLEAN
  BY RetryNumbers
<1>2. RetryTypeOK
  BY <1>1 DEF RetryInit, RetryTypeOK
<1>3. WaitsAreOfTheLastFailure
  BY DEF RetryInit, WaitsAreOfTheLastFailure
<1> QED
  BY <1>2, <1>3 DEF RetryIInv

LEMMA RetriedKeeps ==
  ASSUME RetryIInv, Retried
  PROVE  RetryIInv' /\ QueueWaitsGrow
<1>1. RetryTypeOK /\ WaitsAreOfTheLastFailure
  BY DEF RetryIInv
<1>2. /\ failures \in Nat /\ failures + 1 \in Nat \ {0} /\ failures' = failures + 1 /\ failures' \in 0..MaxTries
      /\ UNCHANGED <<baseDelay, maxDelay>> /\ UNCHANGED <<errors, rest>>
  BY <1>1, RetryPoliciesAssumption DEF Retried, RetryTypeOK
<1>3. PICK jitter \in Jitters, tooMany \in BOOLEAN :
        /\ throttled' = tooMany
        /\ wait' = IF tooMany THEN TooManyRequestsDelay(failures + 1, jitter)
                              ELSE ComputeBackoffDelay(failures + 1, jitter)
  BY DEF Retried
<1>4. /\ Base \in Nat \ {0} /\ Longest \in Nat \ {0}
      /\ ComputeBackoffDelay(failures + 1, jitter) \in Base..AtLeast(Longest, Base)
  BY <1>1, <1>2, BackoffGrows, Configured
<1>5. TooManyRequestsDelay(failures + 1, jitter) \in Nat
  <2>1. TooManyRequestsDelay(failures + 1, jitter) = AtMost(2 * ComputeBackoffDelay(failures + 1, jitter), Longest)
    BY DEF TooManyRequestsDelay, Longest
  <2> QED
    BY <2>1, <1>4 DEF AtMost
<1>6. wait' \in Nat
  BY <1>3, <1>4, <1>5
<1>7. RetryTypeOK'
  BY <1>1, <1>2, <1>3, <1>6 DEF RetryTypeOK
<1>8. WaitsAreOfTheLastFailure'
  <2>1. ~throttled' => \E j \in Jitters' : wait' = ComputeBackoffDelay(failures, j)'
    <3>1. ~throttled' => wait' = ComputeBackoffDelay(failures + 1, jitter)
      BY <1>3
    <3>2. ComputeBackoffDelay(failures, jitter)' = ComputeBackoffDelay(failures + 1, jitter)
      BY <1>2 DEF ComputeBackoffDelay
    <3>3. jitter \in Jitters'
      BY <1>2, SameConfiguration
    <3> QED
      BY <3>1, <3>2, <3>3
  <2>2. errors' > 0 => \E n \in 0..(errors' - 1) : rest' = ComputeDelay(n)'
    <3>1. \A n : ComputeDelay(n)' = ComputeDelay(n)
      BY <1>2 DEF ComputeDelay
    <3> QED
      BY <3>1, <1>1, <1>2 DEF WaitsAreOfTheLastFailure
  <2> QED
    BY <2>1, <2>2, Zenon DEF WaitsAreOfTheLastFailure
<1>9. QueueWaitsGrow
  <2> SUFFICES ASSUME throttled' => Base <= Longest
               PROVE  /\ wait' \in Base..AtLeast(Longest, Base)
                      /\ failures > 0 /\ ~throttled => wait <= wait'
    BY DEF QueueWaitsGrow
  <2> DEFINE d == ComputeBackoffDelay(failures + 1, jitter)
  <2>1. wait' \in Base..AtLeast(Longest, Base) /\ d <= wait'
    <3>1. CASE tooMany
      <4>1. Base <= Longest
        BY <3>1, <1>3
      <4> QED
        BY <3>1, <4>1, <1>1, <1>2, <1>3, ThrottlingGrows
    <3>2. CASE ~tooMany
      <4>1. d \in Int
        BY <1>4
      <4> QED
        BY <3>2, <4>1, <1>3, <1>4
    <3> QED
      BY <3>1, <3>2
  <2>2. ASSUME failures > 0, ~throttled PROVE wait <= d
    <3>1. PICK j \in Jitters : wait = ComputeBackoffDelay(failures, j)
      BY <1>1, <2>2 DEF WaitsAreOfTheLastFailure
    <3>2. failures \in Nat \ {0}
      BY <1>2, <2>2
    <3> QED
      BY <3>1, <3>2, <1>1, BackoffGrows
  <2>3. wait \in Int /\ d \in Int /\ wait' \in Int
    BY <1>1, <1>4, <1>6 DEF RetryTypeOK
  <2> HIDE DEF d
  <2> QED
    BY <2>1, <2>2, <2>3
<1> QED
  BY <1>7, <1>8, <1>9 DEF RetryIInv

LEMMA DiedKeeps ==
  ASSUME RetryIInv, Died
  PROVE  RetryIInv' /\ CatalogRestsGrow
<1>1. RetryTypeOK /\ WaitsAreOfTheLastFailure
  BY DEF RetryIInv
<1>2. /\ errors \in Nat /\ errors' \in (errors + 1)..MaxErrors /\ errors' \in 0..MaxErrors /\ rest' = ComputeDelay(errors)
      /\ failures' = 0 /\ wait' = 0 /\ throttled' = FALSE /\ UNCHANGED <<baseDelay, maxDelay>>
  BY <1>1, RetryPoliciesAssumption DEF Died, Settled, RetryTypeOK
<1>3. Longest \in Nat \ {0} /\ ComputeDelay(errors) \in 1..Longest
        /\ (ComputeDelay(errors) < Longest => ComputeDelay(errors) = Base * TwoTo[errors])
  BY <1>1, <1>2, CatalogGrows, Configured
<1>4. RetryTypeOK'
  <2>1. rest' \in Nat
    BY <1>2, <1>3
  <2> QED
    <3>1. 0 \in 0..MaxTries /\ 0 \in Nat /\ FALSE \in BOOLEAN
      BY RetryNumbers
    <3> QED
      BY <3>1, <2>1, <1>1, <1>2 DEF RetryTypeOK
<1>5. WaitsAreOfTheLastFailure'
  <2>1. errors \in 0..(errors' - 1)
    <3>1. PICK e, f : e = errors /\ f = errors'
      OBVIOUS
    <3>2. e \in Nat /\ f \in (e + 1)..MaxErrors
      BY <3>1, <1>2
    <3>3. e \in 0..(f - 1)
      BY <3>2, RetryNumbers
    <3> QED
      BY <3>1, <3>3
  <2>2. \A n : ComputeDelay(n)' = ComputeDelay(n)
    BY <1>2 DEF ComputeDelay
  <2>3. \E n \in 0..(errors' - 1) : rest' = ComputeDelay(n)'
    BY <2>1, <2>2, <1>2
  <2>4. ~(failures' > 0)
    BY <1>2
  <2> QED
    BY <2>3, <2>4 DEF WaitsAreOfTheLastFailure
<1>6. errors > 0 => rest <= rest'
  <2> SUFFICES ASSUME errors > 0 PROVE rest <= rest'
    OBVIOUS
  <2>1. PICK n \in 0..(errors - 1) : rest = ComputeDelay(n)
    BY <1>1 DEF WaitsAreOfTheLastFailure
  <2>2. n \in Nat /\ n <= errors
    BY <1>2
  <2>3. ComputeDelay(n) <= ComputeDelay(errors)
    BY <2>2, <1>1, <1>2, CatalogMonotone
  <2> QED
    BY <2>1, <2>3, <1>2
<1> QED
  BY <1>2, <1>3, <1>4, <1>5, <1>6 DEF RetryIInv, CatalogRestsGrow

LEMMA CheckedKeeps ==
  ASSUME RetryIInv, Checked
  PROVE  RetryIInv'
<1>1. 0 \in 0..MaxTries /\ 0 \in 0..MaxErrors /\ 0 \in Nat /\ FALSE \in BOOLEAN /\ ~(0 > 0)
  BY RetryNumbers
<1>2. /\ failures' = 0 /\ wait' = 0 /\ throttled' = FALSE /\ UNCHANGED <<baseDelay, maxDelay>>
      /\ errors' = 0 /\ rest' = 0
  BY DEF Checked, Settled
<1>3. RetryTypeOK'
  BY <1>1, <1>2 DEF RetryIInv, RetryTypeOK
<1>4. WaitsAreOfTheLastFailure'
  BY <1>1, <1>2 DEF WaitsAreOfTheLastFailure
<1> QED
  BY <1>3, <1>4 DEF RetryIInv

LEMMA RetryStep ==
  RetryIInv /\ [RetryNext]_retryVars
    => RetryIInv' /\ (UNCHANGED retryVars \/ (QueueWaitsGrow /\ CatalogRestsGrow))
<1> SUFFICES ASSUME RetryIInv, [RetryNext]_retryVars
             PROVE  RetryIInv' /\ (UNCHANGED retryVars \/ (QueueWaitsGrow /\ CatalogRestsGrow))
  OBVIOUS
<1>1. failures \in Nat /\ errors \in Nat
  BY RetryPoliciesAssumption DEF RetryIInv, RetryTypeOK
<1>2. CASE Retried
  <2>1. CatalogRestsGrow
    BY <1>1, <1>2 DEF Retried, CatalogRestsGrow
  <2> QED
    BY <2>1, <1>2, RetriedKeeps
<1>3. CASE Died
  <2>1. QueueWaitsGrow
    BY <1>1, <1>3 DEF Died, Settled, QueueWaitsGrow
  <2> QED
    BY <2>1, <1>3, DiedKeeps
<1>4. CASE Checked
  <2>1. QueueWaitsGrow /\ CatalogRestsGrow
    BY <1>1, <1>4 DEF Checked, Settled, QueueWaitsGrow, CatalogRestsGrow
  <2> QED
    BY <2>1, <1>4, CheckedKeeps
<1>5. CASE UNCHANGED retryVars
  <2>1. RetryIInv'
    BY <1>5 DEF retryVars, RetryIInv, RetryTypeOK, WaitsAreOfTheLastFailure, Jitters,
       ComputeBackoffDelay, ComputeDelay, AtLeast, AtMost
  <2> QED
    BY <2>1, <1>5
<1> QED
  BY <1>2, <1>3, <1>4, <1>5 DEF RetryNext

(* What a product waits has been computed from its last failure. *)
THEOREM RetryInductive == RetrySpec => []RetryIInv
<1>1. RetryIInv /\ [RetryNext]_retryVars => RetryIInv'
  BY RetryStep
<1> QED
  BY <1>1, RetryInitially, PTL DEF RetrySpec

(* Waits grow to their longest, for every configuration and number width. *)
THEOREM DelaysGrow == RetrySpec => DelaysGrowToTheirCap
<1>1. RetryIInv /\ [RetryNext]_retryVars => [QueueWaitsGrow /\ CatalogRestsGrow]_retryVars
  BY RetryStep
<1> QED
  BY <1>1, RetryInductive, PTL DEF RetrySpec, DelaysGrowToTheirCap
=============================================================================
