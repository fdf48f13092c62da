--------------------------- MODULE CatalogLeases ---------------------------
(***************************************************************************)
(* Who collects what: several price collections over the same              *)
(* product_catalog, beside a refresh that deactivates rows and finds them  *)
(* again.  A collection reserves the rows longest unchecked among those    *)
(* that are due and not reserved (product_catalog_get_due), enqueues them, *)
(* and hands each back by marking it checked or failed.  Reservations      *)
(* expire; nothing that hands a row back asks who reserved it.             *)
(*                                                                         *)
(* A collection is seen through its reservations only: QueueDrain.tla has  *)
(* the queue between its enqueueing and its marks, CollectProductPrices.tla*)
(* the order of its calls.  Times are left out: a row is due or not and    *)
(* reserved or not, a reservation in the past being none, and ranks stand  *)
(* for last_checked_at.                                                    *)
(***************************************************************************)
EXTENDS Integers, FiniteSets

CONSTANTS
  Collectors, \* price collections that may run at a time
  Products,   \* rows of product_catalog
  Listings,   \* the rows whose URL is a listing page
  Url,        \* the url of each row; the key of a row is its normalized_url
  Limit,      \* p_limit
  Vanishing,  \* bound: the rows a refresh may miss
  MaxFaults   \* bound on failing calls, cancellations and kills

ASSUME LeaseAssumption ==
  /\ IsFiniteSet(Products) /\ Listings \cup Vanishing \subseteq Products
  /\ Limit \in Nat \ {0} /\ MaxFaults \in Nat

VARIABLES
  active,   \* rows with is_active
  due,      \* rows whose next_check_at is null or past
  reserved, \* rows whose reserved_until is in the future
  rank,     \* order by last_checked_at nulls first, id
  work,     \* the rows each collection reserved and has not dealt with; a collection
            \* without any is over, or has not begun
  enqueued, \* its rows are in the queue
  orphaned, \* rows nobody will hand back: their reservation has to expire
  loose,    \* rows whose collection has them beyond their reservation
  faults    \* faults so far

catalogVars == <<active, due, reserved, rank>>
vars == <<catalogVars, work, enqueued, orphaned, loose, faults>>

Others(c) == UNION {work[d] : d \in Collectors \ {c}}

(* Collection c is left with the rows W; a row is loose while someone has it. *)
Keep(c, W, freed) ==
  /\ work' = [work EXCEPT ![c] = W]
  /\ loose' = (loose \cup freed) \cap (W \cup Others(c))

(* The rows D leave collection c, which is over with the last of them. *)
Drop(c, D) ==
  /\ Keep(c, work[c] \ D, {})
  /\ enqueued' = [enqueued EXCEPT ![c] = @ /\ work[c] \ D # {}]

Fault == faults < MaxFaults /\ faults' = faults + 1

Init ==
  /\ active = Products /\ due = Products /\ reserved = {}
  /\ rank \in {f \in [Products -> 1..Cardinality(Products)] : \A p, q \in Products : f[p] = f[q] => p = q}
  /\ work = [c \in Collectors |-> {}]
  /\ enqueued = [c \in Collectors |-> FALSE]
  /\ orphaned = {} /\ loose = {} /\ faults = 0

-----------------------------------------------------------------------------
(* The selection.                                                           *)

(* Faulty variant, used by no specification: reservations do not matter. *)
BugSelectable == active \cap due

Selectable == (active \cap due) \ reserved

(* The first Limit rows of S in the order of the query. *)
Oldest(S) == {p \in S : Cardinality({q \in S : rank[q] < rank[p]}) < Limit}

(* Faulty variant: more rows are selected while some are still to be dealt   *)
(* with.                                                                     *)
BugSelect(c) ==
  LET chosen == Oldest(Selectable) IN
  /\ chosen # {}
  /\ reserved' = reserved \cup chosen
  /\ Keep(c, work[c] \cup chosen, {})
  /\ orphaned' = orphaned \ chosen
  /\ UNCHANGED <<active, due, rank, enqueued, faults>>

(* GetDueProductsAsync.  "for update skip locked" may miss rows that another  *)
(* collection is writing to.  A selection without rows ends the run.         *)
Select(c) ==
  /\ work[c] = {}
  /\ \E locked \in SUBSET (Others(c) \cap Selectable) :
       LET chosen == Oldest(Selectable \ locked) IN
       /\ chosen # {}
       /\ reserved' = reserved \cup chosen
       /\ Keep(c, chosen, {})
       /\ orphaned' = orphaned \ chosen
  /\ UNCHANGED <<active, due, rank, enqueued, faults>>

Reserved(c) == work[c] # {} /\ ~enqueued[c]

(* product_catalog_release_reservations *)
Released(S) == reserved' = reserved \ S

(* "on conflict (run_id, url) do nothing": of the rows with one url the first *)
(* is accepted.                                                              *)
Accepted(S) == {p \in S : \A q \in S : Url[q] = Url[p] => rank[p] <= rank[q]}

Accept(c, released) ==
  /\ Released(released)
  /\ Keep(c, Accepted(work[c]), {})
  /\ enqueued' = [enqueued EXCEPT ![c] = TRUE]
  /\ UNCHANGED <<active, due, rank, orphaned, faults>>

(* The run ends with an error; the rows in lost keep their reservation. *)
GiveUp(c, lost) ==
  /\ Fault
  /\ Released(work[c] \ lost)
  /\ Drop(c, work[c])
  /\ orphaned' = orphaned \cup lost
  /\ UNCHANGED <<active, due, rank>>

(* EnqueueAsync and the releases after it.  When it fails everything is       *)
(* released, when the release fails too everything is lost.  A failing release*)
(* of the rows not accepted ends the run before it works on the others,      *)
(* whether it was carried out and only its answer was lost, or not.          *)
Enqueue(c) ==
  /\ Reserved(c)
  /\ \/ Accept(c, work[c] \ Accepted(work[c]))
     \/ GiveUp(c, {}) \/ GiveUp(c, work[c])
     \/ GiveUp(c, Accepted(work[c])) /\ work[c] # Accepted(work[c])
-----------------------------------------------------------------------------
(* The callbacks of the queue.                                              *)

(* Faulty variant: the row keeps its place. *)
BugLast(p) == rank

(* last_checked_at becomes the present: the row goes behind all others. *)
Last(p) ==
  [q \in Products |-> IF q = p THEN Cardinality(Products)
                      ELSE IF rank[q] > rank[p] THEN rank[q] - 1 ELSE rank[q]]

(* product_catalog_mark_checked and product_catalog_mark_failed: they differ  *)
(* in how long the row is not due.                                           *)
Marked(p) ==
  /\ rank' = Last(p)
  /\ due' = due \ {p}
  /\ Released({p})
  /\ UNCHANGED active

(* OnItemSucceeded of a product page. *)
MarkChecked(c, p) ==
  /\ enqueued[c] /\ p \in work[c] \ Listings
  /\ Marked(p)
  /\ Drop(c, {p})
  /\ UNCHANGED <<orphaned, faults>>

(* OnItemDead. *)
MarkFailed(c, p) ==
  /\ enqueued[c] /\ p \in work[c]
  /\ Marked(p)
  /\ Drop(c, {p})
  /\ UNCHANGED <<orphaned, faults>>

(* A parsed listing page is done without a callback. *)
ListingParsed(c, p) ==
  /\ enqueued[c] /\ p \in work[c] \cap Listings
  /\ Drop(c, {p})
  /\ orphaned' = orphaned \cup {p}
  /\ UNCHANGED <<catalogVars, faults>>

(* The queue row is settled although no mark came through. *)
MarkLost(c, p) ==
  /\ enqueued[c] /\ p \in work[c]
  /\ Fault
  /\ Drop(c, {p})
  /\ orphaned' = orphaned \cup {p}
  /\ UNCHANGED catalogVars

(* The row is marked, but its queue row is not settled and comes again. *)
MarkedEarly(c, p) ==
  /\ enqueued[c] /\ p \in work[c]
  /\ Fault
  /\ Marked(p)
  /\ Keep(c, work[c], {p})
  /\ UNCHANGED <<enqueued, orphaned>>

(* A kill, a cancellation or a failing drain: reservations stay. *)
Stop(c) == enqueued[c] /\ GiveUp(c, work[c])
-----------------------------------------------------------------------------
(* Time and the refresh.                                                    *)

Expire(p) ==
  /\ p \in reserved
  /\ Released({p})
  /\ loose' = IF \E c \in Collectors : p \in work[c] THEN loose \cup {p} ELSE loose
  /\ UNCHANGED <<active, due, rank, work, enqueued, orphaned, faults>>

ComesDue(p) ==
  /\ p \notin due
  /\ due' = due \cup {p}
  /\ UNCHANGED <<active, reserved, rank, work, enqueued, orphaned, loose, faults>>

Deactivated(p) ==
  /\ active' = active \ {p}
  /\ due' = due \cup {p}
  /\ UNCHANGED <<reserved, rank, work, enqueued, orphaned, loose, faults>>

(* Faulty variant: reserved rows are not spared. *)
BugDeactivate(p) == p \in Vanishing \cap active /\ Deactivated(p)

(* product_catalog_deactivate_missing, for one of its rows. *)
Deactivate(p) == p \in (Vanishing \cap active) \ reserved /\ Deactivated(p)

(* product_catalog_upsert_discovered finds an inactive row again. *)
Reactivate(p) ==
  /\ p \notin active
  /\ active' = active \cup {p}
  /\ due' = due \cup {p}
  /\ UNCHANGED <<reserved, rank, work, enqueued, orphaned, loose, faults>>

Handle(c, p) == MarkChecked(c, p) \/ MarkFailed(c, p) \/ ListingParsed(c, p)

Next ==
  \/ \E c \in Collectors :
       \/ Select(c) \/ Enqueue(c) \/ Stop(c)
       \/ \E p \in Products : Handle(c, p) \/ MarkLost(c, p) \/ MarkedEarly(c, p)
  \/ \E p \in Products : Expire(p) \/ ComesDue(p) \/ Deactivate(p) \/ Reactivate(p)

Spec == Init /\ [][Next]_vars

(* Collections are started again and again and go on while they run; the      *)
(* clock goes on.  Nobody has to make a row due or to refresh the catalog.    *)
RunStep(c) == Enqueue(c) \/ \E p \in work[c] : Handle(c, p)

FairSpec ==
  /\ Spec
  /\ \A c \in Collectors : WF_vars(Select(c)) /\ WF_vars(RunStep(c))
  /\ \A p \in Products : WF_vars(Expire(p))

-----------------------------------------------------------------------------
(* Properties.                                                              *)

(* Types; ranks are a permutation. *)
LeaseTypeOK ==
  /\ active \subseteq Products /\ due \subseteq Products /\ reserved \subseteq Products
  /\ rank \in [Products -> 1..Cardinality(Products)]
  /\ \A p, q \in Products : rank[p] = rank[q] => p = q
  /\ work \in [Collectors -> SUBSET Products] /\ enqueued \in [Collectors -> BOOLEAN]
  /\ orphaned \subseteq Products /\ loose \subseteq Products
  /\ faults \in 0..MaxFaults

(* Two collections work on a row at a time only if its reservation ran out    *)
(* under the first (or its mark came early): otherwise the reservation keeps  *)
(* others away, whatever else hands rows back (architecture.md, "Catalog      *)
(* reservation").                                                            *)
WorkIsExclusive ==
  \A c, d \in Collectors : \A p \in work[c] \cap work[d] : c # d => p \in loose

(* A reservation stands only while its collection is to deal with the row,    *)
(* or after a kill, a fault or a parsed listing: the paths on which it is     *)
(* handed back, marks and releases, leave none behind.                       *)
ReservationsAreReturned ==
  \A p \in reserved : p \in orphaned \/ \E c \in Collectors : p \in work[c]

(* An inactive row has no reservation: found again, it can be selected at     *)
(* once.                                                                     *)
InactiveIsFree == reserved \subseteq active

(* The inductive invariant behind them: until a row is loose, whoever is to   *)
(* deal with it has its reservation.                                         *)
HeldUnlessLoose == \A c \in Collectors : \A p \in work[c] : p \in loose \cup reserved

(* A collection that works has rows. *)
EnqueuedHasRows == \A c \in Collectors : enqueued[c] => work[c] # {}

LeaseIInv ==
  /\ LeaseTypeOK /\ HeldUnlessLoose /\ EnqueuedHasRows
  /\ WorkIsExclusive /\ ReservationsAreReturned /\ InactiveIsFree

(* Each collection keeps LeaseContract among the others: however reservations *)
(* run out, rows are taken over and calls fail, it selects only when it has   *)
(* dealt with all rows, a row that leaves it hands back no reservation but    *)
(* its own, and one that is not loose stays reserved until it leaves.         *)
Collection(c) == INSTANCE LeaseContract WITH
  Rows    <- Products,
  Shared  <- Products,
  held    <- work[c],
  working <- enqueued[c],
  kept    <- reserved,
  loose   <- loose \cap work[c]

CollectionsKeepContract ==
  /\ \A c \in Collectors : Collection(c)!Init
  /\ [][\A c \in Collectors : [Collection(c)!Next]_(Collection(c)!vars)]_vars

(* A row that is active and due gets its mark, or is deactivated, however     *)
(* often others come due, fail or are found again: but only as long as the   *)
(* listing pages are fewer than a selection takes.  A parsed one is settled  *)
(* without a mark (ProcessListingQueueItemAsync), so its last_checked_at     *)
(* stays null, it is due on, and it is back at the head when its reservation *)
(* has expired.  Limit or more of them take every selection for themselves,  *)
(* and the products starve: Listings is what the catalog's discovery let in, *)
(* and nothing in the code bounds it.                                        *)
EveryRowHasItsTurn ==
  Cardinality(Listings) < Limit =>
    \A p \in Products \ Listings : p \in active \cap due ~> p \notin active \cap due
=============================================================================
