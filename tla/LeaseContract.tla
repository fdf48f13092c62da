--------------------------- MODULE LeaseContract ---------------------------
(***************************************************************************)
(* What one price collection does with its reservations in the catalog,    *)
(* without queue rows, calls, run rows and ranks: it reserves rows nobody  *)
(* has reserved while it has none, hands back what it will not work on     *)
(* before it begins, deals with one row at a time, hands back only rows it *)
(* has to deal with, and none after its end.  Both views of a collection   *)
(* implement it: CollectProductPrices.tla, which has its calls, alone, and *)
(* CatalogLeases.tla, which has many.                                      *)
(***************************************************************************)
CONSTANTS
  Rows,   \* of product_catalog
  Shared  \* rows that others may reserve, hand back, or see expire

VARIABLES
  held,     \* the rows the collection has to deal with
  working,  \* it has begun to
  kept,     \* the rows that are reserved, by whomever
  loose     \* held rows that may be out of its reservation

vars == <<held, working, kept, loose>>

Init == held = {} /\ working = FALSE /\ kept = {} /\ loose = {}

(* A row that others hold beyond its reservation is loose from the start. *)
Reserve(S) ==
  /\ held = {} /\ S \cap kept = {}
  /\ held' = S /\ kept' = kept \cup S
  /\ loose' \in SUBSET (S \cap Shared)
  /\ UNCHANGED working

(* The answer of the selection is lost: nobody knows the rows. *)
ReserveInVain(S) ==
  /\ held = {} /\ S \cap kept = {}
  /\ kept' = kept \cup S
  /\ UNCHANGED <<held, working, loose>>

Begin(A) ==
  /\ ~working
  /\ held' = A /\ working' = TRUE
  /\ kept' = kept \ (held \ A)
  /\ loose' = loose \cap A

(* The end; the rows in L stay reserved. *)
GiveUp(L) ==
  /\ held # {}
  /\ held' = {} /\ working' = FALSE /\ loose' = {}
  /\ kept' = kept \ (held \ L)

(* The row is dealt with, marked or not. *)
Settle(p) ==
  /\ working
  /\ held' = held \ {p} /\ working' = (held' # {})
  /\ kept' \in {kept, kept \ {p}}
  /\ loose' = loose \ {p}

(* The row is marked and comes again. *)
MarkEarly(p) ==
  /\ working
  /\ kept' = kept \ {p}
  /\ loose' = loose \cup {p}
  /\ UNCHANGED <<held, working>>

(* Whatever others do, a row stays reserved until it is loose. *)
Elsewhere ==
  /\ UNCHANGED <<held, working>>
  /\ loose \subseteq loose' /\ loose' \subseteq loose \cup (held \cap Shared)
  /\ \A p \in Rows : (p \in kept' <=> p \in kept) \/ (p \in Shared /\ p \notin held \ loose')

Next ==
  \/ \E S \in (SUBSET Rows) \ {{}} : Reserve(S) \/ ReserveInVain(S)
  \/ \E A \in (SUBSET held) \ {{}} : Begin(A)
  \/ \E L \in SUBSET held : GiveUp(L)
  \/ \E p \in held : Settle(p) \/ MarkEarly(p)
  \/ Elsewhere

Spec == Init /\ [][Next]_vars
=============================================================================
