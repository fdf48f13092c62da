-------------------------- MODULE MCCatalogLeases --------------------------
(* A small instance of CatalogLeases for TLC: a listing and two products.   *)
EXTENDS CatalogLeases

CONSTANTS c1, c2, l1, p1, p2

(* The two products share a url: one enqueueing accepts one of them. *)
OneUrl == [p \in {l1, p1, p2} |-> IF p = l1 THEN l1 ELSE p1]
=============================================================================
