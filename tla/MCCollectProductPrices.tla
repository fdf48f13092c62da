---------------------- MODULE MCCollectProductPrices ----------------------
(* A small instance of CollectProductPrices for TLC.                        *)
EXTENDS CollectProductPrices

CONSTANTS l1, p1, p2   \* a listing page and two product pages

MixedItems == {l1, p1, p2}
MixedSeeds == {l1, p1}
=============================================================================
