---------------------------- MODULE MCCategories ----------------------------
(* Three categories and three products, one product to a page. *)
EXTENDS Categories

CONSTANTS a, b, c, p, q, s, r1, r2

MCRefreshes == {r1, r2}
MCSymmetry  == Permutations(MCRefreshes)

MCCategoryIds == {a, b, c}
MCProducts    == {p, q, s}

(* One category, a pair, a chain with the pair turned round, two roots.      *)
MCTrees == {
  a :> NoCategory,
  b :> NoCategory @@ a :> b,
  a :> NoCategory @@ b :> a @@ c :> b,
  c :> NoCategory @@ b :> c @@ a :> NoCategory}

(* Parents come first in the seed file. *)
MCSeedFile == <<a, b>>

Start == [d \in MCCategoryIds |-> IF d = a THEN <<p, q, s>> ELSE <<p>>]

MCInit == CategoriesInit /\ shop = Start
MCSpec == MCInit /\ [][CategoriesNext]_categoryVars
=============================================================================
