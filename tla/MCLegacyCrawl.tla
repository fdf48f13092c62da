---------------------------- MODULE MCLegacyCrawl ----------------------------
(* Two crawls of two pages that are one product by its external id, and show *)
(* it at different prices; gone, without a price, is no valid state.         *)
EXTENDS LegacyCrawl, TLC

CONSTANTS web, worker

MCCrawls  == {web, worker}
MCPages   == {"p", "q"}
MCCardUrl == [u \in MCPages |-> u]
MCCardId  == [u \in MCPages |-> "x"]
MCInit    == Init /\ shop = [p |-> "cheap", q |-> "dear"]
MCSpec    == MCInit /\ [][Next]_vars
Symmetry  == Permutations(MCCrawls)
=============================================================================
