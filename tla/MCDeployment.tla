---------------------------- MODULE MCDeployment ----------------------------
(* Two runs of one release, the second replacing it, and one of the next.    *)
EXTENDS Deployment

CONSTANTS first, again, next

MCRuns    == {first, again, next}
MCVersion == [d \in MCRuns |-> IF d = next THEN 3 ELSE 2]
=============================================================================
