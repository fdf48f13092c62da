--------------------------- MODULE QueueContract ---------------------------
(***************************************************************************)
(* What draining a queue promises its caller, without attempts, leases,    *)
(* retries, callbacks or failed calls: rows are taken in batches, only the *)
(* taker of a row judges it, a judged row that was let go keeps its verdict*)
(* for good, and the queue is closed only when no row is open.             *)
(***************************************************************************)
EXTENDS Integers, FiniteSets

CONSTANTS Items, Seeds, BatchSize

VARIABLES
  verdict,  \* "absent" | "open" | "succeeded" | "dead" for every row
  held,     \* rows of the batch in progress
  closed    \* the caller was told that the queue is drained

vars == <<verdict, held, closed>>

Init ==
  /\ verdict = [i \in Items |-> IF i \in Seeds THEN "open" ELSE "absent"]
  /\ held = {}
  /\ closed = FALSE

(* A batch is taken only when the previous one has been let go. *)
Take(B) ==
  /\ ~closed /\ held = {}
  /\ B \subseteq {i \in Items : verdict[i] = "open"}
  /\ Cardinality(B) <= BatchSize
  /\ held' = B
  /\ UNCHANGED <<verdict, closed>>

(* Rows of the batch are let go one by one or together, with or without a  *)
(* last verdict.                                                            *)
MayLetGo == held' \in SUBSET held

(* The holder of a row may change its mind until it lets the row go. *)
Judge(i, v) ==
  /\ i \in held
  /\ verdict' = [verdict EXCEPT ![i] = v]
  /\ MayLetGo
  /\ UNCHANGED closed

(* The holder of a listing row adds the rows it links to. *)
Discover(S) ==
  /\ held # {}
  /\ verdict' = [i \in Items |-> IF i \in S /\ verdict[i] = "absent" THEN "open" ELSE verdict[i]]
  /\ MayLetGo
  /\ UNCHANGED closed

LetGo == MayLetGo /\ UNCHANGED <<verdict, closed>>

Close ==
  /\ held = {}
  /\ \A i \in Items : verdict[i] # "open"
  /\ closed' = TRUE
  /\ UNCHANGED <<verdict, held>>

Next ==
  \/ \E B \in SUBSET Items : Take(B)
  \/ \E i \in held, v \in {"open", "succeeded", "dead"} : Judge(i, v)
  \/ \E S \in SUBSET Items : Discover(S)
  \/ LetGo
  \/ Close

Spec == Init /\ [][Next]_vars
=============================================================================
