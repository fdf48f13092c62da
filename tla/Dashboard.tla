----------------------------- MODULE Dashboard -----------------------------
(***************************************************************************)
(* The page of crawler runs (runs-dashboard.js): a tree of runs, the grid  *)
(* of the snapshots of the chosen tree row, and the product card of the    *)
(* chosen snapshot with its live comparison.  Every handler runs to its    *)
(* end in one step; what it asks the server for is answered later, once,   *)
(* in any order, or fails.  The three tables get their data by the rules   *)
(* of the Kendo widgets: the grid's source keeps one request in flight     *)
(* and one behind it, the tree's source keeps none back.                   *)
(***************************************************************************)
EXTENDS Naturals, FiniteSets

CONSTANTS
  Nodes,      \* rows the tree may have: dates, runs, groups of a run
  NoNode,     \* null, for a tree row
  Idle,       \* no request in flight
  Snapshots,
  NoSnapshot, \* null, for a snapshot
  Lists,      \* the snapshots the server lists for a tree row
  MaxGestures \* bound: what the user does

ASSUME DashboardAssumption ==
  /\ NoNode \notin Nodes /\ Idle \notin Nodes \cup {NoNode}
  /\ NoSnapshot \notin Snapshots
  /\ Lists \in [Nodes \cup {NoNode} -> SUBSET Snapshots]
  /\ Lists[NoNode] = {}
  /\ MaxGestures \in Nat

VARIABLES
  selectedTreeNode,      \* with it selectedRunId and selectedSnapshotScope
  pendingTreeSelectionId,
  treeRows,              \* the rows of the tree
  treeHighlight,         \* the tree's own selected row
  treeReads,             \* reads of the tree in flight
  gridRows,              \* the tree row whose snapshots the grid shows
  gridRead,              \* the request in flight: its tree row, or Idle
  gridQueued,            \* a read waits for it
  gridMasked,            \* the grid's loading mask takes the clicks
  selectedSnapshotId,
  details,               \* currentProductDetails: the snapshot it is of
  panel,                 \* what productDetailsPanel shows
  analyses,              \* analysis requests in flight
  analysisRequestToken,
  liveState,             \* liveProductRequestState
  liveResult,            \* currentLiveProductResult: the snapshot it is of
  buttonWired,           \* the refresh button of the card has its listener
  lives,                 \* live requests in flight
  liveRequestToken,
  gestures,
  gridFailed,            \* the last answer to the grid was a failure
  overridden             \* a restored tree selection replaced a newer one, and
                         \* the grid has not asked since

treeVars == <<pendingTreeSelectionId, treeRows, treeHighlight, treeReads>>
gridVars == <<gridRows, gridRead, gridQueued, gridMasked, gridFailed, overridden>>
cardVars == <<details, panel, analyses, analysisRequestToken>>
liveVars == <<liveState, liveResult, buttonWired, lives, liveRequestToken>>
vars == <<selectedTreeNode, treeVars, gridVars, selectedSnapshotId, cardVars, liveVars, gestures>>

(* Tokens in use: each gesture and each answer of the tree takes one. *)
Tokens == 1..2 * MaxGestures + 2

Request == [token : Nat, of : Snapshots]

Init ==
  /\ selectedTreeNode = NoNode /\ pendingTreeSelectionId = NoNode
  /\ treeRows = {} /\ treeHighlight = NoNode /\ treeReads = 1
  /\ gridRows = NoNode /\ gridRead = NoNode /\ gridQueued = FALSE /\ gridMasked = TRUE
  /\ selectedSnapshotId = NoSnapshot
  /\ details = NoSnapshot /\ panel = "empty" /\ analyses = {} /\ analysisRequestToken = 0
  /\ liveState = "idle" /\ liveResult = NoSnapshot /\ buttonWired = FALSE
  /\ lives = {} /\ liveRequestToken = 1
  /\ gestures = 0 /\ gridFailed = FALSE /\ overridden = FALSE

Gesture == gestures < MaxGestures /\ gestures' = gestures + 1

----------------------------------------------------------------------------
(* The panels.                                                             *)

(* Faulty variant: requests in flight keep their right to answer. *)
BugResetLive ==
  /\ UNCHANGED liveRequestToken
  /\ liveResult' = NoSnapshot /\ liveState' = "idle"

resetLiveProductState ==
  /\ liveRequestToken' = liveRequestToken + 1
  /\ liveResult' = NoSnapshot /\ liveState' = "idle"

(* Requests for a product analysis are not withdrawn: their token stays. *)
resetAnalyticsPanels ==
  /\ details' = NoSnapshot /\ panel' = "empty"
  /\ resetLiveProductState
  /\ buttonWired' = FALSE /\ UNCHANGED lives

(* selectedSnapshotId has just become s. *)
loadProductAnalysis(s) ==
  /\ analysisRequestToken' = analysisRequestToken + 1
  /\ IF s = NoSnapshot
     THEN resetAnalyticsPanels /\ UNCHANGED analyses
     ELSE /\ details' = NoSnapshot /\ panel' = "loading"
          /\ analyses' = analyses \cup {[token |-> analysisRequestToken + 1, of |-> s]}
          /\ resetLiveProductState \* by the grid's handler, before the load
          /\ buttonWired' = FALSE /\ UNCHANGED lives

----------------------------------------------------------------------------
(* The grid of snapshots.  The row to ask for is read when the request is  *)
(* sent, not when it is queued.                                            *)

(* Faulty variant: a busy grid forgets the read. *)
BugReload(node) ==
  IF gridRead = Idle
  THEN /\ gridRead' = node /\ gridMasked' = TRUE /\ overridden' = FALSE
       /\ UNCHANGED <<gridRows, gridQueued, gridFailed>>
  ELSE UNCHANGED gridVars

reloadGrid(node) ==
  IF gridRead = Idle
  THEN /\ gridRead' = node /\ gridMasked' = TRUE /\ overridden' = FALSE
       /\ UNCHANGED <<gridRows, gridQueued, gridFailed>>
  ELSE gridQueued' = TRUE /\ UNCHANGED <<gridRows, gridRead, gridMasked, gridFailed, overridden>>

(* The rows arrive, or the request fails and the grid keeps its old rows;   *)
(* then the waiting read is sent.  A failure takes the mask away after that.*)
GridAnswer ==
  /\ gridRead # Idle
  /\ \/ gridRows' = gridRead /\ gridFailed' = FALSE /\ gridMasked' = gridQueued
     \/ gridFailed' = TRUE /\ gridMasked' = FALSE /\ UNCHANGED gridRows
  /\ gridRead' = IF gridQueued THEN selectedTreeNode ELSE Idle
  /\ overridden' = (overridden /\ ~gridQueued)
  /\ gridQueued' = FALSE
  /\ UNCHANGED <<selectedTreeNode, treeVars, selectedSnapshotId, cardVars, liveVars, gestures>>

(* The pager's refresh button. *)
ReloadSnapshots ==
  /\ Gesture /\ ~gridMasked
  /\ reloadGrid(selectedTreeNode)
  /\ UNCHANGED <<selectedTreeNode, treeVars, selectedSnapshotId, cardVars, liveVars>>

(* A click on a row that is not the selected one; with the control key, on *)
(* the one that is.                                                        *)
SelectSnapshot ==
  /\ Gesture /\ ~gridMasked
  /\ \E s \in Lists[gridRows] :
       selectedSnapshotId' = IF s = selectedSnapshotId THEN NoSnapshot ELSE s
  /\ loadProductAnalysis(selectedSnapshotId')
  /\ UNCHANGED <<selectedTreeNode, treeVars, gridVars>>

----------------------------------------------------------------------------
(* The tree of runs.                                                       *)

applyTreeSelection(node) ==
  /\ selectedTreeNode' = node
  /\ selectedSnapshotId' = NoSnapshot
  /\ resetAnalyticsPanels /\ UNCHANGED <<analyses, analysisRequestToken>>
  /\ reloadGrid(node)

SelectTreeRow ==
  /\ Gesture
  /\ \E n \in treeRows :
       /\ treeHighlight' = IF n = treeHighlight THEN NoNode ELSE n
       /\ applyTreeSelection(treeHighlight')
  /\ UNCHANGED <<pendingTreeSelectionId, treeRows, treeReads>>

refreshTreeList ==
  /\ Gesture
  /\ pendingTreeSelectionId' = selectedTreeNode
  /\ treeReads' = treeReads + 1
  /\ UNCHANGED <<selectedTreeNode, treeRows, treeHighlight, gridVars, selectedSnapshotId,
                 cardVars, liveVars>>

(* New rows have no highlight.  The selection kept by the refresh comes     *)
(* back, whatever was chosen since; the panels and the grid stay.          *)
restoreTreeSelection ==
  LET node == pendingTreeSelectionId IN
  /\ pendingTreeSelectionId' = NoNode
  /\ \/ /\ node = NoNode
        /\ treeHighlight' = NoNode
        /\ UNCHANGED <<selectedTreeNode, gridVars, selectedSnapshotId, cardVars, liveVars>>
     \/ /\ node \in treeRows'
        /\ treeHighlight' = node /\ selectedTreeNode' = node
        /\ overridden' = (overridden \/ node # selectedTreeNode)
        /\ UNCHANGED <<gridRows, gridRead, gridQueued, gridMasked, gridFailed,
                       selectedSnapshotId, cardVars, liveVars>>
     \/ /\ node \notin treeRows' \cup {NoNode}
        /\ treeHighlight' = NoNode
        /\ applyTreeSelection(NoNode)

TreeAnswer ==
  /\ treeReads > 0 /\ treeReads' = treeReads - 1
  /\ \E listed \in SUBSET Nodes : treeRows' = listed
  /\ restoreTreeSelection
  /\ UNCHANGED gestures

TreeFailure ==
  /\ treeReads > 0 /\ treeReads' = treeReads - 1
  /\ UNCHANGED <<selectedTreeNode, pendingTreeSelectionId, treeRows, treeHighlight, gridVars,
                 selectedSnapshotId, cardVars, liveVars, gestures>>

----------------------------------------------------------------------------
(* The answers for the card.                                               *)

(* Faulty variant: any answer will do. *)
BugOutdated(r) == FALSE

Outdated(r) == r.token # analysisRequestToken

(* Faulty variant: a failure is only logged. *)
BugAnalysisAnswer(t) ==
  \E r \in analyses :
    /\ r.token = t /\ analyses' = analyses \ {r}
    /\ \/ UNCHANGED <<details, panel, buttonWired>>
       \/ ~Outdated(r) /\ details' = r.of /\ panel' = "card" /\ buttonWired' = TRUE
    /\ UNCHANGED <<selectedTreeNode, treeVars, gridVars, selectedSnapshotId, analysisRequestToken,
                   liveState, liveResult, lives, liveRequestToken, gestures>>

(* The card of the snapshot; or none, because the server knows none or the *)
(* request failed.  A late answer is dropped.                              *)
AnalysisAnswer(t) ==
  \E r \in analyses :
    /\ r.token = t /\ analyses' = analyses \ {r}
    /\ \/ Outdated(r) /\ UNCHANGED <<details, panel, buttonWired>>
       \/ ~Outdated(r) /\ details' = r.of /\ panel' = "card" /\ buttonWired' = TRUE
       \/ ~Outdated(r) /\ details' = NoSnapshot /\ panel' = "error" /\ UNCHANGED buttonWired
    /\ UNCHANGED <<selectedTreeNode, treeVars, gridVars, selectedSnapshotId, analysisRequestToken,
                   liveState, liveResult, lives, liveRequestToken, gestures>>

(* The button of a card answers one click; the card drawn by the handler    *)
(* has a new one, disabled while the request is in flight.                 *)
refreshLiveProduct ==
  /\ Gesture /\ panel = "card" /\ buttonWired /\ liveState # "loading"
  /\ IF selectedSnapshotId = NoSnapshot \/ details = NoSnapshot
     THEN buttonWired' = FALSE /\ UNCHANGED <<liveState, liveResult, lives, liveRequestToken>>
     ELSE /\ liveRequestToken' = liveRequestToken + 1
          /\ liveState' = "loading" /\ liveResult' = NoSnapshot
          /\ lives' = lives \cup {[token |-> liveRequestToken + 1, of |-> selectedSnapshotId]}
          /\ UNCHANGED buttonWired
  /\ UNCHANGED <<selectedTreeNode, treeVars, gridVars, selectedSnapshotId, cardVars>>

(* A failure makes a result as well, of what is selected by then. *)
LiveAnswer(t) ==
  \E r \in lives :
    /\ r.token = t /\ lives' = lives \ {r}
    /\ \/ t # liveRequestToken /\ UNCHANGED <<liveState, liveResult, buttonWired, panel>>
       \/ /\ t = liveRequestToken
          /\ \/ liveResult' = r.of /\ liveState' = "ready"
             \/ liveResult' = selectedSnapshotId /\ liveState' = "failed"
          /\ panel' = IF details = NoSnapshot THEN "error" ELSE "card"
          /\ buttonWired' = (details # NoSnapshot)
    /\ UNCHANGED <<selectedTreeNode, treeVars, gridVars, selectedSnapshotId, details, analyses,
                   analysisRequestToken, liveRequestToken, gestures>>

----------------------------------------------------------------------------
Next ==
  \/ SelectTreeRow \/ refreshTreeList \/ TreeAnswer \/ TreeFailure
  \/ GridAnswer \/ ReloadSnapshots
  \/ SelectSnapshot \/ refreshLiveProduct
  \/ \E t \in Tokens : AnalysisAnswer(t) \/ LiveAnswer(t)

Spec == Init /\ [][Next]_vars

(* Every request is answered or fails; nobody has to touch the page. *)
FairSpec ==
  /\ Spec
  /\ \A t \in Tokens : WF_vars(AnalysisAnswer(t)) /\ WF_vars(LiveAnswer(t))

----------------------------------------------------------------------------
(* Types. *)
DashboardTypeOK ==
  /\ selectedTreeNode \in Nodes \cup {NoNode}
  /\ pendingTreeSelectionId \in Nodes \cup {NoNode}
  /\ treeRows \subseteq Nodes /\ treeHighlight \in Nodes \cup {NoNode} /\ treeReads \in Nat
  /\ gridRows \in Nodes \cup {NoNode} /\ gridRead \in Nodes \cup {NoNode, Idle}
  /\ {gridQueued, gridMasked, gridFailed, overridden, buttonWired} \subseteq BOOLEAN
  /\ {selectedSnapshotId, details, liveResult} \subseteq Snapshots \cup {NoSnapshot}
  /\ panel \in {"empty", "loading", "card", "error"}
  /\ liveState \in {"idle", "loading", "ready", "failed"}
  /\ analyses \subseteq Request /\ lives \subseteq Request
  /\ analysisRequestToken \in Nat /\ liveRequestToken \in Nat
  /\ gestures \in Nat

(* No request is newer than the last, and each has a token of its own. *)
TokensAreTaken ==
  /\ \A r \in analyses : r.token <= analysisRequestToken
  /\ \A r \in lives : r.token <= liveRequestToken
  /\ \A r, q \in analyses : r.token = q.token => r = q
  /\ \A r, q \in lives : r.token = q.token => r = q

(* The analysis still awaited is of the selected snapshot, and there is no  *)
(* card while it is awaited.                                               *)
AwaitedAnalysis ==
  \A r \in analyses : ~Outdated(r) =>
    /\ details = NoSnapshot
    /\ selectedSnapshotId \in {r.of, NoSnapshot}

(* The live answer still awaited is of the selected snapshot and its card.  *)
AwaitedLive ==
  \A r \in lives : r.token = liveRequestToken =>
    r.of = selectedSnapshotId /\ r.of = details /\ liveState = "loading"

(* A live check is about a card on the page. *)
LiveIsOfACard ==
  /\ liveState # "idle" => selectedSnapshotId # NoSnapshot /\ details = selectedSnapshotId
  /\ liveResult # NoSnapshot => liveState \in {"ready", "failed"} /\ liveResult = selectedSnapshotId

(* While a snapshot is selected, a card on the page is of that snapshot: an *)
(* answer that comes after another selection is dropped (1255-1258).        *)
CardIsOfTheSelection ==
  /\ panel = "card" <=> details # NoSnapshot
  /\ selectedSnapshotId # NoSnapshot /\ details # NoSnapshot => details = selectedSnapshotId

(* A request under way that none waits behind asks for the selected row.    *)
GridAsksForTheTree ==
  gridRead # Idle /\ ~gridQueued /\ ~overridden => gridRead = selectedTreeNode

(* What every step of the page keeps: the card, the awaited answers and the *)
(* live check agree with the selection (lines 985-1058, 1148-1304).      *)
DashboardIInv ==
  /\ DashboardTypeOK
  /\ TokensAreTaken /\ AwaitedAnalysis /\ AwaitedLive /\ LiveIsOfACard
  /\ CardIsOfTheSelection /\ GridAsksForTheTree

(* A live result is compared with the card of the snapshot it was asked for, *)
(* and that is the selected one (refreshLiveProduct, 1008-1041).             *)
LiveResultIsCompared ==
  liveResult # NoSnapshot =>
    /\ liveResult = details /\ details = selectedSnapshotId
    /\ panel = "card" /\ liveState \in {"ready", "failed"}

(* When the grid is at rest and its last read was answered, it shows the     *)
(* snapshots of the selected tree row, whatever was clicked meanwhile        *)
(* (reloadGrid, 274-281); except after a restored selection took the place  *)
(* of a newer one without asking for its rows (restoreTreeSelection, 1196). *)
GridFollowsTheTree ==
  gridRead = Idle /\ ~gridFailed /\ ~overridden => gridRows = selectedTreeNode

(* Nothing on the page stays "loading": a selected snapshot gets its card or *)
(* an error, or is left (loadProductAnalysis, 1222-1304), and a live check   *)
(* gets its result (refreshLiveProduct, 985-1042).                          *)
LoadingEnds ==
  /\ \A s \in Snapshots :
       selectedSnapshotId = s ~> selectedSnapshotId # s \/ panel \in {"card", "error"}
  /\ liveState = "loading" ~> liveState # "loading"
=============================================================================
