-------------------------- MODULE DashboardProofs --------------------------
(***************************************************************************)
(* Proofs about Dashboard for any tree rows, snapshots and gestures: the   *)
(* card and its live comparison agree with the selection, and the grid     *)
(* with the tree.  With DashboardIInv, GridFollowsTheTree is inductive.    *)
(***************************************************************************)
EXTENDS Dashboard, TLAPS

CardPart == TokensAreTaken /\ AwaitedAnalysis /\ AwaitedLive /\ LiveIsOfACard /\ CardIsOfTheSelection
GridPart == GridAsksForTheTree /\ GridFollowsTheTree
Inv      == DashboardTypeOK /\ CardPart /\ GridPart

LEMMA InvParts == Inv <=> DashboardIInv /\ GridFollowsTheTree
BY DEF Inv, CardPart, GridPart, DashboardIInv

-----------------------------------------------------------------------------
(* The panels.                                                              *)

CardTypes ==
  /\ details \in Snapshots \cup {NoSnapshot} /\ liveResult \in Snapshots \cup {NoSnapshot}
  /\ selectedSnapshotId \in Snapshots \cup {NoSnapshot}
  /\ panel \in {"empty", "loading", "card", "error"} /\ liveState \in {"idle", "loading", "ready", "failed"}
  /\ analyses \subseteq Request /\ lives \subseteq Request /\ buttonWired \in BOOLEAN
  /\ analysisRequestToken \in Nat /\ liveRequestToken \in Nat

LEMMA TypesOfTheCard == DashboardTypeOK => CardTypes
BY DEF DashboardTypeOK, CardTypes

LEMMA CardLeftAlone ==
  ASSUME CardTypes, CardPart, UNCHANGED <<selectedSnapshotId, cardVars, liveVars>>
  PROVE  CardTypes' /\ CardPart'
BY DEF CardTypes, CardPart, TokensAreTaken, AwaitedAnalysis, AwaitedLive, LiveIsOfACard, CardIsOfTheSelection,
       Outdated, cardVars, liveVars

LEMMA PanelsAreReset ==
  ASSUME CardTypes, CardPart, resetAnalyticsPanels, selectedSnapshotId' = NoSnapshot,
         UNCHANGED <<analyses, analysisRequestToken>>
  PROVE  CardTypes' /\ CardPart'
<1> USE DEF resetAnalyticsPanels, resetLiveProductState
<1>1. CardTypes'
  <2>1. liveRequestToken' \in Nat /\ analysisRequestToken' \in Nat
    BY DEF CardTypes
  <2>2. lives' \subseteq Request /\ analyses' \subseteq Request
    BY DEF CardTypes
  <2>3. liveState' \in {"idle", "loading", "ready", "failed"} /\ panel' \in {"empty", "loading", "card", "error"}
    OBVIOUS
  <2> QED
    BY <2>1, <2>2, <2>3 DEF CardTypes
<1>2. TokensAreTaken'
  BY DEF CardPart, CardTypes, TokensAreTaken, Request
<1>3. AwaitedAnalysis'
  BY DEF AwaitedAnalysis
<1>4. AwaitedLive'
  BY DEF CardPart, CardTypes, TokensAreTaken, AwaitedLive, Request
<1>5. LiveIsOfACard' /\ CardIsOfTheSelection'
  BY DEF LiveIsOfACard, CardIsOfTheSelection
<1> QED
  BY <1>1, <1>2, <1>3, <1>4, <1>5 DEF CardPart

LEMMA LoadBegins ==
  ASSUME CardTypes, CardPart, NEW s \in Snapshots \cup {NoSnapshot}, selectedSnapshotId' = s, loadProductAnalysis(s)
  PROVE  CardTypes' /\ CardPart'
<1>1. /\ details' = NoSnapshot /\ panel' # "card" /\ panel' \in {"empty", "loading"}
      /\ liveRequestToken' = liveRequestToken + 1 /\ liveResult' = NoSnapshot /\ liveState' = "idle"
      /\ buttonWired' = FALSE /\ lives' = lives /\ analysisRequestToken' = analysisRequestToken + 1
  BY DEF loadProductAnalysis, resetAnalyticsPanels, resetLiveProductState
<1>2. /\ analyses \subseteq analyses'
      /\ \A r \in analyses' : r \in analyses \/ (r = [token |-> analysisRequestToken + 1, of |-> s] /\ s \in Snapshots)
  BY DEF loadProductAnalysis
<1>3. analyses' \subseteq Request
  BY <1>2 DEF CardTypes, Request
<1>4. CardTypes'
  <2>1. liveRequestToken' \in Nat /\ analysisRequestToken' \in Nat
    BY <1>1 DEF CardTypes
  <2>2. lives' \subseteq Request
    BY <1>1 DEF CardTypes
  <2> QED
    BY <1>1, <1>3, <2>1, <2>2 DEF CardTypes
<1>5. \A r \in analyses : r.token \in Nat /\ r.token <= analysisRequestToken
  BY DEF CardPart, CardTypes, TokensAreTaken, Request
<1>6. \A r \in lives : r.token \in Nat /\ r.token <= liveRequestToken
  BY DEF CardPart, CardTypes, TokensAreTaken, Request
<1>7. TokensAreTaken'
  <2>1. \A r \in analyses' : r.token <= analysisRequestToken'
    BY <1>1, <1>2, <1>5 DEF CardTypes
  <2>2. \A r, q \in analyses' : r.token = q.token => r = q
    BY <1>1, <1>2, <1>5 DEF CardPart, CardTypes, TokensAreTaken
  <2>3. \A r \in lives' : r.token <= liveRequestToken'
    BY <1>1, <1>6 DEF CardTypes
  <2>4. \A r, q \in lives' : r.token = q.token => r = q
    BY <1>1 DEF CardPart, TokensAreTaken
  <2> QED
    BY <2>1, <2>2, <2>3, <2>4 DEF TokensAreTaken
<1>8. AwaitedAnalysis'
  BY <1>1, <1>2, <1>5 DEF AwaitedAnalysis, Outdated, CardTypes
<1>9. AwaitedLive'
  BY <1>1, <1>6 DEF AwaitedLive, CardTypes
<1>10. LiveIsOfACard' /\ CardIsOfTheSelection'
  BY <1>1 DEF LiveIsOfACard, CardIsOfTheSelection
<1> QED
  BY <1>4, <1>7, <1>8, <1>9, <1>10 DEF CardPart

LEMMA AnalysisArrives ==
  ASSUME DashboardAssumption, CardTypes, CardPart, NEW t, AnalysisAnswer(t)
  PROVE  CardTypes' /\ CardPart'
<1> USE DEF DashboardAssumption
<1>1. PICK r \in analyses :
        /\ analyses' = analyses \ {r}
        /\ \/ Outdated(r) /\ UNCHANGED <<details, panel, buttonWired>>
           \/ ~Outdated(r) /\ details' = r.of /\ panel' = "card" /\ buttonWired' = TRUE
           \/ ~Outdated(r) /\ details' = NoSnapshot /\ panel' = "error" /\ UNCHANGED buttonWired
  BY DEF AnalysisAnswer
<1>2. UNCHANGED <<selectedSnapshotId, analysisRequestToken, liveState, liveResult, lives, liveRequestToken>>
  BY DEF AnalysisAnswer
<1>3. r.of \in Snapshots /\ r.of # NoSnapshot /\ analyses' \subseteq analyses
  BY <1>1 DEF CardTypes, Request
<1>4. CardTypes'
  BY <1>1, <1>2, <1>3 DEF CardTypes
<1>5. TokensAreTaken'
  BY <1>2, <1>3 DEF CardPart, TokensAreTaken
<1>6. CASE Outdated(r)
  BY <1>1, <1>2, <1>3, <1>4, <1>5, <1>6
     DEF CardPart, AwaitedAnalysis, AwaitedLive, LiveIsOfACard, CardIsOfTheSelection, Outdated
<1>7. CASE ~Outdated(r)
  <2>1. /\ details = NoSnapshot /\ selectedSnapshotId \in {r.of, NoSnapshot} /\ liveState = "idle"
        /\ liveResult = NoSnapshot
    BY <1>1, <1>7 DEF CardPart, AwaitedAnalysis, LiveIsOfACard
  <2>2. \A q \in analyses' : q.token # analysisRequestToken
    BY <1>1, <1>7 DEF CardPart, TokensAreTaken, Outdated
  <2>3. AwaitedAnalysis'
    BY <1>2, <2>2 DEF AwaitedAnalysis, Outdated
  <2>4. AwaitedLive'
    BY <1>2, <2>1 DEF CardPart, AwaitedLive
  <2>5. LiveIsOfACard' /\ CardIsOfTheSelection'
    BY <1>1, <1>2, <1>3, <1>7, <2>1 DEF LiveIsOfACard, CardIsOfTheSelection
  <2> QED
    BY <1>4, <1>5, <2>3, <2>4, <2>5 DEF CardPart
<1> QED
  BY <1>6, <1>7

LEMMA LiveIsAsked ==
  ASSUME DashboardAssumption, CardTypes, CardPart, refreshLiveProduct
  PROVE  CardTypes' /\ CardPart'
<1> USE DEF DashboardAssumption, refreshLiveProduct
<1>1. UNCHANGED <<selectedSnapshotId, details, panel, analyses, analysisRequestToken>>
  BY DEF cardVars
<1>2. CASE selectedSnapshotId = NoSnapshot \/ details = NoSnapshot
  BY <1>1, <1>2 DEF CardTypes, CardPart, TokensAreTaken, AwaitedAnalysis, AwaitedLive, LiveIsOfACard,
                    CardIsOfTheSelection, Outdated
<1>3. CASE ~(selectedSnapshotId = NoSnapshot \/ details = NoSnapshot)
  <2>1. /\ liveRequestToken' = liveRequestToken + 1 /\ liveState' = "loading" /\ liveResult' = NoSnapshot
        /\ lives' = lives \cup {[token |-> liveRequestToken + 1, of |-> selectedSnapshotId]}
        /\ UNCHANGED buttonWired
    BY <1>3
  <2>2. details = selectedSnapshotId /\ selectedSnapshotId \in Snapshots
    BY <1>3 DEF CardPart, CardIsOfTheSelection, CardTypes
  <2>3. CardTypes'
    BY <1>1, <2>1, <2>2 DEF CardTypes, Request
  <2>4. \A r \in lives : r.token \in Nat /\ r.token <= liveRequestToken
    BY DEF CardPart, CardTypes, TokensAreTaken, Request
  <2>5. TokensAreTaken'
    <3>1. \A r \in lives' : r.token <= liveRequestToken'
      BY <2>1, <2>4 DEF CardTypes
    <3>2. \A r, q \in lives' : r.token = q.token => r = q
      BY <2>1, <2>4 DEF CardPart, CardTypes, TokensAreTaken
    <3> QED
      BY <1>1, <3>1, <3>2 DEF CardPart, TokensAreTaken
  <2>6. AwaitedAnalysis'
    BY <1>1 DEF CardPart, AwaitedAnalysis, Outdated
  <2>7. AwaitedLive'
    BY <1>1, <2>1, <2>2, <2>4 DEF AwaitedLive, CardTypes
  <2>8. LiveIsOfACard' /\ CardIsOfTheSelection'
    BY <1>1, <1>3, <2>1, <2>2 DEF CardPart, LiveIsOfACard, CardIsOfTheSelection
  <2> QED
    BY <2>3, <2>5, <2>6, <2>7, <2>8 DEF CardPart
<1> QED
  BY <1>2, <1>3

LEMMA LiveArrives ==
  ASSUME DashboardAssumption, CardTypes, CardPart, NEW t, LiveAnswer(t)
  PROVE  CardTypes' /\ CardPart'
<1> USE DEF DashboardAssumption
<1>1. PICK r \in lives :
        /\ r.token = t /\ lives' = lives \ {r}
        /\ \/ t # liveRequestToken /\ UNCHANGED <<liveState, liveResult, buttonWired, panel>>
           \/ /\ t = liveRequestToken
              /\ \/ liveResult' = r.of /\ liveState' = "ready"
                 \/ liveResult' = selectedSnapshotId /\ liveState' = "failed"
              /\ panel' = IF details = NoSnapshot THEN "error" ELSE "card"
              /\ buttonWired' = (details # NoSnapshot)
  BY DEF LiveAnswer
<1>2. UNCHANGED <<selectedSnapshotId, details, analyses, analysisRequestToken, liveRequestToken>>
  BY DEF LiveAnswer
<1>3. r.of \in Snapshots /\ r.of # NoSnapshot /\ lives' \subseteq lives
  BY <1>1 DEF CardTypes, Request
<1>4. TokensAreTaken' /\ AwaitedAnalysis'
  BY <1>2, <1>3 DEF CardPart, TokensAreTaken, AwaitedAnalysis, Outdated
<1>5. CASE t # liveRequestToken
  <2>1. UNCHANGED <<liveState, liveResult, buttonWired, panel>>
    BY <1>1, <1>5
  <2>2. CardTypes'
    BY <1>2, <1>3, <2>1 DEF CardTypes
  <2>3. AwaitedLive' /\ LiveIsOfACard' /\ CardIsOfTheSelection'
    BY <1>2, <1>3, <2>1 DEF CardPart, AwaitedLive, LiveIsOfACard, CardIsOfTheSelection
  <2> QED
    BY <1>4, <2>2, <2>3 DEF CardPart
<1>6. CASE t = liveRequestToken
  <2>1. r.of = selectedSnapshotId /\ r.of = details
    BY <1>1, <1>6 DEF CardPart, AwaitedLive
  <2>2. liveResult' = r.of /\ liveState' \in {"ready", "failed"} /\ panel' = "card" /\ buttonWired' = TRUE
    BY <1>1, <1>3, <1>6, <2>1
  <2>3. CardTypes'
    BY <1>2, <1>3, <2>2 DEF CardTypes
  <2>4. \A q \in lives' : q.token # liveRequestToken
    BY <1>1, <1>6 DEF CardPart, TokensAreTaken
  <2>5. AwaitedLive' /\ LiveIsOfACard' /\ CardIsOfTheSelection'
    BY <1>2, <1>3, <2>1, <2>2, <2>4 DEF AwaitedLive, LiveIsOfACard, CardIsOfTheSelection
  <2> QED
    BY <1>4, <2>3, <2>5 DEF CardPart
<1> QED
  BY <1>5, <1>6

-----------------------------------------------------------------------------
(* The grid and the tree.                                                   *)

PageTypes ==
  /\ selectedTreeNode \in Nodes \cup {NoNode} /\ pendingTreeSelectionId \in Nodes \cup {NoNode}
  /\ treeRows \subseteq Nodes /\ treeHighlight \in Nodes \cup {NoNode} /\ treeReads \in Nat
  /\ gridRows \in Nodes \cup {NoNode} /\ gridRead \in Nodes \cup {NoNode, Idle}
  /\ gridQueued \in BOOLEAN /\ gridMasked \in BOOLEAN /\ gridFailed \in BOOLEAN /\ overridden \in BOOLEAN
  /\ gestures \in Nat

LEMMA Types == DashboardTypeOK <=> CardTypes /\ PageTypes
BY DEF DashboardTypeOK, CardTypes, PageTypes

LEMMA GridLeftAlone ==
  ASSUME GridPart, UNCHANGED <<selectedTreeNode, gridVars>>
  PROVE  GridPart'
BY DEF GridPart, GridAsksForTheTree, GridFollowsTheTree, gridVars

LEMMA GridReloads ==
  ASSUME DashboardAssumption, PageTypes, GridPart, NEW node \in Nodes \cup {NoNode}, reloadGrid(node), selectedTreeNode' = node
  PROVE  /\ GridPart'
         /\ gridRows' = gridRows /\ gridRead' \in Nodes \cup {NoNode, Idle}
         /\ gridQueued' \in BOOLEAN /\ gridMasked' \in BOOLEAN /\ gridFailed' \in BOOLEAN /\ overridden' \in BOOLEAN
<1> USE DEF DashboardAssumption, PageTypes, reloadGrid
<1>1. CASE gridRead = Idle
  BY <1>1 DEF GridPart, GridAsksForTheTree, GridFollowsTheTree
<1>2. CASE gridRead # Idle
  BY <1>2 DEF GridPart, GridAsksForTheTree, GridFollowsTheTree
<1> QED
  BY <1>1, <1>2

LEMMA GridIsAnswered ==
  ASSUME DashboardAssumption, PageTypes, GridPart, GridAnswer
  PROVE  PageTypes' /\ GridPart'
<1> USE DEF DashboardAssumption, PageTypes
<1>1. /\ gridRead # Idle /\ gridQueued' = FALSE /\ UNCHANGED <<selectedTreeNode, treeVars, gestures>>
      /\ gridRead' = IF gridQueued THEN selectedTreeNode ELSE Idle
      /\ overridden' = (overridden /\ ~gridQueued)
  BY DEF GridAnswer
<1>2. \/ gridRows' = gridRead /\ gridFailed' = FALSE /\ gridMasked' = gridQueued
      \/ gridFailed' = TRUE /\ gridMasked' = FALSE /\ UNCHANGED gridRows
  BY DEF GridAnswer
<1>3. PageTypes'
  BY <1>1, <1>2 DEF treeVars
<1>4. GridAsksForTheTree'
  BY <1>1 DEF GridAsksForTheTree
<1>5. GridFollowsTheTree'
  BY <1>1, <1>2 DEF GridPart, GridAsksForTheTree, GridFollowsTheTree
<1> QED
  BY <1>3, <1>4, <1>5 DEF GridPart

LEMMA TreeRowIsApplied ==
  ASSUME DashboardAssumption, Inv, NEW node \in Nodes \cup {NoNode}, applyTreeSelection(node),
         pendingTreeSelectionId' \in Nodes \cup {NoNode}, treeRows' \subseteq Nodes,
         treeHighlight' \in Nodes \cup {NoNode}, treeReads' \in Nat, gestures' \in Nat
  PROVE  Inv'
<1>1. CardTypes' /\ CardPart'
  BY TypesOfTheCard, PanelsAreReset DEF Inv, applyTreeSelection
<1>2. PageTypes
  BY Types DEF Inv
<1>3. /\ GridPart' /\ gridRows' = gridRows /\ gridRead' \in Nodes \cup {NoNode, Idle}
      /\ gridQueued' \in BOOLEAN /\ gridMasked' \in BOOLEAN /\ gridFailed' \in BOOLEAN /\ overridden' \in BOOLEAN
  BY <1>2, GridReloads DEF Inv, applyTreeSelection
<1>4. PageTypes'
  BY <1>2, <1>3 DEF PageTypes, applyTreeSelection
<1>5. DashboardTypeOK'
  BY <1>1, <1>4 DEF DashboardTypeOK, CardTypes, PageTypes
<1> QED
  BY <1>1, <1>3, <1>5 DEF Inv

LEMMA TreeIsAnswered ==
  ASSUME DashboardAssumption, Inv, TreeAnswer
  PROVE  Inv'
<1> USE DEF DashboardAssumption
<1> DEFINE node == pendingTreeSelectionId
<1>1. PageTypes /\ CardTypes
  BY Types DEF Inv
<1>2. treeReads' \in Nat /\ treeRows' \subseteq Nodes /\ gestures' = gestures /\ pendingTreeSelectionId' = NoNode
  BY <1>1 DEF TreeAnswer, restoreTreeSelection, PageTypes
<1>3. CASE /\ node = NoNode /\ treeHighlight' = NoNode
           /\ UNCHANGED <<selectedTreeNode, gridVars, selectedSnapshotId, cardVars, liveVars>>
  <2>1. CardTypes' /\ CardPart' /\ GridPart'
    BY <1>1, <1>3, CardLeftAlone, GridLeftAlone DEF Inv
  <2>2. PageTypes'
    BY <1>1, <1>2, <1>3 DEF PageTypes, gridVars
  <2> QED
    BY <2>1, <2>2 DEF Inv, DashboardTypeOK, CardTypes, PageTypes
<1>4. CASE /\ node \in treeRows' /\ treeHighlight' = node /\ selectedTreeNode' = node
           /\ overridden' = (overridden \/ node # selectedTreeNode)
           /\ UNCHANGED <<gridRows, gridRead, gridQueued, gridMasked, gridFailed,
                          selectedSnapshotId, cardVars, liveVars>>
  <2>1. CardTypes' /\ CardPart'
    BY <1>1, <1>4, CardLeftAlone DEF Inv
  <2>2. PageTypes'
    BY <1>1, <1>2, <1>4 DEF PageTypes
  <2>3. ~overridden' => ~overridden /\ node = selectedTreeNode
    BY <1>4
  <2>4. GridPart'
    BY <1>4, <2>3 DEF Inv, GridPart, GridAsksForTheTree, GridFollowsTheTree
  <2> QED
    BY <2>1, <2>2, <2>4 DEF Inv, DashboardTypeOK, CardTypes, PageTypes
<1>5. CASE treeHighlight' = NoNode /\ applyTreeSelection(NoNode)
  BY <1>1, <1>2, <1>5, TreeRowIsApplied DEF PageTypes
<1> QED
  BY <1>3, <1>4, <1>5 DEF TreeAnswer, restoreTreeSelection

-----------------------------------------------------------------------------
(* The theorems.                                                            *)

LEMMA InitialPage == ASSUME DashboardAssumption, Init PROVE Inv
<1> USE DEF DashboardAssumption, Init
<1>1. DashboardTypeOK
  BY DEF DashboardTypeOK
<1>2. CardPart
  BY DEF CardPart, TokensAreTaken, AwaitedAnalysis, AwaitedLive, LiveIsOfACard, CardIsOfTheSelection
<1>3. GridPart
  BY DEF GridPart, GridAsksForTheTree, GridFollowsTheTree
<1> QED
  BY <1>1, <1>2, <1>3 DEF Inv

LEMMA PageSteps ==
  ASSUME DashboardAssumption, Inv, Next
  PROVE  Inv'
<1>1. CardTypes /\ PageTypes /\ CardPart /\ GridPart
  BY Types DEF Inv
<1>2. ASSUME CardTypes', PageTypes', CardPart', GridPart' PROVE Inv'
  BY <1>2 DEF Inv, DashboardTypeOK, CardTypes, PageTypes
<1>3. CASE SelectTreeRow
  <2>1. PICK n \in treeRows : /\ treeHighlight' = IF n = treeHighlight THEN NoNode ELSE n
                              /\ applyTreeSelection(treeHighlight')
    BY <1>3 DEF SelectTreeRow
  <2>2. treeHighlight' \in Nodes \cup {NoNode}
    BY <1>1, <2>1 DEF PageTypes
  <2>3. gestures' \in Nat /\ UNCHANGED <<pendingTreeSelectionId, treeRows, treeReads>>
    BY <1>1, <1>3 DEF SelectTreeRow, Gesture, PageTypes
  <2> QED
    BY <1>1, <2>1, <2>2, <2>3, TreeRowIsApplied DEF PageTypes
<1>4. CASE refreshTreeList
  <2>1. CardTypes' /\ CardPart' /\ GridPart'
    BY <1>1, <1>4, CardLeftAlone, GridLeftAlone DEF refreshTreeList
  <2>2. PageTypes'
    BY <1>1, <1>4 DEF refreshTreeList, PageTypes, gridVars, Gesture
  <2> QED
    BY <1>2, <2>1, <2>2
<1>5. CASE TreeAnswer
  BY <1>5, TreeIsAnswered
<1>6. CASE TreeFailure
  <2>1. CardTypes' /\ CardPart' /\ GridPart'
    BY <1>1, <1>6, CardLeftAlone, GridLeftAlone DEF TreeFailure
  <2>2. PageTypes'
    BY <1>1, <1>6 DEF TreeFailure, PageTypes, gridVars
  <2> QED
    BY <1>2, <2>1, <2>2
<1>7. CASE GridAnswer
  <2>1. CardTypes' /\ CardPart'
    BY <1>1, <1>7, CardLeftAlone DEF GridAnswer
  <2>2. PageTypes' /\ GridPart'
    BY <1>1, <1>7, GridIsAnswered
  <2> QED
    BY <1>2, <2>1, <2>2
<1>8. CASE ReloadSnapshots
  <2>1. CardTypes' /\ CardPart'
    BY <1>1, <1>8, CardLeftAlone DEF ReloadSnapshots
  <2>2. selectedTreeNode' = selectedTreeNode /\ reloadGrid(selectedTreeNode) /\ UNCHANGED treeVars /\ gestures' \in Nat
    BY <1>1, <1>8 DEF ReloadSnapshots, Gesture, PageTypes
  <2>3. /\ GridPart' /\ gridRows' = gridRows /\ gridRead' \in Nodes \cup {NoNode, Idle}
        /\ gridQueued' \in BOOLEAN /\ gridMasked' \in BOOLEAN /\ gridFailed' \in BOOLEAN /\ overridden' \in BOOLEAN
    BY <1>1, <2>2, GridReloads DEF PageTypes
  <2>4. PageTypes'
    BY <1>1, <2>2, <2>3 DEF PageTypes, treeVars
  <2> QED
    BY <1>2, <2>1, <2>3, <2>4
<1>9. CASE SelectSnapshot
  <2>1. PICK s \in Snapshots \cup {NoSnapshot} : selectedSnapshotId' = s
    BY <1>1, <1>9 DEF SelectSnapshot, PageTypes, DashboardAssumption
  <2>2. loadProductAnalysis(s) /\ UNCHANGED <<selectedTreeNode, treeVars, gridVars>> /\ gestures' \in Nat
    BY <1>1, <1>9, <2>1 DEF SelectSnapshot, Gesture, PageTypes
  <2>3. CardTypes' /\ CardPart' /\ GridPart'
    BY <1>1, <2>1, <2>2, LoadBegins, GridLeftAlone
  <2>4. PageTypes'
    BY <1>1, <2>2 DEF PageTypes, treeVars, gridVars
  <2> QED
    BY <1>2, <2>3, <2>4
<1>10. CASE refreshLiveProduct
  <2>1. CardTypes' /\ CardPart'
    BY <1>1, <1>10, DashboardAssumption, LiveIsAsked
  <2>2. UNCHANGED <<selectedTreeNode, treeVars, gridVars>> /\ gestures' \in Nat
    BY <1>1, <1>10 DEF refreshLiveProduct, Gesture, PageTypes
  <2>3. PageTypes' /\ GridPart'
    BY <1>1, <2>2, GridLeftAlone DEF PageTypes, treeVars, gridVars
  <2> QED
    BY <1>2, <2>1, <2>3
<1>11. ASSUME NEW t \in Tokens, AnalysisAnswer(t) \/ LiveAnswer(t) PROVE Inv'
  <2>1. CardTypes' /\ CardPart'
    BY <1>1, <1>11, DashboardAssumption, AnalysisArrives, LiveArrives
  <2>2. UNCHANGED <<selectedTreeNode, treeVars, gridVars, gestures>>
    BY <1>11 DEF AnalysisAnswer, LiveAnswer
  <2>3. PageTypes' /\ GridPart'
    BY <1>1, <2>2, GridLeftAlone DEF PageTypes, treeVars, gridVars
  <2> QED
    BY <1>2, <2>1, <2>3
<1> QED
  BY <1>3, <1>4, <1>5, <1>6, <1>7, <1>8, <1>9, <1>10, <1>11 DEF Next

LEMMA InvHolds == Spec => []Inv
<1>1. Init => Inv
  BY DashboardAssumption, InitialPage
<1>2. Inv /\ UNCHANGED vars => Inv'
  <2> SUFFICES ASSUME Inv, UNCHANGED vars PROVE Inv'
    OBVIOUS
  <2>1. CardTypes' /\ CardPart' /\ GridPart'
    BY Types, CardLeftAlone, GridLeftAlone DEF Inv, vars
  <2>2. PageTypes'
    BY Types DEF Inv, vars, PageTypes, treeVars, gridVars
  <2> QED
    BY <2>1, <2>2 DEF Inv, DashboardTypeOK, CardTypes, PageTypes
<1>3. Inv /\ [Next]_vars => Inv'
  BY <1>2, DashboardAssumption, PageSteps
<1> QED
  BY <1>1, <1>3, PTL DEF Spec

(* runs-dashboard.js 985-1058, 1148-1304: the card, the answers still        *)
(* awaited and the live check agree with the selection.                      *)
THEOREM DashboardInductive == Spec => []DashboardIInv
<1>1. Inv => DashboardIInv
  BY InvParts
<1> QED
  BY <1>1, InvHolds, PTL

(* runs-dashboard.js 1008-1041: a live result is compared with the card of   *)
(* the snapshot it was asked for.                                            *)
THEOREM ComparisonIsRight == Spec => []LiveResultIsCompared
<1>1. Inv => LiveResultIsCompared
  BY DashboardAssumption DEF Inv, CardPart, LiveIsOfACard, CardIsOfTheSelection, LiveResultIsCompared
<1> QED
  BY <1>1, InvHolds, PTL

(* runs-dashboard.js 274-281, 1196: a grid at rest shows the snapshots of    *)
(* the selected tree row, unless a restored selection has replaced a newer.  *)
THEOREM GridIsRight == Spec => []GridFollowsTheTree
<1>1. Inv => GridFollowsTheTree
  BY InvParts
<1> QED
  BY <1>1, InvHolds, PTL

=============================================================================
