----------------------------- MODULE Categories -----------------------------
(***************************************************************************)
(* The categories of a catalog refresh: the menu of the shop is read, then *)
(* the listing of each leaf category page by page                          *)
(* (CategorySeedProductUrlDiscoveryStrategy), and after the upsert the     *)
(* tree is stored and the products are linked to the categories that       *)
(* listed them (UpdateCategoriesAsync, PgCategoryRepository).  The shop    *)
(* changes its menu and its listings meanwhile, and a refresh that is      *)
(* given up as stale works on beside the next one.                         *)
(***************************************************************************)
EXTENDS Naturals, FiniteSets, Sequences, SequencesExt

CONSTANTS
  Refreshes,   \* processes that run one refresh after the other
  Products,
  CategoryIds, \* external_id of every category the shop may have
  NoCategory,  \* parent_id is null
  Trees,       \* the menus: category -> its parent
  SeedFile,    \* the categories of the seed file, in its order
  Accepted,    \* the products the URL filter lets through
  PageSize,
  MaxPages,    \* CrawlerOptions.MaxCategoryPagesPerSeed
  MaxStarts,   \* bound: refreshes started
  MaxChanges,  \* bound: changes of the shop
  MaxFaults    \* bound: pages and database calls that fail

NoTree == [c \in {} |-> NoCategory]

ASSUME CategoriesAssumption ==
  /\ IsFiniteSet(CategoryIds) /\ IsFiniteSet(Products)
  /\ NoCategory \notin CategoryIds
  /\ \A t \in Trees : /\ DOMAIN t \in (SUBSET CategoryIds) \ {{}}
                      /\ \A c \in DOMAIN t : t[c] \in DOMAIN t \cup {NoCategory}
                      /\ \E place \in [DOMAIN t -> 1..Cardinality(DOMAIN t)] :   \* parents come first
                           \A c \in DOMAIN t : t[c] # NoCategory => place[t[c]] < place[c]
  /\ SeedFile \in Seq(CategoryIds) /\ IsInjective(SeedFile)
  /\ Accepted \subseteq Products
  /\ {PageSize, MaxPages} \subseteq Nat \ {0}
  /\ {MaxStarts, MaxChanges, MaxFaults} \subseteq Nat

VARIABLES
  shop,     \* the products each category of the shop lists, in order
  phase,    \* the statement each refresh is about to run
  job,      \* its local variables, and beside them: came and gone, the pairs of a
            \* product and a category that were listed anew, or no more, since it
            \* began, and alone, no other refresh has run beside it
  catalog,  \* the products of product_catalog
  parent,   \* category.parent_id of the stored categories
  active,   \* the categories with is_active
  links,    \* product_catalog_category.last_seen_at of each <<product, category>>
  clock,    \* readings of the time so far
  starts, changes, faults

shopVars  == <<shop, changes>>
treeVars  == <<parent, active>>
categoryVars == <<shopVars, phase, job, catalog, treeVars, links, clock, starts, faults>>

Phases == {"idle", "seeds", "read", "upsert", "count", "sync", "link"}

NewJob == [tree |-> NoTree, seeds |-> <<>>, page |-> 1, listed |-> {},
           discovered |-> {}, listings |-> [c \in {} |-> {}], complete |-> {}, seenAt |-> 0,
           came |-> {}, gone |-> {}, alone |-> TRUE]

Goto(r, next) == phase' = [phase EXCEPT ![r] = next]
GiveBack(r) == Goto(r, "idle") /\ job' = [job EXCEPT ![r] = NewJob]
Fault == faults < MaxFaults /\ faults' = faults + 1

Listed(c)  == ToSet(shop[c])
Running    == {r \in Refreshes : phase[r] # "idle"}
Leaves(t)  == {c \in DOMAIN t : \A d \in DOMAIN t : t[d] # c}

CategoriesInit ==
  /\ shop \in [CategoryIds -> {s \in SeqOf(Products, Cardinality(Products)) : IsInjective(s)}]
  /\ phase = [r \in Refreshes |-> "idle"]
  /\ job = [r \in Refreshes |-> NewJob]
  /\ catalog = {} /\ parent = NoTree /\ active = {} /\ links = [l \in {} |-> 0]
  /\ clock = 0 /\ starts = 0 /\ changes = 0 /\ faults = 0

-----------------------------------------------------------------------------
(* The shop.                                                                *)

Change == changes < MaxChanges /\ changes' = changes + 1

List(p, c) ==
  /\ Change
  /\ p \notin Listed(c)
  /\ \E i \in 1..(Len(shop[c]) + 1) : shop' = [shop EXCEPT ![c] = InsertAt(@, i, p)]
  /\ job' = [r \in Refreshes |-> IF r \in Running THEN [job[r] EXCEPT !.came = @ \cup {<<p, c>>}] ELSE job[r]]
  /\ UNCHANGED <<phase, catalog, treeVars, links, clock, starts, faults>>

Unlist(p, c) ==
  /\ Change
  /\ p \in Listed(c)
  /\ \E i \in DOMAIN shop[c] : shop[c][i] = p /\ shop' = [shop EXCEPT ![c] = RemoveAt(@, i)]
  /\ job' = [r \in Refreshes |-> IF r \in Running THEN [job[r] EXCEPT !.gone = @ \cup {<<p, c>>}] ELSE job[r]]
  /\ UNCHANGED <<phase, catalog, treeVars, links, clock, starts, faults>>

-----------------------------------------------------------------------------
(* Discovery.                                                               *)

(* One refresh at a time, but for those whose session has timed out. *)
StartRefresh(r) ==
  /\ phase[r] = "idle" /\ starts < MaxStarts
  /\ starts' = starts + 1
  /\ Goto(r, "seeds")
  /\ job' = IF Running = {} THEN job
              ELSE [s \in Refreshes |-> IF s \in Running \cup {r} THEN [job[s] EXCEPT !.alone = FALSE] ELSE job[s]]
  /\ UNCHANGED <<shopVars, catalog, treeVars, links, clock, faults>>

(* The leaves of the tree the menu shows by now, or the seed file when it    *)
(* cannot be read.                                                           *)
ResolveSeeds(r) ==
  /\ phase[r] = "seeds"
  /\ \/ /\ \E t \in Trees : job' = [job EXCEPT ![r].tree = t, ![r].seeds = SetToSeq(Leaves(t))]
        /\ Goto(r, "read")
        /\ UNCHANGED faults
     \/ /\ Fault
        /\ IF SeedFile = <<>> THEN GiveBack(r)
                              ELSE job' = [job EXCEPT ![r].seeds = SeedFile] /\ Goto(r, "read")
  /\ UNCHANGED <<shopVars, catalog, treeVars, links, clock, starts>>

(* ResolveStopReason: the first that applies. *)
StopReason(found, nextPage, page) ==
  CASE found = {} -> "NoNewProductUrls"
    [] found # {} /\ ~nextPage -> "NoNextPage"
    [] found # {} /\ nextPage /\ page >= MaxPages -> "MaxCategoryPagesPerSeed"
    [] OTHER -> "none"

IsComplete(reason) == reason = "NoNextPage"

(* The category at the head of the seeds is done: on to the next one. *)
EndCategory(r, found, reason) ==
  LET j == job[r] head == Head(j.seeds) IN
  /\ job' = [job EXCEPT ![r] =
       [j EXCEPT !.seeds = Tail(@), !.page = 1, !.listed = {}, !.discovered = @ \cup found,
                 !.listings = [d \in DOMAIN @ \cup {head} |-> IF d = head THEN j.listed \cup found ELSE @[d]],
                 !.complete = IF IsComplete(reason) THEN @ \cup {head} ELSE @]]
  /\ Goto(r, IF Tail(j.seeds) = <<>> THEN "upsert" ELSE "read")

ReadPage(r) ==
  /\ phase[r] = "read"
  /\ LET j        == job[r]
         products == shop[Head(j.seeds)]
         found    == ToSet(SubSeq(products, (j.page - 1) * PageSize + 1,
                                  IF Len(products) < j.page * PageSize THEN Len(products) ELSE j.page * PageSize))
         counted  == IF j.tree = NoTree THEN found \ j.discovered ELSE found
         reason   == StopReason(counted, Len(products) > j.page * PageSize, j.page)
     IN IF reason # "none"
          THEN EndCategory(r, found, reason)
          ELSE /\ job' = [job EXCEPT ![r].page = @ + 1, ![r].listed = @ \cup found, ![r].discovered = @ \cup found]
               /\ UNCHANGED phase
  /\ UNCHANGED <<shopVars, catalog, treeVars, links, clock, starts, faults>>

PageUnavailable(r) ==
  /\ phase[r] = "read"
  /\ Fault
  /\ EndCategory(r, {}, "PageUnavailable")
  /\ UNCHANGED <<shopVars, catalog, treeVars, links, clock, starts>>

-----------------------------------------------------------------------------
(* After the discovery.                                                     *)

(* discoveredAt is taken when every page has been read.  No product URL at   *)
(* all is an error.                                                          *)
UpsertDiscovered(r) ==
  /\ phase[r] = "upsert"
  /\ LET urls == job[r].discovered \cap Accepted IN
     IF urls = {} THEN GiveBack(r) /\ UNCHANGED <<catalog, clock>>
       ELSE /\ clock' = clock + 1
            /\ job' = [job EXCEPT ![r].seenAt = clock']
            /\ catalog' = catalog \cup urls
            /\ Goto(r, IF job[r].tree = NoTree THEN "link" ELSE "count")
  /\ UNCHANGED <<shopVars, treeVars, links, starts, faults>>

(* The refresh ends before its categories are stored: a failed call, the     *)
(* safety check, a cancellation, the end of the process.                     *)
Abort(r) ==
  /\ phase[r] # "idle"
  /\ Fault
  /\ GiveBack(r)
  /\ UNCHANGED <<shopVars, catalog, treeVars, links, clock, starts>>

(* A tree of less than half the stored one is not stored. *)
GetActiveCount(r) ==
  /\ phase[r] = "count"
  /\ Goto(r, IF 2 * Cardinality(DOMAIN job[r].tree) < Cardinality(active) THEN "link" ELSE "sync")
  /\ UNCHANGED <<shopVars, job, catalog, treeVars, links, clock, starts, faults>>

(* Faulty variant: the parent is set when the category is first stored only. *)
BugParents(t) == [c \in DOMAIN parent \cup DOMAIN t |-> IF c \in DOMAIN parent THEN parent[c] ELSE t[c]]

(* Stored categories the tree does not list keep their parent. *)
Parents(t) == [c \in DOMAIN parent \cup DOMAIN t |-> IF c \in DOMAIN t THEN t[c] ELSE parent[c]]

SyncTree(r) ==
  /\ phase[r] = "sync"
  /\ parent' = Parents(job[r].tree)
  /\ active' = DOMAIN job[r].tree
  /\ Goto(r, "link")
  /\ UNCHANGED <<shopVars, job, catalog, links, clock, starts, faults>>

(* The links the listings give: to stored categories, of stored products. *)
ReadLinks(r) == {l \in catalog \X (DOMAIN job[r].listings \cap DOMAIN parent) : l[1] \in job[r].listings[l[2]]}

(* Faulty variants: links are removed from every category that was read, or  *)
(* from those that list nothing.                                             *)
BugOutdated(table, r) == {l \in DOMAIN table : l[2] \in DOMAIN job[r].listings /\ table[l] < job[r].seenAt}
BugNoneOutdated(table, r) ==
  {l \in DOMAIN table : l[2] \in job[r].complete /\ job[r].listings[l[2]] = {} /\ table[l] < job[r].seenAt}

Outdated(table, r) == {l \in DOMAIN table : l[2] \in job[r].complete /\ table[l] < job[r].seenAt}

Upserted(r) ==
  [l \in DOMAIN links \cup ReadLinks(r) |-> IF l \in ReadLinks(r) THEN job[r].seenAt ELSE links[l]]

LinkProducts(r) ==
  /\ phase[r] = "link"
  /\ links' = [l \in DOMAIN Upserted(r) \ Outdated(Upserted(r), r) |-> Upserted(r)[l]]
  /\ GiveBack(r)
  /\ UNCHANGED <<shopVars, catalog, treeVars, clock, starts, faults>>

RefreshStep(r) ==
  \/ StartRefresh(r) \/ ResolveSeeds(r) \/ ReadPage(r) \/ PageUnavailable(r) \/ UpsertDiscovered(r)
  \/ GetActiveCount(r) \/ SyncTree(r) \/ LinkProducts(r) \/ Abort(r)

ShopStep == \E p \in Products, c \in CategoryIds : List(p, c) \/ Unlist(p, c)

CategoriesNext == ShopStep \/ \E r \in Refreshes : RefreshStep(r)

CategoriesSpec == CategoriesInit /\ [][CategoriesNext]_categoryVars

-----------------------------------------------------------------------------
(* Properties.                                                              *)

Jobs ==
  [tree : Trees \cup {NoTree}, seeds : Seq(CategoryIds), page : 1..MaxPages,
   listed : SUBSET Products, discovered : SUBSET Products,
   listings : UNION {[C -> SUBSET Products] : C \in SUBSET CategoryIds},
   complete : SUBSET CategoryIds, seenAt : Nat,
   came : SUBSET (Products \X CategoryIds), gone : SUBSET (Products \X CategoryIds), alone : BOOLEAN]

CategoriesTypeOK ==
  /\ shop \in [CategoryIds -> Seq(Products)]
  /\ phase \in [Refreshes -> Phases]
  /\ job \in [Refreshes -> Jobs]
  /\ catalog \subseteq Accepted
  /\ DOMAIN parent \subseteq CategoryIds
  /\ DOMAIN links \subseteq catalog \X DOMAIN parent
  /\ \A l \in DOMAIN links : links[l] \in 1..clock
  /\ clock \in Nat /\ starts \in 0..MaxStarts /\ changes \in 0..MaxChanges /\ faults \in 0..MaxFaults

(* GetChildrenAsync, from the roots down: the least set of active categories *)
(* that has the roots and the children of each of its members.               *)
Children(c) == {d \in active : parent[d] = c}
Shown ==
  {d \in active : \A S \in SUBSET active :
     Children(NoCategory) \subseteq S /\ (\A c \in S : Children(c) \subseteq S) => d \in S}

(* PgCategoryRepository.SyncTreeAsync: whatever trees were stored before it, *)
(* every active category can be reached from the roots through active ones:  *)
(* none hangs below a category that vanished, and no circle has formed.      *)
ActiveCategoriesAreShown == active \subseteq DOMAIN parent /\ active = Shown

Unlinked(r) == IF phase[r] = "link" /\ phase'[r] = "idle" THEN DOMAIN links \ DOMAIN links' ELSE {}
Stayed(r, l) == l[1] \in Listed(l[2]) /\ l \notin job[r].came

(* PgCategoryRepository.LinkProductsAsync: a refresh takes no link from a    *)
(* product that its category listed all the time since the refresh began;    *)
(* the categories that lost a product while they were read are excepted: then *)
(* one moves to a page that was read already, and is missed by a refresh that *)
(* came to the last page (CategoryProductUrlDiscoverySource.cs:192-193).      *)
StayingProductsKeepLinks ==
  [][\A r \in Refreshes : \A l \in Unlinked(r) :
       Stayed(r, l) => \E p \in Products : <<p, l[2]>> \in job[r].gone]_categoryVars

(* UpdateCategoriesAsync: when a refresh that ran alone and met no failure   *)
(* stores its links, every leaf that did not change since it began, and that *)
(* the page limit does not cut off, is linked to what it lists and no more.  *)
(* A leaf without products is not read to its last page and keeps its links. *)
QuietLeavesAreLinked ==
  [][\A r \in Refreshes :
       job[r].alone /\ phase[r] = "link" /\ phase'[r] = "idle" /\ faults' = 0 =>
         \A c \in Leaves(job[r].tree) \cap DOMAIN parent :
           /\ Len(shop[c]) \in 1..(MaxPages * PageSize)
           /\ \A p \in Products : <<p, c>> \notin job[r].came \cup job[r].gone
           => {p \in Products : <<p, c>> \in DOMAIN links'} = Listed(c) \cap catalog]_categoryVars

-----------------------------------------------------------------------------
(* Why they hold.                                                           *)

PagesRead(j) == (j.page - 1) * PageSize

(* The seeds still to be read and the listings that have been are apart, and *)
(* together are the leaves; times are given after the reading.               *)
JobFollowsThePhase(r) ==
  LET j == job[r] IN
  /\ phase[r] \in {"idle", "seeds"} =>
       j.tree = NoTree /\ j.page = 1 /\ j.listed = {} /\ DOMAIN j.listings = {} /\ j.complete = {}
  /\ phase[r] = "read" <=> j.seeds # <<>>
  /\ phase[r] \notin {"idle", "seeds"} => Leaves(j.tree) \subseteq ToSet(j.seeds) \cup DOMAIN j.listings
  /\ IsInjective(j.seeds) /\ ToSet(j.seeds) \cap DOMAIN j.listings = {}
  /\ j.complete \subseteq DOMAIN j.listings
  /\ phase[r] \in {"count", "sync"} => j.tree # NoTree
  /\ phase[r] \in {"count", "sync", "link"} => j.seenAt \in 1..clock

(* As long as no product has left a category, those that stay are not moved  *)
(* to pages that were read already: they are listed once it is read.         *)
StayingAreRead(r, c) ==
  LET j == job[r] IN
  (\A p \in Products : <<p, c>> \notin j.gone) =>
    /\ phase[r] = "read" /\ c = Head(j.seeds) =>
         \A i \in DOMAIN shop[c] :
           i <= PagesRead(j) /\ <<shop[c][i], c>> \notin j.came => shop[c][i] \in j.listed
    /\ c \in j.complete => \A p \in Listed(c) : <<p, c>> \notin j.came => p \in j.listings[c]

(* A category of the menu that does not change is read page by page to the   *)
(* last one, unless a page fails or the limit comes first.                   *)
Quiet(r, c) ==
  /\ faults = 0 /\ job[r].tree # NoTree
  /\ Len(shop[c]) \in 1..(MaxPages * PageSize)
  /\ \A p \in Products : <<p, c>> \notin job[r].came \cup job[r].gone

QuietAreRead(r, c) ==
  LET j == job[r] IN
  Quiet(r, c) =>
    /\ phase[r] = "read" /\ c = Head(j.seeds) =>
         PagesRead(j) < Len(shop[c]) /\ j.listed = {shop[c][i] : i \in 1..PagesRead(j)}
    /\ c \in DOMAIN j.listings => c \in j.complete /\ j.listings[c] = Listed(c)

(* Beside a refresh that runs alone no other writes links. *)
AloneIsNewest(r) ==
  job[r].alone =>
    /\ Running = {r}
    /\ phase[r] \in {"count", "sync", "link"} =>
         job[r].seenAt = clock /\ \A l \in DOMAIN links : links[l] < clock

(* The tables: every variable has its type, links join rows that exist, and   *)
(* the stored tree is whole; and what a refresh has read so far is what its   *)
(* links will rely on.                                                       *)
CategoriesIInv ==
  /\ CategoriesTypeOK
  /\ ActiveCategoriesAreShown
  /\ \A r \in Refreshes : JobFollowsThePhase(r)
  /\ \A r \in Running, c \in CategoryIds : StayingAreRead(r, c) /\ QuietAreRead(r, c)
  /\ \A r \in Running : AloneIsNewest(r)
=============================================================================
