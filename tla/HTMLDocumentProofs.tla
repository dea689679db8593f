-------------------------- MODULE HTMLDocumentProofs --------------------------
(***************************************************************************)
(* Proofs about what an HTML document owns besides its tree: the tables of *)
(* strings that its collections read, and its title.  Both are given back  *)
(* by a finaliser that runs when the last reference goes, while elements   *)
(* may still lead clients back to the document.                            *)
(***************************************************************************)
EXTENDS HTMLDocument, SharedLemmas

OwnedTyped ==
  /\ kept \in BOOLEAN /\ crashed \in BOOLEAN
  /\ owned \in [String -> Nat] /\ count \in [String -> Nat]
  /\ title \in String \cup {NULL}
  /\ revived \subseteq String \cup {NULL}

(* Only the finaliser takes the tables away.                               *)
TablesKept == Referenced => tables \/ revived # {}

IInv == OwnedTyped /\ TablesKept /\ StringsCounted /\ NothingGoneIsRead

LEMMA InvariantImpliesTables == IInv => CollectionsHaveTables
BY DEF IInv, TablesKept, CollectionsHaveTables, Referenced, Refer

(* A string with a title's reference or a client's is not free, unless its *)
(* document was taken back with it.                                        *)
LEMMA CountIsPositive ==
  ASSUME IInv, NEW s \in String, owned[s] > 0 \/ (Referenced /\ title = s)
  PROVE  count[s] = 0 => revived # {}
BY DEF IInv, OwnedTyped, StringsCounted

LEMMA NotFreed ==
  ASSUME IInv, NEW s \in String, ~Freed(s)
  PROVE  count[s] - 1 \in Nat
<1>1. s # NULL /\ count[s] \in Nat
  BY StringAssumption DEF IInv, OwnedTyped
<1> QED BY <1>1 DEF Freed

LEMMA InitInvariance == Init => IInv
<1> SUFFICES ASSUME Init
             PROVE  IInv
  OBVIOUS
<1>1. OwnedTyped
  BY DEF Init, OwnedTyped
<1>2. \A s \in String : title # s
  BY StringAssumption DEF Init
<1> QED BY <1>1, <1>2 DEF Init, IInv, TablesKept, StringsCounted, NothingGoneIsRead

(* What leaves the fields alone and loses no reference on the document.    *)
LEMMA QuietInvariance ==
  ASSUME IInv, UNCHANGED <<kept, collection, tables, strings, history>>
  PROVE  IInv'
BY DEF IInv, OwnedTyped, TablesKept, StringsCounted, NothingGoneIsRead, Referenced, Refer,
       strings, history

(* A call reads what is gone only where a document was taken back.         *)
LEMMA CrashInvariance ==
  ASSUME IInv, Crash, revived # {}
  PROVE  IInv'
BY DEF IInv, Crash, OwnedTyped, TablesKept, StringsCounted, NothingGoneIsRead, Referenced, Refer,
       strings

(* References are let go: the finaliser runs when the last one goes, with  *)
(* no collection left, and gives the title's reference back.               *)
LEMMA LetGoInvariance ==
  ASSUME IInv, NEW h, NEW k \in BOOLEAN, NEW c, k => kept, c \in {collection, NULL},
         LetGo(h, k, c), Referenced /\ ~Refer(k, c) => ~Freed(title)
  PROVE  IInv'
<1>1. /\ kept' = k /\ collection' = c /\ UNCHANGED <<revived, crashed>>
      /\ IF Referenced /\ ~Refer(k, c) THEN Finalised ELSE UNCHANGED <<tables, strings>>
  BY DEF LetGo, history
<1>2. Referenced' = Refer(k, c) /\ (Refer(k, c) => Referenced)
  BY <1>1 DEF Referenced, Refer
<1>3. NothingGoneIsRead'
  BY <1>1 DEF IInv, NothingGoneIsRead
<1>4. CASE Referenced /\ ~Refer(k, c)
  <2>1. /\ count' = [s \in String |-> IF s = title THEN count[s] - 1 ELSE count[s]]
        /\ UNCHANGED <<title, owned>>
    BY <1>1, <1>4 DEF Finalised
  <2>2. \A s \in String : s = title => count[s] - 1 \in Nat
    BY <1>4, NotFreed
  <2>3. OwnedTyped'
    <3>1. \A s \in String : (IF s = title THEN count[s] - 1 ELSE count[s]) \in Nat
      BY <2>2 DEF IInv, OwnedTyped
    <3>2. count' \in [String -> Nat]
      BY <2>1, <3>1
    <3> QED BY <1>1, <2>1, <3>2 DEF IInv, OwnedTyped
  <2>4. TablesKept'
    BY <1>2, <1>4 DEF TablesKept
  <2>5. StringsCounted'
    <3> SUFFICES ASSUME NEW s \in String \ revived
                 PROVE  count'[s] = owned'[s] + IF Referenced' /\ title' = s THEN 1 ELSE 0
      BY <1>1 DEF StringsCounted
    <3>1. count[s] = owned[s] + IF title = s THEN 1 ELSE 0
      BY <1>4 DEF IInv, StringsCounted
    <3>2. owned[s] \in Nat /\ count[s] \in Nat
      BY DEF IInv, OwnedTyped
    <3> QED BY <1>2, <1>4, <2>1, <3>1, <3>2
  <2> QED BY <1>3, <2>3, <2>4, <2>5 DEF IInv
<1>5. CASE ~(Referenced /\ ~Refer(k, c))
  <2>1. UNCHANGED <<tables, title, owned, count>>
    BY <1>1, <1>5 DEF strings
  <2>2. Referenced' <=> Referenced
    BY <1>2, <1>5
  <2>3. OwnedTyped'
    BY <1>1, <2>1 DEF IInv, OwnedTyped
  <2>4. TablesKept'
    BY <1>1, <2>1, <2>2 DEF IInv, TablesKept
  <2>5. StringsCounted'
    BY <1>1, <2>1, <2>2 DEF IInv, StringsCounted
  <2> QED BY <1>3, <2>3, <2>4, <2>5 DEF IInv
<1> QED BY <1>4, <1>5

LEMMA GiveBackInvariance ==
  ASSUME IInv, NEW h, NEW k \in BOOLEAN, NEW c, k => kept, c \in {collection, NULL},
         GiveBack(h, k, c)
  PROVE  IInv'
<1>1. CASE Referenced /\ ~Refer(k, c) /\ Freed(title)
  <2>1. title \in String /\ count[title] = 0
    BY <1>1 DEF Freed, IInv, OwnedTyped
  <2>2. revived # {}
    BY <1>1, <2>1, CountIsPositive
  <2> QED BY <1>1, <2>2, CrashInvariance DEF GiveBack
<1>2. CASE ~(Referenced /\ ~Refer(k, c) /\ Freed(title))
  BY <1>2, LetGoInvariance DEF GiveBack
<1> QED BY <1>1, <1>2

(* A finalised document is taken up again without its tables, and with a   *)
(* title that is not its own any more.                                     *)
LEMMA ReclaimInvariance ==
  ASSUME IInv, ReclaimDocument
  PROVE  IInv'
<1>1. /\ kept' = TRUE
      /\ revived' = IF Referenced THEN revived ELSE revived \cup {title}
      /\ UNCHANGED <<collection, tables, title, owned, count, crashed>>
  BY DEF ReclaimDocument, strings
<1>2. Referenced' /\ revived \subseteq revived'
  BY <1>1 DEF Referenced, Refer
<1>3. ~Referenced => title \in revived'
  BY <1>1
<1>4. StringsCounted'
  BY <1>1, <1>2, <1>3 DEF IInv, StringsCounted
<1>5. TablesKept'
  BY <1>1, <1>2, <1>3 DEF IInv, TablesKept
<1>6. OwnedTyped' /\ NothingGoneIsRead'
  BY <1>1, <1>2 DEF IInv, OwnedTyped, NothingGoneIsRead
<1> QED BY <1>4, <1>5, <1>6 DEF IInv

LEMMA CollectionInvariance ==
  ASSUME IInv, GetCollection \/ ReadCollection
  PROVE  IInv'
<1>1. CASE GetCollection
  <2>1. kept /\ UNCHANGED <<kept, tables, title, owned, count, revived, crashed>>
    BY <1>1 DEF GetCollection, strings, history
  <2>2. Referenced /\ Referenced'
    BY <2>1 DEF Referenced, Refer
  <2> QED BY <2>1, <2>2 DEF IInv, OwnedTyped, StringsCounted, TablesKept, NothingGoneIsRead
<1>2. CASE ReadCollection
  BY <1>2, CrashInvariance DEF ReadCollection, IInv, TablesKept, Referenced, Refer
<1> QED BY <1>1, <1>2

(* The factory and the lookups need the tables.                            *)
LEMMA TablesInvariance ==
  ASSUME IInv, kept, ~tables, Crash
  PROVE  IInv'
BY CrashInvariance DEF IInv, TablesKept, Referenced, Refer

(* The calls on strings: the tables and references stay as they are.       *)
LEMMA SpeltInvariance ==
  ASSUME IInv, Spelt, OwnedTyped', StringsCounted'
  PROVE  IInv'
BY DEF IInv, Spelt, history, TablesKept, NothingGoneIsRead, Referenced, Refer

LEMMA SpeltReferenced ==
  ASSUME Spelt
  PROVE  Referenced' = Referenced /\ UNCHANGED <<kept, revived, crashed>>
BY DEF Spelt, history, Referenced, Refer

LEMMA NewStringInvariance ==
  ASSUME IInv, NEW s \in String, NewString(s)
  PROVE  IInv'
<1>1. /\ owned[s] = 0 /\ count[s] = 0 /\ title # s
      /\ count' = [count EXCEPT ![s] = 1] /\ owned' = [owned EXCEPT ![s] = 1]
      /\ title' = title /\ Spelt
  BY DEF NewString
<1>2. OwnedTyped'
  BY <1>1, SpeltReferenced DEF IInv, OwnedTyped
<1>3. StringsCounted'
  BY <1>1, SpeltReferenced DEF IInv, OwnedTyped, StringsCounted
<1> QED BY <1>1, <1>2, <1>3, SpeltInvariance

LEMMA DropStringInvariance ==
  ASSUME IInv, NEW s \in String, DropString(s)
  PROVE  IInv'
<1>1. CASE Freed(s)
  BY <1>1, CountIsPositive, CrashInvariance DEF DropString, Freed
<1>2. CASE ~Freed(s)
  <2>1. /\ owned[s] > 0
        /\ count' = [count EXCEPT ![s] = @ - 1] /\ owned' = [owned EXCEPT ![s] = @ - 1]
        /\ title' = title /\ Spelt
    BY <1>2 DEF DropString
  <2>2. count[s] - 1 \in Nat /\ owned[s] - 1 \in Nat
    BY <1>2, <2>1, NotFreed DEF IInv, OwnedTyped
  <2>3. OwnedTyped'
    BY <2>1, <2>2, SpeltReferenced DEF IInv, OwnedTyped
  <2>4. StringsCounted'
    BY <2>1, SpeltReferenced DEF IInv, OwnedTyped, StringsCounted
  <2> QED BY <2>1, <2>3, <2>4, SpeltInvariance
<1> QED BY <1>1, <1>2

LEMMA GetTitleInvariance ==
  ASSUME IInv, GetTitle
  PROVE  IInv'
<1>1. CASE title = NULL /\ ~tables /\ Crash
  BY <1>1, TablesInvariance DEF GetTitle
<1>2. CASE title # NULL /\ Freed(title) /\ Crash
  <2>1. title \in String /\ count[title] = 0 /\ Referenced
    BY <1>2 DEF GetTitle, Freed, IInv, OwnedTyped, Referenced, Refer
  <2> QED BY <1>2, <2>1, CountIsPositive, CrashInvariance
<1>3. CASE /\ title # NULL /\ ~Freed(title)
           /\ count' = [count EXCEPT ![title] = @ + 1]
           /\ owned' = [owned EXCEPT ![title] = @ + 1]
           /\ UNCHANGED title /\ Spelt
  <2>1. title \in String
    BY <1>3 DEF IInv, OwnedTyped
  <2>2. OwnedTyped'
    BY <1>3, <2>1, SpeltReferenced DEF IInv, OwnedTyped
  <2>3. StringsCounted'
    BY <1>3, <2>1, SpeltReferenced DEF IInv, OwnedTyped, StringsCounted
  <2> QED BY <1>3, <2>2, <2>3, SpeltInvariance
<1> QED BY <1>1, <1>2, <1>3 DEF GetTitle

(* The reference moves from the old title to the new one, which may be the *)
(* same string.                                                            *)
LEMMA SetTitleInvariance ==
  ASSUME IInv, NEW s \in String, SetTitle(s)
  PROVE  IInv'
<1>1. kept /\ Referenced /\ owned[s] > 0
  BY DEF SetTitle, Referenced, Refer
<1>2. CASE Crash /\ (Freed(s) \/ Freed(title) \/ (s = title /\ count[s] = 1))
  <2>1. Freed(s) => revived # {}
    BY <1>1, CountIsPositive DEF Freed
  <2>2. Freed(title) => revived # {}
    BY <1>1, CountIsPositive DEF Freed, IInv, OwnedTyped
  <2>3. s = title /\ count[s] = 1 => s \in revived
    BY <1>1 DEF IInv, OwnedTyped, StringsCounted
  <2> QED BY <1>2, <2>1, <2>2, <2>3, CrashInvariance
<1>3. CASE /\ ~Freed(s) /\ ~Freed(title)
           /\ count' = [x \in String |-> IF x = s /\ x # title THEN count[x] + 1
                                         ELSE IF x # s /\ x = title THEN count[x] - 1
                                         ELSE count[x]]
           /\ title' = s /\ owned' = owned /\ Spelt
  <2>1. Referenced' /\ UNCHANGED <<kept, revived, crashed>>
    BY <1>1, <1>3, SpeltReferenced
  <2>2. \A x \in String : x = title => count[x] - 1 \in Nat
    BY <1>3, NotFreed
  <2>3. OwnedTyped'
    <3>1. \A x \in String : count[x] \in Nat /\ count'[x] \in Nat
      BY <1>3, <2>2 DEF IInv, OwnedTyped
    <3> QED BY <1>3, <2>1, <3>1 DEF IInv, OwnedTyped
  <2>4. StringsCounted'
    <3> SUFFICES ASSUME NEW x \in String \ revived
                 PROVE  count'[x] = owned'[x] + IF Referenced' /\ title' = x THEN 1 ELSE 0
      BY <2>1 DEF StringsCounted
    <3>1. count[x] = owned[x] + IF title = x THEN 1 ELSE 0
      BY <1>1 DEF IInv, StringsCounted
    <3>2. owned[x] \in Nat /\ count[x] \in Nat
      BY DEF IInv, OwnedTyped
    <3> QED BY <1>3, <2>1, <3>1, <3>2
  <2> QED BY <1>3, <2>3, <2>4, SpeltInvariance
<1> QED BY <1>2, <1>3 DEF SetTitle

LEMMA NextInvariance == IInv /\ [Next]_vars => IInv'
<1> SUFFICES ASSUME IInv, [Next]_vars
             PROVE  IInv'
  OBVIOUS
<1>1. ASSUME NEW n \in Node, Create(n)
      PROVE  IInv'
  BY <1>1, QuietInvariance, TablesInvariance DEF Create, Quiet
<1>2. ASSUME NEW n \in Node, RemoveChild(n) \/ Hold(n) \/ SetBody(n)
      PROVE  IInv'
  BY <1>2, QuietInvariance DEF RemoveChild, Hold, SetBody, Quiet
<1>3. ASSUME NEW p \in Node, NEW c \in Node, AppendChild(p, c)
      PROVE  IInv'
  BY <1>3, QuietInvariance DEF AppendChild, Quiet
<1>4. ASSUME GetBody
      PROVE  IInv'
  BY <1>4, QuietInvariance, TablesInvariance DEF GetBody, Quiet
<1>5. ASSUME NEW n \in Node, Release(n)
      PROVE  IInv'
  BY <1>5, GiveBackInvariance DEF Release, IInv, OwnedTyped
<1>6. ASSUME DropDocument \/ DropCollection
      PROVE  IInv'
  BY <1>6, GiveBackInvariance DEF DropDocument, DropCollection, IInv, OwnedTyped
<1>7. ASSUME NEW s \in String, NewString(s) \/ DropString(s) \/ SetTitle(s)
      PROVE  IInv'
  BY <1>7, NewStringInvariance, DropStringInvariance, SetTitleInvariance
<1>8. CASE UNCHANGED vars
  BY <1>8, QuietInvariance DEF vars
<1> QED BY <1>1, <1>2, <1>3, <1>4, <1>5, <1>6, <1>7, <1>8, ReclaimInvariance,
           CollectionInvariance, GetTitleInvariance
        DEF Next, NodeNext, ReleaseNext, LookupNext, TitleNext, Are

-----------------------------------------------------------------------------
(* Nodes.  The trees of a document, of a collection and of what clients    *)
(* hold: what is in none of them has no children.                          *)

Grips(h, k, c) == h \cup ({c} \ {NULL}) \cup IF Refer(k, c) THEN {Document} ELSE {}

TreeTyped ==
  /\ tree.children \in [Node -> Seq(Node)]
  /\ tree = TreeOf(tree.children)
  /\ IsFamily(tree.children)

GripsTyped ==
  /\ held \subseteq Node \ {Document}
  /\ kept \in BOOLEAN
  /\ collection \in Node \cup {NULL}

InUseOnly(ch, S) ==
  \A n \in Node : /\ Document \notin ToSet(ch[n])
                  /\ ch[n] # <<>> => n \in Reach(ch, S)

RestTyped ==
  /\ pool \in Pools /\ tables \in BOOLEAN /\ body \in Node \cup {NULL}
  /\ owned \in [String -> 0 .. 2]

NodesInv ==
  /\ TreeTyped /\ GripsTyped /\ RestTyped
  /\ InUseOnly(tree.children, Grips(held, kept, collection))

LEMMA DocumentIsNode == Document \in Node /\ \A n \in Node : Kind[n] = "#document" <=> n = Document
BY DocumentAssumption DEF Are

LEMMA GripsAreNodes ==
  ASSUME NEW h, NEW k, NEW c, h \subseteq Node, c \in Node \cup {NULL}
  PROVE  Grips(h, k, c) \in SUBSET Node
BY DocumentIsNode DEF Grips

LEMMA TreeOfChildren ==
  ASSUME NEW ch
  PROVE  TreeOf(ch).children = ch /\ TreeOf(ch) = TreeOf(TreeOf(ch).children)
BY DEF TreeOf, Tree

LEMMA FamilyMakesTree ==
  ASSUME NEW ch, IsFamily(ch), DOMAIN ch = Node
  PROVE  /\ IsTree(TreeOf(ch)) /\ Nodes(TreeOf(ch)) = Node /\ TreeOf(ch).children = ch
         /\ TreeOf(ch).null = NULL /\ TreeOf(ch).fault = Fault
BY NoNodeAssumption, FamilyIsTree DEF TreeOf, Nodes

LEMMA TreeIsTree ==
  ASSUME TreeTyped
  PROVE  /\ IsTree(tree) /\ Nodes(tree) = Node
         /\ tree.null = NULL /\ tree.fault = Fault
<1> DEFINE ch == tree.children
<1>1. DOMAIN ch = Node /\ IsFamily(ch) /\ tree = TreeOf(ch)
  BY DEF TreeTyped
<1> HIDE DEF ch
<1> QED BY <1>1, FamilyMakesTree

(* What is in use is what can be reached.                                  *)
LEMMA ReachedIsReach ==
  ASSUME NEW ch, IsFamily(ch), DOMAIN ch = Node, NEW S \in SUBSET Node
  PROVE  Reached(TreeOf(ch), S) = Reach(ch, S)
<1>1. ASSUME NEW n \in S
      PROVE  ToSet(AtOrBelow(TreeOf(ch), n)) = Reach(ch, {n})
  <2> DEFINE t == TreeOf(ch)
  <2>1. IsTree(t) /\ n \in Nodes(t) /\ t.children = ch
    BY FamilyMakesTree
  <2> HIDE DEF t
  <2>2. ToSet(AtOrBelow(t, n)) = Reach(t.children, {n})
    BY <2>1, BelowElements
  <2> QED BY <2>1, <2>2 DEF t
<1>2. Reach(ch, S) = UNION {Reach(ch, {n}) : n \in S}
  BY ReachOfMembers DEF IsFamily
<1> QED BY <1>1, <1>2 DEF Reached

LEMMA InUseIsReach ==
  ASSUME NodesInv
  PROVE  InUse = Reach(tree.children, Grips(held, kept, collection))
<1>1. DOMAIN tree.children = Node /\ IsFamily(tree.children) /\ tree = TreeOf(tree.children)
  BY DEF NodesInv, TreeTyped
<1>2. Grips(held, kept, collection) \in SUBSET Node
  BY GripsAreNodes DEF NodesInv, GripsTyped
<1>3. InUse = Reached(tree, Grips(held, kept, collection))
  BY DEF InUse, InHand, Referenced, Grips
<1> QED BY <1>1, <1>2, <1>3, ReachedIsReach

LEMMA GripsInUse ==
  ASSUME NodesInv
  PROVE  Grips(held, kept, collection) \subseteq InUse
<1> DEFINE ch == tree.children
           S == Grips(held, kept, collection)
<1>1. S \in SUBSET Node /\ ch \in [Node -> Seq(Node)] /\ DOMAIN ch = Node
  BY GripsAreNodes DEF NodesInv, GripsTyped, TreeTyped
<1>2. InUse = Reach(ch, S)
  BY InUseIsReach
<1> HIDE DEF ch, S
<1>3. S \subseteq InUse
  BY <1>1, <1>2, ReachIsLeast
<1> QED BY <1>3 DEF S

(* What is said of the tree in a state is said of its value there.         *)
LEMMA PrimedNodes ==
  ASSUME TreeTyped', GripsTyped', RestTyped',
         InUseOnly(tree'.children, Grips(held', kept', collection'))
  PROVE  NodesInv'
<1>1. InUseOnly(tree.children, Grips(held, kept, collection))'
        <=> InUseOnly(tree'.children, Grips(held', kept', collection'))
  BY DEF InUseOnly, Reach, Closed, ToSet, Grips, Refer
<1> QED BY <1>1 DEF NodesInv

LEMMA PrimedTree ==
  ASSUME NEW ch \in [Node -> Seq(Node)], IsFamily(ch), tree' = TreeOf(ch)
  PROVE  TreeTyped' /\ tree'.children = ch
<1>1. IsFamily(tree.children)' <=> IsFamily(tree'.children)
  BY DEF IsFamily, Under, Reach, Closed, IsInjective, ToSet
<1>2. TreeOf(tree.children)' = TreeOf(tree'.children)
  BY DEF TreeOf, Tree, ToSet
<1>3. tree'.children = ch /\ tree' = TreeOf(tree'.children)
  BY TreeOfChildren
<1> QED BY <1>1, <1>2, <1>3 DEF TreeTyped

LEMMA NodesChange ==
  ASSUME NEW ch \in [Node -> Seq(Node)], IsFamily(ch), tree' = TreeOf(ch),
         GripsTyped', RestTyped', InUseOnly(ch, Grips(held', kept', collection'))
  PROVE  NodesInv'
BY PrimedTree, PrimedNodes

(* References are added, the tree is as it was.                            *)
LEMMA GripsGrow ==
  ASSUME NodesInv, tree' = tree, GripsTyped', RestTyped',
         Grips(held, kept, collection) \subseteq Grips(held', kept', collection')
  PROVE  NodesInv'
<1> DEFINE ch == tree.children
           S == Grips(held, kept, collection)
           R == Grips(held', kept', collection')
<1>1. /\ ch \in [Node -> Seq(Node)] /\ DOMAIN ch = Node /\ IsFamily(ch) /\ tree' = TreeOf(ch)
      /\ InUseOnly(ch, S)
  BY DEF NodesInv, TreeTyped
<1>2. S \in SUBSET Node /\ R \in SUBSET Node /\ S \subseteq R
  BY GripsAreNodes DEF NodesInv, GripsTyped
<1> HIDE DEF ch, S, R
<1>3. Reach(ch, S) \subseteq Reach(ch, R)
  BY <1>1, <1>2, ReachGrows
<1>4. InUseOnly(ch, R)
  BY <1>1, <1>3 DEF InUseOnly
<1> QED BY <1>1, <1>4, NodesChange DEF R

LEMMA InitNodes == Init => NodesInv
<1> SUFFICES ASSUME Init
             PROVE  NodesInv
  OBVIOUS
<1> DEFINE ch == [n \in Node |-> <<>>]
<1>1. ch \in [Node -> Seq(Node)] /\ IsFamily(ch) /\ \A n \in Node : ch[n] = <<>>
  BY NoNodeAssumption, EmptyFamily
<1>2. tree = TreeOf(ch)
  BY DEF Init
<1> HIDE DEF ch
<1>3. tree.children = ch /\ TreeTyped
  BY <1>1, <1>2, TreeOfChildren DEF TreeTyped
<1>4. InUseOnly(ch, Grips(held, kept, collection))
  BY <1>1 DEF InUseOnly, ToSet
<1>5. GripsTyped /\ RestTyped
  BY DEF Init, GripsTyped, RestTyped
<1> QED BY <1>3, <1>4, <1>5 DEF NodesInv

(* The child that is moved is in its client's hands.                       *)
LEMMA MovedNodes ==
  ASSUME NodesInv, NEW p \in Node, NEW c \in Node, AppendChild(p, c)
  PROVE  NodesInv'
<1> DEFINE old == tree.children
           ch == Moved(p, c)
           S == Grips(held, kept, collection)
<1>1. /\ old \in [Node -> Seq(Node)] /\ DOMAIN old = Node /\ IsFamily(old) /\ tree = TreeOf(old)
      /\ InUseOnly(old, S) /\ S \in SUBSET Node
  BY GripsAreNodes DEF NodesInv, TreeTyped, GripsTyped
<1>2. /\ Known(p) /\ c \in held /\ p \notin ToSet(AtOrBelow(tree, c))
      /\ tree' = TreeOf(ch) /\ UNCHANGED <<held, kept, collection, pool, tables, body, owned>>
  BY DEF AppendChild, Shaped, Quiet, strings
<1>3. c # Document /\ c \in S /\ p \in S
  BY <1>2 DEF NodesInv, GripsTyped, Known, Grips, Refer
<1>4. p \notin Reach(old, {c})
  BY <1>1, <1>2, TreeIsTree, BelowElements DEF NodesInv
<1>5. ASSUME NEW n \in Node
      PROVE  LET rest == RemoveFirst(old[n], c)
             IN  /\ rest \in Seq(Node) /\ IsInjective(rest) /\ c \notin ToSet(rest)
                 /\ ToSet(rest) \subseteq ToSet(old[n])
                 /\ ToSet(old[n]) \subseteq ToSet(rest) \cup {c}
  <2> DEFINE row == old[n]
  <2>1. row \in Seq(Node) /\ IsInjective(row)
    BY <1>1 DEF IsFamily
  <2> HIDE DEF row
  <2>2. LET rest == RemoveFirst(row, c)
        IN  /\ rest \in Seq(Node) /\ IsInjective(rest) /\ c \notin ToSet(rest)
            /\ ToSet(rest) \subseteq ToSet(row)
            /\ ToSet(row) \subseteq ToSet(rest) \cup {c}
    BY <2>1, RemoveFirstProperties
  <2> QED BY <2>2 DEF row
<1>6. ASSUME NEW n \in Node
      PROVE  /\ ch[n] \in Seq(Node) /\ IsInjective(ch[n])
             /\ ToSet(old[n]) \subseteq ToSet(ch[n]) \cup {c}
             /\ n # p => ToSet(ch[n]) \subseteq ToSet(old[n]) \ {c}
             /\ n = p => ToSet(ch[n]) \subseteq ToSet(old[n]) \cup {c}
  <2> DEFINE rest == RemoveFirst(old[n], c)
  <2>1. /\ rest \in Seq(Node) /\ IsInjective(rest) /\ c \notin ToSet(rest)
        /\ ToSet(rest) \subseteq ToSet(old[n]) /\ ToSet(old[n]) \subseteq ToSet(rest) \cup {c}
    BY <1>5
  <2>2. ch[n] = IF n = p THEN Append(rest, c) ELSE rest
    BY DEF Moved
  <2> HIDE DEF rest, ch, old
  <2>3. /\ Append(rest, c) \in Seq(Node) /\ ToSet(Append(rest, c)) = ToSet(rest) \cup {c}
        /\ IsInjective(Append(rest, c))
    BY <2>1, AppendElements
  <2> QED BY <2>1, <2>2, <2>3
<1>7. ch = [n \in Node |-> ch[n]]
  BY DEF Moved
<1> HIDE DEF ch, old, S
<1>8. ch \in [Node -> Seq(Node)]
  BY <1>6, <1>7
<1>9. IsFamily(ch)
  BY <1>1, <1>4, <1>6, <1>8, GrownFamily
<1>10. Reach(old, S) \subseteq Reach(ch, S)
  BY <1>1, <1>3, <1>6, <1>8, ReachIsKept
<1>11. S \subseteq Reach(ch, S)
  BY <1>1, <1>8, ReachIsLeast
<1>12. InUseOnly(ch, S)
  <2> SUFFICES ASSUME NEW n \in Node
               PROVE  /\ Document \notin ToSet(ch[n])
                      /\ ch[n] # <<>> => n \in Reach(ch, S)
    BY DEF InUseOnly
  <2>1. Document \notin ToSet(ch[n])
    BY <1>1, <1>3, <1>6 DEF InUseOnly
  <2>2. CASE n = p
    BY <2>1, <2>2, <1>3, <1>11
  <2>3. CASE n # p
    <3>1. ch[n] # <<>> => ToSet(ch[n]) # {}
      BY <1>6, ToSetOfSeq
    <3>2. ToSet(old[n]) # {} => old[n] # <<>>
      BY <1>1, ToSetOfSeq
    <3> QED BY <2>1, <2>3, <3>1, <3>2, <1>1, <1>6, <1>10 DEF InUseOnly
  <2> QED BY <2>2, <2>3
<1>13. GripsTyped' /\ RestTyped' /\ Grips(held', kept', collection') = S
  BY <1>2 DEF NodesInv, GripsTyped, RestTyped, S
<1> QED BY <1>2, <1>8, <1>9, <1>12, <1>13, NodesChange

(* A child that is taken out is given to its client.                       *)
LEMMA RemovedNodes ==
  ASSUME NodesInv, NEW c \in Node, RemoveChild(c)
  PROVE  NodesInv'
<1> DEFINE old == tree.children
           ch == [n \in Node |-> RemoveFirst(old[n], c)]
           S == Grips(held, kept, collection)
           R == Grips(held', kept', collection')
<1>1. /\ old \in [Node -> Seq(Node)] /\ DOMAIN old = Node /\ IsFamily(old) /\ tree = TreeOf(old)
      /\ InUseOnly(old, S) /\ S \in SUBSET Node
  BY GripsAreNodes DEF NodesInv, TreeTyped, GripsTyped
<1>2. /\ Up(tree, c) # NULL
      /\ tree' = TreeOf(ch) /\ held' = held \cup {c}
      /\ UNCHANGED <<kept, collection, pool, tables, body, owned>>
  BY DEF RemoveChild, Shaped, Quiet, strings
<1>3. c # Document
  <2>1. IsTree(tree) /\ Nodes(tree) = Node /\ tree.null = NULL
    BY TreeIsTree DEF NodesInv
  <2>2. Up(tree, c) \in Node /\ c \in ToSet(tree.children[Up(tree, c)])
    BY <2>1, <1>2, ParentIsKnown
  <2> QED BY <2>2 DEF NodesInv, InUseOnly
<1>4. c \in R /\ S \subseteq R /\ R \in SUBSET Node /\ GripsTyped' /\ RestTyped'
  BY <1>2, <1>3, GripsAreNodes DEF NodesInv, GripsTyped, RestTyped, Grips
<1>5. ASSUME NEW n \in Node
      PROVE  /\ ch[n] \in Seq(Node) /\ IsInjective(ch[n])
             /\ ToSet(ch[n]) \subseteq ToSet(old[n])
             /\ ToSet(old[n]) \subseteq ToSet(ch[n]) \cup {c}
  <2> DEFINE row == old[n]
  <2>1. row \in Seq(Node) /\ IsInjective(row) /\ ch[n] = RemoveFirst(row, c)
    BY <1>1 DEF IsFamily
  <2> HIDE DEF row, ch
  <2>2. /\ ch[n] \in Seq(Node) /\ IsInjective(ch[n])
        /\ ToSet(ch[n]) \subseteq ToSet(row)
        /\ ToSet(row) \subseteq ToSet(ch[n]) \cup {c}
    BY <2>1, RemoveFirstProperties
  <2> QED BY <2>2 DEF row
<1>6. ch = [n \in Node |-> ch[n]]
  OBVIOUS
<1> HIDE DEF ch, old, S, R
<1>7. ch \in [Node -> Seq(Node)]
  BY <1>5, <1>6
<1>8. IsFamily(ch)
  BY <1>1, <1>5, <1>7, ShrunkFamily
<1>9. Reach(old, R) \subseteq Reach(ch, R)
  BY <1>1, <1>4, <1>5, <1>7, ReachIsKept
<1>10. Reach(old, S) \subseteq Reach(old, R)
  BY <1>1, <1>4, ReachGrows
<1>11. InUseOnly(ch, R)
  <2> SUFFICES ASSUME NEW n \in Node
               PROVE  /\ Document \notin ToSet(ch[n])
                      /\ ch[n] # <<>> => n \in Reach(ch, R)
    BY DEF InUseOnly
  <2>1. ch[n] # <<>> => ToSet(ch[n]) # {}
    BY <1>5, ToSetOfSeq
  <2>2. ToSet(old[n]) # {} => old[n] # <<>>
    BY <1>1, ToSetOfSeq
  <2> QED BY <2>1, <2>2, <1>1, <1>5, <1>9, <1>10 DEF InUseOnly
<1> QED BY <1>2, <1>4, <1>7, <1>8, <1>11, NodesChange DEF R

(* Without references the document loses its children, and whatever is not *)
(* in use any more is freed.                                               *)
LEMMA LetGoNodes ==
  ASSUME NodesInv, NEW h \in SUBSET held, NEW k \in BOOLEAN, NEW c \in {collection, NULL},
         LetGo(h, k, c)
  PROVE  NodesInv'
<1> DEFINE old == tree.children
           stays == Refer(k, c)
           ch == IF stays THEN old ELSE [old EXCEPT ![Document] = <<>>]
           R == Grips(h, k, c)
           new == [n \in Node |-> IF n \in Reach(ch, R) THEN ch[n] ELSE <<>>]
<1>1. /\ old \in [Node -> Seq(Node)] /\ DOMAIN old = Node /\ IsFamily(old) /\ tree = TreeOf(old)
      /\ \A n \in Node : Document \notin ToSet(old[n])
  BY DEF NodesInv, TreeTyped, InUseOnly
<1>2. R \in SUBSET Node /\ h \subseteq Node \ {Document} /\ c \in Node \cup {NULL}
  BY GripsAreNodes DEF NodesInv, GripsTyped
<1>3. <<>> \in Seq(Node) /\ ToSet(<<>>) = {} /\ IsInjective(<<>>)
  BY DEF ToSet, IsInjective
<1>4. /\ ch \in [Node -> Seq(Node)] /\ DOMAIN ch = Node
      /\ \A n \in Node : ch[n] = old[n] \/ ch[n] = <<>>
  BY <1>1, <1>3
<1>5. /\ held' = h /\ kept' = k /\ collection' = c
      /\ tree' = TreeOf([n \in Node |-> IF n \in Reached(TreeOf(ch), R) THEN ch[n] ELSE <<>>])
      /\ tables' \in {tables, FALSE} /\ UNCHANGED <<owned, pool, body>>
  BY DEF LetGo, Shaped, Grips, Finalised, strings
<1> HIDE DEF ch, old, R
<1>6. \A n \in Node : IsInjective(ch[n]) /\ ToSet(ch[n]) \subseteq ToSet(old[n])
  BY <1>1, <1>3, <1>4 DEF IsFamily
<1>7. IsFamily(ch)
  BY <1>1, <1>4, <1>6, ShrunkFamily
<1>8. Reached(TreeOf(ch), R) = Reach(ch, R)
  BY <1>2, <1>4, <1>7, ReachedIsReach
<1>9. tree' = TreeOf(new)
  BY <1>5, <1>8
<1>10. /\ new \in [Node -> Seq(Node)]
       /\ \A n \in Node : n \in Reach(ch, R) => new[n] = ch[n]
       /\ \A n \in Node : n \notin Reach(ch, R) => new[n] = <<>>
  BY <1>3, <1>4
<1> HIDE DEF new
<1>11. \A n \in Node : IsInjective(new[n]) /\ ToSet(new[n]) \subseteq ToSet(ch[n])
  BY <1>3, <1>6, <1>10
<1>12. IsFamily(new)
  BY <1>4, <1>7, <1>10, <1>11, ShrunkFamily
<1>13. Reach(ch, R) \in SUBSET Node
  BY <1>2, <1>4, ReachIsLeast
<1>14. Reach(ch, R) \subseteq Reach(new, R)
  BY <1>2, <1>4, <1>10, <1>13, ReachIsKeptInUse
<1>15. InUseOnly(new, R)
  BY <1>1, <1>6, <1>10, <1>11, <1>14 DEF InUseOnly
<1>16. GripsTyped' /\ RestTyped' /\ Grips(held', kept', collection') = R
  BY <1>2, <1>5 DEF NodesInv, GripsTyped, RestTyped, R
<1> QED BY <1>9, <1>10, <1>12, <1>15, <1>16, NodesChange

(* A title or body that is found is a node other than the document.        *)
LEMMA ItemIsNode ==
  ASSUME NEW path \in Seq(Node), NEW M
  PROVE  /\ ItemAt(path, M, 0) = IF Hits(path, M) = <<>> THEN NULL ELSE Hits(path, M)[1]
         /\ ItemAt(path, M, 0) # NULL => ItemAt(path, M, 0) \in Node \cap M
         /\ Count(path, M) = Len(Hits(path, M))
         /\ Count(path, M) # 0 <=> ToSet(path) \cap M # {}
         /\ Hits(path, M) = <<>> <=> Count(path, M) = 0
<1> DEFINE hits == Hits(path, M)
<1>1. hits \in Seq(Node) /\ ToSet(hits) = ToSet(path) \cap M
  BY HitsProperties
<1>2. ~ Fails(path)
  BY ToSetOfSeq, NoNodeAssumption DEF Fails
<1>3. /\ ItemAt(path, M, 0) = CASE 0 < Len(hits) -> hits[0 + 1] [] 0 >= Len(hits) /\ FALSE -> Fault
                                [] OTHER -> NULL
      /\ Count(path, M) = Len(hits)
  BY <1>2 DEF ItemAt, Count
<1> HIDE DEF hits
<1>4. Len(hits) \in Nat /\ (hits = <<>> <=> Len(hits) = 0) /\ (hits = <<>> <=> ToSet(hits) = {})
      /\ ToSet(hits) \subseteq Node /\ \A x : x \in ToSet(hits) <=> \E i \in 1 .. Len(hits) : hits[i] = x
  BY <1>1, ToSetOfSeq
<1>5. ItemAt(path, M, 0) = IF hits = <<>> THEN NULL ELSE hits[1]
  BY <1>3, <1>4
<1>6. hits # <<>> => hits[1] \in Node \cap M
  <2>1. Len(hits) # 0 => 1 \in 1 .. Len(hits)
    BY <1>4
  <2> QED BY <2>1, <1>1, <1>4
<1> QED BY <1>1, <1>3, <1>4, <1>5, <1>6 DEF hits

LEMMA FirstIsFound ==
  ASSUME NodesInv, NEW tag
  PROVE  /\ ListPath(tree, Document) = Below(tree, Document)
         /\ Below(tree, Document) \in Seq(Node)
         /\ FirstOf(tree, tag) # NULL => FirstOf(tree, tag) \in Node \cap Are(tag)
<1>1. IsTree(tree) /\ Nodes(tree) = Node /\ Document \in Node
  BY TreeIsTree, DocumentIsNode DEF NodesInv
<1>2. ListPath(tree, Document) = Below(tree, Document) /\ Below(tree, Document) \in Seq(Node)
  BY <1>1, ListPathIsBelow, BelowElements
<1> DEFINE path == ListPath(tree, Document)
           M == Are(tag)
<1>3. path \in Seq(Node)
  BY <1>2
<1> HIDE DEF path, M
<1>4. ItemAt(path, M, 0) # NULL => ItemAt(path, M, 0) \in Node \cap M
  BY <1>3, ItemIsNode
<1> QED BY <1>2, <1>4 DEF path, M, FirstOf

LEMMA RootIsNode ==
  ASSUME TreeTyped
  PROVE  Root # NULL => Root \in Node
<1> DEFINE row == tree.children[Document]
           M == Node \ Are("#comment")
<1>1. row \in Seq(Node)
  BY DocumentIsNode DEF TreeTyped
<1>2. Root = IF Hits(row, M) = <<>> THEN NULL ELSE Hits(row, M)[1]
  BY DEF Root
<1> HIDE DEF row, M
<1>3. /\ ItemAt(row, M, 0) = IF Hits(row, M) = <<>> THEN NULL ELSE Hits(row, M)[1]
      /\ ItemAt(row, M, 0) # NULL => ItemAt(row, M, 0) \in Node \cap M
  BY <1>1, ItemIsNode
<1> QED BY <1>2, <1>3

LEMMA CrashNodes ==
  ASSUME NodesInv, Crash
  PROVE  NodesInv'
<1>1. UNCHANGED <<tree, pool, held, kept, collection, tables, body, owned>>
  BY DEF Crash, strings
<1> QED BY <1>1, GripsGrow DEF NodesInv, GripsTyped, RestTyped

LEMMA GiveBackNodes ==
  ASSUME NodesInv, NEW h \in SUBSET held, NEW k \in BOOLEAN, NEW c \in {collection, NULL},
         GiveBack(h, k, c)
  PROVE  NodesInv'
BY LetGoNodes, CrashNodes DEF GiveBack

LEMMA NextNodes == NodesInv /\ [Next]_vars => NodesInv'
<1> SUFFICES ASSUME NodesInv, [Next]_vars
             PROVE  NodesInv'
  OBVIOUS
<1> USE DEF NodesInv
<1>1. ASSUME NEW n \in Node, Create(n), ~Crash
      PROVE  NodesInv'
  <2>1. /\ kept /\ n \notin InUse /\ held' = held \cup {n}
        /\ UNCHANGED <<tree, kept, collection, pool, tables, body, owned>>
    BY <1>1 DEF Create, Quiet, strings
  <2>2. n # Document
    <3>1. Document \in Grips(held, kept, collection) /\ Grips(held, kept, collection) \in SUBSET Node
      BY <2>1, GripsAreNodes DEF Grips, Refer, GripsTyped
    <3>2. Grips(held, kept, collection) \subseteq InUse
      BY GripsInUse
    <3> QED BY <2>1, <3>1, <3>2
  <2>3. Grips(held, kept, collection) \subseteq Grips(held', kept', collection')
    BY <2>1 DEF Grips
  <2> QED BY <2>1, <2>2, <2>3, GripsGrow DEF GripsTyped, RestTyped
<1>2. ASSUME NEW n \in Node, Hold(n) \/ SetBody(n)
      PROVE  NodesInv'
  <2>1. /\ held' = held \/ (n # Document /\ held' = held \cup {n})
        /\ body' \in {body, n} /\ UNCHANGED <<tree, kept, collection, pool, tables, owned>>
    BY <1>2 DEF Hold, SetBody, Quiet, strings
  <2>2. Grips(held, kept, collection) \subseteq Grips(held', kept', collection')
    BY <2>1 DEF Grips
  <2> QED BY <2>1, <2>2, GripsGrow DEF GripsTyped, RestTyped
<1>3. ASSUME GetBody, ~Crash
      PROVE  NodesInv'
  <2>1. /\ BodyFound(tree) # NULL /\ held' = held \cup {BodyFound(tree)}
        /\ UNCHANGED <<tree, kept, collection, pool, tables, body, owned>>
    BY <1>3 DEF GetBody, Quiet, strings
  <2>2. BodyFound(tree) \in Node /\ Kind[BodyFound(tree)] # "#document"
    <3>1. BodyFound(tree) \in {FirstOf(tree, "BODY"), FirstOf(tree, "FRAMESET")}
      BY DEF BodyFound
    <3>2. /\ FirstOf(tree, "BODY") # NULL => FirstOf(tree, "BODY") \in Node \cap Are("BODY")
          /\ FirstOf(tree, "FRAMESET") # NULL => FirstOf(tree, "FRAMESET") \in Node \cap Are("FRAMESET")
      BY FirstIsFound
    <3> QED BY <2>1, <3>1, <3>2 DEF Are
  <2>3. BodyFound(tree) \in Node \ {Document}
    BY <2>2, DocumentIsNode
  <2>4. Grips(held, kept, collection) \subseteq Grips(held', kept', collection')
    BY <2>1 DEF Grips
  <2> QED BY <2>1, <2>3, <2>4, GripsGrow DEF GripsTyped, RestTyped
<1>4. ASSUME NEW n \in Node, Release(n)
      PROVE  NodesInv'
  BY <1>4, GiveBackNodes DEF Release, GripsTyped
<1>5. ASSUME DropDocument \/ DropCollection
      PROVE  NodesInv'
  BY <1>5, GiveBackNodes DEF DropDocument, DropCollection, GripsTyped
<1>6. ASSUME ReclaimDocument
      PROVE  NodesInv'
  <2>1. kept' = TRUE /\ UNCHANGED <<tree, held, collection, pool, tables, body, owned>>
    BY <1>6 DEF ReclaimDocument, strings
  <2>2. Grips(held, kept, collection) \subseteq Grips(held', kept', collection')
    BY <2>1 DEF Grips, Refer
  <2> QED BY <2>1, <2>2, GripsGrow DEF GripsTyped, RestTyped
<1>7. ASSUME GetCollection
      PROVE  NodesInv'
  <2>1. /\ collection = NULL /\ Root # NULL /\ collection' = Root
        /\ UNCHANGED <<tree, held, kept, pool, tables, body, owned>>
    BY <1>7 DEF GetCollection, strings
  <2>2. Grips(held, kept, collection) \subseteq Grips(held', kept', collection')
    BY <2>1 DEF Grips, Refer
  <2> QED BY <2>1, <2>2, RootIsNode, GripsGrow DEF GripsTyped, RestTyped
<1>8. ASSUME Spelt, owned' \in [String -> 0 .. 2]
      PROVE  NodesInv'
  <2>1. UNCHANGED <<tree, held, kept, collection, pool, tables, body>>
    BY <1>8 DEF Spelt
  <2> QED BY <1>8, <2>1, GripsGrow DEF GripsTyped, RestTyped
<1>9. ASSUME NEW s \in String, NewString(s) \/ DropString(s) \/ SetTitle(s), ~Crash
      PROVE  NodesInv'
  <2>1. owned[s] \in 0 .. 2 /\ owned \in [String -> 0 .. 2]
    BY DEF RestTyped
  <2>2. Spelt /\ (owned' = owned \/ owned' = [owned EXCEPT ![s] = 1]
                  \/ (owned[s] > 0 /\ owned' = [owned EXCEPT ![s] = @ - 1]))
    BY <1>9 DEF NewString, DropString, SetTitle
  <2>3. owned[s] > 0 => owned[s] - 1 \in 0 .. 2
    BY <2>1
  <2> QED BY <2>1, <2>2, <2>3, <1>8
<1>10. ASSUME GetTitle, ~Crash
      PROVE  NodesInv'
  <2>1. owned \in [String -> 0 .. 2]
    BY DEF RestTyped
  <2>2. Spelt /\ owned[title] < 2 /\ owned' = [owned EXCEPT ![title] = @ + 1]
    BY <1>10 DEF GetTitle
  <2>3. \A s \in String : owned[s] < 2 => owned[s] + 1 \in 0 .. 2
    BY <2>1
  <2>4. owned' \in [String -> 0 .. 2]
    BY <2>1, <2>2, <2>3
  <2> QED BY <2>2, <2>4, <1>8
<1>11. CASE UNCHANGED vars
  BY <1>11, GripsGrow DEF vars, strings, GripsTyped, RestTyped
<1>12. ASSUME NEW p \in Node, NEW c \in Node, AppendChild(p, c)
      PROVE  NodesInv'
  BY <1>12, MovedNodes
<1>13. ASSUME NEW n \in Node, RemoveChild(n)
      PROVE  NodesInv'
  BY <1>13, RemovedNodes
<1> HIDE DEF NodesInv
<1>14. CASE Crash
  BY <1>14, CrashNodes
<1>15. CASE ~Crash /\ Next
  BY <1>15, <1>1, <1>2, <1>3, <1>4, <1>5, <1>6, <1>7, <1>9, <1>10, <1>12, <1>13
     DEF Next, NodeNext, ReleaseNext, LookupNext, TitleNext, ReadCollection, Are
<1> QED BY <1>11, <1>14, <1>15

-----------------------------------------------------------------------------
(* What is looked up.                                                      *)

LEMMA NodesImplyTypes == NodesInv /\ IInv => TypeOK
<1> SUFFICES ASSUME NodesInv, IInv
             PROVE  TypeOK
  OBVIOUS
<1>1. ASSUME NEW n \in Node, NEW c \in ToSet(tree.children[n])
      PROVE  n \in InUse /\ Up(tree, c) = n
  <2>1. tree.children[n] \in Seq(Node)
    BY DEF NodesInv, TreeTyped
  <2>2. tree.children[n] # <<>>
    BY <2>1, ToSetOfSeq
  <2>3. IsTree(tree) /\ Nodes(tree) = Node
    BY TreeIsTree DEF NodesInv
  <2>4. Up(tree, c) = n
    <3>1. PICK k \in 1 .. Len(tree.children[n]) : c = tree.children[n][k]
      BY <2>1, ToSetOfSeq
    <3>2. n \in Nodes(tree)
      BY <2>3
    <3> QED BY <2>3, <3>1, <3>2, ChildIsKnown
  <2> QED BY <2>2, <2>4, InUseIsReach DEF NodesInv, InUseOnly
<1>2. Grips(held, kept, collection) \subseteq InUse
  BY GripsInUse
<1>3. held \subseteq InUse \ {Document} /\ collection \in InUse \cup {NULL}
  BY <1>2 DEF Grips, NodesInv, GripsTyped
<1> QED BY <1>1, <1>3 DEF TypeOK, NodesInv, GripsTyped, RestTyped, IInv, OwnedTyped

LEMMA NodesImplyFirst == NodesInv => TitleAndBodyAreFirst
<1> SUFFICES ASSUME NodesInv
             PROVE  TitleAndBodyAreFirst
  OBVIOUS
<1> DEFINE first(tag) == IF Hits(Below(tree, Document), Are(tag)) = <<>> THEN NULL
                         ELSE Hits(Below(tree, Document), Are(tag))[1]
<1>1. ASSUME NEW tag
      PROVE  /\ FirstOf(tree, tag) = first(tag)
             /\ Count(ListPath(tree, Document), Are(tag)) # 0 <=> first(tag) # NULL
  <2> DEFINE path == Below(tree, Document)
             M == Are(tag)
  <2>1. ListPath(tree, Document) = path /\ path \in Seq(Node)
    BY FirstIsFound
  <2> HIDE DEF path, M
  <2>2. /\ ItemAt(path, M, 0) = IF Hits(path, M) = <<>> THEN NULL ELSE Hits(path, M)[1]
        /\ ItemAt(path, M, 0) # NULL => ItemAt(path, M, 0) \in Node \cap M
        /\ Hits(path, M) = <<>> <=> Count(path, M) = 0
        /\ Count(path, M) # 0 <=> ToSet(path) \cap M # {}
    BY <2>1, ItemIsNode
  <2>3. Hits(path, M) # <<>> => Hits(path, M)[1] # NULL
    <3>1. Hits(path, M) \in Seq(Node)
      BY <2>1, HitsProperties
    <3> DEFINE hits == Hits(path, M)
    <3> HIDE DEF hits
    <3>2. hits \in Seq(Node)
      BY <3>1 DEF hits
    <3>3. hits # <<>> => hits[1] \in Node
      BY <3>2
    <3> QED BY <3>3, NoNodeAssumption DEF hits
  <2>4. FirstOf(tree, tag) = ItemAt(path, M, 0)
    BY <2>1 DEF FirstOf, M
  <2>5. first(tag) = IF Hits(path, M) = <<>> THEN NULL ELSE Hits(path, M)[1]
    BY DEF path, M
  <2> HIDE DEF first
  <2> QED BY <2>1, <2>2, <2>3, <2>4, <2>5 DEF M
<1>2. TitleFound(tree) = first("TITLE")
  BY <1>1 DEF TitleFound
<1>3. BodyFound(tree) = IF first("BODY") # NULL THEN first("BODY") ELSE first("FRAMESET")
  <2> HIDE DEF first
  <2> QED BY <1>1 DEF BodyFound
<1> QED BY <1>2, <1>3 DEF TitleAndBodyAreFirst

LEMMA NodesImplyCollections == NodesInv => CollectionsMeetDocument
<1> SUFFICES ASSUME NodesInv
             PROVE  CollectionsMeetDocument
  OBVIOUS
<1> DEFINE walkable(n) == tree.children[n] # <<>> \/ After(tree, n) = NULL
           all == AtOrBelow(tree, Root)
           has(n) == \E c \in ToSet(Below(tree, n)) : Kind[c] = "APPLET"
<1> SUFFICES ASSUME Root # NULL, walkable(Root)
             PROVE  /\ \A M \in {Images, Forms, Links, Anchors} : Collected(tree, M) = Hits(all, M)
                    /\ (\A n \in Are("OBJECT") \cap ToSet(all) : walkable(n)) =>
                         Collected(tree, Applets(tree)) = Hits(all, {n \in Are("OBJECT") : has(n)})
  BY DEF CollectionsMeetDocument
<1>1. IsTree(tree) /\ Nodes(tree) = Node /\ tree.null = NULL /\ Root \in Node
  BY TreeIsTree, RootIsNode DEF NodesInv
<1>2. ASSUME NEW n \in Node, walkable(n)
      PROVE  CollectionPath(tree, n) = AtOrBelow(tree, n)
  BY <1>1, <1>2, CollectionPathIsAtOrBelow
<1>3. \A M : Collected(tree, M) = Hits(all, M)
  BY <1>1, <1>2 DEF Collected
<1>4. all \in Seq(Node) /\ ToSet(all) \subseteq Node
  BY <1>1, BelowElements, ToSetOfSeq
<1>5. ASSUME NEW n \in Are("OBJECT"), walkable(n)
      PROVE  n \in Applets(tree) <=> has(n)
  <2> DEFINE path == AtOrBelow(tree, n)
             M == Are("APPLET")
  <2>1. n \in Node /\ n \notin M
    BY DEF Are
  <2>2. /\ path \in Seq(Node) /\ ToSet(path) = Reach(tree.children, {n})
        /\ ToSet(Below(tree, n)) = Under(tree.children, n)
    BY <1>1, <2>1, BelowElements
  <2>3. Reach(tree.children, {n}) = {n} \cup Under(tree.children, n)
    BY <2>1, ReachOfNode DEF NodesInv, TreeTyped
  <2>4. CollectionLength(tree, n, M) = Count(path, M)
    BY <1>2, <1>5, <2>1 DEF CollectionLength
  <2>5. has(n) <=> ToSet(path) \cap M # {}
    <3>1. ToSet(path) \subseteq Node
      BY <2>2, ToSetOfSeq
    <3> QED BY <2>1, <2>2, <2>3, <3>1 DEF Are
  <2> HIDE DEF path, M, has
  <2>6. Count(path, M) # 0 <=> ToSet(path) \cap M # {}
    BY <2>2, ItemIsNode
  <2> QED BY <2>4, <2>5, <2>6 DEF Applets, M
<1>6. ASSUME \A n \in Are("OBJECT") \cap ToSet(all) : walkable(n)
      PROVE  Hits(all, Applets(tree)) = Hits(all, {n \in Are("OBJECT") : has(n)})
  <2> DEFINE L == {n \in Are("OBJECT") : has(n)}
             M == Applets(tree)
  <2>1. \A n \in ToSet(all) : n \in M <=> n \in L
    <3>1. \A n : n \in M => n \in Are("OBJECT")
      BY DEF Applets
    <3>2. \A n \in ToSet(all) \cap Are("OBJECT") : n \in M <=> has(n)
      BY <1>5, <1>6
    <3> HIDE DEF M, has, all
    <3> QED BY <3>1, <3>2
  <2> HIDE DEF L, M, all
  <2>2. ToSet(all) \cap M = ToSet(all) \cap L
    BY <2>1
  <2>3. Hits(all, M) = Hits(all, L)
    BY <1>4, <2>2, HitsAgree
  <2> QED BY <2>3 DEF L, M
<1> QED BY <1>3, <1>6

-----------------------------------------------------------------------------
(* The theorems.                                                           *)

(* The inductive invariant of the document's fields.                       *)
THEOREM DocumentInvariance == Spec => []IInv
<1>1. Init => IInv
  BY InitInvariance
<1>2. IInv /\ [Next]_vars => IInv'
  BY NextInvariance
<1> QED BY <1>1, <1>2, PTL DEF Spec

(* A collection never outlives the tables its callback reads, in whatever  *)
(* order clients release document, elements and collections, as long as    *)
(* they never took a finalised document back                               *)
(* (_dom_html_document_finalise, dom_html_collection_unref).               *)
THEOREM CollectionsKeepTables == Spec => []CollectionsHaveTables
<1>1. Spec => []IInv
  BY DocumentInvariance
<1>2. IInv => CollectionsHaveTables
  BY InvariantImpliesTables
<1> QED BY <1>1, <1>2, PTL

(* A title has exactly the references that clients and a referenced        *)
(* document have on it, in every order of calls; only those titles are     *)
(* miscounted with which a finalised document was taken back               *)
(* (_dom_html_document_set_title, _dom_html_document_finalise).            *)
THEOREM TitlesAreCounted == Spec => []StringsCounted
<1>1. Spec => []IInv
  BY DocumentInvariance
<1>2. IInv => StringsCounted
  BY DEF IInv
<1> QED BY <1>1, <1>2, PTL

(* The inductive invariant of the document's nodes.                        *)
THEOREM NodesInvariance == Spec => []NodesInv
<1>1. Init => NodesInv
  BY InitNodes
<1>2. NodesInv /\ [Next]_vars => NodesInv'
  BY NextNodes
<1> QED BY <1>1, <1>2, PTL DEF Spec

(* Whatever is put in, taken out, collected, released and taken back, in   *)
(* whatever order: no reference that clients or a collection hold leads to *)
(* a node that is gone, and every child's parent is in use; and but for    *)
(* documents taken back after their finaliser ran, titles are counted and  *)
(* no call reads a string or a table that is gone                          *)
(* (_dom_html_document_finalise, dom_html_collection,                      *)
(* _dom_html_document_set_title).                                          *)
THEOREM ReferencesStaySound == Spec => []ReferencesAreSound
<1>1. Spec => []IInv /\ []NodesInv
  BY DocumentInvariance, NodesInvariance
<1>2. IInv /\ NodesInv => ReferencesAreSound
  BY NodesImplyTypes DEF ReferencesAreSound, IInv
<1> QED BY <1>1, <1>2, PTL

(* Title, body and the five collections are what the tree has, in document *)
(* order, however the tree came about (_dom_html_document_get_title,       *)
(* get_body, get_images, get_applets, get_links, get_forms, get_anchors).  *)
THEOREM LookupsAreSound == Spec => []LookupsMeetDocument
<1>1. Spec => []NodesInv
  BY NodesInvariance
<1>2. NodesInv => LookupsMeetDocument
  BY NodesImplyFirst, NodesImplyCollections DEF LookupsMeetDocument
<1> QED BY <1>1, <1>2, PTL
=============================================================================
