------------------------ MODULE LiveCollectionsProofs ------------------------
(***************************************************************************)
(* Proofs about the registry of node lists and the walks.  Clients share a *)
(* list because its key matched theirs; that they are served alike follows *)
(* from what matching keys have in common, and that no two lists match     *)
(* from the search that comes before every new list.  The walks meet what  *)
(* they should because the children stay a tree (SharedLemmas).            *)
(***************************************************************************)
EXTENDS LiveCollections, SharedLemmas

TreeTyped ==
  /\ tree.children \in [Node -> Seq(Node)]
  /\ tree = TreeOf(tree.children)
  /\ IsFamily(tree.children)

RegistryTyped ==
  /\ key \in [List -> Key \cup {NULL}]
  /\ refcnt \in [List -> Nat]
  /\ asked \in [List -> SUBSET Key]
  /\ nodelists \in Seq(List)

ListsInUse ==
  /\ \A l \in List : (refcnt[l] > 0) <=> (key[l] # NULL)
  /\ IsInjective(nodelists)
  /\ ToSet(nodelists) = List \ Free

SharersMatch ==
  \A l \in List : \A k \in asked[l] : key[l] # NULL /\ Match(key[l], k)

NoTwins == \A l, m \in List \ Free : l # m => ~Match(key[l], key[m])

IInv == TreeTyped /\ RegistryTyped /\ ListsInUse /\ SharersMatch /\ NoTwins

-----------------------------------------------------------------------------
(* Keys that match are equal in what their lists look for.                 *)

LEMMA MatchIsSymmetric ==
  ASSUME NEW k, NEW l, Match(k, l)
  PROVE  Match(l, k)
BY DEF Match, Same

(* Names that are the same are the wildcard together or not at all, and    *)
(* are the same as the same names.                                         *)
LEMMA SameNamesServeAlike ==
  ASSUME NEW type, NEW a, NEW b, Same(type, a, b),
         a # NULL /\ a.word = AnyName.word => a = AnyName,
         b # NULL /\ b.word = AnyName.word => b = AnyName
  PROVE  /\ a = AnyName <=> b = AnyName
         /\ \A x : Same(type, x, a) <=> Same(type, x, b)
<1>1. CASE a = b
  BY <1>1
<1>2. CASE Fold(a) = Fold(b) /\ type \in {"by_name_caseless", "by_namespace_caseless"}
  <2>1. \A x : Same(type, x, a) <=> Same(type, x, b)
    BY <1>2 DEF Same
  <2>2. a = AnyName => b = AnyName
    BY <1>2, NameAssumption DEF Fold
  <2>3. b = AnyName => a = AnyName
    BY <1>2, NameAssumption DEF Fold
  <2> QED BY <2>1, <2>2, <2>3
<1> QED BY <1>1, <1>2 DEF Same

LEMMA MatchingKeysServeAlike ==
  ASSUME NEW k \in Key, NEW l \in Key, Match(k, l)
  PROVE  k.root = l.root /\ Counted(k) = Counted(l)
<1>1. k.root = l.root /\ k.type = l.type /\ k.type \in ListType
  BY KeyAssumption DEF Match
<1>2. /\ k.name # NULL /\ k.name.word = AnyName.word => k.name = AnyName
      /\ l.name # NULL /\ l.name.word = AnyName.word => l.name = AnyName
      /\ k.space # NULL /\ k.space.word = AnyName.word => k.space = AnyName
      /\ l.space # NULL /\ l.space.word = AnyName.word => l.space = AnyName
  BY NameAssumption
<1>3. CASE k.type = "children"
  BY <1>1, <1>3 DEF Counted
<1>4. ASSUME k.type \in ByName \cup BySpace
      PROVE  \A n \in Element : Named(k, n) <=> Named(l, n)
  <2>1. Same(k.type, k.name, l.name)
    BY <1>4 DEF Match
  <2>2. /\ k.name = AnyName <=> l.name = AnyName
        /\ \A x : Same(k.type, x, k.name) <=> Same(k.type, x, l.name)
    BY <2>1, <1>2, SameNamesServeAlike
  <2> QED BY <2>2, <1>1 DEF Named
<1>5. CASE k.type \in ByName
  <2>1. \A n \in Element : Named(k, n) <=> Named(l, n)
    BY <1>4, <1>5
  <2>2. Counted(k) = {n \in Element : Named(k, n)} /\ Counted(l) = {n \in Element : Named(l, n)}
    BY <1>1, <1>5 DEF Counted, ByName, BySpace
  <2> QED BY <1>1, <2>1, <2>2
<1>6. CASE k.type \in BySpace
  <2>1. \A n \in Element : Named(k, n) <=> Named(l, n)
    BY <1>4, <1>6
  <2>2. Same(k.type, k.space, l.space)
    BY <1>6 DEF Match
  <2>3. /\ k.space = AnyName <=> l.space = AnyName
        /\ \A x : Same(k.type, x, k.space) <=> Same(k.type, x, l.space)
    BY <2>2, <1>2, SameNamesServeAlike
  <2> DEFINE Chosen(q) ==
        {n \in Element : (q.space = AnyName \/ Same(q.type, Space[n], q.space)) /\ Named(q, n)}
  <2>4. Counted(k) = Chosen(k) /\ Counted(l) = Chosen(l)
    BY <1>1, <1>6 DEF Counted, ByName, BySpace
  <2>5. Chosen(k) = Chosen(l)
    BY <1>1, <2>1, <2>3
  <2> QED BY <1>1, <2>4, <2>5
<1> QED BY <1>1, <1>3, <1>5, <1>6 DEF ListType, ByName, BySpace

-----------------------------------------------------------------------------
(* Searching the registry.                                                 *)

LEMMA SearchFinds ==
  ASSUME NEW k, nodelists \in Seq(List),
         SelectInSeq(nodelists, LAMBDA l : Match(key[l], k)) # 0
  PROVE  LET l == nodelists[SelectInSeq(nodelists, LAMBDA x : Match(key[x], k))]
         IN  l \in ToSet(nodelists) /\ l \in List /\ Match(key[l], k)
<1> DEFINE I == {i \in 1 .. Len(nodelists) : Match(key[nodelists[i]], k)}
<1>1. I \in SUBSET Nat /\ I # {}
  BY DEF SelectInSeq
<1>2. SelectInSeq(nodelists, LAMBDA l : Match(key[l], k)) = Min(I)
  BY <1>1 DEF SelectInSeq
<1>3. Min(I) \in I
  <2> HIDE DEF I
  <2> QED BY <1>1, MinIsLeast
<1>4. Min(I) \in 1 .. Len(nodelists) /\ Match(key[nodelists[Min(I)]], k)
  BY <1>3
<1> HIDE DEF I
<1>5. nodelists[Min(I)] \in List /\ nodelists[Min(I)] \in ToSet(nodelists)
  BY <1>4 DEF ToSet
<1> QED BY <1>2, <1>4, <1>5

LEMMA SearchFails ==
  ASSUME NEW k, nodelists \in Seq(List),
         SelectInSeq(nodelists, LAMBDA l : Match(key[l], k)) = 0
  PROVE  \A l \in ToSet(nodelists) : ~Match(key[l], k)
<1> DEFINE I == {i \in 1 .. Len(nodelists) : Match(key[nodelists[i]], k)}
<1>1. SUFFICES ASSUME I # {}
               PROVE  FALSE
  BY DEF ToSet
<1>2. SelectInSeq(nodelists, LAMBDA l : Match(key[l], k)) = Min(I)
  BY <1>1 DEF SelectInSeq
<1>3. I \in SUBSET Nat
  OBVIOUS
<1>4. Min(I) \in I
  <2> HIDE DEF I
  <2> QED BY <1>1, <1>3, MinIsLeast
<1> QED BY <1>2, <1>4

-----------------------------------------------------------------------------
(* Each operation preserves the invariant.                                 *)

LEMMA TreeOfChildren ==
  ASSUME NEW ch
  PROVE  TreeOf(ch).children = ch /\ TreeOf(ch) = TreeOf(TreeOf(ch).children)
BY DEF TreeOf, Tree

(* What is said of the tree in a state is said of its value there.         *)
LEMMA PrimedTree ==
  /\ IsFamily(tree.children)' <=> IsFamily(tree'.children)
  /\ TreeOf(tree.children)' = TreeOf(tree'.children)
<1>1. IsFamily(tree.children)' <=> IsFamily(tree'.children)
  BY DEF IsFamily, Under, Reach, Closed, IsInjective, ToSet
<1>2. TreeOf(tree.children)' = TreeOf(tree'.children)
  BY DEF TreeOf, Tree, ToSet
<1> QED BY <1>1, <1>2

LEMMA TreeUnchanged ==
  ASSUME TreeTyped, UNCHANGED tree
  PROVE  TreeTyped'
BY PrimedTree DEF TreeTyped

LEMMA TreeIsTree ==
  ASSUME TreeTyped
  PROVE  /\ IsTree(tree) /\ Nodes(tree) = Node
         /\ tree.null = NULL /\ tree.fault = Fault
<1> DEFINE ch == tree.children
<1>1. DOMAIN ch = Node /\ IsFamily(ch) /\ tree = Tree(ch, NULL, Fault)
  BY DEF TreeTyped, TreeOf
<1> HIDE DEF ch
<1>2. IsTree(Tree(ch, NULL, Fault)) /\ Tree(ch, NULL, Fault).children = ch
      /\ Tree(ch, NULL, Fault).null = NULL /\ Tree(ch, NULL, Fault).fault = Fault
  BY <1>1, NoNodeAssumption, FamilyIsTree
<1> QED BY <1>1, <1>2 DEF Nodes

LEMMA InitInvariance == Init => IInv
<1> SUFFICES ASSUME Init
             PROVE  IInv
  OBVIOUS
<1>1. TreeTyped
  <2>1. [n \in Node |-> <<>>] \in [Node -> Seq(Node)]
    OBVIOUS
  <2>2. IsFamily([n \in Node |-> <<>>])
    BY NoNodeAssumption, EmptyFamily
  <2> QED BY <2>1, <2>2, TreeOfChildren DEF Init, TreeTyped
<1>2. RegistryTyped /\ Free = List
  BY DEF Init, RegistryTyped, Free
<1>3. ListsInUse
  <2>1. ToSet(nodelists) = {} /\ IsInjective(nodelists)
    BY DEF Init, ToSet, IsInjective
  <2> QED BY <2>1, <1>2 DEF Init, ListsInUse
<1>4. SharersMatch /\ NoTwins
  BY <1>2 DEF Init, SharersMatch, NoTwins
<1> QED BY <1>1, <1>2, <1>3, <1>4 DEF IInv

LEMMA ShareListInvariance ==
  ASSUME IInv, NEW k \in Key, ShareList(k)
  PROVE  IInv'
<1> DEFINE l == nodelists[SelectInSeq(nodelists, LAMBDA x : Match(key[x], k))]
<1> USE DEF IInv
<1>1. l \in ToSet(nodelists) /\ l \in List /\ Match(key[l], k)
  BY SearchFinds DEF ShareList, RegistryTyped
<1>2. /\ refcnt' = [refcnt EXCEPT ![l] = @ + 1]
      /\ asked' = [asked EXCEPT ![l] = @ \cup {k}]
      /\ UNCHANGED <<tree, key, nodelists>>
  BY DEF ShareList
<1> HIDE DEF l
<1>3. TreeTyped'
  BY <1>2, TreeUnchanged
<1>4. RegistryTyped'
  BY <1>1, <1>2 DEF RegistryTyped
<1>5. Free' = Free /\ key[l] # NULL
  BY <1>1, <1>2 DEF Free, ListsInUse
<1>6. ListsInUse'
  BY <1>1, <1>2, <1>5 DEF ListsInUse, RegistryTyped
<1>7. SharersMatch'
  BY <1>1, <1>2, <1>5 DEF SharersMatch, RegistryTyped, Match, Same, Fold
<1>8. NoTwins'
  BY <1>2, <1>5 DEF NoTwins, Match, Same, Fold
<1> QED BY <1>3, <1>4, <1>6, <1>7, <1>8

LEMMA CreateListInvariance ==
  ASSUME IInv, NEW k \in Key, NEW l \in List, CreateList(k, l)
  PROVE  IInv'
<1> USE DEF IInv
<1>1. /\ l \in Free
      /\ key' = [key EXCEPT ![l] = k]
      /\ refcnt' = [refcnt EXCEPT ![l] = 1]
      /\ nodelists' = <<l>> \o nodelists
      /\ asked' = [asked EXCEPT ![l] = {k}]
      /\ UNCHANGED tree
  BY DEF CreateList
<1>2. \A m \in List \ Free : ~Match(key[m], k)
  BY SearchFails DEF CreateList, RegistryTyped, ListsInUse
<1>3. TreeTyped'
  BY <1>1, TreeUnchanged
<1>4. RegistryTyped'
  BY <1>1 DEF RegistryTyped
<1>5. key'[l] = k /\ k # NULL /\ Free' = Free \ {l}
  BY <1>1, KeyAssumption DEF Free, RegistryTyped
<1>6. /\ Len(nodelists') = Len(nodelists) + 1
      /\ nodelists'[1] = l
      /\ \A i \in 2 .. Len(nodelists) + 1 : nodelists'[i] = nodelists[i - 1]
      /\ Len(nodelists) \in Nat
      /\ DOMAIN nodelists = 1 .. Len(nodelists)
      /\ DOMAIN nodelists' = 1 .. Len(nodelists) + 1
  BY <1>1 DEF RegistryTyped
<1>7. ASSUME NEW i \in 1 .. Len(nodelists)
      PROVE  nodelists[i] \in List \ Free /\ nodelists'[i + 1] = nodelists[i]
  <2>1. nodelists[i] \in ToSet(nodelists)
    BY <1>6 DEF ToSet
  <2>2. i + 1 \in 2 .. Len(nodelists) + 1 /\ (i + 1) - 1 = i
    BY <1>6
  <2> QED BY <2>1, <2>2, <1>6 DEF ListsInUse
<1>8. ToSet(nodelists') = ToSet(nodelists) \cup {l}
  <2>1. ToSet(nodelists') \subseteq ToSet(nodelists) \cup {l}
    <3>1. ASSUME NEW i \in 1 .. Len(nodelists) + 1, i # 1
          PROVE  i - 1 \in 1 .. Len(nodelists) /\ nodelists'[i] = nodelists[i - 1]
      BY <3>1, <1>6
    <3> QED BY <3>1, <1>6 DEF ToSet
  <2>2. ToSet(nodelists) \subseteq ToSet(nodelists')
    <3>1. \A i \in 1 .. Len(nodelists) : i + 1 \in 1 .. Len(nodelists) + 1
      BY <1>6
    <3> QED BY <3>1, <1>6, <1>7 DEF ToSet
  <2>3. l \in ToSet(nodelists')
    <3>1. 1 \in 1 .. Len(nodelists) + 1
      BY <1>6
    <3> QED BY <3>1, <1>6 DEF ToSet
  <2> QED BY <2>1, <2>2, <2>3
<1>9. IsInjective(nodelists')
  <2> SUFFICES ASSUME NEW i \in 1 .. Len(nodelists) + 1, NEW j \in 1 .. Len(nodelists) + 1,
                      nodelists'[i] = nodelists'[j], i < j
               PROVE  FALSE
    BY <1>6 DEF IsInjective
  <2>1. j - 1 \in 1 .. Len(nodelists) /\ nodelists'[j] = nodelists[j - 1]
    BY <1>6
  <2>2. CASE i = 1
    BY <2>1, <2>2, <1>1, <1>6, <1>7
  <2>3. CASE i # 1
    <3>1. i - 1 \in 1 .. Len(nodelists) /\ nodelists'[i] = nodelists[i - 1] /\ i - 1 # j - 1
      BY <2>3, <1>6
    <3> QED BY <3>1, <2>1, <1>6 DEF ListsInUse, IsInjective
  <2> QED BY <2>2, <2>3
<1>10. ListsInUse'
  <2>1. \A m \in List : (refcnt'[m] > 0) <=> (key'[m] # NULL)
    BY <1>1, <1>5 DEF ListsInUse, RegistryTyped
  <2>2. ToSet(nodelists') = List \ Free'
    BY <1>1, <1>5, <1>8 DEF ListsInUse
  <2>3. ToSet(nodelists)' = ToSet(nodelists') /\ IsInjective(nodelists)' = IsInjective(nodelists')
    BY DEF ToSet, IsInjective
  <2> QED BY <2>1, <2>2, <2>3, <1>9 DEF ListsInUse
<1>11. Match(k, k)
  BY DEF Match, Same
<1>12. SharersMatch'
  BY <1>1, <1>5, <1>11 DEF SharersMatch, RegistryTyped, Match, Same, Fold
<1>13. NoTwins'
  <2> SUFFICES ASSUME NEW m \in List \ Free', NEW n \in List \ Free', m # n
               PROVE  ~Match(key'[m], key'[n])
    BY DEF NoTwins, Match, Same, Fold
  <2>1. \A x \in List : x # l => key'[x] = key[x]
    BY <1>1 DEF RegistryTyped
  <2>2. CASE m = l
    <3>1. n \in List \ Free /\ key'[n] = key[n] /\ key'[m] = k
      BY <2>1, <2>2, <1>5
    <3> QED BY <3>1, <1>2, MatchIsSymmetric
  <2>3. CASE n = l
    <3>1. m \in List \ Free /\ key'[m] = key[m] /\ key'[n] = k
      BY <2>1, <2>3, <1>5
    <3> QED BY <3>1, <1>2
  <2>4. CASE m # l /\ n # l
    BY <2>1, <2>4, <1>5 DEF NoTwins
  <2> QED BY <2>2, <2>3, <2>4
<1> QED BY <1>3, <1>4, <1>10, <1>12, <1>13

LEMMA RefListInvariance ==
  ASSUME IInv, NEW l \in List, RefList(l)
  PROVE  IInv'
<1> USE DEF IInv
<1>1. key[l] # NULL /\ refcnt' = [refcnt EXCEPT ![l] = @ + 1] /\ UNCHANGED <<tree, key, nodelists, asked>>
  BY DEF RefList
<1>2. TreeTyped'
  BY <1>1, TreeUnchanged
<1>3. RegistryTyped' /\ Free' = Free
  BY <1>1 DEF RegistryTyped, Free
<1>4. ListsInUse'
  BY <1>1, <1>3 DEF ListsInUse, RegistryTyped
<1>5. SharersMatch' /\ NoTwins'
  BY <1>1, <1>3 DEF SharersMatch, NoTwins, Match, Same, Fold
<1> QED BY <1>2, <1>3, <1>4, <1>5

(* The last reference takes the list out of the registry; what is left is  *)
(* the lists in use.                                                       *)
LEMMA UnrefListInvariance ==
  ASSUME IInv, NEW l \in List, UnrefList(l)
  PROVE  IInv'
<1> USE DEF IInv
<1>1. key[l] # NULL /\ refcnt' = [refcnt EXCEPT ![l] = @ - 1] /\ tree' = tree
  BY DEF UnrefList
<1>2. TreeTyped'
  BY <1>1, TreeUnchanged
<1>3. refcnt[l] \in Nat /\ refcnt[l] > 0
  BY <1>1 DEF ListsInUse, RegistryTyped
<1>4. refcnt' \in [List -> Nat]
  BY <1>1, <1>3 DEF RegistryTyped
<1>5. CASE refcnt[l] = 1
  <2>1. /\ key' = [key EXCEPT ![l] = NULL]
        /\ nodelists' = RemoveFirst(nodelists, l)
        /\ asked' = [asked EXCEPT ![l] = {}]
    BY <1>5 DEF UnrefList, Unlinked
  <2>2. /\ RemoveFirst(nodelists, l) \in Seq(List)
        /\ IsInjective(RemoveFirst(nodelists, l))
        /\ ToSet(RemoveFirst(nodelists, l)) \subseteq ToSet(nodelists)
        /\ ToSet(nodelists) \subseteq ToSet(RemoveFirst(nodelists, l)) \cup {l}
        /\ l \notin ToSet(RemoveFirst(nodelists, l))
    BY RemoveFirstProperties DEF RegistryTyped, ListsInUse
  <2>3. ToSet(nodelists)' = ToSet(nodelists) \ {l} /\ IsInjective(nodelists)'
    BY <2>1, <2>2 DEF ToSet, IsInjective
  <2>4. Free' = Free \cup {l}
    BY <2>1 DEF Free, RegistryTyped
  <2>5. RegistryTyped'
    BY <2>1, <2>2, <1>4 DEF RegistryTyped
  <2>6. ListsInUse'
    <3>1. \A m \in List : (refcnt'[m] > 0) <=> (key'[m] # NULL)
      BY <1>1, <1>5, <2>1 DEF ListsInUse, RegistryTyped
    <3>2. ToSet(nodelists)' = List \ Free'
      BY <2>3, <2>4 DEF ListsInUse
    <3> QED BY <3>1, <3>2, <2>3 DEF ListsInUse
  <2>7. \A m \in List : m # l => key'[m] = key[m] /\ asked'[m] = asked[m]
    BY <2>1 DEF RegistryTyped
  <2>8. asked'[l] = {}
    BY <2>1 DEF RegistryTyped
  <2>9. SharersMatch'
    BY <2>7, <2>8 DEF SharersMatch, Match, Same, Fold
  <2>10. NoTwins'
    BY <2>4, <2>7 DEF NoTwins, Match, Same, Fold
  <2> QED BY <1>2, <2>5, <2>6, <2>9, <2>10
<1>6. CASE refcnt[l] # 1
  <2>1. UNCHANGED <<key, nodelists, asked>>
    BY <1>6 DEF UnrefList
  <2>2. RegistryTyped' /\ Free' = Free
    BY <1>4, <2>1 DEF RegistryTyped, Free
  <2>3. ListsInUse'
    BY <1>1, <1>3, <1>6, <2>1, <2>2 DEF ListsInUse, RegistryTyped
  <2>4. SharersMatch' /\ NoTwins'
    BY <2>1, <2>2 DEF SharersMatch, NoTwins, Match, Same, Fold
  <2> QED BY <1>2, <2>2, <2>3, <2>4
<1> QED BY <1>5, <1>6

(* Whatever becomes of the tree, the registry stays as it is.              *)
LEMMA TreeChangeInvariance ==
  ASSUME IInv, NEW ch \in [Node -> Seq(Node)], IsFamily(ch), tree' = TreeOf(ch),
         UNCHANGED <<key, refcnt, nodelists, asked>>
  PROVE  IInv'
<1> USE DEF IInv
<1>1. TreeTyped'
  <2>1. tree'.children = ch /\ tree' = TreeOf(tree'.children)
    BY TreeOfChildren
  <2> QED BY <2>1, PrimedTree DEF TreeTyped
<1>2. RegistryTyped' /\ Free' = Free
  BY DEF RegistryTyped, Free
<1>3. ListsInUse'
  BY <1>2 DEF ListsInUse
<1>4. SharersMatch' /\ NoTwins'
  BY <1>2 DEF SharersMatch, NoTwins, Match, Same, Fold
<1> QED BY <1>1, <1>2, <1>3, <1>4

LEMMA InsertInvariance ==
  ASSUME IInv, NEW p \in Node, NEW c \in Node, NEW i \in 1 .. Cardinality(Node), Insert(p, c, i)
  PROVE  IInv'
<1> DEFINE old == tree.children
           row == old[p]
           ch == [old EXCEPT ![p] = InsertAt(@, i, c)]
<1>1. /\ Up(tree, c) = NULL /\ p \notin ToSet(AtOrBelow(tree, c))
      /\ i \in 1 .. Len(row) + 1
      /\ tree' = TreeOf(ch)
      /\ UNCHANGED <<key, refcnt, nodelists, asked>>
  BY DEF Insert
<1>2. old \in [Node -> Seq(Node)] /\ row \in Seq(Node) /\ IsFamily(old) /\ DOMAIN old = Node
  BY DEF IInv, TreeTyped
<1>3. IsTree(tree) /\ Nodes(tree) = Node
  BY TreeIsTree DEF IInv
<1>4. p \notin Reach(old, {c})
  BY <1>1, <1>3, BelowElements
<1>5. \A q \in Node : c \notin ToSet(old[q])
  <2>1. \A q \in Node : Up(tree, c) = q <=> c \in ToSet(old[q])
    BY <1>3, ParentIsKnown
  <2> QED BY <2>1, <1>1, NoNodeAssumption
<1>6. \A q \in Node : IsInjective(old[q])
  BY <1>2 DEF IsFamily
<1>7. /\ InsertAt(row, i, c) \in Seq(Node)
      /\ ToSet(InsertAt(row, i, c)) = ToSet(row) \cup {c}
      /\ IsInjective(InsertAt(row, i, c))
  <2>1. IsInjective(row) /\ c \notin ToSet(row)
    BY <1>5, <1>6
  <2> HIDE DEF row
  <2> QED BY <1>1, <1>2, <2>1, InsertAtProperties
<1>8. ch \in [Node -> Seq(Node)] /\ ch[p] = InsertAt(row, i, c)
      /\ \A q \in Node : q # p => ch[q] = old[q]
  BY <1>2, <1>7
<1> HIDE DEF ch, old, row
<1>9. IsFamily(ch)
  <2>1. \A q \in Node : IsInjective(ch[q])
    BY <1>6, <1>7, <1>8
  <2>2. \A q \in Node : q # p => ToSet(ch[q]) \subseteq ToSet(old[q]) \ {c}
    BY <1>5, <1>8
  <2>3. ToSet(ch[p]) \subseteq ToSet(old[p]) \cup {c}
    BY <1>7, <1>8 DEF row
  <2> QED BY <1>2, <1>4, <1>8, <2>1, <2>2, <2>3, GrownFamily
<1> QED BY <1>1, <1>8, <1>9, TreeChangeInvariance

LEMMA TakeOutInvariance ==
  ASSUME IInv, NEW c \in Node, TakeOut(c)
  PROVE  IInv'
<1> DEFINE p == Up(tree, c)
           old == tree.children
           row == old[p]
           ch == [old EXCEPT ![p] = RemoveFirst(@, c)]
<1>1. p # NULL /\ tree' = TreeOf(ch) /\ UNCHANGED <<key, refcnt, nodelists, asked>>
  BY DEF TakeOut
<1>2. old \in [Node -> Seq(Node)] /\ IsFamily(old) /\ DOMAIN old = Node
  BY DEF IInv, TreeTyped
<1>3. p \in Node
  <2>1. IsTree(tree) /\ Nodes(tree) = Node /\ tree.null = NULL
    BY TreeIsTree DEF IInv
  <2> QED BY <1>1, <2>1, ParentIsKnown
<1>4. \A q \in Node : IsInjective(old[q])
  BY <1>2 DEF IsFamily
<1>5. /\ RemoveFirst(row, c) \in Seq(Node) /\ IsInjective(RemoveFirst(row, c))
      /\ ToSet(RemoveFirst(row, c)) \subseteq ToSet(row)
  <2>1. row \in Seq(Node) /\ IsInjective(row)
    BY <1>2, <1>3, <1>4
  <2> HIDE DEF row
  <2> QED BY <2>1, RemoveFirstProperties
<1>6. ch \in [Node -> Seq(Node)] /\ ch[p] = RemoveFirst(row, c)
      /\ \A q \in Node : q # p => ch[q] = old[q]
  <2> HIDE DEF p
  <2> QED BY <1>2, <1>3, <1>5
<1> HIDE DEF ch, old, row, p
<1>7. IsFamily(ch)
  <2>1. \A q \in Node : IsInjective(ch[q]) /\ ToSet(ch[q]) \subseteq ToSet(old[q])
    BY <1>4, <1>5, <1>6 DEF row
  <2> QED BY <1>2, <1>6, <2>1, ShrunkFamily
<1> QED BY <1>1, <1>6, <1>7, TreeChangeInvariance

-----------------------------------------------------------------------------
(* What a list counts and what it gives by index.                          *)

(* A path inside the tree fails nowhere: what is counted on it are its     *)
(* members, and each has an index.                                         *)
LEMMA CountAndItem ==
  ASSUME NEW path \in Seq(Node), NEW M, NEW i \in Nat
  PROVE  (i < Count(path, M)) <=> (ItemAt(path, M, i) # NULL)
<1> DEFINE hits == Hits(path, M)
<1>1. hits \in Seq(Node)
  BY HitsProperties
<1> HIDE DEF hits
<1>2. Len(hits) \in Nat /\ \A j \in 1 .. Len(hits) : hits[j] \in Node
  BY <1>1, LenProperties, ElementOfSeq
<1>3. ~ Fails(path)
  BY ToSetOfSeq, NoNodeAssumption DEF Fails
<1>4. Count(path, M) = Len(hits)
  BY <1>3 DEF Count, hits
<1>5. CASE i < Len(hits)
  <2>1. i + 1 \in 1 .. Len(hits)
    BY <1>2, <1>5
  <2>2. ItemAt(path, M, i) = hits[i + 1]
    BY <1>2, <1>3, <1>5 DEF ItemAt, hits
  <2> QED BY <2>1, <2>2, <1>2, <1>4, <1>5, NoNodeAssumption
<1>6. CASE ~ (i < Len(hits))
  <2>1. ItemAt(path, M, i) = NULL
    BY <1>3, <1>6 DEF ItemAt, hits
  <2> QED BY <2>1, <1>4, <1>6
<1> QED BY <1>5, <1>6

LEMMA PathIsInside ==
  ASSUME TreeTyped, NEW k \in Key
  PROVE  Path(k) \in Seq(Node)
<1>1. k.root \in Node
  BY KeyAssumption
<1>2. CASE k.type = "children"
  BY <1>1, <1>2 DEF Path, TreeTyped
<1>3. CASE k.type # "children"
  <2>1. ListPath(tree, k.root) = Below(tree, k.root) /\ Below(tree, k.root) \in Seq(Node)
    BY <1>1, TreeIsTree, ListPathIsBelow, BelowElements
  <2> QED BY <1>3, <2>1 DEF Path
<1> QED BY <1>2, <1>3

LEMMA IndexedIsCounted ==
  ASSUME NEW k \in Key, k.type \in BySpace => k.space # NULL
  PROVE  Indexed(k) = Counted(k)
<1>1. CASE k.type \notin BySpace
  BY <1>1 DEF Indexed
<1>2. CASE k.type \in BySpace
  <2>1. k.space.word # NULL /\ k.space # NULL
    BY <1>2, NameAssumption
  <2>2. \A n : Same(k.type, Space[n], k.space) => Space[n] # NULL
    BY <2>1 DEF Same, Fold
  <2>3. k.type # "children" /\ k.type \notin ByName
    BY <1>2 DEF BySpace, ByName
  <2>4. \A n \in Counted(k) : k.space = AnyName \/ Space[n] # NULL
    BY <1>2, <2>2, <2>3 DEF Counted
  <2> QED BY <1>2, <2>4 DEF Indexed
<1> QED BY <1>1, <1>2

LEMMA TreeImpliesWalks == TreeTyped => WalksMeetSubtree
<1> SUFFICES ASSUME TreeTyped
             PROVE  WalksMeetSubtree
  OBVIOUS
<1>1. IsTree(tree) /\ Nodes(tree) = Node /\ tree.null = NULL
  BY TreeIsTree
<1>2. ListsMeetSubtree
  BY <1>1, ListPathIsBelow DEF ListsMeetSubtree
<1>3. CollectionsMeetSubtree
  BY <1>1, CollectionPathIsAtOrBelow, IdPathIsAtOrBelow DEF CollectionsMeetSubtree
<1>4. EveryIndexHasItem
  <2> SUFFICES ASSUME NEW k \in Key, NEW i \in 0 .. Cardinality(Node),
                      k.type \in BySpace => k.space # NULL
               PROVE  (i < GetLength(k)) <=> (Item(k, i) # NULL)
    BY DEF EveryIndexHasItem
  <2>1. i \in Nat
    OBVIOUS
  <2>2. Indexed(k) = Counted(k)
    BY IndexedIsCounted
  <2>3. (i < Count(Path(k), Counted(k))) <=> (ItemAt(Path(k), Counted(k), i) # NULL)
    BY <2>1, PathIsInside, CountAndItem
  <2> QED BY <2>2, <2>3 DEF GetLength, Item
<1> QED BY <1>2, <1>3, <1>4 DEF WalksMeetSubtree

-----------------------------------------------------------------------------
(* The theorems.                                                           *)

LEMMA NextInvariance == IInv /\ [Next]_vars => IInv'
<1> SUFFICES ASSUME IInv, [Next]_vars
             PROVE  IInv'
  OBVIOUS
<1>1. ASSUME NEW k \in Key, ShareList(k) \/ \E l \in List : CreateList(k, l)
      PROVE  IInv'
  BY <1>1, ShareListInvariance, CreateListInvariance
<1>2. ASSUME NEW l \in List, RefList(l) \/ UnrefList(l)
      PROVE  IInv'
  BY <1>2, RefListInvariance, UnrefListInvariance
<1>3. ASSUME NEW p \in Node, NEW c \in Node, NEW i \in 1 .. Cardinality(Node), Insert(p, c, i)
      PROVE  IInv'
  BY <1>3, InsertInvariance
<1>4. ASSUME NEW c \in Node, TakeOut(c)
      PROVE  IInv'
  BY <1>4, TakeOutInvariance
<1>5. CASE UNCHANGED vars
  <2>1. TreeTyped'
    BY <1>5, TreeUnchanged DEF IInv, vars
  <2> QED BY <2>1, <1>5 DEF IInv, RegistryTyped, ListsInUse, SharersMatch, NoTwins, Free,
                            Match, Same, Fold, vars
<1> QED BY <1>1, <1>2, <1>3, <1>4, <1>5 DEF Next

LEMMA InvariantImpliesSoundness == IInv => RegistryIsSound
<1> SUFFICES ASSUME IInv
             PROVE  RegistryIsSound
  OBVIOUS
<1> USE DEF IInv
<1>1. TypeOK
  <2>1. \A n \in Node : tree.children[n] \in Seq(Node)
    BY DEF TreeTyped
  <2>2. Len(nodelists) = Cardinality(List \ Free)
    BY LengthIsCardinality DEF RegistryTyped, ListsInUse
  <2> QED BY <2>1, <2>2 DEF TypeOK, RegistryTyped, ListsInUse
<1>2. ASSUME NEW l \in List, NEW k \in asked[l]
      PROVE  key[l].root = k.root /\ Counted(key[l]) = Counted(k)
  <2>1. key[l] \in Key /\ k \in Key /\ Match(key[l], k)
    BY DEF SharersMatch, RegistryTyped
  <2> QED BY <2>1, MatchingKeysServeAlike
<1> QED BY <1>1, <1>2 DEF RegistryIsSound, SharingIsSound, NoTwins

(* The inductive invariant of the registry.                                *)
THEOREM RegistryInvariance == Spec => []IInv
<1>1. Init => IInv
  BY InitInvariance
<1>2. IInv /\ [Next]_vars => IInv'
  BY NextInvariance
<1> QED BY <1>1, <1>2, PTL DEF Spec

(* A client is never served by a list that looks for something else than   *)
(* its key says, no two lists in use answer the same key, and the registry *)
(* has exactly the lists in use, however they are shared and given up and  *)
(* whatever becomes of the tree (_dom_document_get_nodelist,               *)
(* _dom_nodelist_match, dom_nodelist_unref).                               *)
THEOREM SharedListsAreSound == Spec => []RegistryIsSound
<1>1. Spec => []IInv
  BY RegistryInvariance
<1>2. IInv => RegistryIsSound
  BY InvariantImpliesSoundness
<1> QED BY <1>1, <1>2, PTL

(* Whatever is put in and taken out, the walk of every list meets exactly  *)
(* the nodes below its root, once each in document order, and ends inside; *)
(* so do those of collections and of getElementById, where their root has  *)
(* children; and a list has an item at exactly the indices below its       *)
(* length (core/nodelist.c, html/html_collection.c, getElementById).       *)
THEOREM WalksAreSound == Spec => []WalksMeetSubtree
<1>1. Spec => []IInv
  BY RegistryInvariance
<1>2. IInv => WalksMeetSubtree
  BY TreeImpliesWalks DEF IInv
<1> QED BY <1>1, <1>2, PTL
=============================================================================
