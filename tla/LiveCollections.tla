--------------------------- MODULE LiveCollections ---------------------------
(***************************************************************************)
(* Live collections (src/core/nodelist.c, src/html/html_collection.c) and  *)
(* the registry by which a document shares its node lists                  *)
(* (src/core/document.c).  A list is got by a key: its root, its type and  *)
(* what it looks for; a list with a matching key is given again for as     *)
(* long as a reference on it remains.  Lists are not stored: every query   *)
(* walks the tree as it is then.                                           *)
(***************************************************************************)
EXTENDS Collections, FiniteSets

CONSTANTS
  Document,   \* the node that is the document
  Element,    \* the nodes that are elements; others are text
  Name,       \* [Node -> names]; a name is [word |-> w, upper |-> BOOLEAN]
  Space,      \* [Node -> namespaces or NULL], a namespace being as a name
  Key,        \* the keys clients ask for: [root, type, name, space]
  List,       \* the list structures of a run
  MaxRefs,    \* bound: references on one list
  MaxLoad     \* bound: nodes that have a parent and lists in use together

AnyName == [word |-> "*", upper |-> FALSE]
ListType == {"children", "by_name", "by_name_caseless", "by_namespace",
             "by_namespace_caseless"}

ASSUME NodesAssumption == Element \subseteq Node \ {Document} /\ Document \in Node
ASSUME BoundsAssumption == MaxRefs \in Nat /\ MaxLoad \in Nat
ASSUME KeyAssumption ==
  /\ \A k \in Key : k.root \in Node /\ k.type \in ListType
  /\ NULL \notin Key
ASSUME NameAssumption ==  \* there is no other case of "*"
  /\ NULL # AnyName.word /\ NULL # AnyName
  /\ \A k \in Key : \A name \in {k.name, k.space} \ {NULL} :
       name.word # NULL /\ (name.word = AnyName.word => name = AnyName)

VARIABLES
  tree,       \* the children and parent of each node
  key,        \* the key each list was created with, NULL if it is not there
  refcnt,     \* dom_nodelist.refcnt
  nodelists,  \* dom_document.nodelists: the lists, newest first
  asked       \* the keys for which a list was given to clients

vars == <<tree, key, refcnt, nodelists, asked>>

Fold(name) == IF name = NULL THEN NULL ELSE name.word

(* Equality of names, exact or caseless.                                   *)
Same(type, a, b) ==
  IF type \in {"by_name_caseless", "by_namespace_caseless"}
  THEN Fold(a) = Fold(b) ELSE a = b

ByName == {"by_name", "by_name_caseless"}
BySpace == {"by_namespace", "by_namespace_caseless"}

-----------------------------------------------------------------------------
(* The nodes a list counts, and the nodes it gives by index.               *)

Named(k, n) == k.name = AnyName \/ Same(k.type, Name[n], k.name)

Counted(k) ==
  CASE k.type = "children" -> ToSet(tree.children[k.root])
    [] k.type \in ByName -> {n \in Element : Named(k, n)}
    [] k.type \in BySpace ->
         {n \in Element : (k.space = AnyName \/ Same(k.type, Space[n], k.space))
                            /\ Named(k, n)}

(* Indexing a list by namespace requires that a node has one.              *)
Indexed(k) ==
  IF k.type \in BySpace
  THEN {n \in Counted(k) : k.space = AnyName \/ Space[n] # NULL}
  ELSE Counted(k)

Path(k) ==
  IF k.type = "children" THEN tree.children[k.root] ELSE ListPath(tree, k.root)

GetLength(k) == Count(Path(k), Counted(k))
Item(k, i) == ItemAt(Path(k), Indexed(k), i)

-----------------------------------------------------------------------------
(* The registry.                                                           *)

(* Mutant: the root is not compared.                                       *)
Match_AnyRoot(k, l) ==
  k.type = l.type /\ Same(k.type, k.name, l.name) /\ Same(k.type, k.space, l.space)

Match(k, l) ==
  /\ k.root = l.root
  /\ k.type = l.type
  /\ k.type \in ByName \cup BySpace => Same(k.type, k.name, l.name)
  /\ k.type \in BySpace => Same(k.type, k.space, l.space)

Free == {l \in List : key[l] = NULL}

Placed == {n \in Node : Up(tree, n) # NULL}
Load == Cardinality(Placed) + Cardinality(List \ Free)

ShareList(k) ==
  LET i == SelectInSeq(nodelists, LAMBDA l : Match(key[l], k))
      l == nodelists[i]
  IN  /\ i # 0
      /\ refcnt[l] < MaxRefs
      /\ refcnt' = [refcnt EXCEPT ![l] = @ + 1]
      /\ asked' = [asked EXCEPT ![l] = @ \cup {k}]
      /\ UNCHANGED <<tree, key, nodelists>>

CreateList(k, l) ==
  /\ SelectInSeq(nodelists, LAMBDA x : Match(key[x], k)) = 0
  /\ l \in Free
  /\ Load < MaxLoad
  /\ key' = [key EXCEPT ![l] = k]
  /\ refcnt' = [refcnt EXCEPT ![l] = 1]
  /\ nodelists' = <<l>> \o nodelists
  /\ asked' = [asked EXCEPT ![l] = {k}]
  /\ UNCHANGED tree

RefList(l) ==
  /\ key[l] # NULL /\ refcnt[l] < MaxRefs
  /\ refcnt' = [refcnt EXCEPT ![l] = @ + 1]
  /\ UNCHANGED <<tree, key, nodelists, asked>>

Unlinked(l) == RemoveFirst(nodelists, l)

UnrefList(l) ==
  /\ key[l] # NULL
  /\ refcnt' = [refcnt EXCEPT ![l] = @ - 1]
  /\ IF refcnt[l] = 1
     THEN /\ key' = [key EXCEPT ![l] = NULL]
          /\ nodelists' = Unlinked(l)
          /\ asked' = [asked EXCEPT ![l] = {}]
     ELSE UNCHANGED <<key, nodelists, asked>>
  /\ UNCHANGED tree

-----------------------------------------------------------------------------
(* The tree, as its operations leave it (module ChildOrder).               *)

Insert(p, c, i) ==
  /\ c # Document /\ p \in Element \cup {Document} /\ Up(tree, c) = NULL
  /\ p \notin ToSet(AtOrBelow(tree, c))
  /\ Load < MaxLoad
  /\ i \in 1 .. Len(tree.children[p]) + 1
  /\ tree' = TreeOf([tree.children EXCEPT ![p] = InsertAt(@, i, c)])
  /\ UNCHANGED <<key, refcnt, nodelists, asked>>

TakeOut(c) ==
  /\ Up(tree, c) # NULL
  /\ tree' = TreeOf([tree.children EXCEPT ![Up(tree, c)] = RemoveFirst(@, c)])
  /\ UNCHANGED <<key, refcnt, nodelists, asked>>

Init ==
  /\ tree = TreeOf([n \in Node |-> <<>>])
  /\ key = [l \in List |-> NULL]
  /\ refcnt = [l \in List |-> 0]
  /\ nodelists = <<>>
  /\ asked = [l \in List |-> {}]

Next ==
  \/ \E k \in Key : ShareList(k) \/ \E l \in List : CreateList(k, l)
  \/ \E l \in List : RefList(l) \/ UnrefList(l)
  \/ \E p, c \in Node : \E i \in 1 .. Cardinality(Node) : Insert(p, c, i)
  \/ \E c \in Node : TakeOut(c)

Spec == Init /\ [][Next]_vars

-----------------------------------------------------------------------------
(* Type invariant, with the registry's: it lists the lists in use, each    *)
(* once.                                                                   *)
TypeOK ==
  /\ \A n \in Node : tree.children[n] \in Seq(Node)
  /\ key \in [List -> Key \cup {NULL}]
  /\ \A l \in List : (refcnt[l] > 0) <=> (key[l] # NULL)
  /\ ToSet(nodelists) = List \ Free
  /\ Len(nodelists) = Cardinality(List \ Free)

(* A list that is shared gives every client that has it what a list of its *)
(* own would have given it, and no two lists in use answer the same key    *)
(* (_dom_document_get_nodelist, _dom_nodelist_match).                      *)
SharingIsSound ==
  /\ \A l \in List : \A k \in asked[l] :
       key[l].root = k.root /\ Counted(key[l]) = Counted(k)
  /\ \A l, m \in List \ Free : l # m => ~Match(key[l], key[m])

(* The registry lists the lists in use, and each can serve who shares it.  *)
RegistryIsSound == TypeOK /\ SharingIsSound

(* Whatever the tree, walking a list meets the nodes below its root, once  *)
(* each in document order, and comes to an end inside: so its length is    *)
(* the number of nodes it looks for, and indexing finds each of them.      *)
ListsMeetSubtree ==
  \A root \in Node : ListPath(tree, root) = Below(tree, root)

(* The same of a collection, whose walk starts with the root, when the     *)
(* root has children or no next sibling, and of getElementById when it has *)
(* children: otherwise they walk on outside.                               *)
CollectionsMeetSubtree ==
  \A root \in Node :
    /\ tree.children[root] # <<>> \/ After(tree, root) = NULL =>
         CollectionPath(tree, root) = AtOrBelow(tree, root)
    /\ tree.children[root] # <<>> =>
         IdPath(tree, root) = AtOrBelow(tree, root)

(* Every index below the length of a list has an item, and no other has:   *)
(* for the lists that look for no namespace, length and index disagree     *)
(* (core/nodelist.c:254).                                                  *)
EveryIndexHasItem ==
  \A k \in Key : \A i \in 0 .. Cardinality(Node) :
    (k.type \in BySpace => k.space # NULL) =>
      ((i < GetLength(k)) <=> (Item(k, i) # NULL))

(* The walks meet what they should, so that clients can go through a list  *)
(* by index and see each of its nodes once.                                *)
WalksMeetSubtree == ListsMeetSubtree /\ CollectionsMeetSubtree /\ EveryIndexHasItem
=============================================================================
