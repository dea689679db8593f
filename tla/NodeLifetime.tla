---------------------------- MODULE NodeLifetime ----------------------------
(***************************************************************************)
(* Reference counts, the pending-deletion list and the life of a document  *)
(* (src/core/node.c, src/core/document.c, docs/RefCnt).                    *)
(*                                                                         *)
(* A node does not reference its document.  A document knows the nodes it  *)
(* owns in one of two ways: they hang in a tree below it, or the root of   *)
(* their tree is on its list of nodes pending deletion.  The document may  *)
(* only be freed when both are empty.  This module keeps, for every node,  *)
(* what decides that: the parent link, the reference count, membership of  *)
(* the pending list and the owner.  The order of siblings is abstracted    *)
(* here (the children of p are the nodes whose parent is p); it is the     *)
(* subject of module NodeTree, which implements this one.                  *)
(*                                                                         *)
(* The library is single threaded: a call runs to its end, so one action   *)
(* is one call with everything it does, the destruction cascade included.  *)
(* Mutation events fire inside these calls; the listeners are assumed here *)
(* not to change the tree.  A call refused by one of its first checks      *)
(* changes nothing and is a stuttering step.                               *)
(***************************************************************************)
EXTENDS NodeRules

vars == <<live, refcnt, held, parent, owner, pending>>

-----------------------------------------------------------------------------
(* Questions about the tree.                                               *)

(* A document takes one element and one document type.                     *)
PermittedChild(node, child) ==
  /\ Type[child] \in PermittedTypes(Type[node])
  /\ Type[node] = "document" /\ Type[child] \in {"element", "doctype"}
       => \A c \in Children(node) : Type[c] # Type[child]

-----------------------------------------------------------------------------
(* Destruction.  Destroying a node destroys those of its children nobody   *)
(* references, and so on down; the referenced ones lose their parent.      *)

(* Mutants: the reference counts of children are ignored; children are     *)
(* only detached.                                                          *)
Doomed_IgnoringCounts(roots) ==
  {x \in Node : \A S \in SUBSET Node :
     /\ roots \subseteq S
     /\ \A c \in Node : parent[c] \in S => c \in S
     => x \in S}

Doomed_RootsOnly(roots) == roots

Doomed(roots) ==
  LET closed == {S \in SUBSET Node :
                   /\ roots \subseteq S
                   /\ \A c \in Node : parent[c] \in S /\ refcnt[c] = 0 => c \in S}
  IN  {x \in Node : \A S \in closed : x \in S}

(* Mutant: surviving children keep their parent link.                      *)
Orphans_Forgotten(D) == {}

Orphans(D) == {c \in Node \ D : parent[c] \in D}

Destroy(node) ==
  \E D \in {Doomed({node} \cup AbandonedOwner(node))} :
    LET pend  == (pending \ D) \cup Orphans(D)
        freed == D \ Surviving(D, pend)
    IN  /\ live'    = live \ freed
        /\ pending' = pend
        /\ parent'  = [n \in Node |->
                         IF n \in D \cup Orphans(D) THEN NULL ELSE parent[n]]
        /\ owner'   = [n \in Node |-> IF n \in freed THEN NULL ELSE owner[n]]
        /\ refcnt'  = [refcnt EXCEPT ![node] = 0]
        /\ held'    = [held EXCEPT ![node] = 0]

-----------------------------------------------------------------------------
(* References.                                                             *)

(* What a getter of node can return: its parent, a child, a sibling or its *)
(* document.                                                               *)
Relatives(node) ==
  ( {parent[node]} \cup Children(node)
    \cup (IF parent[node] = NULL THEN {} ELSE Children(parent[node]))
    \cup (IF node \in Documents THEN {} ELSE {owner[node]}) ) \ {NULL}

Fetch(node, n) ==
  /\ Usable(node)
  /\ n \in Relatives(node) \cap live
  /\ TakeRef(n)
  /\ UNCHANGED <<live, parent, owner, pending>>

UnrefLast(n) ==
  /\ held[n] > 0
  /\ refcnt[n] = 1
  /\ parent[n] = NULL
  /\ MayDrop(n)
  /\ Destroy(n)

-----------------------------------------------------------------------------
(* insert_before (append_child passes NULL for ref).                       *)

InsertRefused(node, new, ref) ==
  \/ WrongDocument(node, new)
  \/ ref # NULL /\ parent[ref] # node
  \/ Type[new] # "fragment" /\ ~PermittedChild(node, new)
  \/ Readonly(node)
  \/ new \in AncestorsOrSelf(node)
  \/ new # ref /\ parent[new] # NULL /\ Readonly(parent[new])

(* Inserting a node before itself does nothing but return it.              *)
InsertSelf(node, new) ==
  /\ InsertArguments(node, new, new)
  /\ ~InsertRefused(node, new, new)
  /\ TakeRef(new)
  /\ UNCHANGED <<live, parent, owner, pending>>

(* A node that has a parent is detached first, which lists it as pending,  *)
(* and then taken off the list like any other.                             *)
InsertNode(node, new, ref) ==
  /\ InsertArguments(node, new, ref)
  /\ Type[new] # "fragment"
  /\ new # ref
  /\ ~InsertRefused(node, new, ref)
  /\ parent'  = [parent EXCEPT ![new] = node]
  /\ pending' = RemovePending(pending, new)
  /\ owner'   = [owner EXCEPT ![new] =
                   IF Type[node] = "document" /\ Type[new] = "doctype"
                   THEN node ELSE @]
  /\ TakeRef(new)
  /\ UNCHANGED live

AllPermitted(node, fragment) ==
  \A c \in Children(fragment) : PermittedChild(node, c)

(* The children move; the fragment itself leaves the pending list.         *)
InsertFragment(node, new, ref) ==
  /\ InsertArguments(node, new, ref)
  /\ Type[new] = "fragment"
  /\ ~InsertRefused(node, new, ref)
  /\ AllPermitted(node, new)
  /\ MaySpend(new)
  /\ parent'  = [c \in Node |-> IF parent[c] = new THEN node ELSE parent[c]]
  /\ pending' = RemovePending(pending, new)
  /\ TakeRef(new)
  /\ UNCHANGED <<live, owner>>

(* The children of a fragment are tested after it left the pending list.   *)
InsertFragmentRefused(node, new, ref) ==
  /\ Contract # "disciplined"
  /\ InsertArguments(node, new, ref)
  /\ Type[new] = "fragment"
  /\ ~InsertRefused(node, new, ref)
  /\ ~AllPermitted(node, new)
  /\ MaySpend(new)
  /\ pending' = RemovePending(pending, new)
  /\ UNCHANGED <<live, refcnt, held, parent, owner>>

-----------------------------------------------------------------------------
(* replace_child and remove_child.                                         *)

ReplaceRefused(node, new, old) ==
  \/ Type[node] = "document" /\ Type[new] \in {"doctype", "element"}
  \/ owner[new] # owner[node]
  \/ parent[old] # node
  \/ Readonly(node)
  \/ new \in AncestorsOrSelf(node)
  \/ Type[new] = "fragment" /\ ~AllPermitted(node, new)
  \/ Type[new] # "fragment" /\ ~PermittedChild(node, new)
  \/ new # old /\ parent[new] # NULL /\ Readonly(parent[new])

ReplaceSelf(node, old) ==
  /\ ReplaceArguments(node, old, old)
  /\ ~ReplaceRefused(node, old, old)
  /\ TakeRef(old)
  /\ UNCHANGED <<live, parent, owner, pending>>

(* The replacement is new, or all the children of a fragment; old becomes  *)
(* a detached node, which the pending list holds.  An empty fragment may   *)
(* only replace an only child here: among siblings the call breaks the     *)
(* sibling list, which NodeTree shows.                                     *)
ReplaceChild(node, new, old) ==
  LET moved == IF Type[new] = "fragment" THEN Children(new) ELSE {new}
  IN  /\ ReplaceArguments(node, new, old)
      /\ new # old
      /\ ~ReplaceRefused(node, new, old)
      /\ Type[new] = "fragment" => MaySpend(new)
      /\ moved = {} => Children(node) = {old}
      /\ parent'  = [c \in Node |-> IF c \in moved THEN node
                                    ELSE IF c = old THEN NULL ELSE parent[c]]
      /\ pending' = MarkPending(RemovePending(pending, new), old)
      /\ TakeRef(old)
      /\ UNCHANGED <<live, owner>>

RemoveChild(node, old) ==
  /\ Usable(node)
  /\ Usable(old)
  /\ ~RemoveRefused(node, old)
  /\ parent'  = [parent EXCEPT ![old] = NULL]
  /\ pending' = MarkPending(pending, old)
  /\ TakeRef(old)
  /\ UNCHANGED <<live, owner>>

-----------------------------------------------------------------------------
Init == NoNodes

Next ==
  \/ \E n \in Node : \/ CreateDocument(n)
                     \/ CreateDocumentType(n)
                     \/ Ref(n)
                     \/ UnrefShared(n)
                     \/ UnrefLast(n)
  \/ \E node, n \in Node : \/ CreateNode(node, n)
                           \/ CloneNode(node, n)
                           \/ Fetch(node, n)
                           \/ InsertSelf(node, n)
                           \/ ReplaceSelf(node, n)
                           \/ RemoveChild(node, n)
  \/ \E node, new \in Node, ref \in Node \cup {NULL} :
                           \/ InsertNode(node, new, ref)
                           \/ InsertFragment(node, new, ref)
                           \/ InsertFragmentRefused(node, new, ref)
  \/ \E node, new, old \in Node : ReplaceChild(node, new, old)

Spec == Init /\ [][Next]_vars

-----------------------------------------------------------------------------
(* Properties.                                                             *)

(* Types; the links of live nodes lead to live nodes and those of freed    *)
(* ones are gone; documents own themselves; what can have no parent has    *)
(* none, what can have no owner is a document type outside a document.     *)
TypeOK ==
  /\ live \subseteq Node
  /\ refcnt \in [Node -> Nat]
  /\ held \in [Node -> Nat]
  /\ parent \in [Node -> live \cup {NULL}]
  /\ owner \in [Node -> Documents \cup {NULL}]
  /\ pending \subseteq live
  /\ \A n \in Node \ live : parent[n] = NULL /\ owner[n] = NULL
  /\ \A n \in live : owner[n] = NULL => Type[n] = "doctype" /\ parent[n] = NULL
  /\ \A n \in live \cap Documents : owner[n] = n
  /\ \A n \in live : parent[n] # NULL =>
       /\ Type[n] \notin {"document", "fragment"}
       /\ Type[parent[n]] # "doctype"

(* The reference count of a node is the number of references its clients   *)
(* hold, and nobody holds a reference on freed memory: no call takes or    *)
(* gives back a reference on its own account, no destruction reaches a     *)
(* referenced node.                                                        *)
CountsAgree ==
  \A n \in Node : /\ refcnt[n] = held[n]
                  /\ held[n] > 0 => n \in live

(* A node is in a tree below another node or on the pending list, never    *)
(* both (comment in _dom_node_initialise).                                 *)
PendingIsDetached ==
  \A n \in pending : parent[n] = NULL /\ owner[n] # NULL /\ n \notin Documents

(* And it is on one of them: a live node without parent that has an owner  *)
(* is pending.  Inserted fragments, and those a late check refused, are    *)
(* not: insert_before takes them off the list for good.                    *)
DetachedIsPending ==
  \A n \in live \ Documents :
    parent[n] = NULL /\ owner[n] # NULL => n \in pending \/ Spent(n)

(* The pending lists hold exactly the roots of the trees outside documents. *)
PendingIsExact == PendingIsDetached /\ DetachedIsPending

(* Documents outlive their nodes: as long as a node is live, so is its     *)
(* document, through every order of releasing the two.  (Spent fragments   *)
(* are the exception; a disciplined client does not look at their owner.)  *)
OwnerOutlivesNode ==
  \A n \in live : owner[n] # NULL /\ ~Spent(n) => owner[n] \in live

(* The pending list holds nodes in use by clients (docs/RefCnt): a node    *)
(* without parent that nobody references is destroyed at once, not kept.   *)
DetachedIsInUse ==
  \A n \in live \ Documents : parent[n] = NULL => refcnt[n] > 0

(* An unreferenced document has no tree left and is only kept for the      *)
(* nodes on its pending list.                                              *)
ZombieDocument ==
  \A d \in live \cap Documents :
    refcnt[d] = 0 => /\ Children(d) = {}
                     /\ \E n \in pending : owner[n] = d

(* What is kept is needed: a node outside every tree by a client, an       *)
(* unreferenced document by such a node.                                   *)
KeptIsNeeded == DetachedIsInUse /\ ZombieDocument

(* When the last reference is given back, nothing is left allocated,       *)
(* whatever the trees, fragments and documents were and in whichever order *)
(* they were released.                                                     *)
NoLeak == (\A n \in Node : held[n] = 0) => live = {}

(* No node is its own ancestor: every non-empty set of nodes has a member  *)
(* whose parent is outside it.                                             *)
Acyclic ==
  \A S \in SUBSET Node : S # {} => \E x \in S : parent[x] \notin S

(* A node and its parent have the same owner.                              *)
SameOwner ==
  \A n \in live : parent[n] # NULL => owner[n] = owner[parent[n]]

(* However nodes are moved, the parent links form trees, each inside one   *)
(* document.                                                               *)
TreesInOneDocument == Acyclic /\ SameOwner

(* A node changes its document never: what frees and keeps documents is    *)
(* decided by the owner a node was given first (a document type when it is *)
(* inserted, any other node when it is created).                           *)
OwnerForLife ==
  [][\A n \in live \cap live' : owner[n] # NULL => owner'[n] = owner[n]]_vars

(* A reference on a node keeps its whole subtree allocated: destruction    *)
(* takes no node with an ancestor that is referenced before and after.     *)
HeldSubtreeSurvives ==
  [][\A n \in live \ live' :
       \A a \in AncestorsOrSelf(n) : ~(held[a] > 0 /\ held'[a] > 0)]_vars
=============================================================================
