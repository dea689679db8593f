----------------------------- MODULE NodeRules ------------------------------
(***************************************************************************)
(* The state of nodes and the rules about it that do not depend on how the *)
(* children of a node are represented (src/core/node.c): shared by         *)
(* NodeLifetime, where they are a set, and NodeTree, where they are linked.*)
(***************************************************************************)
EXTENDS Naturals, FiniteSets

CONSTANTS
  Node,      \* the node structures a run of the program may allocate
  Type,      \* the nodeType of each of them
  NULL,      \* the null pointer
  MaxRef,    \* bound: references a client holds on one node at a time
  Contract   \* what the client undertakes about document fragments

NodeType == {"document", "doctype", "element", "text", "comment",
             "fragment", "entity_reference"}

(* What a client promises about a fragment that was given to insert_before *)
(* or replace_child, after which the library no longer lists it anywhere:  *)
(*   disciplined     it only unreferences such a fragment, and it inserts  *)
(*                   fragments whose children are all permitted;           *)
(*   keeps_document  it may use it, but references its document meanwhile; *)
(*   any             nothing.                                              *)
Contracts == {"disciplined", "keeps_document", "any"}

ASSUME TypeAssumption == Type \in [Node -> NodeType]
ASSUME NullAssumption == NULL \notin Node
ASSUME BoundAssumption == MaxRef \in Nat \ {0}
ASSUME ContractAssumption == Contract \in Contracts

VARIABLES
  live,      \* nodes allocated and not yet freed
  refcnt,    \* dom_node.refcnt
  held,      \* references the client has been given and not given back
  parent,    \* dom_node_internal.parent
  owner,     \* dom_node_internal.owner
  pending    \* nodes on their owner's pending_nodes list

Documents == {n \in Node : Type[n] = "document"}

-----------------------------------------------------------------------------
(* Questions about the tree.                                               *)

Children(p) == {c \in Node : parent[c] = p}

(* Mutant: the walk up the tree stops at node.                             *)
AncestorsOrSelf_NoWalk(node) == {node}

(* node and the nodes met by following parent from it: the least set that  *)
(* contains node and the parent of each of its members.                    *)
AncestorsOrSelf(node) ==
  LET closed == {S \in SUBSET Node :
                   /\ node \in S
                   /\ \A x \in S : parent[x] # NULL => parent[x] \in S}
  IN  {a \in Node : \A S \in closed : a \in S}

(* An inserted fragment is on no list any more and in no tree.             *)
Spent(n) ==
  /\ n \in live
  /\ Type[n] = "fragment"
  /\ parent[n] = NULL
  /\ n \notin pending

Usable(n) ==
  /\ held[n] > 0
  /\ Contract = "disciplined" => ~Spent(n)

ContentTypes == {"element", "text", "comment", "entity_reference"}

PermittedTypes(t) ==
  CASE t \in {"element", "entity_reference", "fragment"} -> ContentTypes
    [] t = "document" -> {"element", "comment", "doctype"}
    [] OTHER -> {}

Readonly(node) ==
  \/ Type[node] = "doctype"
  \/ \E a \in AncestorsOrSelf(node) : Type[a] = "entity_reference"

-----------------------------------------------------------------------------
(* The end of a document.                                                  *)

(* Mutant: finalising a pending node does not look at its document.        *)
AbandonedOwner_NotChecked(node) == {}

(* A node that leaves the pending list takes its document with it when no  *)
(* one references the document (_dom_document_try_destroy).                *)
AbandonedOwner(node) ==
  {d \in Documents : /\ node \in pending
                     /\ d = owner[node]
                     /\ refcnt[d] = 0
                     /\ parent[d] = NULL}

(* Mutant: the pending list is tested before the children are destroyed.   *)
Surviving_TestedTooEarly(D, pend) ==
  {d \in D \cap Documents : \E n \in pending \ D : owner[n] = d}

(* The document destructor empties the document's tree, and frees the      *)
(* document only if that leaves its pending list empty.                    *)
Surviving(D, pend) ==
  {d \in D \cap Documents : \E n \in pend : owner[n] = d}

-----------------------------------------------------------------------------
(* The pending list.  remove_pending asserts that the node is listed; with *)
(* assertions compiled out it does nothing to one that is not.             *)

(* Mutant: the list is left alone.                                         *)
MarkPending_Forgotten(list, n) == list

MarkPending(list, n) == list \cup {n}

RemovePending(list, n) == list \ {n}

-----------------------------------------------------------------------------
(* Creation.  A new node has one reference, the caller's; every node with  *)
(* an owner starts on the pending list.                                    *)

Allocate(n, doc, pend) ==
  /\ n \notin live
  /\ live'    = live \cup {n}
  /\ refcnt'  = [refcnt EXCEPT ![n] = 1]
  /\ held'    = [held EXCEPT ![n] = 1]
  /\ owner'   = [owner EXCEPT ![n] = doc]
  /\ pending' = pend
  /\ UNCHANGED parent

CreateDocument(n) ==
  /\ Type[n] = "document"
  /\ Allocate(n, n, pending)

CreateDocumentType(n) ==
  /\ Type[n] = "doctype"
  /\ Allocate(n, NULL, pending)

CreateNode(doc, n) ==
  /\ Usable(doc)
  /\ Type[doc] = "document"
  /\ Type[n] \notin {"document", "doctype"}
  /\ Allocate(n, doc, MarkPending(pending, n))

(* clone_node without deep: the copy has the owner of the original.        *)
CloneNode(node, n) ==
  /\ Usable(node)
  /\ Type[node] \notin {"document", "doctype"}
  /\ Type[n] = Type[node]
  /\ Allocate(n, owner[node], MarkPending(pending, n))

-----------------------------------------------------------------------------
(* References.                                                             *)

TakeRef(n) ==
  /\ held[n] < MaxRef
  /\ refcnt' = [refcnt EXCEPT ![n] = @ + 1]
  /\ held'   = [held EXCEPT ![n] = @ + 1]

Ref(n) ==
  /\ held[n] > 0
  /\ TakeRef(n)
  /\ UNCHANGED <<live, parent, owner, pending>>

(* keeps_document: a document with spent fragments is referenced.          *)
MayDrop(n) ==
  Contract = "keeps_document" /\ held[n] = 1 =>
    ~ \E f \in live : Spent(f) /\ owner[f] = n

MaySpend(fragment) ==
  Contract = "keeps_document" => held[owner[fragment]] > 0

UnrefShared(n) ==
  /\ held[n] > 0
  /\ refcnt[n] > 1 \/ parent[n] # NULL
  /\ MayDrop(n)
  /\ refcnt'  = [refcnt EXCEPT ![n] = @ - 1]
  /\ held'    = [held EXCEPT ![n] = @ - 1]
  /\ UNCHANGED <<live, parent, owner, pending>>

-----------------------------------------------------------------------------
(* The arguments of calls that change the tree.                            *)

(* Mutant: document types of any document are accepted.                    *)

WrongDocument_NotOfDoctypes(node, new) ==
  owner[new] # owner[node] /\ Type[new] # "doctype"

(* A document type that was never inserted has no owner yet.               *)
WrongDocument(node, new) ==
  /\ owner[new] # owner[node]
  /\ Type[new] = "doctype" => owner[new] # NULL

InsertArguments(node, new, ref) ==
  /\ Usable(node)
  /\ Usable(new)
  /\ ref # NULL => Usable(ref)

ReplaceArguments(node, new, old) ==
  /\ Usable(node)
  /\ Usable(new)
  /\ Usable(old)

RemoveRefused(node, old) ==
  \/ Type[node] = "document" /\ Type[old] \in {"doctype", "element"}
  \/ parent[old] # node
  \/ Readonly(node)

-----------------------------------------------------------------------------
(* Before the first call.                                                  *)
NoNodes ==
  /\ live    = {}
  /\ refcnt  = [n \in Node |-> 0]
  /\ held    = [n \in Node |-> 0]
  /\ parent  = [n \in Node |-> NULL]
  /\ owner   = [n \in Node |-> NULL]
  /\ pending = {}
=============================================================================
