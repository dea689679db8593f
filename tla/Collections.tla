----------------------------- MODULE Collections -----------------------------
(***************************************************************************)
(* Counting and indexing the nodes that a walk comes by, in a tree of      *)
(* nodes.                                                                  *)
(***************************************************************************)
EXTENDS Walks

CONSTANTS
  Node,
  NULL,    \* no node
  Fault    \* what reading a field of no node leads to

ASSUME NoNodeAssumption ==
  IsFiniteSet(Node) /\ NULL \notin Node /\ Fault \notin Node /\ NULL # Fault

(* A tree: the children of each node in order, and the parent of each.     *)
TreeOf(children) == Tree(children, NULL, Fault)

Fails(path) == Fault \in ToSet(path)

Count(path, M) == IF Fails(path) THEN Fault ELSE Len(Hits(path, M))

ItemAt(path, M, i) ==
  CASE i < Len(Hits(path, M)) -> Hits(path, M)[i + 1]
    [] i >= Len(Hits(path, M)) /\ Fails(path) -> Fault
    [] OTHER -> NULL

(* The collection of the members of M at or below root.                    *)
CollectionLength(t, root, M) == Count(CollectionPath(t, root), M)

(* The index -1 is the largest there is: the hits to meet before it, one   *)
(* more than that, are none, and the walk is there where it starts.        *)
CollectionItem(t, root, M, i) ==
  LET path == CollectionPath(t, root)
  IN  CASE i # -1 -> ItemAt(path, M, i)
        [] i = -1 /\ root \notin M -> root
        [] OTHER -> IF Fails(path) THEN Fault ELSE NULL
=============================================================================
