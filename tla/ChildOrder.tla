----------------------------- MODULE ChildOrder -----------------------------
(***************************************************************************)
(* What the tree operations promise about the order of children (the       *)
(* comments of insert_before, replace_child and remove_child in            *)
(* src/core/node.c): a node has a sequence of children.  There is one      *)
(* action for each call, with the arguments of the call as its parameters; *)
(* a module that implements them says which of its steps is which call.    *)
(***************************************************************************)
EXTENDS Naturals, SequencesExt

CONSTANTS Node, NULL

VARIABLE children   \* the sequence of children of each node

(* The lists without a node, wherever it was, and without the children of  *)
(* one.                                                                    *)
Without(n) == [q \in Node |-> RemoveFirst(children[q], n)]
WithoutThoseOf(f) == [q \in Node |-> IF q = f THEN <<>> ELSE children[q]]

(* The members of s stand between the first members of p's list, up to the *)
(* i-th, and the last ones, from the j-th.                                 *)
Between(rest, p, i, s, j) ==
  [q \in Node |->
     IF q = p THEN SubSeq(rest[p], 1, i) \o s \o SubSeq(rest[p], j, Len(rest[p]))
     ELSE rest[q]]

(* s is put into p's list directly before ref, at the end if that is NULL; *)
(* rest is what is left of the lists when s has been taken out.            *)
PutBefore(rest, p, s, ref) ==
  \E i \in 1 .. Len(rest[p]) + 1 :
    /\ IF ref = NULL THEN i = Len(rest[p]) + 1 ELSE i <= Len(rest[p]) /\ rest[p][i] = ref
    /\ children' = Between(rest, p, i - 1, s, i)

PutInstead(rest, p, s, old) ==
  \E i \in 1 .. Len(rest[p]) :
    /\ rest[p][i] = old
    /\ children' = Between(rest, p, i - 1, s, i + 1)

-----------------------------------------------------------------------------
(* The calls.  A fragment gives its children, in their order.              *)

InsertBefore(p, n, ref) == PutBefore(Without(n), p, <<n>>, ref)

InsertChildrenBefore(p, f, ref) ==
  IF children[f] = <<>> THEN UNCHANGED children
  ELSE PutBefore(WithoutThoseOf(f), p, children[f], ref)

RemoveChild(p, old) ==
  /\ old \in ToSet(children[p])
  /\ children' = Without(old)

ReplaceChild(p, n, old) == PutInstead(Without(n), p, <<n>>, old)

(* An empty fragment just removes the old child.                           *)
ReplaceByChildren(p, f, old) ==
  IF children[f] = <<>> THEN RemoveChild(p, old)
  ELSE PutInstead(WithoutThoseOf(f), p, children[f], old)

(* Some nodes are destroyed: they have no children then.                   *)
Destroy(D) == children' = [p \in Node |-> IF p \in D THEN <<>> ELSE children[p]]

Init == children = [p \in Node |-> <<>>]
=============================================================================
