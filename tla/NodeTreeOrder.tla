--------------------------- MODULE NodeTreeOrder ----------------------------
(* NodeTree implements ChildOrder: the sequence of the children of a node  *)
(* is what one reads from its first child along next.                      *)
EXTENDS NodeTree, Sequences

(* The first n nodes from a node along step.                               *)
Chained(node, step, n) ==
  LET list[i \in 1 .. n] == IF i = 1 THEN node ELSE step[list[i - 1]]
  IN  [i \in 1 .. n |-> list[i]]

Sequence(p) == Chained(first_child[p], next, Cardinality(Children(p)))

ChildSequences == [p \in Node |-> Sequence(p)]

Order == INSTANCE ChildOrder WITH children <- ChildSequences

(* The nodes a call hands out: each call returns a reference to new, or to *)
(* the old child, so that the step has only one candidate for it.          *)
Returned == {n \in Node : held'[n] = held[n] + 1}

(* What each call does to the order, for the arguments it was given.       *)
OrderOfCall ==
  /\ \A node \in Node, new \in Returned, ref \in Node \cup {NULL} :
       /\ InsertNode(node, new, ref)     => Order!InsertBefore(node, new, ref)
       /\ InsertFragment(node, new, ref) => Order!InsertChildrenBefore(node, new, ref)
  /\ \A node, new \in Node, old \in Returned :
       ReplaceChild(node, new, old) =>
         IF Type[new] = "fragment" THEN Order!ReplaceByChildren(node, new, old)
         ELSE Order!ReplaceChild(node, new, old)
  /\ \A node \in Node, old \in Returned :
       RemoveChild(node, old) => Order!RemoveChild(node, old)
  /\ \A n \in Node :
       UnrefLast(n) => Order!Destroy(Doomed({n} \cup AbandonedOwner(n)))
  /\ ChildSequences' # ChildSequences =>
       ~ \/ Create
         \/ Count
         \/ \E node, n \in Node :
              \/ Fetch(node, n) \/ InsertSelf(node, n) \/ ReplaceSelf(node, n)
              \/ \E ref \in Node \cup {NULL} : InsertFragmentRefused(node, n, ref)

(* Every call puts what it was given exactly where it was told, before the *)
(* reference child or in the place of the old one, and nowhere else        *)
(* disturbs the order: each is the call of ChildOrder with the same        *)
(* arguments, and what is no such call leaves all sequences as they are.   *)
ImplementsOrder == Order!Init /\ [][OrderOfCall]_vars
=============================================================================
