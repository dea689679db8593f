----------------------------- MODULE MCNodeTree -----------------------------
(* Instances of NodeTree for TLC.                                          *)
EXTENDS NodeTreeOrder, TLC

CONSTANTS d, e1, e2, c1, c2, c3, f, t

MCType ==
  [n \in Node |-> CASE n = d -> "document"
                    [] n = f -> "fragment"
                    [] n = t -> "doctype"
                    [] n \in {e1, e2} -> "element"
                    [] n \in {c1, c2, c3} -> "comment"]

(* Nodes of one type are told apart by no action.                          *)
Symmetric == Permutations(Node \cap {e1, e2}) \cup Permutations(Node \cap {c1, c2, c3})
=============================================================================
