--------------------------- MODULE MCNodeLifetime ---------------------------
(* Instances of NodeLifetime for TLC.                                      *)
EXTENDS NodeLifetime, TLC

CONSTANTS d, g, e1, e2, f, t

MCType ==
  [n \in Node |->
     CASE n \in {d, g} -> "document"
       [] n \in {e1, e2} -> "element"
       [] n = f -> "fragment"
       [] n = t -> "doctype"]

(* Nodes of one type are told apart by no action.                          *)
Symmetric == Permutations(Documents) \cup Permutations({e1, e2})
=============================================================================
