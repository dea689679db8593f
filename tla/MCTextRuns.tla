------------------------------ MODULE MCTextRuns ------------------------------
(* An instance of TextRuns for TLC.  Each pool is a different situation:   *)
(* edits of one text; texts split; texts, CDATA and a comment in one and   *)
(* in nested elements, normalised and replaced; references on all of them. *)
EXTENDS TextRuns, TLC

CONSTANTS e1, e2, t1, t2, t3, cd, cm, x, y

MCKind == [n \in Node |-> CASE n \in {e1, e2} -> "element" [] n = cd -> "cdata"
                            [] n = cm -> "comment" [] OTHER -> "text"]

With(nodes, does, writes) == [nodes |-> nodes, does |-> does, writes |-> writes]

MCPools ==
  {With({e1, t1}, {"edit"}, {<<x>>, <<x, y>>}),
   With({e1, t1, t2, t3}, {"split", "refs"}, {<<x, y, y>>}),
   With({e1, t1, t2, cm, cd}, {"replace"}, {<<x>>}),
   With({e1, e2, t1, t2, cm}, {"replace"}, {<<x>>, <<y>>}),
   With({e1, t1, t2, e2}, {"replace", "refs"}, {<<y>>}),
   With({e1, t1, t2, t3, cd}, {"normalize"}, {<<x>>}),
   With({e1, e2, t1, t2, t3}, {"normalize"}, {<<x>>, <<y>>})}
=============================================================================
