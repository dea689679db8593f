----------------------------- MODULE MCHTMLForms -----------------------------
(* An instance of HTMLForms for TLC.  Each pool is a different situation:  *)
(* a select with options and a group; a form with controls and an option;  *)
(* an input and its copy; a text area and its copy.                        *)
EXTENDS HTMLForms, TLC

CONSTANTS doc, f1, f2, s1, g1, o1, o2, o3, s2, i1, i2, a1, a2, v, w

MCKind ==
  (doc :> "#document") @@ (f1 :> "FORM") @@ (f2 :> "FORM") @@ (s1 :> "SELECT")
  @@ (g1 :> "OPTGROUP") @@ (o1 :> "OPTION") @@ (o2 :> "OPTION") @@ (o3 :> "OPTION")
  @@ (s2 :> "SELECT") @@ (i1 :> "INPUT") @@ (i2 :> "INPUT")
  @@ (a1 :> "TEXTAREA") @@ (a2 :> "TEXTAREA")

MCContents == ("#document" :> {"FORM", "SELECT"}) @@ ("FORM" :> {"SELECT", "TEXTAREA"})
              @@ ("SELECT" :> {"OPTION", "OPTGROUP"}) @@ ("OPTGROUP" :> {"OPTION"})

MCText == [n \in Node |-> w]

Of(nodes, does, writes) == [nodes |-> nodes, does |-> does, writes |-> writes]

MCPools ==
  {Of({s1, g1, o1, o2}, {"select", "move"}, {v}),
   Of({s1, o1, o2}, {"select", "default", "move"}, {}),
   Of({doc, f1, f2, s1, o1, a1}, {"move"}, {}),
   Of({f1, s1, o1, a1}, {"select", "move"}, {v}),
   Of({doc, f1, a1, a2}, {"move"}, {}),
   Of({i1, i2}, {"default"}, {v, w}),
   Of({i1, i2}, {"check"}, {}),
   Of({a1, a2}, {"text"}, {v, w})}
=============================================================================
