-------------------------- MODULE MCLiveCollections --------------------------
(* An instance of LiveCollections for TLC: a document, three elements and  *)
(* a text; names that differ in case; lists of every type.                 *)
EXTENDS LiveCollections, TLC

CONSTANTS doc, e1, e2, e3, t1, l1, l2

P(u) == [word |-> "p", upper |-> u]
Div == [word |-> "div", upper |-> TRUE]
XHTML == [word |-> "xhtml", upper |-> FALSE]

MCName == (doc :> [word |-> "#document", upper |-> FALSE]) @@ (e1 :> P(TRUE)) @@
          (e2 :> P(FALSE)) @@ (e3 :> Div) @@ (t1 :> [word |-> "#text", upper |-> FALSE])
MCSpace == (doc :> NULL) @@ (e1 :> XHTML) @@ (e2 :> NULL) @@ (e3 :> XHTML) @@ (t1 :> NULL)

K(root, type, name, space) ==
  [root |-> root, type |-> type, name |-> name, space |-> space]

MCKey == {K(e1, "children", NULL, NULL),
          K(doc, "by_name", P(TRUE), NULL), K(e1, "by_name", P(TRUE), NULL),
          K(doc, "by_name_caseless", P(TRUE), NULL),
          K(doc, "by_name_caseless", P(FALSE), NULL),
          K(doc, "by_namespace", P(FALSE), NULL),
          K(doc, "by_namespace", AnyName, XHTML), K(doc, "by_namespace_caseless", AnyName, AnyName)}
=============================================================================
