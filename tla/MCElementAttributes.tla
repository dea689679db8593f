------------------------- MODULE MCElementAttributes -------------------------
(* Instances of ElementAttributes for TLC.                                 *)
EXTENDS ElementAttributes, TLC

CONSTANTS e1, e2, c1, c2, c3, class, ns, v

(* Two class attributes, and an attribute called class in a namespace. *)
MCName == [a \in Attr |-> class]
MCNamespace == [a \in Attr |-> IF a = c3 THEN ns ELSE NULL]

(* No action tells elements, or class attributes, apart. *)
Symmetric == Permutations(Element) \cup Permutations(Attr \ {c3})
=============================================================================
