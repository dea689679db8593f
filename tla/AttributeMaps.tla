---------------------------- MODULE AttributeMaps ----------------------------
(***************************************************************************)
(* What the comments of src/core/element.c promise of attributes: an       *)
(* element maps names (with their namespaces) to values, and a call        *)
(* changes at most one name of one element.                                *)
(***************************************************************************)
EXTENDS Functions

CONSTANTS Element, Key, Text

VARIABLE map   \* of each existing element

Without(m, key) == Restrict(m, DOMAIN m \ {key})

With(m, key, x) == [k \in DOMAIN m \cup {key} |-> IF k = key THEN x ELSE m[k]]

(* m before the call, n after it.                                          *)
Created(m, n) == \E e \in Element \ DOMAIN m : n = With(m, e, <<>>)

Cloned(m, n) == \E e \in DOMAIN m, h \in Element \ DOMAIN m : n = With(m, h, m[e])

Destroyed(m, n) == \E e \in DOMAIN m : n = Without(m, e)

Changed(m, n) ==
  \E e \in DOMAIN m \cap DOMAIN n :
    /\ n = With(m, e, n[e])
    /\ \E key \in Key : \/ n[e] = Without(m[e], key)
                        \/ \E text \in Text : n[e] = With(m[e], key, text)

Init == map = <<>>

Next ==
  LET m == map
      n == map'
  IN  Created(m, n) \/ Cloned(m, n) \/ Destroyed(m, n) \/ Changed(m, n)

Spec == Init /\ [][Next]_map
=============================================================================
