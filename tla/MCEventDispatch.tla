--------------------------- MODULE MCEventDispatch ---------------------------
(* Instances of EventDispatch for TLC.                                     *)
EXTENDS EventDispatch

CONSTANTS n1, n2, r1, r2, r3, l1, l2, l3, x, y, foo, bar

MCPath == <<n1, n2>>
OneNode == <<n1>>

Says(n, type, l, capture) ==
  [node |-> n, type |-> type, listener |-> l, capture |-> capture]

(* Two registrations on the target, one for capture above it.              *)
MCReg ==
  [r \in Entry |-> CASE r = r1 -> Says(n1, foo, l1, FALSE)
                     [] r = r2 -> Says(n1, foo, l2, FALSE)
                     [] r = r3 -> Says(n2, foo, l1, TRUE)]

(* Three registrations on one node.                                        *)
AllAtTarget ==
  [r \in Entry |-> Says(n1, foo, CASE r = r1 -> l1 [] r = r2 -> l2 [] r = r3 -> l3, FALSE)]

(* One event may be dispatched while the other is, to the same listeners.  *)
MCType == [e \in Event |-> foo]
=============================================================================
