--------------------------- MODULE MCHTMLElements ---------------------------
(* An instance of HTMLElements for TLC: one tag name for every class, two  *)
(* elements, and numbers of two bits, the smallest width with a sign.      *)
EXTENDS HTMLElements

CONSTANTS first, second

MCTag == {CHOOSE tag \in DOMAIN Specialised : Specialised[tag] = c :
            c \in Range(Specialised)} \cup {"XYZZY"}
MCReading == ("junk" :> 0)
MCSymmetry == Permutations({first, second})
=============================================================================
