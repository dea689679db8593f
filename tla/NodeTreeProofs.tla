--------------------------- MODULE NodeTreeProofs ---------------------------
(***************************************************************************)
(* Proofs about NodeTree, for every set of nodes and every bound, and for  *)
(* careful clients with a contract: the four pointers describe one list of *)
(* children for every node, what the operations do to reference counts,    *)
(* owners, parents and the pending list is what NodeLifetime says, and     *)
(* what they do to the order of children is what ChildOrder says.          *)
(*                                                                         *)
(* The first half is about the operators that change links: what sound     *)
(* links are, that a walk meets all children in sound links, that          *)
(* detaching, placing and wiping nodes leaves links sound, and what is     *)
(* read from them before and after.  The second half is about the          *)
(* specification.                                                          *)
(***************************************************************************)
EXTENDS NodeTreeOrder, SharedLemmas

-----------------------------------------------------------------------------
(* Sound links, one direction at a time.                                   *)

NodeOrNull == Node \cup {NULL}

LinkRecord == [parent : [Node -> NodeOrNull],
               first : [Node -> NodeOrNull], last : [Node -> NodeOrNull],
               prev : [Node -> NodeOrNull], next : [Node -> NodeOrNull]]

(* The first child is a child without a neighbour before it.               *)
FirstIsFirst(l) ==
  \A p \in Node : l.first[p] # NULL =>
    l.parent[l.first[p]] = p /\ l.prev[l.first[p]] = NULL

(* Neighbours agree about each other, and a child without a neighbour      *)
(* after it is the last.                                                   *)
NextAgrees(l) ==
  \A n \in Node : l.parent[n] # NULL =>
    IF l.next[n] = NULL THEN l.last[l.parent[n]] = n
    ELSE l.prev[l.next[n]] = n /\ l.parent[l.next[n]] = l.parent[n]

ChildrenIn(l, p) == {c \in Node : l.parent[c] = p}

(* What contains the first child and, with a child, the next one, contains *)
(* all children.                                                           *)
FirstReachesAll(l) ==
  \A p \in Node, S \in SUBSET Node :
    /\ l.first[p] # NULL => l.first[p] \in S
    /\ \A n \in S : l.parent[n] = p /\ l.next[n] # NULL => l.next[n] \in S
    => ChildrenIn(l, p) \subseteq S

Forwards(l) == FirstIsFirst(l) /\ NextAgrees(l) /\ FirstReachesAll(l)

(* The same links read from the other end.                                 *)
Mirror(l) == [parent |-> l.parent, first |-> l.last, last |-> l.first,
              prev |-> l.next, next |-> l.prev]

Sound(l) == l \in LinkRecord /\ Forwards(l) /\ Forwards(Mirror(l))

LEMMA MirrorSound ==
  ASSUME NEW l, Sound(l)
  PROVE  Sound(Mirror(l)) /\ Mirror(Mirror(l)) = l
  BY DEF Sound, Mirror, LinkRecord

(* The walk contains its first node and, with a node, the next before the  *)
(* end; and it is contained in every set that does.                        *)
LEMMA WalkClosed ==
  ASSUME NEW step, NEW n \in Node, NEW end, n # end
  PROVE  /\ Walk(step, n, end) \subseteq Node
         /\ n \in Walk(step, n, end)
         /\ \A y \in Walk(step, n, end) :
              step[y] \in Node \ {end} => step[y] \in Walk(step, n, end)
  BY Zenon DEF Walk

LEMMA WalkLeast ==
  ASSUME NEW step, NEW n, NEW end, NEW S \in SUBSET Node,
         n \in Node \ {end} => n \in S,
         \A y \in S : step[y] \in Node \ {end} => step[y] \in S
  PROVE  Walk(step, n, end) \subseteq S
  BY Zenon DEF Walk

(* In sound links the walk from the first child along next meets exactly   *)
(* the children.                                                           *)
LEMMA WalkMeetsAll ==
  ASSUME NEW l, Sound(l), NEW p \in Node
  PROVE  Walk(l.next, l.first[p], NULL) = ChildrenIn(l, p)
<1> USE NullAssumption
<1> DEFINE W == Walk(l.next, l.first[p], NULL)
<1>0. /\ l.first[p] \in Node \cup {NULL}
      /\ \A x \in Node : l.next[x] \in Node \cup {NULL} /\ l.parent[x] \in Node \cup {NULL}
  BY DEF Sound, LinkRecord, NodeOrNull
<1>1. W \subseteq ChildrenIn(l, p)
  <2>1. l.first[p] \in Node \ {NULL} => l.first[p] \in ChildrenIn(l, p)
    BY DEF Sound, Forwards, FirstIsFirst, ChildrenIn
  <2>2. \A y \in ChildrenIn(l, p) :
          l.next[y] \in Node \ {NULL} => l.next[y] \in ChildrenIn(l, p)
    BY DEF Sound, Forwards, NextAgrees, ChildrenIn
  <2>3. ChildrenIn(l, p) \in SUBSET Node
    BY DEF ChildrenIn
  <2> QED BY <2>1, <2>2, <2>3, WalkLeast
<1>2. ChildrenIn(l, p) \subseteq W
  <2>1. CASE l.first[p] = NULL
    <3>1. FirstReachesAll(l) /\ {} \in SUBSET Node
      BY DEF Sound, Forwards
    <3>2. /\ l.first[p] # NULL => l.first[p] \in {}
          /\ \A n \in {} : l.parent[n] = p /\ l.next[n] # NULL => l.next[n] \in {}
      BY <2>1
    <3>3. ChildrenIn(l, p) \subseteq {}
      BY <3>1, <3>2, Zenon DEF FirstReachesAll
    <3> QED BY <3>3
  <2>2. CASE l.first[p] # NULL
    <3>1. l.first[p] \in Node
      BY <2>2, <1>0
    <3>2. W \in SUBSET Node /\ l.first[p] \in W
      BY <2>2, <3>1, WalkClosed
    <3>3. \A n \in W : l.next[n] \in Node \ {NULL} => l.next[n] \in W
      BY <2>2, <3>1, WalkClosed
    <3>4. \A n \in W : l.parent[n] = p /\ l.next[n] # NULL => l.next[n] \in W
      BY <3>2, <3>3, <1>0
    <3> HIDE DEF W
    <3> QED BY <3>2, <3>4 DEF Sound, Forwards, FirstReachesAll
  <2> QED BY <2>1, <2>2
<1> QED BY <1>1, <1>2

-----------------------------------------------------------------------------
(* Detaching.                                                              *)

(* A child is not its own neighbour: the list without it would contain the *)
(* first child and, with a child, the next.                                *)
LEMMA NotOwnNeighbour ==
  ASSUME NEW l, Sound(l), NEW n \in Node, l.parent[n] # NULL
  PROVE  l.next[n] # n /\ l.prev[n] # n
<1> USE NullAssumption
<1> DEFINE p == l.parent[n]
           S == ChildrenIn(l, p) \ {n}
<1>0. /\ p \in Node /\ n \in ChildrenIn(l, p)
      /\ S \in SUBSET Node
      /\ l.first[p] \in Node \cup {NULL}
      /\ \A x \in Node : l.next[x] \in Node \cup {NULL}
  BY DEF Sound, LinkRecord, NodeOrNull, ChildrenIn
<1>1. FirstIsFirst(l) /\ NextAgrees(l) /\ FirstReachesAll(l) /\ NextAgrees(Mirror(l))
  BY DEF Sound, Forwards
<1>2. l.next[n] = n <=> l.prev[n] = n
  BY <1>0, <1>1 DEF NextAgrees, Mirror
<1>3. ASSUME l.next[n] = n, l.prev[n] = n
      PROVE  FALSE
  <2>1. l.first[p] # NULL => l.first[p] \in S
    BY <1>0, <1>1, <1>3 DEF FirstIsFirst, ChildrenIn
  <2>2. \A x \in S : l.parent[x] = p /\ l.next[x] # NULL => l.next[x] \in S
    BY <1>0, <1>1, <1>3 DEF NextAgrees, ChildrenIn
  <2>3. ChildrenIn(l, p) \subseteq S
    <3> HIDE DEF S, p
    <3> QED BY <1>0, <1>1, <2>1, <2>2, Zenon DEF FirstReachesAll
  <2> QED BY <1>0, <2>3
<1> QED BY <1>2, <1>3

(* What Detach writes.                                                     *)
LEMMA DetachFields ==
  ASSUME NEW l, l \in LinkRecord, NEW n \in Node
  PROVE  LET d == Detach(l, n)
         IN  /\ d \in LinkRecord
             /\ \A x \in Node :
                  /\ d.parent[x] = IF x = n THEN NULL ELSE l.parent[x]
                  /\ d.first[x] = IF l.prev[n] = NULL /\ x = l.parent[n]
                                  THEN l.next[n] ELSE l.first[x]
                  /\ d.last[x] = IF l.next[n] = NULL /\ x = l.parent[n]
                                 THEN l.prev[n] ELSE l.last[x]
                  /\ d.prev[x] = IF x = n THEN NULL
                                 ELSE IF x = l.next[n] THEN l.prev[n] ELSE l.prev[x]
                  /\ d.next[x] = IF x = n THEN NULL
                                 ELSE IF x = l.prev[n] THEN l.next[n] ELSE l.next[x]
  BY DEF Detach, LinkRecord, NodeOrNull

LEMMA DetachMirrored ==
  ASSUME NEW l, l \in LinkRecord, NEW n \in Node
  PROVE  Mirror(Detach(l, n)) = Detach(Mirror(l), n)
  BY DEF Detach, Mirror, LinkRecord

LEMMA DetachForwards ==
  ASSUME NEW l, Sound(l), NEW n \in Node, l.parent[n] # NULL
  PROVE  Forwards(Detach(l, n))
<1> USE NullAssumption
<1> DEFINE d == Detach(l, n)
           p == l.parent[n]
           before == l.prev[n]
           after == l.next[n]
<1>0. /\ p \in Node
      /\ before \in Node \cup {NULL} /\ after \in Node \cup {NULL}
      /\ \A x \in Node : /\ l.first[x] \in Node \cup {NULL}
                         /\ l.next[x] \in Node \cup {NULL}
                         /\ l.prev[x] \in Node \cup {NULL}
                         /\ l.parent[x] \in Node \cup {NULL}
  BY DEF Sound, LinkRecord, NodeOrNull
<1>1. /\ FirstIsFirst(l) /\ NextAgrees(l) /\ FirstReachesAll(l)
      /\ FirstIsFirst(Mirror(l)) /\ NextAgrees(Mirror(l))
  BY DEF Sound, Forwards
<1>2. /\ before # n /\ after # n
      /\ IF before = NULL THEN l.first[p] = n
         ELSE l.next[before] = n /\ l.parent[before] = p
      /\ IF after = NULL THEN l.last[p] = n
         ELSE l.prev[after] = n /\ l.parent[after] = p
  BY <1>1, NotOwnNeighbour DEF NextAgrees, Mirror
<1>3. \A x \in Node :
        /\ d.parent[x] = IF x = n THEN NULL ELSE l.parent[x]
        /\ d.first[x] = IF before = NULL /\ x = p THEN after ELSE l.first[x]
        /\ d.last[x] = IF after = NULL /\ x = p THEN before ELSE l.last[x]
        /\ d.prev[x] = IF x = n THEN NULL ELSE IF x = after THEN before ELSE l.prev[x]
        /\ d.next[x] = IF x = n THEN NULL ELSE IF x = before THEN after ELSE l.next[x]
  BY DetachFields DEF Sound
<1> HIDE DEF d
<1>4. FirstIsFirst(d)
  <2> SUFFICES ASSUME NEW q \in Node, d.first[q] # NULL
               PROVE  d.parent[d.first[q]] = q /\ d.prev[d.first[q]] = NULL
    BY DEF FirstIsFirst
  <2>1. CASE before = NULL /\ q = p
    BY <2>1, <1>0, <1>2, <1>3
  <2>2. CASE ~(before = NULL /\ q = p)
    <3>1. d.first[q] = l.first[q] /\ l.first[q] \in Node
      BY <2>2, <1>0, <1>3
    <3>2. l.parent[l.first[q]] = q /\ l.prev[l.first[q]] = NULL
      BY <3>1, <1>1 DEF FirstIsFirst
    <3> QED BY <2>2, <3>1, <3>2, <1>0, <1>2, <1>3
  <2> QED BY <2>1, <2>2
<1>5. NextAgrees(d)
  <2> SUFFICES ASSUME NEW x \in Node, d.parent[x] # NULL
               PROVE  IF d.next[x] = NULL THEN d.last[d.parent[x]] = x
                      ELSE /\ d.prev[d.next[x]] = x
                           /\ d.parent[d.next[x]] = d.parent[x]
    BY DEF NextAgrees
  <2>1. x # n /\ d.parent[x] = l.parent[x] /\ l.parent[x] \in Node
    BY <1>0, <1>3
  <2>2. CASE x = before
    BY <2>1, <2>2, <1>0, <1>2, <1>3
  <2>3. CASE x # before
    <3>1. d.next[x] = l.next[x]
      BY <2>1, <2>3, <1>3
    <3>2. IF l.next[x] = NULL THEN l.last[l.parent[x]] = x
          ELSE l.prev[l.next[x]] = x /\ l.parent[l.next[x]] = l.parent[x]
      BY <2>1, <1>1 DEF NextAgrees
    <3> QED BY <2>1, <2>3, <3>1, <3>2, <1>0, <1>2, <1>3
  <2> QED BY <2>2, <2>3
<1>6. FirstReachesAll(d)
  <2> SUFFICES ASSUME NEW q \in Node, NEW S \in SUBSET Node,
                      d.first[q] # NULL => d.first[q] \in S,
                      \A x \in S : d.parent[x] = q /\ d.next[x] # NULL => d.next[x] \in S
               PROVE  ChildrenIn(d, q) \subseteq S
    BY DEF FirstReachesAll
  <2> DEFINE T == (S \ {n}) \cup (IF q = p /\ (after = NULL \/ after \in S) THEN {n} ELSE {})
  <2>1. l.first[q] # NULL => l.first[q] \in T
    <3> SUFFICES ASSUME l.first[q] # NULL PROVE l.first[q] \in T
      OBVIOUS
    <3>1. l.parent[l.first[q]] = q /\ l.prev[l.first[q]] = NULL
      BY <1>1 DEF FirstIsFirst
    <3> QED BY <3>1, <1>0, <1>2, <1>3
  <2>2. \A x \in T : l.parent[x] = q /\ l.next[x] # NULL => l.next[x] \in T
    <3> SUFFICES ASSUME NEW x \in T, l.parent[x] = q, l.next[x] # NULL
                 PROVE  l.next[x] \in T
      OBVIOUS
    <3>1. l.prev[l.next[x]] = x
      BY <1>0, <1>1 DEF NextAgrees
    <3> QED BY <3>1, <1>0, <1>2, <1>3
  <2>3. T \in SUBSET Node
    OBVIOUS
  <2>4. ChildrenIn(l, q) \subseteq T
    <3> HIDE DEF T
    <3> QED BY <1>1, <2>1, <2>2, <2>3, Zenon DEF FirstReachesAll
  <2> QED BY <2>4, <1>3 DEF ChildrenIn
<1> QED BY <1>4, <1>5, <1>6 DEF Forwards, d

(* Detaching a child leaves sound links.                                   *)
LEMMA DetachSound ==
  ASSUME NEW l, Sound(l), NEW n \in Node, l.parent[n] # NULL
  PROVE  Sound(Detach(l, n))
<1>1. Detach(l, n) \in LinkRecord
  BY DetachFields DEF Sound
<1>2. Sound(Mirror(l)) /\ Mirror(l).parent[n] # NULL
  BY MirrorSound DEF Mirror
<1>3. Forwards(Detach(l, n)) /\ Forwards(Detach(Mirror(l), n))
  BY <1>2, DetachForwards
<1> QED BY <1>1, <1>3, DetachMirrored DEF Sound

-----------------------------------------------------------------------------
(* Placing.                                                                *)

(* The links l with the nodes R, a chain from a to z, as the children of p *)
(* between before and after; the nodes in E lose their lists.              *)
Placed(l, R, E, a, z, p, before, after) ==
  [parent |-> [x \in Node |-> IF x \in R THEN p ELSE l.parent[x]],
   first  |-> [x \in Node |-> IF x = p /\ before = NULL THEN a
                              ELSE IF x \in E THEN NULL ELSE l.first[x]],
   last   |-> [x \in Node |-> IF x = p /\ after = NULL THEN z
                              ELSE IF x \in E THEN NULL ELSE l.last[x]],
   prev   |-> [x \in Node |-> IF x = a THEN before
                              ELSE IF x = after THEN z ELSE l.prev[x]],
   next   |-> [x \in Node |-> IF x = z THEN after
                              ELSE IF x = before THEN a ELSE l.next[x]]]

(* R is a chain from a to z: each node but the last is followed by another *)
(* that points back, and what contains a and, with a node, the next one,   *)
(* contains R.                                                             *)
Chain(l, R, a, z) ==
  /\ a \in R /\ z \in R
  /\ \A x \in R \ {z} : l.next[x] \in R \ {a} /\ l.prev[l.next[x]] = x
  /\ \A S \in SUBSET Node :
       a \in S /\ (\A x \in (S \cap R) \ {z} : l.next[x] \in S) => R \subseteq S

(* The place before after is the one behind before.                        *)
Gap(l, p, before, after) ==
  IF before = NULL THEN l.first[p] = after
  ELSE before \in Node /\ l.parent[before] = p /\ l.next[before] = after

(* The nodes of R are detached or are all the children of the nodes in E,  *)
(* which p is not one of.                                                  *)
Movable(l, R, E, p) ==
  /\ R \in SUBSET Node /\ E \in SUBSET Node
  /\ p \in Node \ E
  /\ \A x \in R : l.parent[x] \in E \cup {NULL}
  /\ \A x \in Node : l.parent[x] \in E => x \in R

(* All that is asked of a chain that is placed.                            *)
MayPlace(l, R, E, a, z, p, before, after) ==
  /\ Sound(l)
  /\ before \in NodeOrNull /\ after \in NodeOrNull
  /\ Movable(l, R, E, p)
  /\ Chain(l, R, a, z) /\ Chain(Mirror(l), R, z, a)
  /\ Gap(l, p, before, after) /\ Gap(Mirror(l), p, after, before)

Puts(l, R, E, a, z, p, before, after, d) ==
  /\ MayPlace(l, R, E, a, z, p, before, after)
  /\ d = Placed(l, R, E, a, z, p, before, after)

LEMMA PlacedForwards ==
  ASSUME NEW l, Sound(l), NEW R, NEW E, NEW a, NEW z, NEW p,
         NEW before \in NodeOrNull, NEW after \in NodeOrNull,
         Movable(l, R, E, p), Chain(l, R, a, z),
         Gap(l, p, before, after), Gap(Mirror(l), p, after, before)
  PROVE  Forwards(Placed(l, R, E, a, z, p, before, after))
<1> USE NullAssumption
<1> DEFINE d == Placed(l, R, E, a, z, p, before, after)
<1>0. /\ p \in Node \ E /\ R \in SUBSET Node /\ E \in SUBSET Node
      /\ a \in R /\ z \in R
      /\ before \in Node \cup {NULL} /\ after \in Node \cup {NULL}
      /\ \A x \in Node : /\ l.first[x] \in Node \cup {NULL}
                         /\ l.next[x] \in Node \cup {NULL}
                         /\ l.prev[x] \in Node \cup {NULL}
                         /\ l.parent[x] \in Node \cup {NULL}
  BY DEF Sound, LinkRecord, NodeOrNull, Movable, Chain
<1>1. /\ FirstIsFirst(l) /\ NextAgrees(l) /\ FirstReachesAll(l)
      /\ FirstIsFirst(Mirror(l)) /\ NextAgrees(Mirror(l))
  BY DEF Sound, Forwards
<1>2. /\ IF before = NULL THEN l.first[p] = after
         ELSE l.parent[before] = p /\ l.next[before] = after
      /\ IF after = NULL THEN l.last[p] = before
         ELSE l.parent[after] = p /\ l.prev[after] = before
  BY DEF Gap, Mirror
<1>3. /\ \A x \in R : l.parent[x] \in E \cup {NULL}
      /\ \A x \in Node : l.parent[x] \in E => x \in R
      /\ before \notin R /\ after \notin R
  BY <1>0, <1>2 DEF Movable
<1>4. \A x \in R \ {z} : l.next[x] \in R \ {a} /\ l.prev[l.next[x]] = x
  BY DEF Chain
<1>5. \A x \in Node :
        /\ d.parent[x] = IF x \in R THEN p ELSE l.parent[x]
        /\ d.first[x] = IF x = p /\ before = NULL THEN a
                        ELSE IF x \in E THEN NULL ELSE l.first[x]
        /\ d.last[x] = IF x = p /\ after = NULL THEN z
                       ELSE IF x \in E THEN NULL ELSE l.last[x]
        /\ d.prev[x] = IF x = a THEN before
                       ELSE IF x = after THEN z ELSE l.prev[x]
        /\ d.next[x] = IF x = z THEN after
                       ELSE IF x = before THEN a ELSE l.next[x]
  BY DEF Placed
<1> HIDE DEF d
<1>6. FirstIsFirst(d)
  <2> SUFFICES ASSUME NEW q \in Node, d.first[q] # NULL
               PROVE  d.parent[d.first[q]] = q /\ d.prev[d.first[q]] = NULL
    BY DEF FirstIsFirst
  <2>1. CASE before = NULL /\ q = p
    BY <2>1, <1>0, <1>5
  <2>2. CASE ~(before = NULL /\ q = p)
    <3>1. q \notin E /\ d.first[q] = l.first[q] /\ l.first[q] \in Node
      BY <2>2, <1>0, <1>5
    <3>2. l.parent[l.first[q]] = q /\ l.prev[l.first[q]] = NULL
      BY <3>1, <1>1 DEF FirstIsFirst
    <3>3. l.first[q] \notin R
      BY <3>1, <3>2, <1>0, <1>3
    <3> QED BY <2>2, <3>1, <3>2, <3>3, <1>0, <1>2, <1>5
  <2> QED BY <2>1, <2>2
<1>7. NextAgrees(d)
  <2> SUFFICES ASSUME NEW x \in Node, d.parent[x] # NULL
               PROVE  IF d.next[x] = NULL THEN d.last[d.parent[x]] = x
                      ELSE /\ d.prev[d.next[x]] = x
                           /\ d.parent[d.next[x]] = d.parent[x]
    BY DEF NextAgrees
  <2>1. CASE x = z
    BY <2>1, <1>0, <1>2, <1>3, <1>5
  <2>2. CASE x \in R \ {z}
    <3>1. d.next[x] = l.next[x]
      BY <2>2, <1>3, <1>5
    <3> QED BY <2>2, <3>1, <1>0, <1>3, <1>4, <1>5
  <2>3. CASE x \notin R
    <3>1. d.parent[x] = l.parent[x] /\ l.parent[x] \in Node \ E
      BY <2>3, <1>0, <1>3, <1>5
    <3>2. IF l.next[x] = NULL THEN l.last[l.parent[x]] = x
          ELSE l.prev[l.next[x]] = x /\ l.parent[l.next[x]] = l.parent[x]
      BY <3>1, <1>0, <1>1 DEF NextAgrees
    <3>3. CASE x = before
      BY <2>3, <3>1, <3>3, <1>0, <1>2, <1>5
    <3>4. CASE x # before
      <4>1. d.next[x] = l.next[x]
        BY <2>3, <3>4, <1>0, <1>5
      <4>2. l.next[x] # NULL => l.next[x] \in Node \ R /\ l.next[x] # after
        BY <3>1, <3>2, <3>4, <1>0, <1>2, <1>3
      <4> QED BY <2>3, <3>1, <3>2, <3>4, <4>1, <4>2, <1>0, <1>2, <1>5
    <3> QED BY <3>3, <3>4
  <2> QED BY <2>1, <2>2, <2>3
<1>8. FirstReachesAll(d)
  <2> SUFFICES ASSUME NEW q \in Node, NEW S \in SUBSET Node,
                      d.first[q] # NULL => d.first[q] \in S,
                      \A x \in S : d.parent[x] = q /\ d.next[x] # NULL => d.next[x] \in S
               PROVE  ChildrenIn(d, q) \subseteq S
    BY DEF FirstReachesAll
  <2>1. CASE q \in E
    BY <2>1, <1>0, <1>3, <1>5 DEF ChildrenIn
  <2>2. ASSUME q = p, a \in S
        PROVE  R \subseteq S /\ (after # NULL => after \in S)
    <3>1. \A x \in (S \cap R) \ {z} : l.next[x] \in S
      BY <2>2, <1>0, <1>3, <1>4, <1>5
    <3>2. R \subseteq S
      BY <2>2, <3>1, Zenon DEF Chain
    <3> QED BY <2>2, <3>2, <1>0, <1>5
  <2>3. CASE q \notin E
    <3>1. l.first[q] # NULL => l.first[q] \in S
      BY <2>2, <2>3, <1>0, <1>2, <1>5
    <3>2. \A x \in S : l.parent[x] = q /\ l.next[x] # NULL => l.next[x] \in S
      <4> SUFFICES ASSUME NEW x \in S, l.parent[x] = q, l.next[x] # NULL
                   PROVE  l.next[x] \in S
        OBVIOUS
      <4>1. x \notin R /\ d.parent[x] = q
        BY <2>3, <1>0, <1>3, <1>5
      <4> QED BY <4>1, <2>2, <1>0, <1>2, <1>5
    <3>3. ChildrenIn(l, q) \subseteq S
      BY <3>1, <3>2, <1>1, Zenon DEF FirstReachesAll
    <3>4. q = p => a \in S
      <4>1. CASE before = NULL
        BY <4>1, <1>0, <1>5
      <4>2. CASE before # NULL
        <5> SUFFICES ASSUME q = p PROVE a \in S
          OBVIOUS
        <5>1. before \in S
          BY <3>3, <4>2, <1>0, <1>2 DEF ChildrenIn
        <5> QED BY <5>1, <4>2, <1>0, <1>2, <1>3, <1>5
      <4> QED BY <4>1, <4>2
    <3> QED BY <2>2, <3>3, <3>4, <1>0, <1>5 DEF ChildrenIn
  <2> QED BY <2>1, <2>3
<1> QED BY <1>6, <1>7, <1>8 DEF Forwards, d

LEMMA PlacedMirrored ==
  ASSUME NEW l, NEW R, NEW E, NEW a, NEW z, NEW p, NEW before, NEW after
  PROVE  Mirror(Placed(l, R, E, a, z, p, before, after))
           = Placed(Mirror(l), R, E, z, a, p, after, before)
  BY DEF Mirror, Placed

(* Placing a chain in a gap leaves sound links.                            *)
LEMMA PlacedSound ==
  ASSUME NEW l, Sound(l), NEW R, NEW E, NEW a, NEW z, NEW p,
         NEW before \in NodeOrNull, NEW after \in NodeOrNull,
         Movable(l, R, E, p), Chain(l, R, a, z), Chain(Mirror(l), R, z, a),
         Gap(l, p, before, after), Gap(Mirror(l), p, after, before)
  PROVE  Sound(Placed(l, R, E, a, z, p, before, after))
<1> DEFINE d == Placed(l, R, E, a, z, p, before, after)
<1>1. a \in Node /\ z \in Node /\ p \in Node
  BY DEF Movable, Chain
<1>2. d \in LinkRecord
  BY <1>1 DEF Placed, Sound, LinkRecord, NodeOrNull
<1>3. Forwards(d)
  BY PlacedForwards
<1>4. Sound(Mirror(l)) /\ Mirror(Mirror(l)) = l
  BY MirrorSound
<1>5. Movable(Mirror(l), R, E, p)
  BY DEF Movable, Mirror
<1>6. Forwards(Placed(Mirror(l), R, E, z, a, p, after, before))
  BY <1>4, <1>5, PlacedForwards
<1> QED BY <1>2, <1>3, <1>6, PlacedMirrored DEF Sound

(* One node is a chain.                                                    *)
LEMMA ChainOfOne ==
  ASSUME NEW l, NEW n \in Node
  PROVE  Chain(l, {n}, n, n)
  BY DEF Chain

(* Both ends of a list are missing when there are no children, and only    *)
(* then.                                                                   *)
LEMMA NoChildren ==
  ASSUME NEW l, Sound(l), NEW p \in Node
  PROVE  /\ l.first[p] = NULL <=> ChildrenIn(l, p) = {}
         /\ l.last[p] = NULL <=> ChildrenIn(l, p) = {}
<1> USE NullAssumption
<1>1. ASSUME NEW m, Sound(m)
      PROVE  m.first[p] = NULL <=> ChildrenIn(m, p) = {}
  <2>1. FirstReachesAll(m) /\ FirstIsFirst(m) /\ {} \in SUBSET Node
    BY <1>1 DEF Sound, Forwards
  <2>2. m.first[p] \in Node \cup {NULL}
    BY <1>1 DEF Sound, LinkRecord, NodeOrNull
  <2>3. ASSUME m.first[p] = NULL
        PROVE  ChildrenIn(m, p) \subseteq {}
    <3>1. /\ m.first[p] # NULL => m.first[p] \in {}
          /\ \A n \in {} : m.parent[n] = p /\ m.next[n] # NULL => m.next[n] \in {}
      BY <2>3
    <3> QED BY <2>1, <3>1, Zenon DEF FirstReachesAll
  <2>4. m.first[p] # NULL => m.first[p] \in ChildrenIn(m, p)
    BY <2>1, <2>2 DEF FirstIsFirst, ChildrenIn
  <2> QED BY <2>3, <2>4
<1>2. Sound(Mirror(l)) /\ Mirror(l).first = l.last /\ Mirror(l).parent = l.parent
  BY MirrorSound DEF Mirror
<1>3. Mirror(l).first[p] = NULL <=> ChildrenIn(Mirror(l), p) = {}
  BY <1>1, <1>2
<1>4. ChildrenIn(Mirror(l), p) = ChildrenIn(l, p)
  BY <1>2 DEF ChildrenIn
<1> QED BY <1>1, <1>2, <1>3, <1>4

(* The children of a node that has some are a chain.                       *)
LEMMA ChainOfChildren ==
  ASSUME NEW l, Sound(l), NEW p \in Node, l.first[p] # NULL
  PROVE  Chain(l, ChildrenIn(l, p), l.first[p], l.last[p])
<1> USE NullAssumption
<1> DEFINE R == ChildrenIn(l, p)
           a == l.first[p]
           z == l.last[p]
<1>0. /\ a \in Node /\ z \in Node
      /\ \A x \in Node : l.next[x] \in Node \cup {NULL}
  BY NoChildren DEF Sound, LinkRecord, NodeOrNull
<1>1. /\ FirstIsFirst(l) /\ NextAgrees(l) /\ FirstReachesAll(l)
      /\ FirstIsFirst(Mirror(l))
  BY DEF Sound, Forwards
<1>2. a \in R /\ l.prev[a] = NULL /\ z \in R /\ l.next[z] = NULL
  BY <1>0, <1>1 DEF FirstIsFirst, Mirror, ChildrenIn
<1>3. \A x \in R \ {z} : l.next[x] \in R \ {a} /\ l.prev[l.next[x]] = x
  BY <1>0, <1>1, <1>2 DEF NextAgrees, ChildrenIn
<1>4. ASSUME NEW S \in SUBSET Node, a \in S, \A x \in (S \cap R) \ {z} : l.next[x] \in S
      PROVE  R \subseteq S
  <2>1. \A x \in S : l.parent[x] = p /\ l.next[x] # NULL => l.next[x] \in S
    BY <1>2, <1>4 DEF ChildrenIn
  <2> QED BY <1>1, <1>4, <2>1, Zenon DEF FirstReachesAll
<1> QED BY <1>2, <1>3, <1>4, Zenon DEF Chain

(* Read from the other end as well.                                        *)
LEMMA MirrorChain ==
  ASSUME NEW l, Sound(l), NEW p \in Node, l.first[p] # NULL
  PROVE  Chain(Mirror(l), ChildrenIn(l, p), l.last[p], l.first[p])
<1>1. Sound(Mirror(l)) /\ Mirror(l).first = l.last /\ Mirror(l).last = l.first
  BY MirrorSound DEF Mirror
<1>2. Mirror(l).first[p] # NULL
  BY <1>1, NoChildren
<1>3. ChildrenIn(Mirror(l), p) = ChildrenIn(l, p)
  BY DEF ChildrenIn, Mirror
<1>4. Chain(Mirror(l), ChildrenIn(Mirror(l), p), Mirror(l).first[p], Mirror(l).last[p])
  BY <1>1, <1>2, ChainOfChildren
<1> QED BY <1>1, <1>3, <1>4

(* The walk over a chain that is linked to after meets the chain.          *)
LEMMA WalkMeetsChain ==
  ASSUME NEW l, l \in LinkRecord, NEW R \in SUBSET Node, NEW a, NEW z,
         Chain(l, R, a, z),
         NEW before \in NodeOrNull \ R, NEW after \in NodeOrNull \ R
  PROVE  Walk([l.next EXCEPT ![z] = after, ![before] = a], a, after) = R
<1> USE NullAssumption
<1> DEFINE step == [l.next EXCEPT ![z] = after, ![before] = a]
           W == Walk(step, a, after)
<1>1. /\ a \in R /\ z \in R
      /\ \A x \in R \ {z} : l.next[x] \in R \ {a} /\ l.prev[l.next[x]] = x
  BY DEF Chain
<1>2. step[z] = after /\ \A x \in R \ {z} : step[x] = l.next[x]
  BY <1>1 DEF LinkRecord, NodeOrNull
<1> HIDE DEF step
<1>3. W \subseteq R
  <2>1. \A y \in R : step[y] \in Node \ {after} => step[y] \in R
    BY <1>1, <1>2
  <2> QED BY <1>1, <2>1, WalkLeast
<1>4. R \subseteq W
  <2>1. /\ W \in SUBSET Node /\ a \in W
        /\ \A y \in W : step[y] \in Node \ {after} => step[y] \in W
    BY <1>1, WalkClosed
  <2>2. \A x \in (W \cap R) \ {z} : l.next[x] \in W
    <3> HIDE DEF W
    <3> QED BY <1>1, <1>2, <2>1
  <2> HIDE DEF W
  <2> QED BY <2>1, <2>2, Zenon DEF Chain
<1> QED BY <1>3, <1>4 DEF step

(* Links are the same when they agree about every node.                    *)
LEMMA SameLinks ==
  ASSUME NEW l \in LinkRecord, NEW m \in LinkRecord,
         \A x \in Node : /\ l.parent[x] = m.parent[x]
                        /\ l.first[x] = m.first[x] /\ l.last[x] = m.last[x]
                        /\ l.prev[x] = m.prev[x]   /\ l.next[x] = m.next[x]
  PROVE  l = m
<1>1. /\ l.parent = m.parent /\ l.first = m.first /\ l.last = m.last
      /\ l.prev = m.prev /\ l.next = m.next
  BY DEF LinkRecord
<1> QED BY <1>1 DEF LinkRecord

(* What Emptied and Cleared write.                                         *)
LEMMA EmptiedFields ==
  ASSUME NEW l \in LinkRecord, NEW f \in Node
  PROVE  LET e == Emptied(l, f)
         IN  /\ e \in LinkRecord
             /\ e.parent = l.parent /\ e.prev = l.prev /\ e.next = l.next
             /\ e.first = [l.first EXCEPT ![f] = NULL]
             /\ e.last = [l.last EXCEPT ![f] = NULL]
  BY DEF Emptied, LinkRecord, NodeOrNull

LEMMA ClearedFields ==
  ASSUME NEW l \in LinkRecord, NEW n \in Node
  PROVE  LET c == Cleared(l, n)
         IN  /\ c \in LinkRecord
             /\ c.first = l.first /\ c.last = l.last
             /\ c.parent = [l.parent EXCEPT ![n] = NULL]
             /\ c.prev = [l.prev EXCEPT ![n] = NULL]
             /\ c.next = [l.next EXCEPT ![n] = NULL]
  BY DEF Cleared, LinkRecord, NodeOrNull

(* What Placed writes: its definition, node by node.                       *)
LEMMA PlacedFields ==
  ASSUME NEW l \in LinkRecord, NEW R, NEW E, NEW a \in Node, NEW z \in Node,
         NEW p \in Node, NEW before \in NodeOrNull, NEW after \in NodeOrNull
  PROVE  LET d == Placed(l, R, E, a, z, p, before, after)
         IN  /\ d \in LinkRecord
             /\ \A x \in Node :
                  /\ d.parent[x] = IF x \in R THEN p ELSE l.parent[x]
                  /\ d.first[x] = IF x = p /\ before = NULL THEN a
                                  ELSE IF x \in E THEN NULL ELSE l.first[x]
                  /\ d.last[x] = IF x = p /\ after = NULL THEN z
                                 ELSE IF x \in E THEN NULL ELSE l.last[x]
                  /\ d.prev[x] = IF x = a THEN before
                                 ELSE IF x = after THEN z ELSE l.prev[x]
                  /\ d.next[x] = IF x = z THEN after
                                 ELSE IF x = before THEN a ELSE l.next[x]
  BY DEF Placed, LinkRecord, NodeOrNull

(* Splice places a chain.                                                  *)
LEMMA SplicePlaces ==
  ASSUME NEW l, l \in LinkRecord, NEW R \in SUBSET Node, NEW a, NEW z, NEW p \in Node,
         Chain(l, R, a, z),
         NEW before \in NodeOrNull \ R, NEW after \in NodeOrNull \ R
  PROVE  Splice(l, a, z, p, before, after) = Placed(l, R, {}, a, z, p, before, after)
<1> USE NullAssumption
<1> DEFINE step == [l.next EXCEPT ![z] = after, ![before] = a]
           s == Splice(l, a, z, p, before, after)
           d == Placed(l, R, {}, a, z, p, before, after)
<1>0. a \in R /\ z \in R
  BY DEF Chain
<1>1. s = [parent |-> [x \in Node |-> IF x \in R THEN p ELSE l.parent[x]],
           first  |-> IF before = NULL THEN [l.first EXCEPT ![p] = a] ELSE l.first,
           last   |-> IF after = NULL THEN [l.last EXCEPT ![p] = z] ELSE l.last,
           prev   |-> [l.prev EXCEPT ![a] = before, ![after] = z],
           next   |-> step]
  BY WalkMeetsChain DEF Splice
<1>2. s.first = d.first
  BY <1>0, <1>1 DEF LinkRecord, Placed
<1>3. s.last = d.last
  BY <1>0, <1>1 DEF LinkRecord, Placed
<1>4. s.prev = d.prev
  BY <1>0, <1>1 DEF LinkRecord, Placed, NodeOrNull
<1>5. s.next = d.next
  BY <1>0, <1>1 DEF LinkRecord, Placed, NodeOrNull
<1> QED BY <1>1, <1>2, <1>3, <1>4, <1>5 DEF Placed

(* With Emptied it takes the chain from a fragment.                        *)
LEMMA EmptiedSplicePlaces ==
  ASSUME NEW l, l \in LinkRecord, NEW R \in SUBSET Node, NEW a, NEW z, NEW p \in Node,
         Chain(l, R, a, z), NEW f \in Node \ {p},
         NEW before \in NodeOrNull \ R, NEW after \in NodeOrNull \ R
  PROVE  Emptied(Splice(l, a, z, p, before, after), f)
           = Placed(l, R, {f}, a, z, p, before, after)
<1> USE NullAssumption
<1> DEFINE d == Placed(l, R, {}, a, z, p, before, after)
           e == Placed(l, R, {f}, a, z, p, before, after)
           m == Emptied(d, f)
<1>0. a \in R /\ z \in R
  BY DEF Chain
<1>1. Splice(l, a, z, p, before, after) = d
  BY SplicePlaces
<1>2. /\ d \in LinkRecord
      /\ \A x \in Node :
           /\ d.first[x] = IF x = p /\ before = NULL THEN a ELSE l.first[x]
           /\ d.last[x] = IF x = p /\ after = NULL THEN z ELSE l.last[x]
  BY <1>0 DEF Placed, LinkRecord, NodeOrNull
<1>3. /\ e \in LinkRecord
      /\ \A x \in Node :
           /\ e.first[x] = IF x = p /\ before = NULL THEN a
                           ELSE IF x = f THEN NULL ELSE l.first[x]
           /\ e.last[x] = IF x = p /\ after = NULL THEN z
                          ELSE IF x = f THEN NULL ELSE l.last[x]
  BY <1>0 DEF Placed, LinkRecord, NodeOrNull
<1>4. d.parent = e.parent /\ d.prev = e.prev /\ d.next = e.next
  BY DEF Placed
<1>5. /\ m \in LinkRecord
      /\ m.parent = d.parent /\ m.prev = d.prev /\ m.next = d.next
      /\ m.first = [d.first EXCEPT ![f] = NULL]
      /\ m.last = [d.last EXCEPT ![f] = NULL]
  BY <1>2, EmptiedFields
<1> HIDE DEF d, e, m
<1>6. m = e
  <2>1. /\ d.first \in [Node -> NodeOrNull]
        /\ d.last \in [Node -> NodeOrNull]
    BY <1>2 DEF LinkRecord
  <2>2. \A x \in Node : /\ m.first[x] = IF x = f THEN NULL ELSE d.first[x]
                       /\ m.last[x] = IF x = f THEN NULL ELSE d.last[x]
    BY <2>1, <1>5
  <2>3. \A x \in Node : m.first[x] = e.first[x] /\ m.last[x] = e.last[x]
    BY <1>2, <1>3, <2>2
  <2>4. m.parent = e.parent /\ m.prev = e.prev /\ m.next = e.next
    BY <1>4, <1>5
  <2> QED BY <1>3, <1>5, <2>3, <2>4, SameLinks
<1> QED BY <1>1, <1>6 DEF d, e, m

(* Replacing a child is detaching it and placing the chain where it was.   *)
LEMMA ReplacedPlaces ==
  ASSUME NEW l \in LinkRecord, NEW old \in Node, l.parent[old] \in Node,
         NEW R \in SUBSET Node, NEW a, NEW z, Chain(l, R, a, z), old \notin R,
         l.prev[old] \in NodeOrNull \ (R \cup {old}),
         l.next[old] \in NodeOrNull \ (R \cup {old})
  PROVE  /\ Detach(l, old) \in LinkRecord
         /\ Replaced(l, old, a, z)
              = Placed(Detach(l, old), R, {}, a, z,
                       l.parent[old], l.prev[old], l.next[old])
<1> USE NullAssumption
<1> DEFINE p == l.parent[old]
           before == l.prev[old]
           after == l.next[old]
           s == Placed(l, R, {}, a, z, p, before, after)
           c == Cleared(s, old)
           t == Detach(l, old)
           d == Placed(t, R, {}, a, z, p, before, after)
<1>0. /\ a \in R /\ z \in R /\ p \in Node
      /\ before \in NodeOrNull \ R /\ after \in NodeOrNull \ R
      /\ before # old /\ after # old
  BY DEF Chain
<1>1. Replaced(l, old, a, z) = c
  <2>1. Splice(l, a, z, p, before, after) = s
    BY <1>0, SplicePlaces
  <2> QED BY <2>1 DEF Replaced
<1>2. /\ s \in LinkRecord
      /\ \A x \in Node :
           /\ s.parent[x] = IF x \in R THEN p ELSE l.parent[x]
           /\ s.first[x] = IF x = p /\ before = NULL THEN a ELSE l.first[x]
           /\ s.last[x] = IF x = p /\ after = NULL THEN z ELSE l.last[x]
           /\ s.prev[x] = IF x = a THEN before
                          ELSE IF x = after THEN z ELSE l.prev[x]
           /\ s.next[x] = IF x = z THEN after
                          ELSE IF x = before THEN a ELSE l.next[x]
  BY <1>0 DEF Placed, LinkRecord, NodeOrNull
<1>3. /\ t \in LinkRecord
      /\ \A x \in Node :
           /\ t.parent[x] = IF x = old THEN NULL ELSE l.parent[x]
           /\ t.first[x] = IF before = NULL /\ x = p THEN after ELSE l.first[x]
           /\ t.last[x] = IF after = NULL /\ x = p THEN before ELSE l.last[x]
           /\ t.prev[x] = IF x = old THEN NULL
                          ELSE IF x = after THEN before ELSE l.prev[x]
           /\ t.next[x] = IF x = old THEN NULL
                          ELSE IF x = before THEN after ELSE l.next[x]
  BY DetachFields
<1>4. /\ d \in LinkRecord
      /\ \A x \in Node :
           /\ d.parent[x] = IF x \in R THEN p ELSE t.parent[x]
           /\ d.first[x] = IF x = p /\ before = NULL THEN a ELSE t.first[x]
           /\ d.last[x] = IF x = p /\ after = NULL THEN z ELSE t.last[x]
           /\ d.prev[x] = IF x = a THEN before
                          ELSE IF x = after THEN z ELSE t.prev[x]
           /\ d.next[x] = IF x = z THEN after
                          ELSE IF x = before THEN a ELSE t.next[x]
  <2> HIDE DEF t, p, before, after
  <2> QED BY <1>0, <1>3 DEF Placed, LinkRecord, NodeOrNull
<1> HIDE DEF s, t, d
<1>5. /\ c \in LinkRecord
      /\ c.first = s.first /\ c.last = s.last
      /\ c.parent = [s.parent EXCEPT ![old] = NULL]
      /\ c.prev = [s.prev EXCEPT ![old] = NULL]
      /\ c.next = [s.next EXCEPT ![old] = NULL]
  BY <1>2, ClearedFields
<1>6. \A x \in Node :
        /\ c.parent[x] = IF x = old THEN NULL ELSE s.parent[x]
        /\ c.prev[x] = IF x = old THEN NULL ELSE s.prev[x]
        /\ c.next[x] = IF x = old THEN NULL ELSE s.next[x]
  BY <1>2, <1>5 DEF LinkRecord
<1> HIDE DEF c, p, before, after
<1>7. \A x \in Node : c.parent[x] = d.parent[x]
  BY <1>0, <1>2, <1>3, <1>4, <1>6
<1>8. \A x \in Node : c.first[x] = d.first[x] /\ c.last[x] = d.last[x]
  BY <1>0, <1>2, <1>3, <1>4, <1>5
<1>9. \A x \in Node : c.prev[x] = d.prev[x] /\ c.next[x] = d.next[x]
  BY <1>0, <1>2, <1>3, <1>4, <1>6
<1>10. c = d
  <2>1. \A x \in Node : /\ c.parent[x] = d.parent[x]
                       /\ c.first[x] = d.first[x] /\ c.last[x] = d.last[x]
                       /\ c.prev[x] = d.prev[x]   /\ c.next[x] = d.next[x]
    BY <1>7, <1>8, <1>9
  <2>2. c \in LinkRecord /\ d \in LinkRecord
    BY <1>4, <1>5
  <2> QED BY <2>1, <2>2, SameLinks
<1> QED BY <1>1, <1>3, <1>10 DEF d, t, p, before, after

(* A fragment is emptied before or after, if it is not the parent.         *)
LEMMA EmptiedPlaces ==
  ASSUME NEW l \in LinkRecord, NEW f \in Node, NEW old \in Node,
         l.parent[old] \in Node \ {f},
         NEW R \in SUBSET Node, NEW a \in Node, NEW z \in Node,
         NEW before \in NodeOrNull, NEW after \in NodeOrNull
  PROVE  Placed(Detach(Emptied(l, f), old), R, {}, a, z, l.parent[old], before, after)
           = Placed(Detach(l, old), R, {f}, a, z, l.parent[old], before, after)
<1> USE NullAssumption
<1> DEFINE p == l.parent[old]
           e == Emptied(l, f)
           u == Detach(e, old)
           t == Detach(l, old)
           s == Placed(u, R, {}, a, z, p, before, after)
           d == Placed(t, R, {f}, a, z, p, before, after)
<1>1. /\ e \in LinkRecord
      /\ e.parent = l.parent /\ e.prev = l.prev /\ e.next = l.next
      /\ e.first = [l.first EXCEPT ![f] = NULL]
      /\ e.last = [l.last EXCEPT ![f] = NULL]
  BY EmptiedFields
<1> HIDE DEF e
<1>2. u.parent = t.parent /\ u.prev = t.prev /\ u.next = t.next
  BY <1>1 DEF Detach
<1>3. \A x \in Node :
        /\ t.first[x] = IF l.prev[old] = NULL /\ x = p THEN l.next[old] ELSE l.first[x]
        /\ t.last[x] = IF l.next[old] = NULL /\ x = p THEN l.prev[old] ELSE l.last[x]
  BY DetachFields
<1>4. \A x \in Node :
        /\ u.first[x] = IF l.prev[old] = NULL /\ x = p THEN l.next[old] ELSE e.first[x]
        /\ u.last[x] = IF l.next[old] = NULL /\ x = p THEN l.prev[old] ELSE e.last[x]
  <2>1. e \in LinkRecord
    BY <1>1
  <2>2. \A x \in Node :
          /\ u.first[x] = IF e.prev[old] = NULL /\ x = e.parent[old] THEN e.next[old]
                          ELSE e.first[x]
          /\ u.last[x] = IF e.next[old] = NULL /\ x = e.parent[old] THEN e.prev[old]
                         ELSE e.last[x]
    BY <2>1, DetachFields
  <2> QED BY <1>1, <2>2
<1>5. \A x \in Node : /\ e.first[x] = IF x = f THEN NULL ELSE l.first[x]
                     /\ e.last[x] = IF x = f THEN NULL ELSE l.last[x]
  BY <1>1 DEF LinkRecord
<1>6. \A x \in Node : /\ u.first[x] = IF x = f THEN NULL ELSE t.first[x]
                     /\ u.last[x] = IF x = f THEN NULL ELSE t.last[x]
  <2> HIDE DEF u, t
  <2> QED BY <1>3, <1>4, <1>5
<1>7. s.parent = d.parent /\ s.prev = d.prev /\ s.next = d.next
  BY <1>2 DEF Placed
<1>8. /\ [x \in Node |-> IF x = p /\ before = NULL THEN a
                         ELSE IF x \in {} THEN NULL ELSE u.first[x]]
           = [x \in Node |-> IF x = p /\ before = NULL THEN a
                             ELSE IF x \in {f} THEN NULL ELSE t.first[x]]
      /\ [x \in Node |-> IF x = p /\ after = NULL THEN z
                         ELSE IF x \in {} THEN NULL ELSE u.last[x]]
           = [x \in Node |-> IF x = p /\ after = NULL THEN z
                             ELSE IF x \in {f} THEN NULL ELSE t.last[x]]
  <2> HIDE DEF u, t, p
  <2> QED BY <1>6
<1> QED BY <1>7, <1>8 DEF Placed, e

(* Before a child, and at the end, there is a gap.                         *)
LEMMA GapBefore ==
  ASSUME NEW l, Sound(l), NEW p \in Node, NEW ref \in NodeOrNull,
         ref # NULL => l.parent[ref] = p
  PROVE  /\ Before(l, p, ref) \in NodeOrNull
         /\ Before(l, p, ref) # NULL => l.parent[Before(l, p, ref)] = p
         /\ Gap(l, p, Before(l, p, ref), ref)
         /\ Gap(Mirror(l), p, ref, Before(l, p, ref))
<1> USE NullAssumption
<1> DEFINE before == Before(l, p, ref)
<1>0. before = IF ref = NULL THEN l.last[p] ELSE l.prev[ref]
  BY DEF Before
<1> HIDE DEF before
<1>1. /\ \A x \in Node : l.last[x] \in NodeOrNull /\ l.prev[x] \in NodeOrNull
      /\ before \in NodeOrNull
  BY <1>0 DEF Sound, LinkRecord, NodeOrNull
<1>2. FirstIsFirst(Mirror(l)) /\ NextAgrees(Mirror(l))
  BY DEF Sound, Forwards
<1>3. CASE ref = NULL
  <2>1. before = NULL => l.first[p] = NULL
    BY <1>0, <1>3, NoChildren
  <2>2. before # NULL => l.parent[before] = p /\ l.next[before] = NULL
    BY <1>1, <1>2, <1>0, <1>3 DEF FirstIsFirst, Mirror
  <2> QED BY <1>0, <1>1, <1>3, <2>1, <2>2 DEF Gap, Mirror, NodeOrNull, before
<1>4. CASE ref # NULL
  <2>1. ref \in Node /\ before = l.prev[ref] /\ l.parent[ref] = p
    BY <1>0, <1>4 DEF NodeOrNull
  <2>2. IF before = NULL THEN l.first[p] = ref
        ELSE l.next[before] = ref /\ l.parent[before] = p
    BY <1>2, <2>1 DEF NextAgrees, Mirror
  <2> QED BY <1>1, <1>4, <2>1, <2>2 DEF Gap, Mirror, NodeOrNull, before
<1> QED BY <1>3, <1>4

(* Detaching a child leaves a gap.                                         *)
LEMMA GapLeft ==
  ASSUME NEW l, Sound(l), NEW old \in Node, l.parent[old] # NULL
  PROVE  /\ l.parent[old] \in Node
         /\ l.prev[old] \in NodeOrNull \ {old} /\ l.next[old] \in NodeOrNull \ {old}
         /\ l.prev[old] # NULL => l.parent[l.prev[old]] = l.parent[old]
         /\ l.next[old] # NULL => l.parent[l.next[old]] = l.parent[old]
         /\ Gap(Detach(l, old), l.parent[old], l.prev[old], l.next[old])
         /\ Gap(Mirror(Detach(l, old)), l.parent[old], l.next[old], l.prev[old])
<1> USE NullAssumption
<1> DEFINE d == Detach(l, old)
           p == l.parent[old]
           before == l.prev[old]
           after == l.next[old]
<1>0. /\ p \in Node /\ before \in Node \cup {NULL} /\ after \in Node \cup {NULL}
      /\ l \in LinkRecord
  BY DEF Sound, LinkRecord, NodeOrNull
<1>1. /\ before # old /\ after # old
      /\ before # NULL => l.parent[before] = p
      /\ after # NULL => l.parent[after] = p
  <2>1. NextAgrees(l) /\ NextAgrees(Mirror(l))
    BY DEF Sound, Forwards
  <2> QED BY <2>1, NotOwnNeighbour DEF NextAgrees, Mirror
<1>2. \A x \in Node :
        /\ d.parent[x] = IF x = old THEN NULL ELSE l.parent[x]
        /\ d.first[x] = IF before = NULL /\ x = p THEN after ELSE l.first[x]
        /\ d.last[x] = IF after = NULL /\ x = p THEN before ELSE l.last[x]
        /\ d.prev[x] = IF x = old THEN NULL ELSE IF x = after THEN before ELSE l.prev[x]
        /\ d.next[x] = IF x = old THEN NULL ELSE IF x = before THEN after ELSE l.next[x]
  BY <1>0, DetachFields
<1> HIDE DEF d, p, before, after
<1>3. Gap(d, p, before, after) /\ Gap(Mirror(d), p, after, before)
  BY <1>0, <1>1, <1>2 DEF Gap, Mirror
<1> QED BY <1>0, <1>1, <1>3 DEF d, p, before, after, NodeOrNull

(* Replacing an only child by nothing is detaching it.                     *)
LEMMA NothingDetaches ==
  ASSUME NEW l, Sound(l), NEW old \in Node, NEW p \in Node, l.parent[old] = p,
         ChildrenIn(l, p) = {old}
  PROVE  ReplacedByNothing(l, old) = Detach(l, old)
<1> USE NullAssumption
<1> DEFINE m == [l EXCEPT !.first = [@ EXCEPT ![p] = NULL], !.last = [@ EXCEPT ![p] = NULL]]
           c == Cleared(m, old)
           d == Detach(l, old)
<1>0. /\ l \in LinkRecord
      /\ \A x \in Node : l.prev[x] \in Node \cup {NULL} /\ l.next[x] \in Node \cup {NULL}
  BY DEF Sound, LinkRecord, NodeOrNull
<1>1. l.prev[old] = NULL /\ l.next[old] = NULL
  <2>1. /\ l.prev[old] \in NodeOrNull \ {old} /\ l.next[old] \in NodeOrNull \ {old}
        /\ l.prev[old] # NULL => l.parent[l.prev[old]] = p
        /\ l.next[old] # NULL => l.parent[l.next[old]] = p
    BY GapLeft
  <2> QED BY <2>1 DEF ChildrenIn, NodeOrNull
<1>2. ReplacedByNothing(l, old) = c
  BY <1>1 DEF ReplacedByNothing
<1>4. /\ m \in LinkRecord
      /\ m.first = [l.first EXCEPT ![p] = NULL] /\ m.last = [l.last EXCEPT ![p] = NULL]
      /\ m.parent = l.parent /\ m.prev = l.prev /\ m.next = l.next
  BY <1>0 DEF LinkRecord, NodeOrNull
<1> HIDE DEF m
<1>5. /\ c \in LinkRecord
      /\ c.first = m.first /\ c.last = m.last
      /\ c.parent = [m.parent EXCEPT ![old] = NULL]
      /\ c.prev = [m.prev EXCEPT ![old] = NULL]
      /\ c.next = [m.next EXCEPT ![old] = NULL]
  BY <1>4, ClearedFields
<1>6. /\ d \in LinkRecord
      /\ \A x \in Node :
           /\ d.parent[x] = IF x = old THEN NULL ELSE l.parent[x]
           /\ d.first[x] = IF x = p THEN NULL ELSE l.first[x]
           /\ d.last[x] = IF x = p THEN NULL ELSE l.last[x]
           /\ d.prev[x] = IF x = old THEN NULL ELSE l.prev[x]
           /\ d.next[x] = IF x = old THEN NULL ELSE l.next[x]
  <2>1. /\ d \in LinkRecord
        /\ \A x \in Node :
             /\ d.parent[x] = IF x = old THEN NULL ELSE l.parent[x]
             /\ d.first[x] = IF l.prev[old] = NULL /\ x = l.parent[old]
                             THEN l.next[old] ELSE l.first[x]
             /\ d.last[x] = IF l.next[old] = NULL /\ x = l.parent[old]
                            THEN l.prev[old] ELSE l.last[x]
             /\ d.prev[x] = IF x = old THEN NULL
                            ELSE IF x = l.next[old] THEN l.prev[old] ELSE l.prev[x]
             /\ d.next[x] = IF x = old THEN NULL
                            ELSE IF x = l.prev[old] THEN l.next[old] ELSE l.next[x]
    BY <1>0, DetachFields
  <2> HIDE DEF d
  <2> QED BY <1>1, <2>1, NullAssumption
<1> HIDE DEF c, d
<1>7. \A x \in Node : c.first[x] = d.first[x] /\ c.last[x] = d.last[x]
  BY <1>0, <1>4, <1>5, <1>6 DEF LinkRecord
<1>8. \A x \in Node : /\ c.parent[x] = d.parent[x]
                     /\ c.prev[x] = d.prev[x] /\ c.next[x] = d.next[x]
  BY <1>0, <1>4, <1>5, <1>6 DEF LinkRecord
<1>9. c = d
  <2>1. \A x \in Node : /\ c.parent[x] = d.parent[x]
                       /\ c.first[x] = d.first[x] /\ c.last[x] = d.last[x]
                       /\ c.prev[x] = d.prev[x]   /\ c.next[x] = d.next[x]
    BY <1>7, <1>8
  <2>2. c \in LinkRecord /\ d \in LinkRecord
    BY <1>5, <1>6
  <2> QED BY <2>1, <2>2, SameLinks
<1> QED BY <1>2, <1>9 DEF d

-----------------------------------------------------------------------------
(* Wiping.                                                                 *)

(* The links l when the nodes in D are destroyed, and the nodes in O,      *)
(* their other children, lose their parent.                                *)
WipedLinks(l, D, O) ==
  [parent |-> [x \in Node |-> IF x \in D \cup O THEN NULL ELSE l.parent[x]],
   first  |-> [x \in Node |-> IF x \in D THEN NULL ELSE l.first[x]],
   last   |-> [x \in Node |-> IF x \in D THEN NULL ELSE l.last[x]],
   prev   |-> [x \in Node |-> IF x \in D THEN NULL ELSE l.prev[x]],
   next   |-> [x \in Node |-> IF x \in D THEN NULL ELSE l.next[x]]]

(* Whole lists are wiped: the lists of the destroyed nodes.                *)
WholeLists(l, D, O) ==
  \A x \in Node : l.parent[x] # NULL => (l.parent[x] \in D <=> x \in D \cup O)

LEMMA WipedForwards ==
  ASSUME NEW l, Sound(l), NEW D \in SUBSET Node, NEW O \in SUBSET Node,
         WholeLists(l, D, O)
  PROVE  Forwards(WipedLinks(l, D, O))
<1> USE NullAssumption
<1> DEFINE d == WipedLinks(l, D, O)
<1>0. \A x \in Node : /\ l.first[x] \in Node \cup {NULL}
                      /\ l.next[x] \in Node \cup {NULL}
                      /\ l.prev[x] \in Node \cup {NULL}
                      /\ l.parent[x] \in Node \cup {NULL}
  BY DEF Sound, LinkRecord, NodeOrNull
<1>1. FirstIsFirst(l) /\ NextAgrees(l) /\ FirstReachesAll(l)
  BY DEF Sound, Forwards
<1>2. \A x \in Node :
        /\ d.parent[x] = IF x \in D \cup O THEN NULL ELSE l.parent[x]
        /\ d.first[x] = IF x \in D THEN NULL ELSE l.first[x]
        /\ d.last[x] = IF x \in D THEN NULL ELSE l.last[x]
        /\ d.prev[x] = IF x \in D THEN NULL ELSE l.prev[x]
        /\ d.next[x] = IF x \in D THEN NULL ELSE l.next[x]
  BY DEF WipedLinks
<1> HIDE DEF d
<1>3. \A x \in Node : l.parent[x] # NULL => (l.parent[x] \in D <=> x \in D \cup O)
  BY DEF WholeLists
<1>4. FirstIsFirst(d)
  BY <1>0, <1>1, <1>2, <1>3 DEF FirstIsFirst
<1>5. NextAgrees(d)
  <2> SUFFICES ASSUME NEW x \in Node, d.parent[x] # NULL
               PROVE  IF d.next[x] = NULL THEN d.last[d.parent[x]] = x
                      ELSE /\ d.prev[d.next[x]] = x
                           /\ d.parent[d.next[x]] = d.parent[x]
    BY DEF NextAgrees
  <2>1. /\ x \notin D \cup O /\ d.parent[x] = l.parent[x]
        /\ l.parent[x] \in Node \ D /\ d.next[x] = l.next[x]
    BY <1>0, <1>2, <1>3
  <2>2. IF l.next[x] = NULL THEN l.last[l.parent[x]] = x
        ELSE l.prev[l.next[x]] = x /\ l.parent[l.next[x]] = l.parent[x]
    BY <2>1, <1>0, <1>1 DEF NextAgrees
  <2> QED BY <2>1, <2>2, <1>0, <1>2, <1>3
<1>6. FirstReachesAll(d)
  <2> SUFFICES ASSUME NEW q \in Node, NEW S \in SUBSET Node,
                      d.first[q] # NULL => d.first[q] \in S,
                      \A x \in S : d.parent[x] = q /\ d.next[x] # NULL => d.next[x] \in S
               PROVE  ChildrenIn(d, q) \subseteq S
    BY DEF FirstReachesAll
  <2>1. CASE q \in D
    BY <2>1, <1>0, <1>2, <1>3 DEF ChildrenIn
  <2>2. CASE q \notin D
    <3>1. l.first[q] # NULL => l.first[q] \in S
      BY <2>2, <1>2
    <3>2. \A x \in S : l.parent[x] = q /\ l.next[x] # NULL => l.next[x] \in S
      BY <2>2, <1>2, <1>3
    <3>3. ChildrenIn(l, q) \subseteq S
      BY <3>1, <3>2, <1>1, Zenon DEF FirstReachesAll
    <3> QED BY <3>3, <1>2 DEF ChildrenIn
  <2> QED BY <2>1, <2>2
<1> QED BY <1>4, <1>5, <1>6 DEF Forwards, d

(* Wiping whole lists leaves sound links.                                  *)
LEMMA WipedSound ==
  ASSUME NEW l, Sound(l), NEW D \in SUBSET Node, NEW O \in SUBSET Node,
         WholeLists(l, D, O)
  PROVE  Sound(WipedLinks(l, D, O))
<1>1. WipedLinks(l, D, O) \in LinkRecord
  BY DEF WipedLinks, Sound, LinkRecord, NodeOrNull
<1>2. Sound(Mirror(l)) /\ WholeLists(Mirror(l), D, O)
  BY MirrorSound DEF Mirror, WholeLists
<1>3. Forwards(WipedLinks(l, D, O)) /\ Forwards(WipedLinks(Mirror(l), D, O))
  BY <1>2, WipedForwards
<1>4. Mirror(WipedLinks(l, D, O)) = WipedLinks(Mirror(l), D, O)
  BY DEF Mirror, WipedLinks
<1> QED BY <1>1, <1>3, <1>4 DEF Sound

(* Nodes without any link are soundly linked.                              *)
LEMMA UnlinkedSound ==
  Sound([parent |-> Unlinked, first |-> Unlinked, last |-> Unlinked,
         prev |-> Unlinked, next |-> Unlinked])
  BY NullAssumption
     DEF Unlinked, Sound, LinkRecord, NodeOrNull, Forwards, Mirror, FirstIsFirst,
         NextAgrees, FirstReachesAll, ChildrenIn

-----------------------------------------------------------------------------
(* Reading lists.                                                          *)

(* What one reads from the first child of p along next is s.               *)
Reads(l, p, s) ==
  /\ s \in Seq(Node)
  /\ IsInjective(s)
  /\ ToSet(s) = ChildrenIn(l, p)
  /\ l.first[p] = IF s = <<>> THEN NULL ELSE s[1]
  /\ \A i \in 1 .. Len(s) : l.next[s[i]] = IF i = Len(s) THEN NULL ELSE s[i + 1]

LEMMA ReadsFacts ==
  ASSUME NEW l, NEW p, NEW s, Reads(l, p, s)
  PROVE  /\ s \in Seq(Node) /\ Len(s) \in Nat /\ DOMAIN s = 1 .. Len(s)
         /\ s = <<>> <=> Len(s) = 0
         /\ \A i \in 1 .. Len(s) : s[i] \in Node /\ l.parent[s[i]] = p
         /\ \A i, j \in 1 .. Len(s) : s[i] = s[j] => i = j
         /\ \A c \in Node : l.parent[c] = p => \E i \in 1 .. Len(s) : c = s[i]
<1>1. s \in Seq(Node) /\ Len(s) \in Nat /\ DOMAIN s = 1 .. Len(s)
  BY LenProperties DEF Reads
<1>2. s = <<>> <=> Len(s) = 0
  BY <1>1, EmptySeq
<1>3. \A i \in 1 .. Len(s) : s[i] \in Node /\ l.parent[s[i]] = p
  <2>1. \A i \in 1 .. Len(s) : s[i] \in ToSet(s)
    BY <1>1 DEF ToSet
  <2>2. ToSet(s) = ChildrenIn(l, p)
    BY DEF Reads
  <2> QED BY <2>1, <2>2 DEF ChildrenIn
<1>4. \A i, j \in 1 .. Len(s) : s[i] = s[j] => i = j
  BY <1>1 DEF Reads, IsInjective
<1>5. \A c \in Node : l.parent[c] = p => \E i \in 1 .. Len(s) : c = s[i]
  <2>1. \A c \in ToSet(s) : \E i \in 1 .. Len(s) : c = s[i]
    BY <1>1 DEF ToSet
  <2>2. ToSet(s) = ChildrenIn(l, p)
    BY DEF Reads
  <2> QED BY <2>1, <2>2 DEF ChildrenIn
<1> QED BY <1>1, <1>2, <1>3, <1>4, <1>5

(* In sound links the list is read backwards from the last child.          *)
LEMMA ReadsBackwards ==
  ASSUME NEW l, Sound(l), NEW p \in Node, NEW s, Reads(l, p, s)
  PROVE  /\ \A i \in 1 .. Len(s) : l.prev[s[i]] = IF i = 1 THEN NULL ELSE s[i - 1]
         /\ l.last[p] = IF s = <<>> THEN NULL ELSE s[Len(s)]
<1> USE NullAssumption
<1>1. /\ Len(s) \in Nat /\ (s = <<>> <=> Len(s) = 0)
      /\ \A i \in 1 .. Len(s) : s[i] \in Node /\ l.parent[s[i]] = p
  BY ReadsFacts
<1>2. /\ l.first[p] = IF s = <<>> THEN NULL ELSE s[1]
      /\ \A i \in 1 .. Len(s) : l.next[s[i]] = IF i = Len(s) THEN NULL ELSE s[i + 1]
      /\ ToSet(s) = ChildrenIn(l, p)
  BY DEF Reads
<1>3. FirstIsFirst(l) /\ NextAgrees(l)
  BY DEF Sound, Forwards
<1>4. ASSUME NEW i \in 1 .. Len(s)
      PROVE  l.prev[s[i]] = IF i = 1 THEN NULL ELSE s[i - 1]
  <2>1. CASE i = 1
    <3>1. s # <<>> /\ l.first[p] = s[1] /\ s[1] \in Node
      BY <2>1, <1>1, <1>2
    <3> QED BY <2>1, <3>1, <1>3 DEF FirstIsFirst
  <2>2. CASE i # 1
    <3>1. i - 1 \in 1 .. Len(s) /\ i - 1 # Len(s) /\ (i - 1) + 1 = i
      BY <2>2, <1>1
    <3>2. l.next[s[i - 1]] = s[i] /\ s[i] \in Node /\ s[i - 1] \in Node /\ l.parent[s[i - 1]] = p
      BY <3>1, <1>1, <1>2
    <3>3. l.parent[s[i - 1]] # NULL /\ l.next[s[i - 1]] # NULL
      BY <3>2
    <3>4. l.prev[l.next[s[i - 1]]] = s[i - 1]
      BY <3>2, <3>3, <1>3 DEF NextAgrees
    <3> QED BY <2>2, <3>2, <3>4
  <2> QED BY <2>1, <2>2
<1>5. CASE s = <<>>
  <2>1. ChildrenIn(l, p) = {}
    BY <1>2, <1>5 DEF ToSet
  <2> QED BY <1>4, <1>5, <2>1, NoChildren
<1>6. CASE s # <<>>
  <2>1. Len(s) \in 1 .. Len(s)
    BY <1>1, <1>6
  <2>2. l.next[s[Len(s)]] = NULL /\ s[Len(s)] \in Node /\ l.parent[s[Len(s)]] = p
    BY <2>1, <1>1, <1>2
  <2>3. l.last[p] = s[Len(s)]
    BY <2>2, <1>3 DEF NextAgrees
  <2> QED BY <1>4, <1>6, <2>3
<1> QED BY <1>4, <1>5, <1>6

(* A list is what Chained computes, and so there is only one.              *)
LEMMA ChainedReads ==
  ASSUME NEW l, NEW p, NEW s, Reads(l, p, s)
  PROVE  Chained(l.first[p], l.next, Cardinality(ChildrenIn(l, p))) = s
<1> DEFINE n == Len(s)
           first == l.first[p]
           step == l.next
           Is(g) == g = [i \in 1 .. n |-> IF i = 1 THEN first ELSE step[g[i - 1]]]
           c == CHOOSE g : Is(g)
<1>1. /\ s \in Seq(Node) /\ n \in Nat /\ DOMAIN s = 1 .. n
      /\ Cardinality(ChildrenIn(l, p)) = n
  BY ReadsFacts, LengthIsCardinality DEF Reads
<1>2. /\ n # 0 => first = s[1]
      /\ \A i \in 1 .. n : i # 1 => step[s[i - 1]] = s[i]
  <2>1. n # 0 => first = s[1]
    BY <1>1, ReadsFacts DEF Reads
  <2>2. ASSUME NEW i \in 1 .. n, i # 1
        PROVE  step[s[i - 1]] = s[i]
    <3>1. i - 1 \in 1 .. n /\ i - 1 # n /\ (i - 1) + 1 = i
      BY <2>2, <1>1
    <3> QED BY <3>1 DEF Reads
  <2> QED BY <2>1, <2>2
<1>3. Chained(first, step, Cardinality(ChildrenIn(l, p))) = [i \in 1 .. n |-> c[i]]
  BY <1>1 DEF Chained
<1> HIDE DEF n, first, step
<1>4. Is(s)
  <2>1. s = [i \in 1 .. n |-> s[i]]
    BY <1>1
  <2>2. \A i \in 1 .. n : s[i] = IF i = 1 THEN first ELSE step[s[i - 1]]
    BY <1>1, <1>2
  <2>3. [i \in 1 .. n |-> s[i]] = [i \in 1 .. n |-> IF i = 1 THEN first ELSE step[s[i - 1]]]
    BY <2>2
  <2> QED BY <2>1, <2>3
<1>5. Is(c)
  <2> HIDE DEF Is
  <2> QED BY <1>4
<1> HIDE DEF c
<1>6. \A i \in 1 .. n : c[i] = IF i = 1 THEN first ELSE step[c[i - 1]]
  BY <1>5
<1> HIDE DEF Is
<1>7. \A i \in 1 .. n : c[i] = s[i]
  <2> DEFINE Bad == {i \in 1 .. n : c[i] # s[i]}
  <2> SUFFICES ASSUME Bad # {}
               PROVE  FALSE
    OBVIOUS
  <2>1. Bad \in SUBSET Nat
    BY <1>1
  <2> DEFINE m == Min(Bad)
  <2>2. m \in Bad /\ \A i \in Bad : m <= i
    <3> HIDE DEF Bad
    <3> QED BY <2>1, MinIsLeast
  <2> HIDE DEF m
  <2>3. CASE m = 1
    <3>1. c[1] = first
      BY <2>2, <2>3, <1>6
    <3>2. n # 0
      BY <1>1, <2>2
    <3> QED BY <2>2, <2>3, <3>1, <3>2, <1>2
  <2>4. CASE m # 1
    <3>1. m \in 1 .. n /\ m - 1 \in 1 .. n /\ ~(m <= m - 1)
      BY <2>2, <2>4, <1>1
    <3>2. c[m - 1] = s[m - 1]
      BY <2>2, <3>1
    <3>3. c[m] = step[c[m - 1]] /\ step[s[m - 1]] = s[m]
      BY <2>4, <3>1, <1>2, <1>6
    <3> QED BY <2>2, <3>2, <3>3
  <2> QED BY <2>3, <2>4
<1>8. [i \in 1 .. n |-> c[i]] = s
  <2>1. s = [i \in 1 .. n |-> s[i]]
    BY <1>1
  <2> QED BY <2>1, <1>7
<1> QED BY <1>3, <1>8 DEF first, step

(* Links that agree about the children of a node have the same list.       *)
LEMMA SameReads ==
  ASSUME NEW l, NEW d, NEW p \in Node, NEW s, Reads(l, p, s),
         d.first[p] = l.first[p],
         \A x \in Node : d.parent[x] = p <=> l.parent[x] = p,
         \A x \in Node : l.parent[x] = p => d.next[x] = l.next[x]
  PROVE  Reads(d, p, s)
<1>1. ChildrenIn(d, p) = ChildrenIn(l, p)
  BY DEF ChildrenIn
<1>2. \A i \in 1 .. Len(s) : d.next[s[i]] = l.next[s[i]]
  BY ReadsFacts
<1> QED BY <1>1, <1>2 DEF Reads

(* No children, no list.                                                   *)
LEMMA EmptyReads ==
  ASSUME NEW d, NEW p, d.first[p] = NULL, ChildrenIn(d, p) = {}
  PROVE  Reads(d, p, <<>>)
<1>1. <<>> \in Seq(Node) /\ Len(<<>>) = 0 /\ DOMAIN <<>> = {}
  OBVIOUS
<1>2. IsInjective(<<>>) /\ ToSet(<<>>) = {}
  BY <1>1 DEF IsInjective, ToSet
<1> QED BY <1>1, <1>2 DEF Reads

(* A node that is detached leaves its list and no other.                   *)
LEMMA DetachReads ==
  ASSUME NEW l, Sound(l), NEW n \in Node, l.parent[n] # NULL,
         NEW q \in Node, NEW s, Reads(l, q, s)
  PROVE  Reads(Detach(l, n), q, RemoveFirst(s, n))
<1> USE NullAssumption
<1> DEFINE d == Detach(l, n)
<1>1. /\ l \in LinkRecord /\ l.parent[n] \in Node
      /\ FirstIsFirst(l) /\ NextAgrees(l) /\ NextAgrees(Mirror(l))
  BY DEF Sound, Forwards, LinkRecord, NodeOrNull
<1>2. \A x \in Node :
        /\ d.parent[x] = IF x = n THEN NULL ELSE l.parent[x]
        /\ d.first[x] = IF l.prev[n] = NULL /\ x = l.parent[n]
                        THEN l.next[n] ELSE l.first[x]
        /\ d.next[x] = IF x = n THEN NULL
                       ELSE IF x = l.prev[n] THEN l.next[n] ELSE l.next[x]
  BY <1>1, DetachFields
<1>3. /\ s \in Seq(Node) /\ Len(s) \in Nat /\ DOMAIN s = 1 .. Len(s)
      /\ s = <<>> <=> Len(s) = 0
      /\ \A i \in 1 .. Len(s) : s[i] \in Node /\ l.parent[s[i]] = q
      /\ \A i, j \in 1 .. Len(s) : s[i] = s[j] => i = j
      /\ \A c \in Node : l.parent[c] = q => \E i \in 1 .. Len(s) : c = s[i]
  BY ReadsFacts
<1>4. s \in Seq(Node) /\ Len(s) \in Nat /\ IsInjective(s)
  BY <1>3 DEF Reads
<1>5. /\ l.first[q] = IF s = <<>> THEN NULL ELSE s[1]
      /\ \A i \in 1 .. Len(s) : l.next[s[i]] = IF i = Len(s) THEN NULL ELSE s[i + 1]
  BY DEF Reads
<1>6. \A i \in 1 .. Len(s) : l.prev[s[i]] = IF i = 1 THEN NULL ELSE s[i - 1]
  BY ReadsBackwards
<1> HIDE DEF d
<1>7. CASE q # l.parent[n]
  <2>1. l.prev[n] \in Node => l.parent[l.prev[n]] = l.parent[n]
    BY <1>1 DEF NextAgrees, Mirror
  <2>2. n \notin ToSet(s)
    BY <1>3, <1>7 DEF ToSet
  <2>3. RemoveFirst(s, n) = s
    BY <1>4, <2>2, RemoveFirstIsRemoveAt
  <2>4. d.first[q] = l.first[q]
    BY <1>2, <1>7
  <2>5. \A x \in Node : d.parent[x] = q <=> l.parent[x] = q
    BY <1>2, <1>7
  <2>6. \A x \in Node : l.parent[x] = q => d.next[x] = l.next[x]
    BY <1>2, <1>7, <2>1
  <2>7. Reads(d, q, s)
    BY <2>4, <2>5, <2>6, SameReads
  <2> QED BY <2>3, <2>7 DEF d
<1>8. CASE q = l.parent[n]
  <2>1. PICK k \in 1 .. Len(s) : n = s[k]
    BY <1>3, <1>8
  <2> DEFINE t == RemoveAt(s, k)
  <2>2. RemoveFirst(s, n) = t
    BY <1>4, <2>1, RemoveFirstIsRemoveAt
  <2>3. /\ t \in Seq(Node)
        /\ Len(t) = Len(s) - 1
        /\ \A i \in 1 .. Len(s) - 1 : t[i] = IF i < k THEN s[i] ELSE s[i + 1]
    BY <1>4, RemoveAtProperties
  <2>4. /\ Len(s) = 1 => t = <<>>
        /\ Len(s) # 1 => t # <<>> /\ t[1] = IF k = 1 THEN s[2] ELSE s[1]
    BY <1>4, HeadOfRemoveAt
  <2>5. IsInjective(t) /\ ToSet(t) = ToSet(s) \ {n}
    <3>1. /\ ToSet(RemoveFirst(s, n)) \subseteq ToSet(s)
          /\ ToSet(s) \subseteq ToSet(RemoveFirst(s, n)) \cup {n}
          /\ IsInjective(RemoveFirst(s, n))
          /\ n \notin ToSet(RemoveFirst(s, n))
      BY <1>4, RemoveFirstProperties
    <3> QED BY <2>2, <3>1
  <2> HIDE DEF t
  <2>6. l.prev[n] = IF k = 1 THEN NULL ELSE s[k - 1]
    BY <1>6, <2>1
  <2>7. l.next[n] = IF k = Len(s) THEN NULL ELSE s[k + 1]
    BY <1>5, <2>1
  <2>8. \A i \in 1 .. Len(s) : /\ i # k => s[i] # n
                               /\ i # k - 1 => s[i] # l.prev[n]
    <3>1. k # 1 => k - 1 \in 1 .. Len(s)
      BY <1>4
    <3>2. \A i \in 1 .. Len(s) : s[i] # NULL
      BY <1>3
    <3> QED BY <3>1, <3>2, <2>1, <2>6, <1>3
  <2>9. ToSet(t) = ChildrenIn(d, q)
    BY <1>2, <1>8, <2>5 DEF Reads, ChildrenIn
  <2>10. d.first[q] = IF t = <<>> THEN NULL ELSE t[1]
    <3>1. s # <<>> /\ l.first[q] = s[1]
      <4>1. Len(s) # 0
        BY <1>4
      <4> QED BY <4>1, <1>3, <1>5
    <3>2. CASE k = 1
      <4>1. d.first[q] = IF Len(s) = 1 THEN NULL ELSE s[2]
        BY <1>2, <1>8, <2>6, <2>7, <3>2
      <4> QED BY <4>1, <3>2, <2>4
    <3>3. CASE k # 1
      <4>1. k - 1 \in 1 .. Len(s) /\ Len(s) # 1
        BY <1>3, <3>3
      <4>2. l.prev[n] # NULL
        BY <4>1, <3>3, <1>3, <2>6
      <4>3. d.first[q] = s[1]
        BY <4>2, <1>2, <3>1
      <4> QED BY <4>1, <4>3, <3>3, <2>4
    <3> QED BY <3>2, <3>3
  <2>11. ASSUME NEW i \in 1 .. Len(t)
         PROVE  d.next[t[i]] = IF i = Len(t) THEN NULL ELSE t[i + 1]
    <3>1. i \in 1 .. Len(s) - 1 /\ Len(s) \in Nat /\ Len(t) = Len(s) - 1
      BY <1>4, <2>3
    <3>2. CASE i < k - 1
      <4>1. i \in 1 .. Len(s) /\ i # Len(s) /\ i # k /\ i # k - 1 /\ i < k
        BY <3>1, <3>2
      <4>2. i + 1 \in 1 .. Len(s) - 1 /\ i + 1 < k /\ i # Len(t)
        BY <3>1, <3>2
      <4>3. t[i] = s[i] /\ t[i + 1] = s[i + 1]
        BY <3>1, <4>1, <4>2, <2>3
      <4>4. s[i] # n /\ s[i] # l.prev[n]
        BY <4>1, <2>8
      <4>5. d.next[s[i]] = s[i + 1]
        BY <4>1, <4>4, <1>2, <1>3, <1>5
      <4> QED BY <4>2, <4>3, <4>5
    <3>3. CASE i = k - 1
      <4>1. i \in 1 .. Len(s) /\ i # Len(s) /\ i # k /\ k # 1 /\ i < k
        BY <3>1, <3>3
      <4>2. t[i] = s[i] /\ s[i] = l.prev[n] /\ s[i] # n /\ s[i] \in Node
        BY <3>1, <4>1, <3>3, <2>1, <2>3, <2>6, <1>3
      <4>3. d.next[s[i]] = IF k = Len(s) THEN NULL ELSE s[k + 1]
        BY <4>2, <1>2, <2>7
      <4>4. CASE k = Len(s)
        <5>1. i = Len(t)
          BY <3>1, <3>3, <4>4
        <5> QED BY <5>1, <4>2, <4>3, <4>4
      <4>5. CASE k # Len(s)
        <5>1. i # Len(t) /\ i + 1 = k /\ k \in 1 .. Len(s) - 1 /\ ~(k < k)
          BY <3>1, <3>3, <4>5
        <5>2. t[i + 1] = s[k + 1]
          BY <5>1, <2>3
        <5> QED BY <5>1, <5>2, <4>2, <4>3, <4>5
      <4> QED BY <4>4, <4>5
    <3>4. CASE i > k - 1
      <4>1. /\ ~(i < k) /\ i + 1 \in 1 .. Len(s) /\ i + 1 # k /\ i + 1 # k - 1
            /\ i + 1 = Len(s) <=> i = Len(t)
        BY <3>1, <3>4
      <4>2. t[i] = s[i + 1]
        BY <3>1, <4>1, <2>3
      <4>3. s[i + 1] # n /\ s[i + 1] # l.prev[n]
        BY <4>1, <2>8
      <4>4. d.next[s[i + 1]] = IF i + 1 = Len(s) THEN NULL ELSE s[(i + 1) + 1]
        <5>1. d.next[s[i + 1]] = l.next[s[i + 1]]
          BY <4>1, <4>3, <1>2, <1>3
        <5> QED BY <5>1, <4>1, <1>5
      <4>5. i # Len(t) => t[i + 1] = s[(i + 1) + 1]
        <5>1. i # Len(t) => i + 1 \in 1 .. Len(s) - 1 /\ ~(i + 1 < k)
          BY <3>1, <3>4
        <5> QED BY <5>1, <2>3
      <4> QED BY <4>1, <4>2, <4>4, <4>5
    <3>5. i < k - 1 \/ i = k - 1 \/ i > k - 1
      BY <3>1, <1>3
    <3> QED BY <3>2, <3>3, <3>4, <3>5
  <2>12. Reads(d, q, t)
    BY <2>3, <2>5, <2>9, <2>10, <2>11 DEF Reads
  <2> QED BY <2>2, <2>12 DEF d
<1> QED BY <1>7, <1>8


-----------------------------------------------------------------------------
(* Lists and the operations on links.                                      *)

(* What one reads from a to z along next is r.                             *)
ReadsRange(l, R, a, z, r) ==
  /\ r \in Seq(Node)
  /\ IsInjective(r)
  /\ ToSet(r) = R
  /\ r # <<>>
  /\ r[1] = a /\ r[Len(r)] = z
  /\ \A j \in 1 .. Len(r) : j # Len(r) => l.next[r[j]] = r[j + 1]

(* The i-th place of s is the one between before and after.                *)
IsPlace(s, i, before, after) ==
  /\ before = IF i = 1 THEN NULL ELSE s[i - 1]
  /\ after = IF i = Len(s) + 1 THEN NULL ELSE s[i]

LEMMA OneIsRange ==
  ASSUME NEW l, NEW n \in Node
  PROVE  ReadsRange(l, {n}, n, n, <<n>>)
<1>1. /\ <<n>> \in Seq(Node) /\ Len(<<n>>) = 1 /\ DOMAIN <<n>> = {1} /\ <<n>>[1] = n
      /\ <<n>> # <<>>
  OBVIOUS
<1>2. IsInjective(<<n>>) /\ ToSet(<<n>>) = {n}
  BY <1>1 DEF IsInjective, ToSet
<1>3. \A j \in 1 .. 1 : j = 1
  OBVIOUS
<1> QED BY <1>1, <1>2, <1>3 DEF ReadsRange

LEMMA ListIsRange ==
  ASSUME NEW l, Sound(l), NEW p \in Node, NEW s, Reads(l, p, s), l.first[p] # NULL
  PROVE  ReadsRange(l, ChildrenIn(l, p), l.first[p], l.last[p], s)
<1>1. s # <<>> /\ l.first[p] = s[1] /\ l.last[p] = s[Len(s)]
  BY ReadsBackwards DEF Reads
<1> QED BY <1>1 DEF Reads, ReadsRange

(* A gap is a place of the list.                                           *)
LEMMA GapIsPlace ==
  ASSUME NEW l, Sound(l), NEW p \in Node, NEW s, Reads(l, p, s),
         NEW before \in NodeOrNull, NEW after \in NodeOrNull,
         Gap(Mirror(l), p, after, before)
  PROVE  \E i \in 1 .. Len(s) + 1 : IsPlace(s, i, before, after)
<1> USE NullAssumption
<1>1. /\ Len(s) \in Nat /\ (s = <<>> <=> Len(s) = 0)
      /\ \A c \in Node : l.parent[c] = p => \E i \in 1 .. Len(s) : c = s[i]
  BY ReadsFacts
<1>2. /\ \A i \in 1 .. Len(s) : l.prev[s[i]] = IF i = 1 THEN NULL ELSE s[i - 1]
      /\ l.last[p] = IF s = <<>> THEN NULL ELSE s[Len(s)]
  BY ReadsBackwards
<1>3. IF after = NULL THEN l.last[p] = before
      ELSE after \in Node /\ l.parent[after] = p /\ l.prev[after] = before
  BY DEF Gap, Mirror
<1>4. CASE after = NULL
  <2> DEFINE i == Len(s) + 1
  <2>1. i \in 1 .. Len(s) + 1 /\ i - 1 = Len(s) /\ (i = 1 <=> s = <<>>)
    BY <1>1
  <2>2. IsPlace(s, i, before, after)
    BY <2>1, <1>2, <1>3, <1>4 DEF IsPlace
  <2> QED BY <2>1, <2>2
<1>5. CASE after # NULL
  <2>1. PICK i \in 1 .. Len(s) : after = s[i]
    BY <1>1, <1>3, <1>5
  <2>2. i \in 1 .. Len(s) + 1 /\ i # Len(s) + 1
    BY <1>1
  <2>3. before = IF i = 1 THEN NULL ELSE s[i - 1]
    BY <1>2, <1>3, <1>5, <2>1
  <2> QED BY <2>1, <2>2, <2>3 DEF IsPlace
<1> QED BY <1>4, <1>5

(* The list that nodes are placed in has them there, in their order.       *)
LEMMA PlacedReads ==
  ASSUME NEW l, NEW R, NEW E, NEW a, NEW z, NEW p, NEW before, NEW after,
         MayPlace(l, R, E, a, z, p, before, after),
         NEW r, ReadsRange(l, R, a, z, r),
         NEW s, Reads(l, p, s),
         NEW i \in 1 .. Len(s) + 1, IsPlace(s, i, before, after)
  PROVE  Reads(Placed(l, R, E, a, z, p, before, after), p,
               SubSeq(s, 1, i - 1) \o r \o SubSeq(s, i, Len(s)))
<1> USE NullAssumption
<1> DEFINE d == Placed(l, R, E, a, z, p, before, after)
           t == SubSeq(s, 1, i - 1) \o r \o SubSeq(s, i, Len(s))
<1>1. /\ p \in Node \ E /\ R \in SUBSET Node /\ a \in R /\ z \in R
      /\ before \in NodeOrNull /\ after \in NodeOrNull
      /\ l \in LinkRecord
      /\ \A x \in R : l.parent[x] \in E \cup {NULL}
  BY DEF MayPlace, Movable, Chain, Sound
<1>2. \A x \in Node :
        /\ d.parent[x] = IF x \in R THEN p ELSE l.parent[x]
        /\ d.first[x] = IF x = p /\ before = NULL THEN a
                        ELSE IF x \in E THEN NULL ELSE l.first[x]
        /\ d.next[x] = IF x = z THEN after
                       ELSE IF x = before THEN a ELSE l.next[x]
  BY <1>1, PlacedFields
<1>3. /\ s \in Seq(Node) /\ Len(s) \in Nat
      /\ \A j \in 1 .. Len(s) : s[j] \in Node /\ l.parent[s[j]] = p
      /\ \A j, k \in 1 .. Len(s) : s[j] = s[k] => j = k
      /\ s = <<>> <=> Len(s) = 0
  BY ReadsFacts
<1>4. /\ IsInjective(s) /\ ToSet(s) = ChildrenIn(l, p)
      /\ l.first[p] = IF s = <<>> THEN NULL ELSE s[1]
      /\ \A j \in 1 .. Len(s) : l.next[s[j]] = IF j = Len(s) THEN NULL ELSE s[j + 1]
  BY DEF Reads
<1>5. /\ r \in Seq(Node) /\ IsInjective(r) /\ ToSet(r) = R
      /\ r # <<>> /\ r[1] = a /\ r[Len(r)] = z
      /\ \A j \in 1 .. Len(r) : j # Len(r) => l.next[r[j]] = r[j + 1]
  BY DEF ReadsRange
<1>6. /\ Len(r) \in Nat \ {0} /\ DOMAIN r = 1 .. Len(r)
      /\ \A j \in 1 .. Len(r) : r[j] \in R
      /\ \A j, k \in 1 .. Len(r) : r[j] = r[k] => j = k
  <2>1. r \in Seq(Node) /\ r # <<>>
    BY <1>5
  <2>2. Len(r) \in Nat \ {0} /\ DOMAIN r = 1 .. Len(r)
    BY <2>1, EmptySeq, LenProperties
  <2> QED BY <2>2, <1>5 DEF IsInjective, ToSet
<1>7. /\ before = IF i = 1 THEN NULL ELSE s[i - 1]
      /\ after = IF i = Len(s) + 1 THEN NULL ELSE s[i]
  BY DEF IsPlace
<1>8. \A j \in 1 .. Len(s) : s[j] \notin R
  BY <1>1, <1>3
<1>9. /\ i = 1 <=> before = NULL
      /\ before \notin R
      /\ \A j \in 1 .. Len(s) : s[j] = before <=> j = i - 1
  <2>1. i # 1 => i - 1 \in 1 .. Len(s)
    BY <1>3
  <2>2. \A j \in 1 .. Len(s) : j = i - 1 => i # 1
    BY <1>3
  <2> QED BY <2>1, <2>2, <1>1, <1>3, <1>7, <1>8
<1> HIDE DEF d
<1>10. /\ t \in Seq(Node)
       /\ Len(t) = Len(s) + Len(r)
       /\ \A j \in 1 .. i - 1 : t[j] = s[j]
       /\ \A j \in 1 .. Len(r) : t[(i - 1) + j] = r[j]
       /\ \A j \in i .. Len(s) : t[j + Len(r)] = s[j]
  <2>1. s \in Seq(Node) /\ r \in Seq(Node) /\ i \in 1 .. Len(s) + 1
    BY <1>3, <1>5
  <2> QED BY <2>1, SpliceProperties
<1>11. ToSet(t) = ToSet(s) \cup R /\ IsInjective(t)
  <2>1. s \in Seq(Node) /\ r \in Seq(Node) /\ i \in 1 .. Len(s) + 1
    BY <1>3, <1>5
  <2>2. /\ ToSet(t) = ToSet(s) \cup ToSet(r)
        /\ IsInjective(s) /\ IsInjective(r) /\ ToSet(s) \cap ToSet(r) = {} => IsInjective(t)
    BY <2>1, SpliceElements
  <2>3. ChildrenIn(l, p) \cap R = {}
    BY <1>1 DEF ChildrenIn
  <2> HIDE DEF t
  <2> QED BY <2>2, <2>3, <1>4, <1>5
<1> HIDE DEF t
<1>12. Len(s) \in Nat /\ Len(r) \in Nat \ {0} /\ Len(t) = Len(s) + Len(r)
  BY <1>3, <1>6, <1>10
<1>13. \A k \in 1 .. Len(s) + Len(r) :
         \/ k \in 1 .. i - 1
         \/ \E j \in 1 .. Len(r) : k = (i - 1) + j
         \/ \E j \in i .. Len(s) : k = j + Len(r)
  <2>1. Len(s) \in Nat /\ Len(r) \in Nat /\ i \in 1 .. Len(s) + 1
    BY <1>12
  <2> QED BY <2>1, PlacesOfSplice
<1>14. ToSet(t) = ChildrenIn(d, p)
  BY <1>1, <1>2, <1>4, <1>11 DEF ChildrenIn
<1>15. d.first[p] = IF t = <<>> THEN NULL ELSE t[1]
  <2>1. t # <<>>
    BY <1>3, <1>6, <1>10, EmptySeq
  <2>2. CASE i = 1
    <3>1. d.first[p] = a
      BY <2>2, <1>1, <1>2, <1>9
    <3>2. 1 \in 1 .. Len(r) /\ (i - 1) + 1 = 1
      BY <2>2, <1>6
    <3>3. t[1] = r[1]
      BY <3>2, <1>10
    <3> QED BY <2>1, <3>1, <3>3, <1>5
  <2>3. CASE i # 1
    <3>1. 1 \in 1 .. i - 1 /\ Len(s) # 0
      BY <2>3, <1>3
    <3>2. d.first[p] = l.first[p]
      BY <2>3, <1>1, <1>2, <1>9
    <3> QED BY <2>1, <3>1, <3>2, <1>3, <1>4, <1>10
  <2> QED BY <2>2, <2>3
<1>16. ASSUME NEW k \in 1 .. Len(t)
       PROVE  d.next[t[k]] = IF k = Len(t) THEN NULL ELSE t[k + 1]
  <2>1. \/ k \in 1 .. i - 1
        \/ \E j \in 1 .. Len(r) : k = (i - 1) + j
        \/ \E j \in i .. Len(s) : k = j + Len(r)
    BY <1>13, <1>12
  <2>2. CASE k \in 1 .. i - 1
    <3>1. k \in 1 .. Len(s) /\ k # Len(t)
      BY <2>2, <1>12
    <3>2. t[k] = s[k] /\ s[k] \in Node /\ s[k] # z
      BY <2>2, <3>1, <1>1, <1>3, <1>8, <1>10
    <3>3. CASE k = i - 1
      <4>1. d.next[s[k]] = a
        BY <3>1, <3>2, <3>3, <1>2, <1>9
      <4>2. 1 \in 1 .. Len(r) /\ (i - 1) + 1 = k + 1
        BY <3>3, <1>6
      <4>3. t[k + 1] = r[1]
        BY <4>2, <1>10
      <4> QED BY <3>1, <3>2, <4>1, <4>3, <1>5
    <3>4. CASE k # i - 1
      <4>1. k + 1 \in 1 .. i - 1 /\ k # Len(s)
        BY <2>2, <3>4, <1>3
      <4>2. d.next[s[k]] = s[k + 1]
        BY <3>1, <3>2, <3>4, <4>1, <1>2, <1>4, <1>9
      <4>3. t[k + 1] = s[k + 1]
        BY <4>1, <1>10
      <4> QED BY <3>1, <3>2, <4>2, <4>3
    <3> QED BY <3>3, <3>4
  <2>3. ASSUME NEW j \in 1 .. Len(r), k = (i - 1) + j
        PROVE  d.next[t[k]] = IF k = Len(t) THEN NULL ELSE t[k + 1]
    <3>1. t[k] = r[j] /\ r[j] \in R /\ r[j] \in Node
      BY <2>3, <1>1, <1>6, <1>10
    <3>2. CASE j = Len(r)
      <4>1. d.next[r[j]] = after
        BY <3>1, <3>2, <1>1, <1>2, <1>5
      <4>2. k = Len(t) <=> i = Len(s) + 1
        BY <2>3, <3>2, <1>12
      <4>3. ASSUME i # Len(s) + 1
            PROVE  t[k + 1] = s[i]
        <5>1. i \in i .. Len(s) /\ i + Len(r) = k + 1
          BY <4>3, <2>3, <3>2, <1>12
        <5> QED BY <5>1, <1>10
      <4> QED BY <3>1, <4>1, <4>2, <4>3, <1>7
    <3>3. CASE j # Len(r)
      <4>1. j + 1 \in 1 .. Len(r) /\ (i - 1) + (j + 1) = k + 1 /\ k # Len(t)
            /\ Len(r) \in 1 .. Len(r)
        BY <2>3, <3>3, <1>12
      <4>2. r[j] # z
        BY <3>3, <4>1, <1>5, <1>6
      <4>3. d.next[r[j]] = r[j + 1]
        BY <3>1, <3>3, <4>2, <1>2, <1>5, <1>9
      <4>4. t[k + 1] = r[j + 1]
        BY <4>1, <1>10
      <4> QED BY <3>1, <4>1, <4>3, <4>4
    <3> QED BY <3>2, <3>3
  <2>4. ASSUME NEW j \in i .. Len(s), k = j + Len(r)
        PROVE  d.next[t[k]] = IF k = Len(t) THEN NULL ELSE t[k + 1]
    <3>1. /\ j \in 1 .. Len(s) /\ j # i - 1
          /\ k = Len(t) <=> j = Len(s)
      BY <2>4, <1>12
    <3>2. t[k] = s[j] /\ s[j] \in Node /\ s[j] # z
      BY <2>4, <3>1, <1>1, <1>3, <1>8, <1>10
    <3>3. d.next[s[j]] = IF j = Len(s) THEN NULL ELSE s[j + 1]
      BY <3>1, <3>2, <1>2, <1>4, <1>9
    <3>4. ASSUME j # Len(s)
          PROVE  t[k + 1] = s[j + 1]
      <4>1. j + 1 \in i .. Len(s) /\ (j + 1) + Len(r) = k + 1
        BY <2>4, <3>4, <1>12
      <4>2. t[(j + 1) + Len(r)] = s[j + 1]
        BY <4>1, <1>10
      <4> QED BY <4>1, <4>2
    <3> QED BY <3>1, <3>2, <3>3, <3>4
  <2> QED BY <2>1, <2>2, <2>3, <2>4
<1> QED BY <1>10, <1>11, <1>14, <1>15, <1>16 DEF Reads, d, t

(* The other lists stay, those of the nodes in E are empty.                *)
LEMMA PlacedElsewhere ==
  ASSUME NEW l, NEW R, NEW E, NEW a, NEW z, NEW p, NEW before, NEW after,
         MayPlace(l, R, E, a, z, p, before, after),
         NEW q \in Node \ {p}, NEW s, Reads(l, q, s)
  PROVE  Reads(Placed(l, R, E, a, z, p, before, after), q,
               IF q \in E THEN <<>> ELSE s)
<1> USE NullAssumption
<1> DEFINE d == Placed(l, R, E, a, z, p, before, after)
<1>1. /\ p \in Node \ E /\ R \in SUBSET Node /\ a \in R /\ z \in R
      /\ before \in NodeOrNull /\ after \in NodeOrNull
      /\ l \in LinkRecord
      /\ \A x \in R : l.parent[x] \in E \cup {NULL}
      /\ \A x \in Node : l.parent[x] \in E => x \in R
      /\ before # NULL => l.parent[before] = p
  BY DEF MayPlace, Movable, Chain, Sound, Gap
<1>2. \A x \in Node :
        /\ d.parent[x] = IF x \in R THEN p ELSE l.parent[x]
        /\ d.first[x] = IF x = p /\ before = NULL THEN a
                        ELSE IF x \in E THEN NULL ELSE l.first[x]
        /\ d.next[x] = IF x = z THEN after
                       ELSE IF x = before THEN a ELSE l.next[x]
  BY <1>1, PlacedFields
<1> HIDE DEF d
<1>3. CASE q \in E
  <2>1. d.first[q] = NULL /\ ChildrenIn(d, q) = {}
    BY <1>1, <1>2, <1>3 DEF ChildrenIn
  <2> QED BY <1>3, <2>1, EmptyReads DEF d
<1>4. CASE q \notin E
  <2>1. d.first[q] = l.first[q]
    BY <1>2, <1>4
  <2>2. \A x \in Node : d.parent[x] = q <=> l.parent[x] = q
    BY <1>1, <1>2, <1>4
  <2>3. \A x \in Node : l.parent[x] = q => d.next[x] = l.next[x]
    BY <1>1, <1>2, <1>4
  <2>4. Reads(d, q, s)
    BY <2>1, <2>2, <2>3, SameReads
  <2> QED BY <1>4, <2>4 DEF d
<1> QED BY <1>3, <1>4

(* Destroyed nodes have no list any more, the others keep theirs.          *)
LEMMA WipedReads ==
  ASSUME NEW l, Sound(l), NEW D \in SUBSET Node, NEW O \in SUBSET Node,
         WholeLists(l, D, O), NEW q \in Node, NEW s, Reads(l, q, s)
  PROVE  Reads(WipedLinks(l, D, O), q, IF q \in D THEN <<>> ELSE s)
<1> USE NullAssumption
<1> DEFINE d == WipedLinks(l, D, O)
<1>1. \A x \in Node :
        /\ d.parent[x] = IF x \in D \cup O THEN NULL ELSE l.parent[x]
        /\ d.first[x] = IF x \in D THEN NULL ELSE l.first[x]
        /\ d.next[x] = IF x \in D THEN NULL ELSE l.next[x]
  BY DEF WipedLinks
<1>2. \A x \in Node : l.parent[x] # NULL => (l.parent[x] \in D <=> x \in D \cup O)
  BY DEF WholeLists
<1> HIDE DEF d
<1>3. CASE q \in D
  <2>1. d.first[q] = NULL /\ ChildrenIn(d, q) = {}
    BY <1>1, <1>2, <1>3 DEF ChildrenIn
  <2> QED BY <1>3, <2>1, EmptyReads DEF d
<1>4. CASE q \notin D
  <2>1. d.first[q] = l.first[q]
    BY <1>1, <1>4
  <2>2. \A x \in Node : d.parent[x] = q <=> l.parent[x] = q
    BY <1>1, <1>2, <1>4
  <2>3. \A x \in Node : l.parent[x] = q => d.next[x] = l.next[x]
    BY <1>1, <1>2, <1>4
  <2>4. Reads(d, q, s)
    BY <2>1, <2>2, <2>3, SameReads
  <2> QED BY <1>4, <2>4 DEF d
<1> QED BY <1>3, <1>4

-----------------------------------------------------------------------------
(* The specification.                                                      *)

(* NodeLifetime, with what is proved about it.                             *)
Life == INSTANCE NodeLifetimeProofs

(* The links of freed nodes are gone.                                      *)
FreedUnlinked ==
  \A n \in Node \ live : previous[n] = NULL /\ next[n] = NULL

(* The inductive invariant.  That links are sound is not enough: whether a *)
(* destruction wipes whole lists depends on what it reaches, and a link to *)
(* a live node needs that parents and children are.  NodeLifetime knows.   *)
TreeInv == Life!IInv /\ Sound(Links) /\ FreedUnlinked

-----------------------------------------------------------------------------
(* The state of NodeTree and that of NodeLifetime.                         *)

(* The assumptions of NodeLifetime hold.                                   *)
LEMMA LifeAssumptions ==
  /\ Type \in [Node -> Life!NodeType]
  /\ Contract \in Life!Contracts
  BY TypeAssumption, ContractAssumption
     DEF NodeType, Life!NodeType, Contracts, Life!Contracts

(* A step of NodeLifetime preserves its invariant.                         *)
LEMMA LifeStep ==
  ASSUME Life!IInv, Contract # "any", Life!Next \/ UNCHANGED Life!vars
  PROVE  Life!IInv'
  BY LifeAssumptions, NullAssumption, BoundAssumption, Life!StepIInv

(* What the invariant says about types and reference counts.               *)
LEMMA TreeTypes ==
  ASSUME TreeInv
  PROVE  /\ live \subseteq Node
         /\ refcnt \in [Node -> Nat] /\ held \in [Node -> Nat]
         /\ parent \in [Node -> live \cup {NULL}]
         /\ \A n \in Node \ live : parent[n] = NULL
         /\ \A n \in Node : refcnt[n] = held[n] /\ (held[n] > 0 => n \in live)
  BY DEF TreeInv, Life!IInv, Life!Counted, Life!TypeOK, Life!CountsAgree

LEMMA UsableLive ==
  ASSUME TreeInv, NEW n \in Node, Usable(n)
  PROVE  n \in live
  BY TreeTypes DEF Usable

LEMMA LinksFields ==
  /\ Links.parent = parent /\ Links.first = first_child /\ Links.last = last_child
  /\ Links.prev = previous /\ Links.next = next
  /\ \A p : ChildrenIn(Links, p) = Children(p)
  BY DEF Links, ChildrenIn, Children

LEMMA BecomeLinks ==
  ASSUME NEW l \in LinkRecord, Become(l)
  PROVE  Links' = l
  BY DEF Become, Links, LinkRecord

LEMMA SameSiblings ==
  ASSUME UNCHANGED <<parent, siblings>>
  PROVE  Links' = Links /\ previous' = previous /\ next' = next
  BY DEF Links, siblings

(* A loop over the list of a node meets its children.                      *)
LEMMA ListIsChildren ==
  ASSUME Sound(Links), NEW p \in Node
  PROVE  ChildList(p) = Children(p)
  BY WalkMeetsAll, LinksFields DEF ChildList

(* A step of the model that moves or changes nothing but counts.           *)
LEMMA SiblingsKept ==
  ASSUME TreeInv, Contract # "any", UNCHANGED <<parent, siblings>>,
         live \subseteq live', Life!Next \/ UNCHANGED Life!vars
  PROVE  TreeInv'
<1>1. Life!IInv'
  BY LifeStep DEF TreeInv
<1>2. Sound(Links)'
  BY SameSiblings DEF TreeInv
<1>3. FreedUnlinked'
  BY SameSiblings DEF TreeInv, FreedUnlinked
<1> QED BY <1>1, <1>2, <1>3 DEF TreeInv

-----------------------------------------------------------------------------
(* The rules both modules share mean the same in both.                     *)

LEMMA SameQuestions ==
  /\ \A n : Life!Spent(n) <=> Spent(n)
  /\ \A n : Life!Usable(n) <=> Usable(n)
  /\ \A n : Life!AncestorsOrSelf(n) = AncestorsOrSelf(n)
  /\ \A n : Life!Readonly(n) <=> Readonly(n)
  /\ \A n : Life!Children(n) = Children(n)
  /\ \A n : Life!AbandonedOwner(n) = AbandonedOwner(n)
  /\ \A D, pend : Life!Surviving(D, pend) = Surviving(D, pend)
  /\ \A t : Life!PermittedTypes(t) = PermittedTypes(t)
  /\ Life!Documents = Documents
<1>1. \A n : Life!Spent(n) <=> Spent(n)
  BY DEF Life!Spent, Spent
<1>2. \A n : Life!Usable(n) <=> Usable(n)
  BY <1>1 DEF Life!Usable, Usable
<1>3. \A n : Life!AncestorsOrSelf(n) = AncestorsOrSelf(n)
  BY DEF Life!AncestorsOrSelf, AncestorsOrSelf
<1>4. \A n : Life!Readonly(n) <=> Readonly(n)
  BY <1>3 DEF Life!Readonly, Readonly
<1>5. \A n : Life!Children(n) = Children(n)
  BY DEF Life!Children, Children
<1>6. Life!Documents = Documents
  BY DEF Life!Documents, Documents
<1>7. \A n : Life!AbandonedOwner(n) = AbandonedOwner(n)
  BY <1>6 DEF Life!AbandonedOwner, AbandonedOwner
<1>8. \A D, pend : Life!Surviving(D, pend) = Surviving(D, pend)
  BY <1>6 DEF Life!Surviving, Surviving
<1>9. \A t : Life!PermittedTypes(t) = PermittedTypes(t)
  BY DEF Life!PermittedTypes, PermittedTypes, Life!ContentTypes, ContentTypes
<1> QED BY <1>1, <1>2, <1>3, <1>4, <1>5, <1>6, <1>7, <1>8, <1>9

LEMMA SameCalls ==
  /\ \A n : Life!TakeRef(n) <=> TakeRef(n)
  /\ \A n : Life!MayDrop(n) <=> MayDrop(n)
  /\ \A n : Life!MaySpend(n) <=> MaySpend(n)
  /\ \A a, b : Life!WrongDocument(a, b) <=> WrongDocument(a, b)
  /\ \A a, b, c : Life!InsertArguments(a, b, c) <=> InsertArguments(a, b, c)
  /\ \A a, b, c : Life!ReplaceArguments(a, b, c) <=> ReplaceArguments(a, b, c)
  /\ \A a, b : Life!RemoveRefused(a, b) <=> RemoveRefused(a, b)
  /\ \A l, n : Life!MarkPending(l, n) = MarkPending(l, n)
  /\ \A l, n : Life!RemovePending(l, n) = RemovePending(l, n)
<1>1. \A n : Life!TakeRef(n) <=> TakeRef(n)
  BY DEF Life!TakeRef, TakeRef
<1>2. \A n : Life!MayDrop(n) <=> MayDrop(n)
  BY SameQuestions DEF Life!MayDrop, MayDrop
<1>3. \A n : Life!MaySpend(n) <=> MaySpend(n)
  BY DEF Life!MaySpend, MaySpend
<1>4. \A a, b : Life!WrongDocument(a, b) <=> WrongDocument(a, b)
  BY DEF Life!WrongDocument, WrongDocument
<1>5. \A a, b, c : Life!InsertArguments(a, b, c) <=> InsertArguments(a, b, c)
  BY SameQuestions DEF Life!InsertArguments, InsertArguments
<1>6. \A a, b, c : Life!ReplaceArguments(a, b, c) <=> ReplaceArguments(a, b, c)
  BY SameQuestions DEF Life!ReplaceArguments, ReplaceArguments
<1>7. \A a, b : Life!RemoveRefused(a, b) <=> RemoveRefused(a, b)
  BY SameQuestions DEF Life!RemoveRefused, RemoveRefused
<1>8. /\ \A l, n : Life!MarkPending(l, n) = MarkPending(l, n)
      /\ \A l, n : Life!RemovePending(l, n) = RemovePending(l, n)
  BY DEF Life!MarkPending, MarkPending, Life!RemovePending, RemovePending
<1> QED BY <1>1, <1>2, <1>3, <1>4, <1>5, <1>6, <1>7, <1>8

(* The tests that walk a list see the children.                            *)
LEMMA SameTests ==
  ASSUME Sound(Links)
  PROVE  /\ \A node \in Node : \A child :
              Life!PermittedChild(node, child) <=> PermittedChild(node, child)
         /\ \A node, f \in Node : Life!AllPermitted(node, f) <=> AllPermitted(node, f)
         /\ \A node \in Node : \A new, ref :
              Life!InsertRefused(node, new, ref) <=> InsertRefused(node, new, ref)
         /\ \A node, new \in Node : \A old :
              Life!ReplaceRefused(node, new, old) <=> ReplaceRefused(node, new, old)
<1>1. \A p \in Node : ChildList(p) = Life!Children(p)
  BY ListIsChildren, SameQuestions
<1>2. \A node \in Node : \A child :
        Life!PermittedChild(node, child) <=> PermittedChild(node, child)
  BY <1>1, SameQuestions DEF Life!PermittedChild, PermittedChild
<1>3. \A node, f \in Node : Life!AllPermitted(node, f) <=> AllPermitted(node, f)
  BY <1>1, <1>2 DEF Life!AllPermitted, AllPermitted
<1>4. \A node \in Node : \A new, ref :
        Life!InsertRefused(node, new, ref) <=> InsertRefused(node, new, ref)
  BY <1>2, SameQuestions, SameCalls DEF Life!InsertRefused, InsertRefused
<1>5. \A node, new \in Node : \A old :
        Life!ReplaceRefused(node, new, old) <=> ReplaceRefused(node, new, old)
  BY <1>2, <1>3, SameQuestions DEF Life!ReplaceRefused, ReplaceRefused
<1> QED BY <1>2, <1>3, <1>4, <1>5

-----------------------------------------------------------------------------
(* Calls that leave the lists alone.                                       *)

LEMMA CreateLife ==
  ASSUME Create
  PROVE  Life!Next /\ UNCHANGED <<parent, siblings>> /\ live \subseteq live'
<1>1. \A n, doc, pend : Life!Allocate(n, doc, pend) <=> Allocate(n, doc, pend)
  BY DEF Life!Allocate, Allocate
<1>2. ASSUME NEW n \in Node, CreateDocument(n)
      PROVE  Life!CreateDocument(n) /\ UNCHANGED parent /\ live \subseteq live'
  BY <1>1, <1>2 DEF Life!CreateDocument, CreateDocument, Allocate
<1>3. ASSUME NEW n \in Node, CreateDocumentType(n)
      PROVE  Life!CreateDocumentType(n) /\ UNCHANGED parent /\ live \subseteq live'
  BY <1>1, <1>3 DEF Life!CreateDocumentType, CreateDocumentType, Allocate
<1>4. ASSUME NEW m \in Node, NEW n \in Node, CreateNode(m, n)
      PROVE  Life!CreateNode(m, n) /\ UNCHANGED parent /\ live \subseteq live'
  BY <1>1, <1>4, SameQuestions, SameCalls DEF Life!CreateNode, CreateNode, Allocate
<1>5. ASSUME NEW m \in Node, NEW n \in Node, CloneNode(m, n)
      PROVE  Life!CloneNode(m, n) /\ UNCHANGED parent /\ live \subseteq live'
  BY <1>1, <1>5, SameQuestions, SameCalls DEF Life!CloneNode, CloneNode, Allocate
<1> QED BY <1>2, <1>3, <1>4, <1>5 DEF Create, Life!Next, siblings

LEMMA CountLife ==
  ASSUME Count
  PROVE  Life!Next /\ UNCHANGED <<parent, siblings>> /\ live' = live
<1>1. ASSUME NEW n \in Node, Ref(n)
      PROVE  Life!Ref(n) /\ UNCHANGED <<live, parent>>
  BY <1>1, SameCalls DEF Life!Ref, Ref
<1>2. ASSUME NEW n \in Node, UnrefShared(n)
      PROVE  Life!UnrefShared(n) /\ UNCHANGED <<live, parent>>
  BY <1>2, SameCalls DEF Life!UnrefShared, UnrefShared
<1> QED BY <1>1, <1>2 DEF Count, Life!Next, siblings

(* What a careful client can ask for is live and is what NodeLifetime      *)
(* lets it ask for.                                                        *)
LEMMA RelativesLife ==
  ASSUME TreeInv, Contract # "any", Careful,
         NEW node \in Node, Usable(node), NEW n \in Relatives(node)
  PROVE  n \in Life!Relatives(node) \cap live
<1> USE NullAssumption
<1>0. /\ node \in live
      /\ Sound(Links) /\ Links \in LinkRecord
      /\ \A x \in Node : parent[x] # NULL => x \in live /\ parent[x] \in live
  BY UsableLive, TreeTypes DEF TreeInv, Sound
<1>1. /\ \A x \in Node : first_child[x] \in NodeOrNull /\ last_child[x] \in NodeOrNull
      /\ \A x \in Node : previous[x] \in NodeOrNull /\ next[x] \in NodeOrNull
  BY <1>0, LinksFields DEF LinkRecord
<1>2. CASE n = parent[node]
  BY <1>0, <1>2 DEF Relatives, Life!Relatives
<1>3. CASE n \in {first_child[node], last_child[node]} /\ n # NULL
  <2>1. parent[n] = node /\ n \in Node
    <3>1. FirstIsFirst(Links) /\ FirstIsFirst(Mirror(Links))
      BY <1>0 DEF Sound, Forwards
    <3> QED BY <3>1, <1>1, <1>3, LinksFields DEF FirstIsFirst, Mirror, NodeOrNull
  <2> QED BY <2>1, <1>0, <1>3 DEF Life!Relatives, Life!Children
<1>4. CASE n \in {previous[node], next[node]} /\ n # NULL /\ parent[node] # NULL
  <2>1. parent[n] = parent[node] /\ n \in Node
    <3>1. NextAgrees(Links) /\ NextAgrees(Mirror(Links))
      BY <1>0 DEF Sound, Forwards
    <3> QED BY <3>1, <1>1, <1>4, LinksFields DEF NextAgrees, Mirror, NodeOrNull
  <2> QED BY <2>1, <1>0, <1>4 DEF Life!Relatives, Life!Children
<1>5. CASE n = owner[node] /\ n # NULL /\ node \notin Documents
  <2>1. Life!IInv /\ Life!Usable(node)
    BY SameQuestions DEF TreeInv
  <2>2. n \in live
    BY <2>1, <1>5, LifeAssumptions, NullAssumption, BoundAssumption, Life!UsableOwner
  <2> QED BY <2>2, <1>5, SameQuestions DEF Life!Relatives
<1> QED BY <1>0, <1>2, <1>3, <1>4, <1>5 DEF Relatives

LEMMA FetchLife ==
  ASSUME TreeInv, Contract # "any", Careful,
         NEW node \in Node, NEW n \in Node, Fetch(node, n)
  PROVE  Life!Fetch(node, n) /\ UNCHANGED <<parent, siblings>> /\ live' = live
  BY RelativesLife, SameQuestions, SameCalls DEF Fetch, Life!Fetch

LEMMA InsertSelfLife ==
  ASSUME TreeInv, NEW node \in Node, NEW n \in Node, InsertSelf(node, n)
  PROVE  Life!InsertSelf(node, n) /\ UNCHANGED <<parent, siblings>> /\ live' = live
  BY SameCalls, SameTests DEF InsertSelf, Life!InsertSelf, TreeInv

LEMMA ReplaceSelfLife ==
  ASSUME TreeInv, NEW node \in Node, NEW n \in Node, ReplaceSelf(node, n)
  PROVE  Life!ReplaceSelf(node, n) /\ UNCHANGED <<parent, siblings>> /\ live' = live
  BY SameCalls, SameTests DEF ReplaceSelf, Life!ReplaceSelf, TreeInv

LEMMA InsertFragmentRefusedLife ==
  ASSUME TreeInv, NEW node \in Node, NEW new \in Node, NEW ref,
         InsertFragmentRefused(node, new, ref)
  PROVE  /\ Life!InsertFragmentRefused(node, new, ref)
         /\ UNCHANGED <<parent, siblings>> /\ live' = live
  BY SameCalls, SameTests
     DEF InsertFragmentRefused, Life!InsertFragmentRefused, TreeInv

-----------------------------------------------------------------------------
(* Calls that move nodes.                                                  *)

(* Links lead to live nodes, those of nodes that have no parent excepted.  *)
LEMMA LinksLive ==
  ASSUME TreeInv
  PROVE  /\ \A p \in Node : {first_child[p], last_child[p]} \subseteq live \cup {NULL}
         /\ \A n \in Node : parent[n] # NULL =>
              {previous[n], next[n]} \subseteq live \cup {NULL}
<1> USE NullAssumption
<1>0. /\ Sound(Links) /\ Links \in LinkRecord
      /\ \A x \in Node : parent[x] # NULL => x \in live
  BY TreeTypes DEF TreeInv, Sound
<1>1. /\ \A x \in Node : first_child[x] \in NodeOrNull /\ last_child[x] \in NodeOrNull
      /\ \A x \in Node : previous[x] \in NodeOrNull /\ next[x] \in NodeOrNull
  BY <1>0, LinksFields DEF LinkRecord
<1>2. /\ FirstIsFirst(Links) /\ FirstIsFirst(Mirror(Links))
      /\ NextAgrees(Links) /\ NextAgrees(Mirror(Links))
  BY <1>0 DEF Sound, Forwards
<1>3. \A p \in Node : {first_child[p], last_child[p]} \subseteq live \cup {NULL}
  <2> SUFFICES ASSUME NEW p \in Node, NEW c \in {first_child[p], last_child[p]}, c # NULL
               PROVE  c \in live
    OBVIOUS
  <2>1. c \in Node /\ parent[c] = p
    BY <1>1, <1>2, LinksFields DEF FirstIsFirst, Mirror, NodeOrNull
  <2> QED BY <2>1, <1>0
<1>4. \A n \in Node : parent[n] # NULL =>
        {previous[n], next[n]} \subseteq live \cup {NULL}
  <2> SUFFICES ASSUME NEW n \in Node, parent[n] # NULL,
                      NEW c \in {previous[n], next[n]}, c # NULL
               PROVE  c \in live
    OBVIOUS
  <2>1. c \in Node /\ parent[c] = parent[n]
    BY <1>1, <1>2, LinksFields DEF NextAgrees, Mirror, NodeOrNull
  <2> QED BY <2>1, <1>0
<1> QED BY <1>3, <1>4

(* A step of the model that leaves sound links and writes into live nodes. *)
LEMMA SiblingsMoved ==
  ASSUME TreeInv, Contract # "any", Life!Next, live' = live,
         NEW l, Sound(l), Become(l),
         \A x \in Node \ live : l.prev[x] = previous[x] /\ l.next[x] = next[x]
  PROVE  TreeInv'
<1>1. Life!IInv'
  BY LifeStep DEF TreeInv
<1>2. Sound(Links)'
  <2>1. Links' = l
    BY BecomeLinks DEF Sound
  <2> QED BY <2>1
<1>3. FreedUnlinked'
  BY DEF TreeInv, FreedUnlinked, Become
<1> QED BY <1>1, <1>2, <1>3 DEF TreeInv

LEMMA RemoveChildTree ==
  ASSUME TreeInv, Contract # "any", NEW node \in Node, NEW old \in Node,
         RemoveChild(node, old)
  PROVE  Life!RemoveChild(node, old) /\ TreeInv'
<1> USE NullAssumption
<1> DEFINE l == Detach(Links, old)
<1>1. parent[old] = node /\ parent[old] # NULL /\ Become(l) /\ live' = live
  BY DEF RemoveChild, RemoveRefused
<1>2. Sound(Links) /\ Sound(l)
  BY <1>1, DetachSound, LinksFields DEF TreeInv
<1>3. /\ l.parent = [parent EXCEPT ![old] = NULL]
      /\ \A x \in Node \ live : l.prev[x] = previous[x] /\ l.next[x] = next[x]
  <2>1. old \in live /\ {previous[old], next[old]} \subseteq live \cup {NULL}
    BY <1>1, LinksLive, TreeTypes
  <2>2. l.parent = [parent EXCEPT ![old] = NULL]
    BY LinksFields DEF Detach
  <2>3. \A x \in Node :
          /\ l.prev[x] = IF x = old THEN NULL
                         ELSE IF x = next[old] THEN previous[old] ELSE previous[x]
          /\ l.next[x] = IF x = old THEN NULL
                         ELSE IF x = previous[old] THEN next[old] ELSE next[x]
    BY <1>2, DetachFields, LinksFields DEF Sound
  <2> QED BY <2>1, <2>2, <2>3, TreeTypes
<1> HIDE DEF l
<1>4. Life!RemoveChild(node, old)
  BY <1>1, <1>3, SameQuestions, SameCalls DEF RemoveChild, Life!RemoveChild, Become
<1>5. TreeInv'
  BY <1>1, <1>2, <1>3, <1>4, SiblingsMoved DEF Life!Next
<1> QED BY <1>4, <1>5

(* No node is moved below itself.                                          *)
LEMMA NotBelowItself ==
  ASSUME TreeInv, NEW node \in Node, NEW new \in Node, new \notin AncestorsOrSelf(node)
  PROVE  new # node
  BY SameQuestions, Life!AncestorsClosed, LifeAssumptions, NullAssumption, BoundAssumption

(* A node that is inserted is taken from where it was.                     *)
LEMMA TakenSound ==
  ASSUME TreeInv, NEW new \in Node
  PROVE  /\ Sound(Taken(new)) /\ Taken(new).parent = [parent EXCEPT ![new] = NULL]
         /\ new \in live => \A x \in Node \ live :
              Taken(new).prev[x] = previous[x] /\ Taken(new).next[x] = next[x]
<1> USE NullAssumption
<1>0. Sound(Links) /\ parent \in [Node -> live \cup {NULL}]
  BY TreeTypes DEF TreeInv
<1>1. CASE parent[new] = NULL
  BY <1>0, <1>1, LinksFields DEF Taken
<1>2. CASE parent[new] # NULL
  <2>1. Taken(new) = Detach(Links, new) /\ Sound(Detach(Links, new))
    BY <1>0, <1>2, DetachSound, LinksFields DEF Taken
  <2>2. {previous[new], next[new]} \subseteq live \cup {NULL}
    BY <1>2, LinksLive
  <2>3. \A x \in Node :
          /\ Detach(Links, new).prev[x] = IF x = new THEN NULL
                         ELSE IF x = next[new] THEN previous[new] ELSE previous[x]
          /\ Detach(Links, new).next[x] = IF x = new THEN NULL
                         ELSE IF x = previous[new] THEN next[new] ELSE next[x]
    BY <1>0, DetachFields, LinksFields DEF Sound
  <2>4. Detach(Links, new).parent = [parent EXCEPT ![new] = NULL]
    BY LinksFields DEF Detach
  <2> QED BY <2>1, <2>2, <2>3, <2>4
<1> QED BY <1>1, <1>2

LEMMA InsertNodeTree ==
  ASSUME TreeInv, Contract # "any", NEW node \in Node, NEW new \in Node,
         NEW ref \in Node \cup {NULL}, InsertNode(node, new, ref)
  PROVE  /\ Life!InsertNode(node, new, ref) /\ TreeInv'
         /\ Puts(Taken(new), {new}, {}, new, new, node,
                 Before(Taken(new), node, ref), ref, Links')
<1> USE NullAssumption
<1> DEFINE t == Taken(new)
           before == Before(t, node, ref)
           l == Splice(t, new, new, node, before, ref)
           d == Placed(t, {new}, {}, new, new, node, before, ref)
<1>1. /\ Become(l) /\ live' = live /\ new # ref
      /\ ref # NULL => parent[ref] = node
      /\ new # node
  BY NotBelowItself DEF InsertNode, InsertRefused, Inserted
<1>2. new \in live /\ node \in live
  BY UsableLive DEF InsertNode, InsertArguments
<1>3. /\ parent \in [Node -> live \cup {NULL}] /\ live \subseteq Node
      /\ \A x \in Node \ live : parent[x] = NULL
  BY TreeTypes
<1>4. /\ Sound(t) /\ t.parent = [parent EXCEPT ![new] = NULL]
      /\ \A x \in Node \ live : t.prev[x] = previous[x] /\ t.next[x] = next[x]
  BY <1>2, TakenSound
<1>5. ref \in NodeOrNull
  BY DEF NodeOrNull
<1> HIDE DEF t, before
<1>6. ref # NULL => t.parent[ref] = node
  BY <1>1, <1>3, <1>4
<1>7. /\ before \in NodeOrNull
      /\ before # NULL => t.parent[before] = node
      /\ Gap(t, node, before, ref) /\ Gap(Mirror(t), node, ref, before)
  BY <1>4, <1>5, <1>6, GapBefore DEF before
<1>8. before # new
  BY <1>2, <1>3, <1>4, <1>7
<1>9. Movable(t, {new}, {}, node)
  BY <1>1, <1>3, <1>4 DEF Movable
<1>10. Chain(t, {new}, new, new) /\ Chain(Mirror(t), {new}, new, new)
  BY ChainOfOne
<1>11. Sound(d)
  BY <1>4, <1>5, <1>7, <1>9, <1>10, PlacedSound
<1>12. l = d
  BY <1>1, <1>4, <1>5, <1>7, <1>8, <1>10, SplicePlaces DEF Sound
<1> HIDE DEF l
<1>13. parent' = [parent EXCEPT ![new] = node]
  <2>1. parent' = d.parent
    BY <1>1, <1>12 DEF Become
  <2> QED BY <2>1, <1>3, <1>4 DEF Placed
<1>14. \A x \in Node \ live : l.prev[x] = previous[x] /\ l.next[x] = next[x]
  <2>1. \A x \in Node \ live : x # new /\ x # ref /\ x # before
    BY <1>1, <1>2, <1>3, <1>4, <1>7
  <2> QED BY <2>1, <1>4, <1>12 DEF Placed
<1>15. Life!InsertNode(node, new, ref)
  BY <1>13, SameCalls, SameTests DEF InsertNode, Life!InsertNode, TreeInv
<1>16. TreeInv'
  BY <1>1, <1>11, <1>12, <1>14, <1>15, SiblingsMoved DEF Life!Next
<1>17. Puts(t, {new}, {}, new, new, node, before, ref, Links')
  <2>1. Links' = d
    BY <1>1, <1>11, <1>12, BecomeLinks DEF Sound
  <2> HIDE DEF d
  <2>2. MayPlace(t, {new}, {}, new, new, node, before, ref)
    BY <1>4, <1>5, <1>7, <1>9, <1>10 DEF MayPlace
  <2> QED BY <2>1, <2>2 DEF Puts, d
<1> QED BY <1>15, <1>16, <1>17 DEF t, before

(* So are all the children of a fragment, which is empty then.             *)
LEMMA InsertFragmentTree ==
  ASSUME TreeInv, Contract # "any", NEW node \in Node, NEW new \in Node,
         NEW ref \in Node \cup {NULL}, InsertFragment(node, new, ref)
  PROVE  /\ Life!InsertFragment(node, new, ref) /\ TreeInv'
         /\ IF first_child[new] = NULL THEN Links' = Links
            ELSE Puts(Links, ChildrenIn(Links, new), {new}, first_child[new],
                      last_child[new], node, Before(Links, node, ref), ref, Links')
<1> USE NullAssumption
<1> DEFINE Moves(l) ==
      IF first_child[new] = NULL THEN l = Links
      ELSE Puts(Links, ChildrenIn(Links, new), {new}, first_child[new],
                last_child[new], node, Before(Links, node, ref), ref, l)
<1>1. /\ live' = live /\ new # node
      /\ ref # NULL => parent[ref] = node
  BY NotBelowItself DEF InsertFragment, InsertRefused
<1>2. /\ parent \in [Node -> live \cup {NULL}] /\ live \subseteq Node
      /\ \A x \in Node \ live : parent[x] = NULL
      /\ Sound(Links) /\ node \in live /\ new \in live
  BY TreeTypes, UsableLive DEF TreeInv, InsertFragment, InsertArguments
<1>3. \E l : /\ Sound(l) /\ Become(l)
             /\ l.parent = [c \in Node |-> IF parent[c] = new THEN node ELSE parent[c]]
             /\ \A x \in Node \ live : l.prev[x] = previous[x] /\ l.next[x] = next[x]
             /\ Moves(l)
  <2>1. CASE first_child[new] = NULL
    <3>1. Become(Links)
      BY <2>1 DEF InsertFragment
    <3>2. Children(new) = {}
      BY <1>2, <2>1, NoChildren, LinksFields
    <3>3. Links.parent = [c \in Node |-> IF parent[c] = new THEN node ELSE parent[c]]
      BY <1>2, <3>2, LinksFields DEF Children
    <3>4. Moves(Links)
      BY <2>1
    <3> HIDE DEF Moves
    <3> QED BY <1>2, <3>1, <3>3, <3>4, LinksFields
  <2>2. CASE first_child[new] # NULL
    <3> DEFINE R == ChildrenIn(Links, new)
               a == first_child[new]
               z == last_child[new]
               before == Before(Links, node, ref)
               d == Placed(Links, R, {new}, a, z, node, before, ref)
    <3>1. Become(Emptied(Splice(Links, a, z, node, before, ref), new))
      BY <2>2 DEF InsertFragment
    <3>2. ref \in NodeOrNull /\ (ref # NULL => Links.parent[ref] = node)
      BY <1>1, LinksFields DEF NodeOrNull
    <3>3. /\ before \in NodeOrNull
          /\ before # NULL => parent[before] = node
          /\ Gap(Links, node, before, ref) /\ Gap(Mirror(Links), node, ref, before)
      BY <1>2, <3>2, GapBefore, LinksFields
    <3> HIDE DEF before
    <3>4. R \in SUBSET Node /\ R = {c \in Node : parent[c] = new}
      BY LinksFields DEF ChildrenIn
    <3>5. Movable(Links, R, {new}, node)
      BY <1>1, <3>4, LinksFields DEF Movable
    <3>6. Chain(Links, R, a, z)
      BY <1>2, <2>2, ChainOfChildren, LinksFields
    <3>7. Chain(Mirror(Links), R, z, a)
      BY <1>2, <2>2, MirrorChain, LinksFields
    <3>8. Sound(d)
      BY <1>2, <3>2, <3>3, <3>5, <3>6, <3>7, PlacedSound
    <3>9. before \notin R /\ ref \notin R
      BY <1>1, <1>2, <3>3, <3>4
    <3>10. Become(d)
      BY <1>1, <1>2, <3>1, <3>2, <3>3, <3>4, <3>6, <3>9, EmptiedSplicePlaces DEF Sound
    <3>11. d.parent = [c \in Node |-> IF parent[c] = new THEN node ELSE parent[c]]
      BY <3>4, LinksFields DEF Placed
    <3>12. \A x \in Node \ live : d.prev[x] = previous[x] /\ d.next[x] = next[x]
      <4>1. \A x \in Node \ live : x # a /\ x # z /\ x # ref /\ x # before
        BY <1>1, <1>2, <2>2, <3>3, <3>4, <3>6 DEF Chain
      <4> QED BY <4>1, LinksFields DEF Placed
    <3>13. Moves(d)
      <4>1. MayPlace(Links, R, {new}, a, z, node, before, ref)
        BY <1>2, <3>2, <3>3, <3>5, <3>6, <3>7 DEF MayPlace
      <4> QED BY <2>2, <4>1 DEF Puts, before
    <3> HIDE DEF d, Moves
    <3> QED BY <3>8, <3>10, <3>11, <3>12, <3>13
  <2> QED BY <2>1, <2>2
<1>4. PICK l : /\ Sound(l) /\ Become(l)
               /\ l.parent = [c \in Node |-> IF parent[c] = new THEN node ELSE parent[c]]
               /\ \A x \in Node \ live : l.prev[x] = previous[x] /\ l.next[x] = next[x]
               /\ Moves(l)
  BY <1>3
<1>5. parent' = [c \in Node |-> IF parent[c] = new THEN node ELSE parent[c]]
  BY <1>4 DEF Become
<1>6. Life!InsertFragment(node, new, ref)
  BY <1>5, SameCalls, SameTests DEF InsertFragment, Life!InsertFragment, TreeInv
<1>7. TreeInv'
  <2> HIDE DEF Moves
  <2> QED BY <1>1, <1>4, <1>6, SiblingsMoved DEF Life!Next
<1>8. Moves(l) /\ Links' = l
  BY <1>4, BecomeLinks DEF Sound
<1> QED BY <1>6, <1>7, <1>8

(* What is written in the place of old: new, or the children of new.       *)
NodeReplaces(node, new, old, d) ==
  LET t == Taken(new)
  IN  /\ t.parent[old] = node
      /\ Puts(Detach(t, old), {new}, {}, new, new, node, t.prev[old], t.next[old], d)

ChildrenReplace(node, new, old, d) ==
  Puts(Detach(Links, old), ChildrenIn(Links, new), {new}, first_child[new],
       last_child[new], node, previous[old], next[old], d)

Replaces(node, new, old, d) ==
  IF Type[new] # "fragment" THEN NodeReplaces(node, new, old, d)
  ELSE IF first_child[new] = NULL THEN d = Detach(Links, old)
  ELSE ChildrenReplace(node, new, old, d)

(* A node takes the place of another one.                                  *)
LEMMA ReplaceByNode ==
  ASSUME TreeInv, NEW node \in live, NEW new \in live, NEW old \in live,
         new # old, new # node, parent[old] = node, Taken(new).parent[old] = node
  PROVE  LET l == Replaced(Taken(new), old, new, new)
         IN  /\ Sound(l)
             /\ l.parent = [c \in Node |-> IF c = new THEN node
                                           ELSE IF c = old THEN NULL ELSE parent[c]]
             /\ \A x \in Node \ live : l.prev[x] = previous[x] /\ l.next[x] = next[x]
             /\ NodeReplaces(node, new, old, l)
<1> USE NullAssumption
<1> DEFINE t == Taken(new)
           u == Detach(t, old)
           before == t.prev[old]
           after == t.next[old]
           d == Placed(u, {new}, {}, new, new, node, before, after)
<1>1. /\ parent \in [Node -> live \cup {NULL}] /\ live \subseteq Node
      /\ \A x \in Node \ live : parent[x] = NULL
  BY TreeTypes
<1>2. /\ Sound(t) /\ t.parent = [parent EXCEPT ![new] = NULL]
      /\ \A x \in Node \ live : t.prev[x] = previous[x] /\ t.next[x] = next[x]
  BY <1>1, TakenSound
<1>3. t.parent[old] = node /\ t.parent[old] # NULL
  BY <1>1
<1> HIDE DEF t
<1>4. /\ before \in NodeOrNull \ {old} /\ after \in NodeOrNull \ {old}
      /\ before # NULL => t.parent[before] = node
      /\ after # NULL => t.parent[after] = node
      /\ Gap(u, node, before, after) /\ Gap(Mirror(u), node, after, before)
  <2>1. Sound(t) /\ old \in Node
    BY <1>1, <1>2
  <2>2. /\ before \in NodeOrNull \ {old} /\ after \in NodeOrNull \ {old}
        /\ before # NULL => t.parent[before] = t.parent[old]
        /\ after # NULL => t.parent[after] = t.parent[old]
        /\ Gap(u, t.parent[old], before, after)
        /\ Gap(Mirror(u), t.parent[old], after, before)
    BY <2>1, <1>3, GapLeft
  <2> HIDE DEF u, before, after
  <2> QED BY <2>2, <1>3
<1>5. Sound(u) /\ u.parent = [t.parent EXCEPT ![old] = NULL]
  <2>1. Sound(u)
    BY <1>1, <1>2, <1>3, DetachSound
  <2> QED BY <2>1 DEF Detach
<1>6. before # new /\ after # new
  BY <1>1, <1>2, <1>4
<1>7. \A x \in Node \ live : u.prev[x] = previous[x] /\ u.next[x] = next[x]
  <2>1. \A x \in Node :
          /\ u.prev[x] = IF x = old THEN NULL ELSE IF x = after THEN before ELSE t.prev[x]
          /\ u.next[x] = IF x = old THEN NULL ELSE IF x = before THEN after ELSE t.next[x]
    BY <1>1, <1>2, DetachFields DEF Sound
  <2>2. \A x \in Node \ live : x # old /\ x # before /\ x # after
    BY <1>1, <1>2, <1>4
  <2> QED BY <1>2, <2>1, <2>2
<1>8. Replaced(t, old, new, new) = d
  <2>1. Chain(t, {new}, new, new) /\ {new} \in SUBSET Node /\ t \in LinkRecord
    BY <1>1, <1>2, ChainOfOne DEF Sound
  <2> QED BY <1>1, <1>3, <1>4, <1>6, <2>1, ReplacedPlaces
<1>9. Chain(u, {new}, new, new) /\ Chain(Mirror(u), {new}, new, new)
  BY <1>1, ChainOfOne
<1>10. Movable(u, {new}, {}, node)
  BY <1>1, <1>2, <1>5 DEF Movable
<1> HIDE DEF u, before, after
<1>11. Sound(d)
  BY <1>4, <1>5, <1>9, <1>10, PlacedSound
<1>12. d.parent = [c \in Node |-> IF c = new THEN node
                                  ELSE IF c = old THEN NULL ELSE parent[c]]
  BY <1>1, <1>2, <1>5 DEF Placed
<1>13. \A x \in Node \ live : d.prev[x] = previous[x] /\ d.next[x] = next[x]
  <2>1. \A x \in Node \ live : x # new /\ x # before /\ x # after
    BY <1>1, <1>2, <1>4
  <2> QED BY <1>7, <2>1 DEF Placed
<1>14. NodeReplaces(node, new, old, d)
  <2>1. MayPlace(u, {new}, {}, new, new, node, before, after)
    BY <1>4, <1>5, <1>9, <1>10 DEF MayPlace
  <2> QED BY <1>3, <2>1 DEF NodeReplaces, Puts, t, u, before, after
<1> HIDE DEF d
<1> QED BY <1>8, <1>11, <1>12, <1>13, <1>14 DEF t

(* All the children of a fragment take the place of a node.                *)
LEMMA ReplaceByChildren ==
  ASSUME TreeInv, NEW node \in live, NEW new \in live, NEW old \in live,
         new # node, parent[old] = node, first_child[new] # NULL
  PROVE  LET l == Replaced(Emptied(Links, new), old, first_child[new], last_child[new])
         IN  /\ Sound(l)
             /\ l.parent = [c \in Node |-> IF c \in Children(new) THEN node
                                           ELSE IF c = old THEN NULL ELSE parent[c]]
             /\ \A x \in Node \ live : l.prev[x] = previous[x] /\ l.next[x] = next[x]
             /\ ChildrenReplace(node, new, old, l)
<1> USE NullAssumption
<1> DEFINE R == ChildrenIn(Links, new)
           a == first_child[new]
           z == last_child[new]
           e == Emptied(Links, new)
           u == Detach(Links, old)
           before == previous[old]
           after == next[old]
           d == Placed(u, R, {new}, a, z, node, before, after)
<1>1. /\ parent \in [Node -> live \cup {NULL}] /\ live \subseteq Node
      /\ \A x \in Node \ live : parent[x] = NULL
      /\ Sound(Links) /\ Links \in LinkRecord
      /\ parent[old] # NULL
  BY TreeTypes DEF TreeInv, Sound
<1>2. /\ before \in NodeOrNull \ {old} /\ after \in NodeOrNull \ {old}
      /\ before # NULL => parent[before] = node
      /\ after # NULL => parent[after] = node
      /\ Gap(u, node, before, after) /\ Gap(Mirror(u), node, after, before)
  <2>1. old \in Node /\ Links.parent[old] # NULL /\ Links.parent[old] = node
    BY <1>1, LinksFields
  <2>2. /\ Links.prev[old] \in NodeOrNull \ {old} /\ Links.next[old] \in NodeOrNull \ {old}
        /\ Links.prev[old] # NULL => Links.parent[Links.prev[old]] = Links.parent[old]
        /\ Links.next[old] # NULL => Links.parent[Links.next[old]] = Links.parent[old]
        /\ Gap(u, Links.parent[old], Links.prev[old], Links.next[old])
        /\ Gap(Mirror(u), Links.parent[old], Links.next[old], Links.prev[old])
    BY <1>1, <2>1, GapLeft
  <2> HIDE DEF u
  <2> QED BY <2>1, <2>2, LinksFields
<1>3. R = Children(new) /\ R \in SUBSET Node /\ before \notin R /\ after \notin R /\ old \notin R
  BY <1>1, <1>2, LinksFields DEF Children
<1>4. Chain(Links, R, a, z) /\ a \in R /\ z \in R
  <2>1. Chain(Links, R, a, z)
    BY <1>1, ChainOfChildren, LinksFields
  <2> QED BY <2>1 DEF Chain
<1>5. /\ Sound(u) /\ u.parent = [parent EXCEPT ![old] = NULL]
      /\ u.first[new] = a /\ u.last[new] = z
  <2>1. Sound(u)
    BY <1>1, DetachSound, LinksFields
  <2>2. u.parent = [parent EXCEPT ![old] = NULL]
    BY LinksFields DEF Detach
  <2>3. u.first[new] = a /\ u.last[new] = z
    BY <1>1, DetachFields, LinksFields
  <2> QED BY <2>1, <2>2, <2>3
<1>6. \A x \in Node \ live : u.prev[x] = previous[x] /\ u.next[x] = next[x]
  <2>1. \A x \in Node :
          /\ u.prev[x] = IF x = old THEN NULL ELSE IF x = after THEN before ELSE previous[x]
          /\ u.next[x] = IF x = old THEN NULL ELSE IF x = before THEN after ELSE next[x]
    <3>1. \A x \in Node :
            /\ u.prev[x] = IF x = old THEN NULL
                           ELSE IF x = Links.next[old] THEN Links.prev[old] ELSE Links.prev[x]
            /\ u.next[x] = IF x = old THEN NULL
                           ELSE IF x = Links.prev[old] THEN Links.next[old] ELSE Links.next[x]
      BY <1>1, DetachFields
    <3> HIDE DEF u
    <3> QED BY <3>1, LinksFields
  <2>2. \A x \in Node \ live : x # old /\ x # before /\ x # after
    BY <1>1, <1>2
  <2> QED BY <2>1, <2>2
<1>7. Replaced(e, old, a, z) = d
  <2>1. /\ e \in LinkRecord
        /\ e.parent = parent /\ e.prev = previous /\ e.next = next
    BY <1>1, EmptiedFields, LinksFields
  <2>2. Chain(e, R, a, z)
    BY <1>4, <2>1, LinksFields DEF Chain
  <2>3. Replaced(e, old, a, z)
          = Placed(Detach(e, old), R, {}, a, z, e.parent[old], e.prev[old], e.next[old])
    <3> HIDE DEF e, R
    <3> QED BY <1>1, <1>2, <1>3, <2>1, <2>2, ReplacedPlaces
  <2>4. Placed(Detach(e, old), R, {}, a, z, Links.parent[old], before, after)
          = Placed(u, R, {new}, a, z, Links.parent[old], before, after)
    <3>1. Links.parent[old] \in Node \ {new} /\ a \in Node /\ z \in Node
      BY <1>1, <1>3, <1>4, LinksFields
    <3>2. new \in Node /\ old \in Node /\ before \in NodeOrNull /\ after \in NodeOrNull
      BY <1>1, <1>2
    <3> HIDE DEF R, a, z, before, after
    <3> QED BY <1>1, <1>3, <3>1, <3>2, EmptiedPlaces
  <2> HIDE DEF e, u, R
  <2> QED BY <2>1, <2>3, <2>4, LinksFields
<1>8. ChildrenIn(u, new) = R
  BY <1>1, <1>5, LinksFields DEF ChildrenIn
<1>9. Chain(u, R, a, z) /\ Chain(Mirror(u), R, z, a)
  <2>1. a # NULL
    OBVIOUS
  <2> HIDE DEF u, R
  <2> QED BY <1>1, <1>5, <1>8, <2>1, ChainOfChildren, MirrorChain
<1>10. Movable(u, R, {new}, node)
  BY <1>1, <1>3, <1>5 DEF Movable, Children
<1> HIDE DEF u, R, e
<1>11. Sound(d)
  BY <1>2, <1>5, <1>9, <1>10, PlacedSound
<1>12. d.parent = [c \in Node |-> IF c \in Children(new) THEN node
                                  ELSE IF c = old THEN NULL ELSE parent[c]]
  BY <1>1, <1>3, <1>5 DEF Placed
<1>13. \A x \in Node \ live : d.prev[x] = previous[x] /\ d.next[x] = next[x]
  <2>1. \A x \in Node \ live : x # a /\ x # z /\ x # before /\ x # after
    BY <1>1, <1>2, <1>3, <1>4 DEF Children
  <2> QED BY <1>6, <2>1 DEF Placed
<1>14. ChildrenReplace(node, new, old, d)
  <2>1. MayPlace(u, R, {new}, a, z, node, before, after)
    BY <1>2, <1>5, <1>9, <1>10 DEF MayPlace
  <2> QED BY <2>1 DEF ChildrenReplace, Puts, u, R
<1> HIDE DEF d
<1> QED BY <1>7, <1>11, <1>12, <1>13, <1>14 DEF e

LEMMA ReplaceChildTree ==
  ASSUME TreeInv, Contract # "any", Careful,
         NEW node \in Node, NEW new \in Node, NEW old \in Node,
         ReplaceChild(node, new, old)
  PROVE  /\ Life!ReplaceChild(node, new, old) /\ TreeInv'
         /\ Replaces(node, new, old, Links')
<1> USE NullAssumption
<1> DEFINE moved == IF Type[new] = "fragment" THEN Children(new) ELSE {new}
           l == Replacement(new, old)
<1>1. /\ Become(l) /\ live' = live
      /\ parent[old] = node /\ new # node /\ new # old
      /\ Type[new] = "fragment" =>
           MaySpend(new) /\ (first_child[new] = NULL => ChildList(node) = {old})
  BY NotBelowItself DEF ReplaceChild, ReplaceRefused
<1>2. /\ parent \in [Node -> live \cup {NULL}] /\ live \subseteq Node
      /\ \A x \in Node \ live : parent[x] = NULL
      /\ Sound(Links) /\ Links \in LinkRecord
  BY TreeTypes DEF TreeInv, Sound
<1>3. node \in live /\ new \in live /\ old \in live
  BY UsableLive DEF ReplaceChild, ReplaceArguments
<1>4. /\ Sound(l)
      /\ l.parent = [c \in Node |-> IF c \in moved THEN node
                                    ELSE IF c = old THEN NULL ELSE parent[c]]
      /\ \A x \in Node \ live : l.prev[x] = previous[x] /\ l.next[x] = next[x]
      /\ moved = {} => Children(node) = {old}
      /\ Replaces(node, new, old, l)
  <2>1. CASE Type[new] # "fragment"
    <3>1. l = Replaced(Taken(new), old, new, new)
      BY <2>1 DEF Replacement
    <3>2. Taken(new).parent[old] = node
      <4>1. Taken(new).parent = [parent EXCEPT ![new] = NULL]
        BY TakenSound
      <4> QED BY <4>1, <1>1, <1>2
    <3>3. moved = {new}
      BY <2>1
    <3>4. /\ Sound(l)
          /\ l.parent = [c \in Node |-> IF c = new THEN node
                                        ELSE IF c = old THEN NULL ELSE parent[c]]
          /\ \A x \in Node \ live : l.prev[x] = previous[x] /\ l.next[x] = next[x]
          /\ NodeReplaces(node, new, old, l)
      <4> HIDE DEF l
      <4> DEFINE r == Replaced(Taken(new), old, new, new)
      <4>1. /\ Sound(r)
            /\ r.parent = [c \in Node |-> IF c = new THEN node
                                          ELSE IF c = old THEN NULL ELSE parent[c]]
            /\ \A x \in Node \ live : r.prev[x] = previous[x] /\ r.next[x] = next[x]
            /\ NodeReplaces(node, new, old, r)
        BY <1>1, <1>3, <3>2, ReplaceByNode
      <4> QED BY <3>1, <4>1
    <3>5. Replaces(node, new, old, l)
      <4> HIDE DEF l
      <4> QED BY <2>1, <3>4 DEF Replaces
    <3> HIDE DEF l, moved
    <3> QED BY <3>3, <3>4, <3>5
  <2>2. CASE Type[new] = "fragment" /\ first_child[new] = NULL
    <3>1. Children(node) = {old} /\ Children(new) = {}
      <4>1. Children(node) = {old}
        BY <1>1, <1>2, <2>2, ListIsChildren
      <4>2. ChildrenIn(Links, new) = {}
        BY <1>2, <2>2, NoChildren, LinksFields
      <4> QED BY <4>1, <4>2, LinksFields
    <3>2. l = ReplacedByNothing(Links, old)
      BY <2>2 DEF Replacement
    <3>3. l = Detach(Links, old)
      BY <1>1, <1>2, <3>1, <3>2, NothingDetaches, LinksFields
    <3>4. Sound(l)
      BY <1>1, <1>2, <3>3, DetachSound, LinksFields
    <3>5. l.parent = [parent EXCEPT ![old] = NULL]
      BY <3>3, LinksFields DEF Detach
    <3>6. \A x \in Node \ live : l.prev[x] = previous[x] /\ l.next[x] = next[x]
      <4>1. \A x \in Node :
              /\ l.prev[x] = IF x = old THEN NULL
                             ELSE IF x = Links.next[old] THEN Links.prev[old] ELSE Links.prev[x]
              /\ l.next[x] = IF x = old THEN NULL
                             ELSE IF x = Links.prev[old] THEN Links.next[old] ELSE Links.next[x]
        BY <1>2, <3>3, DetachFields
      <4>2. {previous[old], next[old]} \subseteq live \cup {NULL}
        BY <1>1, LinksLive
      <4> HIDE DEF l
      <4> QED BY <4>1, <4>2, <1>2, <1>3, LinksFields
    <3>7. moved = {}
      BY <2>2, <3>1
    <3>8. Replaces(node, new, old, l)
      <4> HIDE DEF l
      <4> QED BY <2>2, <3>3 DEF Replaces
    <3> HIDE DEF l, moved
    <3> QED BY <1>2, <3>1, <3>4, <3>5, <3>6, <3>7, <3>8
  <2>3. CASE Type[new] = "fragment" /\ first_child[new] # NULL
    <3>1. l = Replaced(Emptied(Links, new), old, first_child[new], last_child[new])
      BY <2>3 DEF Replacement
    <3>2. /\ Sound(l)
          /\ l.parent = [c \in Node |-> IF c \in Children(new) THEN node
                                        ELSE IF c = old THEN NULL ELSE parent[c]]
          /\ \A x \in Node \ live : l.prev[x] = previous[x] /\ l.next[x] = next[x]
          /\ ChildrenReplace(node, new, old, l)
      BY <1>1, <1>3, <2>3, <3>1, ReplaceByChildren
    <3>3. moved = Children(new) /\ Children(new) # {}
      BY <1>2, <2>3, NoChildren, LinksFields
    <3>4. Replaces(node, new, old, l)
      <4> HIDE DEF l
      <4> QED BY <2>3, <3>2 DEF Replaces
    <3> HIDE DEF l, moved
    <3> QED BY <3>2, <3>3, <3>4
  <2> QED BY <2>1, <2>2, <2>3
<1>5. parent' = [c \in Node |-> IF c \in moved THEN node
                                ELSE IF c = old THEN NULL ELSE parent[c]]
  BY <1>1, <1>4 DEF Become
<1>6. Life!ReplaceChild(node, new, old)
  <2>1. /\ Life!ReplaceArguments(node, new, old)
        /\ ~Life!ReplaceRefused(node, new, old)
        /\ Type[new] = "fragment" => Life!MaySpend(new)
        /\ pending' = Life!MarkPending(Life!RemovePending(pending, new), old)
        /\ Life!TakeRef(old)
        /\ UNCHANGED <<live, owner>>
    BY <1>1, SameCalls, SameTests DEF ReplaceChild, TreeInv
  <2>2. moved = IF Type[new] = "fragment" THEN Life!Children(new) ELSE {new}
    BY SameQuestions
  <2>3. moved = {} => Life!Children(node) = {old}
    BY <1>4, SameQuestions
  <2> HIDE DEF moved
  <2> QED BY <1>1, <1>5, <2>1, <2>2, <2>3 DEF Life!ReplaceChild
<1>7. TreeInv'
  <2>1. Life!Next
    BY <1>6 DEF Life!Next
  <2> HIDE DEF l
  <2> QED BY <1>1, <1>4, <2>1, SiblingsMoved
<1>8. Replaces(node, new, old, Links')
  <2> HIDE DEF l
  <2>1. Links' = l
    BY <1>1, <1>4, BecomeLinks DEF Sound
  <2> QED BY <1>4, <2>1
<1> QED BY <1>6, <1>7, <1>8

-----------------------------------------------------------------------------
(* Destruction.                                                            *)

(* The walk of the finalisers reaches what NodeLifetime says.              *)
LEMMA DoomedSame ==
  ASSUME TreeInv, NEW roots
  PROVE  Doomed(roots) = Life!Doomed(roots)
<1> USE NullAssumption
<1> DEFINE destroys == UNION {{x} \X {c \in ChildList(x) : refcnt[c] = 0} : x \in Node}
<1>1. \A x \in Node : ChildList(x) = {c \in Node : parent[c] = x}
  BY ListIsChildren DEF TreeInv, Children
<1>2. \A c \in Node : parent[c] \in Node \cup {NULL}
  BY TreeTypes
<1>3. ASSUME NEW S \in SUBSET Node
      PROVE  (\A e \in destroys : e[1] \in S => e[2] \in S)
               <=> (\A c \in Node : parent[c] \in S /\ refcnt[c] = 0 => c \in S)
  <2>1. ASSUME \A e \in destroys : e[1] \in S => e[2] \in S,
               NEW c \in Node, parent[c] \in S, refcnt[c] = 0
        PROVE  c \in S
    <3>1. c \in {k \in ChildList(parent[c]) : refcnt[k] = 0} /\ parent[c] \in Node
      BY <1>1, <2>1
    <3>2. <<parent[c], c>> \in {parent[c]} \X {k \in ChildList(parent[c]) : refcnt[k] = 0}
      BY <3>1
    <3>3. <<parent[c], c>> \in destroys
      BY <3>1, <3>2
    <3> HIDE DEF destroys
    <3> QED BY <2>1, <3>3
  <2>2. ASSUME \A c \in Node : parent[c] \in S /\ refcnt[c] = 0 => c \in S,
               NEW e \in destroys, e[1] \in S
        PROVE  e[2] \in S
    <3>1. PICK x \in Node : e \in {x} \X {c \in ChildList(x) : refcnt[c] = 0}
      OBVIOUS
    <3>2. e[1] = x /\ e[2] \in ChildList(x) /\ refcnt[e[2]] = 0
      BY <3>1
    <3>3. e[2] \in Node /\ parent[e[2]] = x
      BY <1>1, <3>2
    <3> QED BY <2>2, <3>2, <3>3
  <2> HIDE DEF destroys
  <2> QED BY <2>1, <2>2
<1>4. Doomed(roots) = {x \in Node : \A S \in {S \in SUBSET Node :
                         /\ roots \subseteq S
                         /\ \A e \in destroys : e[1] \in S => e[2] \in S} : x \in S}
  BY DEF Doomed
<1> HIDE DEF destroys
<1> QED BY <1>3, <1>4 DEF Life!Doomed

LEMMA UnrefLastTree ==
  ASSUME TreeInv, Contract # "any", NEW n \in Node, UnrefLast(n)
  PROVE  /\ Life!UnrefLast(n) /\ TreeInv'
         /\ \E O \in SUBSET Node :
              /\ WholeLists(Links, Doomed({n} \cup AbandonedOwner(n)), O)
              /\ Links' = WipedLinks(Links, Doomed({n} \cup AbandonedOwner(n)), O)
<1> USE NullAssumption
<1> DEFINE D == Doomed({n} \cup AbandonedOwner(n))
           O == (UNION {ChildList(x) : x \in D}) \ D
           pend == (pending \ D) \cup O
           freed == D \ Surviving(D, pend)
           l == WipedLinks(Links, D, O)
<1>1. /\ parent \in [Node -> live \cup {NULL}] /\ live \subseteq Node
      /\ \A x \in Node : parent[x] \in Node \cup {NULL}
      /\ Sound(Links)
  BY TreeTypes DEF TreeInv
<1>2. /\ live'    = live \ freed
      /\ pending' = pend
      /\ owner'   = [x \in Node |-> IF x \in freed THEN NULL ELSE owner[x]]
      /\ refcnt'  = [refcnt EXCEPT ![n] = 0]
      /\ held'    = [held EXCEPT ![n] = 0]
      /\ Become(l)
  <2>1. Destroy(n)
    BY DEF UnrefLast
  <2>2. /\ live'    = live \ freed
        /\ pending' = pend
        /\ owner'   = [x \in Node |-> IF x \in freed THEN NULL ELSE owner[x]]
        /\ refcnt'  = [refcnt EXCEPT ![n] = 0]
        /\ held'    = [held EXCEPT ![n] = 0]
        /\ Become([parent |-> [x \in Node |-> IF x \in D \cup O THEN NULL ELSE parent[x]],
                   first  |-> [x \in Node |-> IF x \in D THEN NULL ELSE first_child[x]],
                   last   |-> [x \in Node |-> IF x \in D THEN NULL ELSE last_child[x]],
                   prev   |-> [x \in Node |-> IF x \in D THEN NULL ELSE previous[x]],
                   next   |-> [x \in Node |-> IF x \in D THEN NULL ELSE next[x]]])
    <3> DEFINE Does(D0, O0) ==
            /\ live'    = live \ (D0 \ Surviving(D0, (pending \ D0) \cup O0))
            /\ pending' = (pending \ D0) \cup O0
            /\ owner'   = [x \in Node |->
                            IF x \in D0 \ Surviving(D0, (pending \ D0) \cup O0)
                            THEN NULL ELSE owner[x]]
            /\ refcnt'  = [refcnt EXCEPT ![n] = 0]
            /\ held'    = [held EXCEPT ![n] = 0]
            /\ Become([parent |-> [x \in Node |-> IF x \in D0 \cup O0 THEN NULL ELSE parent[x]],
                       first  |-> [x \in Node |-> IF x \in D0 THEN NULL ELSE first_child[x]],
                       last   |-> [x \in Node |-> IF x \in D0 THEN NULL ELSE last_child[x]],
                       prev   |-> [x \in Node |-> IF x \in D0 THEN NULL ELSE previous[x]],
                       next   |-> [x \in Node |-> IF x \in D0 THEN NULL ELSE next[x]]])
    <3>1. \E D0 \in {D} : \E O0 \in {(UNION {ChildList(x) : x \in D0}) \ D0} : Does(D0, O0)
      BY <2>1 DEF Destroy
    <3>2. Does(D, O)
      <4> HIDE DEF Does, D
      <4> QED BY <3>1
    <3> HIDE DEF D
    <3> QED BY <3>2
  <2> HIDE DEF D, O, pend, freed
  <2> QED BY <2>2, LinksFields DEF WipedLinks, l
<1>3. D = Life!Reached(n) /\ D \in SUBSET Node
  BY DoomedSame, SameQuestions DEF Life!Reached, Doomed
<1>4. /\ n \in D
      /\ \A x \in D : x # n /\ x \notin AbandonedOwner(n) => parent[x] \in D
  <2>1. /\ n \in Life!Reached(n)
        /\ \A x \in Life!Reached(n) :
             x # n /\ x \notin Life!AbandonedOwner(n) => parent[x] \in Life!Reached(n)
    BY LifeAssumptions, NullAssumption, BoundAssumption, Life!ReachedFacts
  <2> HIDE DEF D
  <2> QED BY <1>3, <2>1, SameQuestions
<1>5. \A x \in D : parent[x] # NULL => parent[x] \in D
  <2>1. parent[n] = NULL /\ \A x \in AbandonedOwner(n) : parent[x] = NULL
    BY DEF UnrefLast, AbandonedOwner
  <2> QED BY <1>4, <2>1
<1> HIDE DEF D
<1>6. O = {c \in Node \ D : parent[c] \in D}
  <2>1. \A x \in D : ChildList(x) = {c \in Node : parent[c] = x}
    BY <1>1, <1>3, ListIsChildren DEF Children
  <2>2. UNION {ChildList(x) : x \in D} = UNION {{c \in Node : parent[c] = x} : x \in D}
    BY <2>1
  <2>3. UNION {{c \in Node : parent[c] = x} : x \in D} = {c \in Node : parent[c] \in D}
    OBVIOUS
  <2> QED BY <2>2, <2>3
<1> HIDE DEF O
<1>7. WholeLists(Links, D, O)
  BY <1>1, <1>5, <1>6, LinksFields DEF WholeLists
<1>8. Sound(l)
  BY <1>1, <1>3, <1>6, <1>7, WipedSound
<1>9. Life!UnrefLast(n)
  <2>1. O = Life!Orphans(Life!Reached(n))
    BY <1>3, <1>6 DEF Life!Orphans
  <2>2. pend = Life!PendingAfter(n)
    BY <1>3, <2>1 DEF Life!PendingAfter
  <2>3. freed = Life!Freed(n)
    BY <1>3, <2>2, SameQuestions DEF Life!Freed
  <2>4. parent' = [x \in Node |-> IF x \in D \cup O THEN NULL ELSE parent[x]]
    BY <1>2, LinksFields DEF Become, WipedLinks
  <2> HIDE DEF pend, freed
  <2>5. Life!Destroy(n)
    BY <1>2, <1>3, <2>1, <2>2, <2>3, <2>4
       DEF Life!Destroy, Life!Reached, Life!PendingAfter, Life!Freed
  <2> QED BY <2>5, SameCalls DEF UnrefLast, Life!UnrefLast
<1>10. TreeInv'
  <2>1. Life!IInv'
    BY <1>9, LifeStep DEF TreeInv, Life!Next
  <2>2. Sound(Links)'
    <3>1. Links' = l
      BY <1>2, <1>8, BecomeLinks DEF Sound
    <3> QED BY <1>8, <3>1
  <2>3. FreedUnlinked'
    BY <1>2, <1>3, LinksFields DEF TreeInv, FreedUnlinked, Become, WipedLinks
  <2> QED BY <2>1, <2>2, <2>3 DEF TreeInv
<1>11. Links' = l
  BY <1>2, <1>8, BecomeLinks DEF Sound
<1>12. O \in SUBSET Node
  BY <1>6
<1>13. \E Orphans \in SUBSET Node :
         WholeLists(Links, D, Orphans) /\ Links' = WipedLinks(Links, D, Orphans)
  BY <1>7, <1>11, <1>12
<1> QED BY <1>9, <1>10, <1>13 DEF D

-----------------------------------------------------------------------------
(* Every call.                                                             *)

LEMMA TreeInit == Init => TreeInv /\ Life!Init
<1> SUFFICES ASSUME Init PROVE TreeInv /\ Life!Init
  OBVIOUS
<1>1. Life!Init
  BY DEF Init, NoNodes, Life!Init, Life!NoNodes
<1>2. Life!IInv
  BY <1>1, LifeAssumptions, NullAssumption, BoundAssumption, Life!InitIInv
<1>3. Links = [parent |-> Unlinked, first |-> Unlinked, last |-> Unlinked,
               prev |-> Unlinked, next |-> Unlinked]
  BY DEF Init, NoNodes, Unlinked, Links
<1>4. FreedUnlinked
  BY DEF Init, Unlinked, FreedUnlinked
<1> QED BY <1>1, <1>2, <1>3, <1>4, UnlinkedSound DEF TreeInv

LEMMA TreeStep ==
  ASSUME TreeInv, Contract # "any", Careful, [Next]_vars
  PROVE  TreeInv' /\ [Life!Next]_Life!vars
<1>1. CASE UNCHANGED vars
  <2>1. UNCHANGED Life!vars /\ UNCHANGED <<parent, siblings>> /\ live' = live
    BY <1>1 DEF vars, Life!vars
  <2> QED BY <2>1, SiblingsKept
<1>2. CASE Create
  <2>1. Life!Next /\ UNCHANGED <<parent, siblings>> /\ live \subseteq live'
    BY <1>2, CreateLife
  <2> QED BY <2>1, SiblingsKept
<1>3. CASE Count
  <2>1. Life!Next /\ UNCHANGED <<parent, siblings>> /\ live' = live
    BY <1>3, CountLife
  <2> QED BY <2>1, SiblingsKept
<1>4. CASE \E n \in Node : UnrefLast(n)
  BY <1>4, UnrefLastTree DEF Life!Next
<1>5. CASE \E node, n \in Node : Fetch(node, n) \/ InsertSelf(node, n) \/ ReplaceSelf(node, n)
  <2>1. Life!Next /\ UNCHANGED <<parent, siblings>> /\ live' = live
    BY <1>5, FetchLife, InsertSelfLife, ReplaceSelfLife DEF Life!Next
  <2> QED BY <2>1, SiblingsKept
<1>6. CASE \E node, n \in Node : RemoveChild(node, n)
  BY <1>6, RemoveChildTree DEF Life!Next
<1>7. CASE \E node, new \in Node, ref \in Node \cup {NULL} :
             InsertNode(node, new, ref) \/ InsertFragment(node, new, ref)
  BY <1>7, InsertNodeTree, InsertFragmentTree DEF Life!Next
<1>8. CASE \E node, new \in Node, ref \in Node \cup {NULL} :
             InsertFragmentRefused(node, new, ref)
  <2>1. Life!Next /\ UNCHANGED <<parent, siblings>> /\ live' = live
    BY <1>8, InsertFragmentRefusedLife DEF Life!Next
  <2> QED BY <2>1, SiblingsKept
<1>9. CASE \E node, new, old \in Node : ReplaceChild(node, new, old)
  BY <1>9, ReplaceChildTree DEF Life!Next
<1> QED
  BY <1>1, <1>2, <1>3, <1>4, <1>5, <1>6, <1>7, <1>8, <1>9 DEF Next

(* The invariant holds of every behaviour.                                 *)
THEOREM LinksInvariance ==
  ASSUME Contract # "any", Careful
  PROVE  Spec => []TreeInv
<1>1. Init => TreeInv
  BY TreeInit
<1>2. TreeInv /\ [Next]_vars => TreeInv'
  BY TreeStep
<1> QED BY <1>1, <1>2, PTL DEF Spec

(* Types, and links that lead from live nodes to live nodes only.          *)
THEOREM LinksLeadToLiveNodes ==
  ASSUME Contract # "any", Careful
  PROVE  Spec => []TypeOK
<1>1. TreeInv => TypeOK
  <2> SUFFICES ASSUME TreeInv PROVE TypeOK
    OBVIOUS
  <2> USE NullAssumption
  <2>1. /\ first_child \in [Node -> Node \cup {NULL}]
        /\ last_child \in [Node -> Node \cup {NULL}]
        /\ previous \in [Node -> Node \cup {NULL}]
        /\ next \in [Node -> Node \cup {NULL}]
    BY LinksFields DEF TreeInv, Sound, LinkRecord, NodeOrNull
  <2>2. /\ live \subseteq Node
        /\ \A c \in Node : parent[c] \in live \cup {NULL}
    BY TreeTypes
  <2>3. ASSUME NEW n \in Node \ live
        PROVE  first_child[n] = NULL /\ last_child[n] = NULL
    <3>1. ChildrenIn(Links, n) = {}
      BY <2>2, LinksFields DEF Children
    <3> QED BY <3>1, NoChildren, LinksFields DEF TreeInv
  <2>4. \A n \in Node \ live : previous[n] = NULL /\ next[n] = NULL
    BY DEF TreeInv, FreedUnlinked
  <2> QED BY <2>1, <2>2, <2>3, <2>4, LinksLive DEF TypeOK
<1> QED BY <1>1, LinksInvariance, PTL

(* The four pointers describe one list of children for every node: walked  *)
(* from either end it meets the children, all of them and no others, and   *)
(* neighbours agree about each other.                                      *)
THEOREM ListsAreSound ==
  ASSUME Contract # "any", Careful
  PROVE  Spec => []OneListPerParent
<1>1. TreeInv => OneListPerParent
  <2> SUFFICES ASSUME TreeInv PROVE OneListPerParent
    OBVIOUS
  <2>1. Sound(Links) /\ live \subseteq Node
    BY TreeTypes DEF TreeInv
  <2>2. ASSUME NEW p \in live
        PROVE  /\ ChildList(p) = Children(p)
               /\ Walk(previous, last_child[p], NULL) = Children(p)
    <3>1. Sound(Mirror(Links))
      BY <2>1, MirrorSound
    <3>2. Walk(Mirror(Links).next, Mirror(Links).first[p], NULL) = ChildrenIn(Mirror(Links), p)
      BY <2>1, <3>1, WalkMeetsAll
    <3>3. ChildrenIn(Mirror(Links), p) = Children(p)
      BY LinksFields DEF ChildrenIn, Mirror, Children
    <3>4. Mirror(Links).next = previous /\ Mirror(Links).first = last_child
      BY LinksFields DEF Mirror
    <3> QED BY <2>1, <3>2, <3>3, <3>4, ListIsChildren
  <2>3. NeighboursAgree
    <3>1. NextAgrees(Links) /\ NextAgrees(Mirror(Links))
      BY <2>1 DEF Sound, Forwards
    <3> QED BY <2>1, <3>1, LinksFields DEF NextAgrees, Mirror, NeighboursAgree
  <2> QED BY <2>2, <2>3 DEF OneListPerParent, WalksMeetChildren
<1> QED BY <1>1, LinksInvariance, PTL

(* A child that joins a document is not of a type the document has.        *)
LEMMA NewcomersAreFirst ==
  ASSUME Life!IInv, [Life!Next]_Life!vars,
         NEW p \in Documents, NEW k \in {"element", "doctype"},
         NEW c \in Node, Type[c] = k, parent'[c] = p
  PROVE  \A b \in Node : parent[b] = p /\ Type[b] = k => parent[c] = p
<1> USE NullAssumption
<1> SUFFICES ASSUME NEW b \in Node, parent[b] = p, Type[b] = k, parent[c] # p
             PROVE  FALSE
  OBVIOUS
<1>0. /\ p \in Node /\ Type[p] = "document" /\ p # NULL
      /\ parent \in [Node -> Node \cup {NULL}]
  BY DEF Documents, Life!IInv, Life!Counted, Life!TypeOK
<1>1. ~Life!PermittedChild(p, c)
  BY <1>0 DEF Life!PermittedChild, Life!Children
<1>2. parent' # parent
  OBVIOUS
<1>3. ASSUME NEW n \in Node, Life!UnrefLast(n)
      PROVE  FALSE
  <2>1. parent' = [x \in Node |->
                     IF x \in Life!Reached(n) \cup Life!Orphans(Life!Reached(n))
                     THEN NULL ELSE parent[x]]
    BY <1>3, LifeAssumptions, NullAssumption, BoundAssumption, Life!DestroyEffect
       DEF Life!UnrefLast
  <2> QED BY <2>1, <1>0
<1>4. ASSUME NEW node \in Node, NEW new \in Node, NEW ref \in Node \cup {NULL},
             Life!InsertNode(node, new, ref)
      PROVE  FALSE
  <2>1. /\ parent' = [parent EXCEPT ![new] = node]
        /\ Life!PermittedChild(node, new)
    BY <1>4 DEF Life!InsertNode, Life!InsertRefused
  <2> QED BY <2>1, <1>0, <1>1
<1>5. ASSUME NEW node \in Node, NEW new \in Node, NEW ref \in Node \cup {NULL},
             Life!InsertFragment(node, new, ref)
      PROVE  FALSE
  <2>1. /\ parent' = [x \in Node |-> IF parent[x] = new THEN node ELSE parent[x]]
        /\ \A x \in Node : parent[x] = new => Life!PermittedChild(node, x)
    BY <1>5 DEF Life!InsertFragment, Life!AllPermitted, Life!Children
  <2> QED BY <2>1, <1>0, <1>1
<1>6. ASSUME NEW node \in Node, NEW new \in Node, NEW old \in Node,
             Life!ReplaceChild(node, new, old)
      PROVE  FALSE
  <2> DEFINE moved == IF Type[new] = "fragment" THEN Life!Children(new) ELSE {new}
  <2>1. /\ parent' = [x \in Node |-> IF x \in moved THEN node
                                     ELSE IF x = old THEN NULL ELSE parent[x]]
        /\ \A x \in moved : Life!PermittedChild(node, x)
    BY <1>6 DEF Life!ReplaceChild, Life!ReplaceRefused, Life!AllPermitted
  <2> HIDE DEF moved
  <2> QED BY <2>1, <1>0, <1>1
<1>7. ASSUME NEW node \in Node, NEW old \in Node, Life!RemoveChild(node, old)
      PROVE  FALSE
  BY <1>0, <1>7 DEF Life!RemoveChild
<1>8. ~UNCHANGED Life!vars
  BY <1>2 DEF Life!vars
<1>9. Life!Next
  BY <1>8
<1> QED
  BY <1>2, <1>3, <1>4, <1>5, <1>6, <1>7, <1>9
     DEF Life!Next, Life!CreateDocument, Life!CreateDocumentType, Life!CreateNode,
         Life!CloneNode, Life!Allocate, Life!Ref, Life!UnrefShared, Life!Fetch,
         Life!InsertSelf, Life!ReplaceSelf, Life!InsertFragmentRefused

(* A document that has an element, or a document type, is never joined by  *)
(* another one.                                                            *)
THEOREM NoSecondElement ==
  ASSUME Contract # "any", Careful
  PROVE  Spec => NoSecondJoins
<1> DEFINE A == \A p \in Documents, k \in {"element", "doctype"} :
                  LET Of == {c \in Children(p) : Type[c] = k}
                  IN  Of # {} => Of' \subseteq Of
<1>1. ASSUME TreeInv, [Next]_vars
      PROVE  A
  <2>1. Life!IInv /\ [Life!Next]_Life!vars
    BY <1>1, TreeStep DEF TreeInv
  <2> SUFFICES ASSUME NEW p \in Documents, NEW k \in {"element", "doctype"},
                      NEW b \in {x \in Children(p) : Type[x] = k},
                      NEW c \in Node, parent'[c] = p, Type[c] = k
               PROVE  parent[c] = p
    BY DEF Children
  <2> QED BY <2>1, NewcomersAreFirst DEF Children
<1>2. A => [A]_vars
  OBVIOUS
<1> HIDE DEF A
<1>3. TreeInv /\ [Next]_vars => [A]_vars
  BY <1>1, <1>2
<1>4. Spec => [][A]_vars
  BY <1>3, LinksInvariance, PTL DEF Spec
<1> QED BY <1>4 DEF NoSecondJoins, A

-----------------------------------------------------------------------------
(* The refinement.                                                         *)

(* NodeLifetime is the same module with and without its proofs.            *)
LEMMA SameNext == Life!Next <=> Lifetime!Next
  BY Zenon
     DEF Life!Spent, Lifetime!Spent, Life!Usable, Lifetime!Usable,
         Life!AncestorsOrSelf, Lifetime!AncestorsOrSelf,
         Life!Documents, Lifetime!Documents, Life!Children,
         Lifetime!Children, Life!ContentTypes, Lifetime!ContentTypes,
         Life!PermittedTypes, Lifetime!PermittedTypes, Life!Readonly,
         Lifetime!Readonly, Life!AbandonedOwner,
         Lifetime!AbandonedOwner, Life!Surviving, Lifetime!Surviving,
         Life!MarkPending, Lifetime!MarkPending, Life!RemovePending,
         Lifetime!RemovePending, Life!Allocate, Lifetime!Allocate,
         Life!CreateDocument, Lifetime!CreateDocument,
         Life!CreateDocumentType, Lifetime!CreateDocumentType,
         Life!CreateNode, Lifetime!CreateNode, Life!CloneNode,
         Lifetime!CloneNode, Life!TakeRef, Lifetime!TakeRef, Life!Ref,
         Lifetime!Ref, Life!MayDrop, Lifetime!MayDrop, Life!MaySpend,
         Lifetime!MaySpend, Life!UnrefShared, Lifetime!UnrefShared,
         Life!WrongDocument, Lifetime!WrongDocument,
         Life!InsertArguments, Lifetime!InsertArguments,
         Life!ReplaceArguments, Lifetime!ReplaceArguments,
         Life!RemoveRefused, Lifetime!RemoveRefused,
         Life!PermittedChild, Lifetime!PermittedChild, Life!Doomed,
         Lifetime!Doomed, Life!Orphans, Lifetime!Orphans,
         Life!Destroy, Lifetime!Destroy, Life!Relatives,
         Lifetime!Relatives, Life!Fetch, Lifetime!Fetch,
         Life!UnrefLast, Lifetime!UnrefLast, Life!InsertRefused,
         Lifetime!InsertRefused, Life!InsertSelf, Lifetime!InsertSelf,
         Life!InsertNode, Lifetime!InsertNode, Life!AllPermitted,
         Lifetime!AllPermitted, Life!InsertFragment,
         Lifetime!InsertFragment, Life!InsertFragmentRefused,
         Lifetime!InsertFragmentRefused, Life!ReplaceRefused,
         Lifetime!ReplaceRefused, Life!ReplaceSelf,
         Lifetime!ReplaceSelf, Life!ReplaceChild,
         Lifetime!ReplaceChild, Life!RemoveChild,
         Lifetime!RemoveChild, Life!Next, Lifetime!Next

(* NodeTree implements NodeLifetime: every operation on pointers does to   *)
(* reference counts, owners, parents and the pending list what the same    *)
(* operation does there, where the children of a node are a set.           *)
THEOREM TreeImplementsLifetime ==
  ASSUME Contract # "any", Careful
  PROVE  Spec => ImplementsLifetime
<1>1. Init => Lifetime!Init
  BY TreeInit DEF Life!Init, Lifetime!Init, Life!NoNodes, Lifetime!NoNodes
<1>2. TreeInv /\ [Next]_vars => [Lifetime!Next]_Lifetime!vars
  BY TreeStep, SameNext DEF Life!vars, Lifetime!vars
<1> QED
  BY <1>1, <1>2, LinksInvariance, PTL DEF Spec, ImplementsLifetime, Lifetime!Spec

-----------------------------------------------------------------------------
(* The order of children.                                                  *)

(* Sequence(p) is what one reads from the links of p, for every node p.    *)
Listed == \A p \in Node : Reads(Links, p, Sequence(p))

(* What is read from the links after a step is what Sequence is then.      *)
LEMMA Relisted ==
  ASSUME NEW c, c = [q \in Node |-> c[q]], \A q \in Node : Reads(Links', q, c[q])
  PROVE  Listed' /\ ChildSequences' = c
<1>1. ASSUME NEW q \in Node
      PROVE  Sequence(q)' = c[q]
  <2>1. Chained(Links'.first[q], Links'.next, Cardinality(ChildrenIn(Links', q))) = c[q]
    BY <1>1, ChainedReads
  <2>2. /\ Links'.first = first_child' /\ Links'.next = next'
        /\ ChildrenIn(Links', q) = Children(q)'
    BY DEF Links, ChildrenIn, Children
  <2> QED BY <2>1, <2>2 DEF Sequence
<1>2. Listed'
  BY <1>1 DEF Listed
<1>3. ChildSequences' = c
  BY <1>1 DEF ChildSequences
<1> QED BY <1>2, <1>3

(* No change of the links, no change of the lists.                         *)
LEMMA SameLists ==
  ASSUME Listed, Links' = Links
  PROVE  Listed' /\ ChildSequences' = ChildSequences
<1>1. ChildSequences = [q \in Node |-> ChildSequences[q]]
  BY DEF ChildSequences
<1>2. \A q \in Node : Reads(Links', q, ChildSequences[q])
  BY DEF ChildSequences, Listed
<1> QED BY <1>1, <1>2, Relisted

(* The lists when those of the nodes in E are empty.                       *)
Left(rest, E) == [q \in Node |-> IF q \in E THEN <<>> ELSE rest[q]]

(* After a chain has been placed.                                          *)
LEMMA PlacedLists ==
  ASSUME NEW l, NEW R, NEW E, NEW a, NEW z, NEW p, NEW before, NEW after,
         Puts(l, R, E, a, z, p, before, after, Links'),
         NEW r, ReadsRange(l, R, a, z, r),
         NEW rest, \A q \in Node : Reads(l, q, rest[q]),
         NEW i \in 1 .. Len(rest[p]) + 1, IsPlace(rest[p], i, before, after)
  PROVE  /\ p \in Node /\ Left(rest, E)[p] = rest[p]
         /\ Listed' /\ ChildSequences' = Order!Between(Left(rest, E), p, i - 1, r, i)
<1> DEFINE left == Left(rest, E)
           c == Order!Between(left, p, i - 1, r, i)
           d == Placed(l, R, E, a, z, p, before, after)
<1>1. MayPlace(l, R, E, a, z, p, before, after) /\ Links' = d
  BY DEF Puts
<1>2. p \in Node /\ p \notin E
  BY <1>1 DEF MayPlace, Movable
<1>3. left[p] = rest[p] /\ \A q \in Node : left[q] = IF q \in E THEN <<>> ELSE rest[q]
  BY <1>2 DEF Left
<1> HIDE DEF left, d
<1>4. c = [q \in Node |-> c[q]]
  BY DEF Order!Between
<1>5. \A q \in Node : c[q] = IF q = p THEN SubSeq(left[p], 1, i - 1) \o r
                                             \o SubSeq(left[p], i, Len(left[p]))
                             ELSE left[q]
  BY DEF Order!Between
<1> HIDE DEF c
<1>6. Reads(d, p, c[p])
  <2>1. Reads(l, p, rest[p])
    BY <1>2
  <2>2. Reads(d, p, SubSeq(rest[p], 1, i - 1) \o r \o SubSeq(rest[p], i, Len(rest[p])))
    BY <1>1, <2>1, PlacedReads DEF d
  <2> QED BY <1>2, <1>3, <1>5, <2>2
<1>7. ASSUME NEW q \in Node \ {p}
      PROVE  Reads(d, q, c[q])
  <2>1. Reads(l, q, rest[q])
    OBVIOUS
  <2>2. Reads(d, q, IF q \in E THEN <<>> ELSE rest[q])
    BY <1>1, <2>1, PlacedElsewhere DEF d
  <2> QED BY <1>3, <1>5, <2>2
<1>8. \A q \in Node : Reads(Links', q, c[q])
  BY <1>1, <1>6, <1>7
<1>9. Listed' /\ ChildSequences' = c
  BY <1>4, <1>8, Relisted
<1> QED BY <1>2, <1>3, <1>9 DEF c, left

(* What replaces old stands where it was.                                  *)
LEMMA ReplacedLists ==
  ASSUME NEW l, Sound(l), NEW old \in Node, NEW p \in Node, l.parent[old] = p,
         NEW R, NEW E, NEW a, NEW z,
         Puts(Detach(l, old), R, E, a, z, p, l.prev[old], l.next[old], Links'),
         NEW r, ReadsRange(Detach(l, old), R, a, z, r),
         NEW rest, \A q \in Node : Reads(l, q, rest[q])
  PROVE  /\ Listed'
         /\ Order!PutInstead(Left(rest, E), p, r, old)
<1> USE NullAssumption
<1> DEFINE left == Left(rest, E)
           d == Detach(l, old)
           s == rest[p]
           w == [q \in Node |-> RemoveFirst(rest[q], old)]
           lw == Left(w, E)
<1>1. /\ Reads(l, p, s)
      /\ p \notin E
  BY DEF Puts, MayPlace, Movable
<1>2. /\ s \in Seq(Node) /\ Len(s) \in Nat
      /\ \A c \in Node : l.parent[c] = p => \E i \in 1 .. Len(s) : c = s[i]
      /\ \A i, j \in 1 .. Len(s) : s[i] = s[j] => i = j
  <2> HIDE DEF s
  <2> QED BY <1>1, ReadsFacts
<1>3. IsInjective(s)
  BY <1>1 DEF Reads
<1>4. PICK k \in 1 .. Len(s) : old = s[k]
  BY <1>2
<1>5. /\ l.prev[old] = IF k = 1 THEN NULL ELSE s[k - 1]
      /\ l.next[old] = IF k = Len(s) THEN NULL ELSE s[k + 1]
  <2>1. \A i \in 1 .. Len(s) : l.prev[s[i]] = IF i = 1 THEN NULL ELSE s[i - 1]
    BY <1>1, ReadsBackwards
  <2>2. \A i \in 1 .. Len(s) : l.next[s[i]] = IF i = Len(s) THEN NULL ELSE s[i + 1]
    BY <1>1 DEF Reads
  <2> QED BY <1>4, <2>1, <2>2
<1> DEFINE t == RemoveAt(s, k)
<1>6. w[p] = t
  <2>1. s \in Seq(Node) /\ IsInjective(s)
    BY <1>2, <1>3
  <2>2. RemoveFirst(s, s[k]) = t
    BY <2>1, RemoveFirstIsRemoveAt
  <2> QED BY <1>4, <2>2
<1>7. /\ Len(t) = Len(s) - 1
      /\ \A i \in 1 .. Len(s) - 1 : t[i] = IF i < k THEN s[i] ELSE s[i + 1]
  BY <1>2, RemoveAtProperties
<1>8. /\ k \in 1 .. Len(t) + 1
      /\ SubSeq(t, 1, k - 1) = SubSeq(s, 1, k - 1)
      /\ SubSeq(t, k, Len(t)) = SubSeq(s, k + 1, Len(s))
  BY <1>2, SidesOfRemoveAt
<1>9. \A q \in Node : Reads(d, q, w[q])
  <2>1. ASSUME NEW q \in Node
        PROVE  Reads(d, q, RemoveFirst(rest[q], old))
    <3>1. Reads(l, q, rest[q]) /\ l.parent[old] # NULL
      OBVIOUS
    <3> QED BY <3>1, DetachReads
  <2> QED BY <2>1
<1>10. \A q \in Node \ {p} : w[q] = rest[q]
  <2>1. ASSUME NEW q \in Node \ {p}
        PROVE  RemoveFirst(rest[q], old) = rest[q]
    <3>1. Reads(l, q, rest[q])
      OBVIOUS
    <3>2. rest[q] \in Seq(Node) /\ IsInjective(rest[q]) /\ old \notin ToSet(rest[q])
      BY <3>1 DEF Reads, ChildrenIn
    <3> QED BY <3>2, RemoveFirstIsRemoveAt
  <2> QED BY <2>1
<1> HIDE DEF t
<1>11. IsPlace(w[p], k, l.prev[old], l.next[old])
  <2>1. k = Len(t) + 1 <=> k = Len(s)
    BY <1>2, <1>7
  <2>2. k # 1 => t[k - 1] = s[k - 1]
    <3>1. k # 1 => k - 1 \in 1 .. Len(s) - 1 /\ k - 1 < k
      BY <1>2
    <3> QED BY <3>1, <1>7
  <2>3. k # Len(s) => t[k] = s[k + 1]
    <3>1. k # Len(s) => k \in 1 .. Len(s) - 1 /\ ~(k < k)
      BY <1>2
    <3> QED BY <3>1, <1>7
  <2> QED BY <1>5, <1>6, <2>1, <2>2, <2>3 DEF IsPlace
<1>12. k \in 1 .. Len(w[p]) + 1
  BY <1>6, <1>8
<1> HIDE DEF w, d
<1>13. lw[p] = w[p] /\ Listed' /\ ChildSequences' = Order!Between(lw, p, k - 1, r, k)
  BY <1>9, <1>11, <1>12, PlacedLists DEF d
<1>14. left[p] = s
  BY <1>1 DEF Left
<1>15. Order!Between(lw, p, k - 1, r, k) = Order!Between(left, p, k - 1, r, k + 1)
  <2>1. /\ SubSeq(lw[p], 1, k - 1) = SubSeq(left[p], 1, k - 1)
        /\ SubSeq(lw[p], k, Len(lw[p])) = SubSeq(left[p], k + 1, Len(left[p]))
    <3> HIDE DEF lw, left
    <3> QED BY <1>6, <1>8, <1>13, <1>14
  <2>2. \A q \in Node : q # p => lw[q] = left[q]
    BY <1>10 DEF Left
  <2> HIDE DEF lw, left
  <2> QED BY <2>1, <2>2 DEF Order!Between
<1> HIDE DEF lw
<1>16. /\ left[p][k] = old /\ k \in 1 .. Len(left[p])
       /\ ChildSequences' = Order!Between(left, p, k - 1, r, k + 1)
  BY <1>4, <1>13, <1>14, <1>15
<1> HIDE DEF left
<1>17. Order!PutInstead(left, p, r, old)
  BY <1>16 DEF Order!PutInstead, ChildSequences
<1> QED BY <1>13, <1>17 DEF left

(* ChildOrder removes elements as everyone does.                           *)
LEMMA SameRemoval == \A s, e : Order!RemoveFirst(s, e) = RemoveFirst(s, e)
  BY Zenon DEF Order!RemoveFirst, RemoveFirst, Order!SelectInSeq, SelectInSeq,
               Order!RemoveAt, RemoveAt, Order!Min, Min

LEMMA SameMembers == \A s : Order!ToSet(s) = ToSet(s)
  BY DEF Order!ToSet, ToSet

(* A list is empty when there is no first child.                           *)
LEMMA EmptyLists ==
  ASSUME Listed, NEW p \in Node
  PROVE  Sequence(p) = <<>> <=> first_child[p] = NULL
<1>1. Reads(Links, p, Sequence(p)) /\ Links.first[p] = first_child[p]
  BY LinksFields DEF Listed
<1> QED BY <1>1, NullAssumption DEF Reads

(* A node that is inserted leaves its list.                                *)
LEMMA TakenLists ==
  ASSUME Sound(Links), Listed, NEW new \in Node
  PROVE  \A q \in Node : Reads(Taken(new), q, Order!Without(new)[q])
<1>0. \A q \in Node : Order!Without(new)[q] = RemoveFirst(Sequence(q), new)
  BY SameRemoval DEF Order!Without, ChildSequences
<1> SUFFICES ASSUME NEW q \in Node
             PROVE  Reads(Taken(new), q, RemoveFirst(Sequence(q), new))
  BY <1>0
<1>1. Reads(Links, q, Sequence(q))
  BY DEF Listed
<1>2. CASE parent[new] = NULL
  <2>1. Sequence(q) \in Seq(Node) /\ IsInjective(Sequence(q)) /\ new \notin ToSet(Sequence(q))
    BY <1>1, <1>2, NullAssumption, LinksFields DEF Reads, ChildrenIn
  <2>2. RemoveFirst(Sequence(q), new) = Sequence(q)
    BY <2>1, RemoveFirstIsRemoveAt
  <2> QED BY <1>1, <1>2, <2>2 DEF Taken
<1>3. CASE parent[new] # NULL
  <2>1. Links.parent[new] # NULL
    BY <1>3, LinksFields
  <2>2. Reads(Detach(Links, new), q, RemoveFirst(Sequence(q), new))
    BY <1>1, <2>1, DetachReads
  <2> QED BY <1>3, <2>2 DEF Taken
<1> QED BY <1>2, <1>3

(* A place before a child is the place of that child.                      *)
LEMMA PlaceOfRef ==
  ASSUME NEW s \in Seq(Node), NEW i \in 1 .. Len(s) + 1,
         NEW before, NEW ref, IsPlace(s, i, before, ref)
  PROVE  IF ref = NULL THEN i = Len(s) + 1 ELSE i <= Len(s) /\ s[i] = ref
<1>1. Len(s) \in Nat
  OBVIOUS
<1>2. i # Len(s) + 1 => i \in 1 .. Len(s) /\ i <= Len(s)
  BY <1>1
<1>3. i # Len(s) + 1 => ref = s[i] /\ s[i] \in Node
  BY <1>2 DEF IsPlace
<1>4. i = Len(s) + 1 => ref = NULL
  BY DEF IsPlace
<1> QED BY <1>2, <1>3, <1>4, NullAssumption

(* What is inserted stands before the reference.                           *)
LEMMA PutsBefore ==
  ASSUME NEW l, NEW R, NEW E, NEW a, NEW z, NEW p, NEW before, NEW ref,
         Puts(l, R, E, a, z, p, before, ref, Links'),
         NEW r, ReadsRange(l, R, a, z, r),
         NEW rest, \A q \in Node : Reads(l, q, rest[q])
  PROVE  /\ Listed'
         /\ Order!PutBefore(Left(rest, E), p, r, ref)
<1> DEFINE left == Left(rest, E)
<1>1. /\ Sound(l) /\ p \in Node /\ before \in NodeOrNull /\ ref \in NodeOrNull
      /\ Gap(Mirror(l), p, ref, before)
  BY DEF Puts, MayPlace, Movable
<1>2. Reads(l, p, rest[p])
  BY <1>1
<1>3. PICK i \in 1 .. Len(rest[p]) + 1 : IsPlace(rest[p], i, before, ref)
  BY <1>1, <1>2, GapIsPlace
<1>4. /\ left[p] = rest[p]
      /\ Listed' /\ ChildSequences' = Order!Between(left, p, i - 1, r, i)
  BY <1>3, PlacedLists
<1>5. IF ref = NULL THEN i = Len(rest[p]) + 1 ELSE i <= Len(rest[p]) /\ rest[p][i] = ref
  <2>1. rest[p] \in Seq(Node)
    BY <1>2 DEF Reads
  <2> QED BY <1>3, <2>1, PlaceOfRef
<1> HIDE DEF left
<1>6. Order!PutBefore(left, p, r, ref)
  BY <1>4, <1>5 DEF Order!PutBefore, ChildSequences
<1> QED BY <1>4, <1>6 DEF left

LEMMA InsertNodeOrder ==
  ASSUME TreeInv, Contract # "any", Listed, NEW node \in Node, NEW new \in Node,
         NEW ref \in Node \cup {NULL}, InsertNode(node, new, ref)
  PROVE  Listed' /\ Order!InsertBefore(node, new, ref)
<1> DEFINE W == Order!Without(new)
           E == {}
           left == Left(W, E)
<1>1. Puts(Taken(new), {new}, E, new, new, node, Before(Taken(new), node, ref), ref, Links')
  BY InsertNodeTree
<1>2. ReadsRange(Taken(new), {new}, new, new, <<new>>)
  BY OneIsRange
<1>3. \A q \in Node : Reads(Taken(new), q, W[q])
  BY TakenLists DEF TreeInv
<1> HIDE DEF W, E
<1>4. Listed' /\ Order!PutBefore(left, node, <<new>>, ref)
  BY <1>1, <1>2, <1>3, PutsBefore
<1>5. left = W
  BY DEF W, E, Order!Without, Left
<1> QED BY <1>4, <1>5 DEF W, Order!InsertBefore

LEMMA InsertFragmentOrder ==
  ASSUME TreeInv, Contract # "any", Listed, NEW node \in Node, NEW new \in Node,
         NEW ref \in Node \cup {NULL}, InsertFragment(node, new, ref)
  PROVE  Listed' /\ Order!InsertChildrenBefore(node, new, ref)
<1>0. ChildSequences[new] = Sequence(new) /\ (Sequence(new) = <<>> <=> first_child[new] = NULL)
  BY EmptyLists DEF ChildSequences
<1> DEFINE E == {new}
           W == ChildSequences
           left == Left(W, E)
<1>1. CASE first_child[new] = NULL
  <2>1. Links' = Links
    BY <1>1, InsertFragmentTree
  <2> QED BY <1>0, <1>1, <2>1, SameLists DEF Order!InsertChildrenBefore
<1>2. CASE first_child[new] # NULL
  <2>1. Puts(Links, ChildrenIn(Links, new), E, first_child[new], last_child[new],
             node, Before(Links, node, ref), ref, Links')
    BY <1>2, InsertFragmentTree
  <2>2. ReadsRange(Links, ChildrenIn(Links, new), first_child[new], last_child[new],
                   Sequence(new))
    <3>1. Reads(Links, new, Sequence(new)) /\ Links.first[new] # NULL /\ Sound(Links)
      BY <1>2, LinksFields DEF Listed, TreeInv
    <3>2. ReadsRange(Links, ChildrenIn(Links, new), Links.first[new], Links.last[new],
                     Sequence(new))
      BY <3>1, ListIsRange
    <3> QED BY <3>2, LinksFields
  <2>3. \A q \in Node : Reads(Links, q, W[q])
    BY DEF Listed, ChildSequences
  <2> HIDE DEF W, E
  <2>4. Listed' /\ Order!PutBefore(left, node, Sequence(new), ref)
    BY <2>1, <2>2, <2>3, PutsBefore
  <2>5. left = Order!WithoutThoseOf(new)
    BY DEF W, E, Order!WithoutThoseOf, ChildSequences, Left
  <2> QED BY <1>0, <1>2, <2>4, <2>5 DEF Order!InsertChildrenBefore
<1> QED BY <1>1, <1>2

(* A child that is detached is taken away.                                 *)
LEMMA DetachOrder ==
  ASSUME Sound(Links), Listed, NEW node \in Node, NEW old \in Node, parent[old] = node,
         Links' = Detach(Links, old)
  PROVE  Listed' /\ Order!RemoveChild(node, old)
<1>0. parent[old] # NULL /\ old \in ToSet(ChildSequences[node])
  BY NullAssumption, LinksFields DEF Listed, Reads, ChildrenIn, ChildSequences
<1> DEFINE W == Order!Without(old)
<1>1. \A q \in Node : Reads(Links', q, W[q])
  <2>1. Taken(old) = Links'
    BY <1>0 DEF Taken
  <2> QED BY <2>1, TakenLists
<1>2. W = [q \in Node |-> W[q]]
  BY DEF Order!Without
<1> HIDE DEF W
<1>3. Listed' /\ ChildSequences' = W
  BY <1>1, <1>2, Relisted
<1> QED BY <1>0, <1>3, SameMembers DEF W, Order!RemoveChild

LEMMA RemoveChildOrder ==
  ASSUME TreeInv, Listed, NEW node \in Node, NEW old \in Node, RemoveChild(node, old)
  PROVE  Listed' /\ Order!RemoveChild(node, old)
<1>1. parent[old] = node /\ Become(Detach(Links, old)) /\ Sound(Links)
  BY DEF RemoveChild, RemoveRefused, TreeInv
<1>2. Detach(Links, old) \in LinkRecord
  BY <1>1, NullAssumption, DetachFields DEF Sound
<1>3. Links' = Detach(Links, old)
  BY <1>1, <1>2, BecomeLinks
<1> QED BY <1>1, <1>3, DetachOrder

LEMMA ReplaceChildOrder ==
  ASSUME TreeInv, Contract # "any", Careful, Listed,
         NEW node \in Node, NEW new \in Node, NEW old \in Node,
         ReplaceChild(node, new, old)
  PROVE  /\ Listed'
         /\ IF Type[new] = "fragment" THEN Order!ReplaceByChildren(node, new, old)
            ELSE Order!ReplaceChild(node, new, old)
<1> USE NullAssumption
<1>0. ChildSequences[new] = Sequence(new) /\ (Sequence(new) = <<>> <=> first_child[new] = NULL)
  BY EmptyLists DEF ChildSequences
<1>1. Replaces(node, new, old, Links')
  BY ReplaceChildTree
<1>2. Sound(Links) /\ parent[old] = node
  BY DEF TreeInv, ReplaceChild, ReplaceRefused
<1>3. CASE Type[new] # "fragment"
  <2> DEFINE t == Taken(new)
             W == Order!Without(new)
             E == {}
             left == Left(W, E)
  <2>1. /\ t.parent[old] = node
        /\ Puts(Detach(t, old), {new}, E, new, new, node, t.prev[old], t.next[old], Links')
    BY <1>1, <1>3 DEF Replaces, NodeReplaces
  <2>2. Sound(t) /\ \A q \in Node : Reads(t, q, W[q])
    BY <1>2, TakenSound, TakenLists
  <2>3. ReadsRange(Detach(t, old), {new}, new, new, <<new>>)
    BY OneIsRange
  <2> HIDE DEF t, W, E
  <2>4. Listed' /\ Order!PutInstead(left, node, <<new>>, old)
    <3>1. Sound(t) /\ old \in Node /\ node \in Node
      BY <2>2
    <3> QED BY <2>1, <2>2, <2>3, <3>1, ReplacedLists
  <2>5. left = W
    BY DEF W, E, Order!Without, Left
  <2>6. Order!PutInstead(W, node, <<new>>, old)
    BY <2>4, <2>5
  <2> QED BY <1>3, <2>4, <2>6 DEF W, Order!ReplaceChild
<1>4. CASE Type[new] = "fragment" /\ first_child[new] = NULL
  <2>1. Links' = Detach(Links, old)
    BY <1>1, <1>4 DEF Replaces
  <2>2. Listed' /\ Order!RemoveChild(node, old)
    BY <1>2, <2>1, DetachOrder
  <2> QED BY <1>0, <1>4, <2>2 DEF Order!ReplaceByChildren
<1>5. CASE Type[new] = "fragment" /\ first_child[new] # NULL
  <2> DEFINE d == Detach(Links, old)
             R == ChildrenIn(Links, new)
             E == {new}
             W == ChildSequences
             left == Left(W, E)
  <2>1. Puts(d, R, E, first_child[new], last_child[new], node, previous[old], next[old], Links')
    BY <1>1, <1>5 DEF Replaces, ChildrenReplace
  <2>2. \A q \in Node : Reads(Links, q, W[q])
    BY DEF Listed, ChildSequences
  <2>3. ReadsRange(d, R, first_child[new], last_child[new], Sequence(new))
    <3>1. Reads(Links, new, Sequence(new)) /\ Sound(d) /\ old \in Node /\ Links.parent[old] # NULL
      BY <1>2, <2>1, LinksFields DEF Listed, Puts, MayPlace
    <3>2. new # node
      BY <2>1 DEF Puts, MayPlace, Movable
    <3>3. Reads(d, new, Sequence(new))
      <4>1. /\ Sequence(new) \in Seq(Node) /\ IsInjective(Sequence(new))
            /\ old \notin ToSet(Sequence(new))
        BY <1>2, <3>1, <3>2, LinksFields DEF Reads, ChildrenIn
      <4>2. RemoveFirst(Sequence(new), old) = Sequence(new)
        BY <4>1, RemoveFirstIsRemoveAt
      <4>3. Reads(d, new, RemoveFirst(Sequence(new), old))
        BY <1>2, <3>1, DetachReads
      <4> HIDE DEF d
      <4> QED BY <4>2, <4>3
    <3>4. d.first[new] = first_child[new] /\ d.last[new] = last_child[new]
      <4>1. Links \in LinkRecord
        BY <1>2 DEF Sound
      <4>2. /\ d.first[new] = IF Links.prev[old] = NULL /\ new = Links.parent[old]
                              THEN Links.next[old] ELSE Links.first[new]
            /\ d.last[new] = IF Links.next[old] = NULL /\ new = Links.parent[old]
                             THEN Links.prev[old] ELSE Links.last[new]
        BY <4>1, DetachFields
      <4> HIDE DEF d
      <4> QED BY <1>2, <3>2, <4>2, LinksFields
    <3>5. ChildrenIn(d, new) = R
      <4>1. ToSet(Sequence(new)) = ChildrenIn(d, new) /\ ToSet(Sequence(new)) = R
        BY <3>1, <3>3 DEF Reads
      <4> QED BY <4>1
    <3>6. d.first[new] # NULL
      BY <1>5, <3>4
    <3> HIDE DEF d, R
    <3>7. ReadsRange(d, ChildrenIn(d, new), d.first[new], d.last[new], Sequence(new))
      BY <3>1, <3>3, <3>6, ListIsRange
    <3> QED BY <3>4, <3>5, <3>7
  <2> HIDE DEF d, R, E, W
  <2>4. Listed' /\ Order!PutInstead(left, node, Sequence(new), old)
    <3>1. /\ Links.parent[old] = node
          /\ Puts(d, R, E, first_child[new], last_child[new], node,
                  Links.prev[old], Links.next[old], Links')
      BY <1>2, <2>1, LinksFields
    <3>2. Sound(Links) /\ old \in Node /\ node \in Node
      BY <1>2
    <3> QED BY <2>2, <2>3, <3>1, <3>2, ReplacedLists DEF d
  <2>5. left = Order!WithoutThoseOf(new)
    BY DEF W, E, Order!WithoutThoseOf, ChildSequences, Left
  <2>6. Order!PutInstead(Order!WithoutThoseOf(new), node, Sequence(new), old)
    BY <2>4, <2>5
  <2> QED BY <1>0, <1>5, <2>4, <2>6 DEF Order!ReplaceByChildren
<1> QED BY <1>3, <1>4, <1>5

(* A destruction clears whole lists.                                       *)
LEMMA UnrefLastOrder ==
  ASSUME TreeInv, Contract # "any", Listed, NEW n \in Node, UnrefLast(n)
  PROVE  Listed' /\ Order!Destroy(Doomed({n} \cup AbandonedOwner(n)))
<1> DEFINE D == Doomed({n} \cup AbandonedOwner(n))
<1>0. D \in SUBSET Node
  BY DEF Doomed
<1>1. PICK O \in SUBSET Node :
        WholeLists(Links, D, O) /\ Links' = WipedLinks(Links, D, O)
  BY UnrefLastTree
<1> HIDE DEF D
<1> DEFINE c == [q \in Node |-> IF q \in D THEN <<>> ELSE ChildSequences[q]]
<1>2. \A q \in Node : Reads(Links', q, c[q])
  <2>1. ASSUME NEW q \in Node
        PROVE  Reads(WipedLinks(Links, D, O), q, IF q \in D THEN <<>> ELSE Sequence(q))
    <3>1. Reads(Links, q, Sequence(q)) /\ Sound(Links)
      BY DEF Listed, TreeInv
    <3> QED BY <1>0, <1>1, <3>1, WipedReads
  <2> QED BY <1>1, <2>1 DEF ChildSequences
<1>3. c = [q \in Node |-> c[q]]
  OBVIOUS
<1> HIDE DEF c
<1>4. Listed' /\ ChildSequences' = c
  BY <1>2, <1>3, Relisted
<1>5. Order!Destroy(D)
  BY <1>4 DEF c, Order!Destroy
<1> QED BY <1>4, <1>5 DEF D

LEMMA InitOrder == Init => Listed /\ ChildSequences = [p \in Node |-> <<>>]
<1> SUFFICES ASSUME Init PROVE Listed /\ ChildSequences = [p \in Node |-> <<>>]
  OBVIOUS
<1>1. ASSUME NEW p \in Node
      PROVE  Reads(Links, p, <<>>) /\ Sequence(p) = <<>>
  <2>1. Links.first[p] = NULL /\ ChildrenIn(Links, p) = {}
    BY NullAssumption, LinksFields DEF Init, NoNodes, Unlinked, ChildrenIn
  <2>2. Reads(Links, p, <<>>)
    BY <2>1, EmptyReads
  <2>3. Chained(Links.first[p], Links.next, Cardinality(ChildrenIn(Links, p))) = <<>>
    BY <2>2, ChainedReads
  <2> QED BY <2>2, <2>3, LinksFields DEF Sequence
<1> QED BY <1>1 DEF Listed, ChildSequences

(* What a step does to the order; the last fact is about the calls that    *)
(* put nothing anywhere.                                                   *)
LEMMA OrderStep ==
  ASSUME TreeInv, Contract # "any", Careful, Listed
  PROVE  /\ OrderOfCall
         /\ [Next]_vars => Listed'
<1> DEFINE Moving == \/ \E node, new \in Node, ref \in Node \cup {NULL} :
                          InsertNode(node, new, ref) \/ InsertFragment(node, new, ref)
                     \/ \E node, new, old \in Node : ReplaceChild(node, new, old)
                     \/ \E node, old \in Node : RemoveChild(node, old)
                     \/ \E n \in Node : UnrefLast(n)
           Idle == \/ Create
                   \/ Count
                   \/ \E node, n \in Node :
                        \/ Fetch(node, n) \/ InsertSelf(node, n) \/ ReplaceSelf(node, n)
                        \/ \E ref \in Node \cup {NULL} : InsertFragmentRefused(node, n, ref)
<1>1. ASSUME UNCHANGED <<parent, siblings>>
      PROVE  Listed' /\ ChildSequences' = ChildSequences
  <2>1. Links' = Links
    BY <1>1, SameSiblings
  <2> QED BY <2>1, SameLists
<1>2. ASSUME Idle
      PROVE  Listed' /\ ChildSequences' = ChildSequences
  <2>1. CASE Create
    BY <1>1, <2>1, CreateLife
  <2>2. CASE Count
    BY <1>1, <2>2, CountLife
  <2>3. CASE \E node, n \in Node :
               Fetch(node, n) \/ InsertSelf(node, n) \/ ReplaceSelf(node, n)
    BY <1>1, <2>3, FetchLife, InsertSelfLife, ReplaceSelfLife
  <2>4. CASE \E node, n \in Node, ref \in Node \cup {NULL} :
               InsertFragmentRefused(node, n, ref)
    BY <1>1, <2>4, InsertFragmentRefusedLife
  <2> QED BY <1>2, <2>1, <2>2, <2>3, <2>4
<1>3. ASSUME NEW node \in Node, NEW new \in Node, NEW ref \in Node \cup {NULL}
      PROVE  /\ InsertNode(node, new, ref) =>
                  Listed' /\ Order!InsertBefore(node, new, ref)
             /\ InsertFragment(node, new, ref) =>
                  Listed' /\ Order!InsertChildrenBefore(node, new, ref)
  BY InsertNodeOrder, InsertFragmentOrder
<1>4. ASSUME NEW node \in Node, NEW new \in Node, NEW old \in Node,
             ReplaceChild(node, new, old)
      PROVE  /\ Listed'
             /\ IF Type[new] = "fragment" THEN Order!ReplaceByChildren(node, new, old)
                ELSE Order!ReplaceChild(node, new, old)
  BY <1>4, ReplaceChildOrder
<1>5. ASSUME NEW node \in Node, NEW old \in Node, RemoveChild(node, old)
      PROVE  Listed' /\ Order!RemoveChild(node, old)
  BY <1>5, RemoveChildOrder
<1>6. ASSUME NEW n \in Node, UnrefLast(n)
      PROVE  Listed' /\ Order!Destroy(Doomed({n} \cup AbandonedOwner(n)))
  BY <1>6, UnrefLastOrder
<1>7. OrderOfCall
  <2>1. ChildSequences' # ChildSequences => ~Idle
    BY <1>2
  <2> QED BY <1>3, <1>4, <1>5, <1>6, <2>1 DEF OrderOfCall, Returned
<1>8. [Next]_vars => Moving \/ Idle \/ UNCHANGED <<parent, siblings>>
  BY DEF Next, vars
<1>9. Moving => Listed'
  BY <1>3, <1>4, <1>5, <1>6
<1> HIDE DEF Moving, Idle
<1> QED BY <1>1, <1>2, <1>7, <1>8, <1>9

(* The sequence of children that one computes from the first child along   *)
(* next is the list of the node, in every state.                           *)
THEOREM OrderInvariance ==
  ASSUME Contract # "any", Careful
  PROVE  Spec => []Listed
<1>1. Init => Listed
  BY InitOrder
<1>2. TreeInv /\ Listed /\ [Next]_vars => Listed'
  BY OrderStep
<1> QED BY <1>1, <1>2, LinksInvariance, PTL DEF Spec

(* Every call puts what it was given exactly where the comments of node.c  *)
(* say for its arguments, before the reference child, at the end or in the *)
(* place of the old child, and disturbs the order of no other children:    *)
(* each is the call of ChildOrder with the same arguments.                 *)
THEOREM TreeImplementsOrder ==
  ASSUME Contract # "any", Careful
  PROVE  Spec => ImplementsOrder
<1>1. Init => Order!Init
  BY InitOrder DEF Order!Init
<1>2. TreeInv /\ Listed => OrderOfCall
  BY OrderStep
<1> QED
  BY <1>1, <1>2, LinksInvariance, OrderInvariance, PTL DEF Spec, ImplementsOrder
=============================================================================
