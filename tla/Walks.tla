-------------------------------- MODULE Walks --------------------------------
(***************************************************************************)
(* The walks by which the library counts and finds nodes below a root:     *)
(* dom_nodelist (core/nodelist.c), dom_html_collection                     *)
(* (html/html_collection.c) and getElementById (core/document.c).  Each is *)
(* a loop that goes from a node to its first child, else to its next       *)
(* sibling, else up to an ancestor that has one; they differ in where they *)
(* start and in when they stop.                                            *)
(* A tree is given by the children of each node.  It carries what stands   *)
(* for no node in it, null, and for what reading a field of no node leads  *)
(* to, fault, so that this module needs no constants.                      *)
(***************************************************************************)
EXTENDS Naturals, FiniteSets, SequencesExt

Tree(children, null, fault) ==
  [children |-> children,
   parent |-> [n \in DOMAIN children |->
                 IF \E p \in DOMAIN children : n \in ToSet(children[p])
                 THEN CHOOSE p \in DOMAIN children : n \in ToSet(children[p])
                 ELSE null],
   null |-> null, fault |-> fault]

Nodes(t) == DOMAIN t.children

First(t, n) == IF t.children[n] = <<>> THEN t.null ELSE t.children[n][1]
LastOf(t, n) == IF t.children[n] = <<>> THEN t.null ELSE Last(t.children[n])
Up(t, n) == t.parent[n]

After(t, n) ==
  LET siblings == t.children[Up(t, n)]
      i == SelectInSeq(siblings, LAMBDA c : c = n)
  IN  IF Up(t, n) = t.null THEN t.null
      ELSE IF i = Len(siblings) THEN t.null ELSE siblings[i + 1]

-----------------------------------------------------------------------------
(* Lists: from the first child of the root, up while the parent is not the *)
(* root.                                                                   *)

ListClimb(t, root, from) ==
  LET climb[n \in Nodes(t)] ==
        LET p == Up(t, n)
        IN  IF p = root THEN n
            ELSE IF p = t.null THEN t.fault
            ELSE IF n = LastOf(t, p) THEN climb[p] ELSE n
  IN  climb[from]

ListAfter(t, root, n) ==
  IF First(t, n) # t.null THEN First(t, n)
  ELSE IF After(t, n) # t.null THEN After(t, n)
  ELSE LET m == ListClimb(t, root, n)
       IN  IF m = t.fault THEN t.fault ELSE After(t, m)

(* Collections: from the root itself, which is not told from other nodes   *)
(* until the walk climbs back to it.                                       *)
CollectionClimb(t, root, from) ==
  LET climb[n \in Nodes(t)] ==
        LET p == Up(t, n)
        IN  IF n = root THEN n
            ELSE IF p = t.null THEN t.fault
            ELSE IF n = LastOf(t, p) THEN climb[p] ELSE n
  IN  climb[from]

(* Mutant: the walk ends at a last child.                                  *)
CollectionAfter_NoClimb(t, root, n) ==
  IF First(t, n) # t.null THEN First(t, n) ELSE After(t, n)

CollectionAfter(t, root, n) ==
  IF First(t, n) # t.null THEN First(t, n)
  ELSE IF After(t, n) # t.null THEN After(t, n)
  ELSE LET m == CollectionClimb(t, root, n)
       IN  CASE m = t.fault -> t.fault
             [] m = root -> t.null
             [] OTHER -> After(t, m)

(* getElementById: from the root, up until a next sibling or the root.     *)
IdClimb(t, root, from) ==
  LET climb[n \in Nodes(t) \cup {t.null}] ==
        IF n = t.null THEN t.null
        ELSE IF After(t, n) # t.null THEN After(t, n)
        ELSE IF Up(t, n) = root THEN t.null ELSE climb[Up(t, n)]
  IN  climb[from]

IdAfter(t, root, n) ==
  IF First(t, n) # t.null THEN First(t, n) ELSE IdClimb(t, root, n)

-----------------------------------------------------------------------------
(* The nodes a walk comes by, in order: from start along following, until  *)
(* there is no node; fault is the last if it fails.                        *)
From(t, start, following) ==
  LET Then(path) == IF path = <<>> THEN start
                    ELSE IF Last(path) \in Nodes(t) THEN following[Last(path)]
                    ELSE t.null
      visited[i \in Nat] ==
        IF i = 0 THEN <<>>
        ELSE LET path == visited[i - 1]
                 n == Then(path)
             IN  IF n = t.null THEN path ELSE Append(path, n)
  IN  visited[Cardinality(Nodes(t)) + 1]

ListPath(t, root) == From(t, First(t, root), [n \in Nodes(t) |-> ListAfter(t, root, n)])
CollectionPath(t, root) == From(t, root, [n \in Nodes(t) |-> CollectionAfter(t, root, n)])
IdPath(t, root) == From(t, root, [n \in Nodes(t) |-> IdAfter(t, root, n)])

(* The members of M along a path.                                          *)
Hits(path, M) ==
  LET hits[i \in 0 .. Len(path)] ==
        IF i = 0 THEN <<>>
        ELSE IF path[i] \in M THEN Append(hits[i - 1], path[i]) ELSE hits[i - 1]
  IN  hits[Len(path)]

-----------------------------------------------------------------------------
(* What the walks are for: the nodes below a root in document order.  A    *)
(* node comes first, then what is below it, then its next siblings with    *)
(* what is below them.                                                     *)

Row(t, from) ==
  LET row[n \in Nodes(t) \cup {t.null}] ==
        IF n = t.null THEN <<>> ELSE <<n>> \o row[First(t, n)] \o row[After(t, n)]
  IN  row[from]

Below(t, root) == Row(t, First(t, root))
AtOrBelow(t, root) == <<root>> \o Below(t, root)
=============================================================================
