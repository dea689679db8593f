------------------------------ MODULE NodeTree ------------------------------
(***************************************************************************)
(* The sibling lists (src/core/node.c).                                    *)
(*                                                                         *)
(* A node points at its parent, its first and last child and its two       *)
(* neighbours.  None of these pointers is counted.  Every operation on the *)
(* tree changes them by hand: it detaches a node, splices a range between  *)
(* two neighbours, swaps a child for a range, or tears a subtree down.     *)
(*                                                                         *)
(* This module repeats the operations of NodeLifetime on the pointers: a   *)
(* loop over the children of a node follows first_child and next, and what *)
(* it does not meet, it does not see.  It implements NodeLifetime, where   *)
(* the children of a node are the nodes whose parent it is, and (in        *)
(* NodeTreeOrder) ChildOrder, where they are a sequence.                   *)
(***************************************************************************)
EXTENDS NodeRules

CONSTANT Careful   \* whether clients stay clear of the two flaws named below

(* A careful client asks a node for its neighbours only while the node has *)
(* a parent, and lets an empty fragment replace an only child at most.     *)
ASSUME CarefulAssumption == Careful \in BOOLEAN

VARIABLES first_child, last_child, previous, next    \* the other four links

siblings == <<first_child, last_child, previous, next>>
vars == <<live, refcnt, held, parent, owner, pending, siblings>>

-----------------------------------------------------------------------------
(* All links as one value: operations are composed of several updates.     *)

Links == [parent |-> parent, first |-> first_child, last |-> last_child,
          prev |-> previous, next |-> next]

Become(l) ==
  /\ parent'      = l.parent
  /\ first_child' = l.first
  /\ last_child'  = l.last
  /\ previous'    = l.prev
  /\ next'        = l.next

(* The nodes met from n along step, before end: the loops of the code.     *)
Walk(step, n, end) ==
  LET closed == {S \in SUBSET Node :
                   /\ n \in S
                   /\ \A y \in S : step[y] \in Node \ {end} => step[y] \in S}
  IN  IF n \in Node \ {end} THEN {x \in Node : \A S \in closed : x \in S} ELSE {}

ChildList(p) == Walk(next, first_child[p], NULL)

(* An update at NULL changes nothing: that is how tests such as            *)
(* "if (previous != NULL) previous->next = next" are written below.        *)

(* Mutant: the neighbours are joined, the parent keeps its pointers.       *)
Detach_ParentKeepsEnds(l, n) ==
  [l EXCEPT !.parent[n] = NULL,
            !.next = [@ EXCEPT ![l.prev[n]] = l.next[n], ![n] = NULL],
            !.prev = [@ EXCEPT ![l.next[n]] = l.prev[n], ![n] = NULL]]

Detach(l, n) ==
  LET before == l.prev[n]
      after  == l.next[n]
      p      == l.parent[n]
  IN [parent |-> [l.parent EXCEPT ![n] = NULL],
      first  |-> IF before = NULL THEN [l.first EXCEPT ![p] = after] ELSE l.first,
      last   |-> IF after = NULL THEN [l.last EXCEPT ![p] = before] ELSE l.last,
      prev   |-> [l.prev EXCEPT ![after] = before, ![n] = NULL],
      next   |-> [l.next EXCEPT ![before] = after, ![n] = NULL]]

(* Mutant: only the first node of the range learns its parent.             *)
Splice_ParentOfFirstOnly(l, a, z, p, before, after) ==
  [parent |-> [l.parent EXCEPT ![a] = p],
   first  |-> IF before = NULL THEN [l.first EXCEPT ![p] = a] ELSE l.first,
   last   |-> IF after = NULL THEN [l.last EXCEPT ![p] = z] ELSE l.last,
   prev   |-> [l.prev EXCEPT ![a] = before, ![after] = z],
   next   |-> [l.next EXCEPT ![z] = after, ![before] = a]]

(* The range a..z becomes the children of p between before and after.      *)
Splice(l, a, z, p, before, after) ==
  LET nextOf == [l.next EXCEPT ![z] = after, ![before] = a]
      range  == Walk(nextOf, a, after)
  IN [parent |-> [x \in Node |-> IF x \in range THEN p ELSE l.parent[x]],
      first  |-> IF before = NULL THEN [l.first EXCEPT ![p] = a] ELSE l.first,
      last   |-> IF after = NULL THEN [l.last EXCEPT ![p] = z] ELSE l.last,
      prev   |-> [l.prev EXCEPT ![a] = before, ![after] = z],
      next   |-> nextOf]

Cleared(l, old) ==
  [l EXCEPT !.parent[old] = NULL, !.prev[old] = NULL, !.next[old] = NULL]

Replaced(l, old, a, z) ==
  Cleared(Splice(l, a, z, l.parent[old], l.prev[old], l.next[old]), old)

(* Replacing by nothing: the neighbours of old are not told.               *)
ReplacedByNothing(l, old) ==
  LET p == l.parent[old]
  IN  Cleared([l EXCEPT
        !.first = IF l.prev[old] = NULL THEN [@ EXCEPT ![p] = l.next[old]] ELSE @,
        !.last  = IF l.next[old] = NULL THEN [@ EXCEPT ![p] = l.prev[old]] ELSE @],
        old)

(* Mutant: an inserted fragment keeps its pointers to its former children. *)
Emptied_Forgotten(l, fragment) == l

Emptied(l, fragment) ==
  [l EXCEPT !.first[fragment] = NULL, !.last[fragment] = NULL]

-----------------------------------------------------------------------------
(* Destruction: a finaliser walks the children of its node.                *)

Doomed(roots) ==
  LET destroys == UNION {{x} \X {c \in ChildList(x) : refcnt[c] = 0} : x \in Node}
      closed == {S \in SUBSET Node :
                   /\ roots \subseteq S
                   /\ \A e \in destroys : e[1] \in S => e[2] \in S}
  IN  {x \in Node : \A S \in closed : x \in S}

(* Children that survive lose their parent; their neighbours stay written  *)
(* in them.                                                                *)
Destroy(node) ==
  \E D \in {Doomed({node} \cup AbandonedOwner(node))} :
  \E orphans \in {(UNION {ChildList(x) : x \in D}) \ D} :
    LET pend  == (pending \ D) \cup orphans
        freed == D \ Surviving(D, pend)
        Wiped(f, S) == [n \in Node |-> IF n \in S THEN NULL ELSE f[n]]
    IN  /\ live'    = live \ freed
        /\ pending' = pend
        /\ owner'   = Wiped(owner, freed)
        /\ refcnt'  = [refcnt EXCEPT ![node] = 0]
        /\ held'    = [held EXCEPT ![node] = 0]
        /\ Become([parent |-> Wiped(parent, D \cup orphans),
                   first  |-> Wiped(first_child, D),
                   last   |-> Wiped(last_child, D),
                   prev   |-> Wiped(previous, D),
                   next   |-> Wiped(next, D)])

-----------------------------------------------------------------------------
(* Creation and references.                                                *)

Create ==
  /\ \E n \in Node : \/ CreateDocument(n)
                     \/ CreateDocumentType(n)
                     \/ \E m \in Node : CreateNode(m, n) \/ CloneNode(m, n)
  /\ UNCHANGED siblings

Count ==
  /\ \E n \in Node : Ref(n) \/ UnrefShared(n)
  /\ UNCHANGED siblings

(* What the getters return.                                                *)
Relatives(node) ==
  ( {parent[node], first_child[node], last_child[node]}
    \cup (IF Careful /\ parent[node] = NULL THEN {} ELSE {previous[node], next[node]})
    \cup (IF node \in Documents THEN {} ELSE {owner[node]}) ) \ {NULL}

Fetch(node, n) ==
  /\ Usable(node)
  /\ n \in Relatives(node)
  /\ TakeRef(n)
  /\ UNCHANGED <<live, parent, owner, pending, siblings>>

UnrefLast(n) ==
  /\ held[n] > 0
  /\ refcnt[n] = 1
  /\ parent[n] = NULL
  /\ MayDrop(n)
  /\ Destroy(n)

-----------------------------------------------------------------------------
(* insert_before and append_child.                                         *)

PermittedChild(node, child) ==
  /\ Type[child] \in PermittedTypes(Type[node])
  /\ Type[node] = "document" /\ Type[child] \in {"element", "doctype"}
       => \A c \in ChildList(node) : Type[c] # Type[child]

(* Mutant: only the types of the nodes in a fragment are looked at.        *)
AllPermitted_TypesOnly(node, fragment) ==
  \A c \in ChildList(fragment) : Type[c] \in PermittedTypes(Type[node])

AllPermitted(node, fragment) ==
  \A c \in ChildList(fragment) : PermittedChild(node, c)

(* Each check refuses the call without an effect; their order is free.     *)
InsertRefused(node, new, ref) ==
  \/ WrongDocument(node, new)
  \/ ref # NULL /\ parent[ref] # node
  \/ Type[new] # "fragment" /\ ~PermittedChild(node, new)
  \/ Readonly(node)
  \/ new \in AncestorsOrSelf(node)
  \/ new # ref /\ parent[new] # NULL /\ Readonly(parent[new])

Taken(new) == IF parent[new] = NULL THEN Links ELSE Detach(Links, new)

(* Mutant: the place of the new node is read before the node is detached.  *)
Before_Stale(l, node, ref) ==
  IF ref = NULL THEN last_child[node] ELSE previous[ref]

Before(l, node, ref) == IF ref = NULL THEN l.last[node] ELSE l.prev[ref]

(* Mutant: the reference child is ignored and the node appended.           *)
Inserted_Appended(l, node, new, ref) ==
  Splice(l, new, new, node, l.last[node], NULL)

Inserted(l, node, new, ref) ==
  Splice(l, new, new, node, Before(l, node, ref), ref)

InsertSelf(node, new) ==
  /\ InsertArguments(node, new, new)
  /\ ~InsertRefused(node, new, new)
  /\ TakeRef(new)
  /\ UNCHANGED <<live, parent, owner, pending, siblings>>

InsertNode(node, new, ref) ==
  /\ InsertArguments(node, new, ref)
  /\ Type[new] # "fragment"
  /\ new # ref
  /\ ~InsertRefused(node, new, ref)
  /\ Become(Inserted(Taken(new), node, new, ref))
  /\ pending' = RemovePending(pending, new)
  /\ owner'   = [owner EXCEPT ![new] =
                   IF Type[node] = "document" /\ Type[new] = "doctype"
                   THEN node ELSE @]
  /\ TakeRef(new)
  /\ UNCHANGED live

InsertFragment(node, new, ref) ==
  /\ InsertArguments(node, new, ref)
  /\ Type[new] = "fragment"
  /\ ~InsertRefused(node, new, ref)
  /\ AllPermitted(node, new)
  /\ MaySpend(new)
  /\ IF first_child[new] = NULL
     THEN Become(Links)
     ELSE Become(Emptied(Splice(Links, first_child[new], last_child[new],
                                node, Before(Links, node, ref), ref), new))
  /\ pending' = RemovePending(pending, new)
  /\ TakeRef(new)
  /\ UNCHANGED <<live, owner>>

InsertFragmentRefused(node, new, ref) ==
  /\ Contract # "disciplined"
  /\ InsertArguments(node, new, ref)
  /\ Type[new] = "fragment"
  /\ ~InsertRefused(node, new, ref)
  /\ ~AllPermitted(node, new)
  /\ MaySpend(new)
  /\ pending' = RemovePending(pending, new)
  /\ UNCHANGED <<live, refcnt, held, parent, owner, siblings>>

-----------------------------------------------------------------------------
(* replace_child and remove_child.                                         *)

ReplaceRefused(node, new, old) ==
  \/ Type[node] = "document" /\ Type[new] \in {"doctype", "element"}
  \/ owner[new] # owner[node]
  \/ parent[old] # node
  \/ Readonly(node)
  \/ new \in AncestorsOrSelf(node)
  \/ Type[new] = "fragment" /\ ~AllPermitted(node, new)
  \/ Type[new] # "fragment" /\ ~PermittedChild(node, new)
  \/ new # old /\ parent[new] # NULL /\ Readonly(parent[new])

ReplaceSelf(node, old) ==
  /\ ReplaceArguments(node, old, old)
  /\ ~ReplaceRefused(node, old, old)
  /\ TakeRef(old)
  /\ UNCHANGED <<live, parent, owner, pending, siblings>>

Replacement(new, old) ==
  IF Type[new] # "fragment"
  THEN Replaced(Taken(new), old, new, new)
  ELSE IF first_child[new] = NULL
  THEN ReplacedByNothing(Links, old)
  ELSE Replaced(Emptied(Links, new), old, first_child[new], last_child[new])

ReplaceChild(node, new, old) ==
  /\ ReplaceArguments(node, new, old)
  /\ new # old
  /\ ~ReplaceRefused(node, new, old)
  /\ Type[new] = "fragment" =>
       /\ MaySpend(new)
       /\ Careful /\ first_child[new] = NULL => ChildList(node) = {old}
  /\ Become(Replacement(new, old))
  /\ pending' = MarkPending(RemovePending(pending, new), old)
  /\ TakeRef(old)
  /\ UNCHANGED <<live, owner>>

RemoveChild(node, old) ==
  /\ Usable(node)
  /\ Usable(old)
  /\ ~RemoveRefused(node, old)
  /\ Become(Detach(Links, old))
  /\ pending' = MarkPending(pending, old)
  /\ TakeRef(old)
  /\ UNCHANGED <<live, owner>>

-----------------------------------------------------------------------------
Unlinked == [n \in Node |-> NULL]

Init ==
  /\ NoNodes
  /\ first_child = Unlinked
  /\ last_child  = Unlinked
  /\ previous    = Unlinked
  /\ next        = Unlinked

Next ==
  \/ Create
  \/ Count
  \/ \E n \in Node : UnrefLast(n)
  \/ \E node, n \in Node : \/ Fetch(node, n)
                           \/ InsertSelf(node, n)
                           \/ ReplaceSelf(node, n)
                           \/ RemoveChild(node, n)
  \/ \E node, new \in Node, ref \in Node \cup {NULL} :
                           \/ InsertNode(node, new, ref)
                           \/ InsertFragment(node, new, ref)
                           \/ InsertFragmentRefused(node, new, ref)
  \/ \E node, new, old \in Node : ReplaceChild(node, new, old)

Spec == Init /\ [][Next]_vars

-----------------------------------------------------------------------------
(* Properties.                                                             *)

(* Types; a freed node has no links left, and the links inside a tree lead *)
(* to live nodes.                                                          *)
TypeOK ==
  /\ \A l \in {first_child, last_child, previous, next} :
       l \in [Node -> Node \cup {NULL}]
  /\ \A n \in Node \ live : /\ first_child[n] = NULL /\ last_child[n] = NULL
                            /\ previous[n] = NULL    /\ next[n] = NULL
  /\ \A n \in live : {first_child[n], last_child[n]} \subseteq live \cup {NULL}
  /\ \A n \in live : parent[n] # NULL =>
       {previous[n], next[n]} \subseteq live \cup {NULL}

(* From the first child forwards and from the last child backwards one     *)
(* meets exactly the nodes whose parent this is: no operation loses a node *)
(* from the list of its parent or leaves a node on two lists.              *)
WalksMeetChildren ==
  \A p \in live : /\ ChildList(p) = Children(p)
                  /\ Walk(previous, last_child[p], NULL) = Children(p)

(* The list reads the same in both directions: neighbours in a tree agree  *)
(* about each other, and the ends are the ones the parent points at.       *)
NeighboursAgree ==
  \A n \in live : parent[n] # NULL =>
    /\ IF next[n] = NULL THEN last_child[parent[n]] = n
       ELSE previous[next[n]] = n /\ parent[next[n]] = parent[n]
    /\ IF previous[n] = NULL THEN first_child[parent[n]] = n
       ELSE next[previous[n]] = n /\ parent[previous[n]] = parent[n]

(* The four pointers describe one list of children for every parent.       *)
OneListPerParent == WalksMeetChildren /\ NeighboursAgree

(* The neighbours a live node points at are live: the getters count a      *)
(* reference on what they return.  It holds of careful clients only in     *)
(* trees (TypeOK); a child that survives its parent keeps the pointers.    *)
NeighboursAreLive ==
  \A n \in live : {previous[n], next[n]} \subseteq live \cup {NULL}

(* A document that has an element gets no second one, nor a second document *)
(* type, whatever was moved or replaced before: the test walks the list of  *)
(* children and must miss none.  (A fragment that brings two elements into  *)
(* a document without one is let in: each is tested before either arrives.) *)
NoSecondJoins ==
  [][\A p \in Documents, k \in {"element", "doctype"} :
       LET Of == {c \in Children(p) : Type[c] = k}
       IN  Of # {} => Of' \subseteq Of]_vars

Lifetime == INSTANCE NodeLifetime

(* The operations on pointers do to reference counts, owners, parents and  *)
(* the pending list what NodeLifetime says.                                *)
ImplementsLifetime == Lifetime!Spec
=============================================================================
