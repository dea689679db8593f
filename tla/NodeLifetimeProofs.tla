------------------------- MODULE NodeLifetimeProofs -------------------------
(***************************************************************************)
(* Proofs about NodeLifetime, for every set of nodes, every bound and, as  *)
(* far as they hold, every client contract.                                *)
(***************************************************************************)
EXTENDS NodeLifetime, TLAPS

-----------------------------------------------------------------------------
(* The two closures.                                                       *)

(* What a destruction reaches contains its roots and, with a node, those   *)
(* of its children nobody references.                                      *)
LEMMA DoomedClosed ==
  ASSUME NEW roots \in SUBSET Node
  PROVE  /\ Doomed(roots) \subseteq Node
         /\ roots \subseteq Doomed(roots)
         /\ \A c \in Node :
              parent[c] \in Doomed(roots) /\ refcnt[c] = 0 => c \in Doomed(roots)
  BY Zenon DEF Doomed

(* And nothing else: it is contained in every set that is closed like that.*)
LEMMA DoomedLeast ==
  ASSUME NEW roots \in SUBSET Node, NEW S \in SUBSET Node,
         roots \subseteq S,
         \A c \in Node : parent[c] \in S /\ refcnt[c] = 0 => c \in S
  PROVE  Doomed(roots) \subseteq S
  BY Zenon DEF Doomed

(* A doomed node that is not a root has a doomed parent and no reference.  *)
LEMMA DoomedBelow ==
  ASSUME NEW roots \in SUBSET Node
  PROVE  \A x \in Doomed(roots) \ roots :
           parent[x] \in Doomed(roots) /\ refcnt[x] = 0
<1> DEFINE S == {x \in Doomed(roots) :
                   x \in roots \/ (parent[x] \in Doomed(roots) /\ refcnt[x] = 0)}
<1>1. S \in SUBSET Node /\ roots \subseteq S
  BY DoomedClosed
<1>2. \A c \in Node : parent[c] \in S /\ refcnt[c] = 0 => c \in S
  BY DoomedClosed
<1>3. Doomed(roots) \subseteq S
  <2> HIDE DEF S
  <2> QED BY <1>1, <1>2, DoomedLeast
<1> QED BY <1>3

(* The walk up the tree starts at the node and misses no parent.           *)
LEMMA AncestorsClosed ==
  ASSUME NEW node \in Node
  PROVE  /\ node \in AncestorsOrSelf(node)
         /\ \A x \in AncestorsOrSelf(node) :
              parent[x] # NULL /\ parent[x] \in Node
                => parent[x] \in AncestorsOrSelf(node)
<1>1. node \in AncestorsOrSelf(node)
  BY Zenon DEF AncestorsOrSelf
<1>2. ASSUME NEW x \in AncestorsOrSelf(node), parent[x] # NULL, parent[x] \in Node
      PROVE  parent[x] \in AncestorsOrSelf(node)
  BY <1>2, Zenon DEF AncestorsOrSelf
<1> QED BY <1>1, <1>2

(* And it is contained in every set that misses no parent either.          *)
LEMMA AncestorsLeast ==
  ASSUME NEW node \in Node, NEW S \in SUBSET Node, node \in S,
         \A x \in S : parent[x] # NULL => parent[x] \in S
  PROVE  AncestorsOrSelf(node) \subseteq S
  BY Zenon DEF AncestorsOrSelf

(* Moving nodes below a node they are not above makes no cycle.            *)
LEMMA ReparentAcyclic ==
  ASSUME Acyclic, NULL \notin Node,
         NEW node \in Node, NEW moved \in SUBSET Node,
         \A x \in moved : parent'[x] = node /\ x \notin AncestorsOrSelf(node),
         \A x \in Node \ moved : parent'[x] \in {parent[x], NULL}
  PROVE  Acyclic'
<1> SUFFICES ASSUME NEW S \in SUBSET Node, S # {}, \A x \in S : parent'[x] \in S
             PROVE  FALSE
  BY DEF Acyclic
<1> DEFINE A == AncestorsOrSelf(node)
<1>1. \A x \in S \ moved : parent[x] \in S /\ parent[x] # NULL
  OBVIOUS
<1>2. CASE S \cap moved = {}
  BY <1>1, <1>2 DEF Acyclic
<1>3. CASE S \cap moved # {}
  <2>1. node \in S \cap A
    BY <1>3, AncestorsClosed
  <2>2. \A x \in S \cap A : parent[x] \in S \cap A
    BY <1>1, AncestorsClosed
  <2> QED BY <2>1, <2>2 DEF Acyclic
<1> QED BY <1>2, <1>3

(* Nor does cutting links.                                                 *)
LEMMA CutAcyclic ==
  ASSUME Acyclic, NULL \notin Node,
         \A x \in Node : parent'[x] \in {parent[x], NULL}
  PROVE  Acyclic'
<1> SUFFICES ASSUME NEW S \in SUBSET Node, S # {}, \A x \in S : parent'[x] \in S
             PROVE  FALSE
  BY DEF Acyclic
<1>1. \A x \in S : parent[x] \in S
  OBVIOUS
<1> QED BY <1>1 DEF Acyclic

-----------------------------------------------------------------------------
(* One destruction: what it reaches, what is pending then, what it frees.  *)

Reached(node) == Doomed({node} \cup AbandonedOwner(node))
PendingAfter(node) == (pending \ Reached(node)) \cup Orphans(Reached(node))
Freed(node) == Reached(node) \ Surviving(Reached(node), PendingAfter(node))

(* What Destroy does, in terms of what it reaches and what it frees.       *)
LEMMA DestroyEffect ==
  ASSUME NEW node \in Node, Destroy(node)
  PROVE  /\ live' = live \ Freed(node)
         /\ pending' = PendingAfter(node)
         /\ parent' = [n \in Node |->
                         IF n \in Reached(node) \cup Orphans(Reached(node))
                         THEN NULL ELSE parent[n]]
         /\ owner' = [n \in Node |-> IF n \in Freed(node) THEN NULL ELSE owner[n]]
         /\ refcnt' = [refcnt EXCEPT ![node] = 0]
         /\ held' = [held EXCEPT ![node] = 0]
  BY Zenon DEF Destroy, Reached, PendingAfter, Freed

(* Everything reached is the node, its unreferenced document, or has no    *)
(* reference and a parent that is reached.                                 *)
LEMMA ReachedFacts ==
  ASSUME NEW node \in Node
  PROVE  /\ Reached(node) \subseteq Node
         /\ node \in Reached(node)
         /\ AbandonedOwner(node) \subseteq Reached(node)
         /\ \A c \in Node : parent[c] \in Reached(node) /\ refcnt[c] = 0
                             => c \in Reached(node)
         /\ \A x \in Reached(node) : x # node => refcnt[x] = 0
         /\ \A x \in Reached(node) :
              x # node /\ x \notin AbandonedOwner(node)
                => parent[x] \in Reached(node)
<1> DEFINE roots == {node} \cup AbandonedOwner(node)
<1>1. roots \in SUBSET Node
  BY DEF AbandonedOwner, Documents
<1>2. \A x \in AbandonedOwner(node) : refcnt[x] = 0
  BY DEF AbandonedOwner
<1> QED
  BY <1>1, <1>2, DoomedClosed, DoomedBelow DEF Reached

(* Freed nodes are reached; the documents that are reached but kept are    *)
(* those that own a pending node.                                          *)
LEMMA FreedFacts ==
  ASSUME NEW node \in Node
  PROVE  /\ Freed(node) \subseteq Reached(node)
         /\ PendingAfter(node) \cap Reached(node) = {}
         /\ \A x \in Reached(node) \ Freed(node) :
              x \in Documents /\ \E n \in PendingAfter(node) : owner[n] = x
         /\ \A x \in Freed(node) \cap Documents :
              \A n \in PendingAfter(node) : owner[n] # x
  BY DEF Freed, PendingAfter, Surviving, Orphans

-----------------------------------------------------------------------------
(* Types and reference counts, under every contract.                       *)

Counted == TypeOK /\ CountsAgree

(* A destruction keeps the counts and the links right.                     *)
LEMMA DestroyCounted ==
  ASSUME Counted, NEW node \in Node, UnrefLast(node)
  PROVE  Counted'
<1> USE NullAssumption
<1> DEFINE R == Reached(node)
           O == Orphans(Reached(node))
           F == Freed(node)
<1>1. Destroy(node) /\ held[node] > 0
  BY DEF UnrefLast
<1>2. R \subseteq Node /\ node \in R /\ F \subseteq R /\ \A x \in R \ F : x \in Documents
  BY ReachedFacts, FreedFacts
<1>3. O = {c \in Node \ R : parent[c] \in R}
  BY DEF Orphans
<1>4. O \subseteq live \ R
  BY <1>2, <1>3 DEF Counted, TypeOK
<1>5. /\ live' = live \ F
      /\ pending' = (pending \ R) \cup O
      /\ parent' = [n \in Node |-> IF n \in R \cup O THEN NULL ELSE parent[n]]
      /\ owner' = [n \in Node |-> IF n \in F THEN NULL ELSE owner[n]]
      /\ refcnt' = [refcnt EXCEPT ![node] = 0]
      /\ held' = [held EXCEPT ![node] = 0]
  BY <1>1, DestroyEffect DEF PendingAfter
<1>6. \A x \in R : x # node => refcnt[x] = 0
  BY ReachedFacts
<1> HIDE DEF R, O, F
<1>7. CountsAgree'
  BY <1>2, <1>5, <1>6 DEF Counted, TypeOK, CountsAgree
<1>8. /\ live' \subseteq Node
      /\ refcnt' \in [Node -> Nat]
      /\ held' \in [Node -> Nat]
      /\ owner' \in [Node -> Documents \cup {NULL}]
      /\ pending' \subseteq live'
  BY <1>2, <1>4, <1>5 DEF Counted, TypeOK
<1>9. parent' \in [Node -> live' \cup {NULL}]
  <2> SUFFICES ASSUME NEW n \in Node, n \notin R \cup O, parent[n] # NULL
               PROVE  parent[n] \in live'
    BY <1>5
  <2> QED BY <1>2, <1>3, <1>5 DEF Counted, TypeOK
<1>10. \A n \in Node \ live' : parent'[n] = NULL /\ owner'[n] = NULL
  BY <1>2, <1>5 DEF Counted, TypeOK
<1>11. \A n \in live' : owner'[n] = NULL => Type[n] = "doctype" /\ parent'[n] = NULL
  BY <1>2, <1>5 DEF Counted, TypeOK
<1>12. \A n \in live' \cap Documents : owner'[n] = n
  BY <1>2, <1>5 DEF Counted, TypeOK
<1>13. \A n \in live' : parent'[n] # NULL =>
        /\ Type[n] \notin {"document", "fragment"}
        /\ Type[parent'[n]] # "doctype"
  BY <1>5 DEF Counted, TypeOK
<1> QED
  BY <1>7, <1>8, <1>9, <1>10, <1>11, <1>12, <1>13 DEF Counted, TypeOK, Documents

(* Creating a node: it gets one reference and no links.                    *)
LEMMA AllocateCounted ==
  ASSUME Counted, NEW n \in Node, NEW doc \in Documents \cup {NULL},
         NEW pend \in SUBSET (live \cup {n}),
         Allocate(n, doc, pend),
         Type[n] = "document" => doc = n,
         doc = NULL => Type[n] = "doctype"
  PROVE  Counted'
  BY NullAssumption DEF Allocate, Counted, TypeOK, CountsAgree, Documents

(* One more, or one less, reference on a node that is live.                *)
LEMMA CountingCounted ==
  ASSUME Counted, NEW n \in Node, UNCHANGED <<live, parent, owner, pending>>,
         (TakeRef(n) /\ n \in live)
         \/ UnrefShared(n)
  PROVE  Counted'
  BY DEF TakeRef, UnrefShared, Counted, TypeOK, CountsAgree, Documents

(* Attaching, replacing and removing change links of live nodes only, and  *)
(* put nothing below what takes no children.                               *)
LEMMA InsertNodeCounted ==
  ASSUME Counted, NEW node \in Node, NEW new \in Node, NEW ref \in Node \cup {NULL},
         InsertNode(node, new, ref)
  PROVE  Counted'
<1> USE NullAssumption
<1>1. node \in live /\ new \in live
  BY DEF InsertNode, InsertArguments, Usable, Counted, CountsAgree
<1>2. /\ Type[new] \in ContentTypes \cup {"element", "comment", "doctype"}
      /\ Type[node] \in {"element", "entity_reference", "fragment", "document"}
      /\ Type[new] = "doctype" => Type[node] = "document"
  BY TypeAssumption
     DEF InsertNode, InsertRefused, PermittedChild, PermittedTypes, ContentTypes, NodeType
<1>3. CountsAgree'
  BY <1>1 DEF InsertNode, TakeRef, Counted, TypeOK, CountsAgree
<1>4. /\ parent' = [parent EXCEPT ![new] = node]
      /\ owner' = [owner EXCEPT ![new] =
                     IF Type[node] = "document" /\ Type[new] = "doctype"
                     THEN node ELSE @]
      /\ live' = live
      /\ pending' \subseteq live
      /\ refcnt' \in [Node -> Nat]
      /\ held' \in [Node -> Nat]
  BY DEF InsertNode, TakeRef, RemovePending, Counted, TypeOK
<1>5. TypeOK'
  BY <1>1, <1>2, <1>4 DEF Counted, TypeOK, Documents, ContentTypes
<1> QED BY <1>3, <1>5 DEF Counted

(* So does moving the children of a fragment.                              *)
LEMMA InsertFragmentCounted ==
  ASSUME Counted, NEW node \in Node, NEW new \in Node, NEW ref \in Node \cup {NULL},
         InsertFragment(node, new, ref)
  PROVE  Counted'
<1> USE NullAssumption
<1>1. node \in live /\ new \in live
  BY DEF InsertFragment, InsertArguments, Usable, Counted, CountsAgree
<1>2. Type[node] # "doctype"
  BY DEF InsertFragment, InsertRefused, Readonly
<1>3. CountsAgree'
  BY <1>1 DEF InsertFragment, TakeRef, Counted, TypeOK, CountsAgree
<1>4. /\ parent' = [c \in Node |-> IF parent[c] = new THEN node ELSE parent[c]]
      /\ live' = live
      /\ owner' = owner
      /\ pending' \subseteq live
      /\ refcnt' \in [Node -> Nat]
      /\ held' \in [Node -> Nat]
  BY DEF InsertFragment, TakeRef, RemovePending, Counted, TypeOK
<1>5. TypeOK'
  BY <1>1, <1>2, <1>4 DEF Counted, TypeOK, Documents
<1> QED BY <1>3, <1>5 DEF Counted

(* So does a replacement.                                                  *)
LEMMA ReplaceChildCounted ==
  ASSUME Counted, NEW node \in Node, NEW new \in Node, NEW old \in Node,
         ReplaceChild(node, new, old)
  PROVE  Counted'
<1> USE NullAssumption
<1> DEFINE moved == IF Type[new] = "fragment" THEN Children(new) ELSE {new}
<1>1. node \in live /\ new \in live /\ old \in live
  BY DEF ReplaceChild, ReplaceArguments, Usable, Counted, CountsAgree
<1>2. /\ Type[node] # "doctype"
      /\ owner[new] = owner[node]
      /\ parent[old] = node
  BY DEF ReplaceChild, ReplaceRefused, Readonly
<1>3. CountsAgree'
  BY <1>1 DEF ReplaceChild, TakeRef, Counted, TypeOK, CountsAgree
<1>4. /\ parent' = [c \in Node |-> IF c \in moved THEN node
                                   ELSE IF c = old THEN NULL ELSE parent[c]]
      /\ live' = live
      /\ owner' = owner
      /\ pending' \subseteq live
      /\ refcnt' \in [Node -> Nat]
      /\ held' \in [Node -> Nat]
  BY <1>1 DEF ReplaceChild, TakeRef, RemovePending, MarkPending, Counted, TypeOK
<1>5. \A c \in moved :
        c \in live /\ Type[c] \notin {"document", "fragment"} /\ owner[c] # NULL
  <2>1. CASE Type[new] = "fragment"
    BY <2>1, <1>1 DEF Children, Counted, TypeOK
  <2>2. CASE Type[new] # "fragment"
    <3>1. Type[new] \in PermittedTypes(Type[node])
      BY <2>2 DEF ReplaceChild, ReplaceRefused, PermittedChild
    <3>2. Type[new] # "document" /\ Type[new] # "doctype"
      BY <3>1, TypeAssumption
         DEF PermittedTypes, ContentTypes, NodeType, ReplaceChild, ReplaceRefused
    <3> QED BY <2>2, <3>2, <1>1 DEF Counted, TypeOK
  <2> QED BY <2>1, <2>2
<1> HIDE DEF moved
<1>6. TypeOK'
  BY <1>1, <1>2, <1>4, <1>5 DEF Counted, TypeOK, Documents
<1> QED BY <1>3, <1>6 DEF Counted

(* So does a removal.                                                      *)
LEMMA RemoveChildCounted ==
  ASSUME Counted, NEW node \in Node, NEW old \in Node, RemoveChild(node, old)
  PROVE  Counted'
<1> USE NullAssumption
<1>1. old \in live
  BY DEF RemoveChild, Usable, Counted, CountsAgree
<1>2. parent[old] = node
  BY DEF RemoveChild, RemoveRefused
<1>3. CountsAgree'
  BY <1>1 DEF RemoveChild, TakeRef, Counted, TypeOK, CountsAgree
<1>4. /\ parent' = [parent EXCEPT ![old] = NULL]
      /\ live' = live
      /\ owner' = owner
      /\ pending' \subseteq live
      /\ refcnt' \in [Node -> Nat]
      /\ held' \in [Node -> Nat]
  BY <1>1 DEF RemoveChild, TakeRef, MarkPending, Counted, TypeOK
<1>5. TypeOK'
  BY <1>1, <1>2, <1>4 DEF Counted, TypeOK, Documents
<1> QED BY <1>3, <1>5 DEF Counted

(* Every call keeps counts and links right, under every contract.          *)
LEMMA StepCounted ==
  ASSUME Counted, [Next]_vars
  PROVE  Counted'
<1> USE NullAssumption
<1>1. ASSUME NEW n \in Node, CreateDocument(n)
      PROVE  Counted'
  BY <1>1, AllocateCounted DEF CreateDocument, Documents, Counted, TypeOK
<1>2. ASSUME NEW n \in Node, CreateDocumentType(n)
      PROVE  Counted'
  BY <1>2, AllocateCounted DEF CreateDocumentType, Counted, TypeOK
<1>3. ASSUME NEW doc \in Node, NEW n \in Node, CreateNode(doc, n)
      PROVE  Counted'
  BY <1>3, AllocateCounted DEF CreateNode, MarkPending, Documents, Counted, TypeOK
<1>4. ASSUME NEW node \in Node, NEW n \in Node, CloneNode(node, n)
      PROVE  Counted'
  <2>1. node \in live /\ owner[node] \in Documents
    BY <1>4 DEF CloneNode, Usable, Counted, TypeOK, CountsAgree
  <2> QED BY <1>4, <2>1, AllocateCounted DEF CloneNode, MarkPending, Counted, TypeOK
<1>5. ASSUME NEW n \in Node, Ref(n) \/ UnrefShared(n)
      PROVE  Counted'
  BY <1>5, CountingCounted DEF Ref, UnrefShared, Counted, CountsAgree
<1>6. ASSUME NEW n \in Node, UnrefLast(n)
      PROVE  Counted'
  BY <1>6, DestroyCounted
<1>7. ASSUME NEW node \in Node, NEW n \in Node,
             Fetch(node, n) \/ InsertSelf(node, n) \/ ReplaceSelf(node, n)
      PROVE  Counted'
  <2>1. n \in live
    BY <1>7 DEF Fetch, InsertSelf, InsertArguments, ReplaceSelf, ReplaceArguments,
                Usable, Counted, CountsAgree
  <2> QED BY <1>7, <2>1, CountingCounted DEF Fetch, InsertSelf, ReplaceSelf
<1>8. ASSUME NEW node \in Node, NEW n \in Node, RemoveChild(node, n)
      PROVE  Counted'
  BY <1>8, RemoveChildCounted
<1>9. ASSUME NEW node \in Node, NEW new \in Node, NEW ref \in Node \cup {NULL},
             InsertNode(node, new, ref)
      PROVE  Counted'
  BY <1>9, InsertNodeCounted
<1>10. ASSUME NEW node \in Node, NEW new \in Node, NEW ref \in Node \cup {NULL},
              InsertFragment(node, new, ref)
       PROVE  Counted'
  BY <1>10, InsertFragmentCounted
<1>11. ASSUME NEW node \in Node, NEW new \in Node, NEW ref \in Node \cup {NULL},
              InsertFragmentRefused(node, new, ref)
       PROVE  Counted'
  BY <1>11 DEF InsertFragmentRefused, RemovePending, Counted, TypeOK, CountsAgree, Documents
<1>12. ASSUME NEW node \in Node, NEW new \in Node, NEW old \in Node,
              ReplaceChild(node, new, old)
       PROVE  Counted'
  BY <1>12, ReplaceChildCounted
<1>13. CASE UNCHANGED vars
  BY <1>13 DEF vars, Counted, TypeOK, CountsAgree, Documents
<1> QED
  BY <1>1, <1>2, <1>3, <1>4, <1>5, <1>6, <1>7, <1>8, <1>9, <1>10, <1>11, <1>12, <1>13
     DEF Next

(* And they are right before the first call.                               *)
LEMMA InitCounted == Init => Counted
  BY NullAssumption DEF Init, NoNodes, Counted, TypeOK, CountsAgree

(* Types, and links that lead from live nodes to live nodes only.          *)
THEOREM TypeCorrect == Spec => []TypeOK
<1>1. Counted /\ [Next]_vars => Counted'
  BY StepCounted
<1>2. Counted => TypeOK
  BY DEF Counted
<1> QED BY InitCounted, <1>1, <1>2, PTL DEF Spec

(* The reference counts are the references clients hold, and no reference  *)
(* is on freed memory, under every contract.                               *)
THEOREM CountsCorrect == Spec => []CountsAgree
<1>1. Counted /\ [Next]_vars => Counted'
  BY StepCounted
<1>2. Counted => CountsAgree
  BY DEF Counted
<1> QED BY InitCounted, <1>1, <1>2, PTL DEF Spec

-----------------------------------------------------------------------------
(* A spent fragment protects nothing: under the discipline it has no       *)
(* children any more, otherwise its document is referenced.                *)
SpentIsHarmless ==
  \A f \in Node :
    Spent(f) => \/ Contract = "disciplined" /\ Children(f) = {}
                \/ Contract = "keeps_document" /\ held[owner[f]] > 0

(* The inductive invariant, for clients that keep one of the two contracts.*)
(* None of its parts is inductive alone: that a document outlives its      *)
(* nodes needs that every tree has a root (Acyclic), that the root is      *)
(* listed (DetachedIsPending) or spent and harmless, and that the owner is *)
(* the same all along the way up (SameOwner).                              *)

IInv ==
  /\ Counted
  /\ PendingIsDetached
  /\ DetachedIsPending
  /\ DetachedIsInUse
  /\ Acyclic
  /\ SameOwner
  /\ SpentIsHarmless
  /\ OwnerOutlivesNode
  /\ ZombieDocument

(* The invariant holds before the first call.                              *)
LEMMA InitIInv == Init => IInv
<1> SUFFICES ASSUME Init PROVE IInv
  OBVIOUS
<1>1. Counted
  BY InitCounted
<1>2. Acyclic
  BY NullAssumption DEF Init, NoNodes, Acyclic
<1>3. \A f \in Node : ~Spent(f)
  BY DEF Init, NoNodes, Spent
<1> QED
  BY <1>1, <1>2, <1>3
     DEF IInv, Init, NoNodes, PendingIsDetached, DetachedIsPending, DetachedIsInUse, SameOwner,
         SpentIsHarmless, OwnerOutlivesNode, ZombieDocument

(* Destruction.                                                            *)
LEMMA DestroyIInv ==
  ASSUME IInv, NEW node \in Node, UnrefLast(node)
  PROVE  IInv'
<1> USE NullAssumption
<1> DEFINE R == Reached(node)
           O == Orphans(Reached(node))
           F == Freed(node)
           P == PendingAfter(node)
<1>1. Counted'
  BY DestroyCounted DEF IInv
<1>2. /\ held[node] > 0 /\ refcnt[node] = 1 /\ parent[node] = NULL
      /\ MayDrop(node) /\ Destroy(node) /\ node \in live
  BY DEF UnrefLast, IInv, Counted, CountsAgree
<1>3. /\ R \subseteq Node /\ node \in R /\ F \subseteq R
      /\ P \cap R = {} /\ P = (pending \ R) \cup O
      /\ O = {c \in Node \ R : parent[c] \in R}
      /\ \A x \in R \ F : x \in Documents /\ \E n \in P : owner[n] = x
      /\ \A x \in F \cap Documents : \A n \in P : owner[n] # x
  BY ReachedFacts, FreedFacts DEF PendingAfter, Orphans
<1>4. /\ live' = live \ F
      /\ pending' = P
      /\ parent' = [n \in Node |-> IF n \in R \cup O THEN NULL ELSE parent[n]]
      /\ owner' = [n \in Node |-> IF n \in F THEN NULL ELSE owner[n]]
      /\ refcnt' = [refcnt EXCEPT ![node] = 0]
      /\ held' = [held EXCEPT ![node] = 0]
  BY <1>2, DestroyEffect
<1>5. /\ \A x \in R : x # node => refcnt[x] = 0
      /\ \A x \in R : x # node /\ x \notin AbandonedOwner(node) => parent[x] \in R
      /\ \A c \in Node : parent[c] \in R /\ refcnt[c] = 0 => c \in R
      /\ AbandonedOwner(node) \subseteq R
  BY ReachedFacts
<1>6. AbandonedOwner(node) = {d \in Documents : /\ node \in pending
                                               /\ d = owner[node]
                                               /\ refcnt[d] = 0
                                               /\ parent[d] = NULL}
  BY DEF AbandonedOwner
<1> HIDE DEF R, O, F, P
<1>7. O \subseteq live /\ \A c \in O : refcnt[c] > 0 /\ owner[c] # NULL /\ c \notin Documents
  BY <1>3, <1>5 DEF IInv, Counted, TypeOK, Documents
<1>8. \A f \in Node : f \in live' => (Spent(f) <=> Spent(f)')
  <2> SUFFICES ASSUME NEW f \in Node, f \in live', Type[f] = "fragment"
               PROVE  /\ parent'[f] = NULL <=> parent[f] = NULL
                      /\ f \in pending' <=> f \in pending
    BY <1>4 DEF Spent
  <2>1. f \in live /\ f \notin R
    BY <1>3, <1>4 DEF Documents
  <2>2. parent[f] = NULL
    BY <2>1 DEF IInv, Counted, TypeOK
  <2> QED BY <2>1, <2>2, <1>3, <1>4
<1>9. PendingIsDetached'
  BY <1>3, <1>4, <1>7 DEF IInv, PendingIsDetached, Counted, TypeOK, Documents
<1>10. DetachedIsPending'
  <2> SUFFICES ASSUME NEW n \in live' \ Documents, parent'[n] = NULL, owner'[n] # NULL
               PROVE  n \in P \/ Spent(n)'
    BY <1>4 DEF DetachedIsPending, Documents
  <2>1. n \in live /\ n \in Node /\ n \notin R
    BY <1>3, <1>4 DEF IInv, Counted, TypeOK, Documents
  <2>2. CASE n \in O
    BY <2>2, <1>3
  <2>3. CASE n \notin O
    <3>1. parent[n] = NULL /\ owner[n] # NULL
      BY <2>1, <2>3, <1>3, <1>4
    <3>2. n \in pending \/ Spent(n)
      BY <2>1, <3>1 DEF IInv, DetachedIsPending
    <3> QED BY <3>2, <2>1, <1>3, <1>8
  <2> QED BY <2>2, <2>3
<1>11. DetachedIsInUse'
  <2> SUFFICES ASSUME NEW n \in live' \ Documents, parent'[n] = NULL
               PROVE  refcnt'[n] > 0
    BY DEF DetachedIsInUse, Documents
  <2>1. n \in live /\ n \in Node /\ n \notin R /\ n # node
    BY <1>3, <1>4 DEF IInv, Counted, TypeOK, Documents
  <2>2. refcnt'[n] = refcnt[n]
    BY <2>1, <1>4 DEF IInv, Counted, TypeOK
  <2>3. n \in O \/ parent[n] = NULL
    BY <2>1, <1>4
  <2> QED BY <2>1, <2>2, <2>3, <1>7 DEF IInv, DetachedIsInUse
<1>12. Acyclic'
  <2>1. \A x \in Node : parent'[x] \in {parent[x], NULL}
    BY <1>4
  <2> QED BY <2>1, CutAcyclic DEF IInv
<1>13. SameOwner'
  <2> SUFFICES ASSUME NEW n \in live', parent'[n] # NULL
               PROVE  owner'[n] = owner'[parent'[n]]
    BY DEF SameOwner
  <2>1. n \in live /\ n \in Node /\ n \notin R /\ n \notin O
    BY <1>4 DEF IInv, Counted, TypeOK
  <2>2. parent'[n] = parent[n] /\ parent[n] \in Node /\ parent[n] \notin R
    BY <2>1, <1>3, <1>4 DEF IInv, Counted, TypeOK
  <2> QED BY <2>1, <2>2, <1>3, <1>4 DEF IInv, SameOwner
<1>14. SpentIsHarmless'
  <2> SUFFICES ASSUME NEW f \in Node, Spent(f)'
               PROVE  \/ Contract = "disciplined" /\ Children(f)' = {}
                      \/ Contract = "keeps_document" /\ held'[owner'[f]] > 0
    BY DEF SpentIsHarmless
  <2>1. f \in live' /\ f \in live /\ Spent(f) /\ f \notin R
    BY <1>3, <1>4, <1>8 DEF Spent, Documents
  <2>2. CASE Contract = "disciplined"
    <3>1. Children(f) = {}
      BY <2>1, <2>2 DEF IInv, SpentIsHarmless
    <3> QED BY <3>1, <2>2, <1>4 DEF Children
  <2>3. CASE Contract # "disciplined"
    <3>1. Contract = "keeps_document" /\ held[owner[f]] > 0
      BY <2>1, <2>3 DEF IInv, SpentIsHarmless
    <3>2. owner[f] # node
      BY <2>1, <3>1, <1>2 DEF MayDrop, IInv, Counted, CountsAgree
    <3>3. owner'[f] = owner[f] /\ owner[f] \in Node
      BY <2>1, <1>3, <1>4 DEF IInv, Counted, TypeOK, Documents, Spent
    <3> QED BY <3>1, <3>2, <3>3, <1>4 DEF IInv, Counted, TypeOK
  <2> QED BY <2>2, <2>3
<1>15. OwnerOutlivesNode'
  <2> SUFFICES ASSUME NEW n \in live', owner'[n] # NULL, ~Spent(n)', owner'[n] \notin live'
               PROVE  FALSE
    BY DEF OwnerOutlivesNode
  <2> DEFINE d == owner[n]
  <2>1. n \in live /\ n \in Node /\ ~Spent(n) /\ owner'[n] = d
    BY <1>4, <1>8 DEF IInv, Counted, TypeOK
  <2>2. d \in live /\ d \in Documents /\ d \in F /\ owner[d] = d
    BY <2>1, <1>4 DEF IInv, OwnerOutlivesNode, Counted, TypeOK
  <2>3. n \notin R
    BY <2>1, <2>2, <1>3, <1>4 DEF IInv, Counted, TypeOK
  <2>4. \A x \in P : owner[x] # d
    BY <2>2, <1>3
  <2>5. \A x \in live : Spent(x) => owner[x] # d \/ Children(x) = {}
    <3> SUFFICES ASSUME NEW x \in live, Spent(x), owner[x] = d, Children(x) # {}
                 PROVE  FALSE
      OBVIOUS
    <3>1. Contract = "keeps_document" /\ held[d] > 0
      BY DEF IInv, SpentIsHarmless, Counted, TypeOK
    <3>2. refcnt[d] > 0
      BY <2>2, <3>1 DEF IInv, Counted, CountsAgree, Documents
    <3>3. d = node
      BY <2>2, <3>2, <1>3, <1>5
    <3> QED BY <3>1, <3>3, <1>2 DEF MayDrop, IInv, Counted, CountsAgree
  <2> DEFINE S == {x \in live : x \notin R /\ owner[x] = d /\ ~Spent(x)}
  <2>6. ASSUME NEW x \in S
        PROVE  parent[x] \in S
    <3>1. x \notin Documents
      BY <2>2, <1>3 DEF IInv, Counted, TypeOK
    <3>2. x \notin P /\ x \notin pending
      BY <2>4, <1>3
    <3>3. parent[x] # NULL
      BY <3>1, <3>2, <2>2 DEF IInv, DetachedIsPending, Documents
    <3>4. parent[x] \in live /\ owner[parent[x]] = d
      BY <3>3 DEF IInv, Counted, TypeOK, SameOwner
    <3>5. parent[x] \notin R
      BY <3>2, <1>3 DEF IInv, Counted, TypeOK
    <3>6. ~Spent(parent[x])
      BY <3>4, <2>5 DEF Children, IInv, Counted, TypeOK
    <3> QED BY <3>4, <3>5, <3>6
  <2>7. n \in S /\ S \in SUBSET Node
    BY <2>1, <2>3 DEF IInv, Counted, TypeOK
  <2> HIDE DEF S
  <2> QED BY <2>6, <2>7 DEF IInv, Acyclic
<1>16. ZombieDocument'
  <2> SUFFICES ASSUME NEW d \in live' \cap Documents, refcnt'[d] = 0
               PROVE  Children(d)' = {} /\ \E n \in P : owner'[n] = d
    BY <1>4 DEF ZombieDocument, Documents
  <2>1. d \in live /\ d \in Node
    BY <1>4 DEF Documents
  <2>2. \A n \in P : n \in Node /\ owner'[n] = owner[n]
    BY <1>3, <1>4, <1>7 DEF IInv, Counted, TypeOK
  <2>3. CASE d \in R
    <3>1. \E n \in P : owner[n] = d
      BY <2>3, <1>3, <1>4
    <3>2. \A c \in Node : parent[c] = d => c \in R \cup O
      BY <2>3, <1>3
    <3> QED BY <3>1, <3>2, <2>1, <2>2, <1>4 DEF Children
  <2>4. CASE d \notin R
    <3>1. refcnt[d] = 0
      BY <2>1, <2>4, <1>3, <1>4 DEF IInv, Counted, TypeOK
    <3>2. Children(d) = {} /\ \E n \in pending : owner[n] = d
      BY <3>1, <2>1 DEF IInv, ZombieDocument
    <3>3. PICK n \in pending : owner[n] = d
      BY <3>2
    <3>4. n \notin R
      <4> SUFFICES ASSUME n \in R PROVE FALSE
        OBVIOUS
      <4>1. parent[n] = NULL /\ n \notin Documents
        BY DEF IInv, PendingIsDetached
      <4>2. n = node
        BY <4>1, <1>3, <1>5, <1>6
      <4>3. parent[d] = NULL
        BY <2>1 DEF IInv, Counted, TypeOK, Documents
      <4>4. d \in AbandonedOwner(node)
        BY <4>2, <4>3, <3>1, <3>3, <1>6
      <4> QED BY <4>4, <2>4, <1>5
    <3> QED BY <3>2, <3>3, <3>4, <2>1, <2>2, <1>3, <1>4 DEF Children
  <2> QED BY <2>3, <2>4
<1> QED
  BY <1>1, <1>9, <1>10, <1>11, <1>12, <1>13, <1>14, <1>15, <1>16 DEF IInv

(* Creation.                                                               *)
LEMMA AllocateIInv ==
  ASSUME IInv, Counted', NEW n \in Node, NEW doc \in Documents \cup {NULL},
         Allocate(n, doc, IF doc \in {n, NULL} THEN pending ELSE pending \cup {n}),
         doc \in live \cup {n, NULL},
         Type[n] = "document" => doc = n,
         doc = n => Type[n] = "document",
         doc = NULL => Type[n] = "doctype"
  PROVE  IInv'
<1> USE NullAssumption
<1> DEFINE pend == IF doc \in {n, NULL} THEN pending ELSE pending \cup {n}
<1>1. /\ n \notin live /\ live' = live \cup {n}
      /\ refcnt' = [refcnt EXCEPT ![n] = 1]
      /\ held' = [held EXCEPT ![n] = 1]
      /\ owner' = [owner EXCEPT ![n] = doc]
      /\ pending' = pend
      /\ parent' = parent
      /\ parent[n] = NULL
      /\ \A c \in Node : parent[c] # n
  BY DEF Allocate, IInv, Counted, TypeOK
<1>2. \A f \in Node : Spent(f)' <=> Spent(f)
  BY <1>1 DEF Spent, IInv, Counted, TypeOK
<1>3. PendingIsDetached' /\ DetachedIsPending'
  BY <1>1, <1>2
     DEF IInv, Counted, TypeOK, PendingIsDetached, DetachedIsPending, Documents
<1>4. DetachedIsInUse' /\ Acyclic'
  BY <1>1 DEF IInv, Counted, TypeOK, DetachedIsInUse, Acyclic, Documents
<1>5. SameOwner'
  BY <1>1 DEF IInv, Counted, TypeOK, SameOwner
<1>6. SpentIsHarmless'
  <2> SUFFICES ASSUME NEW f \in Node, Spent(f)
               PROVE  \/ Contract = "disciplined" /\ Children(f)' = {}
                      \/ Contract = "keeps_document" /\ held'[owner'[f]] > 0
    BY <1>2 DEF SpentIsHarmless
  <2>1. f # n /\ owner'[f] = owner[f] /\ owner[f] \in Node
    BY <1>1 DEF Spent, IInv, Counted, TypeOK, Documents
  <2>2. Children(f)' = Children(f)
    BY <1>1 DEF Children
  <2> QED BY <2>1, <2>2, <1>1 DEF IInv, SpentIsHarmless, Counted, TypeOK
<1>7. OwnerOutlivesNode'
  BY <1>1, <1>2 DEF IInv, Counted, TypeOK, OwnerOutlivesNode
<1>8. ZombieDocument'
  <2> SUFFICES ASSUME NEW d \in live' \cap Documents, refcnt'[d] = 0
               PROVE  Children(d)' = {} /\ \E m \in pending' : owner'[m] = d
    BY DEF ZombieDocument, Documents
  <2>1. d \in live /\ refcnt[d] = 0
    BY <1>1 DEF IInv, Counted, TypeOK, Documents
  <2>2. PICK m \in pending : owner[m] = d
    BY <2>1 DEF IInv, ZombieDocument
  <2>3. m \in pending' /\ owner'[m] = d
    BY <2>2, <1>1 DEF IInv, Counted, TypeOK
  <2> QED BY <2>1, <2>3, <1>1 DEF IInv, ZombieDocument, Children
<1> QED
  BY <1>3, <1>4, <1>5, <1>6, <1>7, <1>8 DEF IInv

(* A client that can use a node can use its owner: it is live.             *)
LEMMA UsableOwner ==
  ASSUME IInv, NEW node \in Node, Usable(node), owner[node] # NULL
  PROVE  owner[node] \in live
<1>1. node \in live
  BY DEF Usable, IInv, Counted, CountsAgree
<1>2. CASE Spent(node)
  <2>1. held[owner[node]] > 0
    BY <1>2 DEF Usable, IInv, SpentIsHarmless
  <2> QED BY <2>1, <1>1 DEF IInv, Counted, TypeOK, CountsAgree, Documents
<1>3. CASE ~Spent(node)
  BY <1>1, <1>3 DEF IInv, OwnerOutlivesNode
<1> QED BY <1>2, <1>3

(* References taken and given back.                                        *)
LEMMA CountingIInv ==
  ASSUME IInv, Counted', NEW n \in Node, UNCHANGED <<live, parent, owner, pending>>,
         TakeRef(n) \/ UnrefShared(n)
  PROVE  IInv'
<1>1. /\ live' = live /\ parent' = parent /\ owner' = owner /\ pending' = pending
      /\ \A m \in Node : m # n => refcnt'[m] = refcnt[m] /\ held'[m] = held[m]
  BY DEF TakeRef, UnrefShared, IInv, Counted, TypeOK
<1>2. refcnt'[n] > 0 \/ (parent[n] # NULL /\ UnrefShared(n))
  BY DEF TakeRef, UnrefShared, IInv, Counted, TypeOK, CountsAgree
<1>3. held'[n] > 0 \/ (held[n] = 1 /\ UnrefShared(n))
  BY DEF TakeRef, UnrefShared, IInv, Counted, TypeOK, CountsAgree
<1>4. /\ \A f \in Node : Spent(f)' <=> Spent(f)
      /\ \A f \in Node : Children(f)' = Children(f)
  BY <1>1 DEF Spent, Children
<1>5. PendingIsDetached' /\ DetachedIsPending' /\ Acyclic' /\ SameOwner' /\ OwnerOutlivesNode'
  BY <1>1, <1>4
     DEF IInv, Counted, TypeOK, PendingIsDetached, DetachedIsPending, Acyclic, SameOwner,
         OwnerOutlivesNode, Documents
<1>6. DetachedIsInUse'
  BY <1>1, <1>2 DEF IInv, DetachedIsInUse, Counted, TypeOK, Documents
<1>7. SpentIsHarmless'
  <2> SUFFICES ASSUME NEW f \in Node, Spent(f), Contract = "keeps_document",
                      owner[f] = n, held[n] = 1, UnrefShared(n)
               PROVE  FALSE
    BY <1>1, <1>3, <1>4 DEF IInv, SpentIsHarmless, Counted, TypeOK, Documents, Spent
  <2> QED BY DEF UnrefShared, MayDrop, Spent
<1>8. ZombieDocument'
  <2>1. ~(n \in live \cap Documents /\ refcnt'[n] = 0)
    BY <1>2 DEF IInv, Counted, TypeOK, Documents
  <2> QED BY <2>1, <1>1, <1>4 DEF IInv, ZombieDocument, Documents
<1> QED
  BY <1>5, <1>6, <1>7, <1>8 DEF IInv

(* The root of the tree of a usable node is on the pending list of a       *)
(* document nobody references, so taking another node off that list does   *)
(* not leave the document without anyone who would free it later.          *)
LEMMA RootIsPending ==
  ASSUME IInv, NEW node \in Node, Usable(node), NEW d \in live \cap Documents,
         owner[node] = d, refcnt[d] = 0
  PROVE  \E r \in pending \cap AncestorsOrSelf(node) : owner[r] = d
<1> USE NullAssumption
<1>1. node \in live /\ node # d
  BY DEF Usable, IInv, Counted, CountsAgree, Documents
<1>2. node \notin Documents
  BY <1>1 DEF IInv, Counted, TypeOK
<1>3. \A x \in live : owner[x] = d /\ Spent(x) =>
        Contract = "disciplined" /\ Children(x) = {}
  BY DEF IInv, SpentIsHarmless, Counted, TypeOK, CountsAgree, Documents
<1> DEFINE S == {x \in AncestorsOrSelf(node) :
                   x \in live /\ x \notin Documents /\ owner[x] = d /\ ~Spent(x)}
<1>4. node \in S /\ S \in SUBSET Node
  BY <1>1, <1>2, <1>3, AncestorsClosed DEF Usable, AncestorsOrSelf
<1>5. PICK x \in S : parent[x] \notin S
  <2> HIDE DEF S
  <2> QED BY <1>4 DEF IInv, Acyclic
<1>6. parent[x] = NULL
  <2> SUFFICES ASSUME parent[x] # NULL PROVE FALSE
    OBVIOUS
  <2>1. parent[x] \in live /\ parent[x] \in Node /\ owner[parent[x]] = d
    BY <1>5 DEF IInv, Counted, TypeOK, SameOwner
  <2>2. x \in Children(parent[x])
    BY <1>4, <1>5 DEF Children
  <2>3. parent[x] # d
    BY <2>2 DEF IInv, ZombieDocument
  <2>4. parent[x] \notin Documents
    BY <2>1, <2>3 DEF IInv, Counted, TypeOK
  <2>5. ~Spent(parent[x])
    BY <2>1, <2>2, <1>3
  <2>6. parent[x] \in AncestorsOrSelf(node)
    BY <2>1, <1>5, AncestorsClosed
  <2> QED BY <2>1, <2>4, <2>5, <2>6, <1>5
<1>7. x \in pending
  BY <1>5, <1>6 DEF IInv, DetachedIsPending, Documents
<1> QED BY <1>5, <1>7

(* An insertion or replacement, seen from the lifetime of the nodes: moved *)
(* is put below node, cut loses its parent and is listed, new leaves the   *)
(* list, a reference is taken on the node returned.                        *)
Moves(node, new, moved, cut, taken) ==
  /\ Usable(node) /\ Usable(new)
  /\ moved \subseteq live /\ cut \subseteq live
  /\ taken \in cut \cup {new} /\ cut \subseteq {taken}
  /\ TakeRef(taken)
  /\ live' = live
  /\ parent' = [c \in Node |-> IF c \in moved THEN node
                              ELSE IF c \in cut THEN NULL ELSE parent[c]]
  /\ pending' = (pending \ {new}) \cup cut
  /\ owner' = [owner EXCEPT ![new] = IF Type[new] = "doctype" THEN node ELSE @]
  /\ Type[new] = "doctype" => node \in Documents
  /\ ~WrongDocument(node, new)
  /\ new \notin AncestorsOrSelf(node)
  /\ IF Type[new] = "fragment" THEN moved = Children(new) ELSE moved = {new}
  /\ Type[new] = "fragment" => MaySpend(new)
  /\ \A c \in cut : parent[c] = node /\ c # new

(* A move of permitted children below an ancestor of none of them.         *)
LEMMA MoveIInv ==
  ASSUME IInv, Counted', Contract # "any",
         NEW node \in Node, NEW new \in Node, NEW moved, NEW cut, NEW taken \in Node,
         Moves(node, new, moved, cut, taken)
  PROVE  IInv'
<1>0. /\ Usable(node) /\ Usable(new)
      /\ moved \subseteq live /\ cut \subseteq live
      /\ taken \in cut \cup {new} /\ cut \subseteq {taken}
      /\ TakeRef(taken)
      /\ live' = live
      /\ parent' = [c \in Node |-> IF c \in moved THEN node
                                  ELSE IF c \in cut THEN NULL ELSE parent[c]]
      /\ pending' = (pending \ {new}) \cup cut
      /\ owner' = [owner EXCEPT ![new] = IF Type[new] = "doctype" THEN node ELSE @]
      /\ Type[new] = "doctype" => node \in Documents
      /\ ~WrongDocument(node, new)
      /\ new \notin AncestorsOrSelf(node)
      /\ IF Type[new] = "fragment" THEN moved = Children(new) ELSE moved = {new}
      /\ Type[new] = "fragment" => MaySpend(new)
      /\ \A c \in cut : parent[c] = node /\ c # new
  BY DEF Moves
<1> USE <1>0
<1> USE NullAssumption
<1>1. /\ node \in live /\ new \in live /\ node # new
      /\ cut \cap moved = {}
      /\ held[node] > 0 /\ held[new] > 0
      /\ node \notin moved
  BY AncestorsClosed DEF Usable, IInv, Counted, TypeOK, CountsAgree, Children
<1>2. \A m \in Node : refcnt'[m] >= refcnt[m] /\ held'[m] >= held[m] /\ refcnt'[taken] > 0
  BY DEF TakeRef, IInv, Counted, TypeOK
<1>3. /\ \A c \in moved : owner'[c] = owner'[node]
      /\ \A c \in Node : c # new => owner'[c] = owner[c]
      /\ Type[new] # "doctype" => owner'[new] = owner[new] /\ owner[new] = owner[node]
      /\ owner[new] # NULL => owner'[new] = owner[new] /\ owner[new] = owner[node]
      /\ owner'[node] = owner[node]
  BY <1>1 DEF WrongDocument, IInv, Counted, TypeOK, Children, SameOwner, Documents
<1>4. \A c \in moved : parent[c] = new \/ c = new
  BY DEF Children
<1>5. PendingIsDetached'
  BY <1>1, <1>3, <1>4 DEF IInv, Counted, TypeOK, PendingIsDetached, Documents
<1>6. \A f \in Node : f # new => (Spent(f)' <=> Spent(f))
  <2> SUFFICES ASSUME NEW f \in live, f # new, Type[f] = "fragment"
               PROVE  /\ parent'[f] = NULL <=> parent[f] = NULL
                      /\ f \in pending' <=> f \in pending
    BY DEF Spent, IInv, Counted, TypeOK
  <2>1. parent[f] = NULL /\ f \in Node
    BY DEF IInv, Counted, TypeOK
  <2>2. f \notin moved /\ f \notin cut
    BY <2>1, <1>4
  <2> QED BY <2>1, <2>2
<1>7. Type[new] # "fragment" => parent'[new] = node
  OBVIOUS
<1>8. Type[new] = "fragment" => /\ Spent(new)' /\ Children(new)' = {}
                                /\ owner'[new] = owner[new]
  <2> SUFFICES ASSUME Type[new] = "fragment"
               PROVE  /\ Spent(new)' /\ Children(new)' = {}
                      /\ owner'[new] = owner[new]
    OBVIOUS
  <2>1. parent[new] = NULL
    BY <1>1 DEF IInv, Counted, TypeOK
  <2>2. new \notin cut /\ new \notin moved
    BY <2>1 DEF Children
  <2>3. \A c \in Node : parent'[c] # new
    BY <1>1 DEF Children
  <2> QED BY <2>1, <2>2, <2>3, <1>1, <1>3 DEF Spent, Children
<1>9. DetachedIsPending'
  BY <1>1, <1>3, <1>6, <1>7, <1>8
     DEF IInv, Counted, TypeOK, DetachedIsPending, Documents
<1>10. DetachedIsInUse'
  BY <1>1, <1>2 DEF IInv, Counted, TypeOK, DetachedIsInUse, CountsAgree, Documents
<1>11. Acyclic'
  <2>1. \A c \in moved : c \notin AncestorsOrSelf(node)
    BY <1>1, <1>4, AncestorsClosed
  <2>2. moved \in SUBSET Node
    BY DEF IInv, Counted, TypeOK
  <2>3. Acyclic /\ \A x \in moved : parent'[x] = node
    BY <2>2 DEF IInv
  <2>4. \A x \in Node \ moved : parent'[x] \in {parent[x], NULL}
    OBVIOUS
  <2> QED BY <2>1, <2>2, <2>3, <2>4, ReparentAcyclic
<1>12. SameOwner'
  <2> SUFFICES ASSUME NEW c \in live, parent'[c] # NULL
               PROVE  owner'[c] = owner'[parent'[c]]
    BY DEF SameOwner
  <2>1. c \in Node
    BY DEF IInv, Counted, TypeOK
  <2>2. CASE c \in moved
    BY <2>2, <1>3, <2>1
  <2>3. CASE c \notin moved
    <3>1. parent'[c] = parent[c] /\ parent[c] \in live /\ c \notin cut
      BY <2>1, <2>3 DEF IInv, Counted, TypeOK
    <3>2. owner'[c] = owner[c] /\ owner'[parent[c]] = owner[parent[c]]
      BY <2>1, <3>1, <1>3 DEF IInv, Counted, TypeOK
    <3> QED BY <3>1, <3>2 DEF IInv, SameOwner
  <2> QED BY <2>2, <2>3
<1>13. SpentIsHarmless'
  <2> SUFFICES ASSUME NEW f \in Node, Spent(f)'
               PROVE  \/ Contract = "disciplined" /\ Children(f)' = {}
                      \/ Contract = "keeps_document" /\ held'[owner'[f]] > 0
    BY DEF SpentIsHarmless
  <2>1. f \in live /\ owner[f] \in Node
    BY DEF Spent, IInv, Counted, TypeOK, Documents
  <2>2. CASE f = new
    <3>1. Type[new] = "fragment"
      BY <2>2 DEF Spent
    <3>2. Contract = "keeps_document" => held[owner[new]] > 0
      BY <3>1 DEF MaySpend
    <3>3. Contract = "disciplined" \/ Contract = "keeps_document"
      BY ContractAssumption DEF Contracts
    <3> QED BY <2>1, <2>2, <3>1, <3>2, <3>3, <1>2, <1>8 DEF IInv, Counted, TypeOK
  <2>3. CASE f # new
    <3>1. Spent(f) /\ owner'[f] = owner[f]
      BY <2>3, <1>3, <1>6
    <3>2. CASE Contract = "disciplined"
      <4>1. f # node /\ Children(f) = {}
        BY <3>1, <3>2 DEF Usable, IInv, SpentIsHarmless
      <4> QED BY <4>1, <3>2 DEF Children
    <3>3. CASE Contract # "disciplined"
      BY <2>1, <3>1, <3>3, <1>2 DEF IInv, SpentIsHarmless, Counted, TypeOK
    <3> QED BY <3>2, <3>3
  <2> QED BY <2>2, <2>3
<1>14. OwnerOutlivesNode'
  BY <1>1, <1>3, <1>6, <1>8, UsableOwner
     DEF IInv, Counted, TypeOK, OwnerOutlivesNode, Documents, Spent
<1>15. ZombieDocument'
  <2> SUFFICES ASSUME NEW d \in live \cap Documents, refcnt'[d] = 0
               PROVE  Children(d)' = {} /\ \E m \in pending' : owner'[m] = d
    BY DEF ZombieDocument, Documents
  <2>1. d \in Node /\ refcnt[d] = 0
    BY <1>2 DEF IInv, Counted, TypeOK
  <2>2. Children(d)' = {}
    BY <2>1, <1>1 DEF IInv, ZombieDocument, Counted, CountsAgree, Children
  <2>3. PICK m \in pending : owner[m] = d
    BY <2>1 DEF IInv, ZombieDocument
  <2>4. CASE m # new
    BY <2>3, <2>2, <2>4, <1>3 DEF IInv, Counted, TypeOK
  <2>5. CASE m = new
    <3>1. owner[node] = d
      BY <2>3, <2>5, <1>3, <2>1, NullAssumption
    <3>2. PICK r \in pending \cap AncestorsOrSelf(node) : owner[r] = d
      BY <3>1, <2>1, RootIsPending
    <3> QED BY <3>2, <2>2, <1>3 DEF IInv, Counted, TypeOK
  <2> QED BY <2>4, <2>5
<1> QED
  BY <1>5, <1>9, <1>10, <1>11, <1>12, <1>13, <1>14, <1>15 DEF IInv

(* Inserting a node is such a move.                                        *)
LEMMA InsertNodeIInv ==
  ASSUME IInv, Contract # "any", NEW node \in Node, NEW new \in Node,
         NEW ref \in Node \cup {NULL}, InsertNode(node, new, ref)
  PROVE  IInv'
<1>1. Counted'
  BY InsertNodeCounted DEF IInv
<1>2. new \in live
  BY DEF InsertNode, InsertArguments, Usable, IInv, Counted, CountsAgree
<1>3. Type[new] = "doctype" => node \in Documents
  BY TypeAssumption
     DEF InsertNode, InsertRefused, PermittedChild, PermittedTypes, ContentTypes, NodeType,
         Documents
<1>4. owner' = [owner EXCEPT ![new] = IF Type[new] = "doctype" THEN node ELSE @]
  BY <1>3 DEF InsertNode, Documents
<1>5. parent' = [c \in Node |-> IF c \in {new} THEN node
                               ELSE IF c \in {} THEN NULL ELSE parent[c]]
  BY DEF InsertNode, IInv, Counted, TypeOK
<1>6. Moves(node, new, {new}, {}, new)
  BY <1>2, <1>3, <1>4, <1>5
     DEF Moves, InsertNode, InsertArguments, InsertRefused, RemovePending
<1> QED BY <1>1, <1>6, MoveIInv

(* Inserting a fragment is one of all its children.                        *)
LEMMA InsertFragmentIInv ==
  ASSUME IInv, Contract # "any", NEW node \in Node, NEW new \in Node,
         NEW ref \in Node \cup {NULL}, InsertFragment(node, new, ref)
  PROVE  IInv'
<1>1. Counted'
  BY InsertFragmentCounted DEF IInv
<1>2. Children(new) \subseteq live
  BY NullAssumption DEF Children, IInv, Counted, TypeOK
<1>3. owner' = [owner EXCEPT ![new] = IF Type[new] = "doctype" THEN node ELSE @]
  BY DEF InsertFragment, IInv, Counted, TypeOK
<1>4. parent' = [c \in Node |-> IF c \in Children(new) THEN node
                               ELSE IF c \in {} THEN NULL ELSE parent[c]]
  BY DEF InsertFragment, Children
<1>5. Moves(node, new, Children(new), {}, new)
  BY <1>2, <1>3, <1>4
     DEF Moves, InsertFragment, InsertArguments, InsertRefused, RemovePending
<1> QED BY <1>1, <1>5, MoveIInv

(* Replacing is one, with a child that becomes pending.                    *)
LEMMA ReplaceChildIInv ==
  ASSUME IInv, Contract # "any", NEW node \in Node, NEW new \in Node,
         NEW old \in Node, ReplaceChild(node, new, old)
  PROVE  IInv'
<1> DEFINE moved == IF Type[new] = "fragment" THEN Children(new) ELSE {new}
<1>1. Counted'
  BY ReplaceChildCounted DEF IInv
<1>2. old \in live /\ moved \subseteq live
  BY NullAssumption
     DEF ReplaceChild, ReplaceArguments, Usable, Children, IInv, Counted, TypeOK, CountsAgree
<1>3. /\ Usable(node) /\ Usable(new) /\ TakeRef(old) /\ live' = live
      /\ new # old /\ parent[old] = node
      /\ ~WrongDocument(node, new) /\ new \notin AncestorsOrSelf(node)
      /\ Type[new] = "fragment" => MaySpend(new)
      /\ pending' = (pending \ {new}) \cup {old}
      /\ parent' = [c \in Node |-> IF c \in moved THEN node
                                  ELSE IF c \in {old} THEN NULL ELSE parent[c]]
  BY DEF ReplaceChild, ReplaceArguments, ReplaceRefused, MarkPending, RemovePending,
         WrongDocument
<1>4. Type[new] # "doctype"
  BY TypeAssumption
     DEF ReplaceChild, ReplaceRefused, PermittedChild, PermittedTypes, ContentTypes, NodeType
<1>5. owner' = [owner EXCEPT ![new] = IF Type[new] = "doctype" THEN node ELSE @]
  BY <1>4 DEF ReplaceChild, IInv, Counted, TypeOK
<1>6. IF Type[new] = "fragment" THEN moved = Children(new) ELSE moved = {new}
  OBVIOUS
<1> HIDE DEF moved
<1>7. Moves(node, new, moved, {old}, old)
  BY <1>2, <1>3, <1>4, <1>5, <1>6 DEF Moves
<1> QED BY <1>1, <1>7, MoveIInv

(* A removed child becomes pending, its tree unchanged below it.           *)
LEMMA RemoveChildIInv ==
  ASSUME IInv, NEW node \in Node, NEW old \in Node, RemoveChild(node, old)
  PROVE  IInv'
<1> USE NullAssumption
<1>1. Counted'
  BY RemoveChildCounted DEF IInv
<1>2. /\ old \in live /\ parent[old] = node /\ live' = live /\ owner' = owner
      /\ parent' = [parent EXCEPT ![old] = NULL]
      /\ pending' = pending \cup {old}
      /\ \A m \in Node : refcnt'[m] >= refcnt[m] /\ held'[m] >= held[m]
      /\ refcnt'[old] > 0
  BY DEF RemoveChild, RemoveRefused, Usable, TakeRef, MarkPending,
         IInv, Counted, TypeOK, CountsAgree
<1>3. owner[old] # NULL /\ Type[old] \notin {"document", "fragment"}
  BY <1>2 DEF IInv, Counted, TypeOK
<1>4. \A f \in Node : Spent(f)' <=> Spent(f)
  BY <1>2, <1>3 DEF Spent, IInv, Counted, TypeOK
<1>5. PendingIsDetached' /\ DetachedIsPending'
  BY <1>2, <1>3, <1>4
     DEF IInv, Counted, TypeOK, PendingIsDetached, DetachedIsPending, Documents
<1>6. DetachedIsInUse'
  <2> SUFFICES ASSUME NEW n \in live \ Documents, parent'[n] = NULL
               PROVE  refcnt'[n] > 0
    BY <1>2 DEF DetachedIsInUse, Documents
  <2>1. n \in Node /\ (n = old \/ refcnt[n] > 0)
    BY <1>2 DEF IInv, Counted, TypeOK, DetachedIsInUse
  <2>2. refcnt[n] \in Nat /\ refcnt'[n] \in Nat
    BY <2>1, <1>1 DEF IInv, Counted, TypeOK
  <2> QED BY <2>1, <2>2, <1>2
<1>7. Acyclic'
  <2>1. \A x \in Node : parent'[x] \in {parent[x], NULL}
    BY <1>2 DEF IInv, Counted, TypeOK
  <2> QED BY <2>1, CutAcyclic DEF IInv
<1>8. SameOwner' /\ OwnerOutlivesNode'
  BY <1>2, <1>4 DEF IInv, Counted, TypeOK, SameOwner, OwnerOutlivesNode
<1>9. SpentIsHarmless'
  <2> SUFFICES ASSUME NEW f \in Node, Spent(f)
               PROVE  \/ Contract = "disciplined" /\ Children(f)' = {}
                      \/ Contract = "keeps_document" /\ held'[owner[f]] > 0
    BY <1>2, <1>4 DEF SpentIsHarmless
  <2>1. owner[f] \in Node
    BY DEF Spent, IInv, Counted, TypeOK, Documents
  <2>2. CASE Contract = "disciplined"
    BY <2>2, <1>2 DEF IInv, SpentIsHarmless, Children, Counted, TypeOK
  <2>3. CASE Contract # "disciplined"
    <3>1. Contract = "keeps_document" /\ held[owner[f]] > 0
      BY <2>3 DEF IInv, SpentIsHarmless
    <3>2. held[owner[f]] \in Nat /\ held'[owner[f]] \in Nat
      BY <2>1, <1>1 DEF IInv, Counted, TypeOK
    <3> QED BY <2>1, <3>1, <3>2, <1>2
  <2> QED BY <2>2, <2>3
<1>10. ZombieDocument'
  BY <1>2 DEF IInv, ZombieDocument, Children, Counted, TypeOK, Documents
<1> QED
  BY <1>1, <1>5, <1>6, <1>7, <1>8, <1>9, <1>10 DEF IInv

(* A fragment refused because of its children: it is spent from then on.   *)
LEMMA FragmentRefusedIInv ==
  ASSUME IInv, Contract # "any", NEW node \in Node, NEW new \in Node,
         NEW ref \in Node \cup {NULL}, InsertFragmentRefused(node, new, ref)
  PROVE  IInv'
<1> USE NullAssumption
<1>1. /\ new \in live /\ Type[new] = "fragment" /\ parent[new] = NULL
      /\ UNCHANGED <<live, refcnt, held, parent, owner>>
      /\ pending' = pending \ {new}
      /\ Contract = "keeps_document" /\ held[owner[new]] > 0
  BY ContractAssumption
     DEF InsertFragmentRefused, InsertArguments, Usable, RemovePending, MaySpend, Contracts,
         IInv, Counted, TypeOK, CountsAgree
<1>2. Counted'
  BY <1>1 DEF IInv, Counted, TypeOK, CountsAgree, Documents
<1>3. \A f \in Node : Spent(f)' <=> Spent(f) \/ f = new
  BY <1>1 DEF Spent
<1>4. PendingIsDetached' /\ DetachedIsPending' /\ DetachedIsInUse' /\ Acyclic' /\ SameOwner'
  BY <1>1, <1>3
     DEF IInv, Counted, TypeOK, PendingIsDetached, DetachedIsPending, DetachedIsInUse, Acyclic,
         SameOwner, Documents
<1>5. SpentIsHarmless' /\ OwnerOutlivesNode'
  BY <1>1, <1>3
     DEF IInv, Counted, TypeOK, SpentIsHarmless, OwnerOutlivesNode, Children
<1>6. ZombieDocument'
  <2> SUFFICES ASSUME NEW d \in live \cap Documents, refcnt[d] = 0
               PROVE  Children(d) = {} /\ \E m \in pending \ {new} : owner[m] = d
    BY <1>1 DEF ZombieDocument, Documents, Children
  <2>1. owner[new] # d
    BY <1>1 DEF IInv, Counted, CountsAgree, Documents
  <2> QED BY <2>1 DEF IInv, ZombieDocument
<1> QED
  BY <1>2, <1>4, <1>5, <1>6 DEF IInv

(* Every call preserves the invariant, for a client with a contract.       *)
LEMMA StepIInv ==
  ASSUME IInv, Contract # "any", [Next]_vars
  PROVE  IInv'
<1> USE NullAssumption
<1>0. Counted'
  BY StepCounted DEF IInv
<1>1. ASSUME NEW n \in Node, CreateDocument(n)
      PROVE  IInv'
  <2>1. n \in Documents
    BY <1>1 DEF CreateDocument, Documents
  <2> QED BY <1>0, <1>1, <2>1, AllocateIInv DEF CreateDocument
<1>2. ASSUME NEW n \in Node, CreateDocumentType(n)
      PROVE  IInv'
  BY <1>0, <1>2, AllocateIInv DEF CreateDocumentType
<1>3. ASSUME NEW n \in Node, Ref(n)
      PROVE  IInv'
  BY <1>0, <1>3, CountingIInv DEF Ref
<1>4. ASSUME NEW n \in Node, UnrefShared(n)
      PROVE  IInv'
  BY <1>0, <1>4, CountingIInv DEF UnrefShared
<1>5. ASSUME NEW n \in Node, UnrefLast(n)
      PROVE  IInv'
  BY <1>5, DestroyIInv DEF UnrefLast
<1>6. ASSUME NEW doc \in Node, NEW n \in Node, CreateNode(doc, n)
      PROVE  IInv'
  <2>1. doc \in Documents /\ doc \in live /\ doc # n /\ doc # NULL
    BY <1>6 DEF CreateNode, Documents, Usable, IInv, Counted, CountsAgree
  <2>2. Allocate(n, doc, IF doc \in {n, NULL} THEN pending ELSE pending \cup {n})
    BY <1>6, <2>1 DEF CreateNode, MarkPending
  <2> QED BY <1>0, <1>6, <2>1, <2>2, AllocateIInv DEF CreateNode
<1>7. ASSUME NEW node \in Node, NEW n \in Node, CloneNode(node, n)
      PROVE  IInv'
  <2>1. node \in live /\ n \notin live
    BY <1>7 DEF CloneNode, Allocate, Usable, IInv, Counted, CountsAgree
  <2>2. owner[node] \in Documents /\ owner[node] # NULL
    BY <1>7, <2>1 DEF CloneNode, IInv, Counted, TypeOK
  <2>3. owner[node] \in live
    BY <1>7, <2>2, UsableOwner DEF CloneNode
  <2>4. Allocate(n, owner[node],
                 IF owner[node] \in {n, NULL} THEN pending ELSE pending \cup {n})
    BY <1>7, <2>1, <2>2, <2>3 DEF CloneNode, MarkPending
  <2>5. Type[n] # "document" /\ Type[n] # "doctype" /\ owner[node] # n
    BY <1>7, <2>1, <2>3 DEF CloneNode
  <2> QED BY <1>0, <2>2, <2>3, <2>4, <2>5, AllocateIInv
<1>8. ASSUME NEW node \in Node, NEW n \in Node,
             \/ Fetch(node, n)
             \/ InsertSelf(node, n)
             \/ ReplaceSelf(node, n)
      PROVE  IInv'
  <2>1. TakeRef(n) /\ UNCHANGED <<live, parent, owner, pending>>
    BY <1>8 DEF Fetch, InsertSelf, ReplaceSelf
  <2> QED BY <1>0, <2>1, CountingIInv
<1>9. ASSUME NEW node \in Node, NEW n \in Node, RemoveChild(node, n)
      PROVE  IInv'
  BY <1>9, RemoveChildIInv
<1>10. ASSUME NEW node \in Node, NEW new \in Node, NEW ref \in Node \cup {NULL},
              \/ InsertNode(node, new, ref)
              \/ InsertFragment(node, new, ref)
              \/ InsertFragmentRefused(node, new, ref)
       PROVE  IInv'
  BY <1>10, InsertNodeIInv, InsertFragmentIInv, FragmentRefusedIInv
<1>11. ASSUME NEW node \in Node, NEW new \in Node, NEW old \in Node,
              ReplaceChild(node, new, old)
       PROVE  IInv'
  BY <1>11, ReplaceChildIInv
<1>12. CASE UNCHANGED vars
  BY <1>12
     DEF vars, IInv, Counted, TypeOK, CountsAgree, PendingIsDetached, DetachedIsPending,
         DetachedIsInUse, Acyclic, SameOwner, SpentIsHarmless, OwnerOutlivesNode,
         ZombieDocument, Spent, Children, Documents
<1> QED
  BY <1>1, <1>2, <1>3, <1>4, <1>5, <1>6, <1>7, <1>8, <1>9, <1>10, <1>11, <1>12 DEF Next

-----------------------------------------------------------------------------
(* What follows for a client with a contract.                              *)

(* The invariant holds of every behaviour.                                 *)
THEOREM Invariance ==
  ASSUME Contract # "any"
  PROVE  Spec => []IInv
<1>1. Init => IInv
  BY InitIInv
<1>2. IInv /\ [Next]_vars => IInv'
  BY StepIInv
<1> QED BY <1>1, <1>2, PTL DEF Spec

(* No document is freed before a node that looks up its document there.    *)
THEOREM OwnersOutliveNodes ==
  ASSUME Contract # "any"
  PROVE  Spec => []OwnerOutlivesNode
<1>1. IInv => OwnerOutlivesNode
  BY DEF IInv
<1> QED BY <1>1, Invariance, PTL

(* The pending list holds exactly the roots of the detached trees.         *)
THEOREM PendingListExact ==
  ASSUME Contract # "any"
  PROVE  Spec => []PendingIsExact
<1>1. IInv => PendingIsExact
  BY DEF IInv, PendingIsExact
<1> QED BY <1>1, Invariance, PTL

(* A document nobody references is only kept for the nodes pending on it,  *)
(* and each node on that list is referenced.                               *)
THEOREM ZombiesAreNeeded ==
  ASSUME Contract # "any"
  PROVE  Spec => []KeptIsNeeded
<1>1. IInv => KeptIsNeeded
  BY DEF IInv, KeptIsNeeded
<1> QED BY <1>1, Invariance, PTL

(* The parent links form trees, each inside one document.                  *)
THEOREM TreesStayTrees ==
  ASSUME Contract # "any"
  PROVE  Spec => []TreesInOneDocument
<1>1. IInv => TreesInOneDocument
  BY DEF IInv, TreesInOneDocument
<1> QED BY <1>1, Invariance, PTL

(* When all references have been given back nothing is allocated.          *)
LEMMA IInvNoLeak == IInv => NoLeak
<1> SUFFICES ASSUME IInv, \A n \in Node : held[n] = 0, live # {}
             PROVE  FALSE
  BY DEF NoLeak
<1> USE NullAssumption
<1>1. \A n \in live : n \in Node /\ refcnt[n] = 0
  BY DEF IInv, Counted, TypeOK, CountsAgree
<1>2. \A n \in live \ Documents : parent[n] # NULL
  BY <1>1 DEF IInv, DetachedIsInUse
<1>3. live \cap Documents = {}
  <2> SUFFICES ASSUME NEW d \in live \cap Documents
               PROVE  FALSE
    OBVIOUS
  <2>1. PICK n \in pending : owner[n] = d
    BY <1>1 DEF IInv, ZombieDocument
  <2>2. n \in live /\ parent[n] = NULL /\ n \notin Documents
    BY <2>1 DEF IInv, PendingIsDetached, Counted, TypeOK
  <2> QED BY <2>2, <1>2
<1>4. \A n \in live : parent[n] \in live
  BY <1>2, <1>3 DEF IInv, Counted, TypeOK
<1>5. live \in SUBSET Node
  BY <1>1
<1> QED BY <1>4, <1>5 DEF IInv, Acyclic

(* The library leaks no node and no document.                              *)
THEOREM NothingLeaks ==
  ASSUME Contract # "any"
  PROVE  Spec => []NoLeak
BY IInvNoLeak, Invariance, PTL

-----------------------------------------------------------------------------
(* What a reference protects, under every contract.                        *)

(* A destruction takes whole trees down to the referenced nodes, never     *)
(* anything below a reference that stays.                                  *)
LEMMA DestroySparesHeld ==
  ASSUME Counted, NEW node \in Node, UnrefLast(node), NEW n \in live \ live',
         NEW a \in AncestorsOrSelf(n), held[a] > 0, held'[a] > 0
  PROVE  FALSE
<1> USE NullAssumption
<1>1. /\ n \in Reached(node) /\ n \in Node
      /\ held' = [held EXCEPT ![node] = 0]
      /\ parent[node] = NULL
  BY DestroyEffect DEF UnrefLast, Freed, Counted, TypeOK
<1>2. /\ Reached(node) \subseteq Node
      /\ \A x \in Reached(node) :
           \/ x = node
           \/ x \in AbandonedOwner(node)
           \/ parent[x] \in Reached(node) /\ refcnt[x] = 0
  BY ReachedFacts
<1>3. \A x \in Reached(node) : parent[x] # NULL => parent[x] \in Reached(node)
  BY <1>1, <1>2 DEF AbandonedOwner
<1>4. a \in Reached(node)
  BY <1>1, <1>2, <1>3, AncestorsLeast
<1>5. a = node \/ refcnt[a] = 0
  BY <1>2, <1>4 DEF AbandonedOwner
<1> QED BY <1>1, <1>2, <1>4, <1>5 DEF Counted, TypeOK, CountsAgree

(* A reference on a node keeps its whole subtree allocated.                *)
THEOREM ReferencesProtectSubtrees == Spec => HeldSubtreeSurvives
<1> DEFINE Spared == \A n \in live \ live' :
                       \A a \in AncestorsOrSelf(n) : ~(held[a] > 0 /\ held'[a] > 0)
<1>1. Counted /\ [Next]_vars => [Spared]_vars
  <2> SUFFICES ASSUME Counted, Next, NEW m \in live, m \notin live',
                      NEW a \in AncestorsOrSelf(m), held[a] > 0, held'[a] > 0
               PROVE  FALSE
    OBVIOUS
  <2>1. PICK node \in Node : UnrefLast(node)
    BY DEF Next, CreateDocument, CreateDocumentType, CreateNode, CloneNode, Allocate, Ref,
           UnrefShared, Fetch, InsertSelf, InsertNode, InsertFragment,
           InsertFragmentRefused, ReplaceSelf, ReplaceChild, RemoveChild
  <2> QED BY <2>1, DestroySparesHeld
<1>2. Counted /\ [Next]_vars => Counted'
  BY StepCounted
<1> QED BY InitCounted, <1>1, <1>2, PTL DEF Spec, HeldSubtreeSurvives

-----------------------------------------------------------------------------
(* What decides where a node belongs, under every contract.                *)

(* The only call that writes an owner into a node that was there before is *)
(* the insertion of a document type, and that finds it without an owner or *)
(* with the document it goes into.                                         *)
LEMMA InsertKeepsOwner ==
  ASSUME Counted, NEW node \in Node, NEW new \in Node, NEW ref \in Node \cup {NULL},
         InsertNode(node, new, ref), NEW n \in live, owner[n] # NULL
  PROVE  owner'[n] = owner[n]
<1>1. node \in live
  BY DEF InsertNode, InsertArguments, Usable, Counted, CountsAgree
<1>2. owner \in [Node -> Documents \cup {NULL}] /\ live \subseteq Node
  BY DEF Counted, TypeOK
<1>3. Type[node] = "document" => owner[node] = node
  BY <1>1 DEF Counted, TypeOK, Documents
<1>4. owner[new] = owner[node] \/ owner[new] = NULL
  BY DEF InsertNode, InsertRefused, WrongDocument
<1> QED BY <1>2, <1>3, <1>4 DEF InsertNode

(* No call gives a node that has a document to another one.                *)
THEOREM OwnersForLife == Spec => OwnerForLife
<1> DEFINE Stays == \A n \in live \cap live' : owner[n] # NULL => owner'[n] = owner[n]
<1>1. Counted /\ [Next]_vars => [Stays]_vars
  <2> SUFFICES ASSUME Counted, Next, NEW m \in live, m \in live', owner[m] # NULL
               PROVE  owner'[m] = owner[m]
    OBVIOUS
  <2>1. m \in Node /\ owner \in [Node -> Documents \cup {NULL}]
    BY DEF Counted, TypeOK
  <2>2. ASSUME NEW node \in Node, UnrefLast(node)
        PROVE  owner'[m] = owner[m]
    BY <2>1, <2>2 DEF UnrefLast, Destroy
  <2>3. ASSUME NEW n \in Node, NEW doc, NEW pend, Allocate(n, doc, pend)
        PROVE  owner'[m] = owner[m]
    BY <2>1, <2>3 DEF Allocate
  <2>4. ASSUME NEW node \in Node, NEW new \in Node, NEW ref \in Node \cup {NULL},
               InsertNode(node, new, ref)
        PROVE  owner'[m] = owner[m]
    BY <2>4, InsertKeepsOwner
  <2>5. CASE UNCHANGED owner
    BY <2>5
  <2> QED
    BY <2>2, <2>3, <2>4, <2>5
       DEF Next, CreateDocument, CreateDocumentType, CreateNode, CloneNode, Ref, UnrefShared,
           Fetch, InsertSelf, InsertFragment, InsertFragmentRefused, ReplaceSelf,
           ReplaceChild, RemoveChild
<1>2. Counted /\ [Next]_vars => Counted'
  BY StepCounted
<1> QED BY InitCounted, <1>1, <1>2, PTL DEF Spec, OwnerForLife
=============================================================================
