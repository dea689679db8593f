----------------------------- MODULE HTMLDocument -----------------------------
(***************************************************************************)
(* HTML documents (src/html/html_document.c): the string tables every HTML *)
(* element works with, the title and body, the collections of images,      *)
(* applets, links, forms and anchors, and what is left of all this when    *)
(* the document is released before its elements.                           *)
(*                                                                         *)
(* NodeLifetime has the rules of destruction in full; here a node is in    *)
(* use while it is in the tree of a referenced document or at or below a   *)
(* node that clients reference, and is gone otherwise.                     *)
(***************************************************************************)
EXTENDS FiniteSets, Collections

CONSTANTS
  Kind,      \* [Node -> tag names, "#document" and "#comment"]
  Document,  \* the node that is the document
  Has,       \* [Node -> SUBSET {"href", "name"}]: the attributes of elements
  String,    \* the titles clients set
  Contents,  \* [tag -> tags]: what clients append to a node of that kind
  Pools      \* bounds: the nodes a behaviour uses, and what it does to them

Are(tag) == {n \in Node : Kind[n] = tag}

ASSUME DocumentAssumption == Are("#document") = {Document}
ASSUME PoolAssumption ==
  Pools \subseteq [nodes : SUBSET Node,
                   does : SUBSET {"release", "title", "body", "collect"}]
ASSUME StringAssumption == NULL \notin Node \cup String

VARIABLES
  tree,        \* the children and parent of each node
  pool,        \* which of the bounds this behaviour keeps to
  held,        \* the nodes that clients reference, the document apart
  kept,        \* clients reference the document
  collection,  \* the root of the collection clients hold, NULL if none
  tables,      \* the document's tables of strings are there
  title, body, \* fields of the document
  owned,       \* the references clients hold on each string,
  count,       \*   and the references it counts: a string with none is freed
  revived,     \* history: the titles, or NULL, that the document had when
               \*   clients took it back after it was finalised
  crashed      \* a call read what is gone

strings == <<title, owned, count>>
history == <<revived, crashed>>
vars == <<tree, pool, held, kept, collection, tables, body, strings, history>>

Crash ==
  /\ crashed' = TRUE
  /\ UNCHANGED <<tree, pool, held, kept, collection, tables, body, strings, revived>>

Root ==
  LET elements == Hits(tree.children[Document], Node \ Are("#comment"))
  IN  IF elements = <<>> THEN NULL ELSE elements[1]

(* Mutant: a collection does not reference its document.                   *)
Refer_Client(k, c) == k

(* A collection references its document and its root.                      *)
Refer(k, c) == k \/ c # NULL

Referenced == Refer(kept, collection)
InHand == held \cup ({collection} \ {NULL})

Reached(t, S) == UNION {ToSet(AtOrBelow(t, n)) : n \in S}

InUse == Reached(tree, InHand \cup IF Referenced THEN {Document} ELSE {})

(* What clients can call: the document and the nodes they reference.       *)
Known(n) == n \in held \/ (n = Document /\ kept)

-----------------------------------------------------------------------------
(* Nodes.                                                                  *)

Shaped(ch) == tree' = TreeOf(ch)
Quiet == UNCHANGED <<pool, kept, collection, tables, body, strings, history>>

(* The factory looks the tag of an element up in the tables.               *)
Create(n) ==
  /\ kept /\ n \in pool.nodes \ InUse
  /\ IF ~tables /\ Kind[n] # "#comment" THEN Crash
     ELSE held' = held \cup {n} /\ UNCHANGED tree /\ Quiet

Moved(p, c) ==
  [n \in Node |-> LET rest == RemoveFirst(tree.children[n], c)
                  IN  IF n = p THEN Append(rest, c) ELSE rest]

AppendChild(p, c) ==
  /\ Known(p) /\ c \in held
  /\ Kind[p] \in DOMAIN Contents /\ Kind[c] \in Contents[Kind[p]]
  /\ p \notin ToSet(AtOrBelow(tree, c))
  /\ p = Document /\ Kind[c] # "#comment" => Root = NULL
  /\ Shaped(Moved(p, c))
  /\ UNCHANGED held /\ Quiet

RemoveChild(c) ==
  /\ c \in InUse /\ Up(tree, c) # NULL
  /\ Shaped([n \in Node |-> RemoveFirst(tree.children[n], c)])
  /\ held' = held \cup {c}
  /\ Quiet

(* Getters reach every node in use from one that clients know.             *)
Hold(n) ==
  /\ kept \/ held # {}
  /\ n \in InUse \ {Document}
  /\ held' = held \cup {n}
  /\ UNCHANGED tree /\ Quiet

-----------------------------------------------------------------------------
(* References given back.                                                  *)

(* Mutant: the finaliser forgets the title.                                *)
Finalised_Title == tables' = FALSE /\ UNCHANGED <<title, owned, count>>

(* The finaliser gives back the tables and the title before it knows       *)
(* whether the document can go; the field keeps the title it gave back.    *)
(* The destruction that a last pending node brings about is that of a      *)
(* plain document, and does not come by here.                              *)
Finalised ==
  /\ tables' = FALSE
  /\ count' = [s \in String |-> IF s = title THEN count[s] - 1 ELSE count[s]]
  /\ UNCHANGED <<title, owned>>

(* What clients and collections reference from now on: h, the document if  *)
(* k, and c.  Without references the document is finalised, which detaches *)
(* its children; what nobody can reach is freed.                           *)
LetGo(h, k, c) ==
  LET stays == Refer(k, c)
      ch    == IF stays THEN tree.children ELSE [tree.children EXCEPT ![Document] = <<>>]
      use   == Reached(TreeOf(ch), h \cup ({c} \ {NULL}) \cup IF stays THEN {Document} ELSE {})
  IN  /\ held' = h /\ kept' = k /\ collection' = c
      /\ Shaped([n \in Node |-> IF n \in use THEN ch[n] ELSE <<>>])
      /\ IF Referenced /\ ~stays THEN Finalised ELSE UNCHANGED <<tables, strings>>
      /\ UNCHANGED <<pool, body, history>>

Freed(s) == s # NULL /\ count[s] = 0

(* The finaliser of a document taken back gives its title back again.      *)
GiveBack(h, k, c) ==
  IF Referenced /\ ~Refer(k, c) /\ Freed(title) THEN Crash ELSE LetGo(h, k, c)

Release(n) == n \in held /\ GiveBack(held \ {n}, kept, collection)

DropDocument == kept /\ GiveBack(held, FALSE, collection)

(* A client that holds an element gets at the document again, finalised or *)
(* not.                                                                    *)
ReclaimDocument ==
  /\ ~kept /\ held # {}
  /\ kept' = TRUE
  /\ revived' = IF Referenced THEN revived ELSE revived \cup {title}
  /\ UNCHANGED <<tree, pool, held, collection, tables, body, strings, crashed>>

-----------------------------------------------------------------------------
(* The collections of the document.  Clients do not ask a document without *)
(* an element for one, which an assertion refuses.                         *)

GetCollection ==
  /\ kept /\ collection = NULL /\ Root # NULL
  /\ collection' = Root
  /\ UNCHANGED <<tree, pool, held, kept, tables, body, strings, history>>

(* Its callback looks in the tables; what it finds is Collected, below.    *)
ReadCollection == collection # NULL /\ ~tables /\ Crash

DropCollection == collection # NULL /\ GiveBack(held, kept, NULL)

Images == Are("IMG")
Forms == Are("FORM")
Links == {n \in Are("A") \cup Are("AREA") : "href" \in Has[n]}
Anchors == {n \in Are("A") : "name" \in Has[n]}

(* The objects with applets, which a collection of the object's own finds. *)
Applets(t) == {n \in Are("OBJECT") : CollectionLength(t, n, Are("APPLET")) # 0}

Collected(t, M) == Hits(CollectionPath(t, Root), M)

-----------------------------------------------------------------------------
(* Body.                                                                   *)

FirstOf(t, tag) == ItemAt(ListPath(t, Document), Are(tag), 0)

(* Mutant: frame sets go before bodies.                                    *)
BodyFound_FrameSet(t) ==
  IF FirstOf(t, "FRAMESET") # NULL THEN FirstOf(t, "FRAMESET") ELSE FirstOf(t, "BODY")

BodyFound(t) ==
  IF Count(ListPath(t, Document), Are("BODY")) # 0 THEN FirstOf(t, "BODY")
  ELSE FirstOf(t, "FRAMESET")

(* The body is looked up unless clients set it; one they set is returned   *)
(* without a reference, as it is kept.  Nothing is written if there is no  *)
(* body.                                                                   *)
GetBody ==
  /\ kept /\ body = NULL
  /\ \/ ~tables /\ Crash
     \/ /\ tables /\ BodyFound(tree) # NULL
        /\ held' = held \cup {BodyFound(tree)}
        /\ UNCHANGED tree /\ Quiet

SetBody(n) ==
  /\ kept /\ n \in held
  /\ body' = n
  /\ UNCHANGED <<tree, pool, held, kept, collection, tables, strings, history>>

-----------------------------------------------------------------------------
(* Title.                                                                  *)

Spelt == UNCHANGED <<tree, pool, held, kept, collection, tables, body, history>>

NewString(s) ==
  /\ owned[s] = 0 /\ count[s] = 0 /\ title # s
  /\ count' = [count EXCEPT ![s] = 1] /\ owned' = [owned EXCEPT ![s] = 1]
  /\ UNCHANGED title /\ Spelt

DropString(s) ==
  /\ owned[s] > 0
  /\ \/ Freed(s) /\ Crash
     \/ /\ ~Freed(s)
        /\ count' = [count EXCEPT ![s] = @ - 1] /\ owned' = [owned EXCEPT ![s] = @ - 1]
        /\ UNCHANGED title /\ Spelt

(* Otherwise the title is the text of an element, a string of its own.     *)
TitleFound(t) == FirstOf(t, "TITLE")

(* A title that was set is returned with a reference; for any other the    *)
(* tables are needed.  Bound: two references on each string.               *)
GetTitle ==
  /\ kept
  /\ \/ (IF title = NULL THEN ~tables ELSE Freed(title)) /\ Crash
     \/ /\ title # NULL /\ ~Freed(title) /\ owned[title] < 2
        /\ count' = [count EXCEPT ![title] = @ + 1]
        /\ owned' = [owned EXCEPT ![title] = @ + 1]
        /\ UNCHANGED title /\ Spelt

(* The old title's reference is given back first, which frees it if that   *)
(* was the last, and be it the new one.                                    *)
SetTitle(s) ==
  /\ kept /\ owned[s] > 0
  /\ \/ (Freed(s) \/ Freed(title) \/ (s = title /\ count[s] = 1)) /\ Crash
     \/ /\ ~Freed(s) /\ ~Freed(title) /\ (s = title => count[s] > 1)
        /\ count' = [x \in String |-> IF x = s /\ x # title THEN count[x] + 1
                                      ELSE IF x # s /\ x = title THEN count[x] - 1
                                      ELSE count[x]]
        /\ title' = s
        /\ UNCHANGED owned /\ Spelt

-----------------------------------------------------------------------------
(* A new document, with its tables, in its client's hands.                 *)
Init ==
  /\ tree = TreeOf([n \in Node |-> <<>>])
  /\ pool \in Pools
  /\ held = {} /\ kept = TRUE /\ collection = NULL /\ tables = TRUE
  /\ title = NULL /\ body = NULL
  /\ owned = [s \in String |-> 0] /\ count = owned
  /\ revived = {} /\ crashed = FALSE

NodeNext ==
  \/ \E n \in Node : Create(n) \/ RemoveChild(n)
  \/ \E p, c \in Node : AppendChild(p, c)

ReleaseNext ==
  "release" \in pool.does
  /\ (DropDocument \/ ReclaimDocument \/ \E n \in Node : Hold(n) \/ Release(n))

LookupNext ==
  \/ "collect" \in pool.does /\ (GetCollection \/ ReadCollection \/ DropCollection)
  \/ "body" \in pool.does /\ (GetBody \/ \E n \in Are("BODY") : SetBody(n))

TitleNext ==
  "title" \in pool.does
  /\ (GetTitle \/ \E s \in String : NewString(s) \/ DropString(s) \/ SetTitle(s))

Next == ~crashed /\ (NodeNext \/ ReleaseNext \/ LookupNext \/ TitleNext)

Spec == Init /\ [][Next]_vars

-----------------------------------------------------------------------------
(* Properties.                                                             *)

(* Types; nodes are in one tree at a time, and no reference leads to one   *)
(* that is gone.                                                           *)
TypeOK ==
  /\ \A n \in Node : \A c \in ToSet(tree.children[n]) : n \in InUse /\ Up(tree, c) = n
  /\ pool \in Pools
  /\ held \subseteq InUse \ {Document}
  /\ kept \in BOOLEAN /\ tables \in BOOLEAN
  /\ collection \in InUse \cup {NULL}
  /\ body \in Node \cup {NULL} /\ title \in String \cup {NULL}
  /\ owned \in [String -> 0 .. 2] /\ count \in [String -> Nat]
  /\ revived \subseteq String \cup {NULL} /\ crashed \in BOOLEAN

(* A string counts the references clients hold and the one of a document   *)
(* whose title it is, whatever the order in which titles are set and       *)
(* elements, collections and document released and taken back.  Only a     *)
(* title that the document had when it was taken back after its finaliser  *)
(* ran is miscounted: its reference was given back, and will be again.     *)
StringsCounted ==
  \A s \in String \ revived :
    count[s] = owned[s] + IF Referenced /\ title = s THEN 1 ELSE 0

(* And nothing that is gone is read in any other behaviour than one that   *)
(* took a finalised document back.                                         *)
NothingGoneIsRead == crashed => revived # {}

(* No reference leads to what is gone, and titles are counted.             *)
ReferencesAreSound == TypeOK /\ StringsCounted /\ NothingGoneIsRead

(* As long as clients hold a collection, the tables its callback reads are *)
(* there, even if they released the document; unless they took the         *)
(* document back without its tables.                                       *)
CollectionsHaveTables == collection # NULL => tables \/ revived # {}

(* The document is not destroyed, in any part, while a node of its pending *)
(* list is there: held nodes find its tables and its title                 *)
(* (_dom_document_finalise).                                               *)
DestructionWaits ==
  held # {} => tables /\ \A s \in String : title = s => count[s] > owned[s]

(* A string is there as long as a client has a reference on it             *)
(* (dom_string_ref, _dom_html_document_finalise).                          *)
HeldStringsStay == \A s \in String : owned[s] > 0 => count[s] > 0

(* The title and body, looked up, are the first TITLE and the first BODY   *)
(* of the document in document order; the first FRAMESET is the body only  *)
(* if no BODY is there, wherever the two are.                              *)
TitleAndBodyAreFirst ==
  LET first(tag) == IF Hits(Below(tree, Document), Are(tag)) = <<>> THEN NULL
                    ELSE Hits(Below(tree, Document), Are(tag))[1]
  IN  /\ TitleFound(tree) = first("TITLE")
      /\ BodyFound(tree) = IF first("BODY") # NULL THEN first("BODY") ELSE first("FRAMESET")

(* The collections have the nodes they are named for, at or below the      *)
(* document element, in document order; APPLETs count where they are in    *)
(* OBJECTs.  An element without children has to be the last child to be    *)
(* the root of a collection: the walk leaves any other.                    *)
CollectionsMeetDocument ==
  LET walkable(n) == tree.children[n] # <<>> \/ After(tree, n) = NULL
      all == AtOrBelow(tree, Root)
      has(n) == \E c \in ToSet(Below(tree, n)) : Kind[c] = "APPLET"
  IN  Root # NULL /\ walkable(Root) =>
        /\ \A M \in {Images, Forms, Links, Anchors} :
             Collected(tree, M) = Hits(all, M)
        /\ (\A n \in Are("OBJECT") \cap ToSet(all) : walkable(n)) =>
             Collected(tree, Applets(tree)) =
               Hits(all, {n \in Are("OBJECT") : has(n)})

(* What the document looks up is what its tree has.                        *)
LookupsMeetDocument == TitleAndBodyAreFirst /\ CollectionsMeetDocument
=============================================================================
