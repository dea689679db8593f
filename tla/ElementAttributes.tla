-------------------------- MODULE ElementAttributes --------------------------
(***************************************************************************)
(* The attributes of elements (src/core/element.c, src/core/attr.c).       *)
(*                                                                         *)
(* An element keeps its attributes on a circular list without a sentinel:  *)
(* element->attributes points at one entry, and every lookup goes round    *)
(* from there.  An entry has a name and a namespace and points at an       *)
(* attribute, which is a node: clients hold references on it, its parent   *)
(* is the element that lists it, and when it is taken off the list it is   *)
(* freed or, while referenced, pending on its document.  The classes of an *)
(* element are kept apart, split once from the value of its class          *)
(* attribute.                                                              *)
(*                                                                         *)
(* The calls tell mutation listeners what they do; here those listeners    *)
(* leave the attributes alone.  Names have no prefix, and all nodes belong *)
(* to one document.                                                        *)
(***************************************************************************)
EXTENDS Naturals, FiniteSets, SequencesExt

CONSTANTS
  Element,
  Attr,        \* attribute nodes a run may allocate
  Name,        \* their local names
  Namespace,   \* their namespaces
  Class,       \* the document's class_string
  Value,       \* texts with class names in them; NULL is the empty text
  MaxRef,      \* bound: references clients hold on one attribute
  Careful,     \* whether clients stay clear of the flaw named below
  Freed,       \* what a pointer to a freed entry points at
  NULL

(* A careful client does not replace the attribute that heads the list by  *)
(* a node: it removes the attribute first.                                 *)
ASSUME CarefulAssumption == Careful \in BOOLEAN
ASSUME BoundAssumption == MaxRef \in Nat \ {0}
ASSUME NullAssumption == NULL \notin Element \cup Value \cup {Class, Freed}

VARIABLES
  elements,    \* the elements that exist
  head,        \* element->attributes
  list,        \* the entries of each element along next, from the head
  classes,     \* the text element->classes was made from
  stale,       \* history: elements whose class attribute got a value since
               \* the classes were made
  live,        \* attributes that are allocated
  refcnt,      \* references clients hold on an attribute
  parent,      \* parent of an attribute
  value,       \* value of an attribute
  pending      \* attributes on the document's pending list

ofElements == <<elements, head, list, classes, stale>>
ofAttrs == <<live, refcnt, parent, value, pending>>
vars == <<ofElements, ofAttrs>>

Text == Value \cup {NULL}
Namespaces == {Namespace[a] : a \in Attr} \cup {NULL}
Names == {Name[a] : a \in Attr}

-----------------------------------------------------------------------------
(* Lookups.                                                                *)

Entry == [attr : Attr, namespace : Namespaces]

ASSUME EntryAssumption == NULL \notin Entry

KeyOf(entry) == <<entry.namespace, Name[entry.attr]>>

(* The place in the list of the entry with a name, 0 if there is none.     *)
Find(e, namespace, name) ==
  SelectInSeq(list[e], LAMBDA entry : KeyOf(entry) = <<namespace, name>>)

Has(e, namespace, name) == Find(e, namespace, name) > 0

IsClass(namespace, name) == namespace = NULL /\ name = Class

(* A call that starts from a freed entry may do anything: nothing is said  *)
(* about what follows.                                                     *)
Usable(e) == e \in elements /\ head[e] # Freed

-----------------------------------------------------------------------------
(* Linking and unlinking.                                                  *)

Link(e, entry) ==
  /\ head' = [head EXCEPT ![e] = IF @ = NULL THEN entry ELSE @]
  /\ list' = [list EXCEPT ![e] = Append(@, entry)]

(* Mutant: the head stays on an entry that is unlinked.                    *)
HeadWithout_Stays(e, k) == IF k = 1 THEN Freed ELSE head[e]

(* The head after the k-th entry is unlinked.                              *)
HeadWithout(e, k) ==
  IF head[e] # list[e][k] THEN head[e]
  ELSE IF Len(list[e]) = 1 THEN NULL ELSE list[e][2]

(* Mutant: the classes outlive the attribute.                              *)
ClassesWithout_Kept(e, entry) == classes[e]

(* The classes after an entry was destroyed, and after one was created.    *)
ClassesWithout(e, entry) ==
  IF IsClass(entry.namespace, Name[entry.attr]) THEN NULL ELSE classes[e]

ClassesWith(old, namespace, a, text) ==
  IF IsClass(namespace, Name[a]) THEN text ELSE old

(* Classes that were made or destroyed are not stale.                      *)
StaleWith(e, namespace, a) ==
  IF IsClass(namespace, Name[a]) THEN stale \ {e} ELSE stale

(* Mutant: an attribute in use is not put on the pending list.             *)
Released_NotPending(attrs) ==
  LET gone == {a \in attrs : refcnt'[a] = 0}
  IN  /\ live'    = live \ gone
      /\ parent'  = [a \in Attr |-> IF a \in attrs THEN NULL ELSE parent[a]]
      /\ value'   = [a \in Attr |-> IF a \in gone THEN NULL ELSE value[a]]
      /\ pending' = pending

(* Attributes whose entries are destroyed: freed, or pending while used.   *)
Released(attrs) ==
  LET gone == {a \in attrs : refcnt'[a] = 0}
  IN  /\ live'    = live \ gone
      /\ parent'  = [a \in Attr |-> IF a \in attrs THEN NULL ELSE parent[a]]
      /\ value'   = [a \in Attr |-> IF a \in gone THEN NULL ELSE value[a]]
      /\ pending' = pending \cup (attrs \ gone)

TakeRef(a) == refcnt[a] < MaxRef /\ refcnt' = [refcnt EXCEPT ![a] = @ + 1]

-----------------------------------------------------------------------------
(* Elements and attribute nodes on their own.                              *)

CreateElement(e) ==
  /\ e \notin elements
  /\ elements' = elements \cup {e}
  /\ UNCHANGED <<head, list, classes, stale, ofAttrs>>

Listed(e) == {entry.attr : entry \in ToSet(list[e])}

DestroyElement(e) ==
  /\ Usable(e)
  /\ elements' = elements \ {e}
  /\ head'     = [head EXCEPT ![e] = NULL]
  /\ list'     = [list EXCEPT ![e] = <<>>]
  /\ classes'  = [classes EXCEPT ![e] = NULL]
  /\ stale'    = stale \ {e}
  /\ UNCHANGED refcnt
  /\ Released(Listed(e))

(* Every attribute is copied; the classes are those of the original.       *)
CloneElement(e, h) ==
  /\ Usable(e)
  /\ h \notin elements
  /\ elements' = elements \cup {h}
  /\ \E copy \in Injection(Listed(e), Attr \ live) :
       LET made == {copy[a] : a \in Listed(e)}
           Original(b) == CHOOSE a \in Listed(e) : copy[a] = b
           entries == [k \in DOMAIN list[e] |->
                         [list[e][k] EXCEPT !.attr = copy[@]]]
       IN  /\ \A a \in Listed(e) : /\ Name[copy[a]] = Name[a]
                                   /\ Namespace[copy[a]] = Namespace[a]
           /\ list'   = [list EXCEPT ![h] = entries]
           /\ head'   = [head EXCEPT ![h] = IF entries = <<>> THEN NULL ELSE entries[1]]
           /\ live'   = live \cup made
           /\ parent' = [b \in Attr |-> IF b \in made THEN h ELSE parent[b]]
           /\ value'  = [b \in Attr |-> IF b \in made THEN value[Original(b)] ELSE value[b]]
  /\ classes' = [classes EXCEPT ![h] = classes[e]]
  /\ stale' = IF e \in stale THEN stale \cup {h} ELSE stale
  /\ UNCHANGED <<refcnt, pending>>

CreateAttr(a) ==
  /\ a \notin live
  /\ live'    = live \cup {a}
  /\ refcnt'  = [refcnt EXCEPT ![a] = 1]
  /\ pending' = pending \cup {a}
  /\ UNCHANGED <<ofElements, parent, value>>

UnrefAttr(a) ==
  /\ refcnt[a] > 0
  /\ refcnt' = [refcnt EXCEPT ![a] = @ - 1]
  /\ IF refcnt[a] = 1 /\ parent[a] = NULL
     THEN /\ live'    = live \ {a}
          /\ value'   = [value EXCEPT ![a] = NULL]
          /\ pending' = pending \ {a}
     ELSE UNCHANGED <<live, value, pending>>
  /\ UNCHANGED <<ofElements, parent>>

(* The element that lists a as its class attribute, if one does.           *)
ListsAsClass(a) ==
  {e \in elements : /\ Name[a] = Class
                    /\ [attr |-> a, namespace |-> NULL] \in ToSet(list[e])}

(* The classes of the element stay as they are.                            *)
SetValue(a, text) ==
  /\ value' = [value EXCEPT ![a] = text]
  /\ stale' = stale \cup ListsAsClass(a)
  /\ UNCHANGED <<elements, head, list, classes, live, refcnt, parent, pending>>

(* The value of an attribute, set on it or changed through its text nodes, *)
(* which a client may hold without holding the attribute.                  *)
ChangeValue(a, text) ==
  /\ a \in live
  /\ SetValue(a, text)

-----------------------------------------------------------------------------
(* By name.                                                                *)

GetAttributeNode(e, namespace, name) ==
  /\ Usable(e)
  /\ Has(e, namespace, name)
  /\ TakeRef(list[e][Find(e, namespace, name)].attr)
  /\ UNCHANGED <<ofElements, live, parent, value, pending>>

(* An attribute that is there gets the value.                              *)
SetAttribute(e, namespace, name, text) ==
  /\ Usable(e)
  /\ Has(e, namespace, name)
  /\ SetValue(list[e][Find(e, namespace, name)].attr, text)

(* Otherwise a node is made that only the element knows.                   *)
SetNewAttribute(e, a, text) ==
  /\ Usable(e)
  /\ a \notin live
  /\ ~Has(e, Namespace[a], Name[a])
  /\ Link(e, [attr |-> a, namespace |-> Namespace[a]])
  /\ classes' = [classes EXCEPT ![e] = ClassesWith(@, Namespace[a], a, text)]
  /\ stale'   = StaleWith(e, Namespace[a], a)
  /\ live'    = live \cup {a}
  /\ parent'  = [parent EXCEPT ![a] = e]
  /\ value'   = [value EXCEPT ![a] = text]
  /\ UNCHANGED <<elements, refcnt, pending>>

(* The k-th entry is unlinked and destroyed.                               *)
Removal(e, k) ==
  /\ head'    = [head EXCEPT ![e] = HeadWithout(e, k)]
  /\ list'    = [list EXCEPT ![e] = RemoveAt(@, k)]
  /\ classes' = [classes EXCEPT ![e] = ClassesWithout(e, list[e][k])]
  /\ stale'   = StaleWith(e, list[e][k].namespace, list[e][k].attr)
  /\ Released({list[e][k].attr})
  /\ UNCHANGED elements

RemoveAttribute(e, namespace, name) ==
  /\ Usable(e)
  /\ Has(e, namespace, name)
  /\ UNCHANGED refcnt
  /\ Removal(e, Find(e, namespace, name))

(* The map of attributes fetches the node before it removes it.            *)
RemoveNamedItem(e, namespace, name) ==
  /\ Usable(e)
  /\ Has(e, namespace, name)
  /\ TakeRef(list[e][Find(e, namespace, name)].attr)
  /\ Removal(e, Find(e, namespace, name))

-----------------------------------------------------------------------------
(* By node.                                                                *)

(* Only attributes without a namespace can be removed by node.             *)
RemoveAttributeNode(e, a) ==
  /\ Usable(e)
  /\ refcnt[a] > 0
  /\ Has(e, NULL, Name[a])
  /\ list[e][Find(e, NULL, Name[a])].attr = a
  /\ TakeRef(a)
  /\ Removal(e, Find(e, NULL, Name[a]))

(* Mutant: an attribute of another element is accepted.                    *)
InUse_Never(a, e) == FALSE

InUse(a, e) == parent[a] \notin {NULL, e}

(* An attribute this element lists already must be the one that is         *)
(* replaced: an assertion in remove_pending requires it to be pending.     *)
MayEnter(e, namespace, a) ==
  /\ Usable(e)
  /\ refcnt[a] > 0
  /\ namespace \in {NULL, Namespace[a]}
  /\ ~InUse(a, e)
  /\ parent[a] = e => LET k == Find(e, namespace, Name[a])
                      IN  k > 0 /\ list[e][k].attr = a

AddAttributeNode(e, namespace, a) ==
  /\ MayEnter(e, namespace, a)
  /\ ~Has(e, namespace, Name[a])
  /\ Link(e, [attr |-> a, namespace |-> namespace])
  /\ classes' = [classes EXCEPT ![e] = ClassesWith(@, namespace, a, value[a])]
  /\ stale'   = StaleWith(e, namespace, a)
  /\ parent'  = [parent EXCEPT ![a] = e]
  /\ pending' = pending \ {a}
  /\ UNCHANGED <<elements, live, refcnt, value>>

(* The old entry is freed without a look at the head; the new one is       *)
(* linked last.  The caller gets a reference on the old attribute.         *)
ReplaceAttributeNode(e, namespace, a) ==
  LET k   == Find(e, namespace, Name[a])
      old == list[e][k].attr
  IN  /\ MayEnter(e, namespace, a)
      /\ Has(e, namespace, Name[a])
      /\ Careful => k # 1
      /\ head'    = [head EXCEPT ![e] = IF k = 1 THEN Freed ELSE @]
      /\ list'    = [list EXCEPT ![e] = Append(RemoveAt(@, k),
                                               [attr |-> a, namespace |-> namespace])]
      /\ classes' = [classes EXCEPT ![e] = ClassesWith(@, namespace, a, value[a])]
      /\ stale'   = StaleWith(e, namespace, a)
      /\ TakeRef(old)
      /\ parent'  = [parent EXCEPT ![old] = NULL, ![a] = e]
      /\ pending' = (pending \cup {old}) \ {a}
      /\ UNCHANGED <<elements, live, value>>

-----------------------------------------------------------------------------
Init ==
  /\ elements = {}
  /\ head     = [e \in Element |-> NULL]
  /\ list     = [e \in Element |-> <<>>]
  /\ classes  = [e \in Element |-> NULL]
  /\ stale    = {}
  /\ live     = {}
  /\ refcnt   = [a \in Attr |-> 0]
  /\ parent   = [a \in Attr |-> NULL]
  /\ value    = [a \in Attr |-> NULL]
  /\ pending  = {}

Next ==
  \/ \E e \in Element : CreateElement(e) \/ DestroyElement(e)
  \/ \E e, h \in Element : CloneElement(e, h)
  \/ \E a \in Attr : \/ CreateAttr(a)
                     \/ UnrefAttr(a)
                     \/ \E text \in Text : ChangeValue(a, text)
  \/ \E e \in Element, ns \in Namespaces, name \in Names :
       \/ GetAttributeNode(e, ns, name)
       \/ \E text \in Text : SetAttribute(e, ns, name, text)
       \/ RemoveAttribute(e, ns, name)
       \/ RemoveNamedItem(e, ns, name)
  \/ \E e \in Element, a \in Attr :
       \/ \E text \in Text : SetNewAttribute(e, a, text)
       \/ RemoveAttributeNode(e, a)
       \/ \E ns \in Namespaces : \/ AddAttributeNode(e, ns, a)
                                 \/ ReplaceAttributeNode(e, ns, a)

Spec == Init /\ [][Next]_vars

-----------------------------------------------------------------------------
(* Properties.                                                             *)

TypeOK ==
  /\ elements \subseteq Element
  /\ head \in [Element -> Entry \cup {NULL, Freed}]
  /\ \A e \in Element : /\ ToSet(list[e]) \subseteq Entry
                        /\ e \notin elements => list[e] = <<>> /\ classes[e] = NULL
  /\ classes \in [Element -> Text]
  /\ stale \subseteq elements
  /\ live \subseteq Attr
  /\ pending \subseteq live
  /\ refcnt \in [Attr -> 0 .. MaxRef]
  /\ parent \in [Attr -> elements \cup {NULL}]
  /\ value \in [Attr -> Text]
  /\ \A a \in Attr \ live : refcnt[a] = 0 /\ parent[a] = NULL

(* An attribute has at most one entry, in the list of its parent: nothing  *)
(* that moves, replaces, clones or destroys leaves an entry behind.        *)
EntryIffParent ==
  \A a \in Attr, e \in Element :
    Cardinality({k \in DOMAIN list[e] : list[e][k].attr = a})
      = IF parent[a] = e THEN 1 ELSE 0

(* A name occurs once in a list, however it got there.                     *)
NamesDistinct ==
  \A e \in Element : \A j, k \in DOMAIN list[e] :
    KeyOf(list[e][j]) = KeyOf(list[e][k]) => j = k

(* An attribute outside the lists is pending, or its document would not    *)
(* wait for it, and is referenced, or it would be lost.                    *)
LooseIsPending ==
  /\ pending = {a \in live : parent[a] = NULL}
  /\ \A a \in pending : refcnt[a] > 0

(* Lookups start at an entry of the list.  (setAttributeNode "should       *)
(* replace the existing one": hc_elementreplaceexistingattribute.xml.)     *)
HeadIsListed ==
  \A e \in Element : head[e] = IF list[e] = <<>> THEN NULL ELSE list[e][1]

(* The circular lists are sound: a search that starts at the head finds    *)
(* the one entry of a name, whose attribute is the element's.              *)
ListsAreSound == TypeOK /\ EntryIffParent /\ NamesDistinct /\ HeadIsListed

ClassValue(e) ==
  IF Has(e, NULL, Class) THEN value[list[e][Find(e, NULL, Class)].attr] ELSE NULL

(* The classes are those of the class attribute the element has now, which *)
(* may be the third one it has, or a copy, unless that one got a value     *)
(* after it was linked; linking another makes them current again.  An      *)
(* element that lost its class attribute never keeps old classes.          *)
ClassesAreCurrent ==
  /\ \A e \in elements \ stale : classes[e] = ClassValue(e)
  /\ \A e \in stale : Has(e, NULL, Class)

(* The classes are made "from class attribute value", says the comment of  *)
(* _dom_element_create_classes; code that sets the value does not remake   *)
(* them, and dom_element_has_class answers from the old ones.              *)
ClassesFollowValue == \A e \in elements : classes[e] = ClassValue(e)

(* Elements map names to values; a call changes one name of one element.   *)
Keys == Namespaces \X Names
ValueOf(e) ==
  [key \in {KeyOf(entry) : entry \in ToSet(list[e])} |->
     value[list[e][Find(e, key[1], key[2])].attr]]

Maps == INSTANCE AttributeMaps WITH
          Key <- Keys, map <- [e \in elements |-> ValueOf(e)]

ImplementsMaps == Maps!Spec
=============================================================================
