# libdom in TLA+

libdom implements the W3C DOM (Core levels 1-3, Events, HTML) in C: reference counted nodes in trees, live collections
over them, synchronous events, HTML elements, and bindings that let parsers build documents. This directory holds TLA+
models of its code (`src/`), the TLC instances that check them and theorems about them that TLAPS checks.

`tlc -config NodeLifetime.cfg MCNodeLifetime` checks an instance; `tlapm NodeLifetimeProofs.tla` checks the proofs of a
module.
`PROJECT.json` lists runs, the source lines every definition stands for, mutants, findings, hazards and theorems.

## The system

The library is single threaded and keeps no state but the heap. What makes it hard is not parallelism. It is
*lifetime* (weak links inside trees, strong references outside, a document that must outlive its nodes without being
referenced by them), *reentrancy* (mutation events call the client in the middle of an update of the tree) and *shape*
(pointer walks that must be right for every tree).

| Component | State | Operations | What makes it correct |
| --- | --- | --- | --- |
| Node lifetime: `core/node.c`, `core/document.c` | `refcnt`, `parent`, `owner`, list of nodes pending deletion | ref, unref, create, insert, replace, remove, the destruction cascade | a reference protects a subtree; a document outlives its nodes; nothing leaks |
| Sibling lists: `core/node.c` | `first_child`, `last_child`, `previous`, `next` | `attach_range`, `detach_range`, `replace` | the four pointers describe one sequence of children; implements the tree of the lifetime model |
| Elements and attributes: `core/element.c`, `attr.c`, `namednodemap.c` | circular attribute list, its head, list of classes | set and remove, by name and by node; index | one entry per name; an attribute's parent is the element that lists it; the classes are those of the class attribute |
| Character data: `core/text.c`, `characterdata.c`, `comment.c`, ... | the value | substring, insert, delete, split, whole text, normalize | text is preserved; no adjacent or empty text left |
| Document services: `core/document.c` | registry of node lists, quirks | import, adopt, getElementById | copies belong to the new document |
| Live collections: `core/nodelist.c`, `html/html_collection.c` | root, filter, reference count | length, item, named item | the same nodes in document order, none outside the root |
| Event dispatch: `core/node.c`, `events/event_target.c`, `events/event.c` | listener list per node, phase and flags of the event | add, remove, dispatch, stop, prevent default | each listener once and in order; nothing freed is used; an event can be used again |
| Mutation events: `events/dispatch.c` | none | fire insertion, removal, modification, subtree events | fire after or before the change they report, as documented |
| Strings: `core/string.c` | reference count, representation | create, intern, concatenate, slice | equal strings compare equal in every representation |
| Utilities: `utils/` | hash table | put, get, names and namespaces valid | -- |
| HTML document, forms, tables: `html/` | saved default values, selected index, cookie | insert and delete rows and cells, reset, select | indices agree with the tree |
| Other HTML elements: `html/*_element.c` | none of their own | reflect attributes | -- |
| Parser bindings: `bindings/hubbub`, `bindings/xml` | a document under construction, references per callback | create, append, reparent | every reference given back |

How they interact: everything goes through the node's two vtables. A tree operation of `node.c` calls the event code,
which calls the client; a destructor calls the document, which may destroy itself; elements keep attributes, which are
nodes, with the same lifetime rules; collections hold references on their root and, through the registry, are shared;
bindings use the public functions as any client does.

## The modules

| Module | Stands for |
| --- | --- |
| `NodeRules` | the state of nodes and what the next two share: creation, references, refused calls, the pending list |
| `NodeLifetime` | reference counts, pending list, ownership and parent links: `core/node.c`, the constructors and the destructor of `core/document.c`; children are a set |
| `NodeTree` | the same operations on the pointers `first_child`, `last_child`, `previous`, `next`; implements `NodeLifetime` |
| `ChildOrder` | what the comments promise about the order of children: a sequence per node, and what each call, with its arguments, does to it |
| `NodeTreeOrder` | `NodeTree` implements `ChildOrder`: the sequence is read along `next`, and each call is the call of the same arguments |
| `EventDispatch` | dispatching events to listeners that change the listener lists: `core/node.c`, `events/event_target.c`, `events/event.c` |
| `ElementAttributes` | the attribute lists of elements, attribute nodes and the classes: `core/element.c`, `core/attr.c` |
| `AttributeMaps` | what attributes promise: each element is a map from names to values; implemented by `ElementAttributes` |
| `Walks` | the loops that count, index and search below a root: `core/nodelist.c`, `html/html_collection.c`, `getElementById` of `core/document.c` |
| `Collections` | counting and indexing what such a walk comes by, in a tree of nodes |
| `LiveCollections` | node lists, their registry and their reference counts over a changing tree: `core/nodelist.c`, `core/document.c`, `html/html_collection.c` |
| `TextRuns` | character data, text content, split, whole text, normalisation: `core/characterdata.c`, `core/text.c`, `core/node.c`, `core/string.c` |
| `HTMLClasses` | the class of each tag and the properties of each class: `html/html_element.c` and an `html/html_*_element.c` for each |
| `HTMLElements` | elements of those classes, created, copied, changed by name, by node and by property |
| `HTMLTables` | `html/html_table_element.c` and its sections, rows and cells |
| `HTMLForms` | select, option, input, text area, form: `html/html_select_element.c` and the others |
| `HTMLDocument` | title, body, string tables and collections of an HTML document: `html/html_document.c` |
| `MCNodeLifetime`, `MCNodeTree`, `MCEventDispatch`, `MCElementAttributes`, `MCLiveCollections`, `MCTextRuns`, `MCHTMLElements`, `MCHTMLTables`, `MCHTMLForms`, `MCHTMLDocument` | instances for TLC |
| `NodeLifetimeProofs`, `NodeTreeProofs`, `EventDispatchProofs`, `ElementAttributesProofs`, `LiveCollectionsProofs`, `HTMLFormsProofs`, `HTMLDocumentProofs` | the theorems about the module of that name, each with its inductive invariant |
| `SharedLemmas` | what the proofs cite: facts about the operators on lists, about functions given by recursion, about trees, and that each walk of `Walks` meets what is below its root |

`NodeRules` is shared by `NodeLifetime` and `NodeTree`; `Walks`, by way of `Collections`, is shared by every module in
which something is found by walking a tree. Each of the modules from `LiveCollections` on keeps of the tree only the
children of each node, moved as `ChildOrder` says, and leaves lifetimes to `NodeLifetime` where they make no
difference.

Definitions named `X_Y`, preceded by a comment that starts with "Mutant", are slips someone could make in `X`.
`PROJECT.json` names the property that each of them breaks.

### NodeLifetime and the code

One action is one public call with everything it does: the library is single threaded and returns before it is called
again. (Listeners that change the tree in the middle of an operation are not modelled, see below.)

* `live` is the allocated nodes, `refcnt`, `parent` and `owner` are the fields of those names, `pending` the nodes
  linked on their owner's `pending_nodes`. `held` is not in the code: it counts the references clients were given.
* `Children(p)` is a set; `NodeTree` has the order.
* `UnrefLast` is the `dom_node_unref` that brings a node without parent to zero. `_dom_node_finalise` recurses through
  the children, which is the closure `Doomed`; the children still referenced are `Orphans`, detached and pending; a node
  that leaves the pending list of an unreferenced document takes the document along (`AbandonedOwner`), whose destructor
  empties its tree and is given up if that puts something on the list (`Surviving`).
* `InsertNode`, `InsertFragment`, `InsertFragmentRefused` and `InsertSelf` are the outcomes of `insert_before` (and
  `append_child`) that change something; `ReplaceChild`, `ReplaceSelf`, `RemoveChild` those of the other two. A call
  that is refused by its first checks changes nothing and is a stuttering step. `InsertFragmentRefused` is the error
  that comes too late: the fragment is off the pending list already.
* `CreateDocument`, `CreateDocumentType`, `CreateNode` and `CloneNode` are the constructors and the shallow copy.
* `Contract` names what the client undertakes about a fragment after an insertion. From then on the library lists it
  nowhere, so nothing it does keeps its document alive. `disciplined` clients let go of such a fragment;
  `keeps_document` clients may use it while they reference its document; `any` promises nothing, and only the
  properties proved under every contract hold for it.
* Allocations succeed. Entity references, whose subtrees are read-only, are in the model and in the proofs; no run has
  one.

### NodeTree and the code

* The five links of a node are five variables; `Links` is their value as one record, because an operation composes
  updates: `InsertNode` splices into what `Detach` left.
* `Detach` is `_dom_node_detach` (a range of one), `Splice` is `_dom_node_attach_range` and the second half of
  `_dom_node_replace`, `ReplacedByNothing` its branch for an empty replacement. A parent is written into the nodes a
  loop over the range meets (`Walk`), not into the members of a set.
* The finaliser, the test for permitted children and the test of a fragment's children follow `first_child` and `next`
  (`ChildList`). A node lost from the list would be missed, which is what `ImplementsLifetime` excludes.
* `Before` is read from the list after the new node was detached, as in the code.
* The finaliser clears the parent of a child, not its neighbours. A survivor therefore keeps `previous` and `next`; so
  does this model, and inserting the survivor again overwrites them.
* `Careful` clients stay clear of two flaws: they ask a node for its neighbours only while it has a parent (a survivor's
  may be freed, which refutes `NeighboursAreLive`), and replace by an empty fragment only children without siblings.
  Without the latter `OneListPerParent` fails.
* `NodeTreeOrder` says of the steps which call they are (`OrderOfCall`): an `InsertNode(node, new, ref)` puts `new` before
  that `ref` in the list of that `node` and nowhere else, and so for each operation. It is not enough that some node
  arrives somewhere. Steps that are no such call leave every sequence as it was.

### EventDispatch and the code

* Listeners run inside the library's loops, so here the steps are finer: `Call` runs the library up to the next call of a
  listener, `CallBack` up to a callback of the default action, `Leave` ends the visit to a node; `Return` is the return
  of the client's code. While that runs, the client's actions are possible: registering, removing, stopping,
  dispatching another event. `stack` is the C stack.
* `ring` reads the circular list of a node from `eti->listeners`. Removing any entry makes its successor the head
  (`Removed`), which rotates the list. The loop's end test compares with the head as it is by then (`Following`).
* `phase` and `at` are where a dispatch is: the STARTED callback, the listening nodes from the root down, the target, the
  listening nodes up, a callback for the default action, FINISHED. `targets` are the listening nodes still to be visited,
  found before the first call, as positions in `Path`; `Captures` takes the highest, `Bubbles` the lowest, `Onward` is
  the order of the phases. The target is among them and visited in its own phase too, so it may come up three times, as
  in the code.
* `owed` is a history of a visit: who was registered before it, should be called, still is registered and has not been
  called yet. A visit disturbed by a removal may end with someone in it (`CalledWheneverRegistered`, refuted).
* `preventDefault` is left out: its flag decides whether the callback before the last is END or PREVENTED, and the result
  `dispatchEvent` gives, and steers nothing else. The two callbacks are the one station "end".
* `Path` is the chain of parents the array of targets is computed from; what listeners do to the tree does not change
  that array. The caller is taken to hold a reference on the target.
* `Careful` listeners leave alone the registrations that are being called. Otherwise the loop reads `next` from freed
  memory (`Remaining`), where it may find the freed entry itself, as `list_del` left it, or whatever took its place. The
  run `removed_listener` is about those that are not careful.
* `DispatchUninitialised` is the early return for an event without type (or a target without document).

### ElementAttributes and the code

* An entry of an element's circular list (`dom_attr_list`) is a pair of an attribute and the namespace it was listed
  under; its name is the attribute's. `list` reads the entries along `next` from the head, `head` is
  `element->attributes` itself. The two differ in one place, the replacement of the first entry by a node, where `head`
  becomes `Freed`; a call on such an element may do anything, so none follows (`Usable`).
* `Link` and `Removal` are what the functions share: linking at the end of the list, and unlinking with the new head,
  the classes and the fate of the attribute, freed or pending (`Released`).
* An attribute is a node. `refcnt` counts clients' references, since its element holds none. Attributes a client has
  never seen (`SetNewAttribute`, clones) have no reference. All nodes share a document that outlives them; what happens
  otherwise is `NodeLifetime`'s subject.
* `MayEnter` is the checks of `set_attr_node`. An attribute already listed under another key would trip the assertion in
  `_dom_node_remove_pending`, so only the one being replaced is let in.
* `ChangeValue` stands for `dom_attr_set_value` and for a client that edits the attribute's text nodes, `SetAttribute` for
  setting one that is there. Either writes the value (`SetValue`) and leaves the element's classes as they are, so that they
  no longer are those of a listed class attribute: `stale` is the history of these elements, until a class attribute
  is linked or unlinked there. The value is a class name or empty.
* Mutation listeners leave the attributes alone, names have no prefix, allocations succeed.
* `Careful` clients do not replace the first attribute of an element by node, or `HeadIsListed` fails. They change
  values as they like.

### Walks, LiveCollections and the code

* A walk is the sequence of nodes it meets (`ListPath`, `CollectionPath`, `IdPath`), computed by the function that gives
  the next node, which has the branches of the C loop in their order. `Fault` is what reading a field of NULL leads to;
  the walks really get there from some roots, see the observations. Counting and indexing filter that sequence, with the
  test of the one and of the other, which differ for lists without a namespace (`Counted`, `Indexed`).
* `nodelists` is the registry, `key` and `refcnt` the structures on it. `ShareList` is `_dom_document_get_nodelist` when
  `_dom_nodelist_match` accepts a list, `CreateList` when it accepts none. `asked` is a history: the keys whose answer
  was that list.
* A name is a word and whether it is in upper case: what caseless lists ignore. `MaxLoad` bounds nodes in the tree plus
  lists in use, so that large trees meet few lists and small ones meet both; `MaxRefs` bounds references on one list.

### TextRuns and the code

* Offsets and counts are numbers of `Width` bits, three here for the code's 32; the code refuses those with the top bit
  set and computes `offset + count` modulo the word.
* A string is a sequence of characters, copied where the code creates one. `Nearest` are the two neighbours from which
  `get_whole_text` collects; it reaches no further, see the observations.
* The elements of the pools that write two texts may be nested, with texts beside and inside the inner one, so that text
  joined in another order reads differently.
* `Settled` frees what has neither a parent nor a reference. `Edit` crashes on a node without parent, after the change:
  it dispatches to the parent without a test. A behaviour stops there.
* `Merged` is one step of `normalize`; it gives back a reference nobody took, so the count wraps. `RefsCounted` is
  therefore stated for the pools in which nothing is normalised.

### HTMLClasses, HTMLElements and the code

* Some fifty files differ only in which properties they have and what type each converts to. Each is a record in
  `HTMLClasses`; `Specialised` is the switch of the element factory, which sends a tag to its class. `Memo` stands for
  the names a document interns for properties named otherwise than their attribute.
* An element is a map from attribute names to texts: lists and nodes are `ElementAttributes`' subject. Names are folded to
  lower case by every call except those that take an attribute node.
* Numbers are modulo `Modulus` (4 for 2^32): a signed one is written as the unsigned decimal it is cast to and read back
  by the opposite cast. What `strtoul` makes of a text that is no number is a constant.

### HTMLTables and the code

* A table has no state but the tree. `GetPart` is the search for a caption, head or foot by name, `Window` the rows
  counted in the sections before the one an index falls in.
* A call results in a tree, an error or `Fault`. A crash ends the behaviour.
* A `pool` is the set of nodes of one behaviour: five situations, each small, instead of one large tree.

### HTMLForms and the code

* `option`, `input`, `area` are the fields of these elements and the attributes they mirror. `first`, `named`,
  `original`, `plain` and `own` are histories: what the document said before the client did. `parse_attribute` is part
  of setting an attribute by name, and only by name.
* `form` is the weak pointer that the parser sets by `form_associate`; `Copy` copies it. Behaviours go on after a copy.
* `pool` bounds nodes, kinds of calls and values at once; options, checks, text areas and moves of forms are separate
  pools because no call reads the state of two of them.
* Every call on a select first counts its options, by the walk of a collection. From a select without children that has
  a next sibling the walk leaves the select and in the end reads NULL: `LosesItsWay`, after which the behaviour stops.
  `Walkable` are the other selects, which the properties are about.
* `SetSelectedIndex` takes what the collection has at that index. Of -1 the code makes 2^32 - 1, whose successor is 0,
  which is the length counted when the walk is at its root (`html_collection.c:171`): `CollectionItem` of -1 is the
  select itself. It gets the attribute of a selected option (`marked`), and the call succeeds. Past the end there is
  NULL, which is used: a crash.
* An insertion of a node below itself is refused, as in `NodeLifetime`, and a document has no parent.

### HTMLDocument and the code

* `Finalised` is `_dom_html_document_finalise`, which runs when the last reference on the document goes, whether or not
  pending nodes keep it: `tables` says whether the interned strings are still there, and the field `title` keeps the
  string it gave back. `LetGo` is what remains after a release: what is at or below a referenced node.
* `ReclaimDocument` is a client that gets the document back from one of its elements, at any time. If the finaliser has
  run, it runs again when the document is dropped again, and gives back the same title. `revived` is the history of the
  titles for which that may happen; `count` is what a string counts, `owned` what clients hold of it.
* A call that reads a string or a table that is gone ends the behaviour (`Crash`): the finaliser's second round, a getter
  or setter of the title, the look-up of a tag, a title or a body, the callback of a collection.
* `Referenced` includes the collection: it references its root, and the root's document through the root.
* The collections are got when there is a root element, as their getters assert.

## The checks

| Run | Instance | What it shows |
| --- | --- | --- |
| `lifetime` | two documents, a document type, two elements, a fragment; `keeps_document` | counts are exact; the pending lists hold the roots of detached trees; a document outlives its own nodes and goes with the last; trees stay trees inside one document; a node has one document for life; destruction spares what is referenced; nothing leaks (`TypeOK`, `CountsAgree`, `PendingIsExact`, `OwnerOutlivesNode`, `KeptIsNeeded`, `NoLeak`, `TreesInOneDocument`, `HeldSubtreeSurvives`, `OwnerForLife`) |
| `node_tree` | a document, two elements, a fragment; `keeps_document` | the links in a tree lead to live nodes; a document gets no second element past the walk over a list; `NodeTree` implements `NodeLifetime`, the destruction cascade included (`TypeOK`, `NoSecondJoins`, `ImplementsLifetime`) |
| `node_tree_ranges` | a document, three comments, a fragment; `disciplined` | the four pointers are one list per parent, read alike in both directions; every call puts its node or the children of its fragment before the reference child it was given or in the place of the old one, and the rest keeps its order (`OneListPerParent`, `ImplementsOrder`) |
| `event_dispatch` | a target and its parent, three registrations, two events, depth 2; fair | listeners run in list order; an undisturbed visit leaves none out, those registered meanwhile included; what is stopped stays stopped; a dispatch ends unless listeners go on registering for ever (`WalksAreOrderly`, `NothingSkipped`, `StopIsFinal`, `Terminates`) |
| `removed_listener` (violation) | one node; not `Careful`; fair | a listener that removes itself is called again from freed memory (`NeverAfterRemoval`) |
| `attributes` | two elements, two class attributes, one called class in a namespace, one value | each attribute is in the list of its parent, once, or pending; names are listed once; the head is right; the classes are those of the class attribute unless that got a value since it was linked, and gone with it; elements are maps (`ListsAreSound`, `LooseIsPending`, `ClassesAreCurrent`, `ImplementsMaps`) |
| `html_elements` | two elements of any class, one attribute each | a getter returns what its setter was given; a call changes what one property of one element reads (`PropertiesReadBack`, `ChangesOneProperty`) |
| `collections` | a document, three elements, a text, two lists, eight keys | walks meet what is below their root, in document order and to its end; an index has an item exactly when it is below the length; lists are shared only where they give the same, and leave the registry with their last reference (`RegistryIsSound`, `WalksMeetSubtree`) |
| `html_tables` | five pools of up to seven nodes | rows and cells come and go at the index asked for, in tables whose rows are all in sections; a row's index is its place in logical order; a part that was set is found (`IndexIsRespected`, `RowIndexIsLogical`, `PartSetIsFound`) |
| `html_forms` | eight pools | index and value of a select are those of its first selected option, whatever index was set, -1 included; options go where they are asked to; defaults are what the document said first; a form lists its controls (`SelectionIsFirst`, `OptionsKeepOrder`, `DefaultsAreOriginal`, `FormListsItsControls`) |
| `html_document` | six pools | references on titles are right in every order of releases and of taking the document back, but for the title of a document taken back after its finaliser ran, and only then something is read that is gone; a collection that is held has the strings it compares with, unless the document was taken back without them; lookups and collections are what the tree contains (`ReferencesAreSound`, `CollectionsHaveTables`, `LookupsMeetDocument`) |
| `text` | seven pools | edits stay in their range for every pair of unsigned numbers; splits lose nothing; text content of nested elements with different texts is in order; normalising leaves no two texts side by side; references are counted without it (`NodesAreSound`, `EditsLoseNothing`, `TextContentInOrder`, `NormalizeSeparates`) |

Properties that belong together are one formula with named parts (`OneListPerParent` is `WalksMeetChildren` and
`NeighboursAgree`): TLC names the formula, its trace shows the part.

Bounds. `Node` bounds what one run may allocate; freed nodes can be allocated again, so behaviours are not bounded in
length. In `lifetime` an element below another below a document, with a fragment and a second document beside them, gives
the cases of the cascade: doomed nodes with referenced and unreferenced children, a subtree that outlives its
document, a document that dies while another one's nodes are moved. `MaxRef = 2` lets a node be referenced once more than
the action at hand needs; a third reference is told apart by no guard. Three siblings in `node_tree_ranges`, two of
them in a fragment, and then the document, give a splice at the front, between two nodes and at the end, and a move
within one parent in both directions. A document type, which only `lifetime` has, is to the links a node like others.
Documents, elements and comments are symmetric: no action names one. A registration is a node, a type, a phase and a
listener; those of the instance differ in node, listener and phase, and `RemoveListener` ranges over all four. An
event is dispatched at most once, since the code never clears its `in_dispatch`, so the number of events bounds the
dispatches of a behaviour and `MaxDepth` how many are nested. In `attributes`, two attributes of one name are enough
for a replacement and for a name taken by another element, the third has the same name under a namespace, and lists of
two have a first entry, a last one and a head that moves. Four nodes below a document have all shapes of tree that the
walks tell apart: a last child of a last child, a childless node with and without siblings. `Modulus = 4` and
`Width = 3` are the smallest words with a sign bit and a carry into it. `MaxAttributes = 1` is enough because a property reads
one attribute, and copies bring more. The pools of the last four runs (`MCPools` of each) are the situations in which
their calls interact.

Deadlock is checked except in five runs whose programs may stop: in `html_tables`, `html_forms`, `html_document` and
`text` a call through a null pointer or a read of what is gone ends the behaviour, or everything may have been given
back with no node left to use, and in `html_elements` elements without properties that are at the bound have no call left
that changes them.

Fairness. `event_dispatch` checks `Terminates` under weak fairness of the library's own steps, which wait for nothing,
and of `Return`, since a listener that never returns is the client's doing; `removed_listener` uses the same
specification. The property assumes nothing else but that registrations stop at some time: two listeners that each remove
and register the other do keep a dispatch going for ever in this code. Elsewhere no liveness is claimed: every call is an
answer to a client that owes the library none.

## The proofs

Each theorem holds for every set of nodes, events, lists or names and for every bound. The assumptions on constants are
the named `ASSUME`s of the modules, which TLC evaluates in every run. Every proof has the same three parts: the
inductive invariant `IInv` (`TreeInv` for `NodeTree`) holds initially, every action preserves it, and it implies the
property.

| Module | Properties proved | For clients |
| --- | --- | --- |
| `NodeLifetimeProofs` | `TypeOK`, `CountsAgree`, `HeldSubtreeSurvives`, `OwnerForLife` | of any contract |
| `NodeLifetimeProofs` | `OwnerOutlivesNode`, `PendingIsExact`, `KeptIsNeeded`, `TreesInOneDocument`, `NoLeak` | `disciplined` or `keeps_document` |
| `NodeTreeProofs` | `TypeOK`, `OneListPerParent`, `NoSecondJoins`, `ImplementsLifetime`, `ImplementsOrder` | the same, and `Careful` |
| `EventDispatchProofs` | `WalksAreOrderly`, `NothingSkipped`, `StopIsFinal` | all |
| `EventDispatchProofs` | `NeverAfterRemoval` | `Careful` |
| `ElementAttributesProofs` | `ListsAreSound`, `LooseIsPending`, `ClassesAreCurrent`, `ImplementsMaps` | `Careful` |
| `LiveCollectionsProofs` | `RegistryIsSound`, `WalksMeetSubtree` | all |
| `HTMLFormsProofs` | `DefaultsAreOriginal`, `SelectionIsFirst`, `OptionsKeepOrder`, `FormListsItsControls` | all |
| `HTMLDocumentProofs` | `ReferencesAreSound`, `CollectionsHaveTables`, `LookupsMeetDocument` | all |

Where a theorem is about `Careful` clients or excludes the contract `any`, the code has a flaw otherwise: `NodeTree` and
`ElementAttributes` say which below their `Careful`, and the runs reach the violating states when the constant is changed.
Two properties name the flaw by a history instead and are proved of all behaviours that go through it: `ClassesAreCurrent`
by `stale`, `ReferencesAreSound` and `CollectionsHaveTables` by `revived`.

`NodeLifetime`. No part of `IInv` is inductive alone. That a document outlives its nodes needs the pending list to be
exact, since the destructor looks at nothing else; that the list is exact needs a node to have its parent's owner, or a
survivor would be listed on the wrong document; an unreferenced document needs one listed, referenced node, since only
that node's release will free it; and `SpentIsHarmless`, the contract made an invariant, excludes the one kind of node
that is on no list. `Doomed` and `AncestorsOrSelf` are least fixed points written as "in every closed set", so that the
two facts a proof needs (closed, and contained in whatever is closed) hold without induction. `NoLeak` follows from
`IInv` alone: were something live without references, all of it would have live parents, which `Acyclic` forbids.
`OwnerForLife` rests on one call, the insertion of a document type, which is let in without an owner or with the right
one.

`NodeTree`. `TreeInv` is `NodeLifetime`'s invariant, sound links, and no links left in freed nodes. `Sound` has a
half for `first_child` and `next` (the first child has no `previous`; neighbours agree; what contains the first child
and is closed under `next` contains all children) and the same half read from the other end: `Mirror` swaps the
two directions, so that each fact about placing and detaching is proved once and used twice. The third conjunct of a half
is what makes a walk meet every child without induction over the list. Links are not sound by themselves: a
destruction clears whole lists only because nothing it spares has a freed parent, which `NodeLifetime` knows. So the
steps are shown to be `NodeLifetime`'s first, from sound links, and `Life!IInv'` then gives what sound links after the
step need. This order also yields the refinement: `TreeImplementsLifetime` is an inclusion of steps, in which the
destruction cascade that follows pointers is the one that takes a set of children. The link lemmas split a splice
by what is at either side of the gap and by whether one node or a range is placed (`Placed`, `Chain`, `Gap`).

`TreeImplementsOrder` compares pointers with sequences. `Reads(l, p, s)` says that s is what one reads in the links l
from the first child of p along `next`: every child once, each followed by its neighbour. In sound links such an s is
also what `last_child` and `previous` give (`ReadsBackwards`) and what `Sequence` computes (`ChainedReads`: the least
place at which the two would differ cannot exist). Detaching a node removes its entry and leaves every other list
(`DetachReads`); placing a node or a range puts its list between two entries (`PlacedReads`, `PlacedElsewhere`);
destroying nodes empties lists or leaves them alone (`WipedReads`). `Listed`, that every node has such a list, is
inductive with `TreeInv`, and each operation is then the call of `ChildOrder` with the same arguments, or changes no
list. `ChildOrder` says
where things go by what stands there, not by pointers: the place before a child is found again in the list from which
the moved node was taken, which is why a node may be put before its own neighbour.

`EventDispatch`. `IInv` is stated dispatch by dispatch, for each one on the stack: what it has called so far is, in the
order of the list, everything that matches up to its cursor (`WalkSound`), and once it was stopped after a call it has
only its last callback left (`StopSound`). The steps of a client between two calls may change the list under every
suspended dispatch at once; the proof says what appending, removing and nesting do to one list and one dispatch.
`NothingSkipped` and `StopIsFinal` are action properties of the same invariant. That careful clients never have a
removed listener called, which refutes the violation in `removed_listener` for them, is `CarefulNeverAfterRemoval`.

`ElementAttributes`. `Fits` says that a list holds exactly the attributes whose parent the element is, each once and
each name once; `ClassText`, for elements that are not stale, that the classes are those of the entry under `class`, or
none. Together with the head they are inductive for careful clients. That a change of value makes only the one element
stale that lists the attribute under `class` is what `Fits` gives: it is in no other list. `StaleIsListed` rests on the
same invariant: who is stale still lists a class attribute, so that classes never outlive the attribute. The refinement
maps an element to `Contents`, the function from listed names to values (`Meaning`), which is well defined since no
name is listed twice; each call then sets, removes or leaves one name.

The walks (`SharedLemmas`). `Walks` has the loops as they are written: a step function (`ListAfter`, `CollectionAfter`,
`IdAfter`) with its climb, and the path that following it for long enough gives. What they are for is `Below`, document
order by recursion on the tree: a node, what is below it, its next siblings. That the two are the same list, in every
finite tree, is the theory in `SharedLemmas`. It rests on three things.

* Trees. `IsFamily` says that rows of children have no repetition, no node is in two of them, and none is its own
  descendant; `Reach`, what is at or below a set of nodes, is a least closed set as in `NodeLifetime`.
* Recursion. Library theorems on induction take the statement as an operator, which no prover here instantiates.
  Instead, `RecursionExists` shows that a function given by its values at smaller ranks exists, and `RankInduction`
  speaks of the set of nodes for which a statement holds: no node of least rank is outside it (`WFMin`, a theorem about
  sets). The ranks count what is at or below a node and its later siblings, and the nodes above it. Climbs, rows and
  paths are all obtained this way.
* Skipping. Where a node has no children the walk goes on to where its parent goes when it has no next sibling
  (`Skips`). `WalkFollowsRow` shows of any step function with this property that it goes along `Below`, and for each of
  the three loops the climb is shown to have it, with the different ends they have: `ListPathIsBelow`,
  `CollectionPathIsAtOrBelow`, `IdPathIsAtOrBelow`.

The rest of the theory is about `Hits`, what a path meets of a set, and about a tree that loses or gets a child:
`BelowWithout` says that the order below a node is then the old one without what is below the child, `BelowAround` that
the child with what is below it stands in one piece, where its next sibling was.

`LiveCollections`. A list is shared when its key matches the one asked for. `Match` is neither equality nor obviously
transitive (caseless keys, names, both names of a namespace search); the lemmas show that it is an equivalence and that
keys that match give the same walk, the same count and the same items. `IInv` then needs `NoTwins`, that no two
registered lists match, and that the registry has exactly the lists in use, once each; and `TreeTyped`, that insertions
and removals keep the children a tree, from which `WalksMeetSubtree` follows by the theory of walks. `NameAssumption`
says that the name `*` has no other case, and `NoNodeAssumption` (in `Collections`) that there are finitely many nodes
and no node stands for none.

`HTMLForms`. What is promised about defaults is said of fields that the code fills at the first change
(`default_selected_set` and the like), so the invariant says for each control what the field will be filled with as long
as it is empty, and what it holds afterwards. The other half of `IInv` is `TreeSound`: the children are a tree in which
the document has no parent, whatever is added, removed, moved or copied. `SelectionIsFirst`, `OptionsKeepOrder` and
`FormListsItsControls` are then facts about trees. The first goes from the options by index to the path they were met
on. The second says what the options would be after a removal or an addition: removing takes away what is below the
option; adding takes it away twice, from the tree before, where it was, and from the tree after, where it is, and what is
left is the same (`LosesChild`), so that it is known between which two options the moved ones stand. That the form an
option finds lists the innermost select around it needs ancestors to be linearly ordered (`NearestIsInnermost`).

`HTMLDocument`. The finaliser runs when the last reference goes, and a client may come back through an element: `IInv`
counts the title's reference next to the clients' ones across both, for every string that is not in `revived`, and says
that a document without tables that clients hold is one they took back. That nothing gone is read in other behaviours is
then a question for each call that may crash: what it reads is counted.
`NodesInv` is about nodes: the children are a tree
with the document at a root, and only nodes reached from what clients, the collection or the document hold have children
(`InUseOnly`). A release that empties what is no longer reached keeps this, since what is reached from less is closed under
children. `ReferencesAreSound` needs both, `LookupsMeetDocument` the second: what `item` 0 of a list, a collection
and a loop over children find are the first hits in document order.

Model-checked only:

* `Terminates` is liveness, which is out of the prover's reach.
* `IndexIsRespected`, `RowIndexIsLogical`, `PartSetIsFound` of `HTMLTables`. The walks they read are covered by the theory
  of walks; what is missing is the arithmetic of windows of rows over the sections of a table (`Chosen`, `RowIndex`),
  which are folds over lists of lists.
* `NodesAreSound`, `EditsLoseNothing`, `TextContentInOrder`, `NormalizeSeparates`: `TextRuns` has recursive operators
  (`TextContent`, `NormalFrom`), in whose presence nothing is proved.
* `PropertiesReadBack`, `ChangesOneProperty`: they depend on tables of names and properties (`HTMLClasses`), which TLC
  enumerates completely.

## Findings

* `removed_listener`: removing the listener that runs frees the list entry the dispatch loop stands on.

### Refuted statements

What follows is said of the code by its comments or tests, stated in the module, and refuted by TLC for what the code
does. Each has a configuration, which ends with the violation; the passing runs say what does hold.

| Statement | Module and configuration | What happens |
| --- | --- | --- |
| `NeighboursAreLive`: a sibling that a getter counts a reference on is live (`node.c:590-592`) | `MCNodeTree`, `OrphanLinks.cfg` | a destroyed node's referenced children lose their parent and keep `previous` and `next` (`node.c:254`), which point at siblings destroyed with it |
| `CalledWheneverRegistered`: a listener "is called whenever an event occurs" of its type (`test/dom2-events-interface.xml:109`) | `MCEventDispatch`, `SkippedListener.cfg` | removing a registration moves the head of the circular list (`event_target.c:129-136`), where the walk ends (`event_target.c:247`): those behind it are left out |
| `DefaultActionFollows`: the end of the event flow is followed by the default action's callback, END or PREVENTED (`document_event.h:43-53`) | `MCEventDispatch`, `StoppedAction.cfg` | a stopped event jumps to the clean-up (`node.c:2526`, `2539`, `2556`), past both callbacks |
| `ClassesFollowValue`: the class cache is "from class attribute value" (`element.c:85`) | `MCElementAttributes`, `StaleClasses.cfg` | it is made when a class attribute is linked and dropped when it is unlinked (`element.c:292`, `338`); setting the attribute again (`element.c:1669`) leaves it |
| `HeadIsListed`: "the method should replace the existing Attr node" (`hc_elementreplaceexistingattribute.xml:27-29`) | `MCElementAttributes`, `ReplacedHead.cfg` | replacing the first attribute frees its entry and leaves `element->attributes` on it (`element.c:1931`) |
| `OnlyOptionsAreSelected`: "set the ordinal index of the selected option" (`html_select_element.c:252`) | `MCHTMLForms`, `SelectMarked.cfg` | -1 becomes the index whose successor is 0 (`html_collection.c:171`): the SELECT gets the attribute `selected` (`html_select_element.c:276`), and the call succeeds |
| `DefaultIsSaved`: `default_value_set` says "whether default_value has been set" (`html_text_area_element.h:20-21`) | `MCHTMLForms`, `AreaDefault.cfg` | `get_value` sets the mark before it tests it (`html_text_area_element.c:230-231`): a value read first is never saved |
| `DestructionWaits`: a document's "destruction will have to wait until the pending nodes are destroyed" (`document.c:304-306`) | `MCHTMLDocument`, `EarlyFinaliser.cfg` | title and tables are given back (`html_document.c:194-231`) before that is known |
| `HeldStringsStay`: "strings are reference counted so destruction is performed correctly" (`string.c:32`) | `MCHTMLDocument`, `TitleTwice.cfg` | the title is given back and not cleared (`html_document.c:208-209`); a document taken back from an element and dropped gives it back again, and the client that holds it is left with a freed string |
| `NormalizeKeepsText`: "merge two adjacent text nodes into one" (`node.c:2229`) | `MCTextRuns`, `NormalizedText.cfg` | the whole text of the second is appended (`node.c:2244`), which contains the first already: "a", "b" become "aab" |
| `WholeTextIsReplaced`: "replace the text of a Text node and all logically adjacent Text nodes" (`text.c:261`) | `MCTextRuns`, `ReplacedText.cfg` | the walk removes the node itself too (`text.c:416-427`), and its data is set where it has no parent: it never succeeds |

### Observations

Met while modelling, in the models as the code has them, and stated by no property of their own.

Nodes:

* `insert_before` takes a fragment off the pending list and lists it nowhere (`node.c:780`), although "When a Node is
  not in the document tree, it must be in the pending list" (`node.c:2062`), not even when the last check of its children
  (`node.c:785-789`) refuses the call. Given children again, such a fragment does not keep its document from being freed.
  `Contract` is there for this.
* A fragment of two elements brings a second document element: its children are tested one at a time against the document
  as it was (`node.c:785-789`), against the comment at `node.c:706`.
* Replacing a child by an empty fragment "essentially just removes the old node from its parent" (`node.c:2175`), but
  corrects only the parent's ends (`node.c:2194-2203`): siblings keep pointing at the detached node. `OneListPerParent`
  fails in `NodeTreeRanges.cfg` with `Careful = FALSE`.
* `importNode` and `adoptNode` copy as `clone_node` does (`document.c:1473-1482`): the copy stays with the document of
  the original, and each imported child keeps a reference nobody gives back.

Events:

* The target is in the array of targets as well as being visited in the target phase (`node.c:2494`), so that a listener
  on the target hears the event in two phases.
* `in_dispatch`, "Whether this event is in dispatch" (`events/event.h:50`), is set at `node.c:2439` and never cleared,
  not even by the early returns: an event can be dispatched once in its life, and one refused for want of a type, never.

Attributes:

* An attribute with a namespace can be set without and then with it; it would be listed twice, but trips an assertion on
  the way (`node.c:2320`).
* `dom_attr_set_value` on an attribute outside an element reads a NULL parent (`core/element.h:205-212`).
* The index of an attribute counts from one; index 0 wraps around (`element.c:263`).
* `remove_attr_node` gives back its reference on the name and uses the name afterwards (`element.c:2108`).

Lists and collections:

* A collection whose root has no children but a next sibling walks out of its root, and in the end reads NULL
  (`html_collection.c:116-150`). `getElementById` in a childless root walks out too (`document.c:1373-1416`).
* The length of a list by namespace counts elements without a namespace that its items leave out
  (`nodelist.c:228-250`, `333-352`).
* `named_item` prefers an earlier node with that name to a later one with that id.

Character data:

* Editing data in a node without parent dispatches to NULL, after the change (`characterdata.c:151`).
* On a detached text `get_whole_text` reads NULL (`text.c:484`); elsewhere it reaches one text on each side.
* `split_text` does not insert the node it makes, and refuses an offset equal to the length.
* `normalize` gives back a reference nobody took (`node.c:1184`) and never looks inside the first child.

HTML:

* The body that was set is kept and returned without a reference; `get_body` writes nothing when there is none.
  The getters of collections assert a root element.
* `insert_row` and `delete_row` of a table call the section's function with NULL when an index falls to a head or foot
  that is not there (`html_table_element.c:785`); `set_t_head` tests for a CAPTION (`html_table_element.c:303`); a TFOOT
  before the bodies makes row indices too small.
* `set_selected_index` uses the option found without a test (`html_select_element.c:283`): it is NULL for an index past the
  end. Setting an index deselects nothing. Getting and setting the value keep references on options, and `remove` one on
  the parent.
* A click sets a check box and never clears it, and `set_checked` has no effect afterwards.
* A form looks for its controls in the whole document, by pointers that controls copy and nothing clears.

## Not modelled, and the plan

Not modelled:

* Listeners of mutation events that change the tree, or attributes, inside the operation that announces them
  (`node.c:2105`, `988`, `element.c:1733`). The loops of `attach_range` and `detach_range` run on links the listener may
  change, and the code makes no provision: a model would state no property but that memory is corrupted.
  The dispatches are left out, the restriction is stated.
* Interning of strings, which switches a string's representation in place, and UTF-8; the hash table and the validation
  of names: pure functions.
* Event objects, records with getters. User data handlers. Cookies, and the `write` calls, which are not supported.
* Failing allocations.
* The parser bindings: their callbacks make one or two of the calls modelled here each, in an order decided by external
  parsers.

What is left to do:

1. `HTMLTables`: `PartSetIsFound` first, from the theory of walks, then the windows of rows.
2. `HTMLElements`: `PropertiesReadBack` from the fact that no two properties of a class write the same attribute.
3. `TextRuns` with recursive functions in place of operators, as `Walks` has them, then its edits: that a cut stays in
   range for every width of a word.
4. `Adoption`: import, adopt and deep copies over two documents, with identifiers.
