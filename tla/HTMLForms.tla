------------------------------ MODULE HTMLForms ------------------------------
(***************************************************************************)
(* Form controls (src/html/html_select_element.c, html_option_element.c,   *)
(* html_input_element.c, html_text_area_element.c, html_form_element.c).   *)
(* Which option is selected is kept in the attributes of the options;      *)
(* inputs and text areas save the defaults they were made with when the    *)
(* first change comes; a control points at the form the parser gave it.    *)
(*                                                                         *)
(* Lifetimes are the subject of NodeLifetime: a form outlives the controls *)
(* that point at it.                                                       *)
(***************************************************************************)
EXTENDS Integers, FiniteSets, Collections

CONSTANTS
  Kind,      \* [Node -> tag names]
  Document,  \* the node that is the document
  Pools,     \* bounds: the nodes a behaviour uses, and what it does to them
  Contents,  \* [tag -> tags]: what clients append to an element of that tag
  Value,     \* what clients write into attributes and text
  Text       \* [Node -> Value]: the text in an option

Are(tag) == {n \in Node : Kind[n] = tag}
Option == Are("OPTION")
Input == Are("INPUT")
Area == Are("TEXTAREA")
ControlKind == {"INPUT", "TEXTAREA", "SELECT", "BUTTON"}
Control == {n \in Node : Kind[n] \in ControlKind}

ASSUME FormAssumption ==
  /\ Document \in Node /\ Kind[Document] = "#document"
  /\ \A tag \in DOMAIN Contents : "#document" \notin Contents[tag]
ASSUME PoolAssumption ==
  Pools \subseteq [nodes : SUBSET Node,
                   does : SUBSET {"select", "default", "check", "text", "move"},
                   writes : SUBSET Value]
ASSUME ValueAssumption == NULL \notin Value /\ \A o \in Option : Text[o] \in Value

VARIABLES
  tree,     \* the children and parent of each node
  pool,     \* which of the bounds this behaviour keeps to
  option,   \* the attributes and fields of options,
  input,    \*   of inputs,
  area,     \*   of text areas
  form,     \* the pointer to its form of each control
  marked,   \* the selects that have the attribute "selected" themselves
  crashed   \* a call went through a null pointer

data == <<option, input, area, form, marked>>
vars == <<tree, pool, data, crashed>>

Children(n) == tree.children[n]
ParentOf(n) == Up(tree, n)
Become(ch) == tree' = TreeOf(ch) /\ UNCHANGED <<pool, data, crashed>>
StayPut == UNCHANGED <<tree, pool, crashed>>

InsertedBefore(ch, p, c, ref) ==
  LET i == IF ref = NULL THEN Len(ch[p]) + 1
           ELSE SelectInSeq(ch[p], LAMBDA x : x = ref)
  IN  [ch EXCEPT ![p] = InsertAt(@, i, c)]
Without(ch, c) == [p \in Node |-> RemoveFirst(ch[p], c)]

-----------------------------------------------------------------------------
(* Selects: everything is asked of the collection of options.              *)

Options(t, s) == Hits(CollectionPath(t, s), Option)

(* Mutant: an option that was selected by default counts as selected.      *)
IsSelected_Default(o) == option[o].selected \/ option[o].default_selected

IsSelected(o) == option[o].selected

(* An index, -1 if no option is selected.                                  *)
SelectedIndex(s) == SelectInSeq(Options(tree, s), IsSelected) - 1

OptionValue(o) == IF option[o].value = NULL THEN Text[o] ELSE option[o].value

SelectValue(s) ==
  IF SelectedIndex(s) = -1 THEN NULL
  ELSE OptionValue(Options(tree, s)[SelectedIndex(s) + 1])

(* Whatever the collection has at that index is given the attribute of a   *)
(* selected option: for -1 that is the select.  Past the end there is      *)
(* nothing, and the call goes on with that.  No other option is            *)
(* deselected.                                                             *)
SetSelectedIndex(s, i) ==
  LET o == CollectionItem(tree, s, Option, i)
  IN  \/ /\ o \in Option
         /\ option' = [option EXCEPT ![o].selected = TRUE]
         /\ UNCHANGED <<input, area, form, marked>> /\ StayPut
      \/ /\ o = s
         /\ marked' = marked \cup {s}
         /\ UNCHANGED <<option, input, area, form>> /\ StayPut
      \/ /\ o \in {NULL, Fault}
         /\ crashed' = TRUE /\ UNCHANGED <<tree, pool, data>>

(* A walk that leaves a select without children ends in a crash.           *)
LosesItsWay(s) ==
  /\ Fails(CollectionPath(tree, s))
  /\ crashed' = TRUE /\ UNCHANGED <<tree, pool, data>>

(* The options are counted first.  The value is written into the first     *)
(* selected one.                                                           *)
SetSelectValue(s, v) ==
  /\ ~Fails(CollectionPath(tree, s)) /\ SelectedIndex(s) # -1
  /\ option' = [option EXCEPT ![Options(tree, s)[SelectedIndex(s) + 1]].value = v]
  /\ UNCHANGED <<input, area, form, marked>> /\ StayPut

(* A node that is in the tree is taken out first.                          *)
Added(s, o, before) ==
  InsertedBefore(Without(tree.children, o), s, o, before)

AddOption(s, o, before) ==
  /\ o # before /\ before \in ToSet(Children(s)) \cup {NULL}
  /\ s \notin ToSet(AtOrBelow(tree, o))
  /\ Become(Added(s, o, before))

(* Mutant: the index is one of the children.                               *)
Removed_ByChild(s, i) ==
  IF i < Len(Children(s)) THEN Without(tree.children, Children(s)[i + 1])
  ELSE tree.children

Removed(s, i) == Without(tree.children, Options(tree, s)[i + 1])

RemoveOption(s, i) ==
  /\ ~Fails(CollectionPath(tree, s))
  /\ i \in 0 .. Len(Options(tree, s)) - 1 /\ Become(Removed(s, i))

(* The place of an option among the options that are its siblings.         *)
IndexAmongSiblings(o) ==
  LET siblings == Children(ParentOf(o))
      before == SubSeq(siblings, 1, SelectInSeq(siblings, LAMBDA x : x = o) - 1)
  IN  IF ParentOf(o) = NULL THEN Fault ELSE Len(Hits(before, Option))

-----------------------------------------------------------------------------
(* Options.  An attribute set by its name is parsed; one that is set as a  *)
(* node, as the boolean properties do, is not.                             *)

Change(o, record) ==
  option' = [option EXCEPT ![o] = record] /\ UNCHANGED <<input, area, form, marked>> /\ StayPut

Parsed(r) ==
  IF r.default_selected_set THEN r
  ELSE [r EXCEPT !.default_selected = TRUE, !.default_selected_set = TRUE]

SetSelectedAttribute(o) ==
  Change(o, [Parsed(option[o]) EXCEPT !.selected = TRUE, !.named = TRUE])

SetSelected(o, b) == Change(o, [option[o] EXCEPT !.selected = b])

SetDefaultSelected(o, b) ==
  Change(o, [option[o] EXCEPT !.default_selected = b, !.default_selected_set = TRUE,
                              !.own = TRUE])

SetOptionValue(o, v) == Change(o, [option[o] EXCEPT !.value = v])

-----------------------------------------------------------------------------
(* Inputs.  first and named are histories, of the first value and of the   *)
(* first "checked" that were set by name; own says that the client set a   *)
(* default itself.                                                         *)

Alter(i, record) ==
  input' = [input EXCEPT ![i] = record] /\ UNCHANGED <<option, area, form, marked>> /\ StayPut

GetChecked(i) == IF input[i].checked_set THEN input[i].checked ELSE input[i].attribute

CheckParsed(r) ==
  IF r.default_checked_set THEN r
  ELSE [r EXCEPT !.default_checked = TRUE, !.default_checked_set = TRUE]

ValueParsed(r, v) ==
  IF r.default_value_set THEN r
  ELSE [r EXCEPT !.default_value = v, !.default_value_set = TRUE]

SetCheckedAttribute(i) ==
  Alter(i, [CheckParsed(input[i]) EXCEPT !.attribute = TRUE, !.named = TRUE])

SetChecked(i, b) == Alter(i, [input[i] EXCEPT !.attribute = b])

SetValueAttribute(i, v) ==
  Alter(i, [ValueParsed(input[i], v)
            EXCEPT !.value = v, !.first = IF @ = NULL THEN v ELSE @])

SetDefaultValue(i, v) ==
  Alter(i, [input[i] EXCEPT !.default_value = v, !.default_value_set = TRUE,
                            !.own = TRUE])

SetDefaultChecked(i, b) ==
  Alter(i, [input[i] EXCEPT !.default_checked = b, !.default_checked_set = TRUE,
                            !.own = TRUE])

(* Whatever the listeners of the event do or prevent, the input is checked *)
(* when they are done.                                                     *)
Click(i) == Alter(i, [input[i] EXCEPT !.checked = TRUE, !.checked_set = TRUE])

-----------------------------------------------------------------------------
(* Text areas.  original is a history: the text as it was before a value   *)
(* was set; plain says that the client came by the default in no other way *)
(* than by setting values.                                                 *)

Amend(a, record) ==
  area' = [area EXCEPT ![a] = record] /\ UNCHANGED <<option, input, form, marked>> /\ StayPut

(* Mutant: what is saved is the new text.                                  *)
Saved_Late(r, text) ==
  IF r.default_value_set THEN r
  ELSE [r EXCEPT !.default_value = text, !.default_value_set = TRUE]

(* The text is saved as the default if there is none.                      *)
Saved(r, text) ==
  IF r.default_value_set THEN r
  ELSE [r EXCEPT !.default_value = r.text, !.default_value_set = TRUE]

(* The client changes the text nodes.                                      *)
SetText(a, v) ==
  Amend(a, [area[a] EXCEPT !.text = v, !.original = v,
                           !.plain = @ /\ ~area[a].default_value_set])

GetAreaDefault(a) == Amend(a, Saved(area[a], area[a].text))

SetAreaDefault(a, v) ==
  Amend(a, [area[a] EXCEPT !.default_value = v, !.default_value_set = TRUE,
                           !.plain = FALSE])

(* Reading the value marks the default as saved, before it tests whether   *)
(* it is, and so never saves it.                                           *)
GetAreaValue(a) ==
  /\ ~area[a].value_set
  /\ Amend(a, [area[a] EXCEPT !.value = area[a].text, !.default_value_set = TRUE,
                              !.plain = @ /\ area[a].default_value_set])

SetAreaValue(a, v) ==
  Amend(a, [Saved(area[a], v) EXCEPT !.value = v, !.value_set = TRUE, !.text = v])

-----------------------------------------------------------------------------
(* Forms.                                                                  *)

(* The parser says which form a control belongs to.                        *)
FormAssociate(f, c) ==
  /\ form' = [form EXCEPT ![c] = f]
  /\ UNCHANGED <<option, input, area, marked>> /\ StayPut

(* Mutant: text areas are forgotten.                                       *)
IsFormControl_NoTextAreas(n, f) ==
  Kind[n] \in ControlKind \ {"TEXTAREA"} /\ form[n] = f

IsFormControl(n, f) == Kind[n] \in ControlKind /\ form[n] = f

(* The elements of a form are looked for in all of the document.           *)
Elements(f) ==
  Hits(CollectionPath(tree, Document), {n \in Node : IsFormControl(n, f)})

NearestAbove(from, tag) ==
  LET nearest[n \in Node] ==
        CASE ParentOf(n) = NULL -> NULL
          [] ParentOf(n) # NULL /\ Kind[ParentOf(n)] = tag -> ParentOf(n)
          [] OTHER -> nearest[ParentOf(n)]
  IN  nearest[from]

FormOfOption(o) ==
  LET s == NearestAbove(o, "SELECT") IN IF s = NULL THEN NULL ELSE form[s]

-----------------------------------------------------------------------------
(* Copies: every field but the children, which a deep copy has too.        *)

AreaCopy(r, deep) == [r EXCEPT !.text = IF deep THEN @ ELSE NULL,
                               !.original = IF deep \/ r.default_value_set THEN @
                                            ELSE NULL]

FormCopied(c, d) == IF c \in Control THEN [form EXCEPT ![d] = form[c]] ELSE form

(* Bound: the client goes on with the copy, and leaves the original alone. *)
Copy(c, d, deep) ==
  /\ {c, d} \subseteq pool.nodes /\ Kind[d] = Kind[c] /\ d # c
  /\ ParentOf(d) = NULL /\ Children(d) = <<>>
  /\ Kind[c] = "SELECT" => Children(c) = <<>>
  /\ option' = IF c \in Option THEN [option EXCEPT ![d] = option[c]] ELSE option
  /\ input' = IF c \in Input THEN [input EXCEPT ![d] = input[c]] ELSE input
  /\ area' = IF c \in Area THEN [area EXCEPT ![d] = AreaCopy(area[c], deep)] ELSE area
  /\ form' = FormCopied(c, d)
  /\ marked' = IF c \in marked THEN marked \cup {d} ELSE marked
  /\ pool' = [pool EXCEPT !.nodes = @ \ {c}]
  /\ UNCHANGED <<tree, crashed>>

-----------------------------------------------------------------------------
(* What clients do to the tree.                                            *)

Place(p, c) ==
  /\ Kind[p] \in DOMAIN Contents /\ Kind[c] \in Contents[Kind[p]]
  /\ ParentOf(c) = NULL /\ p \notin ToSet(AtOrBelow(tree, c))
  /\ Become(InsertedBefore(tree.children, p, c, NULL))

Detach(c) == ParentOf(c) # NULL /\ Become(Without(tree.children, c))

NewOption == [selected |-> FALSE, value |-> NULL, default_selected |-> FALSE,
              default_selected_set |-> FALSE, named |-> FALSE, own |-> FALSE]
NewInput == [attribute |-> FALSE, value |-> NULL, checked |-> FALSE,
             checked_set |-> FALSE, default_checked |-> FALSE,
             default_checked_set |-> FALSE, default_value |-> NULL,
             default_value_set |-> FALSE, named |-> FALSE, first |-> NULL, own |-> FALSE]
NewArea == [text |-> NULL, value |-> NULL, value_set |-> FALSE, default_value |-> NULL,
            default_value_set |-> FALSE, original |-> NULL, plain |-> TRUE]

Init ==
  /\ pool \in Pools
  /\ tree = TreeOf([n \in Node |-> <<>>])
  /\ option = [o \in Option |-> NewOption]
  /\ input = [i \in Input |-> NewInput]
  /\ area = [a \in Area |-> NewArea]
  /\ form = [c \in Control |-> NULL]
  /\ marked = {}
  /\ crashed = FALSE

Index == -1 .. Cardinality(Option)

SelectNext ==
  /\ "select" \in pool.does
  /\ \/ \E s \in Are("SELECT") \cap pool.nodes :
          \/ \E i \in Index : SetSelectedIndex(s, i) \/ RemoveOption(s, i)
          \/ LosesItsWay(s) \/ \E v \in pool.writes : SetSelectValue(s, v)
          \/ \E o \in Option \cap pool.nodes, before \in pool.nodes \cup {NULL} :
               AddOption(s, o, before)
     \/ \E o \in Option \cap pool.nodes :
          \/ \E b \in BOOLEAN : SetSelected(o, b)
          \/ \E v \in pool.writes : SetOptionValue(o, v)

DefaultNext ==
  /\ "default" \in pool.does
  /\ \/ \E o \in Option \cap pool.nodes :
          SetSelectedAttribute(o) \/ \E b \in BOOLEAN : SetDefaultSelected(o, b)
     \/ \E i \in Input \cap pool.nodes, v \in pool.writes :
          SetValueAttribute(i, v) \/ SetDefaultValue(i, v)

CheckNext ==
  /\ "check" \in pool.does
  /\ \E i \in Input \cap pool.nodes :
       \/ SetCheckedAttribute(i) \/ Click(i)
       \/ \E b \in BOOLEAN : SetChecked(i, b) \/ SetDefaultChecked(i, b)

TextNext ==
  /\ "text" \in pool.does
  /\ \E a \in Area \cap pool.nodes :
       \/ GetAreaDefault(a) \/ GetAreaValue(a)
       \/ \E v \in pool.writes : SetText(a, v) \/ SetAreaDefault(a, v) \/ SetAreaValue(a, v)

MoveNext ==
  /\ "move" \in pool.does
  /\ \/ \E f \in Are("FORM") \cap pool.nodes, c \in Control \cap pool.nodes :
          FormAssociate(f, c)
     \/ \E p, c \in pool.nodes : Place(p, c)
     \/ \E c \in pool.nodes : Detach(c)

Next ==
  /\ ~crashed
  /\ \/ SelectNext \/ DefaultNext \/ CheckNext \/ TextNext \/ MoveNext
     \/ \E c, d \in Node, deep \in BOOLEAN : Copy(c, d, deep)

Spec == Init /\ [][Next]_vars

-----------------------------------------------------------------------------
(* Type invariant: the children are a tree, and the saved defaults are     *)
(* empty until they are said to be set.                                    *)
TypeOK ==
  /\ \A n \in Node : Children(n) \in Seq(Node) /\ IsInjective(Children(n))
  /\ \A i \in Input : /\ input[i].default_value \in Value \cup {NULL}
                      /\ ~input[i].default_value_set => input[i].default_value = NULL
  /\ \A o \in Option : ~option[o].default_selected_set => ~option[o].default_selected
  /\ \A a \in Area : ~area[a].default_value_set => area[a].default_value = NULL
  /\ form \in [Control -> Are("FORM") \cup {NULL}]
  /\ marked \subseteq Are("SELECT")

(* The walk of the options goes astray from a select that has no children  *)
(* but a next sibling; no property below is about those.                   *)
Walkable(t, s) == t.children[s] # <<>> \/ After(t, s) = NULL

(* The index and the value of a select are those of the first option, in   *)
(* document order and at any depth, that has been selected in any way; so  *)
(* that an index of an option, once set, reads back unless an earlier one  *)
(* is selected, and setting the index -1 changes neither                   *)
(* (get_selected_index, get_value, set_selected_index).                    *)
SelectionIsFirst ==
  \A s \in {r \in Are("SELECT") : Walkable(tree, r)} :
    LET selected == {o \in Option : option[o].selected}
        order == Hits(Below(tree, s), Option)
    IN  IF Hits(order, selected) = <<>>
        THEN SelectedIndex(s) = -1 /\ SelectValue(s) = NULL
        ELSE /\ order[SelectedIndex(s) + 1] = Hits(order, selected)[1]
             /\ SelectValue(s) = OptionValue(Hits(order, selected)[1])

(* What set_selected_index selects is an option, whatever the index        *)
(* (dom_html_select_element_set_selected_index).                           *)
OnlyOptionsAreSelected == marked = {}

(* The option removed by index is the one with that index, wherever it is  *)
(* in the select, with what is below it; and one added before another      *)
(* comes, with what is below it, where that one is when the first is gone  *)
(* from its old place (remove, add).                                       *)
OptionsMoveAsAsked ==
  \A s \in {r \in Are("SELECT") : Walkable(tree, r)} :
    LET order == Hits(Below(tree, s), Option)
        Rest(o) == Hits(order, Node \ ToSet(AtOrBelow(tree, o)))
        Moving(o) == Hits(AtOrBelow(tree, o), Option)
    IN  /\ \A i \in DOMAIN order :
             LET after == TreeOf(Removed(s, i - 1))
             IN  Walkable(after, s) => Options(after, s) = Rest(order[i])
        /\ \A o \in Option \cap pool.nodes, b \in Option \cap ToSet(Children(s)) :
             o # b /\ s \notin ToSet(AtOrBelow(tree, o)) =>
               \E i \in DOMAIN Rest(o) :
                 /\ Rest(o)[i] = b
                 /\ Options(TreeOf(Added(s, o, b)), s)
                      = SubSeq(Rest(o), 1, i - 1) \o Moving(o)
                          \o SubSeq(Rest(o), i, Len(Rest(o)))

(* Where all options of a select are its children, an option's own index   *)
(* is its index in the select (dom_html_option_element_get_index).         *)
OptionKnowsIndex ==
  \A s \in {r \in Are("SELECT") : Walkable(tree, r)} :
    ToSet(Below(tree, s)) \cap Option \subseteq ToSet(Children(s)) =>
      \A i \in DOMAIN Options(tree, s) :
        IndexAmongSiblings(Options(tree, s)[i]) = i - 1

(* Options are moved, and number themselves, by the select's order.        *)
OptionsKeepOrder == OptionsMoveAsAsked /\ OptionKnowsIndex

(* Unless the client set one, the default of an input or option is what    *)
(* the attribute was first given by name, whatever is set, clicked and     *)
(* copied since (parse_attribute, copy_internal).                          *)
DefaultIsFirst ==
  /\ \A i \in Input : ~input[i].own => /\ input[i].default_value = input[i].first
                                       /\ input[i].default_checked = input[i].named
  /\ \A o \in Option : ~option[o].own => option[o].default_selected = option[o].named

(* The default of a text area is the text it had before the first value    *)
(* was set, if its value was not read before that                          *)
(* (dom_html_text_area_element_set_value).                                 *)
DefaultIsOriginal ==
  \A a \in Area : area[a].plain /\ area[a].default_value_set =>
    area[a].default_value = area[a].original

(* A text area whose default is said to be set, by no copy made, has the   *)
(* text it had or one that the client gave it                              *)
(* (dom_html_text_area_element_get_value).                                 *)
DefaultIsSaved ==
  [][pool' = pool => \A a \in Area :
       area'[a].default_value_set /\ ~area[a].default_value_set =>
         area'[a].default_value # NULL \/ area[a].text = NULL]_vars

(* What a reset gives back was saved in time: the fields are sound, and    *)
(* the defaults are those of the document.                                 *)
DefaultsAreOriginal == TypeOK /\ DefaultIsFirst /\ DefaultIsOriginal

(* A form lists the controls in the document that point at it, each once   *)
(* and in document order; the form that an option finds lists the select   *)
(* that is the innermost one around it (get_elements,                      *)
(* dom_html_option_element_get_form).                                      *)
FormListsItsControls ==
  LET inside == Below(tree, Document)
      Around(o) == {s \in Are("SELECT") : o \in ToSet(Below(tree, s))}
  IN  /\ \A f \in Are("FORM") :
           Elements(f) = Hits(inside, {c \in Control : form[c] = f})
      /\ \A o \in Option : FormOfOption(o) # NULL /\ o \in ToSet(inside) =>
           \E s \in Around(o) \cap ToSet(Elements(FormOfOption(o))) :
             \A r \in Around(o) : s \in ToSet(AtOrBelow(tree, r))
=============================================================================
