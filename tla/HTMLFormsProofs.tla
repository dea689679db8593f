--------------------------- MODULE HTMLFormsProofs ---------------------------
(***************************************************************************)
(* Proofs about forms.  The invariant says that the children are a tree    *)
(* whose rows are lists of nodes, once each; and of every option, input    *)
(* and text area what its flags promise about the default next to them,    *)
(* including before anything was saved: what would be saved then is what   *)
(* the histories hold.  What a walk comes by follows from the tree alone,  *)
(* so that the properties of selects and forms are implied by the          *)
(* invariant.                                                              *)
(***************************************************************************)
EXTENDS HTMLForms, SharedLemmas

(* The children are a tree, and the document is no one's child.            *)
Rows == [Node -> Seq(Node)]

RowsSound(ch) ==
  ch \in Rows /\ IsFamily(ch) /\ \A n \in Node : Document \notin ToSet(ch[n])

TreeSound == RowsSound(tree.children) /\ tree = TreeOf(tree.children)

MaybeValue == Value \cup {NULL}

OptionRecord ==
  [selected : BOOLEAN, value : MaybeValue, default_selected : BOOLEAN,
   default_selected_set : BOOLEAN, named : BOOLEAN, own : BOOLEAN]

OptionSound(r) ==
  /\ r \in OptionRecord
  /\ ~r.default_selected_set => ~r.default_selected
  /\ ~r.own => /\ r.default_selected = r.named
               /\ r.default_selected_set => r.default_selected

InputRecord ==
  [attribute : BOOLEAN, value : MaybeValue, checked : BOOLEAN, checked_set : BOOLEAN,
   default_checked : BOOLEAN, default_checked_set : BOOLEAN,
   default_value : MaybeValue, default_value_set : BOOLEAN,
   named : BOOLEAN, first : MaybeValue, own : BOOLEAN]

InputSound(r) ==
  /\ r \in InputRecord
  /\ r.default_value_set <=> r.default_value # NULL
  /\ ~r.own => /\ r.default_value = r.first
               /\ r.default_checked = r.named
               /\ r.default_checked_set => r.default_checked

AreaRecord ==
  [text : MaybeValue, value : MaybeValue, value_set : BOOLEAN,
   default_value : MaybeValue, default_value_set : BOOLEAN,
   original : MaybeValue, plain : BOOLEAN]

(* As long as nothing is saved the text is the one to be saved.            *)
AreaSound(r) ==
  /\ r \in AreaRecord
  /\ ~r.default_value_set => r.default_value = NULL
  /\ r.plain => r.original = IF r.default_value_set THEN r.default_value ELSE r.text

FieldsSound ==
  /\ option \in [Option -> OptionRecord] /\ \A o \in Option : OptionSound(option[o])
  /\ input \in [Input -> InputRecord] /\ \A i \in Input : InputSound(input[i])
  /\ area \in [Area -> AreaRecord] /\ \A a \in Area : AreaSound(area[a])
  /\ form \in [Control -> Are("FORM") \cup {NULL}]
  /\ marked \subseteq Are("SELECT")

PoolTyped ==
  pool \in [nodes : SUBSET Node,
            does : SUBSET {"select", "default", "check", "text", "move"},
            writes : SUBSET Value]

IInv == TreeSound /\ FieldsSound /\ PoolTyped

LEMMA InvariantImpliesDefaults == IInv => DefaultsAreOriginal
<1> SUFFICES ASSUME IInv
             PROVE  DefaultsAreOriginal
  OBVIOUS
<1> USE DEF IInv
<1>1. \A n \in Node : Children(n) \in Seq(Node) /\ IsInjective(Children(n))
  BY DEF TreeSound, RowsSound, Rows, IsFamily, Children
<1>2. \A i \in Input : input[i].default_value \in MaybeValue
  BY DEF FieldsSound, InputSound, InputRecord
<1>3. TypeOK
  BY <1>1, <1>2 DEF TypeOK, FieldsSound, InputSound, OptionSound, AreaSound, MaybeValue
<1>4. DefaultIsFirst
  BY DEF DefaultIsFirst, FieldsSound, InputSound, OptionSound
<1>5. DefaultIsOriginal
  BY DEF DefaultIsOriginal, FieldsSound, AreaSound
<1> QED BY <1>3, <1>4, <1>5 DEF DefaultsAreOriginal

-----------------------------------------------------------------------------
(* Trees.                                                                  *)

LEMMA TreeOfChildren ==
  ASSUME NEW ch
  PROVE  TreeOf(ch).children = ch /\ TreeOf(ch) = TreeOf(TreeOf(ch).children)
BY DEF TreeOf, Tree

LEMMA RowsMakeTree ==
  ASSUME NEW ch, RowsSound(ch)
  PROVE  /\ IsTree(TreeOf(ch)) /\ Nodes(TreeOf(ch)) = Node /\ TreeOf(ch).children = ch
         /\ TreeOf(ch).null = NULL /\ TreeOf(ch).fault = Fault
<1>1. IsFamily(ch) /\ DOMAIN ch = Node
  BY DEF RowsSound, Rows
<1> QED BY <1>1, NoNodeAssumption, FamilyIsTree DEF TreeOf, Nodes

LEMMA TreeIsTree ==
  ASSUME TreeSound
  PROVE  /\ IsTree(tree) /\ Nodes(tree) = Node /\ tree.null = NULL /\ tree.fault = Fault
         /\ tree.children \in Rows
<1> DEFINE ch == tree.children
<1>1. RowsSound(ch) /\ tree = TreeOf(ch)
  BY DEF TreeSound
<1> HIDE DEF ch
<1>2. ch \in Rows
  BY <1>1 DEF RowsSound
<1> QED BY <1>1, <1>2, RowsMakeTree DEF ch

LEMMA WithoutRows ==
  ASSUME NEW ch \in Rows, \A n \in Node : IsInjective(ch[n]), NEW c
  PROVE  /\ Without(ch, c) \in Rows
         /\ \A n \in Node : /\ IsInjective(Without(ch, c)[n])
                            /\ c \notin ToSet(Without(ch, c)[n])
                            /\ ToSet(Without(ch, c)[n]) \subseteq ToSet(ch[n])
                            /\ ToSet(ch[n]) \subseteq ToSet(Without(ch, c)[n]) \cup {c}
<1>1. ASSUME NEW n \in Node
      PROVE  /\ Without(ch, c)[n] \in Seq(Node)
             /\ ToSet(Without(ch, c)[n]) \subseteq ToSet(ch[n])
             /\ ToSet(ch[n]) \subseteq ToSet(Without(ch, c)[n]) \cup {c}
             /\ IsInjective(Without(ch, c)[n])
             /\ c \notin ToSet(Without(ch, c)[n])
  <2> DEFINE row == ch[n]
  <2>1. row \in Seq(Node) /\ IsInjective(row) /\ Without(ch, c)[n] = RemoveFirst(row, c)
    BY DEF Rows, Without
  <2> HIDE DEF row
  <2>2. /\ RemoveFirst(row, c) \in Seq(Node)
        /\ ToSet(RemoveFirst(row, c)) \subseteq ToSet(row)
        /\ ToSet(row) \subseteq ToSet(RemoveFirst(row, c)) \cup {c}
        /\ IsInjective(RemoveFirst(row, c))
        /\ c \notin ToSet(RemoveFirst(row, c))
    BY <2>1, RemoveFirstProperties
  <2> QED BY <2>1, <2>2 DEF row
<1> DEFINE W == Without(ch, c)
<1>2. W = [n \in Node |-> W[n]]
  BY DEF Without
<1> HIDE DEF W
<1>3. W \in Rows
  BY <1>1, <1>2 DEF W, Rows
<1> QED BY <1>1, <1>3 DEF W

LEMMA WithoutSound ==
  ASSUME NEW ch, RowsSound(ch), NEW c
  PROVE  RowsSound(Without(ch, c))
<1> DEFINE W == Without(ch, c)
<1>1. /\ ch \in [Node -> Seq(Node)] /\ DOMAIN ch = Node
      /\ \A n \in Node : IsInjective(ch[n]) /\ Document \notin ToSet(ch[n])
  BY DEF RowsSound, Rows, IsFamily
<1>2. /\ W \in [Node -> Seq(Node)]
      /\ \A n \in Node : IsInjective(W[n]) /\ ToSet(W[n]) \subseteq ToSet(ch[n])
  BY <1>1, WithoutRows DEF Rows
<1> HIDE DEF W
<1>3. IsFamily(W)
  BY <1>1, <1>2, ShrunkFamily DEF RowsSound
<1>4. \A n \in Node : Document \notin ToSet(W[n])
  BY <1>1, <1>2
<1> QED BY <1>2, <1>3, <1>4 DEF RowsSound, Rows, W

(* new is ch with c among the children of p, before ref if there is one.   *)
PutBefore(new, ch, p, c, ref) ==
  /\ new \in Rows
  /\ \A n \in Node : n # p => new[n] = ch[n]
  /\ IsInjective(new[p]) /\ ToSet(new[p]) = ToSet(ch[p]) \cup {c}
  /\ \E i \in 1 .. Len(ch[p]) + 1 : /\ new[p] = InsertAt(ch[p], i, c)
                                    /\ ref # NULL => i <= Len(ch[p]) /\ ch[p][i] = ref

LEMMA InsertedRows ==
  ASSUME NEW ch \in Rows, NEW p \in Node, NEW c \in Node, IsInjective(ch[p]),
         c \notin ToSet(ch[p]), NEW ref, ref = NULL \/ ref \in ToSet(ch[p])
  PROVE  PutBefore(InsertedBefore(ch, p, c, ref), ch, p, c, ref)
<1> DEFINE row == ch[p]
           I == {j \in 1 .. Len(row) : row[j] = ref}
           i == IF ref = NULL THEN Len(row) + 1 ELSE SelectInSeq(row, LAMBDA x : x = ref)
           new == InsertAt(row, i, c)
           n == InsertedBefore(ch, p, c, ref)
<1>1. n = [ch EXCEPT ![p] = new]
  BY DEF InsertedBefore
<1>2. row \in Seq(Node) /\ IsInjective(row) /\ Len(row) \in Nat
  BY DEF Rows
<1>3. i \in 1 .. Len(row) + 1 /\ (ref # NULL => i <= Len(row) /\ row[i] = ref)
  <2>1. CASE ref = NULL
    BY <2>1, <1>2
  <2>2. CASE ref # NULL
    <3>1. I \in SUBSET Nat /\ I # {}
      BY <2>2, <1>2 DEF ToSet
    <3>2. i = Min(I)
      BY <2>2, <3>1 DEF SelectInSeq
    <3>3. Min(I) \in I
      <4> HIDE DEF I
      <4> QED BY <3>1, MinIsLeast
    <3>4. i \in 1 .. Len(row) /\ row[i] = ref
      BY <3>2, <3>3
    <3> HIDE DEF i, row
    <3> QED BY <3>4, <1>2
  <2> QED BY <2>1, <2>2
<1>4. c \notin ToSet(row)
  OBVIOUS
<1> HIDE DEF i, row
<1>5. new \in Seq(Node) /\ ToSet(new) = ToSet(row) \cup {c} /\ IsInjective(new)
  BY <1>2, <1>3, <1>4, InsertAtProperties
<1>6. new = InsertAt(row, i, c)
  OBVIOUS
<1> HIDE DEF new, n
<1>7. n \in Rows /\ n[p] = new /\ \A q \in Node : q # p => n[q] = ch[q]
  BY <1>1, <1>5 DEF Rows
<1> QED BY <1>3, <1>5, <1>6, <1>7 DEF n, row, PutBefore

(* A node is put among the children of another that is not below it.       *)
LEMMA InsertedSound ==
  ASSUME NEW ch, RowsSound(ch), NEW p \in Node, NEW c \in Node, c # Document,
         p \notin Reach(ch, {c}), NEW rest \in Rows,
         \A n \in Node : /\ IsInjective(rest[n])
                         /\ ToSet(rest[n]) \subseteq ToSet(ch[n]) \ {c},
         NEW ref, ref = NULL \/ ref \in ToSet(rest[p])
  PROVE  RowsSound(InsertedBefore(rest, p, c, ref))
<1> DEFINE new == InsertedBefore(rest, p, c, ref)
<1>0. IsInjective(rest[p]) /\ c \notin ToSet(rest[p])
  OBVIOUS
<1>1. /\ new \in Rows
      /\ \A n \in Node : n # p => new[n] = rest[n]
      /\ IsInjective(new[p]) /\ ToSet(new[p]) = ToSet(rest[p]) \cup {c}
  <2>1. PutBefore(new, rest, p, c, ref)
    BY <1>0, InsertedRows
  <2> QED BY <2>1 DEF PutBefore
<1> HIDE DEF new
<1>2. IsFamily(ch) /\ DOMAIN ch = Node
  BY DEF RowsSound, Rows
<1>3. new \in [DOMAIN ch -> Seq(DOMAIN ch)]
  BY <1>1, <1>2 DEF Rows
<1>4. \A n \in Node : /\ IsInjective(new[n])
                      /\ n # p => ToSet(new[n]) \subseteq ToSet(ch[n]) \ {c}
                      /\ n = p => ToSet(new[n]) \subseteq ToSet(ch[n]) \cup {c}
  BY <1>1
<1>5. IsFamily(new)
  BY <1>2, <1>3, <1>4, GrownFamily
<1>6. \A n \in Node : Document \notin ToSet(new[n])
  BY <1>4 DEF RowsSound
<1> QED BY <1>1, <1>5, <1>6 DEF RowsSound, new

LEMMA PrimedRows ==
  ASSUME NEW ch, RowsSound(ch), tree' = TreeOf(ch)
  PROVE  TreeSound' /\ tree'.children = ch
<1>1. IsFamily(tree.children)' <=> IsFamily(tree'.children)
  BY DEF IsFamily, Under, Reach, Closed, IsInjective, ToSet
<1>2. TreeOf(tree.children)' = TreeOf(tree'.children)
  BY DEF TreeOf, Tree, ToSet
<1>3. tree'.children = ch /\ tree' = TreeOf(tree'.children)
  BY TreeOfChildren
<1>4. RowsSound(tree.children)' <=> RowsSound(tree'.children)
  BY <1>1 DEF RowsSound, Rows, ToSet
<1> QED BY <1>2, <1>3, <1>4 DEF TreeSound

LEMMA UnchangedTree ==
  ASSUME TreeSound, tree' = tree
  PROVE  TreeSound'
<1>1. tree' = TreeOf(tree.children)
  BY DEF TreeSound
<1> QED BY <1>1, PrimedRows DEF TreeSound

LEMMA BecomeInvariance ==
  ASSUME IInv, NEW ch, RowsSound(ch), Become(ch)
  PROVE  IInv'
<1>1. tree' = TreeOf(ch) /\ UNCHANGED <<pool, data>>
  BY DEF Become
<1>2. TreeSound'
  BY <1>1, PrimedRows
<1>3. FieldsSound' /\ PoolTyped'
  BY <1>1 DEF IInv, FieldsSound, PoolTyped, data, OptionSound, InputSound, AreaSound
<1> QED BY <1>2, <1>3 DEF IInv

LEMMA ReachIsAtOrBelow ==
  ASSUME TreeSound, NEW c \in Node
  PROVE  ToSet(AtOrBelow(tree, c)) = Reach(tree.children, {c})
BY TreeIsTree, BelowElements

(* A node without a parent is nowhere.                                     *)
LEMMA NoParent ==
  ASSUME TreeSound, NEW c \in Node, ParentOf(c) = NULL
  PROVE  \A p \in Node : c \notin ToSet(tree.children[p])
BY TreeIsTree, ParentIsKnown, NoNodeAssumption DEF ParentOf

LEMMA PlaceInvariance ==
  ASSUME IInv, NEW p \in Node, NEW c \in Node, Place(p, c)
  PROVE  IInv'
<1> DEFINE old == tree.children
           ch == InsertedBefore(old, p, c, NULL)
<1>1. /\ Kind[p] \in DOMAIN Contents /\ Kind[c] \in Contents[Kind[p]]
      /\ ParentOf(c) = NULL /\ p \notin ToSet(AtOrBelow(tree, c)) /\ Become(ch)
  BY DEF Place
<1>2. c # Document
  BY <1>1, FormAssumption
<1>3. RowsSound(old) /\ old \in Rows /\ (\A n \in Node : IsInjective(old[n]))
  BY DEF IInv, TreeSound, RowsSound, Rows, IsFamily
<1>4. p \notin Reach(old, {c}) /\ \A n \in Node : c \notin ToSet(old[n])
  BY <1>1, NoParent, ReachIsAtOrBelow DEF IInv
<1> HIDE DEF old
<1>5. RowsSound(ch)
  BY <1>2, <1>3, <1>4, InsertedSound
<1> HIDE DEF ch
<1> QED BY <1>1, <1>5, BecomeInvariance

LEMMA TakeAwayInvariance ==
  ASSUME IInv, NEW c, Become(Without(tree.children, c))
  PROVE  IInv'
<1>1. RowsSound(Without(tree.children, c))
  BY WithoutSound DEF IInv, TreeSound
<1> QED BY <1>1, BecomeInvariance

(* An option that is put into a select is taken from its old place.        *)
LEMMA AddedSound ==
  ASSUME TreeSound, NEW s \in Node, NEW o \in Option, NEW before, o # before,
         before \in ToSet(Children(s)) \cup {NULL}, s \notin ToSet(AtOrBelow(tree, o))
  PROVE  RowsSound(Added(s, o, before))
<1> DEFINE old == tree.children
           rest == Without(old, o)
<1>1. o \in Node /\ o # Document
  BY FormAssumption DEF Option, Are
<1>2. RowsSound(old) /\ old \in Rows /\ (\A n \in Node : IsInjective(old[n]))
  BY DEF TreeSound, RowsSound, Rows, IsFamily
<1>3. s \notin Reach(old, {o}) /\ before \in ToSet(old[s]) \cup {NULL}
  BY <1>1, ReachIsAtOrBelow DEF Children
<1>4. Added(s, o, before) = InsertedBefore(rest, s, o, before)
  BY DEF Added
<1> HIDE DEF old
<1>5. /\ rest \in Rows
      /\ \A n \in Node : /\ IsInjective(rest[n]) /\ o \notin ToSet(rest[n])
                         /\ ToSet(rest[n]) \subseteq ToSet(old[n])
                         /\ ToSet(old[n]) \subseteq ToSet(rest[n]) \cup {o}
  BY <1>2, WithoutRows
<1> HIDE DEF rest
<1>6. before = NULL \/ before \in ToSet(rest[s])
  BY <1>3, <1>5
<1>7. \A n \in Node : IsInjective(rest[n]) /\ ToSet(rest[n]) \subseteq ToSet(old[n]) \ {o}
  BY <1>5
<1> QED BY <1>1, <1>2, <1>3, <1>4, <1>5, <1>6, <1>7, InsertedSound

LEMMA AddOptionInvariance ==
  ASSUME IInv, NEW s \in Node, NEW o \in Option, NEW before, AddOption(s, o, before)
  PROVE  IInv'
<1>1. /\ o # before /\ before \in ToSet(Children(s)) \cup {NULL}
      /\ s \notin ToSet(AtOrBelow(tree, o)) /\ Become(Added(s, o, before))
  BY DEF AddOption
<1>2. RowsSound(Added(s, o, before))
  BY <1>1, AddedSound DEF IInv
<1> QED BY <1>1, <1>2, BecomeInvariance

-----------------------------------------------------------------------------
(* Records.                                                                *)

LEMMA StayPutKeeps ==
  ASSUME IInv, StayPut
  PROVE  TreeSound' /\ PoolTyped'
BY UnchangedTree DEF IInv, StayPut, PoolTyped

LEMMA ChangeInvariance ==
  ASSUME IInv, NEW o, NEW r, OptionSound(r), Change(o, r)
  PROVE  IInv'
<1>1. /\ option' = [option EXCEPT ![o] = r]
      /\ UNCHANGED <<input, area, form, marked>>
      /\ StayPut
  BY DEF Change
<1>2. TreeSound' /\ PoolTyped'
  BY <1>1, StayPutKeeps
<1>3. \A x \in Option : option'[x] = IF x = o THEN r ELSE option[x]
  BY <1>1 DEF IInv, FieldsSound
<1>4. option' \in [Option -> OptionRecord]
  BY <1>1 DEF IInv, FieldsSound, OptionSound
<1>5. \A x \in Option : OptionSound(option'[x])
  BY <1>3 DEF IInv, FieldsSound
<1>6. FieldsSound'
  BY <1>1, <1>4, <1>5 DEF IInv, FieldsSound, OptionSound, InputSound, AreaSound
<1> QED BY <1>2, <1>6 DEF IInv

LEMMA AlterInvariance ==
  ASSUME IInv, NEW i, NEW r, InputSound(r), Alter(i, r)
  PROVE  IInv'
<1>1. /\ input' = [input EXCEPT ![i] = r]
      /\ UNCHANGED <<option, area, form, marked>>
      /\ StayPut
  BY DEF Alter
<1>2. TreeSound' /\ PoolTyped'
  BY <1>1, StayPutKeeps
<1>3. \A x \in Input : input'[x] = IF x = i THEN r ELSE input[x]
  BY <1>1 DEF IInv, FieldsSound
<1>4. input' \in [Input -> InputRecord]
  BY <1>1 DEF IInv, FieldsSound, InputSound
<1>5. \A x \in Input : InputSound(input'[x])
  BY <1>3 DEF IInv, FieldsSound
<1>6. FieldsSound'
  BY <1>1, <1>4, <1>5 DEF IInv, FieldsSound, OptionSound, InputSound, AreaSound
<1> QED BY <1>2, <1>6 DEF IInv

LEMMA AmendInvariance ==
  ASSUME IInv, NEW a, NEW r, AreaSound(r), Amend(a, r)
  PROVE  IInv'
<1>1. /\ area' = [area EXCEPT ![a] = r]
      /\ UNCHANGED <<option, input, form, marked>>
      /\ StayPut
  BY DEF Amend
<1>2. TreeSound' /\ PoolTyped'
  BY <1>1, StayPutKeeps
<1>3. \A x \in Area : area'[x] = IF x = a THEN r ELSE area[x]
  BY <1>1 DEF IInv, FieldsSound
<1>4. area' \in [Area -> AreaRecord]
  BY <1>1 DEF IInv, FieldsSound, AreaSound
<1>5. \A x \in Area : AreaSound(area'[x])
  BY <1>3 DEF IInv, FieldsSound
<1>6. FieldsSound'
  BY <1>1, <1>4, <1>5 DEF IInv, FieldsSound, OptionSound, InputSound, AreaSound
<1> QED BY <1>2, <1>6 DEF IInv

LEMMA SelectedInvariance ==
  ASSUME IInv, NEW o \in Option, option' = [option EXCEPT ![o].selected = TRUE],
         UNCHANGED <<input, area, form, marked>>, StayPut
  PROVE  IInv'
<1>1. OptionSound([option[o] EXCEPT !.selected = TRUE])
  BY DEF IInv, FieldsSound, OptionSound, OptionRecord
<1>2. Change(o, [option[o] EXCEPT !.selected = TRUE])
  BY DEF Change
<1> QED BY <1>1, <1>2, ChangeInvariance

(* What is found in the tree need not be an option for all that is known   *)
(* here; what is not is not written.                                       *)
LEMMA ValueInvariance ==
  ASSUME IInv, NEW o, NEW v \in Value, option' = [option EXCEPT ![o].value = v],
         UNCHANGED <<input, area, form, marked>>, StayPut
  PROVE  IInv'
<1>1. CASE o \in Option
  <2>1. OptionSound([option[o] EXCEPT !.value = v])
    BY <1>1 DEF IInv, FieldsSound, OptionSound, OptionRecord, MaybeValue
  <2>2. Change(o, [option[o] EXCEPT !.value = v])
    BY DEF Change
  <2> QED BY <2>1, <2>2, ChangeInvariance
<1>2. CASE o \notin Option
  <2>1. option' = option
    BY <1>2 DEF IInv, FieldsSound
  <2>2. TreeSound' /\ PoolTyped'
    BY StayPutKeeps
  <2>3. FieldsSound'
    BY <2>1 DEF IInv, FieldsSound, OptionSound, InputSound, AreaSound
  <2> QED BY <2>2, <2>3 DEF IInv
<1> QED BY <1>1, <1>2

LEMMA WritesAreValues ==
  ASSUME IInv
  PROVE  pool.writes \subseteq Value /\ pool.nodes \subseteq Node
BY DEF IInv, PoolTyped

(* Nothing of a tree or a record changes when a call crashes.              *)
LEMMA CrashInvariance ==
  ASSUME IInv, UNCHANGED <<tree, pool, data>>
  PROVE  IInv'
BY UnchangedTree DEF IInv, PoolTyped, FieldsSound, data, OptionSound, InputSound, AreaSound

LEMMA SelectInvariance == IInv /\ SelectNext => IInv'
<1> SUFFICES ASSUME IInv, SelectNext
             PROVE  IInv'
  OBVIOUS
<1>1. ASSUME NEW s \in Are("SELECT") \cap pool.nodes, NEW i \in Index, SetSelectedIndex(s, i)
      PROVE  IInv'
  <2> DEFINE o == CollectionItem(tree, s, Option, i)
  <2>1. CASE /\ o \in Option
             /\ option' = [option EXCEPT ![o].selected = TRUE]
             /\ UNCHANGED <<input, area, form, marked>> /\ StayPut
    <3> HIDE DEF o
    <3> QED BY <2>1, SelectedInvariance
  <2>2. CASE /\ o = s
             /\ marked' = marked \cup {s}
             /\ UNCHANGED <<option, input, area, form>> /\ StayPut
    <3>1. TreeSound' /\ PoolTyped'
      BY <2>2, StayPutKeeps
    <3>2. marked' \subseteq Are("SELECT")
      BY <2>2 DEF IInv, FieldsSound
    <3>3. FieldsSound'
      BY <2>2, <3>2 DEF IInv, FieldsSound, OptionSound, InputSound, AreaSound
    <3> QED BY <3>1, <3>3 DEF IInv
  <2>3. CASE crashed' = TRUE /\ UNCHANGED <<tree, pool, data>>
    BY <2>3, CrashInvariance
  <2> QED BY <1>1, <2>1, <2>2, <2>3 DEF SetSelectedIndex
<1>2. ASSUME NEW s \in Are("SELECT") \cap pool.nodes, NEW i \in Index, RemoveOption(s, i)
      PROVE  IInv'
  BY <1>2, TakeAwayInvariance DEF RemoveOption, Removed
<1>3. ASSUME NEW s \in Are("SELECT") \cap pool.nodes, NEW v \in pool.writes, SetSelectValue(s, v)
      PROVE  IInv'
  <2>1. v \in Value
    BY WritesAreValues
  <2> QED BY <1>3, <2>1, ValueInvariance DEF SetSelectValue
<1>4. ASSUME NEW s \in Are("SELECT") \cap pool.nodes, NEW o \in Option \cap pool.nodes,
             NEW before \in pool.nodes \cup {NULL}, AddOption(s, o, before)
      PROVE  IInv'
  <2>1. s \in Node /\ o \in Option
    BY DEF Are
  <2> QED BY <1>4, <2>1, AddOptionInvariance
<1>5. ASSUME NEW o \in Option \cap pool.nodes, NEW b \in BOOLEAN, SetSelected(o, b)
      PROVE  IInv'
  <2>1. OptionSound([option[o] EXCEPT !.selected = b])
    BY DEF IInv, FieldsSound, OptionSound, OptionRecord
  <2> QED BY <1>5, <2>1, ChangeInvariance DEF SetSelected
<1>6. ASSUME NEW o \in Option \cap pool.nodes, NEW v \in pool.writes, SetOptionValue(o, v)
      PROVE  IInv'
  <2>1. v \in MaybeValue
    BY WritesAreValues DEF MaybeValue
  <2>2. OptionSound([option[o] EXCEPT !.value = v])
    BY <2>1 DEF IInv, FieldsSound, OptionSound, OptionRecord
  <2> QED BY <1>6, <2>2, ChangeInvariance DEF SetOptionValue
<1>7. ASSUME NEW s \in Are("SELECT") \cap pool.nodes, LosesItsWay(s)
      PROVE  IInv'
  BY <1>7, CrashInvariance DEF LosesItsWay
<1> QED BY <1>1, <1>2, <1>3, <1>4, <1>5, <1>6, <1>7 DEF SelectNext

LEMMA DefaultInvariance == IInv /\ DefaultNext => IInv'
<1> SUFFICES ASSUME IInv, DefaultNext
             PROVE  IInv'
  OBVIOUS
<1>1. ASSUME NEW o \in Option \cap pool.nodes, SetSelectedAttribute(o)
      PROVE  IInv'
  <2>1. OptionSound([Parsed(option[o]) EXCEPT !.selected = TRUE, !.named = TRUE])
    BY DEF IInv, FieldsSound, OptionSound, OptionRecord, Parsed
  <2> QED BY <1>1, <2>1, ChangeInvariance DEF SetSelectedAttribute
<1>2. ASSUME NEW o \in Option \cap pool.nodes, NEW b \in BOOLEAN, SetDefaultSelected(o, b)
      PROVE  IInv'
  <2>1. OptionSound([option[o] EXCEPT !.default_selected = b, !.default_selected_set = TRUE,
                                      !.own = TRUE])
    BY DEF IInv, FieldsSound, OptionSound, OptionRecord
  <2> QED BY <1>2, <2>1, ChangeInvariance DEF SetDefaultSelected
<1>3. ASSUME NEW i \in Input \cap pool.nodes, NEW v \in pool.writes, SetValueAttribute(i, v)
      PROVE  IInv'
  <2>1. v \in Value /\ v # NULL
    BY WritesAreValues, ValueAssumption
  <2>2. InputSound(input[i])
    BY DEF IInv, FieldsSound
  <2>3. InputSound([ValueParsed(input[i], v)
                    EXCEPT !.value = v, !.first = IF @ = NULL THEN v ELSE @])
    BY <2>1, <2>2 DEF InputSound, InputRecord, MaybeValue, ValueParsed
  <2> QED BY <1>3, <2>3, AlterInvariance DEF SetValueAttribute
<1>4. ASSUME NEW i \in Input \cap pool.nodes, NEW v \in pool.writes, SetDefaultValue(i, v)
      PROVE  IInv'
  <2>1. v \in Value /\ v # NULL
    BY WritesAreValues, ValueAssumption
  <2>2. InputSound(input[i])
    BY DEF IInv, FieldsSound
  <2>3. InputSound([input[i] EXCEPT !.default_value = v, !.default_value_set = TRUE, !.own = TRUE])
    BY <2>1, <2>2 DEF InputSound, InputRecord, MaybeValue
  <2> QED BY <1>4, <2>3, AlterInvariance DEF SetDefaultValue
<1> QED BY <1>1, <1>2, <1>3, <1>4 DEF DefaultNext

LEMMA CheckInvariance == IInv /\ CheckNext => IInv'
<1> SUFFICES ASSUME IInv, NEW i \in Input \cap pool.nodes,
                    \/ SetCheckedAttribute(i) \/ Click(i)
                    \/ \E b \in BOOLEAN : SetChecked(i, b) \/ SetDefaultChecked(i, b)
             PROVE  IInv'
  BY DEF CheckNext
<1>1. InputSound(input[i])
  BY DEF IInv, FieldsSound
<1>2. CASE SetCheckedAttribute(i)
  <2>1. InputSound([CheckParsed(input[i]) EXCEPT !.attribute = TRUE, !.named = TRUE])
    BY <1>1 DEF InputSound, InputRecord, CheckParsed
  <2> QED BY <1>2, <2>1, AlterInvariance DEF SetCheckedAttribute
<1>3. CASE Click(i)
  <2>1. InputSound([input[i] EXCEPT !.checked = TRUE, !.checked_set = TRUE])
    BY <1>1 DEF InputSound, InputRecord
  <2> QED BY <1>3, <2>1, AlterInvariance DEF Click
<1>4. ASSUME NEW b \in BOOLEAN, SetChecked(i, b)
      PROVE  IInv'
  <2>1. InputSound([input[i] EXCEPT !.attribute = b])
    BY <1>1 DEF InputSound, InputRecord
  <2> QED BY <1>4, <2>1, AlterInvariance DEF SetChecked
<1>5. ASSUME NEW b \in BOOLEAN, SetDefaultChecked(i, b)
      PROVE  IInv'
  <2>1. InputSound([input[i] EXCEPT !.default_checked = b, !.default_checked_set = TRUE,
                                    !.own = TRUE])
    BY <1>1 DEF InputSound, InputRecord
  <2> QED BY <1>5, <2>1, AlterInvariance DEF SetDefaultChecked
<1> QED BY <1>2, <1>3, <1>4, <1>5

LEMMA TextInvariance == IInv /\ TextNext => IInv'
<1> SUFFICES ASSUME IInv, NEW a \in Area \cap pool.nodes,
                    \/ GetAreaDefault(a) \/ GetAreaValue(a)
                    \/ \E v \in pool.writes : SetText(a, v) \/ SetAreaDefault(a, v) \/ SetAreaValue(a, v)
             PROVE  IInv'
  BY DEF TextNext
<1>1. AreaSound(area[a])
  BY DEF IInv, FieldsSound
<1>2. CASE GetAreaDefault(a)
  <2>1. AreaSound(Saved(area[a], area[a].text))
    BY <1>1 DEF AreaSound, AreaRecord, Saved
  <2> QED BY <1>2, <2>1, AmendInvariance DEF GetAreaDefault
<1>3. CASE GetAreaValue(a)
  <2>1. AreaSound([area[a] EXCEPT !.value = area[a].text, !.default_value_set = TRUE,
                                  !.plain = @ /\ area[a].default_value_set])
    BY <1>1 DEF AreaSound, AreaRecord
  <2> QED BY <1>3, <2>1, AmendInvariance DEF GetAreaValue
<1>4. ASSUME NEW v \in pool.writes, SetText(a, v)
      PROVE  IInv'
  <2>1. v \in MaybeValue
    BY WritesAreValues DEF MaybeValue
  <2>2. AreaSound([area[a] EXCEPT !.text = v, !.original = v,
                                  !.plain = @ /\ ~area[a].default_value_set])
    BY <1>1, <2>1 DEF AreaSound, AreaRecord
  <2> QED BY <1>4, <2>2, AmendInvariance DEF SetText
<1>5. ASSUME NEW v \in pool.writes, SetAreaDefault(a, v)
      PROVE  IInv'
  <2>1. v \in MaybeValue
    BY WritesAreValues DEF MaybeValue
  <2>2. AreaSound([area[a] EXCEPT !.default_value = v, !.default_value_set = TRUE, !.plain = FALSE])
    BY <1>1, <2>1 DEF AreaSound, AreaRecord
  <2> QED BY <1>5, <2>2, AmendInvariance DEF SetAreaDefault
<1>6. ASSUME NEW v \in pool.writes, SetAreaValue(a, v)
      PROVE  IInv'
  <2>1. v \in MaybeValue
    BY WritesAreValues DEF MaybeValue
  <2>2. AreaSound([Saved(area[a], v) EXCEPT !.value = v, !.value_set = TRUE, !.text = v])
    BY <1>1, <2>1 DEF AreaSound, AreaRecord, Saved
  <2> QED BY <1>6, <2>2, AmendInvariance DEF SetAreaValue
<1> QED BY <1>2, <1>3, <1>4, <1>5, <1>6

LEMMA MoveInvariance == IInv /\ MoveNext => IInv'
<1> SUFFICES ASSUME IInv, MoveNext
             PROVE  IInv'
  OBVIOUS
<1>1. ASSUME NEW f \in Are("FORM") \cap pool.nodes, NEW c \in Control \cap pool.nodes,
             FormAssociate(f, c)
      PROVE  IInv'
  <2>1. form' = [form EXCEPT ![c] = f] /\ UNCHANGED <<input, option, area, marked>> /\ StayPut
    BY <1>1 DEF FormAssociate
  <2>2. TreeSound' /\ PoolTyped'
    BY <2>1, StayPutKeeps
  <2>3. form' \in [Control -> Are("FORM") \cup {NULL}]
    BY <2>1 DEF IInv, FieldsSound
  <2>4. FieldsSound'
    BY <2>1, <2>3 DEF IInv, FieldsSound, OptionSound, InputSound, AreaSound
  <2> QED BY <2>2, <2>4 DEF IInv
<1>2. ASSUME NEW p \in pool.nodes, NEW c \in pool.nodes, Place(p, c)
      PROVE  IInv'
  <2>1. p \in Node /\ c \in Node
    BY WritesAreValues
  <2> QED BY <1>2, <2>1, PlaceInvariance
<1>3. ASSUME NEW c \in pool.nodes, Detach(c)
      PROVE  IInv'
  BY <1>3, TakeAwayInvariance DEF Detach
<1> QED BY <1>1, <1>2, <1>3 DEF MoveNext

LEMMA CopyInvariance ==
  ASSUME IInv, NEW c \in Node, NEW d \in Node, NEW deep \in BOOLEAN, Copy(c, d, deep)
  PROVE  IInv'
<1>1. Kind[d] = Kind[c] /\ UNCHANGED tree /\ pool' = [pool EXCEPT !.nodes = @ \ {c}]
  BY DEF Copy
<1>2. TreeSound'
  BY <1>1, UnchangedTree DEF IInv
<1>3. PoolTyped'
  BY <1>1 DEF IInv, PoolTyped
<1>4. option' \in [Option -> OptionRecord] /\ \A o \in Option : OptionSound(option'[o])
  BY <1>1 DEF Copy, IInv, FieldsSound, Option, Are
<1>5. input' \in [Input -> InputRecord] /\ \A i \in Input : InputSound(input'[i])
  BY <1>1 DEF Copy, IInv, FieldsSound, Input, Are
<1>6. area' \in [Area -> AreaRecord] /\ \A a \in Area : AreaSound(area'[a])
  <2>1. CASE c \in Area
    <3>1. AreaSound(area[c])
      BY <2>1 DEF IInv, FieldsSound
    <3>2. AreaSound(AreaCopy(area[c], deep))
      BY <3>1 DEF AreaSound, AreaRecord, AreaCopy, MaybeValue
    <3>3. AreaCopy(area[c], deep) \in AreaRecord /\ d \in Area
      BY <3>2, <1>1, <2>1 DEF AreaSound, Area, Are
    <3>4. area' = [area EXCEPT ![d] = AreaCopy(area[c], deep)]
      BY <2>1 DEF Copy
    <3> QED BY <3>2, <3>3, <3>4 DEF IInv, FieldsSound
  <2>2. CASE c \notin Area
    BY <2>2 DEF Copy, IInv, FieldsSound
  <2> QED BY <2>1, <2>2
<1>7. form' \in [Control -> Are("FORM") \cup {NULL}]
  BY <1>1 DEF Copy, FormCopied, IInv, FieldsSound, Control
<1>8. marked' \subseteq Are("SELECT")
  BY <1>1 DEF Copy, IInv, FieldsSound, Are
<1>9. FieldsSound'
  BY <1>4, <1>5, <1>6, <1>7, <1>8 DEF FieldsSound, OptionSound, InputSound, AreaSound
<1> QED BY <1>2, <1>3, <1>9 DEF IInv

LEMMA InitInvariance == Init => IInv
<1> SUFFICES ASSUME Init
             PROVE  IInv
  OBVIOUS
<1>1. TreeSound
  <2> DEFINE ch == [n \in Node |-> <<>>]
  <2>1. tree = TreeOf(ch) /\ TreeOf(ch).children = ch
    BY TreeOfChildren DEF Init
  <2>2. IsFamily(ch)
    BY EmptyFamily, NoNodeAssumption
  <2>3. ch \in Rows /\ \A n \in Node : Document \notin ToSet(ch[n])
    BY DEF ToSet, Rows
  <2> QED BY <2>1, <2>2, <2>3 DEF TreeSound, RowsSound
<1>2. PoolTyped
  BY PoolAssumption DEF Init, PoolTyped
<1>3. OptionSound(NewOption)
  BY DEF OptionSound, OptionRecord, NewOption, MaybeValue
<1>4. InputSound(NewInput)
  BY DEF InputSound, InputRecord, NewInput, MaybeValue
<1>5. AreaSound(NewArea)
  BY DEF AreaSound, AreaRecord, NewArea, MaybeValue
<1>6. NewOption \in OptionRecord /\ NewInput \in InputRecord /\ NewArea \in AreaRecord
  BY <1>3, <1>4, <1>5 DEF OptionSound, InputSound, AreaSound
<1>7. FieldsSound
  BY <1>3, <1>4, <1>5, <1>6 DEF Init, FieldsSound
<1> QED BY <1>1, <1>2, <1>7 DEF IInv

-----------------------------------------------------------------------------
(* Selects: the walk of the options comes by what is below the select.     *)

LEMMA OptionsAreBelow ==
  ASSUME NEW t, IsTree(t), Nodes(t) = Node, t.null = NULL,
         NEW s \in Are("SELECT"), Walkable(t, s)
  PROVE  /\ Options(t, s) = Hits(Below(t, s), Option)
         /\ Below(t, s) \in Seq(Node) /\ IsInjective(Below(t, s))
         /\ Options(t, s) \in Seq(Node) /\ IsInjective(Options(t, s))
         /\ ToSet(Options(t, s)) = ToSet(Below(t, s)) \cap Option
<1> DEFINE below == Below(t, s)
           self == <<s>>
<1>1. s \in Node /\ s \notin Option
  BY DEF Are, Option
<1>2. CollectionPath(t, s) = self \o below
  BY <1>1, CollectionPathIsAtOrBelow DEF Walkable, AtOrBelow
<1>3. below \in Seq(Node) /\ IsInjective(below)
  BY <1>1, BelowElements
<1>4. Hits(self, Option) = <<>>
  BY <1>1, HitsOfOne
<1>5. self \in Seq(Node)
  BY <1>1
<1> HIDE DEF below, self
<1>6. Hits(self \o below, Option) = Hits(self, Option) \o Hits(below, Option)
  BY ONLY <1>3, <1>5, HitsOfConcat
<1>7. /\ Hits(below, Option) \in Seq(Node)
      /\ ToSet(Hits(below, Option)) = ToSet(below) \cap Option
      /\ IsInjective(Hits(below, Option))
  BY <1>3, HitsProperties
<1>8. <<>> \o Hits(below, Option) = Hits(below, Option)
  BY <1>7
<1>9. Options(t, s) = Hits(below, Option)
  BY <1>2, <1>4, <1>6, <1>8 DEF Options
<1> QED BY <1>3, <1>7, <1>9 DEF below

(* The first selected of the options, and its index.                       *)
LEMMA FirstSelected ==
  ASSUME NEW s, Options(tree, s) \in Seq(Node)
  PROVE  LET order == Options(tree, s)
             selected == {o \in Option : option[o].selected}
         IN  ToSet(order) \subseteq Option =>
               /\ Hits(order, selected) = <<>> => SelectedIndex(s) = -1
               /\ Hits(order, selected) # <<>> =>
                    /\ SelectedIndex(s) + 1 \in 1 .. Len(order)
                    /\ order[SelectedIndex(s) + 1] = Hits(order, selected)[1]
<1> DEFINE order == Options(tree, s)
           selected == {o \in Option : option[o].selected}
           I == {i \in 1 .. Len(order) : IsSelected(order[i])}
<1> SUFFICES ASSUME ToSet(order) \subseteq Option
             PROVE  /\ Hits(order, selected) = <<>> => SelectedIndex(s) = -1
                    /\ Hits(order, selected) # <<>> =>
                         /\ SelectedIndex(s) + 1 \in 1 .. Len(order)
                         /\ order[SelectedIndex(s) + 1] = Hits(order, selected)[1]
  OBVIOUS
<1>1. SelectedIndex(s) = (IF I # {} THEN Min(I) ELSE 0) - 1
  BY DEF SelectedIndex, SelectInSeq
<1>2. order \in Seq(Node) /\ Len(order) \in Nat
  BY LenProperties
<1>3. \A i \in 1 .. Len(order) : order[i] \in ToSet(order)
  <2> HIDE DEF order
  <2> QED BY <1>2, ToSetOfSeq
<1>4. \A i \in 1 .. Len(order) : order[i] \in selected <=> i \in I
  BY <1>3 DEF IsSelected
<1> HIDE DEF order, selected
<1>5. CASE I = {}
  <2>1. Hits(order, selected) = <<>>
    BY <1>2, <1>4, <1>5, FirstHit
  <2>2. SelectedIndex(s) = -1
    BY <1>1, <1>5
  <2> QED BY <2>1, <2>2
<1>6. CASE I # {}
  <2> DEFINE k == Min(I)
  <2>1. k \in I /\ \A i \in I : k <= i
    <3>1. I \in SUBSET Nat
      BY <1>2
    <3> HIDE DEF I
    <3> QED BY <1>6, <3>1, MinIsLeast
  <2>2. SelectedIndex(s) = k - 1
    BY <1>1, <1>6
  <2>3. k \in 1 .. Len(order)
    BY <2>1
  <2> HIDE DEF k
  <2>4. SelectedIndex(s) + 1 = k
    BY <1>2, <2>2, <2>3
  <2>5. order[k] \in selected /\ \A j \in 1 .. k - 1 : order[j] \notin selected
    BY <1>2, <1>4, <2>1, <2>3
  <2>6. Hits(order, selected)[1] = order[k] /\ Hits(order, selected) # <<>>
    BY <1>2, <2>3, <2>5, FirstHit
  <2> QED BY <2>3, <2>4, <2>6
<1> QED BY <1>5, <1>6

LEMMA TreeImpliesSelection == TreeSound => SelectionIsFirst
<1> SUFFICES ASSUME TreeSound, NEW s \in Are("SELECT"), Walkable(tree, s)
             PROVE  LET selected == {o \in Option : option[o].selected}
                        order == Hits(Below(tree, s), Option)
                    IN  IF Hits(order, selected) = <<>>
                        THEN SelectedIndex(s) = -1 /\ SelectValue(s) = NULL
                        ELSE /\ order[SelectedIndex(s) + 1] = Hits(order, selected)[1]
                             /\ SelectValue(s) = OptionValue(Hits(order, selected)[1])
  BY DEF SelectionIsFirst
<1> DEFINE selected == {o \in Option : option[o].selected}
           order == Options(tree, s)
<1>1. IsTree(tree) /\ Nodes(tree) = Node /\ tree.null = NULL
  BY TreeIsTree
<1>2. order = Hits(Below(tree, s), Option) /\ order \in Seq(Node) /\ ToSet(order) \subseteq Option
  BY <1>1, OptionsAreBelow
<1>3. /\ Hits(order, selected) = <<>> => SelectedIndex(s) = -1
      /\ Hits(order, selected) # <<>> =>
           /\ SelectedIndex(s) + 1 \in 1 .. Len(order)
           /\ order[SelectedIndex(s) + 1] = Hits(order, selected)[1]
  BY <1>2, FirstSelected
<1>4. SelectValue(s) = IF SelectedIndex(s) = -1 THEN NULL
                       ELSE OptionValue(order[SelectedIndex(s) + 1])
  BY DEF SelectValue
<1> HIDE DEF order, selected
<1>5. CASE Hits(order, selected) = <<>>
  BY <1>2, <1>3, <1>4, <1>5 DEF selected
<1>6. CASE Hits(order, selected) # <<>>
  <2>1. SelectedIndex(s) # -1
    BY <1>3, <1>6
  <2> QED BY <1>2, <1>3, <1>4, <1>6, <2>1 DEF selected
<1> QED BY <1>5, <1>6

-----------------------------------------------------------------------------
(* Forms: the walk of the controls starts at the document, which has no    *)
(* sibling.                                                                *)

LEMMA ElementsAreBelow ==
  ASSUME TreeSound, NEW f
  PROVE  /\ Elements(f) = Hits(Below(tree, Document), {c \in Control : form[c] = f})
         /\ ToSet(Elements(f)) = ToSet(Below(tree, Document)) \cap {c \in Control : form[c] = f}
<1> DEFINE inside == Below(tree, Document)
           M == {n \in Node : IsFormControl(n, f)}
           self == <<Document>>
<1>1. IsTree(tree) /\ Nodes(tree) = Node /\ tree.null = NULL
  BY TreeIsTree
<1>2. After(tree, Document) = NULL
  <2>1. \A n \in Node : Document \notin ToSet(tree.children[n])
    BY DEF TreeSound, RowsSound
  <2>2. Up(tree, Document) = NULL
    BY <1>1, <2>1, ParentIsKnown, FormAssumption
  <2> QED BY <1>1, <2>2, NodeIsChild, FormAssumption
<1>3. CollectionPath(tree, Document) = self \o inside
  BY <1>1, <1>2, CollectionPathIsAtOrBelow, FormAssumption DEF AtOrBelow
<1>4. M = {c \in Control : form[c] = f} /\ Document \notin M
  BY FormAssumption DEF IsFormControl, Control, ControlKind
<1>5. Hits(self, M) = <<>>
  <2> HIDE DEF M
  <2> QED BY <1>4, HitsOfOne
<1>6. self \in Seq(Node) /\ inside \in Seq(Node)
  <2>1. self \in Seq(Node)
    BY FormAssumption
  <2>2. inside \in Seq(Nodes(tree))
    <3>1. Document \in Nodes(tree)
      BY <1>1, FormAssumption
    <3> QED BY <1>1, <3>1, BelowElements
  <2> QED BY <1>1, <2>1, <2>2
<1>7. Elements(f) = Hits(self \o inside, M)
  BY <1>3 DEF Elements
<1> HIDE DEF self, inside, M
<1>8. Hits(self \o inside, M) = Hits(self, M) \o Hits(inside, M)
  BY ONLY <1>6, HitsOfConcat
<1>9. Hits(inside, M) \in Seq(Node) /\ ToSet(Hits(inside, M)) = ToSet(inside) \cap M
  BY <1>6, HitsProperties
<1>10. <<>> \o Hits(inside, M) = Hits(inside, M)
  BY <1>9
<1> QED BY <1>4, <1>5, <1>7, <1>8, <1>9, <1>10 DEF inside

(* The nearest element of a tag above a node.                              *)
LEMMA NearestIsKnown ==
  ASSUME TreeSound, NEW tag
  PROVE  \A n \in Node :
           NearestAbove(n, tag) =
             IF ParentOf(n) = NULL THEN NULL
             ELSE IF Kind[ParentOf(n)] = tag THEN ParentOf(n)
             ELSE NearestAbove(ParentOf(n), tag)
<1> DEFINE V == Node \cup {NULL}
           Stop == {n \in Node : ParentOf(n) = NULL \/ Kind[ParentOf(n)] = tag}
           at == [n \in Node |-> ParentOf(n)]
           Is(g) == g = [n \in Node |->
                           CASE ParentOf(n) = NULL -> NULL
                             [] ParentOf(n) # NULL /\ Kind[ParentOf(n)] = tag -> ParentOf(n)
                             [] OTHER -> g[ParentOf(n)]]
           nearest == CHOOSE g : Is(g)
<1>1. /\ IsTree(tree) /\ Nodes(tree) = Node /\ tree.null = NULL
      /\ \A n \in Node : ParentOf(n) = Up(tree, n) /\ ParentOf(n) \in V
  BY TreeIsTree, ParentIsKnown DEF ParentOf
<1>2. at \in [Node -> V] /\ V # {} /\ Node \in SUBSET (Nodes(tree) \cup {tree.null})
  BY <1>1
<1>3. \A n \in Node \ Stop : n \in Nodes(tree) /\ Up(tree, n) \in Node
  BY <1>1
<1>4. \E g \in [Node -> V] : Climbs(tree, Node, Stop, at, g)
  <2> HIDE DEF V, Stop, at
  <2> QED BY <1>1, <1>2, <1>3, ClimbExists
<1>5. ASSUME NEW g \in [Node -> V], Climbs(tree, Node, Stop, at, g)
      PROVE  Is(g)
  <2>1. ASSUME NEW n \in Node
        PROVE  g[n] = CASE ParentOf(n) = NULL -> NULL
                        [] ParentOf(n) # NULL /\ Kind[ParentOf(n)] = tag -> ParentOf(n)
                        [] OTHER -> g[ParentOf(n)]
    BY <1>1, <1>5 DEF Climbs
  <2> QED BY <2>1
<1>6. Is(nearest)
  <2>1. \E g : Is(g)
    <3> HIDE DEF Is, V, Stop, at
    <3> QED BY <1>4, <1>5
  <2> HIDE DEF Is
  <2> QED BY <2>1
<1>7. \A n \in Node : nearest[n] = CASE ParentOf(n) = NULL -> NULL
                                     [] ParentOf(n) # NULL /\ Kind[ParentOf(n)] = tag -> ParentOf(n)
                                     [] OTHER -> nearest[ParentOf(n)]
  <2> HIDE DEF nearest
  <2> QED BY <1>6
<1>8. ASSUME NEW n
      PROVE  NearestAbove(n, tag) = nearest[n]
  BY DEF NearestAbove
<1> HIDE DEF nearest
<1> QED BY <1>7, <1>8

(* It is of that tag and above the node, and at or below every other one   *)
(* that is.                                                                *)
NearestIsInnermost(n, tag) ==
  LET near == NearestAbove(n, tag)
      ch == tree.children
  IN  /\ near # NULL => near \in Are(tag) /\ n \in Under(ch, near)
      /\ \A r \in Are(tag) : n \in Under(ch, r) => near # NULL /\ near \in Reach(ch, {r})

LEMMA NearestProperties ==
  ASSUME TreeSound, NEW tag
  PROVE  \A n \in Node : NearestIsInnermost(n, tag)
<1> DEFINE ch == tree.children
           G == {n \in Node : NearestIsInnermost(n, tag)}
           rank == [n \in Node |-> HeightRank(tree)[n]]
<1>1. /\ IsTree(tree) /\ Nodes(tree) = Node /\ tree.null = NULL
      /\ \A n \in Node : ParentOf(n) = Up(tree, n) /\ ParentOf(n) \in Node \cup {NULL}
  BY TreeIsTree, ParentIsKnown DEF ParentOf
<1>2. DOMAIN ch = Node /\ ch \in [DOMAIN ch -> Seq(DOMAIN ch)]
  BY <1>1, TreeIsTyped
<1>3. \A n \in Node : rank[n] \in Nat /\ (ParentOf(n) # NULL => rank[ParentOf(n)] < rank[n])
  BY <1>1, HeightRanks
<1>4. \A p, n \in Node : n \in ToSet(ch[p]) => n \in Under(ch, p)
  <2> HIDE DEF ch
  <2>1. \A p \in Node : ToSet(ch[p]) \in SUBSET DOMAIN ch
    BY <1>2, ChildrenAreNodes
  <2> QED BY <1>2, <2>1, ReachIsLeast DEF Under
<1>5. \A p \in Node : \A m \in Under(ch, p) : \A n \in ToSet(ch[m]) : n \in Under(ch, p)
  <2> HIDE DEF ch
  <2>1. \A p \in Node : ToSet(ch[p]) \in SUBSET DOMAIN ch
    BY <1>2, ChildrenAreNodes
  <2>2. \A p \in Node : Closed(ch, Under(ch, p))
    BY <1>2, <2>1, ReachIsLeast DEF Under
  <2> QED BY <2>2 DEF Closed
<1>6. ASSUME NEW n \in Node, \A m \in Node : rank[m] < rank[n] => NearestIsInnermost(m, tag)
      PROVE  NearestIsInnermost(n, tag)
  <2> DEFINE p == ParentOf(n)
             near == NearestAbove(n, tag)
  <2>1. near = IF p = NULL THEN NULL ELSE IF Kind[p] = tag THEN p ELSE NearestAbove(p, tag)
    BY NearestIsKnown
  <2>2. p # NULL => p \in Node /\ n \in ToSet(ch[p]) /\ rank[p] < rank[n]
    BY <1>1, <1>3, ParentIsKnown
  <2>3. \A r \in Node : n \in Under(ch, r) => p \in {r} \cup Under(ch, r) /\ p \in Node /\ p # NULL
    BY <1>1, UnderIsClosed, NoNodeAssumption
  <2>4. \A r \in Node : {r} \cup Under(ch, r) \subseteq Reach(ch, {r})
    <3> HIDE DEF ch
    <3> QED BY <1>2, ReachOfNode
  <2> HIDE DEF p, near, ch, rank
  <2>5. CASE p = NULL
    BY <2>1, <2>3, <2>5 DEF NearestIsInnermost, near, ch, Are
  <2>6. CASE p # NULL /\ Kind[p] = tag
    <3>1. near = p /\ p \in Are(tag) /\ n \in Under(ch, p)
      BY <1>4, <2>1, <2>2, <2>6 DEF Are
    <3>2. \A r \in Are(tag) : n \in Under(ch, r) => near # NULL /\ near \in Reach(ch, {r})
      BY <2>3, <2>4, <2>6, <3>1 DEF Are
    <3>3. near # NULL => near \in Are(tag) /\ n \in Under(ch, near)
      BY <3>1
    <3> QED BY <3>2, <3>3 DEF NearestIsInnermost, near, ch
  <2>7. CASE p # NULL /\ Kind[p] # tag
    <3>1. near = NearestAbove(p, tag) /\ NearestIsInnermost(p, tag)
      BY <1>6, <2>1, <2>2, <2>7
    <3>2. near # NULL => near \in Are(tag) /\ p \in Under(ch, near)
      BY <3>1 DEF NearestIsInnermost, ch
    <3>3. near # NULL => near \in Are(tag) /\ n \in Under(ch, near)
      BY <1>5, <2>2, <2>7, <3>2 DEF Are
    <3>4. ASSUME NEW r \in Are(tag), n \in Under(ch, r)
          PROVE  near # NULL /\ near \in Reach(ch, {r})
      <4>1. p \in Under(ch, r)
        BY <2>3, <2>7, <3>4 DEF Are
      <4> QED BY <3>1, <4>1 DEF NearestIsInnermost, ch
    <3> QED BY <3>3, <3>4 DEF NearestIsInnermost, near, ch
  <2> QED BY <2>5, <2>6, <2>7
<1>7. G = Node
  <2>1. rank \in [Node -> Nat] /\ G \in SUBSET Node
    BY <1>3
  <2>2. \A n \in Node : (\A m \in Node : rank[m] < rank[n] => m \in G) => n \in G
    BY <1>6
  <2> HIDE DEF G, rank
  <2> QED BY <2>1, <2>2, RankInduction
<1> QED BY <1>7

LEMMA TreeImpliesElements == TreeSound /\ FieldsSound => FormListsItsControls
<1> SUFFICES ASSUME TreeSound, FieldsSound
             PROVE  FormListsItsControls
  OBVIOUS
<1> DEFINE ch == tree.children
           inside == Below(tree, Document)
           Around(o) == {s \in Are("SELECT") : o \in ToSet(Below(tree, s))}
<1>1. /\ IsTree(tree) /\ Nodes(tree) = Node /\ tree.null = NULL
      /\ \A n \in Node : /\ ToSet(Below(tree, n)) = Under(ch, n)
                         /\ ToSet(AtOrBelow(tree, n)) = Reach(ch, {n})
  BY TreeIsTree, BelowElements
<1>2. DOMAIN ch = Node /\ ch \in [DOMAIN ch -> Seq(DOMAIN ch)] /\ IsFamily(ch)
  BY <1>1, TreeIsTyped
<1>3. \A f \in Are("FORM") : Elements(f) = Hits(inside, {c \in Control : form[c] = f})
  BY ElementsAreBelow
<1>4. ASSUME NEW o \in Option, FormOfOption(o) # NULL, o \in ToSet(inside)
      PROVE  \E s \in Around(o) \cap ToSet(Elements(FormOfOption(o))) :
               \A r \in Around(o) : s \in ToSet(AtOrBelow(tree, r))
  <2> DEFINE s == NearestAbove(o, "SELECT")
             f == FormOfOption(o)
  <2>1. s # NULL /\ f = form[s]
    BY <1>4 DEF FormOfOption
  <2>2. o \in Node /\ Document \in Node
    BY FormAssumption DEF Option, Are
  <2>3. NearestIsInnermost(o, "SELECT")
    BY <2>2, NearestProperties
  <2>4. /\ s \in Are("SELECT") /\ o \in Under(ch, s)
        /\ \A r \in Are("SELECT") : o \in Under(ch, r) => s \in Reach(ch, {r})
    BY <2>1, <2>3 DEF NearestIsInnermost
  <2> HIDE DEF s, f, ch
  <2>5. s \in Node /\ s \in Control /\ s # Document
    BY <2>4, FormAssumption DEF Are, Control, ControlKind
  <2>6. s \in Reach(ch, {Document})
    <3>1. o \in Reach(ch, {s}) /\ o \in Reach(ch, {Document})
      BY <1>1, <1>2, <1>4, <2>2, <2>4, <2>5, ReachOfNode
    <3>2. Document \notin Reach(ch, {s})
      <4>1. {s} \in SUBSET DOMAIN ch /\ Document \notin {s}
        BY <1>2, <2>5
      <4>2. \A p \in Node : Document \notin ToSet(ch[p])
        BY DEF TreeSound, RowsSound, ch
      <4>3. Reach(ch, {s}) \subseteq Node
        BY <1>2, <4>1, ReachIsLeast
      <4> QED BY <1>2, <4>1, <4>2, <4>3, ReachHasParent
    <3> QED BY <1>2, <2>2, <2>5, <3>1, <3>2, ReachesAreDisjoint
  <2>7. s \in ToSet(inside)
    <3>1. Reach(ch, {Document}) = {Document} \cup Under(ch, Document)
      BY <1>2, <2>2, ReachOfNode
    <3>2. ToSet(inside) = Under(ch, Document)
      BY <1>1, <2>2
    <3> QED BY <2>5, <2>6, <3>1, <3>2
  <2>8. s \in ToSet(Elements(f))
    BY <2>1, <2>5, <2>7, ElementsAreBelow
  <2>9. s \in Around(o)
    BY <1>1, <2>4, <2>5
  <2>10. \A r \in Around(o) : s \in ToSet(AtOrBelow(tree, r))
    BY <1>1, <2>4 DEF Are
  <2> QED BY <2>8, <2>9, <2>10 DEF f
<1> QED BY <1>3, <1>4 DEF FormListsItsControls

-----------------------------------------------------------------------------
(* Selects: the order of the options.                                      *)

(* An option among its siblings.                                           *)
LEMMA TreeImpliesIndex == TreeSound => OptionKnowsIndex
<1> SUFFICES ASSUME TreeSound, NEW s \in Are("SELECT"), Walkable(tree, s),
                    ToSet(Below(tree, s)) \cap Option \subseteq ToSet(Children(s)),
                    NEW i \in DOMAIN Options(tree, s)
             PROVE  IndexAmongSiblings(Options(tree, s)[i]) = i - 1
  BY DEF OptionKnowsIndex
<1> DEFINE row == Children(s)
           below == Below(tree, s)
           order == Options(tree, s)
           o == order[i]
<1>1. IsTree(tree) /\ Nodes(tree) = Node /\ tree.null = NULL /\ s \in Node
  BY TreeIsTree DEF Are
<1>2. /\ order = Hits(below, Option) /\ below \in Seq(Node)
      /\ order \in Seq(Node) /\ ToSet(order) = ToSet(below) \cap Option
  BY <1>1, OptionsAreBelow
<1>3. row = Hits(below, ToSet(row)) /\ row \in Seq(Node) /\ IsInjective(row)
  <2>1. Hits(Below(tree, s), ToSet(tree.children[s])) = tree.children[s]
    BY <1>1, ChildrenInOrder
  <2>2. tree.children[s] \in Seq(Node) /\ IsInjective(tree.children[s])
    BY <1>1, TreeIsTyped DEF IsFamily
  <2> QED BY <2>1, <2>2 DEF Children
<1>4. ToSet(below) \cap Option \subseteq ToSet(row)
  OBVIOUS
<1>5. o \in ToSet(order) /\ i \in 1 .. Len(order)
  <2>1. i \in DOMAIN order
    OBVIOUS
  <2> HIDE DEF order
  <2> QED BY <1>2, <2>1, ToSetOfSeq
<1>6. IndexAmongSiblings(o) =
        LET siblings == Children(ParentOf(o))
            before == SubSeq(siblings, 1, SelectInSeq(siblings, LAMBDA x : x = o) - 1)
        IN  IF ParentOf(o) = NULL THEN Fault ELSE Len(Hits(before, Option))
  BY DEF IndexAmongSiblings
<1>7. order = Hits(row, Option)
  <2> HIDE DEF row, below, order, o
  <2>1. Hits(Hits(below, ToSet(row)), Option) = Hits(below, ToSet(row) \cap Option)
    BY <1>2, HitsOfHits
  <2> DEFINE both == ToSet(row) \cap Option
  <2>2. ToSet(below) \cap Option = ToSet(below) \cap both
    BY <1>4
  <2> HIDE DEF both
  <2>3. Hits(below, Option) = Hits(below, both)
    BY <1>2, <2>2, HitsAgree
  <2> QED BY <1>2, <1>3, <2>1, <2>3 DEF both
<1>8. o \in ToSet(row) /\ o \in Node
  <2>1. o \in ToSet(row)
    BY <1>2, <1>4, <1>5
  <2> HIDE DEF row, o
  <2> QED BY <1>3, <2>1, ToSetOfSeq
<1>9. ParentOf(o) = s /\ s # NULL
  <2>1. o \in ToSet(tree.children[s])
    BY <1>8 DEF Children
  <2> HIDE DEF o
  <2> QED BY <1>1, <1>8, <2>1, ParentIsKnown, NoNodeAssumption DEF ParentOf
<1> HIDE DEF row, below, order
<1>10. PICK k \in 1 .. Len(row) : row[k] = o
  <2> HIDE DEF o
  <2> QED BY <1>3, <1>8, ToSetOfSeq
<1>11. SelectInSeq(row, LAMBDA x : x = o) = k
  <2> DEFINE I == {j \in 1 .. Len(row) : row[j] = o}
  <2>1. I # {} /\ Min(I) = k
    <3> HIDE DEF o
    <3> QED BY <1>3, <1>10, PlaceOfElement
  <2>2. SelectInSeq(row, LAMBDA x : x = o) = IF I # {} THEN Min(I) ELSE 0
    BY DEF SelectInSeq
  <2> QED BY <2>1, <2>2
<1>12. IndexAmongSiblings(o) = Len(Hits(Preceding(row, k), Option))
  <2> HIDE DEF o
  <2> QED BY <1>6, <1>9, <1>11 DEF row, Preceding
<1>13. Len(Hits(Preceding(row, k), Option)) = i - 1
  BY <1>3, <1>5, <1>7, <1>10, HitsBefore
<1> QED BY <1>12, <1>13 DEF order

-----------------------------------------------------------------------------
LEMMA LosesWithout ==
  ASSUME TreeSound, NEW c \in Node
  PROVE  /\ LosesChild(tree, TreeOf(Without(tree.children, c)), c)
         /\ RowsSound(Without(tree.children, c))
<1> DEFINE old == tree.children
           rest == Without(old, c)
<1>1. IsTree(tree) /\ Nodes(tree) = Node /\ tree.null = NULL
  BY TreeIsTree
<1>2. RowsSound(rest)
  BY WithoutSound DEF TreeSound
<1>3. \A n \in Node : rest[n] = RemoveFirst(old[n], c)
  BY DEF Without
<1> HIDE DEF old, rest
<1>4. /\ IsTree(TreeOf(rest)) /\ Nodes(TreeOf(rest)) = Node /\ TreeOf(rest).null = NULL
      /\ TreeOf(rest).children = rest
  BY <1>2, RowsMakeTree
<1>5. LosesChild(tree, TreeOf(rest), c)
  BY <1>1, <1>3, <1>4 DEF LosesChild, old
<1> QED BY <1>2, <1>5 DEF rest, old

(* The options that are left when a node is gone.                          *)
OptionsOutside(t, s, c) == Hits(Below(t, s), Option \ Reach(t.children, {c}))

LEMMA OptionsWithout ==
  ASSUME NEW t, NEW u, NEW c, LosesChild(t, u, c), Nodes(t) = Node, NEW s \in Node,
         s \notin Reach(t.children, {c})
  PROVE  /\ Hits(Below(u, s), Option) = OptionsOutside(t, s, c)
         /\ Hits(Hits(Below(t, s), Option), Node \ Reach(t.children, {c})) = OptionsOutside(t, s, c)
<1> DEFINE below == Below(t, s)
           K == Node \ Reach(t.children, {c})
<1>1. IsTree(t) /\ s \in Nodes(t)
  BY DEF LosesChild
<1>2. Below(u, s) = Hits(below, K)
  BY <1>1, BelowWithout
<1>3. below \in Seq(Node)
  BY <1>1, BelowElements
<1>4. Option \cap K = Option \ Reach(t.children, {c}) /\ K \cap Option = Option \cap K
  BY DEF Option, Are
<1> HIDE DEF below, K
<1>5. Hits(Hits(below, K), Option) = Hits(below, K \cap Option)
  BY <1>3, HitsOfHits
<1>6. Hits(Hits(below, Option), K) = Hits(below, Option \cap K)
  BY <1>3, HitsOfHits
<1> QED BY <1>2, <1>4, <1>5, <1>6 DEF OptionsOutside, below, K

LEMMA BelowIsOutside ==
  ASSUME NEW t, IsTree(t), NEW s \in Nodes(t), NEW c \in ToSet(Below(t, s))
  PROVE  s \notin Reach(t.children, {c})
<1> DEFINE ch == t.children
<1>1. c \in Under(ch, s)
  BY BelowElements
<1>2. /\ ch \in [DOMAIN ch -> Seq(DOMAIN ch)] /\ s \in DOMAIN ch /\ ToSet(ch[s]) \in SUBSET DOMAIN ch
      /\ s \notin Under(ch, s)
  <2>1. IsFamily(ch) /\ DOMAIN ch = Nodes(t)
    BY TreeIsTyped
  <2> HIDE DEF ch
  <2>2. ch \in [DOMAIN ch -> Seq(DOMAIN ch)] /\ s \in DOMAIN ch /\ s \notin Under(ch, s)
    BY <2>1 DEF IsFamily
  <2> QED BY <2>2, ChildrenAreNodes
<1> HIDE DEF ch
<1>3. Reach(ch, {c}) \subseteq Under(ch, s)
  BY <1>1, <1>2, ReachOfMember DEF Under
<1> QED BY <1>2, <1>3 DEF ch

LEMMA OptionsAfterRemoval ==
  ASSUME TreeSound, NEW s \in Are("SELECT"), Walkable(tree, s),
         NEW i \in DOMAIN Hits(Below(tree, s), Option),
         Walkable(TreeOf(Removed(s, i - 1)), s)
  PROVE  Options(TreeOf(Removed(s, i - 1)), s)
           = Hits(Hits(Below(tree, s), Option),
                  Node \ ToSet(AtOrBelow(tree, Hits(Below(tree, s), Option)[i])))
<1> DEFINE order == Hits(Below(tree, s), Option)
           c == order[i]
           u == TreeOf(Without(tree.children, c))
           R == Reach(tree.children, {c})
<1>1. IsTree(tree) /\ Nodes(tree) = Node /\ tree.null = NULL /\ s \in Node
  BY TreeIsTree DEF Are
<1>2. Options(tree, s) = order /\ order \in Seq(Node) /\ ToSet(order) \subseteq ToSet(Below(tree, s))
  BY <1>1, OptionsAreBelow
<1>3. c \in ToSet(order) /\ i - 1 + 1 = i
  <2>1. i \in DOMAIN order
    OBVIOUS
  <2> HIDE DEF order
  <2> QED BY <1>2, <2>1, ToSetOfSeq
<1>4. TreeOf(Removed(s, i - 1)) = u
  BY <1>2, <1>3 DEF Removed
<1>5. c \in Node /\ c \in ToSet(Below(tree, s))
  <2> HIDE DEF c, order
  <2> QED BY <1>2, <1>3, ToSetOfSeq
<1> HIDE DEF c, order
<1>6. LosesChild(tree, u, c) /\ RowsSound(Without(tree.children, c))
  BY <1>5, LosesWithout
<1>7. IsTree(u) /\ Nodes(u) = Node /\ u.null = NULL
  BY <1>6, RowsMakeTree
<1>8. s \notin R
  BY <1>1, <1>5, BelowIsOutside
<1>9. ToSet(AtOrBelow(tree, c)) = R
  BY <1>5, ReachIsAtOrBelow
<1>10. Walkable(u, s)
  BY <1>4
<1> HIDE DEF u
<1>11. Options(u, s) = Hits(Below(u, s), Option)
  BY <1>7, <1>10, OptionsAreBelow
<1>12. /\ Hits(Below(u, s), Option) = OptionsOutside(tree, s, c)
       /\ Hits(Hits(Below(tree, s), Option), Node \ R) = OptionsOutside(tree, s, c)
  BY <1>1, <1>6, <1>8, OptionsWithout
<1> HIDE DEF R
<1> QED BY <1>4, <1>9, <1>11, <1>12 DEF c, order

-----------------------------------------------------------------------------
(* Selects: an option that is added, and taken away again, leaves the rest  *)
(* as it was.                                                              *)

LEMMA AddedLoses ==
  ASSUME TreeSound, NEW s \in Node, NEW o \in Option, NEW b \in ToSet(Children(s)), o # b,
         s \notin ToSet(AtOrBelow(tree, o))
  PROVE  /\ LosesChild(TreeOf(Added(s, o, b)), TreeOf(Without(tree.children, o)), o)
         /\ \E k \in 1 .. Len(Added(s, o, b)[s]) - 1 :
              Added(s, o, b)[s][k] = o /\ Added(s, o, b)[s][k + 1] = b
<1> DEFINE old == tree.children
           rest == Without(old, o)
           new == Added(s, o, b)
           row == rest[s]
<1>1. o \in Node /\ b # NULL
  <2>1. o \in Node
    BY DEF Option, Are
  <2>2. tree.children[s] \in Seq(Node)
    BY DEF TreeSound, RowsSound, Rows
  <2>3. b \in Node
    BY <2>2, ToSetOfSeq DEF Children
  <2> QED BY <2>1, <2>3, NoNodeAssumption
<1>2. RowsSound(new)
  BY AddedSound
<1>3. RowsSound(rest)
  BY <1>1, LosesWithout
<1>4. /\ rest \in Rows
      /\ \A n \in Node : /\ IsInjective(rest[n]) /\ o \notin ToSet(rest[n])
                         /\ ToSet(old[n]) \subseteq ToSet(rest[n]) \cup {o}
  <2>1. old \in Rows /\ \A n \in Node : IsInjective(old[n])
    BY DEF TreeSound, RowsSound, Rows, IsFamily
  <2> HIDE DEF old
  <2> QED BY <2>1, WithoutRows
<1>5. b \in ToSet(row)
  BY <1>4 DEF Children
<1>6. new = InsertedBefore(rest, s, o, b)
  BY DEF Added
<1> HIDE DEF rest
<1>7. PutBefore(new, rest, s, o, b)
  BY <1>1, <1>4, <1>5, <1>6, InsertedRows
<1> HIDE DEF new
<1>8. PICK k \in 1 .. Len(row) + 1 :
        new[s] = InsertAt(row, k, o) /\ k <= Len(row) /\ row[k] = b
  BY <1>1, <1>7 DEF PutBefore
<1>9. row \in Seq(Node) /\ IsInjective(row) /\ o \notin ToSet(row) /\ Len(row) \in Nat
  BY <1>4 DEF Rows
<1> HIDE DEF row
<1>10. /\ RemoveFirst(InsertAt(row, k, o), o) = row
       /\ Len(InsertAt(row, k, o)) = Len(row) + 1 /\ InsertAt(row, k, o)[k] = o
       /\ \A j \in k .. Len(row) : InsertAt(row, k, o)[j + 1] = row[j]
  BY <1>1, <1>9, RemoveInserted
<1>11. k \in 1 .. Len(new[s]) - 1 /\ new[s][k] = o /\ new[s][k + 1] = b
  BY <1>8, <1>9, <1>10
<1>12. \A n \in Node : rest[n] = RemoveFirst(new[n], o)
  <2> SUFFICES ASSUME NEW n \in Node
               PROVE  rest[n] = RemoveFirst(new[n], o)
    OBVIOUS
  <2>1. CASE n = s
    BY <2>1, <1>8, <1>10 DEF row
  <2>2. CASE n # s
    <3>1. new[n] = rest[n]
      BY <2>2, <1>7 DEF PutBefore
    <3>2. rest[n] \in Seq(Node) /\ IsInjective(rest[n]) /\ o \notin ToSet(rest[n])
      BY <1>4 DEF Rows
    <3> QED BY <3>1, <3>2, RemoveFirstIsRemoveAt
  <2> QED BY <2>1, <2>2
<1>13. /\ IsTree(TreeOf(rest)) /\ Nodes(TreeOf(rest)) = Node /\ TreeOf(rest).null = NULL
       /\ TreeOf(rest).children = rest
  BY <1>3, RowsMakeTree
<1>14. /\ IsTree(TreeOf(new)) /\ Nodes(TreeOf(new)) = Node /\ TreeOf(new).null = NULL
       /\ TreeOf(new).children = new
  BY <1>2, RowsMakeTree
<1>15. LosesChild(TreeOf(new), TreeOf(rest), o)
  BY <1>1, <1>12, <1>13, <1>14 DEF LosesChild
<1> QED BY <1>11, <1>15 DEF new, rest

(* The options in t are those in u with c's between, directly before b.    *)
OptionsAround(t, u, s, c, b) ==
  \E x \in Seq(Node), y \in Seq(Node) :
    /\ y # <<>> /\ y[1] = b
    /\ Hits(Below(t, s), Option) = x \o (Hits(AtOrBelow(t, c), Option) \o y)
    /\ Hits(Below(u, s), Option) = x \o y

LEMMA OptionGoesBetween ==
  ASSUME NEW t, NEW u, NEW c, LosesChild(t, u, c), Nodes(t) = Node,
         NEW s \in Node, s \notin Reach(t.children, {c}),
         NEW k \in 1 .. Len(t.children[s]) - 1, t.children[s][k] = c,
         NEW b \in Option, t.children[s][k + 1] = b
  PROVE  OptionsAround(t, u, s, c, b)
<1> DEFINE mid == AtOrBelow(t, c)
           below == Below(t, s)
<1>1. IsTree(t) /\ s \in Nodes(t) /\ c \in Nodes(t) /\ b \in Node
  BY DEF LosesChild, Option, Are
<1>2. BelowSplits(t, s, c, b)
  BY <1>1, BelowAround
<1>3. PICK pre \in Seq(Node), post \in Seq(Node) : below = pre \o (mid \o (<<b>> \o post))
  BY <1>2 DEF BelowSplits
<1>4. /\ mid \in Seq(Node) /\ ToSet(mid) = Reach(t.children, {c})
      /\ IsInjective(below)
  BY <1>1, BelowElements
<1>5. Hits(Below(u, s), Option) = OptionsOutside(t, s, c)
  BY OptionsWithout
<1>6. Hits(Below(u, s), Option) = Hits(below, Option \ ToSet(mid))
  BY <1>4, <1>5 DEF OptionsOutside
<1> HIDE DEF mid, below
<1>7. HitsBetween(Node, below, mid, b, Option)
  BY <1>1, <1>3, <1>4, HitsGoBetween
<1> QED BY <1>6, <1>7 DEF HitsBetween, OptionsAround, mid, below

LEMMA OptionsAfterAdding ==
  ASSUME TreeSound, NEW s \in Are("SELECT"), NEW o \in Option,
         NEW b \in Option \cap ToSet(Children(s)), o # b,
         s \notin ToSet(AtOrBelow(tree, o))
  PROVE  LET rest == Hits(Hits(Below(tree, s), Option), Node \ ToSet(AtOrBelow(tree, o)))
         IN  \E i \in DOMAIN rest :
               /\ rest[i] = b
               /\ Options(TreeOf(Added(s, o, b)), s)
                    = SubSeq(rest, 1, i - 1) \o Hits(AtOrBelow(tree, o), Option)
                        \o SubSeq(rest, i, Len(rest))
<1> DEFINE old == tree.children
           w == TreeOf(Added(s, o, b))
           u == TreeOf(Without(old, o))
           rest == Hits(Hits(Below(tree, s), Option), Node \ ToSet(AtOrBelow(tree, o)))
           moving == Hits(AtOrBelow(tree, o), Option)
<1>1. s \in Node /\ o \in Node /\ b \in Node
  BY DEF Are, Option
<1>2. LosesChild(tree, u, o)
  BY <1>1, LosesWithout
<1>3. LosesChild(w, u, o)
  BY <1>1, AddedLoses
<1>4. PICK k \in 1 .. Len(Added(s, o, b)[s]) - 1 :
        Added(s, o, b)[s][k] = o /\ Added(s, o, b)[s][k + 1] = b
  BY <1>1, AddedLoses
<1>5. RowsSound(Added(s, o, b))
  BY <1>1, AddedSound
<1>6. IsTree(w) /\ Nodes(w) = Node /\ w.null = NULL /\ w.children = Added(s, o, b)
  BY <1>5, RowsMakeTree
<1>7. AtOrBelow(w, o) = AtOrBelow(tree, o)
  <2> HIDE DEF w, u
  <2> QED BY <1>2, <1>3, BelowIsKept
<1>8. ToSet(AtOrBelow(tree, o)) = Reach(old, {o})
  BY <1>1, ReachIsAtOrBelow
<1>9. ToSet(AtOrBelow(w, o)) = Reach(w.children, {o})
  <2> HIDE DEF w
  <2> QED BY <1>1, <1>6, BelowElements
<1>10. Walkable(w, s)
  <2>1. Len(w.children[s]) # 0
    <3>1. w.children[s] \in Seq(Node)
      BY <1>1, <1>5, <1>6 DEF RowsSound, Rows
    <3>2. Len(w.children[s]) \in Nat
      <4> HIDE DEF w
      <4> QED BY <3>1, LenProperties
    <3> QED BY <1>4, <1>6, <3>2
  <2> QED BY <2>1 DEF Walkable
<1>11. Options(w, s) = Hits(Below(w, s), Option)
  <2> HIDE DEF w
  <2> QED BY <1>6, <1>10, OptionsAreBelow
<1>12. Nodes(tree) = Node
  BY TreeIsTree
<1>13. s \notin Reach(old, {o})
  BY <1>8
<1>14. Hits(Below(u, s), Option) = rest
  <2>1. /\ Hits(Below(u, s), Option) = OptionsOutside(tree, s, o)
        /\ Hits(Hits(Below(tree, s), Option), Node \ Reach(old, {o})) = OptionsOutside(tree, s, o)
    <3> HIDE DEF u
    <3> QED BY <1>1, <1>2, <1>12, <1>13, OptionsWithout
  <2> HIDE DEF u, old
  <2> QED BY <1>8, <2>1
<1>15. s \notin Reach(w.children, {o})
  BY <1>7, <1>8, <1>9, <1>13
<1>16. k \in 1 .. Len(w.children[s]) - 1 /\ w.children[s][k] = o /\ w.children[s][k + 1] = b
  BY <1>4, <1>6
<1>17. PICK x \in Seq(Node), y \in Seq(Node) :
         /\ y # <<>> /\ y[1] = b
         /\ Hits(Below(w, s), Option) = x \o (Hits(AtOrBelow(w, o), Option) \o y)
         /\ Hits(Below(u, s), Option) = x \o y
  <2> HIDE DEF w, u
  <2>1. b \in Option
    OBVIOUS
  <2>2. OptionsAround(w, u, s, o, b)
    BY ONLY <1>1, <1>3, <1>6, <1>15, <1>16, <2>1, OptionGoesBetween
  <2> QED BY <2>2 DEF OptionsAround
<1>18. rest = x \o y
  BY <1>14, <1>17
<1>19. Options(w, s) = x \o (moving \o y)
  BY <1>7, <1>11, <1>17
<1>20. moving \in Seq(Node)
  <2>1. AtOrBelow(tree, o) \in Seq(Node)
    BY <1>1, TreeIsTree, BelowElements
  <2> QED BY <2>1, HitsProperties
<1> HIDE DEF w, u, rest, moving
<1>21. x \o (moving \o y) = (x \o moving) \o y
  BY ONLY <1>20
<1>22. /\ SubSeq(x \o y, 1, Len(x)) = x
       /\ SubSeq(x \o y, Len(x) + 1, Len(x \o y)) = y
       /\ Len(x) + 1 \in 1 .. Len(x \o y) /\ (x \o y)[Len(x) + 1] = y[1]
  BY <1>17, HalvesOfConcat
<1> DEFINE i == Len(x) + 1
<1>23. i - 1 = Len(x)
  BY LenProperties
<1>24. i \in DOMAIN rest
  <2>1. x \o y \in Seq(Node)
    OBVIOUS
  <2> QED BY <1>18, <1>22, <2>1, ToSetOfSeq
<1>25. rest[i] = b
  BY <1>17, <1>18, <1>22
<1>26. SubSeq(rest, 1, i - 1) = x /\ SubSeq(rest, i, Len(rest)) = y
  BY <1>18, <1>22, <1>23
<1>27. Options(w, s) = SubSeq(rest, 1, i - 1) \o moving \o SubSeq(rest, i, Len(rest))
  BY <1>19, <1>21, <1>26
<1> HIDE DEF i
<1> QED BY <1>24, <1>25, <1>27 DEF rest, moving, w

(* Options are moved, and number themselves, by the select's order.        *)
LEMMA TreeImpliesOrder == TreeSound => OptionsKeepOrder
<1> SUFFICES ASSUME TreeSound
             PROVE  OptionsMoveAsAsked
  BY TreeImpliesIndex DEF OptionsKeepOrder
<1>1. \A s \in Are("SELECT") : Walkable(tree, s) =>
        \A i \in DOMAIN Hits(Below(tree, s), Option) :
          Walkable(TreeOf(Removed(s, i - 1)), s) =>
            Options(TreeOf(Removed(s, i - 1)), s)
              = Hits(Hits(Below(tree, s), Option),
                     Node \ ToSet(AtOrBelow(tree, Hits(Below(tree, s), Option)[i])))
  BY OptionsAfterRemoval
<1>2. \A s \in Are("SELECT") : \A o \in Option, b \in Option \cap ToSet(Children(s)) :
        o # b /\ s \notin ToSet(AtOrBelow(tree, o)) =>
          LET rest == Hits(Hits(Below(tree, s), Option), Node \ ToSet(AtOrBelow(tree, o)))
          IN  \E i \in DOMAIN rest :
                /\ rest[i] = b
                /\ Options(TreeOf(Added(s, o, b)), s)
                     = SubSeq(rest, 1, i - 1) \o Hits(AtOrBelow(tree, o), Option)
                         \o SubSeq(rest, i, Len(rest))
  BY OptionsAfterAdding
<1> QED BY <1>1, <1>2 DEF OptionsMoveAsAsked

-----------------------------------------------------------------------------
(* The theorems.                                                           *)

LEMMA NextInvariance == IInv /\ [Next]_vars => IInv'
<1> SUFFICES ASSUME IInv, [Next]_vars
             PROVE  IInv'
  OBVIOUS
<1>1. CASE UNCHANGED vars
  BY <1>1, CrashInvariance DEF vars
<1>2. ASSUME NEW c \in Node, NEW d \in Node, NEW deep \in BOOLEAN, Copy(c, d, deep)
      PROVE  IInv'
  BY <1>2, CopyInvariance
<1> QED BY <1>1, <1>2, SelectInvariance, DefaultInvariance, CheckInvariance, TextInvariance,
           MoveInvariance DEF Next

(* The inductive invariant of the controls and their tree.                 *)
THEOREM FormsInvariance == Spec => []IInv
<1>1. Init => IInv
  BY InitInvariance
<1>2. IInv /\ [Next]_vars => IInv'
  BY NextInvariance
<1> QED BY <1>1, <1>2, PTL DEF Spec

(* What a reset would give back is what the document said, for any number  *)
(* of controls and values: the default of an input or option is what its   *)
(* attribute was first given unless the client set it, and that of a text  *)
(* area is the text before the first value, in copies as in the original   *)
(* (parse_attribute, dom_html_text_area_element_set_value, copy_internal). *)
THEOREM DefaultsStayOriginal == Spec => []DefaultsAreOriginal
<1>1. Spec => []IInv
  BY FormsInvariance
<1>2. IInv => DefaultsAreOriginal
  BY InvariantImpliesDefaults
<1> QED BY <1>1, <1>2, PTL

(* The index and the value of a select are those of the first option in it *)
(* that is selected, in trees of any size and depth, after any calls       *)
(* (get_selected_index, get_value, set_selected_index).                    *)
THEOREM SelectionStaysFirst == Spec => []SelectionIsFirst
<1>1. IInv => SelectionIsFirst
  BY TreeImpliesSelection DEF IInv
<1> QED BY <1>1, FormsInvariance, PTL

(* The option that is removed is the one that was asked for, one that is   *)
(* added comes directly before the one asked for, with what is below       *)
(* either, whatever the place of the options in the tree; and an option    *)
(* that is a child knows its index (dom_html_select_element_remove, add,   *)
(* dom_html_option_element_get_index).                                     *)
THEOREM OptionsStayInOrder == Spec => []OptionsKeepOrder
<1>1. IInv => OptionsKeepOrder
  BY TreeImpliesOrder DEF IInv
<1> QED BY <1>1, FormsInvariance, PTL

(* A form lists the controls of the document that point at it, once each   *)
(* in document order, and an option finds the form of the innermost select *)
(* around it (get_elements, dom_html_option_element_get_form).             *)
THEOREM FormsListTheirControls == Spec => []FormListsItsControls
<1>1. IInv => FormListsItsControls
  BY TreeImpliesElements DEF IInv
<1> QED BY <1>1, FormsInvariance, PTL
=============================================================================
