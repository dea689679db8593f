------------------------------- MODULE TextRuns -------------------------------
(***************************************************************************)
(* Character data and text (src/core/characterdata.c, src/core/text.c; the *)
(* text content and normalisation of nodes, src/core/node.c).              *)
(*                                                                         *)
(* Offsets and counts are unsigned numbers of Width bits of which the code *)
(* refuses those with the top bit set; reference counts wrap around alike. *)
(* Characters have no bytes here, a string is the sequence of them.        *)
(***************************************************************************)
EXTENDS Integers, FiniteSets, Collections

CONSTANTS
  Kind,       \* [Node -> kinds]
  Char,       \* characters
  Width,      \* bits of an unsigned number, 32 in the code
  Pools,      \* bounds: the nodes a behaviour uses, and what it does to them
  MaxLength,  \* bound: characters in a node
  MaxHeld     \* bound: references clients hold on a node

Text == {n \in Node : Kind[n] = "text"}
Data == {n \in Node : Kind[n] \in {"text", "cdata", "comment"}}
Element == {n \in Node : Kind[n] = "element"}

Unsigned == 0 .. 2 ^ Width - 1
Add(a, b) == (a + b) % 2 ^ Width
Negative(n) == n >= 2 ^ (Width - 1)
Strings == UNION {[1 .. k -> Char] : k \in 0 .. MaxLength}

ASSUME KindAssumption == Kind \in [Node -> {"element", "text", "cdata", "comment"}]
ASSUME WidthAssumption == Width \in Nat /\ MaxHeld < 2 ^ Width - 1
ASSUME PoolAssumption ==
  Pools \subseteq [nodes : SUBSET Node, does : SUBSET {"split", "edit", "normalize", "replace", "refs"},
                   writes : SUBSET Strings]

VARIABLES
  tree,     \* the children and parent of each node
  pool,     \* which of the bounds this behaviour keeps to
  data,     \* the characters of each node
  live,     \* the nodes that are allocated
  held,     \* the references clients hold,
  refcnt,   \*   and those the node counts
  crashed   \* a call went through a null pointer

vars == <<tree, pool, data, live, held, refcnt, crashed>>

-----------------------------------------------------------------------------
(* Strings, between character offsets that are in the string.              *)

StringSubstr(s, i1, i2) == SubSeq(s, i1 + 1, i2)
StringConcat(s1, s2) == s1 \o s2
StringInsert(target, source, offset) ==
  SubSeq(target, 1, offset) \o source \o SubSeq(target, offset + 1, Len(target))
StringReplace(target, source, i1, i2) ==
  SubSeq(target, 1, i1) \o source \o SubSeq(target, i2 + 1, Len(target))

-----------------------------------------------------------------------------
(* Editing.  What the editing functions return is a string, or Fault if    *)
(* they refuse the offset or the count.                                    *)

(* Mutant: the count's top bit is not looked at.                           *)
BadRange_OffsetOnly(s, offset, count) == Negative(offset) \/ offset > Len(s)

BadRange(s, offset, count) ==
  Negative(offset) \/ Negative(count) \/ offset > Len(s)

RangeEnd(s, offset, count) ==
  IF Add(offset, count) >= Len(s) THEN Len(s) ELSE Add(offset, count)

ReplacedIn(s, offset, count, new) ==
  IF BadRange(s, offset, count) THEN Fault
  ELSE StringReplace(s, new, offset, RangeEnd(s, offset, count))

DeletedFrom(s, offset, count) == ReplacedIn(s, offset, count, <<>>)

InsertedInto(s, offset, new) ==
  IF Negative(offset) \/ offset > Len(s) THEN Fault
  ELSE StringInsert(s, new, offset)

Substring(s, offset, count) ==
  IF BadRange(s, offset, count) THEN Fault
  ELSE StringSubstr(s, offset, RangeEnd(s, offset, count))

-----------------------------------------------------------------------------
(* Text around a node.                                                     *)

(* The whole text goes as far as the nearest text on either side, past     *)
(* CDATA, whose characters it leaves out, and no further.                  *)
Nearest(t, siblings) ==
  LET stop(n) == Kind[n] \in {"element", "comment"}
      stops == SelectInSeq(siblings, stop)
      near == IF stops = 0 THEN siblings ELSE SubSeq(siblings, 1, stops - 1)
  IN  SelectInSeq(near, LAMBDA n : n \in Text)

CharsOf(d, siblings, i) == IF i = 0 THEN <<>> ELSE d[siblings[i]]

WholeText(t, d, n) ==
  LET siblings == t.children[Up(t, n)]
      i     == SelectInSeq(siblings, LAMBDA c : c = n)
      left  == Reverse(SubSeq(siblings, 1, i - 1))
      right == SubSeq(siblings, i + 1, Len(siblings))
  IN  IF Up(t, n) = NULL THEN Fault
      ELSE CharsOf(d, left, Nearest(t, left)) \o d[n] \o CharsOf(d, right, Nearest(t, right))

(* Mutant: an element's own texts come before those of the elements in it. *)
RECURSIVE TextContent_OwnFirst(_, _)
TextContent_OwnFirst(t, n) ==
  IF n \in Data THEN data[n]
  ELSE LET own == SelectSeq(t.children[n], LAMBDA c : Kind[c] \in {"text", "cdata"})
           parts == own \o SelectSeq(t.children[n], LAMBDA c : c \in Element)
       IN  FlattenSeq([i \in DOMAIN parts |-> TextContent_OwnFirst(t, parts[i])])

RECURSIVE TextContent(_, _)
TextContent(t, n) ==
  IF n \in Data THEN data[n]
  ELSE LET counted == SelectSeq(t.children[n], LAMBDA c : Kind[c] # "comment")
       IN  FlattenSeq([i \in DOMAIN counted |-> TextContent(t, counted[i])])

-----------------------------------------------------------------------------
(* What a call makes of the nodes: tree, data, live and refcnt in a record.*)

Now == [tree |-> tree, data |-> data, live |-> live, refcnt |-> refcnt]

Without(t, n) ==
  TreeOf([p \in Node |-> SelectSeq(t.children[p], LAMBDA c : c # n)])

(* What is not at or below a node that somebody references is destroyed.   *)
Settled(st) ==
  LET use == UNION {ToSet(AtOrBelow(st.tree, n)) : n \in {m \in st.live : st.refcnt[m] > 0}}
  IN  [st EXCEPT !.live = use,
                 !.tree = TreeOf([p \in Node |-> IF p \in use THEN st.tree.children[p] ELSE <<>>])]

Removed(st, n) == [st EXCEPT !.tree = Without(@, n)]

(* remove_child, and the reference it returns given back.                  *)
TakenOut(st, n) == Settled(Removed(st, n))

Counted(st, n, k) == [st EXCEPT !.refcnt[n] = Add(@, k)]

Edited(st, n, s) == [st EXCEPT !.data[n] = s]

(* Two texts in a row: the whole text of the second is appended to the     *)
(* first, and the second is detached and loses a reference.                *)
Merged(st, first, second) ==
  LET appended == Edited(st, first, StringConcat(st.data[first], WholeText(st.tree, st.data, second)))
  IN  Settled(Counted(Removed(appended, second), second, 2 ^ Width - 1))

(* Mutant: the walk goes on behind the node after the merged one.          *)
RECURSIVE NormalFrom_Past(_, _, _)
NormalFrom_Past(st, p, i) ==
  LET ch == st.tree.children[p]
  IN  IF i > Len(ch) THEN st
      ELSE NormalFrom_Past(IF ch[i] \in Text /\ ch[i - 1] \in Text
                           THEN Merged(st, ch[i - 1], ch[i]) ELSE st, p, i + 1)

(* Normalisation from the i-th child of p on; children are normalised when *)
(* they are not the first.                                                 *)
RECURSIVE NormalFrom(_, _, _)
NormalFrom(st, p, i) ==
  LET ch == st.tree.children[p]
  IN  IF i > Len(ch) THEN st
      ELSE IF ch[i] \in Text /\ ch[i - 1] \in Text
      THEN NormalFrom(Merged(st, ch[i - 1], ch[i]), p, i)
      ELSE NormalFrom(IF ch[i] \in Text THEN st ELSE NormalFrom(st, ch[i], 2), p, i + 1)

Normalized(p) == NormalFrom(Now, p, 2)

-----------------------------------------------------------------------------
(* Actions.                                                                *)

Become(st) ==
  /\ \A n \in st.live : Len(st.data[n]) <= MaxLength
  /\ tree' = st.tree /\ data' = st.data /\ live' = st.live /\ refcnt' = st.refcnt
  /\ UNCHANGED pool

Known(n) == n \in live /\ held[n] > 0
Kept == UNCHANGED <<held, crashed>>
Take(n) == held[n] < MaxHeld /\ held' = [held EXCEPT ![n] = @ + 1]

Born(st, n, s, references) ==
  [st EXCEPT !.live = @ \cup {n}, !.data[n] = s, !.refcnt[n] = references]

Unborn(n) == n \in pool.nodes \ live /\ held[n] = 0

Create(n, s) ==
  /\ Unborn(n)
  /\ Become(Born(Now, n, IF n \in Element THEN <<>> ELSE s, 1))
  /\ Take(n) /\ UNCHANGED crashed

AppendChild(p, c) ==
  /\ Known(p) /\ Known(c) /\ p \in Element
  /\ p \notin ToSet(AtOrBelow(tree, c))
  /\ Become([Now EXCEPT !.tree = TreeOf([Without(tree, c).children EXCEPT ![p] = Append(@, c)])])
  /\ Kept

RemoveChild(c) ==
  /\ c \in live /\ Up(tree, c) # NULL
  /\ Become(TakenOut(Now, c)) /\ Kept

Hold(n) ==
  /\ n \in live /\ Become(Counted(Now, n, 1))
  /\ Take(n) /\ UNCHANGED crashed

Release(n) ==
  /\ Known(n)
  /\ Become(Settled(Counted(Now, n, 2 ^ Width - 1)))
  /\ held' = [held EXCEPT ![n] = @ - 1] /\ UNCHANGED crashed

(* Every edit announces itself to the parent, which a detached node has    *)
(* not; the node has been changed by then.                                 *)
Edit(n, s) ==
  /\ Known(n) /\ n \in Data
  /\ s # Fault
  /\ Become(Edited(Now, n, s))
  /\ crashed' = (Up(tree, n) = NULL) /\ UNCHANGED held

SetData(n, s) == Edit(n, s)
AppendData(n, s) == Edit(n, StringConcat(data[n], s))
InsertData(n, offset, s) == Edit(n, InsertedInto(data[n], offset, s))
ReplaceData(n, offset, count, s) == Edit(n, ReplacedIn(data[n], offset, count, s))
DeleteData(n, offset, count) == Edit(n, DeletedFrom(data[n], offset, count))

SplitOff(s, offset) == Substring(s, offset, Len(s) - offset)

(* The new node is not put into the tree.                                  *)
SplitText(n, offset, new) ==
  /\ Known(n) /\ n \in Text /\ Unborn(new) /\ new \in Text
  /\ offset < Len(data[n])
  /\ SplitOff(data[n], offset) # Fault
  /\ Become(Edited(Born(Now, new, SplitOff(data[n], offset), 1),
                   n, DeletedFrom(data[n], offset, Len(data[n]) - offset)))
  /\ Take(new) /\ crashed' = (Up(tree, n) = NULL)

(* The text removes its neighbours, and itself, and is edited then.  One   *)
(* without a parent has no siblings to begin with.                         *)
ReplaceWholeText(n, s) ==
  LET siblings == tree.children[Up(tree, n)]
      i     == SelectInSeq(siblings, LAMBDA c : c = n)
      left  == Reverse(SubSeq(siblings, 1, i - 1))
      right == SubSeq(siblings, i + 1, Len(siblings))
      less(st, row) == IF Nearest(tree, row) = 0 THEN st ELSE TakenOut(st, row[Nearest(tree, row)])
  IN  /\ Known(n) /\ n \in Text
      /\ Become(IF Up(tree, n) = NULL THEN Now
                ELSE Edited(less(TakenOut(less(Now, left), n), right), n, s))
      /\ crashed' = (Up(tree', n) = NULL) /\ UNCHANGED held

Normalize(p) ==
  /\ Known(p) /\ p \in Element
  /\ Become(Normalized(p)) /\ Kept

(* Mutant: the new text keeps the reference it was created with.           *)
TextSet_Leaking(p, s, new) ==
  Born([Settled([Now EXCEPT !.tree.children[p] = <<>>])
        EXCEPT !.tree = TreeOf([@.children EXCEPT ![p] = <<new>>])], new, s, 1)

TextSet(p, s, new) ==
  Born([Settled([Now EXCEPT !.tree.children[p] = <<>>])
        EXCEPT !.tree = TreeOf([@.children EXCEPT ![p] = <<new>>])], new, s, 0)

SetTextContent(p, s, new) ==
  /\ Known(p) /\ p \in Element /\ Unborn(new) /\ new \in Text
  /\ Become(TextSet(p, s, new)) /\ Kept

-----------------------------------------------------------------------------
Init ==
  /\ tree = TreeOf([n \in Node |-> <<>>])
  /\ pool \in Pools
  /\ data = [n \in Node |-> <<>>]
  /\ live = {} /\ crashed = FALSE
  /\ held = [n \in Node |-> 0] /\ refcnt = held

Next ==
  /\ ~crashed
  /\ \/ \E n \in Node : Release(n) \/ \E s \in pool.writes : Create(n, s)
     \/ \E p, c \in Node : AppendChild(p, c)
     \/ "refs" \in pool.does /\ \E n \in Node : Hold(n) \/ RemoveChild(n)
     \/ "edit" \in pool.does /\ \E n \in Node, s \in pool.writes, i, k \in Unsigned :
          \/ SetData(n, s) \/ AppendData(n, s) \/ InsertData(n, i, s)
          \/ DeleteData(n, i, k) \/ ReplaceData(n, i, k, s)
     \/ "split" \in pool.does /\ \E n, new \in Node, i \in Unsigned : SplitText(n, i, new)
     \/ "replace" \in pool.does /\ \E n, new \in Node, s \in pool.writes :
          ReplaceWholeText(n, s) \/ SetTextContent(n, s, new)
     \/ "normalize" \in pool.does /\ \E p \in Node : Normalize(p)

Spec == Init /\ [][Next]_vars

-----------------------------------------------------------------------------
(* Properties.                                                             *)

(* Types; a node is in one tree at a time, below nodes that are allocated. *)
TypeOK ==
  /\ \A p \in Node : \A c \in ToSet(tree.children[p]) :
       {p, c} \subseteq live /\ Up(tree, c) = p
  /\ data \in [Node -> Seq(Char)] /\ \A n \in live : Len(data[n]) <= MaxLength
  /\ held \in [Node -> 0 .. MaxHeld] /\ refcnt \in [Node -> Unsigned]
  /\ pool \in Pools /\ crashed \in BOOLEAN

(* Edits are refused, or keep every character before the offset and every  *)
(* one from offset + count on, for every pair of unsigned numbers: no sum  *)
(* wraps around to a place before the offset.                              *)
EditsAreLocal ==
  \A n \in Data \cap live, offset, count \in Unsigned, s \in pool.writes :
    LET edited == ReplacedIn(data[n], offset, count, s)
        behind == Len(data[n]) - (offset + count)
    IN  edited # Fault =>
          /\ offset <= Len(data[n])
          /\ SubSeq(edited, 1, offset) = SubSeq(data[n], 1, offset)
          /\ Len(edited) = offset + Len(s) + IF behind > 0 THEN behind ELSE 0
          /\ \A k \in 1 .. behind :
               edited[Len(edited) - behind + k] = data[n][offset + count + k]

(* Splitting a text loses and repeats no character: the two nodes have     *)
(* what the one had.                                                       *)
SplitLosesNothing ==
  \A n \in Text \cap live : \A offset \in 0 .. Len(data[n]) - 1 :
    SplitOff(data[n], offset) # Fault =>
      DeletedFrom(data[n], offset, Len(data[n]) - offset) \o SplitOff(data[n], offset)
        = data[n]

(* Edits and splits leave alone what they were not given.                  *)
EditsLoseNothing == EditsAreLocal /\ SplitLosesNothing

(* The text content of a node is that of the texts and CDATA sections      *)
(* below it, at whatever depth, in document order.                         *)
TextContentInOrder ==
  \A n \in Element \cap live :
    LET texts == SelectSeq(Below(tree, n), LAMBDA c : Kind[c] \in {"text", "cdata"})
    IN  TextContent(tree, n) = FlattenSeq([i \in DOMAIN texts |-> data[texts[i]]])

(* "Only structure separates texts" (comment of _dom_node_normalize) among *)
(* the children of a normalised node; and what is not text stays as it is. *)
NormalizeSeparates ==
  \A p \in Element \cap live :
    LET before == tree.children[p]
        after  == Normalized(p).tree.children[p]
        structure(row) == SelectSeq(row, LAMBDA c : c \notin Text)
    IN  /\ \A i \in 1 .. Len(after) - 1 : {after[i], after[i + 1]} \cap Text # {after[i], after[i + 1]}
        /\ structure(after) = structure(before)

(* Normalising moves text between nodes, and neither adds nor loses any:   *)
(* two adjacent texts are merged into one (_dom_merge_adjacent_text).      *)
NormalizeKeepsText ==
  [][\A p \in Element : Normalize(p) => TextContent(tree, p)' = TextContent(tree, p)]_vars

(* A text in a tree whose whole text was replaced is there with the new    *)
(* text, and no other around it (_dom_text_replace_whole_text).            *)
WholeTextIsReplaced ==
  [][\A n \in Text, s \in pool.writes :
       Up(tree, n) # NULL /\ ReplaceWholeText(n, s) =>
         ~crashed' /\ WholeText(tree', data', n) = s]_vars

(* Where nothing is normalised nodes count the references clients hold, on *)
(* nodes that are allocated, and what nobody references is in a tree.      *)
RefsCounted ==
  "normalize" \notin pool.does =>
    /\ \A n \in live : refcnt[n] = held[n] /\ (held[n] = 0 => Up(tree, n) # NULL)
    /\ \A n \in Node \ live : held[n] = 0

(* Nodes are in one tree at a time and counted where they are used.        *)
NodesAreSound == TypeOK /\ RefsCounted
=============================================================================
