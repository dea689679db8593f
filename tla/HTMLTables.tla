----------------------------- MODULE HTMLTables -----------------------------
(***************************************************************************)
(* Tables (src/html/html_table_element.c, html_tablesection_element.c,     *)
(* html_tablerow_element.c, html_tablecell_element.c).  A table has no     *)
(* state but the tree: captions, sections, rows and cells are found by     *)
(* name among its children, and counted by collections, whenever they are  *)
(* needed.  A call that reads through a null pointer ends the program.     *)
(* References are the subject of NodeLifetime: a node that leaves the tree *)
(* is still there for the client to insert again.                          *)
(***************************************************************************)
EXTENDS Integers, FiniteSets, Collections

CONSTANTS
  Kind,     \* [Node -> tag names]
  Table,    \* the table
  Pools,    \* the sets of nodes that a run may use
  Outside,  \* [Pools -> [Node -> children]]: what is there from the start
  Contents, \* [tag -> tags]: what clients append to an element of that tag
  IndexError, NotFound   \* errors

ASSUME TableAssumption == Table \in Node /\ Kind[Table] = "TABLE"

VARIABLES
  tree,       \* the children and parent of each node
  pool,       \* the nodes of this behaviour
  crashed     \* a call went through a null pointer

vars == <<tree, pool, crashed>>

Are(tag) == {n \in Node : Kind[n] = tag}
Children(n) == tree.children[n]
ParentOf(n) == Up(tree, n)

(* A node that a call may create: one that is nowhere and has nothing.     *)
Fresh(tag) ==
  {n \in (pool \cap Are(tag)) \ {Table} : ParentOf(n) = NULL /\ Children(n) = <<>>}
Made(tag) == CHOOSE n \in Fresh(tag) : TRUE

(* The first child with a tag.                                             *)
FirstOf(n, tag) ==
  LET i == SelectInSeq(Children(n), LAMBDA c : Kind[c] = tag)
  IN  IF i = 0 THEN NULL ELSE Children(n)[i]

InsertedBefore(ch, p, c, ref) ==
  LET i == IF ref = NULL THEN Len(ch[p]) + 1
           ELSE SelectInSeq(ch[p], LAMBDA x : x = ref)
  IN  [ch EXCEPT ![p] = InsertAt(@, i, c)]

Without(ch, c) == [p \in Node |-> SelectSeq(ch[p], LAMBDA x : x # c)]

Rows(n) == CollectionLength(tree, n, Are("TR"))
RowAt(n, i) == CollectionItem(tree, n, Are("TR"), i)
Cells(n) == CollectionLength(tree, n, Are("TD"))
CellAt(n, i) == CollectionItem(tree, n, Are("TD"), i)

Become(ch) == tree' = TreeOf(ch) /\ UNCHANGED <<pool, crashed>>
Crash == crashed' = TRUE /\ UNCHANGED <<tree, pool>>

-----------------------------------------------------------------------------
(* Captions, heads and feet.                                               *)

GetPart(tag) == FirstOf(Table, tag)

CreatePart(tag) ==
  /\ GetPart(tag) = NULL
  /\ Fresh(tag) # {}
  /\ Become(InsertedBefore(tree.children, Table, Made(tag), NULL))

DeletePart(tag) ==
  /\ GetPart(tag) # NULL
  /\ Become(Without(tree.children, GetPart(tag)))

(* Mutant: the new part is appended before the old one is deleted.         *)
PartSet_AppendFirst(tag, part) ==
  LET with == InsertedBefore(Without(tree.children, part), Table, part, NULL)
      i == SelectInSeq(with[Table], LAMBDA c : Kind[c] = tag)
  IN  Without(with, with[Table][i])

(* The old part is deleted, then the new one appended wherever it was.     *)
PartSet(tag, part) ==
  LET rest == IF GetPart(tag) = NULL THEN tree.children
              ELSE Without(tree.children, GetPart(tag))
  IN  InsertedBefore(Without(rest, part), Table, part, NULL)

(* The head is tested for the name of a caption.                           *)
NameTested(tag) == IF tag = "THEAD" THEN "CAPTION" ELSE tag

SetPart(tag, part) ==
  /\ Kind[part] = NameTested(tag)
  /\ part \in pool
  /\ Become(PartSet(tag, part))

-----------------------------------------------------------------------------
(* Rows of a section.                                                      *)

(* The outcome of a call is a tree, or an error, or Fault.                 *)

(* Mutant: an index counts from one.                                       *)
SectionInsert_FromOne(s, new, i) ==
  LET len == Rows(s)
  IN  IF len = Fault THEN Fault
      ELSE IF i < -1 \/ i > len THEN IndexError
      ELSE IF i \in {-1, len} THEN InsertedBefore(tree.children, s, new, NULL)
      ELSE InsertedBefore(tree.children, s, new,
             IF i = 0 THEN RowAt(s, 0) ELSE RowAt(s, i - 1))

(* A row of a nested table counts, and is not found as a child.            *)
SectionInsert(s, new, i) ==
  LET len == Rows(s)
  IN  IF len = Fault THEN Fault
      ELSE IF i < -1 \/ i > len THEN IndexError
      ELSE IF i \in {-1, len} THEN InsertedBefore(tree.children, s, new, NULL)
      ELSE IF RowAt(s, i) \notin ToSet(Children(s)) THEN NotFound
      ELSE InsertedBefore(tree.children, s, new, RowAt(s, i))

SectionDelete(s, i) ==
  LET len == Rows(s)
      row == RowAt(s, IF i = -1 THEN len - 1 ELSE i)
  IN  IF len = Fault THEN Fault
      ELSE IF i < -1 \/ i >= len \/ len = 0 THEN IndexError
      ELSE IF row \notin ToSet(Children(s)) THEN NotFound
      ELSE Without(tree.children, row)

-----------------------------------------------------------------------------
(* Rows of the table: the head, the bodies and the foot in turn each are a *)
(* window on the rows; the one that the index falls in takes the call.     *)

Bodies == SelectSeq(Children(Table), LAMBDA c : Kind[c] = "TBODY")
Sections == <<GetPart("THEAD")>> \o Bodies \o <<GetPart("TFOOT")>>

(* How many rows come before section k.                                    *)
Window(k) ==
  FoldLeft(LAMBDA sum, s : sum + Rows(s), 0, SubSeq(Sections, 1, k - 1))

(* The number of the first section that takes an index, or else ends where *)
(* the rows of the table end; NULL if none does.  Sections are asked in    *)
(* turn: one that is not there, or cannot be counted, is a fault.          *)
Chosen(i, end) ==
  LET Asked(k) == Sections[k] # NULL /\ Rows(Sections[k]) # Fault
      Hit(k) == LET w == Window(k) n == Rows(Sections[k])
                IN  w + n > i \/ w + n = end
      stops == {k \in DOMAIN Sections : ~Asked(k)}
      counted == {k \in DOMAIN Sections : \A j \in stops : k < j}
      hits == {k \in counted : Hit(k)}
  IN  IF hits # {} THEN CHOOSE k \in hits : \A j \in hits : k <= j
      ELSE IF stops # {} THEN Fault ELSE NULL

(* The first row of a table goes into its first body, made if need be.     *)
FirstRow(new) ==
  LET body == CollectionItem(tree, Table, Are("TBODY"), 0)
  IN  IF body # NULL THEN InsertedBefore(tree.children, body, new, NULL)
      ELSE [InsertedBefore(tree.children, Table, Made("TBODY"), NULL)
            EXCEPT ![Made("TBODY")] = <<new>>]

(* What the section that was chosen makes of the call.                     *)
ForSection(k, Result(_)) ==
  CASE k = NULL -> IndexError
    [] k = Fault -> Fault
    [] OTHER -> Result(k)

(* Inserting and deleting a row among the len rows of the table.           *)
InsertAmong(new, index, len) ==
  IF len = Fault THEN Fault
  ELSE IF index > len \/ index < -1 THEN IndexError
  ELSE IF len = 0 THEN FirstRow(new)
  ELSE LET i == IF index = -1 THEN len ELSE index
       IN  ForSection(Chosen(i, len),
                      LAMBDA k : SectionInsert(Sections[k], new, i - Window(k)))

TableInsert(new, index) == InsertAmong(new, index, Rows(Table))

DeleteAmong(index, len) ==
  IF len = Fault THEN Fault
  ELSE IF index >= len \/ index < -1 \/ len = 0 THEN IndexError
  ELSE LET i == IF index = -1 THEN len - 1 ELSE index
       IN  ForSection(Chosen(i, NULL),
                      LAMBDA k : SectionDelete(Sections[k], i - Window(k)))

TableDelete(index) == DeleteAmong(index, Rows(Table))

Do(outcome) ==
  CASE outcome = Fault -> Crash
    [] outcome \in {IndexError, NotFound} -> UNCHANGED vars
    [] OTHER -> Become(outcome)

(* Bound: the nodes that a call creates.                                   *)
MayInsert ==
  /\ Fresh("TR") # {}
  /\ Fresh("TBODY") # {} \/ Hits(Below(tree, Table), Are("TBODY")) # <<>>

InsertRow(index) ==
  MayInsert /\ \E outcome \in {TableInsert(Made("TR"), index)} : Do(outcome)
DeleteRow(index) == \E outcome \in {TableDelete(index)} : Do(outcome)

Section == Are("THEAD") \cup Are("TBODY") \cup Are("TFOOT")

SectionInsertRow(s, i) == Fresh("TR") # {} /\ Do(SectionInsert(s, Made("TR"), i))
SectionDeleteRow(s, i) == Do(SectionDelete(s, i))

-----------------------------------------------------------------------------
(* The index of a row in its table, and of a cell in its row.              *)

Before(p, c) == SubSeq(Children(p), 1, SelectInSeq(Children(p), LAMBDA x : x = c) - 1)
SectionRowIndex(r) ==
  Len(SelectSeq(Before(ParentOf(r), r), LAMBDA x : Kind[x] = "TR"))

(* Mutant: the rows of the head are forgotten.                             *)
PrecedingSections_NoHead(s) ==
  IF Kind[s] = "THEAD" THEN <<>>
  ELSE SelectSeq(Before(ParentOf(s), s), LAMBDA x : Kind[x] = "TBODY")

(* Before the rows of a section come those of the head, and of the bodies  *)
(* that are before the section in the table.                               *)
PrecedingSections(s) ==
  LET head == FirstOf(ParentOf(s), "THEAD")
  IN  IF Kind[s] = "THEAD" THEN <<>>
      ELSE (IF head = NULL THEN <<>> ELSE <<head>>)
             \o SelectSeq(Before(ParentOf(s), s), LAMBDA x : Kind[x] = "TBODY")

RowIndex(r) ==
  LET counted == PrecedingSections(ParentOf(r))
  IN  IF \E s \in ToSet(counted) : Rows(s) = Fault THEN Fault
      ELSE SectionRowIndex(r) + FoldLeft(LAMBDA sum, s : sum + Rows(s), 0, counted)

(* The walk from the row to the cell counts data and header cells.         *)
CellIndex(t, r, c) ==
  LET path == CollectionPath(t, r)
      before == SubSeq(path, 1, SelectInSeq(path, LAMBDA x : x = c) - 1)
  IN  Len(Hits(before, Are("TD") \cup Are("TH")))

CellInsert(r, new, i) ==
  LET len == Cells(r)
  IN  IF len = Fault THEN Fault
      ELSE IF i < -1 \/ i > len THEN IndexError
      ELSE IF i \in {-1, len} THEN InsertedBefore(tree.children, r, new, NULL)
      ELSE IF CellAt(r, i) \notin ToSet(Children(r)) THEN NotFound
      ELSE InsertedBefore(tree.children, r, new, CellAt(r, i))

CellDelete(r, i) ==
  LET len == Cells(r)
      cell == CellAt(r, IF i = -1 THEN len - 1 ELSE i)
  IN  IF len = Fault THEN Fault
      ELSE IF i < -1 \/ i >= len \/ len = 0 THEN IndexError
      ELSE IF cell \notin ToSet(Children(r)) THEN NotFound
      ELSE Without(tree.children, cell)

InsertCell(r, i) == Fresh("TD") # {} /\ Do(CellInsert(r, Made("TD"), i))
DeleteCell(r, i) == Do(CellDelete(r, i))

-----------------------------------------------------------------------------
(* What clients do to the tree without the table's help.                   *)

Place(p, c) ==
  /\ Kind[p] \in DOMAIN Contents /\ Kind[c] \in Contents[Kind[p]]
  /\ c # Table /\ ParentOf(c) = NULL
  /\ p \notin ToSet(AtOrBelow(tree, c))
  /\ Become(InsertedBefore(tree.children, p, c, NULL))

Detach(c) ==
  c # Table /\ ParentOf(c) # NULL /\ Become(Without(tree.children, c))

Init ==
  /\ pool \in Pools
  /\ tree = TreeOf(Outside[pool])
  /\ crashed = FALSE

RowNumber == -1 .. Cardinality(Are("TR"))
CellNumber == -1 .. Cardinality(Are("TD"))
Part == {"CAPTION", "THEAD", "TFOOT"}

Next ==
  /\ ~crashed
  /\ \/ \E tag \in Part :
          \/ CreatePart(tag)
          \/ DeletePart(tag)
          \/ \E part \in pool : SetPart(tag, part)
     \/ \E i \in RowNumber :
          \/ InsertRow(i)
          \/ DeleteRow(i)
          \/ \E s \in Section \cap pool : SectionInsertRow(s, i) \/ SectionDeleteRow(s, i)
     \/ \E r \in Are("TR") \cap pool, i \in CellNumber : InsertCell(r, i) \/ DeleteCell(r, i)
     \/ \E p, c \in pool : Place(p, c)
     \/ \E c \in pool : Detach(c)

Spec == Init /\ [][Next]_vars

-----------------------------------------------------------------------------
(* Type invariant: the children are a tree.                                *)
TypeOK ==
  /\ \A n \in Node : Children(n) \in Seq(Node) /\ IsInjective(Children(n))
  /\ \A p \in Node : \A c \in ToSet(Children(p)) : ParentOf(c) = p
  /\ pool \in Pools /\ crashed \in BOOLEAN

(* A table as HTML has it: at most one head and one foot, rows only in     *)
(* sections, nothing nested.                                               *)
Regular ==
  /\ \A tag \in {"THEAD", "TFOOT"} :
       Len(SelectSeq(Children(Table), LAMBDA c : Kind[c] = tag)) <= 1
  /\ \A r \in ToSet(Below(tree, Table)) \cap Are("TR") :
       ParentOf(r) \in Section /\ ParentOf(ParentOf(r)) = Table

(* The rows in logical order: head, bodies, foot.                          *)
LogicalRows(ch) ==
  FlattenSeq([tag \in 1 .. 3 |->
    FlattenSeq([i \in DOMAIN ch[Table] |->
      IF Kind[ch[Table][i]] = <<"THEAD", "TBODY", "TFOOT">>[tag]
      THEN Hits(ch[ch[Table][i]], Are("TR")) ELSE <<>>])])

Errors == {Fault, IndexError, NotFound}

(* Inserting a row at an index of a regular table, if it succeeds, puts it *)
(* at that index of the logical order, whichever of the sections takes it  *)
(* (dom_html_table_element_insert_row).                                    *)
RowsInsertedWhereAsked ==
  Regular /\ MayInsert =>
    \A i \in RowNumber :
      LET after == TableInsert(Made("TR"), i)
          rows == LogicalRows(tree.children)
      IN  after \notin Errors =>
            LogicalRows(after)
              = InsertAt(rows, IF i = -1 THEN Len(rows) + 1 ELSE i + 1, Made("TR"))

(* Deleting the row at an index of a regular table, if it succeeds, takes  *)
(* that row of the logical order away and no other                         *)
(* (dom_html_table_element_delete_row).                                    *)
RowsDeletedWhereAsked ==
  Regular =>
    \A i \in RowNumber :
      LET after == TableDelete(i)
          rows == LogicalRows(tree.children)
      IN  after \notin Errors =>
            LogicalRows(after) = RemoveAt(rows, IF i = -1 THEN Len(rows) ELSE i + 1)

(* The index a row gives is its place in that order, so it names the row   *)
(* to insert_row and delete_row, as long as the foot comes after the       *)
(* bodies; a foot that comes before them, as in HTML 4, gives smaller ones.*)
RowIndexIsLogical ==
  Regular /\ (\A i, j \in DOMAIN Children(Table) :
               Kind[Children(Table)[i]] = "TBODY" /\ Kind[Children(Table)[j]] = "TFOOT"
                 => i < j) =>
    LET rows == LogicalRows(tree.children)
    IN  \A i \in DOMAIN rows : RowIndex(rows[i]) \in {i - 1, Fault}

(* A cell inserted at an index of a row without header cells and nested    *)
(* tables gives that index (insert_cell, get_cell_index).                  *)
CellsInsertedWhereAsked ==
  \A r \in Are("TR") \cap pool, i \in CellNumber :
    LET after == CellInsert(r, Made("TD"), i)
    IN  Fresh("TD") # {} /\ ToSet(Below(tree, r)) \subseteq Are("TD")
            /\ after \notin Errors =>
          CellIndex(TreeOf(after), r, Made("TD"))
            = IF i = -1 THEN Len(Children(r)) ELSE i

(* Rows and cells go to, and come from, the index that was asked for, and  *)
(* leave a tree behind.                                                    *)
IndexIsRespected ==
  TypeOK /\ RowsInsertedWhereAsked /\ RowsDeletedWhereAsked /\ CellsInsertedWhereAsked

(* A caption or foot that was set is the one that is found, and the only   *)
(* one if there was at most one, even if it was elsewhere in the table or  *)
(* in it already (set_caption, set_t_foot).                                *)
PartSetIsFound ==
  \A tag \in {"CAPTION", "TFOOT"} : \A part \in Are(tag) \cap pool :
    Len(Hits(Children(Table), Are(tag))) <= 1 =>
      Hits(PartSet(tag, part)[Table], Are(tag)) = <<part>>
=============================================================================
