----------------------- MODULE ElementAttributesProofs -----------------------
(***************************************************************************)
(* Proofs about ElementAttributes, for every set of elements, attributes   *)
(* and names and every bound, and for careful clients.                     *)
(***************************************************************************)
EXTENDS ElementAttributes, SharedLemmas, FiniteSetTheorems

-----------------------------------------------------------------------------
(* The inductive invariant, list by list.                                  *)

(* The list s of e has the attributes whose parent, by par, is e: each     *)
(* once, under different names.                                            *)
Fits(s, e, par) ==
  /\ \A k \in DOMAIN s : par[s[k].attr] = e
  /\ \A j, k \in DOMAIN s : s[j].attr = s[k].attr => j = k
  /\ \A j, k \in DOMAIN s : KeyOf(s[j]) = KeyOf(s[k]) => j = k
  /\ \A a \in Attr : par[a] = e => \E k \in DOMAIN s : s[k].attr = a

(* The entry lookups in s start from.                                      *)
HeadFor(s) == IF s = <<>> THEN NULL ELSE s[1]

ClassKey == <<NULL, Class>>

(* The text c is the value, by val, of the class attribute of s.           *)
ClassText(s, val, c) ==
  /\ \A k \in DOMAIN s : KeyOf(s[k]) = ClassKey => c = val[s[k].attr]
  /\ (\A k \in DOMAIN s : KeyOf(s[k]) # ClassKey) => c = NULL

AttrsTyped ==
  /\ live \subseteq Attr
  /\ pending \subseteq live
  /\ refcnt \in [Attr -> 0 .. MaxRef]
  /\ parent \in [Attr -> elements \cup {NULL}]
  /\ value \in [Attr -> Text]
  /\ \A a \in Attr \ live : refcnt[a] = 0 /\ parent[a] = NULL

ElementsTyped ==
  /\ elements \subseteq Element
  /\ list \in [Element -> Seq(Entry)]
  /\ classes \in [Element -> Text]
  /\ stale \subseteq elements
  /\ \A e \in Element \ elements : list[e] = <<>>

(* What the properties say, without counting entries and without a search. *)
IInv ==
  /\ AttrsTyped
  /\ ElementsTyped
  /\ LooseIsPending
  /\ head = [e \in Element |-> HeadFor(list[e])]
  /\ \A e \in Element : Fits(list[e], e, parent)
  /\ \A e \in Element \ stale : ClassText(list[e], value, classes[e])

-----------------------------------------------------------------------------
(* Searching and changing one list.                                        *)

(* Find returns the place of an entry with the name, and 0 for none.       *)
LEMMA FindProperties ==
  ASSUME NEW e \in Element, list[e] \in Seq(Entry), NEW namespace, NEW name
  PROVE  /\ Find(e, namespace, name) \in Nat
         /\ Has(e, namespace, name) =>
              /\ Find(e, namespace, name) \in DOMAIN list[e]
              /\ KeyOf(list[e][Find(e, namespace, name)]) = <<namespace, name>>
         /\ ~Has(e, namespace, name) =>
              \A k \in DOMAIN list[e] : KeyOf(list[e][k]) # <<namespace, name>>
<1> DEFINE I == {k \in 1 .. Len(list[e]) : KeyOf(list[e][k]) = <<namespace, name>>}
<1>1. Find(e, namespace, name) = IF I # {} THEN Min(I) ELSE 0
  BY DEF Find, SelectInSeq
<1>2. Len(list[e]) \in Nat /\ DOMAIN list[e] = 1 .. Len(list[e])
  BY LenProperties
<1>3. I \subseteq 1 .. Len(list[e]) /\ I \in SUBSET Nat
  BY <1>2
<1>4. I # {} => Min(I) \in I
  BY <1>3, MinIsLeast
<1> QED BY <1>1, <1>2, <1>3, <1>4 DEF Has

LEMMA EntryFields ==
  ASSUME NEW s \in Seq(Entry), NEW k \in DOMAIN s
  PROVE  /\ s[k] \in Entry
         /\ s[k].attr \in Attr
         /\ k \in 1 .. Len(s)
         /\ Len(s) \in Nat \ {0}
         /\ 1 \in DOMAIN s
         /\ s # <<>>
<1>1. k \in 1 .. Len(s) /\ Len(s) \in Nat /\ DOMAIN s = 1 .. Len(s)
  BY LenProperties
<1>2. s[k] \in Entry
  BY <1>1, ElementOfSeq
<1> QED BY <1>1, <1>2, EmptySeq DEF Entry

LEMMA FitsEmpty ==
  ASSUME NEW e, NEW par, \A a \in Attr : par[a] # e
  PROVE  Fits(<<>>, e, par)
  BY DEF Fits

LEMMA FitsSame ==
  ASSUME NEW s \in Seq(Entry), NEW e, NEW par, NEW new, Fits(s, e, par),
         \A a \in Attr : new[a] = e <=> par[a] = e
  PROVE  Fits(s, e, new)
<1>1. \A k \in DOMAIN s : s[k].attr \in Attr
  BY EntryFields
<1> QED BY <1>1 DEF Fits

LEMMA FitsAppended ==
  ASSUME NEW s \in Seq(Entry), NEW e, NEW par, NEW new, NEW entry \in Entry,
         Fits(s, e, par),
         par[entry.attr] # e, new[entry.attr] = e,
         \A a \in Attr \ {entry.attr} : new[a] = e <=> par[a] = e,
         \A k \in DOMAIN s : KeyOf(s[k]) # KeyOf(entry)
  PROVE  Append(s, entry) \in Seq(Entry) /\ Fits(Append(s, entry), e, new)
<1> DEFINE t == Append(s, entry)
<1>1. /\ t \in Seq(Entry)
      /\ Len(t) = Len(s) + 1
      /\ \A i \in 1 .. Len(s) : t[i] = s[i]
      /\ t[Len(s) + 1] = entry
  BY AppendProperties
<1>2. /\ Len(s) \in Nat
      /\ DOMAIN s = 1 .. Len(s)
      /\ DOMAIN t = 1 .. Len(s) + 1
  BY <1>1, LenProperties
<1> HIDE DEF t
<1>3. \A k \in DOMAIN s : s[k].attr \in Attr /\ s[k].attr # entry.attr
  BY EntryFields DEF Fits
<1>4. entry.attr \in Attr
  BY DEF Entry
<1>5. \A k \in DOMAIN t : \/ k \in DOMAIN s /\ t[k] = s[k]
                          \/ k = Len(s) + 1 /\ t[k] = entry
  BY <1>1, <1>2
<1>6. \A k \in DOMAIN t : new[t[k].attr] = e
  BY <1>3, <1>5 DEF Fits
<1>7. \A j, k \in DOMAIN t : t[j].attr = t[k].attr => j = k
  BY <1>3, <1>5 DEF Fits
<1>8. \A j, k \in DOMAIN t : KeyOf(t[j]) = KeyOf(t[k]) => j = k
  BY <1>5 DEF Fits
<1>9. \A a \in Attr : new[a] = e => \E k \in DOMAIN t : t[k].attr = a
  <2> SUFFICES ASSUME NEW a \in Attr, new[a] = e
               PROVE  \E k \in DOMAIN t : t[k].attr = a
    OBVIOUS
  <2>1. CASE a = entry.attr
    BY <2>1, <1>1, <1>2
  <2>2. CASE a # entry.attr
    <3>1. PICK k \in DOMAIN s : s[k].attr = a
      BY <2>2 DEF Fits
    <3> QED BY <3>1, <1>1, <1>2
  <2> QED BY <2>1, <2>2
<1> QED BY <1>1, <1>6, <1>7, <1>8, <1>9 DEF Fits, t

(* What is left of a list has the other entries, each at one place.        *)
Distinct(s) == \A i, j \in DOMAIN s : s[i] = s[j] => i = j

Left(s, k, t) ==
  /\ t \in Seq(Entry)
  /\ \A i \in DOMAIN t : \E j \in DOMAIN s \ {k} : t[i] = s[j]
  /\ \A j \in DOMAIN s \ {k} : \E i \in DOMAIN t : t[i] = s[j]
  /\ Distinct(t)

LEMMA EntriesLeft ==
  ASSUME NEW s \in Seq(Entry), NEW k \in DOMAIN s, Distinct(s)
  PROVE  Left(s, k, RemoveAt(s, k))
<1> DEFINE t == RemoveAt(s, k)
           Old(i) == IF i < k THEN i ELSE i + 1
<1>1. DOMAIN s = 1 .. Len(s) /\ Len(s) \in Nat /\ k \in 1 .. Len(s)
  BY LenProperties
<1>2. /\ t \in Seq(Entry)
      /\ Len(t) = Len(s) - 1
      /\ \A i \in 1 .. Len(s) - 1 : t[i] = IF i < k THEN s[i] ELSE s[i + 1]
  BY <1>1, RemoveAtProperties
<1>3. DOMAIN t = 1 .. Len(s) - 1
  BY <1>2, LenProperties
<1> HIDE DEF t
<1>4. \A i \in DOMAIN t : Old(i) \in DOMAIN s \ {k} /\ t[i] = s[Old(i)]
  BY <1>1, <1>2, <1>3
<1>5. \A i, j \in DOMAIN t : Old(i) = Old(j) => i = j
  BY <1>1, <1>3
<1>6. \A j \in DOMAIN s \ {k} : \E i \in DOMAIN t : Old(i) = j
  <2> SUFFICES ASSUME NEW j \in DOMAIN s \ {k}
               PROVE  \E i \in DOMAIN t : Old(i) = j
    OBVIOUS
  <2>1. CASE j < k
    BY <2>1, <1>1, <1>3
  <2>2. CASE j > k
    <3>1. j - 1 \in DOMAIN t /\ Old(j - 1) = j
      BY <2>2, <1>1, <1>3
    <3> QED BY <3>1
  <2> QED BY <2>1, <2>2, <1>1
<1> HIDE DEF Old
<1>7. Distinct(t)
  BY <1>4, <1>5 DEF Distinct
<1>8. /\ \A i \in DOMAIN t : \E j \in DOMAIN s \ {k} : t[i] = s[j]
      /\ \A j \in DOMAIN s \ {k} : \E i \in DOMAIN t : t[i] = s[j]
  BY <1>4, <1>6
<1> QED BY <1>2, <1>7, <1>8 DEF t, Left

LEMMA FitsRemoved ==
  ASSUME NEW s \in Seq(Entry), NEW k \in DOMAIN s, NEW t, Left(s, k, t),
         NEW e, NEW par, Fits(s, e, par),
         NEW new, new[s[k].attr] # e,
         \A a \in Attr : a # s[k].attr => (new[a] = e <=> par[a] = e)
  PROVE  Fits(t, e, new)
<1>1. \A i \in DOMAIN s : s[i].attr \in Attr
  BY EntryFields
<1>2. \A i \in DOMAIN t : new[t[i].attr] = e
  BY <1>1 DEF Fits, Left
<1>3. \A i, j \in DOMAIN t : t[i].attr = t[j].attr => i = j
  <2> SUFFICES ASSUME NEW i \in DOMAIN t, NEW j \in DOMAIN t, t[i].attr = t[j].attr
               PROVE  i = j
    OBVIOUS
  <2>1. PICK x, y \in DOMAIN s : t[i] = s[x] /\ t[j] = s[y]
    BY DEF Left
  <2>2. x = y
    BY <2>1 DEF Fits
  <2> QED BY <2>1, <2>2 DEF Left, Distinct
<1>4. \A i, j \in DOMAIN t : KeyOf(t[i]) = KeyOf(t[j]) => i = j
  BY DEF Fits, Left, Distinct
<1>5. \A a \in Attr : new[a] = e => \E i \in DOMAIN t : t[i].attr = a
  <2> SUFFICES ASSUME NEW a \in Attr, new[a] = e
               PROVE  \E i \in DOMAIN t : t[i].attr = a
    OBVIOUS
  <2>1. PICK j \in DOMAIN s : s[j].attr = a
    BY DEF Fits
  <2> QED BY <2>1 DEF Left
<1> QED BY <1>2, <1>3, <1>4, <1>5 DEF Fits

LEMMA HeadAppended ==
  ASSUME NEW s \in Seq(Entry), NEW entry \in Entry
  PROVE  HeadFor(Append(s, entry)) = IF HeadFor(s) = NULL THEN entry ELSE HeadFor(s)
<1>1. /\ Append(s, entry) # <<>>
      /\ \A i \in 1 .. Len(s) : Append(s, entry)[i] = s[i]
      /\ Append(s, entry)[Len(s) + 1] = entry
  BY AppendProperties
<1>2. CASE s = <<>>
  <2>1. Len(s) + 1 = 1
    BY <1>2, EmptySeq
  <2> QED BY <2>1, <1>1, <1>2 DEF HeadFor
<1>3. CASE s # <<>>
  <2>1. 1 \in 1 .. Len(s)
    BY <1>3, EmptySeq
  <2>2. s[1] # NULL
    BY <2>1, ElementOfSeq, EntryAssumption
  <2> QED BY <2>1, <2>2, <1>1, <1>3 DEF HeadFor
<1> QED BY <1>2, <1>3

LEMMA HeadRemoved ==
  ASSUME NEW e \in Element, list[e] \in Seq(Entry), NEW k \in DOMAIN list[e],
         head[e] = HeadFor(list[e]), NEW par, Fits(list[e], e, par)
  PROVE  HeadWithout(e, k) = HeadFor(RemoveAt(list[e], k))
<1> DEFINE s == list[e]
           t == RemoveAt(s, k)
<1>1. s # <<>> /\ k \in 1 .. Len(s)
  BY EntryFields
<1>2. /\ Len(s) = 1 => t = <<>>
      /\ Len(s) # 1 => t # <<>> /\ t[1] = IF k = 1 THEN s[2] ELSE s[1]
  BY <1>1, HeadOfRemoveAt
<1>3. head[e] = s[1]
  BY <1>1 DEF HeadFor
<1>4. s[1] = s[k] <=> k = 1
  BY <1>1, EntryFields DEF Fits
<1>5. Len(s) = 1 => k = 1
  BY <1>1
<1> HIDE DEF t
<1> QED BY <1>2, <1>3, <1>4, <1>5 DEF HeadWithout, HeadFor, t

-----------------------------------------------------------------------------
(* Steps.                                                                  *)

(* An attribute on a list has the element as its parent.                   *)
LEMMA ListedParent ==
  ASSUME IInv, NEW e \in Element, NEW k \in DOMAIN list[e]
  PROVE  /\ list[e] \in Seq(Entry)
         /\ list[e][k] \in Entry
         /\ list[e][k].attr \in Attr
         /\ parent[list[e][k].attr] = e
         /\ list[e][k].attr \in live \ pending
         /\ e \in elements
         /\ e # NULL
<1>1. list[e] \in Seq(Entry)
  BY DEF IInv, ElementsTyped
<1>2. /\ list[e][k] \in Entry /\ list[e][k].attr \in Attr /\ list[e] # <<>>
  BY <1>1, EntryFields
<1>3. parent[list[e][k].attr] = e
  BY DEF IInv, Fits
<1>4. e # NULL
  BY NullAssumption
<1>5. list[e][k].attr \in live \ pending
  BY <1>2, <1>3, <1>4 DEF IInv, AttrsTyped, LooseIsPending
<1> QED BY <1>1, <1>2, <1>3, <1>4, <1>5 DEF IInv, ElementsTyped

(* The lists do not change, nor the values of the listed attributes.       *)
LEMMA NoListChanges ==
  ASSUME IInv, AttrsTyped', LooseIsPending', UNCHANGED <<head, list, classes>>,
         elements \subseteq elements', elements' \subseteq Element, UNCHANGED stale,
         \A a \in Attr, h \in Element : parent'[a] = h <=> parent[a] = h,
         \A a \in Attr : parent[a] # NULL => value'[a] = value[a]
  PROVE  IInv'
<1>1. ElementsTyped'
  BY DEF IInv, ElementsTyped
<1>2. ASSUME NEW h \in Element
      PROVE  /\ Fits(list'[h], h, parent')
             /\ h \notin stale => ClassText(list'[h], value', classes'[h])
  <2>1. list[h] \in Seq(Entry) /\ list'[h] = list[h] /\ classes'[h] = classes[h]
    BY DEF IInv, ElementsTyped
  <2>2. Fits(list[h], h, parent')
    BY <2>1, FitsSame DEF IInv
  <2>3. \A k \in DOMAIN list[h] : value'[list[h][k].attr] = value[list[h][k].attr]
    BY ListedParent
  <2> QED BY <2>1, <2>2, <2>3 DEF IInv, ClassText
<1>3. head' = [e \in Element |-> HeadFor(list'[e])]
  BY DEF IInv
<1> QED BY <1>1, <1>2, <1>3 DEF IInv

(* One list becomes s.                                                     *)
LEMMA OneListChanges ==
  ASSUME IInv, AttrsTyped', LooseIsPending',
         NEW e \in Element, NEW s \in Seq(Entry), NEW c \in Text,
         list' = [list EXCEPT ![e] = s],
         head' = [head EXCEPT ![e] = HeadFor(s)],
         classes' = [classes EXCEPT ![e] = c],
         elements \ {e} \subseteq elements', elements' \subseteq Element,
         s # <<>> => e \in elements', stale' \subseteq elements', stale \subseteq stale' \cup {e},
         Fits(s, e, parent'), e \notin stale' => ClassText(s, value', c),
         \A a \in Attr, h \in Element \ {e} : parent'[a] = h <=> parent[a] = h,
         \A a \in Attr : parent[a] \notin {e, NULL} => value'[a] = value[a]
  PROVE  IInv'
<1>1. /\ list \in [Element -> Seq(Entry)] /\ classes \in [Element -> Text]
      /\ \A h \in Element \ elements : list[h] = <<>>
      /\ head = [h \in Element |-> HeadFor(list[h])]
  BY DEF IInv, ElementsTyped
<1>2. /\ list'[e] = s /\ classes'[e] = c
      /\ \A h \in Element \ {e} : list'[h] = list[h] /\ classes'[h] = classes[h]
  BY <1>1
<1>3. ElementsTyped'
  BY <1>1, <1>2 DEF ElementsTyped
<1>4. ASSUME NEW h \in Element \ {e}
      PROVE  /\ Fits(list'[h], h, parent')
             /\ h \notin stale' => ClassText(list'[h], value', classes'[h])
  <2>1. Fits(list[h], h, parent')
    BY <1>1, FitsSame DEF IInv
  <2>2. \A k \in DOMAIN list[h] : value'[list[h][k].attr] = value[list[h][k].attr]
    BY ListedParent
  <2> QED BY <1>2, <2>1, <2>2 DEF IInv, ClassText
<1>5. head' = [h \in Element |-> HeadFor(list'[h])]
  BY <1>1, <1>2
<1>6. \A h \in Element : /\ Fits(list'[h], h, parent')
                         /\ h \notin stale' => ClassText(list'[h], value', classes'[h])
  BY <1>2, <1>4
<1> QED BY <1>3, <1>5, <1>6 DEF IInv

(* What destroying the entries of attrs does to the attributes.            *)
LEMMA ReleasedProperties ==
  ASSUME IInv, NEW attrs \in SUBSET Attr, Released(attrs),
         \A a \in attrs : parent[a] # NULL,
         refcnt' \in [Attr -> 0 .. MaxRef],
         \A a \in Attr \ attrs : refcnt'[a] = refcnt[a],
         \A a \in Attr \ attrs : parent[a] \in elements' \cup {NULL}
  PROVE  /\ AttrsTyped' /\ LooseIsPending'
         /\ \A a \in Attr : parent'[a] = IF a \in attrs THEN NULL ELSE parent[a]
         /\ \A a \in Attr \ attrs : value'[a] = value[a]
<1> DEFINE gone == {a \in attrs : refcnt'[a] = 0}
<1>1. /\ live'    = live \ gone
      /\ parent'  = [a \in Attr |-> IF a \in attrs THEN NULL ELSE parent[a]]
      /\ value'   = [a \in Attr |-> IF a \in gone THEN NULL ELSE value[a]]
      /\ pending' = pending \cup (attrs \ gone)
  BY DEF Released
<1>2. attrs \subseteq live /\ attrs \cap pending = {}
  BY DEF IInv, AttrsTyped, LooseIsPending
<1>3. \A a \in Attr : a \in gone <=> a \in attrs /\ refcnt'[a] = 0
  OBVIOUS
<1>9. gone \subseteq attrs
  OBVIOUS
<1> HIDE DEF gone
<1>4. AttrsTyped'
  <2>1. live' \subseteq Attr /\ pending' \subseteq live'
    BY <1>1, <1>2, <1>9 DEF IInv, AttrsTyped, LooseIsPending
  <2>2. parent' \in [Attr -> elements' \cup {NULL}] /\ value' \in [Attr -> Text]
    BY <1>1 DEF IInv, AttrsTyped, Text
  <2>3. \A a \in Attr \ live' : refcnt'[a] = 0 /\ parent'[a] = NULL
    BY <1>1, <1>2, <1>3 DEF IInv, AttrsTyped
  <2> QED BY <2>1, <2>2, <2>3 DEF AttrsTyped
<1>5. LooseIsPending'
  <2>1. \A a \in Attr : a \in pending' <=> a \in live' /\ parent'[a] = NULL
    BY <1>1, <1>2, <1>3 DEF IInv, AttrsTyped, LooseIsPending
  <2>2. pending' \subseteq Attr /\ live' \subseteq Attr
    BY <1>4 DEF AttrsTyped
  <2>3. \A a \in pending' : refcnt'[a] > 0
    <3> SUFFICES ASSUME NEW a \in pending'
                 PROVE  refcnt'[a] > 0
      OBVIOUS
    <3>1. refcnt'[a] \in 0 .. MaxRef /\ MaxRef \in Nat
      BY <2>2, BoundAssumption
    <3>2. CASE a \in attrs
      BY <3>1, <3>2, <1>1, <1>2, <1>3
    <3>3. CASE a \notin attrs
      BY <3>3, <1>1, <2>2 DEF IInv, LooseIsPending
    <3> QED BY <3>2, <3>3
  <2> QED BY <2>1, <2>2, <2>3 DEF LooseIsPending
<1> QED BY <1>1, <1>3, <1>4, <1>5, <1>9

LEMMA TextFacts ==
  ASSUME IInv
  PROVE  /\ NULL \in Text
         /\ \A e \in Element : classes[e] \in Text
         /\ \A a \in Attr : value[a] \in Text /\ refcnt[a] \in Nat
         /\ NULL \notin Element /\ elements \subseteq Element
         /\ MaxRef \in Nat
  BY NullAssumption, BoundAssumption DEF IInv, AttrsTyped, ElementsTyped, Text

LEMMA ClassOfKey ==
  ASSUME NEW entry
  PROVE  KeyOf(entry) = ClassKey <=> IsClass(entry.namespace, Name[entry.attr])
  BY DEF KeyOf, ClassKey, IsClass

LEMMA ClassLeft ==
  ASSUME NEW s \in Seq(Entry), NEW k \in DOMAIN s, NEW t, Left(s, k, t),
         NEW e, NEW par, Fits(s, e, par),
         NEW val, NEW new, NEW c, ClassText(s, val, c), KeyOf(s[k]) # ClassKey,
         \A j \in DOMAIN s : s[j].attr # s[k].attr => new[s[j].attr] = val[s[j].attr]
  PROVE  ClassText(t, new, c)
<1>1. \A j \in DOMAIN s \ {k} : KeyOf(s[j]) # KeyOf(s[k]) /\ s[j].attr # s[k].attr
  BY DEF Fits
<1>2. \A i \in DOMAIN t : KeyOf(t[i]) = ClassKey => c = new[t[i].attr]
  BY <1>1 DEF ClassText, Left
<1>3. ASSUME \A i \in DOMAIN t : KeyOf(t[i]) # ClassKey
      PROVE  c = NULL
  <2>1. \A j \in DOMAIN s : KeyOf(s[j]) # ClassKey
    BY <1>3 DEF Left
  <2> QED BY <2>1 DEF ClassText
<1> QED BY <1>2, <1>3 DEF ClassText

LEMMA ClassTaken ==
  ASSUME NEW s \in Seq(Entry), NEW k \in DOMAIN s, NEW t, Left(s, k, t),
         NEW e, NEW par, Fits(s, e, par), KeyOf(s[k]) = ClassKey, NEW new
  PROVE  ClassText(t, new, NULL)
<1>1. \A i \in DOMAIN t : KeyOf(t[i]) # ClassKey
  BY DEF Fits, Left
<1> QED BY <1>1 DEF ClassText

LEMMA RemovalStep ==
  ASSUME IInv, NEW e \in Element, NEW k \in DOMAIN list[e], Removal(e, k),
         refcnt' \in [Attr -> 0 .. MaxRef],
         \A a \in Attr \ {list[e][k].attr} : refcnt'[a] = refcnt[a]
  PROVE  IInv'
<1> DEFINE s == list[e]
           old == s[k].attr
           t == RemoveAt(s, k)
           c == ClassesWithout(e, s[k])
<1>1. /\ s \in Seq(Entry) /\ s[k] \in Entry /\ old \in Attr
      /\ parent[old] = e /\ e \in elements /\ e # NULL
  BY ListedParent
<1>2. /\ head'    = [head EXCEPT ![e] = HeadWithout(e, k)]
      /\ list'    = [list EXCEPT ![e] = t]
      /\ classes' = [classes EXCEPT ![e] = c]
      /\ stale' = IF KeyOf(s[k]) = ClassKey THEN stale \ {e} ELSE stale
      /\ Released({old})
      /\ elements' = elements
  BY ClassOfKey DEF Removal, StaleWith
<1>3. /\ AttrsTyped' /\ LooseIsPending'
      /\ \A a \in Attr : parent'[a] = IF a = old THEN NULL ELSE parent[a]
      /\ \A a \in Attr \ {old} : value'[a] = value[a]
  <2>1. \A a \in Attr \ {old} : parent[a] \in elements' \cup {NULL}
    BY <1>2 DEF IInv, AttrsTyped
  <2>2. {old} \in SUBSET Attr /\ \A a \in {old} : parent[a] # NULL
    BY <1>1
  <2>3. \A a \in Attr \ {old} : refcnt'[a] = refcnt[a]
    OBVIOUS
  <2> HIDE DEF old
  <2> QED BY <1>2, <2>1, <2>2, <2>3, ReleasedProperties
<1>4. /\ Fits(s, e, parent) /\ head[e] = HeadFor(s)
      /\ e \notin stale => ClassText(s, value, classes[e])
  BY DEF IInv
<1>5. HeadWithout(e, k) = HeadFor(t)
  BY <1>1, <1>4, HeadRemoved
<1>6. Left(s, k, t) /\ Fits(t, e, parent')
  <2>1. /\ parent'[s[k].attr] # e
        /\ \A a \in Attr : a # s[k].attr => (parent'[a] = e <=> parent[a] = e)
    BY <1>1, <1>3
  <2>2. k \in DOMAIN s
    OBVIOUS
  <2>3. Distinct(s)
    BY <1>4 DEF Distinct, Fits
  <2> HIDE DEF s, t, old
  <2>4. Left(s, k, t)
    BY <2>2, <2>3, <1>1, EntriesLeft DEF t
  <2> QED BY <2>1, <2>2, <2>4, <1>1, <1>4, FitsRemoved
<1>7. \A j \in DOMAIN s : s[j].attr # s[k].attr => value'[s[j].attr] = value[s[j].attr]
  BY <1>1, <1>3, EntryFields
<1>8. e \notin stale' => ClassText(t, value', c)
  <2> SUFFICES ASSUME e \notin stale'
               PROVE  ClassText(t, value', c)
    OBVIOUS
  <2>1. c = IF KeyOf(s[k]) = ClassKey THEN NULL ELSE classes[e]
    BY ClassOfKey DEF ClassesWithout
  <2>2. k \in DOMAIN s
    OBVIOUS
  <2>4. KeyOf(s[k]) # ClassKey => ClassText(s, value, classes[e])
    BY <1>2, <1>4
  <2>5. /\ s \in Seq(Entry) /\ Left(s, k, t) /\ Fits(s, e, parent)
        /\ \A j \in DOMAIN s : s[j].attr # s[k].attr => value'[s[j].attr] = value[s[j].attr]
    BY <1>1, <1>4, <1>6, <1>7
  <2> HIDE DEF s, t, c, old
  <2>3. CASE KeyOf(s[k]) = ClassKey
    BY <2>1, <2>2, <2>3, <2>5, ClassTaken
  <2>6. CASE KeyOf(s[k]) # ClassKey
    <3>1. ClassText(s, value, classes[e])
      BY <2>4, <2>6
    <3>2. ClassText(t, value', classes[e])
      BY <2>2, <2>5, <2>6, <3>1, ClassLeft
    <3> QED BY <2>1, <2>6, <3>2
  <2> QED BY <2>3, <2>6
<1> HIDE DEF s, t, old
<1>9. c \in Text
  BY TextFacts DEF ClassesWithout
<1> HIDE DEF c
<1>10. /\ \A a \in Attr, h \in Element \ {e} : parent'[a] = h <=> parent[a] = h
       /\ \A a \in Attr : parent[a] \notin {e, NULL} => value'[a] = value[a]
       /\ elements \ {e} \subseteq elements' /\ elements' \subseteq Element
       /\ e \in elements' /\ stale' \subseteq elements' /\ stale \subseteq stale' \cup {e}
  <2>1. \A h \in Element : h # NULL
    BY TextFacts
  <2>2. stale \subseteq elements
    BY DEF IInv, ElementsTyped
  <2> QED BY <2>1, <2>2, <1>1, <1>2, <1>3, TextFacts
<1> QED BY <1>2, <1>3, <1>5, <1>6, <1>8, <1>9, <1>10, OneListChanges DEF Left

LEMMA TakeRefCounts ==
  ASSUME IInv, NEW a \in Attr, TakeRef(a)
  PROVE  /\ refcnt' \in [Attr -> 0 .. MaxRef]
         /\ refcnt'[a] > 0
         /\ \A b \in Attr \ {a} : refcnt'[b] = refcnt[b]
         /\ \A b \in Attr : refcnt[b] > 0 => refcnt'[b] > 0
  BY BoundAssumption DEF IInv, AttrsTyped, TakeRef

LEMMA RemovalActions ==
  ASSUME IInv, NEW e \in Element, NEW ns, NEW name,
         RemoveAttribute(e, ns, name) \/ RemoveNamedItem(e, ns, name)
  PROVE  IInv'
<1> DEFINE k == Find(e, ns, name)
<1>1. /\ k \in DOMAIN list[e] /\ Removal(e, k)
      /\ UNCHANGED refcnt \/ TakeRef(list[e][k].attr)
  BY FindProperties DEF RemoveAttribute, RemoveNamedItem, IInv, ElementsTyped
<1> HIDE DEF k
<1>2. list[e][k].attr \in Attr
  BY <1>1, ListedParent
<1>3. /\ refcnt' \in [Attr -> 0 .. MaxRef]
      /\ \A a \in Attr \ {list[e][k].attr} : refcnt'[a] = refcnt[a]
  BY <1>1, <1>2, TakeRefCounts DEF IInv, AttrsTyped
<1> QED BY <1>1, <1>3, RemovalStep

LEMMA RemoveAttributeNodeStep ==
  ASSUME IInv, NEW e \in Element, NEW a \in Attr, RemoveAttributeNode(e, a)
  PROVE  IInv'
<1> DEFINE k == Find(e, NULL, Name[a])
<1>1. /\ k \in DOMAIN list[e] /\ Removal(e, k) /\ list[e][k].attr = a /\ TakeRef(a)
  BY FindProperties DEF RemoveAttributeNode, IInv, ElementsTyped
<1> HIDE DEF k
<1>2. /\ refcnt' \in [Attr -> 0 .. MaxRef]
      /\ \A b \in Attr \ {list[e][k].attr} : refcnt'[b] = refcnt[b]
  BY <1>1, TakeRefCounts
<1> QED BY <1>1, <1>2, RemovalStep

LEMMA ListedIffParent ==
  ASSUME IInv, NEW e \in Element
  PROVE  /\ Listed(e) = {a \in Attr : parent[a] = e}
         /\ \A k \in DOMAIN list[e] : list[e][k].attr \in Listed(e)
<1>1. \A k \in DOMAIN list[e] : list[e][k].attr \in Attr /\ parent[list[e][k].attr] = e
  BY ListedParent
<1>2. \A a \in Attr : parent[a] = e => \E k \in DOMAIN list[e] : list[e][k].attr = a
  BY DEF IInv, Fits
<1> QED BY <1>1, <1>2 DEF Listed, ToSet

LEMMA CreateElementStep ==
  ASSUME IInv, NEW e \in Element, CreateElement(e)
  PROVE  IInv'
<1>1. /\ elements' = elements \cup {e}
      /\ UNCHANGED <<head, list, classes, stale, live, refcnt, parent, value, pending>>
  BY DEF CreateElement, ofAttrs
<1>2. AttrsTyped' /\ LooseIsPending'
  BY <1>1 DEF IInv, AttrsTyped, LooseIsPending
<1>3. elements' \subseteq Element
  BY <1>1 DEF IInv, ElementsTyped
<1> QED BY <1>1, <1>2, <1>3, NoListChanges

LEMMA DestroyElementStep ==
  ASSUME IInv, NEW e \in Element, DestroyElement(e)
  PROVE  IInv'
<1>1. /\ elements' = elements \ {e}
      /\ head'     = [head EXCEPT ![e] = NULL]
      /\ list'     = [list EXCEPT ![e] = <<>>]
      /\ classes'  = [classes EXCEPT ![e] = NULL]
      /\ stale'    = stale \ {e}
      /\ refcnt' = refcnt
      /\ Released(Listed(e))
  BY DEF DestroyElement
<1>2. Listed(e) = {a \in Attr : parent[a] = e}
  BY ListedIffParent
<1>3. NULL \notin Element /\ elements \subseteq Element /\ stale \subseteq elements
  BY TextFacts DEF IInv, ElementsTyped
<1>4. /\ AttrsTyped' /\ LooseIsPending'
      /\ \A a \in Attr : parent'[a] = IF a \in Listed(e) THEN NULL ELSE parent[a]
      /\ \A a \in Attr \ Listed(e) : value'[a] = value[a]
  <2>1. /\ Listed(e) \in SUBSET Attr
        /\ \A a \in Listed(e) : parent[a] # NULL
        /\ refcnt' \in [Attr -> 0 .. MaxRef]
        /\ \A a \in Attr \ Listed(e) : refcnt'[a] = refcnt[a]
    BY <1>1, <1>2, <1>3 DEF IInv, AttrsTyped
  <2>2. \A a \in Attr \ Listed(e) : parent[a] \in elements' \cup {NULL}
    BY <1>1, <1>2 DEF IInv, AttrsTyped
  <2> QED BY <1>1, <2>1, <2>2, ReleasedProperties
<1>5. /\ \A a \in Attr : parent'[a] # e
      /\ \A a \in Attr, h \in Element \ {e} : parent'[a] = h <=> parent[a] = h
      /\ \A a \in Attr : parent[a] \notin {e, NULL} => value'[a] = value[a]
  BY <1>2, <1>3, <1>4
<1>6. <<>> \in Seq(Entry) /\ HeadFor(<<>>) = NULL
  BY DEF HeadFor
<1>7. Fits(<<>>, e, parent') /\ ClassText(<<>>, value', NULL)
  BY <1>5, FitsEmpty DEF ClassText
<1>8. NULL \in Text
  BY TextFacts
<1> QED BY <1>1, <1>3, <1>4, <1>5, <1>6, <1>7, <1>8, OneListChanges

LEMMA CountSteps ==
  ASSUME IInv, NEW a \in Attr, CreateAttr(a) \/ UnrefAttr(a)
  PROVE  IInv'
<1>1. /\ UNCHANGED <<elements, head, list, classes, stale, parent>>
      /\ a \in live => parent[a] \in elements \cup {NULL}
      /\ \A b \in Attr : b \in live' /\ b # a <=> b \in live /\ b # a
      /\ \A b \in Attr : b \in pending' /\ b # a <=> b \in pending /\ b # a
      /\ \A b \in Attr \ {a} : refcnt'[b] = refcnt[b] /\ value'[b] = value[b]
      /\ refcnt' \in [Attr -> 0 .. MaxRef]
      /\ value' \in [Attr -> Text]
      /\ live' \subseteq Attr /\ pending' \subseteq Attr
  BY BoundAssumption, TextFacts
     DEF CreateAttr, UnrefAttr, ofElements, IInv, AttrsTyped
<1>2. /\ a \in pending' => refcnt'[a] > 0
      /\ a \in pending' <=> a \in live' /\ parent[a] = NULL
      /\ a \notin live' => refcnt'[a] = 0 /\ parent[a] = NULL
      /\ parent[a] # NULL => value'[a] = value[a]
  BY BoundAssumption, TextFacts
     DEF CreateAttr, UnrefAttr, ofElements, IInv, AttrsTyped, LooseIsPending
<1>3. AttrsTyped' /\ LooseIsPending'
  BY <1>1, <1>2 DEF IInv, AttrsTyped, LooseIsPending
<1> QED BY <1>1, <1>2, <1>3, TextFacts, NoListChanges

LEMMA GetAttributeNodeStep ==
  ASSUME IInv, NEW e \in Element, NEW ns, NEW name, GetAttributeNode(e, ns, name)
  PROVE  IInv'
<1> DEFINE k == Find(e, ns, name)
           a == list[e][k].attr
<1>1. k \in DOMAIN list[e]
  BY FindProperties DEF GetAttributeNode, IInv, ElementsTyped
<1>2. a \in Attr /\ a \in live
  BY <1>1, ListedParent
<1>3. /\ UNCHANGED <<elements, head, list, classes, stale, live, parent, value, pending>>
      /\ TakeRef(a)
  BY DEF GetAttributeNode, ofElements
<1> HIDE DEF a
<1>4. AttrsTyped' /\ LooseIsPending'
  BY <1>2, <1>3, TakeRefCounts DEF IInv, AttrsTyped, LooseIsPending
<1> QED BY <1>3, <1>4, TextFacts, NoListChanges

(* An attribute gets a value; the element it is the class attribute of, if *)
(* there is one, is stale.                                                 *)
LEMMA SetValueStep ==
  ASSUME IInv, NEW a \in Attr, NEW text \in Text, SetValue(a, text)
  PROVE  IInv'
<1>1. /\ value' = [value EXCEPT ![a] = text]
      /\ stale' = stale \cup ListsAsClass(a)
      /\ UNCHANGED <<elements, head, list, classes, live, refcnt, parent, pending>>
  BY DEF SetValue
<1>2. ListsAsClass(a) \subseteq elements
  BY DEF ListsAsClass
<1>3. AttrsTyped' /\ LooseIsPending' /\ ElementsTyped'
  BY <1>1, <1>2 DEF IInv, AttrsTyped, LooseIsPending, ElementsTyped
<1>4. ASSUME NEW e \in Element \ stale'
      PROVE  ClassText(list[e], value', classes[e])
  <2>1. ClassText(list[e], value, classes[e])
    BY <1>1 DEF IInv
  <2>2. ASSUME NEW k \in DOMAIN list[e], KeyOf(list[e][k]) = ClassKey
        PROVE  list[e][k].attr # a
    <3> SUFFICES ASSUME list[e][k].attr = a
                 PROVE  e \in ListsAsClass(a)
      BY <1>1
    <3>1. /\ list[e][k] \in Entry /\ e \in elements
          /\ list[e][k].namespace = NULL /\ Name[a] = Class
      BY <2>2, ListedParent DEF KeyOf, ClassKey
    <3>2. list[e][k] = [attr |-> a, namespace |-> NULL]
      BY <3>1 DEF Entry
    <3>3. list[e][k] \in ToSet(list[e])
      BY DEF ToSet
    <3> QED BY <3>1, <3>2, <3>3 DEF ListsAsClass
  <2>3. \A k \in DOMAIN list[e] :
          KeyOf(list[e][k]) = ClassKey => value'[list[e][k].attr] = value[list[e][k].attr]
    BY <1>1, <2>2, ListedParent DEF IInv, AttrsTyped
  <2> QED BY <2>1, <2>3 DEF ClassText
<1> QED BY <1>1, <1>3, <1>4 DEF IInv

LEMMA ChangeValueStep ==
  ASSUME IInv, NEW a \in Attr, NEW text \in Text, ChangeValue(a, text)
  PROVE  IInv'
  BY SetValueStep DEF ChangeValue

LEMMA SetAttributeStep ==
  ASSUME IInv, NEW e \in Element, NEW ns, NEW name, NEW text \in Text,
         SetAttribute(e, ns, name, text)
  PROVE  IInv'
<1> DEFINE k == Find(e, ns, name)
<1>1. k \in DOMAIN list[e] /\ SetValue(list[e][k].attr, text)
  BY FindProperties DEF SetAttribute, IInv, ElementsTyped
<1> HIDE DEF k
<1>2. list[e][k].attr \in Attr
  BY <1>1, ListedParent
<1> QED BY <1>1, <1>2, SetValueStep

LEMMA ClassAppended ==
  ASSUME NEW s \in Seq(Entry), NEW entry \in Entry, NEW val, NEW new, NEW c,
         KeyOf(entry) # ClassKey => ClassText(s, val, c),
         \A k \in DOMAIN s : KeyOf(s[k]) # KeyOf(entry),
         \A k \in DOMAIN s : new[s[k].attr] = val[s[k].attr]
  PROVE  ClassText(Append(s, entry), new,
                   ClassesWith(c, entry.namespace, entry.attr, new[entry.attr]))
<1> DEFINE t == Append(s, entry)
           d == ClassesWith(c, entry.namespace, entry.attr, new[entry.attr])
<1>1. /\ \A i \in 1 .. Len(s) : t[i] = s[i]
      /\ t[Len(s) + 1] = entry
      /\ DOMAIN t = 1 .. Len(s) + 1 /\ DOMAIN s = 1 .. Len(s) /\ Len(s) \in Nat
  BY AppendProperties, LenProperties
<1>2. /\ \A i \in DOMAIN t : (i \in DOMAIN s /\ t[i] = s[i]) \/ t[i] = entry
      /\ \A i \in DOMAIN s : i \in DOMAIN t /\ t[i] = s[i]
      /\ Len(s) + 1 \in DOMAIN t
  BY <1>1
<1> HIDE DEF t
<1>3. d = IF KeyOf(entry) = ClassKey THEN new[entry.attr] ELSE c
  BY ClassOfKey DEF ClassesWith
<1> HIDE DEF d
<1>4. ASSUME KeyOf(entry) = ClassKey
      PROVE  ClassText(t, new, d)
  BY <1>1, <1>2, <1>3, <1>4 DEF ClassText
<1>5. ASSUME KeyOf(entry) # ClassKey
      PROVE  ClassText(t, new, d)
  <2>1. \A i \in DOMAIN t : KeyOf(t[i]) = ClassKey => d = new[t[i].attr]
    BY <1>2, <1>3, <1>5 DEF ClassText
  <2>2. (\A i \in DOMAIN t : KeyOf(t[i]) # ClassKey) => d = NULL
    BY <1>2, <1>3, <1>5 DEF ClassText
  <2> QED BY <2>1, <2>2 DEF ClassText
<1> QED BY <1>4, <1>5 DEF t, d

(* What SetNewAttribute and AddAttributeNode have in common.               *)
LEMMA LinkStep ==
  ASSUME IInv, NEW e \in Element, NEW a \in Attr, NEW namespace \in Namespaces,
         parent[a] = NULL, e \in elements,
         ~Has(e, namespace, Name[a]),
         Link(e, [attr |-> a, namespace |-> namespace]),
         classes' = [classes EXCEPT ![e] = ClassesWith(@, namespace, a, value'[a])],
         stale' = StaleWith(e, namespace, a),
         parent' = [parent EXCEPT ![a] = e],
         \A b \in Attr \ {a} : value'[b] = value[b],
         elements' = elements, AttrsTyped', LooseIsPending'
  PROVE  IInv'
<1> DEFINE s == list[e]
           entry == [attr |-> a, namespace |-> namespace]
           t == Append(s, entry)
           c == ClassesWith(classes[e], namespace, a, value'[a])
<1>1. s \in Seq(Entry) /\ entry \in Entry /\ entry.attr = a /\ entry.namespace = namespace
  BY DEF IInv, ElementsTyped, Entry
<1>2. KeyOf(entry) = <<namespace, Name[a]>>
  BY DEF KeyOf
<1>3. \A k \in DOMAIN s : KeyOf(s[k]) # KeyOf(entry)
  BY <1>1, <1>2, FindProperties
<1>4. /\ Fits(s, e, parent) /\ head[e] = HeadFor(s)
      /\ e \notin stale => ClassText(s, value, classes[e])
      /\ parent \in [Attr -> elements \cup {NULL}] /\ stale \subseteq elements
  BY DEF IInv, AttrsTyped, ElementsTyped
<1>5. NULL \notin Element /\ elements \subseteq Element
  BY TextFacts
<1>6. \A k \in DOMAIN s : s[k].attr \in Attr \ {a}
  BY <1>5, ListedParent
<1>7. /\ list' = [list EXCEPT ![e] = t]
      /\ head' = [head EXCEPT ![e] = IF @ = NULL THEN entry ELSE @]
      /\ stale' = IF KeyOf(entry) = ClassKey THEN stale \ {e} ELSE stale
  BY <1>1, ClassOfKey DEF Link, StaleWith
<1> HIDE DEF s, entry
<1>8. t \in Seq(Entry) /\ Fits(t, e, parent')
  <2>1. parent[entry.attr] # e /\ parent'[entry.attr] = e
    BY <1>1, <1>4, <1>5
  <2>2. \A b \in Attr \ {entry.attr} : parent'[b] = e <=> parent[b] = e
    BY <1>1, <1>4
  <2> QED BY <2>1, <2>2, <1>1, <1>3, <1>4, FitsAppended
<1>9. head' = [head EXCEPT ![e] = HeadFor(t)]
  <2>1. HeadFor(t) = IF head[e] = NULL THEN entry ELSE head[e]
    BY <1>1, <1>4, HeadAppended
  <2>2. head \in [Element -> {HeadFor(list[h]) : h \in Element}]
    BY DEF IInv
  <2> QED BY <2>1, <2>2, <1>7
<1>10. e \notin stale' => ClassText(t, value', c)
  <2> SUFFICES ASSUME e \notin stale'
               PROVE  ClassText(t, value', c)
    OBVIOUS
  <2>2. KeyOf(entry) # ClassKey => ClassText(s, value, classes[e])
    BY <1>4, <1>7
  <2>1. \A k \in DOMAIN s : value'[s[k].attr] = value[s[k].attr]
    BY <1>6
  <2> QED BY <2>1, <2>2, <1>1, <1>3, ClassAppended
<1>11. c \in Text /\ classes' = [classes EXCEPT ![e] = c]
  <2>1. value'[a] \in Text /\ classes[e] \in Text
    BY TextFacts DEF AttrsTyped
  <2> QED BY <2>1 DEF ClassesWith
<1>12. /\ \A b \in Attr, h \in Element \ {e} : parent'[b] = h <=> parent[b] = h
       /\ \A b \in Attr : parent[b] \notin {e, NULL} => value'[b] = value[b]
       /\ stale' \subseteq elements' /\ stale \subseteq stale' \cup {e}
  BY <1>4, <1>5, <1>7
<1> HIDE DEF t, c
<1> QED BY <1>5, <1>7, <1>8, <1>9, <1>10, <1>11, <1>12, OneListChanges

LEMMA SetNewAttributeStep ==
  ASSUME IInv, NEW e \in Element, NEW a \in Attr, NEW text \in Text,
         SetNewAttribute(e, a, text)
  PROVE  IInv'
<1>1. /\ e \in elements /\ a \notin live
      /\ live'    = live \cup {a}
      /\ parent'  = [parent EXCEPT ![a] = e]
      /\ value'   = [value EXCEPT ![a] = text]
      /\ UNCHANGED <<elements, refcnt, pending>>
  BY DEF SetNewAttribute, Usable
<1>2. parent[a] = NULL /\ NULL \notin Element /\ value'[a] = text
  BY <1>1, TextFacts DEF IInv, AttrsTyped
<1>3. AttrsTyped' /\ LooseIsPending'
  BY <1>1, <1>2 DEF IInv, AttrsTyped, LooseIsPending
<1>4. /\ Namespace[a] \in Namespaces /\ ~Has(e, Namespace[a], Name[a])
      /\ Link(e, [attr |-> a, namespace |-> Namespace[a]])
      /\ classes' = [classes EXCEPT ![e] = ClassesWith(@, Namespace[a], a, value'[a])]
      /\ stale' = StaleWith(e, Namespace[a], a)
  BY <1>2 DEF SetNewAttribute, Namespaces
<1>5. \A b \in Attr \ {a} : value'[b] = value[b]
  BY <1>1 DEF IInv, AttrsTyped
<1> QED BY <1>1, <1>2, <1>3, <1>4, <1>5, LinkStep

LEMMA Entering ==
  ASSUME IInv, NEW e \in Element, NEW a \in Attr, NEW namespace \in Namespaces,
         MayEnter(e, namespace, a)
  PROVE  /\ e \in elements /\ a \in live /\ refcnt[a] > 0
         /\ parent[a] \in {NULL, e}
         /\ parent[a] = e =>
              Has(e, namespace, Name[a]) /\ list[e][Find(e, namespace, Name[a])].attr = a
<1>1. a \in live
  BY TextFacts DEF MayEnter, IInv, AttrsTyped
<1> QED BY <1>1 DEF MayEnter, Usable, InUse, Has

LEMMA AddAttributeNodeStep ==
  ASSUME IInv, NEW e \in Element, NEW a \in Attr, NEW namespace \in Namespaces,
         AddAttributeNode(e, namespace, a)
  PROVE  IInv'
<1>1. /\ e \in elements /\ a \in live /\ parent[a] = NULL
      /\ NULL \notin Element
  BY Entering, TextFacts DEF AddAttributeNode
<1>2. /\ parent'  = [parent EXCEPT ![a] = e]
      /\ pending' = pending \ {a}
      /\ UNCHANGED <<elements, live, refcnt, value>>
      /\ ~Has(e, namespace, Name[a])
      /\ Link(e, [attr |-> a, namespace |-> namespace])
      /\ classes' = [classes EXCEPT ![e] = ClassesWith(@, namespace, a, value'[a])]
      /\ stale' = StaleWith(e, namespace, a)
  BY DEF AddAttributeNode
<1>3. AttrsTyped' /\ LooseIsPending'
  BY <1>1, <1>2 DEF IInv, AttrsTyped, LooseIsPending
<1> QED BY <1>1, <1>2, <1>3, LinkStep

LEMMA ReplaceAttributeNodeStep ==
  ASSUME IInv, Careful, NEW e \in Element, NEW a \in Attr, NEW namespace \in Namespaces,
         ReplaceAttributeNode(e, namespace, a)
  PROVE  IInv'
<1> DEFINE s == list[e]
           k == Find(e, namespace, Name[a])
           old == s[k].attr
           t == RemoveAt(s, k)
           entry == [attr |-> a, namespace |-> namespace]
           c == ClassesWith(classes[e], namespace, a, value[a])
           mid == [parent EXCEPT ![old] = NULL]
<1>1. /\ k # 1
      /\ head'    = [head EXCEPT ![e] = IF k = 1 THEN Freed ELSE @]
      /\ list'    = [list EXCEPT ![e] = Append(t, entry)]
      /\ classes' = [classes EXCEPT ![e] = c]
      /\ stale' = StaleWith(e, namespace, a)
      /\ TakeRef(old)
      /\ parent'  = [parent EXCEPT ![old] = NULL, ![a] = e]
      /\ pending' = (pending \cup {old}) \ {a}
      /\ UNCHANGED <<elements, live, value>>
  BY DEF ReplaceAttributeNode
<1>2. /\ e \in elements /\ a \in live /\ parent[a] \in {NULL, e}
      /\ parent[a] = e => old = a
  BY Entering DEF ReplaceAttributeNode
<1>3. k \in DOMAIN s /\ KeyOf(s[k]) = <<namespace, Name[a]>>
  BY FindProperties DEF ReplaceAttributeNode, IInv, ElementsTyped
<1>4. /\ s \in Seq(Entry) /\ s[k] \in Entry /\ old \in Attr /\ parent[old] = e
      /\ old \in live
  BY <1>3, ListedParent
<1>5. /\ Fits(s, e, parent) /\ head[e] = HeadFor(s)
      /\ e \notin stale => ClassText(s, value, classes[e])
      /\ stale \subseteq elements
      /\ parent \in [Attr -> elements \cup {NULL}]
      /\ classes[e] \in Text /\ value[a] \in Text /\ NULL \in Text
      /\ NULL \notin Element /\ elements \subseteq Element
  BY TextFacts DEF IInv, AttrsTyped, ElementsTyped
<1>6. /\ entry \in Entry /\ entry.attr = a /\ entry.namespace = namespace
      /\ KeyOf(entry) = KeyOf(s[k])
  BY <1>3 DEF Entry, KeyOf
<1>7. Left(s, k, t)
  BY <1>3, <1>4, <1>5, EntriesLeft DEF Fits, Distinct
<1>19. stale' = IF KeyOf(s[k]) = ClassKey THEN stale \ {e} ELSE stale
  BY <1>1, <1>6, ClassOfKey DEF StaleWith
<1> HIDE DEF s, k, t, entry
<1>8. /\ mid \in [Attr -> elements \cup {NULL}]
      /\ mid[old] = NULL
      /\ \A b \in Attr : b # old => mid[b] = parent[b]
      /\ mid[a] # e
      /\ parent'[a] = e
      /\ \A b \in Attr \ {a} : parent'[b] = mid[b]
  <2> HIDE DEF old
  <2> QED BY <1>1, <1>2, <1>4, <1>5
<1>9. Fits(t, e, mid)
  <2>1. mid[s[k].attr] # e
    BY <1>5, <1>8
  <2>2. \A b \in Attr : b # s[k].attr => (mid[b] = e <=> parent[b] = e)
    BY <1>8
  <2> HIDE DEF mid, old
  <2> QED BY <2>1, <2>2, <1>3, <1>4, <1>5, <1>7, FitsRemoved
<1>10. \A i \in DOMAIN t : KeyOf(t[i]) # KeyOf(entry)
  BY <1>3, <1>5, <1>6, <1>7 DEF Fits, Left
<1> HIDE DEF mid
<1>11. Append(t, entry) \in Seq(Entry) /\ Fits(Append(t, entry), e, parent')
  <2>1. \A b \in Attr \ {entry.attr} : parent'[b] = e <=> mid[b] = e
    BY <1>6, <1>8
  <2>2. t \in Seq(Entry) /\ mid[entry.attr] # e /\ parent'[entry.attr] = e
    BY <1>6, <1>7, <1>8 DEF Left
  <2> QED BY <2>1, <2>2, <1>6, <1>9, <1>10, FitsAppended
<1>12. e \notin stale' => ClassText(Append(t, entry), value, c)
  <2> SUFFICES ASSUME e \notin stale'
               PROVE  ClassText(Append(t, entry), value, c)
    OBVIOUS
  <2> DEFINE d == IF KeyOf(s[k]) = ClassKey THEN NULL ELSE classes[e]
  <2>1. ClassText(t, value, d)
    <3>1. CASE KeyOf(s[k]) = ClassKey
      BY <3>1, <1>3, <1>4, <1>5, <1>7, ClassTaken
    <3>2. CASE KeyOf(s[k]) # ClassKey
      <4>1. ClassText(s, value, classes[e])
        BY <3>2, <1>5, <1>19
      <4>2. s \in Seq(Entry) /\ Fits(s, e, parent) /\ k \in DOMAIN s
        BY <1>3, <1>4, <1>5
      <4> HIDE DEF old
      <4>3. ClassText(t, value, classes[e])
        BY <3>2, <4>1, <4>2, <1>7, ClassLeft
      <4> QED BY <3>2, <4>3
    <3> QED BY <3>1, <3>2
  <2> HIDE DEF d
  <2>2. ClassText(Append(t, entry), value,
                  ClassesWith(d, entry.namespace, entry.attr, value[entry.attr]))
    BY <2>1, <1>6, <1>7, <1>10, ClassAppended DEF Left
  <2>3. ClassesWith(d, namespace, a, value[a]) = c
    BY <1>6, ClassOfKey DEF ClassesWith, d
  <2> QED BY <2>2, <2>3, <1>6
<1>13. head' = [head EXCEPT ![e] = HeadFor(Append(t, entry))]
  <2>1. k \in 1 .. Len(s) /\ s # <<>>
    BY <1>3, <1>4, EntryFields
  <2>2. t # <<>> /\ t[1] = s[1]
    BY <2>1, <1>1, <1>4, HeadOfRemoveAt DEF t
  <2>3. HeadFor(t) = head[e]
    BY <2>1, <2>2, <1>5 DEF HeadFor
  <2>4. head[e] # NULL
    BY <2>1, <1>4, <1>5, EntryFields, EntryAssumption DEF HeadFor
  <2>5. HeadFor(Append(t, entry)) = head[e]
    BY <2>3, <2>4, <1>6, <1>7, HeadAppended DEF Left
  <2> QED BY <2>5, <1>1
<1>14. c \in Text
  BY <1>5 DEF ClassesWith
<1>15. /\ \A b \in Attr, h \in Element \ {e} : parent'[b] = h <=> parent[b] = h
       /\ parent' \in [Attr -> elements \cup {NULL}]
       /\ \A b \in Attr : parent'[b] = NULL <=> b # a /\ (b = old \/ parent[b] = NULL)
  <2> HIDE DEF old
  <2> QED BY <1>1, <1>2, <1>4, <1>5, <1>8
<1> HIDE DEF old, c
<1>16. /\ refcnt' \in [Attr -> 0 .. MaxRef] /\ refcnt'[old] > 0
       /\ \A b \in Attr \ {old} : refcnt'[b] = refcnt[b]
  BY <1>1, <1>4, TakeRefCounts
<1>17. AttrsTyped'
  BY <1>1, <1>2, <1>4, <1>15, <1>16 DEF IInv, AttrsTyped
<1>18. LooseIsPending'
  BY <1>1, <1>2, <1>4, <1>15, <1>16 DEF IInv, AttrsTyped, LooseIsPending
<1>20. stale' \subseteq elements' /\ stale \subseteq stale' \cup {e}
  BY <1>1, <1>5, <1>19
<1> QED BY <1>1, <1>2, <1>5, <1>11, <1>12, <1>13, <1>14, <1>15, <1>17, <1>18, <1>20, OneListChanges

(* The body of CloneElement.                                               *)
CopiedBy(e, h, copy) ==
  LET made == {copy[a] : a \in Listed(e)}
      Original(b) == CHOOSE a \in Listed(e) : copy[a] = b
      entries == [k \in DOMAIN list[e] |->
                    [list[e][k] EXCEPT !.attr = copy[@]]]
  IN  /\ \A a \in Listed(e) : /\ Name[copy[a]] = Name[a]
                              /\ Namespace[copy[a]] = Namespace[a]
      /\ list'   = [list EXCEPT ![h] = entries]
      /\ head'   = [head EXCEPT ![h] = IF entries = <<>> THEN NULL ELSE entries[1]]
      /\ live'   = live \cup made
      /\ parent' = [b \in Attr |-> IF b \in made THEN h ELSE parent[b]]
      /\ value'  = [b \in Attr |-> IF b \in made THEN value[Original(b)] ELSE value[b]]

LEMMA CloneElementStep ==
  ASSUME IInv, NEW e \in Element, NEW h \in Element, CloneElement(e, h)
  PROVE  IInv'
<1>1. PICK copy \in Injection(Listed(e), Attr \ live) : CopiedBy(e, h, copy)
  BY DEF CloneElement, CopiedBy
<1>2. /\ e \in elements /\ h \notin elements
      /\ elements' = elements \cup {h}
      /\ classes' = [classes EXCEPT ![h] = classes[e]]
      /\ stale' = IF e \in stale THEN stale \cup {h} ELSE stale
      /\ UNCHANGED <<refcnt, pending>>
  BY DEF CloneElement, Usable
<1> DEFINE s == list[e]
           made == {copy[a] : a \in Listed(e)}
           Original(b) == CHOOSE a \in Listed(e) : copy[a] = b
           t == [k \in DOMAIN s |-> [s[k] EXCEPT !.attr = copy[@]]]
<1>3. /\ \A a \in Listed(e) : Name[copy[a]] = Name[a]
      /\ list'   = [list EXCEPT ![h] = t]
      /\ head'   = [head EXCEPT ![h] = HeadFor(t)]
      /\ live'   = live \cup made
      /\ parent' = [b \in Attr |-> IF b \in made THEN h ELSE parent[b]]
      /\ value'  = [b \in Attr |-> IF b \in made THEN value[Original(b)] ELSE value[b]]
  BY <1>1 DEF HeadFor, CopiedBy
<1>4. /\ Listed(e) = {a \in Attr : parent[a] = e}
      /\ \A k \in DOMAIN s : s[k].attr \in Listed(e)
  BY ListedIffParent
<1>5. /\ \A a \in Listed(e) : copy[a] \in Attr \ live
      /\ \A a, b \in Listed(e) : copy[a] = copy[b] => a = b
  BY DEF Injection, IsInjective
<1>6. \A b \in made : Original(b) \in Listed(e) /\ copy[Original(b)] = b
  OBVIOUS
<1>7. /\ s \in Seq(Entry) /\ Fits(s, e, parent) /\ stale \subseteq elements
      /\ e \notin stale => ClassText(s, value, classes[e])
      /\ parent \in [Attr -> elements \cup {NULL}] /\ value \in [Attr -> Text]
      /\ classes[e] \in Text
      /\ NULL \notin Element /\ elements \subseteq Element
      /\ live \subseteq Attr /\ pending \subseteq live
      /\ \A a \in Attr \ live : parent[a] = NULL
  BY TextFacts DEF IInv, AttrsTyped, ElementsTyped
<1>8. /\ \A b \in Attr : b \in made <=> \E a \in Listed(e) : b = copy[a]
      /\ made \subseteq Attr \ live
      /\ \A a \in Listed(e) : copy[a] \in made
  BY <1>5
<1>9. \A a \in Listed(e) : Original(copy[a]) = a
  BY <1>5, <1>6, <1>8
<1>10. /\ \A k \in DOMAIN s : s[k] \in Entry /\ copy[s[k].attr] \in Attr
       /\ DOMAIN s = 1 .. Len(s) /\ Len(s) \in Nat
  BY <1>4, <1>5, <1>7, EntryFields, LenProperties
<1>11. /\ DOMAIN t = DOMAIN s
       /\ \A k \in DOMAIN s : /\ t[k] \in Entry
                              /\ t[k].attr = copy[s[k].attr]
                              /\ t[k].namespace = s[k].namespace
  BY <1>10 DEF Entry
<1>12. t \in Seq(Entry)
  <2>1. t \in [1 .. Len(s) -> Entry]
    BY <1>10, <1>11
  <2> HIDE DEF t
  <2> QED BY <2>1, <1>10
<1> HIDE DEF s, t, made, Original
<1>13. \A k \in DOMAIN t : KeyOf(t[k]) = KeyOf(s[k])
  BY <1>3, <1>4, <1>11 DEF KeyOf
<1>14. Fits(t, h, parent')
  <2>1. \A k \in DOMAIN t : parent'[t[k].attr] = h
    BY <1>3, <1>4, <1>8, <1>10, <1>11
  <2>2. \A j, k \in DOMAIN t : t[j].attr = t[k].attr => j = k
    BY <1>4, <1>5, <1>7, <1>11 DEF Fits
  <2>3. \A j, k \in DOMAIN t : KeyOf(t[j]) = KeyOf(t[k]) => j = k
    BY <1>7, <1>11, <1>13 DEF Fits
  <2>4. ASSUME NEW b \in Attr, parent'[b] = h
        PROVE  \E k \in DOMAIN t : t[k].attr = b
    <3>1. b \in made
      BY <2>4, <1>2, <1>3, <1>7
    <3>2. PICK a \in Listed(e) : b = copy[a]
      BY <3>1, <1>8
    <3>3. PICK k \in DOMAIN s : s[k].attr = a
      BY <1>4, <1>7 DEF Fits
    <3> QED BY <3>2, <3>3, <1>11
  <2> QED BY <2>1, <2>2, <2>3, <2>4 DEF Fits
<1>15. h \notin stale' => ClassText(t, value', classes[e])
  <2>1. \A k \in DOMAIN t : value'[t[k].attr] = value[s[k].attr]
    BY <1>3, <1>4, <1>8, <1>9, <1>10, <1>11
  <2> QED BY <2>1, <1>2, <1>7, <1>11, <1>13 DEF ClassText
<1>16. AttrsTyped' /\ LooseIsPending'
  <2>1. \A b \in made : Original(b) \in Attr
    BY <1>4, <1>6
  <2>2. /\ parent' \in [Attr -> elements' \cup {NULL}]
        /\ value' \in [Attr -> Text]
    BY <2>1, <1>2, <1>3, <1>7
  <2>3. AttrsTyped'
    BY <2>2, <1>2, <1>3, <1>7, <1>8 DEF IInv, AttrsTyped
  <2>4. LooseIsPending'
    BY <1>2, <1>3, <1>7, <1>8 DEF IInv, AttrsTyped, LooseIsPending
  <2> QED BY <2>3, <2>4
<1>17. /\ \A b \in Attr, x \in Element \ {h} : parent'[b] = x <=> parent[b] = x
       /\ \A b \in Attr : parent[b] \notin {h, NULL} => value'[b] = value[b]
       /\ elements \ {h} \subseteq elements' /\ elements' \subseteq Element
       /\ h \in elements' /\ stale' \subseteq elements' /\ stale \subseteq stale' \cup {h}
  BY <1>2, <1>3, <1>7, <1>8
<1> QED BY <1>2, <1>3, <1>7, <1>12, <1>14, <1>15, <1>16, <1>17, OneListChanges

-----------------------------------------------------------------------------
(* The invariant.                                                          *)

LEMMA InitIInv ==
  Init => IInv
<1> SUFFICES ASSUME Init
             PROVE  IInv
  OBVIOUS
<1>1. AttrsTyped /\ ElementsTyped /\ LooseIsPending
  BY BoundAssumption DEF Init, AttrsTyped, ElementsTyped, LooseIsPending, Text
<1>2. head = [e \in Element |-> HeadFor(list[e])]
  BY DEF Init, HeadFor
<1>3. \A e \in Element : Fits(list[e], e, parent) /\ ClassText(list[e], value, classes[e])
  BY NullAssumption, FitsEmpty DEF Init, ClassText
<1> QED BY <1>1, <1>2, <1>3 DEF IInv

(* A step preserves the invariant.                                         *)
LEMMA StepIInv ==
  ASSUME IInv, Careful, [Next]_vars
  PROVE  IInv'
<1>1. CASE UNCHANGED vars
  <2>1. UNCHANGED <<elements, head, list, classes, stale, live, refcnt, parent, value, pending>>
    BY <1>1 DEF vars, ofElements, ofAttrs
  <2>2. AttrsTyped' /\ LooseIsPending'
    BY <2>1 DEF IInv, AttrsTyped, LooseIsPending
  <2> QED BY <2>1, <2>2, TextFacts, NoListChanges
<1>2. CASE \E e \in Element : CreateElement(e) \/ DestroyElement(e)
  BY <1>2, CreateElementStep, DestroyElementStep
<1>3. CASE \E e, h \in Element : CloneElement(e, h)
  BY <1>3, CloneElementStep
<1>4. CASE \E a \in Attr : \/ CreateAttr(a)
                           \/ UnrefAttr(a)
                           \/ \E text \in Text : ChangeValue(a, text)
  BY <1>4, CountSteps, ChangeValueStep
<1>5. CASE \E e \in Element, ns \in Namespaces, name \in Names :
             \/ GetAttributeNode(e, ns, name)
             \/ \E text \in Text : SetAttribute(e, ns, name, text)
             \/ RemoveAttribute(e, ns, name)
             \/ RemoveNamedItem(e, ns, name)
  BY <1>5, GetAttributeNodeStep, SetAttributeStep, RemovalActions
<1>6. CASE \E e \in Element, a \in Attr :
             \/ \E text \in Text : SetNewAttribute(e, a, text)
             \/ RemoveAttributeNode(e, a)
             \/ \E ns \in Namespaces : \/ AddAttributeNode(e, ns, a)
                                       \/ ReplaceAttributeNode(e, ns, a)
  BY <1>6, SetNewAttributeStep, RemoveAttributeNodeStep, AddAttributeNodeStep,
     ReplaceAttributeNodeStep
<1> QED BY <1>1, <1>2, <1>3, <1>4, <1>5, <1>6 DEF Next

(* What the invariant says about one list.                                 *)
LEMMA ListProperties ==
  ASSUME IInv
  PROVE  TypeOK /\ EntryIffParent /\ NamesDistinct /\ HeadIsListed
<1>1. TypeOK
  <2>1. \A e \in Element : HeadFor(list[e]) \in Entry \cup {NULL}
    BY EntryFields, EmptySeq DEF IInv, ElementsTyped, HeadFor
  <2>2. \A e \in Element : /\ ToSet(list[e]) \subseteq Entry
                           /\ e \notin elements => list[e] = <<>> /\ classes[e] = NULL
    BY ListedParent DEF IInv, ElementsTyped, ToSet, ClassText
  <2> QED BY <2>1, <2>2 DEF IInv, AttrsTyped, ElementsTyped, TypeOK
<1>2. EntryIffParent
  <2> SUFFICES ASSUME NEW a \in Attr, NEW e \in Element
               PROVE  Cardinality({k \in DOMAIN list[e] : list[e][k].attr = a})
                        = IF parent[a] = e THEN 1 ELSE 0
    BY DEF EntryIffParent
  <2> DEFINE K == {k \in DOMAIN list[e] : list[e][k].attr = a}
  <2>1. Fits(list[e], e, parent)
    BY DEF IInv
  <2>2. CASE parent[a] = e
    <3>1. PICK k \in DOMAIN list[e] : list[e][k].attr = a
      BY <2>1, <2>2 DEF Fits
    <3>2. K = {k}
      BY <3>1, <2>1 DEF Fits
    <3> QED BY <3>2, <2>2, FS_Singleton
  <2>3. CASE parent[a] # e
    <3>1. K = {}
      BY <2>1, <2>3 DEF Fits
    <3> QED BY <3>1, <2>3, FS_EmptySet
  <2> QED BY <2>2, <2>3
<1>3. NamesDistinct
  BY DEF IInv, Fits, NamesDistinct
<1>4. HeadIsListed
  BY DEF IInv, HeadFor, HeadIsListed
<1> QED BY <1>1, <1>2, <1>3, <1>4

(* An element whose class attribute got a value since it was linked still  *)
(* lists one.                                                              *)
ListsClass(s) == \E k \in DOMAIN s : KeyOf(s[k]) = ClassKey

StaleIsListed == \A e \in stale : ListsClass(list[e])

(* A list that ends with what was appended, or lost another entry, still   *)
(* has its class attribute.                                                *)
LEMMA ListsAppended ==
  ASSUME NEW s \in Seq(Entry), NEW entry \in Entry,
         ListsClass(s) \/ KeyOf(entry) = ClassKey
  PROVE  ListsClass(Append(s, entry))
<1> DEFINE t == Append(s, entry)
<1>1. /\ \A k \in DOMAIN s : k \in DOMAIN t /\ t[k] = s[k]
      /\ Len(s) + 1 \in DOMAIN t /\ t[Len(s) + 1] = entry
  BY LenProperties
<1> HIDE DEF t
<1>2. ListsClass(t)
  BY <1>1 DEF ListsClass
<1> QED BY <1>2 DEF t

LEMMA ListsKept ==
  ASSUME NEW s, NEW k \in DOMAIN s, NEW t, Left(s, k, t),
         ListsClass(s), KeyOf(s[k]) # ClassKey
  PROVE  ListsClass(t)
  BY DEF ListsClass, Left

(* Removing the k-th entry of a list in the invariant leaves the others.   *)
LEMMA OthersLeft ==
  ASSUME IInv, NEW e \in Element, NEW k \in DOMAIN list[e]
  PROVE  Left(list[e], k, RemoveAt(list[e], k)) /\ RemoveAt(list[e], k) \in Seq(Entry)
<1>1. list[e] \in Seq(Entry) /\ Distinct(list[e])
  BY DEF IInv, ElementsTyped, Distinct, Fits
<1> QED BY <1>1, EntriesLeft DEF Left

(* One list becomes s.                                                     *)
LEMMA OneListStale ==
  ASSUME IInv, StaleIsListed, NEW e \in Element, NEW s,
         list' = [list EXCEPT ![e] = s], stale' \subseteq stale \cup {e},
         e \in stale' => ListsClass(s)
  PROVE  StaleIsListed'
<1>1. list'[e] = s /\ \A h \in Element \ {e} : list'[h] = list[h]
  BY DEF IInv, ElementsTyped
<1>2. stale \subseteq Element
  BY DEF IInv, ElementsTyped
<1> QED BY <1>1, <1>2 DEF StaleIsListed

LEMMA RemovalStale ==
  ASSUME IInv, StaleIsListed, NEW e \in Element, NEW k \in DOMAIN list[e], Removal(e, k)
  PROVE  StaleIsListed'
<1> DEFINE s == list[e]
           t == RemoveAt(s, k)
<1>1. /\ list' = [list EXCEPT ![e] = t]
      /\ stale' = IF KeyOf(s[k]) = ClassKey THEN stale \ {e} ELSE stale
  BY ClassOfKey DEF Removal, StaleWith
<1>2. Left(s, k, t)
  BY OthersLeft
<1>3. e \in stale => ListsClass(s)
  BY DEF StaleIsListed
<1> HIDE DEF t
<1>4. e \in stale' => ListsClass(t)
  BY <1>1, <1>2, <1>3, ListsKept
<1> QED BY <1>1, <1>4, OneListStale

LEMMA LinkStale ==
  ASSUME IInv, StaleIsListed, NEW e \in Element, NEW a \in Attr, NEW ns \in Namespaces,
         list' = [list EXCEPT ![e] = Append(@, [attr |-> a, namespace |-> ns])],
         stale' = StaleWith(e, ns, a)
  PROVE  StaleIsListed'
<1> DEFINE entry == [attr |-> a, namespace |-> ns]
<1>1. entry \in Entry /\ list[e] \in Seq(Entry)
  BY DEF Entry, IInv, ElementsTyped
<1>2. list' = [list EXCEPT ![e] = Append(list[e], entry)]
  BY DEF IInv, ElementsTyped
<1>3. stale' \subseteq stale /\ (e \in stale => ListsClass(list[e]))
  BY DEF StaleWith, StaleIsListed
<1> DEFINE t == Append(list[e], entry)
<1> HIDE DEF entry
<1>4. e \in stale' => ListsClass(t)
  BY <1>1, <1>3, ListsAppended
<1>5. list' = [list EXCEPT ![e] = t]
  BY <1>2
<1> HIDE DEF t
<1> QED BY <1>3, <1>4, <1>5, OneListStale

LEMMA ReplaceStale ==
  ASSUME IInv, StaleIsListed, Careful, NEW e \in Element, NEW a \in Attr, NEW ns \in Namespaces,
         ReplaceAttributeNode(e, ns, a)
  PROVE  StaleIsListed'
<1> DEFINE k == Find(e, ns, Name[a])
           entry == [attr |-> a, namespace |-> ns]
           t == RemoveAt(list[e], k)
<1>1. /\ list' = [list EXCEPT ![e] = Append(t, entry)]
      /\ stale' = StaleWith(e, ns, a)
      /\ k \in DOMAIN list[e] /\ KeyOf(list[e][k]) = <<ns, Name[a]>>
  BY FindProperties DEF ReplaceAttributeNode, IInv, ElementsTyped
<1>2. Left(list[e], k, t) /\ t \in Seq(Entry) /\ entry \in Entry /\ KeyOf(entry) = <<ns, Name[a]>>
  BY <1>1, OthersLeft DEF Entry, KeyOf
<1>3. stale' \subseteq stale /\ (e \in stale => ListsClass(list[e]))
  BY <1>1 DEF StaleWith, StaleIsListed
<1> HIDE DEF k, entry, t
<1>4. e \in stale' => ListsClass(t) \/ KeyOf(entry) = ClassKey
  BY <1>1, <1>2, <1>3, ListsKept
<1> DEFINE u == Append(t, entry)
<1>5. e \in stale' => ListsClass(u)
  BY <1>2, <1>4, ListsAppended
<1>6. list' = [list EXCEPT ![e] = u]
  BY <1>1
<1> HIDE DEF u
<1> QED BY <1>3, <1>5, <1>6, OneListStale

LEMMA CloneStale ==
  ASSUME IInv, StaleIsListed, NEW e \in Element, NEW h \in Element, CloneElement(e, h)
  PROVE  StaleIsListed'
<1>1. PICK copy \in Injection(Listed(e), Attr \ live) :
        /\ \A a \in Listed(e) : Name[copy[a]] = Name[a]
        /\ list' = [list EXCEPT ![h] = [k \in DOMAIN list[e] |->
                                          [list[e][k] EXCEPT !.attr = copy[@]]]]
  BY ZenonT(30) DEF CloneElement
<1> DEFINE t == [k \in DOMAIN list[e] |-> [list[e][k] EXCEPT !.attr = copy[@]]]
<1>2. \A k \in DOMAIN list[e] : list[e][k] \in Entry /\ list[e][k].attr \in Listed(e)
  BY ListedIffParent, EntryFields DEF IInv, ElementsTyped
<1>3. \A k \in DOMAIN list[e] : KeyOf(t[k]) = KeyOf(list[e][k])
  BY <1>1, <1>2 DEF KeyOf, Entry
<1>4. stale' = IF e \in stale THEN stale \cup {h} ELSE stale
  BY DEF CloneElement
<1>5. e \in stale => ListsClass(t)
  BY <1>3 DEF StaleIsListed, ListsClass
<1>6. h \notin stale
  BY DEF CloneElement, IInv, ElementsTyped
<1>7. list' = [list EXCEPT ![h] = t]
  BY <1>1
<1> HIDE DEF t
<1> QED BY <1>4, <1>5, <1>6, <1>7, OneListStale

LEMMA SetValueStale ==
  ASSUME IInv, StaleIsListed, NEW a \in Attr, NEW text, SetValue(a, text)
  PROVE  StaleIsListed'
<1>1. list' = list /\ stale' = stale \cup ListsAsClass(a)
  BY DEF SetValue
<1>2. ASSUME NEW e \in ListsAsClass(a)
      PROVE  ListsClass(list[e])
  <2>1. Name[a] = Class /\ \E k \in DOMAIN list[e] : list[e][k] = [attr |-> a, namespace |-> NULL]
    BY DEF ListsAsClass, ToSet
  <2> QED BY <2>1 DEF ListsClass, KeyOf, ClassKey
<1> QED BY <1>1, <1>2 DEF StaleIsListed

LEMMA StaleStep ==
  ASSUME IInv, StaleIsListed, Careful, [Next]_vars
  PROVE  StaleIsListed'
<1>1. ASSUME UNCHANGED <<list, stale>>
      PROVE  StaleIsListed'
  BY <1>1 DEF StaleIsListed
<1>2. CASE UNCHANGED vars
  BY <1>1, <1>2 DEF vars, ofElements
<1>3. ASSUME NEW e \in Element, CreateElement(e) \/ DestroyElement(e)
      PROVE  StaleIsListed'
  <2>1. CASE CreateElement(e)
    BY <1>1, <2>1 DEF CreateElement
  <2>2. CASE DestroyElement(e)
    <3>1. list' = [list EXCEPT ![e] = <<>>] /\ stale' = stale \ {e}
      BY <2>2 DEF DestroyElement
    <3> QED BY <3>1, OneListStale
  <2> QED BY <1>3, <2>1, <2>2
<1>4. ASSUME NEW a \in Attr,
             CreateAttr(a) \/ UnrefAttr(a) \/ \E text \in Text : ChangeValue(a, text)
      PROVE  StaleIsListed'
  BY <1>1, <1>4, SetValueStale DEF CreateAttr, UnrefAttr, ChangeValue, ofElements
<1>5. ASSUME NEW e \in Element, NEW ns \in Namespaces, NEW name \in Names,
             \/ GetAttributeNode(e, ns, name)
             \/ \E text \in Text : SetAttribute(e, ns, name, text)
             \/ RemoveAttribute(e, ns, name)
             \/ RemoveNamedItem(e, ns, name)
      PROVE  StaleIsListed'
  <2> DEFINE k == Find(e, ns, name)
  <2>1. CASE GetAttributeNode(e, ns, name)
    BY <1>1, <2>1 DEF GetAttributeNode, ofElements
  <2>2. Has(e, ns, name) => k \in DOMAIN list[e] /\ list[e][k].attr \in Attr
    BY FindProperties, EntryFields DEF IInv, ElementsTyped
  <2>3. CASE \E text \in Text : SetAttribute(e, ns, name, text)
    BY <2>2, <2>3, SetValueStale DEF SetAttribute
  <2>4. CASE RemoveAttribute(e, ns, name) \/ RemoveNamedItem(e, ns, name)
    BY <2>2, <2>4, RemovalStale DEF RemoveAttribute, RemoveNamedItem
  <2> QED BY <1>5, <2>1, <2>3, <2>4
<1>6. ASSUME NEW e \in Element, NEW a \in Attr,
             \/ \E text \in Text : SetNewAttribute(e, a, text)
             \/ RemoveAttributeNode(e, a)
             \/ \E ns \in Namespaces : \/ AddAttributeNode(e, ns, a)
                                       \/ ReplaceAttributeNode(e, ns, a)
      PROVE  StaleIsListed'
  <2>1. CASE \E text \in Text : SetNewAttribute(e, a, text)
    <3>1. Namespace[a] \in Namespaces
      BY DEF Namespaces
    <3> QED BY <2>1, <3>1, LinkStale DEF SetNewAttribute, Link
  <2>2. CASE RemoveAttributeNode(e, a)
    <3> DEFINE k == Find(e, NULL, Name[a])
    <3>1. k \in DOMAIN list[e]
      BY <2>2, FindProperties DEF RemoveAttributeNode, IInv, ElementsTyped
    <3> QED BY <2>2, <3>1, RemovalStale DEF RemoveAttributeNode
  <2>3. CASE \E ns \in Namespaces : AddAttributeNode(e, ns, a)
    BY <2>3, LinkStale DEF AddAttributeNode, Link
  <2>4. CASE \E ns \in Namespaces : ReplaceAttributeNode(e, ns, a)
    BY <2>4, ReplaceStale
  <2> QED BY <1>6, <2>1, <2>2, <2>3, <2>4
<1>7. CASE \E e, h \in Element : CloneElement(e, h)
  BY <1>7, CloneStale
<1> QED BY <1>2, <1>3, <1>4, <1>5, <1>6, <1>7 DEF Next

LEMMA ClassProperties ==
  ASSUME IInv, StaleIsListed
  PROVE  ClassesAreCurrent
<1>1. ASSUME NEW e \in elements \ stale
      PROVE  classes[e] = ClassValue(e)
  <2>1. e \in Element /\ list[e] \in Seq(Entry) /\ ClassText(list[e], value, classes[e])
    BY TextFacts DEF IInv, ElementsTyped
  <2> QED BY <2>1, FindProperties DEF ClassText, ClassKey, ClassValue
<1>2. ASSUME NEW e \in stale
      PROVE  Has(e, NULL, Class)
  <2>1. e \in Element /\ list[e] \in Seq(Entry) /\ ListsClass(list[e])
    BY DEF IInv, ElementsTyped, StaleIsListed
  <2> QED BY <2>1, FindProperties DEF ListsClass, ClassKey
<1> QED BY <1>1, <1>2 DEF ClassesAreCurrent

(* The circular lists, their heads, the parents of attributes and the      *)
(* classes stay in step, as the invariant says.                            *)
THEOREM AttributesInvariance ==
  ASSUME Careful
  PROVE  Spec => []IInv
<1>1. Init => IInv
  BY InitIInv
<1>2. IInv /\ [Next]_vars => IInv'
  BY StepIInv
<1> QED BY <1>1, <1>2, PTL DEF Spec

(* The circular lists are sound, however attributes are moved, replaced,   *)
(* cloned and destroyed: a search that starts at the head finds the one    *)
(* entry of a name, and its attribute is the element's.                    *)
THEOREM AttributeListsAreSound ==
  ASSUME Careful
  PROVE  Spec => []ListsAreSound
<1>1. IInv => ListsAreSound
  BY ListProperties DEF ListsAreSound
<1> QED BY <1>1, AttributesInvariance, PTL

(* An attribute that is on no list is pending on its document and          *)
(* referenced by a client: none is lost.                                   *)
THEOREM NoAttributeIsLost ==
  ASSUME Careful
  PROVE  Spec => []LooseIsPending
<1>1. IInv => LooseIsPending
  BY DEF IInv
<1> QED BY <1>1, AttributesInvariance, PTL

(* The classes an element keeps are those of the attribute a search for    *)
(* class finds, unless that attribute got a value after it was linked: to  *)
(* link, remove, replace or copy one leaves them current, or makes them    *)
(* current again.  An element without class attribute has no classes,      *)
(* whatever was done to the values of those it had.                        *)
THEOREM ClassesFollowAttribute ==
  ASSUME Careful
  PROVE  Spec => []ClassesAreCurrent
<1>1. Init => StaleIsListed
  BY DEF Init, StaleIsListed
<1>2. IInv /\ StaleIsListed /\ [Next]_vars => StaleIsListed'
  BY StaleStep
<1>3. IInv /\ StaleIsListed => ClassesAreCurrent
  BY ClassProperties
<1> QED BY <1>1, <1>2, <1>3, AttributesInvariance, PTL DEF Spec

-----------------------------------------------------------------------------
(* Elements as maps.                                                       *)

(* The map from names to values that the list s, with the values val, is.  *)
Place(s, key) == CHOOSE k \in DOMAIN s : KeyOf(s[k]) = key

Meaning(s, val) ==
  [key \in {KeyOf(s[k]) : k \in DOMAIN s} |-> val[s[Place(s, key)].attr]]

Contents == [e \in elements |-> Meaning(list[e], value)]

(* The attributes of the entries of s, but the k-th, kept their values.     *)
Kept(s, val, new) == \A j \in DOMAIN s : new[s[j].attr] = val[s[j].attr]
OthersKept(s, k, val, new) == \A j \in DOMAIN s \ {k} : new[s[j].attr] = val[s[j].attr]

(* t has the names and values of s.                                        *)
Alike(s, t, val, new) ==
  /\ DOMAIN t = DOMAIN s
  /\ \A k \in DOMAIN s : KeyOf(t[k]) = KeyOf(s[k]) /\ new[t[k].attr] = val[s[k].attr]

NamesDiffer(s) == \A j, k \in DOMAIN s : KeyOf(s[j]) = KeyOf(s[k]) => j = k

LEMMA MeaningProperties ==
  ASSUME NEW s, NamesDiffer(s), NEW val
  PROVE  /\ Meaning(s, val) = [key \in DOMAIN Meaning(s, val) |-> Meaning(s, val)[key]]
         /\ \A key : key \in DOMAIN Meaning(s, val) <=> \E k \in DOMAIN s : key = KeyOf(s[k])
         /\ \A k \in DOMAIN s : Meaning(s, val)[KeyOf(s[k])] = val[s[k].attr]
<1>1. \A k \in DOMAIN s : Place(s, KeyOf(s[k])) = k
  BY DEF NamesDiffer, Place
<1> QED BY <1>1 DEF Meaning

(* Two maps that agree are equal.                                          *)
LEMMA SameMap ==
  ASSUME NEW f, NEW g, f = [x \in DOMAIN f |-> f[x]], g = [x \in DOMAIN g |-> g[x]],
         \A x : x \in DOMAIN f <=> x \in DOMAIN g, \A x \in DOMAIN f : f[x] = g[x]
  PROVE  f = g
<1>1. DOMAIN f = DOMAIN g
  OBVIOUS
<1> QED BY <1>1

LEMMA MeaningSame ==
  ASSUME NEW s, NEW t, NamesDiffer(s), NamesDiffer(t), NEW val, NEW new,
         Alike(s, t, val, new)
  PROVE  Meaning(t, new) = Meaning(s, val)
<1> DEFINE f == Meaning(t, new)
           g == Meaning(s, val)
<1>1. /\ f = [key \in DOMAIN f |-> f[key]]
      /\ \A key : key \in DOMAIN f <=> \E k \in DOMAIN t : key = KeyOf(t[k])
      /\ \A k \in DOMAIN t : f[KeyOf(t[k])] = new[t[k].attr]
  BY MeaningProperties
<1>2. /\ g = [key \in DOMAIN g |-> g[key]]
      /\ \A key : key \in DOMAIN g <=> \E k \in DOMAIN s : key = KeyOf(s[k])
      /\ \A k \in DOMAIN s : g[KeyOf(s[k])] = val[s[k].attr]
  BY MeaningProperties
<1> HIDE DEF f, g
<1>3. \A key : key \in DOMAIN f <=> key \in DOMAIN g
  BY <1>1, <1>2 DEF Alike
<1>4. \A key \in DOMAIN f : f[key] = g[key]
  BY <1>1, <1>2 DEF Alike
<1> QED BY <1>1, <1>2, <1>3, <1>4, SameMap DEF f, g

LEMMA MeaningKept ==
  ASSUME NEW s, NamesDiffer(s), NEW val, NEW new, Kept(s, val, new)
  PROVE  Meaning(s, new) = Meaning(s, val)
  BY MeaningSame DEF Kept, Alike

LEMMA MeaningAppended ==
  ASSUME NEW s \in Seq(Entry), NEW entry \in Entry, NamesDiffer(s), NEW val, NEW new,
         \A k \in DOMAIN s : KeyOf(s[k]) # KeyOf(entry),
         Kept(s, val, new), NEW x, x = new[entry.attr]
  PROVE  Meaning(Append(s, entry), new) = Maps!With(Meaning(s, val), KeyOf(entry), x)
<1> DEFINE t == Append(s, entry)
           f == Meaning(t, new)
           g == Meaning(s, val)
           h == Maps!With(g, KeyOf(entry), x)
<1>1. /\ \A i \in 1 .. Len(s) : t[i] = s[i]
      /\ t[Len(s) + 1] = entry
      /\ DOMAIN t = 1 .. Len(s) + 1 /\ DOMAIN s = 1 .. Len(s) /\ Len(s) \in Nat
  BY AppendProperties, LenProperties
<1>2. /\ \A i \in DOMAIN t : (i \in DOMAIN s /\ t[i] = s[i]) \/ (i = Len(s) + 1 /\ t[i] = entry)
      /\ \A i \in DOMAIN s : i \in DOMAIN t /\ t[i] = s[i]
      /\ Len(s) + 1 \in DOMAIN t /\ t[Len(s) + 1] = entry
  BY <1>1
<1> HIDE DEF t
<1>3. NamesDiffer(t)
  BY <1>2 DEF NamesDiffer
<1>4. /\ f = [key \in DOMAIN f |-> f[key]]
      /\ \A key : key \in DOMAIN f <=> \E k \in DOMAIN t : key = KeyOf(t[k])
      /\ \A k \in DOMAIN t : f[KeyOf(t[k])] = new[t[k].attr]
  BY <1>3, MeaningProperties
<1>5. /\ \A key : key \in DOMAIN g <=> \E k \in DOMAIN s : key = KeyOf(s[k])
      /\ \A k \in DOMAIN s : g[KeyOf(s[k])] = val[s[k].attr]
  BY MeaningProperties
<1>6. /\ h = [key \in DOMAIN h |-> h[key]]
      /\ \A key : key \in DOMAIN h <=> key \in DOMAIN g \/ key = KeyOf(entry)
      /\ \A key \in DOMAIN h : h[key] = IF key = KeyOf(entry) THEN x ELSE g[key]
  BY DEF Maps!With
<1> HIDE DEF f, g, h
<1>7. \A key : key \in DOMAIN f <=> key \in DOMAIN h
  BY <1>2, <1>4, <1>5, <1>6
<1>8. ASSUME NEW key \in DOMAIN f
      PROVE  f[key] = h[key]
  <2>1. PICK k \in DOMAIN t : key = KeyOf(t[k])
    BY <1>4
  <2>2. f[key] = new[t[k].attr] /\ key \in DOMAIN h
    BY <2>1, <1>4, <1>7
  <2>3. CASE t[k] = entry
    BY <2>1, <2>2, <2>3, <1>6
  <2>4. CASE k \in DOMAIN s /\ t[k] = s[k]
    BY <2>1, <2>2, <2>4, <1>5, <1>6 DEF Kept
  <2> QED BY <2>3, <2>4, <1>2
<1> QED BY <1>4, <1>6, <1>7, <1>8, SameMap DEF f, g, h, t

LEMMA MeaningLeft ==
  ASSUME NEW s, NEW k \in DOMAIN s, NEW t, Left(s, k, t), NamesDiffer(s), NEW val, NEW new,
         OthersKept(s, k, val, new)
  PROVE  /\ NamesDiffer(t)
         /\ Meaning(t, new) = Maps!Without(Meaning(s, val), KeyOf(s[k]))
<1> DEFINE f == Meaning(t, new)
           g == Meaning(s, val)
           h == Maps!Without(g, KeyOf(s[k]))
<1>1. NamesDiffer(t)
  <2> SUFFICES ASSUME NEW i \in DOMAIN t, NEW j \in DOMAIN t, KeyOf(t[i]) = KeyOf(t[j])
               PROVE  i = j
    BY DEF NamesDiffer
  <2>1. PICK x, y \in DOMAIN s : t[i] = s[x] /\ t[j] = s[y]
    BY DEF Left
  <2>2. x = y
    BY <2>1 DEF NamesDiffer
  <2> QED BY <2>1, <2>2 DEF Left, Distinct
<1>2. /\ f = [key \in DOMAIN f |-> f[key]]
      /\ \A key : key \in DOMAIN f <=> \E i \in DOMAIN t : key = KeyOf(t[i])
      /\ \A i \in DOMAIN t : f[KeyOf(t[i])] = new[t[i].attr]
  BY <1>1, MeaningProperties
<1>3. /\ \A key : key \in DOMAIN g <=> \E j \in DOMAIN s : key = KeyOf(s[j])
      /\ \A j \in DOMAIN s : g[KeyOf(s[j])] = val[s[j].attr]
  BY MeaningProperties
<1>4. /\ h = [key \in DOMAIN h |-> h[key]]
      /\ \A key : key \in DOMAIN h <=> key \in DOMAIN g /\ key # KeyOf(s[k])
      /\ \A key \in DOMAIN h : h[key] = g[key]
  BY DEF Maps!Without, Maps!Restrict
<1> HIDE DEF f, g, h
<1>5. \A key : key \in DOMAIN f <=> key \in DOMAIN h
  BY <1>2, <1>3, <1>4 DEF Left, NamesDiffer
<1>6. ASSUME NEW key \in DOMAIN f
      PROVE  f[key] = h[key]
  <2>1. PICK i \in DOMAIN t : key = KeyOf(t[i])
    BY <1>2
  <2>2. PICK j \in DOMAIN s \ {k} : t[i] = s[j]
    BY DEF Left
  <2> QED BY <2>1, <2>2, <1>2, <1>3, <1>4, <1>5 DEF OthersKept
<1> QED BY <1>1, <1>2, <1>4, <1>5, <1>6, SameMap DEF f, g, h

LEMMA MeaningSet ==
  ASSUME NEW s, NEW k \in DOMAIN s, NamesDiffer(s), NEW val, NEW new, OthersKept(s, k, val, new),
         NEW x, x = new[s[k].attr]
  PROVE  Meaning(s, new) = Maps!With(Meaning(s, val), KeyOf(s[k]), x)
<1> DEFINE f == Meaning(s, new)
           g == Meaning(s, val)
           h == Maps!With(g, KeyOf(s[k]), x)
<1>2. /\ f = [key \in DOMAIN f |-> f[key]]
      /\ \A key : key \in DOMAIN f <=> \E i \in DOMAIN s : key = KeyOf(s[i])
      /\ \A i \in DOMAIN s : f[KeyOf(s[i])] = new[s[i].attr]
  BY MeaningProperties
<1>3. /\ \A key : key \in DOMAIN g <=> \E j \in DOMAIN s : key = KeyOf(s[j])
      /\ \A j \in DOMAIN s : g[KeyOf(s[j])] = val[s[j].attr]
  BY MeaningProperties
<1>4. /\ h = [key \in DOMAIN h |-> h[key]]
      /\ \A key : key \in DOMAIN h <=> key \in DOMAIN g \/ key = KeyOf(s[k])
      /\ \A key \in DOMAIN h : h[key] = IF key = KeyOf(s[k]) THEN x ELSE g[key]
  BY DEF Maps!With
<1> HIDE DEF f, g, h
<1>5. \A key : key \in DOMAIN f <=> key \in DOMAIN h
  BY <1>2, <1>3, <1>4
<1>6. ASSUME NEW key \in DOMAIN f
      PROVE  f[key] = h[key]
  <2>1. PICK i \in DOMAIN s : key = KeyOf(s[i])
    BY <1>2
  <2>2. CASE i = k
    BY <2>1, <2>2, <1>2, <1>4, <1>5
  <2>3. CASE i # k
    BY <2>1, <2>3, <1>2, <1>3, <1>4, <1>5 DEF NamesDiffer, OthersKept
  <2> QED BY <2>2, <2>3
<1> QED BY <1>2, <1>4, <1>5, <1>6, SameMap DEF f, g, h

LEMMA WithAfterWithout ==
  ASSUME NEW g, NEW key, NEW x
  PROVE  Maps!With(Maps!Without(g, key), key, x) = Maps!With(g, key, x)
<1> DEFINE w == Maps!Without(g, key)
           f == Maps!With(w, key, x)
           h == Maps!With(g, key, x)
<1>1. /\ \A y : y \in DOMAIN w <=> y \in DOMAIN g /\ y # key
      /\ \A y \in DOMAIN w : w[y] = g[y]
  BY DEF Maps!Without, Maps!Restrict
<1> HIDE DEF w
<1>2. /\ f = [y \in DOMAIN f |-> f[y]]
      /\ \A y : y \in DOMAIN f <=> y \in DOMAIN w \/ y = key
      /\ \A y \in DOMAIN f : f[y] = IF y = key THEN x ELSE w[y]
  BY DEF Maps!With
<1>3. /\ h = [y \in DOMAIN h |-> h[y]]
      /\ \A y : y \in DOMAIN h <=> y \in DOMAIN g \/ y = key
      /\ \A y \in DOMAIN h : h[y] = IF y = key THEN x ELSE g[y]
  BY DEF Maps!With
<1> HIDE DEF f, h
<1>4. \A y : y \in DOMAIN f <=> y \in DOMAIN h
  BY <1>1, <1>2, <1>3
<1>5. \A y \in DOMAIN f : f[y] = h[y]
  BY <1>1, <1>2, <1>3, <1>4
<1> QED BY <1>2, <1>3, <1>4, <1>5, SameMap DEF f, h, w

(* The elements as the refinement sees them.                               *)
LEMMA ContentsAreMaps ==
  ASSUME IInv
  PROVE  [e \in elements |-> ValueOf(e)] = Contents
<1> SUFFICES ASSUME NEW e \in elements
             PROVE  ValueOf(e) = Meaning(list[e], value)
  BY DEF Contents
<1> DEFINE s == list[e]
           g == Meaning(s, value)
           f == ValueOf(e)
<1>1. e \in Element /\ s \in Seq(Entry) /\ NamesDiffer(s)
  BY TextFacts DEF IInv, ElementsTyped, Fits, NamesDiffer
<1>2. /\ g = [key \in DOMAIN g |-> g[key]]
      /\ \A key : key \in DOMAIN g <=> \E k \in DOMAIN s : key = KeyOf(s[k])
      /\ \A k \in DOMAIN s : g[KeyOf(s[k])] = value[s[k].attr]
  BY <1>1, MeaningProperties
<1>3. /\ f = [key \in DOMAIN f |-> f[key]]
      /\ \A key : key \in DOMAIN f <=> \E k \in DOMAIN s : key = KeyOf(s[k])
      /\ \A key \in DOMAIN f : f[key] = value[s[Find(e, key[1], key[2])].attr]
  BY DEF ValueOf, ToSet
<1> HIDE DEF f, g
<1>4. \A key : key \in DOMAIN f <=> key \in DOMAIN g
  BY <1>2, <1>3
<1>5. ASSUME NEW key \in DOMAIN f
      PROVE  f[key] = g[key]
  <2>1. PICK k \in DOMAIN s : key = KeyOf(s[k])
    BY <1>3
  <2> DEFINE namespace == key[1]
             name == key[2]
  <2>2. key = <<namespace, name>>
    BY <2>1 DEF KeyOf
  <2> HIDE DEF namespace, name
  <2>3. KeyOf(s[k]) = <<namespace, name>>
    BY <2>1, <2>2
  <2>4. Find(e, namespace, name) = k
    BY <2>3, <1>1, FindProperties DEF NamesDiffer
  <2>5. f[key] = value[s[k].attr]
    BY <2>4, <1>3 DEF namespace, name
  <2> QED BY <2>1, <2>5, <1>2
<1> QED BY <1>2, <1>3, <1>4, <1>5, SameMap DEF f, g

(* Nothing changes for the elements.                                       *)
LEMMA SameContents ==
  ASSUME IInv, UNCHANGED <<elements, list>>,
         \A a \in Attr : parent[a] # NULL => value'[a] = value[a]
  PROVE  Contents' = Contents
<1>1. ASSUME NEW e \in elements
      PROVE  Meaning(list[e], value') = Meaning(list[e], value)
  <2>1. e \in Element /\ NamesDiffer(list[e])
    BY TextFacts DEF IInv, Fits, NamesDiffer
  <2>2. Kept(list[e], value, value')
    BY <2>1, ListedParent DEF Kept
  <2> QED BY <2>1, <2>2, MeaningKept
<1> QED BY <1>1 DEF Contents

LEMMA OtherMeanings ==
  ASSUME IInv, NEW e \in Element, NEW h \in Element \ {e}, list'[h] = list[h],
         \A a \in Attr : parent[a] \notin {e, NULL} => value'[a] = value[a]
  PROVE  Meaning(list'[h], value') = Meaning(list[h], value)
<1>1. NamesDiffer(list[h])
  BY DEF IInv, Fits, NamesDiffer
<1>2. Kept(list[h], value, value')
  BY ListedParent, TextFacts DEF Kept
<1> QED BY <1>1, <1>2, MeaningKept

(* One name of one element changes.                                        *)
LEMMA OneNameChanges ==
  ASSUME IInv, NEW e \in Element, e \in elements, elements' = elements,
         \A h \in Element \ {e} : list'[h] = list[h],
         \A a \in Attr : parent[a] \notin {e, NULL} => value'[a] = value[a],
         NEW key \in Keys,
         \/ Meaning(list'[e], value') = Maps!Without(Meaning(list[e], value), key)
         \/ \E text \in Text :
              Meaning(list'[e], value') = Maps!With(Meaning(list[e], value), key, text)
  PROVE  Maps!Changed(Contents, Contents')
<1> DEFINE m == Contents
           n == Contents'
<1>1. /\ m = [h \in elements |-> Meaning(list[h], value)]
      /\ n = [h \in elements |-> Meaning(list'[h], value')]
  BY DEF Contents
<1> HIDE DEF m, n
<1>2. \A h \in elements \ {e} : n[h] = m[h]
  BY <1>1, OtherMeanings, TextFacts
<1>3. n = Maps!With(m, e, n[e])
  BY <1>1, <1>2 DEF Maps!With
<1>4. m[e] = Meaning(list[e], value) /\ n[e] = Meaning(list'[e], value')
  BY <1>1
<1>5. e \in DOMAIN m \cap DOMAIN n
  BY <1>1
<1> QED BY <1>3, <1>4, <1>5 DEF Maps!Changed, m, n

LEMMA KeysOfEntries ==
  ASSUME NEW entry \in Entry
  PROVE  KeyOf(entry) \in Keys
  BY DEF Entry, KeyOf, Keys, Names

LEMMA ListFacts ==
  ASSUME IInv, NEW e \in Element
  PROVE  /\ list[e] \in Seq(Entry)
         /\ NamesDiffer(list[e]) /\ Distinct(list[e])
         /\ list \in [Element -> Seq(Entry)]
         /\ value \in [Attr -> Text]
         /\ parent \in [Attr -> elements \cup {NULL}]
  BY DEF IInv, AttrsTyped, ElementsTyped, Fits, NamesDiffer, Distinct

LEMMA ListedValueMaps ==
  ASSUME IInv, NEW e \in Element, NEW k \in DOMAIN list[e], NEW text \in Text,
         value'[list[e][k].attr] = text,
         \A b \in Attr \ {list[e][k].attr} : value'[b] = value[b],
         UNCHANGED <<elements, list>>
  PROVE  Maps!Changed(Contents, Contents')
<1> DEFINE s == list[e]
           a == s[k].attr
<1>1. /\ s \in Seq(Entry) /\ NamesDiffer(s) /\ k \in DOMAIN s
      /\ s[k] \in Entry /\ a \in Attr /\ parent[a] = e /\ e \in elements
  BY ListFacts, ListedParent
<1>2. /\ \A j \in DOMAIN s \ {k} : s[j].attr \in Attr \ {a}
      /\ KeyOf(s[k]) \in Keys
  BY <1>1, ListedParent, KeysOfEntries DEF IInv, Fits
<1>3. list'[e] = s
  OBVIOUS
<1>4. value'[a] = text /\ \A b \in Attr \ {a} : value'[b] = value[b]
  OBVIOUS
<1> HIDE DEF s, a
<1>5. OthersKept(s, k, value, value') /\ text = value'[s[k].attr]
  BY <1>2, <1>4 DEF OthersKept, a
<1>6. Meaning(s, value') = Maps!With(Meaning(s, value), KeyOf(s[k]), text)
  BY <1>1, <1>5, MeaningSet
<1>7. /\ \A h \in Element \ {e} : list'[h] = list[h]
      /\ \A b \in Attr : parent[b] \notin {e, NULL} => value'[b] = value[b]
  BY <1>1, <1>4
<1>8. Meaning(list'[e], value') = Maps!With(Meaning(list[e], value), KeyOf(s[k]), text)
  BY <1>3, <1>6 DEF s
<1> QED BY <1>1, <1>2, <1>7, <1>8, OneNameChanges

LEMMA ValueMaps ==
  ASSUME IInv, NEW a \in Attr, NEW text \in Text,
         value' = [value EXCEPT ![a] = text], UNCHANGED <<elements, list>>
  PROVE  Maps!Changed(Contents, Contents') \/ Contents' = Contents
<1>1. CASE parent[a] = NULL
  BY <1>1, SameContents DEF IInv, AttrsTyped
<1>2. CASE parent[a] # NULL
  <2>1. parent[a] \in Element
    BY <1>2, TextFacts DEF IInv, AttrsTyped
  <2>2. PICK k \in DOMAIN list[parent[a]] : list[parent[a]][k].attr = a
    BY <2>1 DEF IInv, Fits
  <2>3. value'[a] = text /\ \A b \in Attr \ {a} : value'[b] = value[b]
    BY DEF IInv, AttrsTyped
  <2> QED BY <2>1, <2>2, <2>3, ListedValueMaps
<1> QED BY <1>1, <1>2

LEMMA LinkMaps ==
  ASSUME IInv, NEW e \in Element, NEW a \in Attr, NEW namespace \in Namespaces,
         parent[a] = NULL, e \in elements, elements' = elements,
         ~Has(e, namespace, Name[a]),
         Link(e, [attr |-> a, namespace |-> namespace]),
         \A b \in Attr \ {a} : value'[b] = value[b], value'[a] \in Text
  PROVE  Maps!Changed(Contents, Contents')
<1> DEFINE s == list[e]
           entry == [attr |-> a, namespace |-> namespace]
           t == Append(s, entry)
<1>1. /\ s \in Seq(Entry) /\ NamesDiffer(s)
      /\ entry \in Entry /\ entry.attr = a /\ KeyOf(entry) = <<namespace, Name[a]>>
  BY ListFacts DEF Entry, KeyOf
<1>2. \A k \in DOMAIN s : KeyOf(s[k]) # KeyOf(entry)
  BY <1>1, FindProperties
<1>3. Kept(s, value, value')
  BY TextFacts, ListedParent DEF Kept
<1>4. list' = [list EXCEPT ![e] = t]
  BY DEF Link
<1>5. KeyOf(entry) \in Keys
  BY <1>1, KeysOfEntries
<1> HIDE DEF s, entry
<1>6. Meaning(t, value') = Maps!With(Meaning(s, value), KeyOf(entry), value'[a])
  BY <1>1, <1>2, <1>3, MeaningAppended
<1>7. /\ list'[e] = t /\ \A h \in Element \ {e} : list'[h] = list[h]
      /\ \A b \in Attr : parent[b] \notin {e, NULL} => value'[b] = value[b]
  BY <1>4, ListFacts
<1>8. Meaning(list'[e], value') = Maps!With(Meaning(list[e], value), KeyOf(entry), value'[a])
  BY <1>1, <1>6, <1>7 DEF s
<1> QED BY <1>5, <1>7, <1>8, OneNameChanges

LEMMA RemovalMaps ==
  ASSUME IInv, NEW e \in Element, NEW k \in DOMAIN list[e], Removal(e, k)
  PROVE  Maps!Changed(Contents, Contents')
<1> DEFINE s == list[e]
           t == RemoveAt(s, k)
           old == s[k].attr
<1>1. /\ s \in Seq(Entry) /\ NamesDiffer(s) /\ Distinct(s)
      /\ s[k] \in Entry /\ old \in Attr /\ parent[old] = e /\ e \in elements
  BY ListFacts, ListedParent
<1>2. list' = [list EXCEPT ![e] = t] /\ elements' = elements
  BY DEF Removal
<1>3. \A a \in Attr \ {old} : value'[a] = value[a]
  BY DEF Removal, Released
<1>4. OthersKept(s, k, value, value')
  BY <1>3, ListedParent DEF IInv, Fits, OthersKept
<1>5. Left(s, k, t)
  BY <1>1, EntriesLeft
<1>6. KeyOf(s[k]) \in Keys
  BY <1>1, KeysOfEntries
<1>7. k \in DOMAIN s
  OBVIOUS
<1> HIDE DEF t, s
<1>8. Meaning(t, value') = Maps!Without(Meaning(s, value), KeyOf(s[k]))
  BY <1>1, <1>4, <1>5, <1>7, MeaningLeft
<1>9. /\ list'[e] = t /\ \A h \in Element \ {e} : list'[h] = list[h]
      /\ \A b \in Attr : parent[b] \notin {e, NULL} => value'[b] = value[b]
  BY <1>1, <1>2, <1>3, ListFacts
<1>10. Meaning(list'[e], value') = Maps!Without(Meaning(list[e], value), KeyOf(s[k]))
  BY <1>8, <1>9 DEF s
<1> QED BY <1>1, <1>2, <1>6, <1>9, <1>10, OneNameChanges

LEMMA ReplaceMaps ==
  ASSUME IInv, NEW e \in Element, NEW a \in Attr, NEW namespace \in Namespaces,
         ReplaceAttributeNode(e, namespace, a)
  PROVE  Maps!Changed(Contents, Contents')
<1> DEFINE s == list[e]
           k == Find(e, namespace, Name[a])
           t == RemoveAt(s, k)
           entry == [attr |-> a, namespace |-> namespace]
<1>1. k \in DOMAIN s /\ KeyOf(s[k]) = <<namespace, Name[a]>>
  BY FindProperties, ListFacts DEF ReplaceAttributeNode
<1>2. /\ s \in Seq(Entry) /\ NamesDiffer(s) /\ Distinct(s)
      /\ e \in elements /\ value[a] \in Text
  BY <1>1, ListFacts, ListedParent
<1>3. /\ list' = [list EXCEPT ![e] = Append(t, entry)]
      /\ elements' = elements /\ value' = value
  BY DEF ReplaceAttributeNode
<1>4. /\ entry \in Entry /\ entry.attr = a
      /\ KeyOf(entry) = KeyOf(s[k])
  BY <1>1 DEF Entry, KeyOf
<1>5. KeyOf(entry) \in Keys
  BY <1>4, KeysOfEntries
<1> HIDE DEF s, k, t, entry
<1>6. Left(s, k, t)
  BY <1>1, <1>2, EntriesLeft DEF t
<1>13. OthersKept(s, k, value, value) /\ Kept(t, value, value)
  BY DEF OthersKept, Kept
<1>7. /\ NamesDiffer(t)
      /\ Meaning(t, value) = Maps!Without(Meaning(s, value), KeyOf(s[k]))
  BY <1>1, <1>2, <1>6, <1>13, MeaningLeft
<1>8. t \in Seq(Entry) /\ \A i \in DOMAIN t : KeyOf(t[i]) # KeyOf(entry)
  BY <1>1, <1>2, <1>4, <1>6 DEF NamesDiffer, Left
<1>9. Meaning(Append(t, entry), value)
        = Maps!With(Meaning(t, value), KeyOf(entry), value[a])
  BY <1>4, <1>7, <1>8, <1>13, MeaningAppended
<1>10. Meaning(Append(t, entry), value)
         = Maps!With(Meaning(s, value), KeyOf(entry), value[a])
  BY <1>4, <1>7, <1>9, WithAfterWithout
<1>11. /\ list'[e] = Append(t, entry) /\ \A h \in Element \ {e} : list'[h] = list[h]
  BY <1>3, ListFacts
<1>12. Meaning(list'[e], value') = Maps!With(Meaning(list[e], value), KeyOf(entry), value[a])
  BY <1>3, <1>10, <1>11 DEF s
<1> QED BY <1>2, <1>3, <1>5, <1>11, <1>12, OneNameChanges

LEMMA CreateElementMaps ==
  ASSUME IInv, NEW e \in Element, CreateElement(e)
  PROVE  Maps!Created(Contents, Contents')
<1> DEFINE m == Contents
           n == Contents'
<1>1. /\ e \notin elements /\ elements' = elements \cup {e}
      /\ list' = list /\ value' = value /\ list[e] = <<>>
  BY DEF CreateElement, ofAttrs, IInv, ElementsTyped
<1>2. /\ m = [h \in elements |-> Meaning(list[h], value)]
      /\ n = [h \in elements \cup {e} |-> Meaning(list[h], value)]
  BY <1>1 DEF Contents
<1>3. Meaning(<<>>, value) = <<>>
  BY DEF Meaning
<1> HIDE DEF m, n
<1>4. n = Maps!With(m, e, <<>>)
  BY <1>1, <1>2, <1>3 DEF Maps!With
<1>5. e \in Element \ DOMAIN m
  BY <1>1, <1>2
<1> QED BY <1>4, <1>5 DEF Maps!Created, m, n

LEMMA DestroyElementMaps ==
  ASSUME IInv, NEW e \in Element, DestroyElement(e)
  PROVE  Maps!Destroyed(Contents, Contents')
<1> DEFINE m == Contents
           n == Contents'
<1>1. /\ e \in elements /\ elements' = elements \ {e}
      /\ list' = [list EXCEPT ![e] = <<>>]
      /\ Released(Listed(e))
  BY DEF DestroyElement, Usable
<1>2. \A a \in Attr \ Listed(e) : value'[a] = value[a]
  BY <1>1 DEF Released
<1>3. \A a \in Attr : parent[a] \notin {e, NULL} => value'[a] = value[a]
  BY <1>2, ListedIffParent
<1>4. \A h \in elements \ {e} : Meaning(list'[h], value') = Meaning(list[h], value)
  <2> SUFFICES ASSUME NEW h \in elements \ {e}
               PROVE  Meaning(list'[h], value') = Meaning(list[h], value)
    OBVIOUS
  <2>1. h \in Element \ {e} /\ list'[h] = list[h]
    BY <1>1, TextFacts, ListFacts
  <2> QED BY <2>1, <1>3, OtherMeanings
<1>5. /\ m = [h \in elements |-> Meaning(list[h], value)]
      /\ n = [h \in elements \ {e} |-> Meaning(list'[h], value')]
  BY <1>1 DEF Contents
<1> HIDE DEF m, n
<1>6. n = Maps!Without(m, e)
  BY <1>4, <1>5 DEF Maps!Without, Maps!Restrict
<1>7. e \in DOMAIN m
  BY <1>1, <1>5
<1> QED BY <1>6, <1>7 DEF Maps!Destroyed, m, n

LEMMA CloneElementMaps ==
  ASSUME IInv, NEW e \in Element, NEW h \in Element, CloneElement(e, h)
  PROVE  Maps!Cloned(Contents, Contents')
<1> DEFINE s == list[e]
           m == Contents
           n == Contents'
<1>1. PICK copy \in Injection(Listed(e), Attr \ live) : CopiedBy(e, h, copy)
  BY DEF CloneElement, CopiedBy
<1> DEFINE made == {copy[a] : a \in Listed(e)}
           Original(b) == CHOOSE a \in Listed(e) : copy[a] = b
           t == [k \in DOMAIN s |-> [s[k] EXCEPT !.attr = copy[@]]]
<1>2. /\ \A a \in Listed(e) : Name[copy[a]] = Name[a]
      /\ list'  = [list EXCEPT ![h] = t]
      /\ value' = [b \in Attr |-> IF b \in made THEN value[Original(b)] ELSE value[b]]
  BY <1>1 DEF CopiedBy
<1>3. /\ e \in elements /\ h \notin elements /\ elements' = elements \cup {h}
  BY DEF CloneElement, Usable
<1>4. /\ \A k \in DOMAIN s : s[k] \in Entry /\ s[k].attr \in Listed(e)
      /\ NamesDiffer(s) /\ list'[h] = t /\ h # e
      /\ \A x \in Element \ {h} : list'[x] = list[x]
  BY <1>2, <1>3, ListedIffParent, ListedParent, ListFacts
<1>5. /\ \A a \in Listed(e) : copy[a] \in Attr \ live
      /\ \A a, b \in Listed(e) : copy[a] = copy[b] => a = b
  BY DEF Injection, IsInjective
<1>6. \A a \in Listed(e) : Original(copy[a]) = a /\ copy[a] \in made
  BY <1>5
<1>7. /\ DOMAIN t = DOMAIN s
      /\ \A k \in DOMAIN s : /\ t[k].attr = copy[s[k].attr]
                             /\ t[k].namespace = s[k].namespace
  BY <1>4 DEF Entry
<1>8. \A b \in Attr : parent[b] \notin {h, NULL} => value'[b] = value[b]
  BY <1>2, <1>5 DEF IInv, AttrsTyped
<1> HIDE DEF s, t, made, Original
<1>9. \A k \in DOMAIN s : value'[copy[s[k].attr]] = value[s[k].attr]
  BY <1>2, <1>4, <1>5, <1>6
<1>10. \A k \in DOMAIN s : KeyOf(t[k]) = KeyOf(s[k]) /\ value'[t[k].attr] = value[s[k].attr]
  BY <1>2, <1>4, <1>7, <1>9 DEF KeyOf
<1>11. NamesDiffer(t)
  BY <1>4, <1>7, <1>10 DEF NamesDiffer
<1>12. Meaning(t, value') = Meaning(s, value)
  <2>1. Alike(s, t, value, value')
    BY <1>7, <1>10 DEF Alike
  <2> QED BY <2>1, <1>4, <1>11, MeaningSame
<1>13. \A x \in elements : Meaning(list'[x], value') = Meaning(list[x], value)
  <2> SUFFICES ASSUME NEW x \in elements
               PROVE  Meaning(list'[x], value') = Meaning(list[x], value)
    OBVIOUS
  <2>1. x \in Element \ {h} /\ list'[x] = list[x]
    BY <1>3, <1>4, TextFacts
  <2> QED BY <2>1, <1>8, OtherMeanings
<1>14. /\ m = [x \in elements |-> Meaning(list[x], value)]
       /\ n = [x \in elements \cup {h} |-> Meaning(list'[x], value')]
  BY <1>3 DEF Contents
<1> HIDE DEF m, n
<1>15. m[e] = Meaning(s, value) /\ DOMAIN m = elements
  BY <1>3, <1>14 DEF s
<1>16. n = Maps!With(m, h, m[e])
  BY <1>3, <1>4, <1>12, <1>13, <1>14, <1>15 DEF Maps!With
<1> QED BY <1>3, <1>15, <1>16 DEF Maps!Cloned, m, n

LEMMA AttrStepMaps ==
  ASSUME IInv, NEW a \in Attr, NEW text \in Text,
         CreateAttr(a) \/ UnrefAttr(a) \/ ChangeValue(a, text)
  PROVE  Maps!Changed(Contents, Contents') \/ Contents' = Contents
<1>1. CASE ChangeValue(a, text)
  BY <1>1, ValueMaps DEF ChangeValue, SetValue
<1>2. CASE CreateAttr(a)
  BY <1>2, SameContents DEF CreateAttr, ofElements
<1>3. CASE UnrefAttr(a)
  BY <1>3, SameContents DEF UnrefAttr, ofElements, IInv, AttrsTyped
<1> QED BY <1>1, <1>2, <1>3

LEMMA NameStepMaps ==
  ASSUME IInv, NEW e \in Element, NEW ns \in Namespaces, NEW name \in Names,
         \/ GetAttributeNode(e, ns, name)
         \/ \E text \in Text : SetAttribute(e, ns, name, text)
         \/ RemoveAttribute(e, ns, name)
         \/ RemoveNamedItem(e, ns, name)
  PROVE  Maps!Changed(Contents, Contents') \/ Contents' = Contents
<1> DEFINE k == Find(e, ns, name)
<1>1. Has(e, ns, name) => k \in DOMAIN list[e] /\ list[e][k].attr \in Attr
  BY FindProperties, ListFacts, ListedParent
<1>2. CASE GetAttributeNode(e, ns, name)
  BY <1>2, SameContents DEF GetAttributeNode, ofElements
<1>3. CASE \E text \in Text : SetAttribute(e, ns, name, text)
  <2> PICK text \in Text : SetAttribute(e, ns, name, text)
    BY <1>3
  <2>1. /\ Has(e, ns, name)
        /\ value' = [value EXCEPT ![list[e][k].attr] = text]
        /\ UNCHANGED <<elements, list>>
    BY DEF SetAttribute, SetValue
  <2> QED BY <2>1, <1>1, ValueMaps
<1>4. CASE RemoveAttribute(e, ns, name) \/ RemoveNamedItem(e, ns, name)
  <2>1. Has(e, ns, name) /\ Removal(e, k)
    BY <1>4 DEF RemoveAttribute, RemoveNamedItem
  <2> QED BY <2>1, <1>1, RemovalMaps
<1> QED BY <1>2, <1>3, <1>4

LEMMA NodeStepMaps ==
  ASSUME IInv, NEW e \in Element, NEW a \in Attr,
         \/ \E text \in Text : SetNewAttribute(e, a, text)
         \/ RemoveAttributeNode(e, a)
         \/ \E ns \in Namespaces : \/ AddAttributeNode(e, ns, a)
                                   \/ ReplaceAttributeNode(e, ns, a)
  PROVE  Maps!Changed(Contents, Contents')
<1>1. CASE \E text \in Text : SetNewAttribute(e, a, text)
  <2> PICK text \in Text : SetNewAttribute(e, a, text)
    BY <1>1
  <2>1. /\ e \in elements /\ elements' = elements /\ a \notin live
        /\ value' = [value EXCEPT ![a] = text]
        /\ ~Has(e, Namespace[a], Name[a])
        /\ Link(e, [attr |-> a, namespace |-> Namespace[a]])
    BY DEF SetNewAttribute, Usable
  <2>2. parent[a] = NULL
    BY <2>1 DEF IInv, AttrsTyped
  <2>3. (\A b \in Attr \ {a} : value'[b] = value[b]) /\ value'[a] \in Text
    BY <2>1, ListFacts
  <2>4. Namespace[a] \in Namespaces
    BY DEF Namespaces
  <2> QED BY <2>1, <2>2, <2>3, <2>4, LinkMaps
<1>2. CASE RemoveAttributeNode(e, a)
  <2>1. Find(e, NULL, Name[a]) \in DOMAIN list[e] /\ Removal(e, Find(e, NULL, Name[a]))
    BY <1>2, FindProperties, ListFacts DEF RemoveAttributeNode
  <2> QED BY <2>1, RemovalMaps
<1>3. CASE \E ns \in Namespaces : AddAttributeNode(e, ns, a)
  <2> PICK ns \in Namespaces : AddAttributeNode(e, ns, a)
    BY <1>3
  <2>1. /\ elements' = elements /\ value' = value
        /\ ~Has(e, ns, Name[a]) /\ Link(e, [attr |-> a, namespace |-> ns])
        /\ MayEnter(e, ns, a)
    BY DEF AddAttributeNode
  <2>2. e \in elements /\ parent[a] = NULL
    BY <2>1, Entering
  <2>3. (\A b \in Attr \ {a} : value'[b] = value[b]) /\ value'[a] \in Text
    BY <2>1, ListFacts
  <2> QED BY <2>1, <2>2, <2>3, LinkMaps
<1>4. CASE \E ns \in Namespaces : ReplaceAttributeNode(e, ns, a)
  BY <1>4, ReplaceMaps
<1> QED BY <1>1, <1>2, <1>3, <1>4

LEMMA StepMaps ==
  ASSUME IInv, [Next]_vars
  PROVE  \/ Contents' = Contents
         \/ Maps!Created(Contents, Contents') \/ Maps!Cloned(Contents, Contents')
         \/ Maps!Destroyed(Contents, Contents') \/ Maps!Changed(Contents, Contents')
<1>1. CASE UNCHANGED vars
  BY <1>1, SameContents DEF vars, ofElements, ofAttrs
<1>2. CASE \E e \in Element : CreateElement(e) \/ DestroyElement(e)
  BY <1>2, CreateElementMaps, DestroyElementMaps
<1>3. CASE \E e, h \in Element : CloneElement(e, h)
  BY <1>3, CloneElementMaps
<1>4. CASE \E a \in Attr : \/ CreateAttr(a)
                           \/ UnrefAttr(a)
                           \/ \E text \in Text : ChangeValue(a, text)
  BY <1>4, TextFacts, AttrStepMaps
<1>5. CASE \E e \in Element, ns \in Namespaces, name \in Names :
             \/ GetAttributeNode(e, ns, name)
             \/ \E text \in Text : SetAttribute(e, ns, name, text)
             \/ RemoveAttribute(e, ns, name)
             \/ RemoveNamedItem(e, ns, name)
  BY <1>5, NameStepMaps
<1>6. CASE \E e \in Element, a \in Attr :
             \/ \E text \in Text : SetNewAttribute(e, a, text)
             \/ RemoveAttributeNode(e, a)
             \/ \E ns \in Namespaces : \/ AddAttributeNode(e, ns, a)
                                       \/ ReplaceAttributeNode(e, ns, a)
  BY <1>6, NodeStepMaps
<1> QED BY <1>1, <1>2, <1>3, <1>4, <1>5, <1>6 DEF Next

(* To a client an element is a map from names to values, of which a call   *)
(* changes one name at most: the lists, the head, the parents and the      *)
(* pending attributes behind it never show through.                        *)
THEOREM AttributesImplementMaps ==
  ASSUME Careful
  PROVE  Spec => ImplementsMaps
<1> DEFINE map == [e \in elements |-> ValueOf(e)]
<1>1. Init => Maps!Init
  <2> SUFFICES ASSUME Init
               PROVE  map = <<>>
    BY DEF Maps!Init
  <2> QED BY DEF Init
<1>2. IInv => map = Contents
  BY ContentsAreMaps
<1>3. IInv /\ map = Contents /\ (map = Contents)' /\ [Next]_vars => [Maps!Next]_map
  <2> SUFFICES ASSUME IInv, map = Contents, map' = Contents', [Next]_vars
               PROVE  Maps!Next \/ map' = map
    OBVIOUS
  <2>1. Maps!Next <=> \/ Maps!Created(map, map') \/ Maps!Cloned(map, map')
                      \/ Maps!Destroyed(map, map') \/ Maps!Changed(map, map')
    BY DEF Maps!Next
  <2> HIDE DEF map
  <2> QED BY <2>1, StepMaps
<1> QED BY <1>1, <1>2, <1>3, AttributesInvariance, PTL DEF Spec, ImplementsMaps, Maps!Spec
=============================================================================
