---------------------------- MODULE SharedLemmas ----------------------------
(***************************************************************************)
(* Facts that the proofs of several models use: about lists; about         *)
(* functions given by recursion; about trees and what is below their       *)
(* nodes; and that the walks of module Walks meet what is below their      *)
(* root, once each in document order.                                      *)
(***************************************************************************)
EXTENDS Walks, SequenceTheorems, FiniteSetTheorems, WellFoundedInduction, TLAPS

(* Lists.                                                                  *)

LEMMA MinIsLeast ==
  ASSUME NEW S \in SUBSET Nat, S # {}
  PROVE  Min(S) \in S /\ \A y \in S : Min(S) <= y
<1> DEFINE Less == {p \in Nat \X Nat : p[1] < p[2]}
<1>1. Less = OpToRel(<, Nat)
  BY DEF OpToRel
<1>2. IsWellFoundedOn(Less, Nat)
  BY <1>1, NatLessThanWellFounded
<1> HIDE DEF Less
<1>3. PICK x \in S : \A y \in S : ~ (<<y, x>> \in Less)
  BY <1>2, WFMin
<1>4. ASSUME NEW y \in S
      PROVE  x <= y
  <2>1. ~ (<<y, x>> \in Nat \X Nat /\ <<y, x>>[1] < <<y, x>>[2])
    BY <1>3 DEF Less
  <2>2. x \in Nat /\ y \in Nat
    OBVIOUS
  <2> QED BY <2>1, <2>2
<1> QED BY <1>4 DEF Min

LEMMA MaxIsGreatest ==
  ASSUME NEW n \in Nat, NEW S \in SUBSET (1 .. n), S # {}
  PROVE  Max(S) \in S /\ \A y \in S : y <= Max(S)
<1> DEFINE T == {n - x : x \in S}
<1>1. \A x \in S : n - x \in Nat
  OBVIOUS
<1>2. T \in SUBSET Nat /\ T # {}
  BY <1>1
<1>3. PICK m \in T : \A t \in T : m <= t
  BY <1>2, MinIsLeast
<1>4. PICK x \in S : m = n - x
  OBVIOUS
<1>5. ASSUME NEW y \in S
      PROVE  y <= x
  <2>1. n - x <= n - y
    BY <1>3, <1>4
  <2>2. x \in 1 .. n /\ y \in 1 .. n
    OBVIOUS
  <2> QED BY <2>1, <2>2
<1> QED BY <1>5 DEF Max

(* What is left of a list without its k-th element.                        *)
LEMMA RemoveAtProperties ==
  ASSUME NEW S, NEW s \in Seq(S), NEW k \in 1 .. Len(s)
  PROVE  /\ RemoveAt(s, k) \in Seq(S)
         /\ Len(RemoveAt(s, k)) = Len(s) - 1
         /\ \A i \in 1 .. Len(s) - 1 :
              RemoveAt(s, k)[i] = IF i < k THEN s[i] ELSE s[i + 1]
<1>1. /\ SubSeq(s, 1, k - 1) \in Seq(S)
      /\ Len(SubSeq(s, 1, k - 1)) = k - 1
      /\ \A i \in 1 .. k - 1 : SubSeq(s, 1, k - 1)[i] = s[i]
  BY SubSeqProperties, LenProperties, ElementOfSeq
<1>2. /\ SubSeq(s, k + 1, Len(s)) \in Seq(S)
      /\ Len(SubSeq(s, k + 1, Len(s))) = Len(s) - k
      /\ \A i \in 1 .. Len(s) - k : SubSeq(s, k + 1, Len(s))[i] = s[k + i]
  BY SubSeqProperties, LenProperties, ElementOfSeq
<1> DEFINE a == SubSeq(s, 1, k - 1)
           b == SubSeq(s, k + 1, Len(s))
<1> HIDE DEF a, b
<1>3. /\ a \o b \in Seq(S)
      /\ Len(a \o b) = Len(a) + Len(b)
      /\ \A i \in 1 .. Len(a) + Len(b) :
           (a \o b)[i] = IF i <= Len(a) THEN a[i] ELSE b[i - Len(a)]
  BY <1>1, <1>2, ConcatProperties DEF a, b
<1>4. RemoveAt(s, k) = a \o b
  BY DEF RemoveAt, a, b
<1>5. Len(s) \in Nat /\ Len(a) = k - 1 /\ Len(b) = Len(s) - k
  BY <1>1, <1>2, LenProperties DEF a, b
<1>6. ASSUME NEW i \in 1 .. Len(s) - 1
      PROVE  (a \o b)[i] = IF i < k THEN s[i] ELSE s[i + 1]
  <2>1. CASE i < k
    BY <2>1, <1>1, <1>3, <1>5 DEF a
  <2>2. CASE i >= k
    <3>1. i - Len(a) \in 1 .. Len(s) - k /\ ~(i <= Len(a)) /\ i \in 1 .. Len(a) + Len(b)
      BY <2>2, <1>5
    <3>2. (a \o b)[i] = b[i - Len(a)]
      BY <3>1, <1>3
    <3>3. b[i - Len(a)] = s[k + (i - Len(a))]
      BY <3>1, <1>2 DEF b
    <3>4. k + (i - Len(a)) = i + 1
      BY <1>5
    <3> QED BY <3>2, <3>3, <3>4, <2>2
  <2> QED BY <2>1, <2>2, <1>5
<1> QED BY <1>3, <1>4, <1>5, <1>6

(* The first element of what is left.                                      *)
LEMMA HeadOfRemoveAt ==
  ASSUME NEW S, NEW s \in Seq(S), NEW k \in 1 .. Len(s)
  PROVE  /\ Len(s) = 1 => RemoveAt(s, k) = <<>>
         /\ Len(s) # 1 => /\ RemoveAt(s, k) # <<>>
                          /\ RemoveAt(s, k)[1] = IF k = 1 THEN s[2] ELSE s[1]
<1> DEFINE t == RemoveAt(s, k)
<1>1. /\ t \in Seq(S)
      /\ Len(t) = Len(s) - 1
      /\ \A i \in 1 .. Len(s) - 1 : t[i] = IF i < k THEN s[i] ELSE s[i + 1]
  BY RemoveAtProperties
<1>2. Len(s) \in Nat
  BY LenProperties
<1> HIDE DEF t
<1>3. Len(s) = 1 => t = <<>>
  BY <1>1, <1>2, EmptySeq
<1>4. ASSUME Len(s) # 1
      PROVE  t # <<>> /\ t[1] = IF k = 1 THEN s[2] ELSE s[1]
  <2>1. 1 \in 1 .. Len(s) - 1 /\ Len(t) # 0
    BY <1>1, <1>2, <1>4
  <2>2. t[1] = IF 1 < k THEN s[1] ELSE s[1 + 1]
    BY <2>1, <1>1
  <2>3. 1 < k <=> k # 1
    BY <1>2
  <2> QED BY <2>1, <2>2, <2>3, EmptySeq
<1> QED BY <1>3, <1>4 DEF t

(* What is left of a list without the first occurrence of e, and, when the *)
(* list has its elements once each, what is not.                           *)
LEMMA RemoveFirstProperties ==
  ASSUME NEW S, NEW s \in Seq(S), NEW e
  PROVE  /\ RemoveFirst(s, e) \in Seq(S)
         /\ ToSet(RemoveFirst(s, e)) \subseteq ToSet(s)
         /\ ToSet(s) \subseteq ToSet(RemoveFirst(s, e)) \cup {e}
         /\ IsInjective(s) => /\ IsInjective(RemoveFirst(s, e))
                              /\ e \notin ToSet(RemoveFirst(s, e))
<1>1. CASE ~ \E i \in 1 .. Len(s) : s[i] = e
  <2>1. RemoveFirst(s, e) = s
    BY <1>1 DEF RemoveFirst
  <2>2. DOMAIN s = 1 .. Len(s)
    OBVIOUS
  <2>3. e \notin ToSet(s)
    BY <1>1, <2>2 DEF ToSet
  <2> QED BY <2>1, <2>3
<1>2. CASE \E i \in 1 .. Len(s) : s[i] = e
  <2> DEFINE I == {i \in 1 .. Len(s) : s[i] = e}
             k == Min(I)
             t == RemoveAt(s, k)
  <2>1. I \in SUBSET Nat /\ I # {}
    BY <1>2
  <2>2. k \in I
    <3> HIDE DEF I
    <3> QED BY <2>1, MinIsLeast
  <2>3. k \in 1 .. Len(s) /\ s[k] = e
    BY <2>2
  <2>4. RemoveFirst(s, e) = t
    BY <1>2, <2>1 DEF RemoveFirst, SelectInSeq
  <2> HIDE DEF I, k
  <2>5. /\ t \in Seq(S)
        /\ Len(t) = Len(s) - 1
        /\ \A i \in 1 .. Len(s) - 1 : t[i] = IF i < k THEN s[i] ELSE s[i + 1]
    BY <2>3, RemoveAtProperties
  <2> HIDE DEF t
  <2>6. Len(s) \in Nat /\ DOMAIN s = 1 .. Len(s) /\ DOMAIN t = 1 .. Len(s) - 1
    BY <2>5, LenProperties
  <2>7. ToSet(t) \subseteq ToSet(s)
    <3>1. ASSUME NEW i \in 1 .. Len(s) - 1
          PROVE  t[i] \in ToSet(s)
      <4>1. i \in 1 .. Len(s) /\ i + 1 \in 1 .. Len(s)
        BY <2>6
      <4> QED BY <4>1, <2>5, <2>6 DEF ToSet
    <3> QED BY <3>1, <2>6 DEF ToSet
  <2>8. ToSet(s) \subseteq ToSet(t) \cup {e}
    <3>1. ASSUME NEW i \in 1 .. Len(s), i # k
          PROVE  s[i] \in ToSet(t)
      <4>1. CASE i < k
        <5>1. i \in 1 .. Len(s) - 1 /\ t[i] = s[i]
          BY <4>1, <2>3, <2>5, <2>6
        <5> QED BY <5>1, <2>6 DEF ToSet
      <4>2. CASE i > k
        <5>1. i - 1 \in 1 .. Len(s) - 1 /\ ~(i - 1 < k) /\ (i - 1) + 1 = i
          BY <4>2, <2>3, <2>6
        <5>2. t[i - 1] = s[i]
          BY <5>1, <2>5
        <5> QED BY <5>1, <5>2, <2>6 DEF ToSet
      <4> QED BY <3>1, <4>1, <4>2, <2>3, <2>6
    <3> QED BY <3>1, <2>3, <2>6 DEF ToSet
  <2>9. ASSUME IsInjective(s)
        PROVE  IsInjective(t) /\ e \notin ToSet(t)
    <3>1. \A a, b \in 1 .. Len(s) : s[a] = s[b] => a = b
      BY <2>9, <2>6 DEF IsInjective
    <3> DEFINE from(i) == IF i < k THEN i ELSE i + 1
    <3>2. \A i \in 1 .. Len(s) - 1 : from(i) \in 1 .. Len(s) /\ t[i] = s[from(i)] /\ from(i) # k
      BY <2>3, <2>5, <2>6
    <3>3. \A i, j \in 1 .. Len(s) - 1 : from(i) = from(j) => i = j
      BY <2>3, <2>6
    <3> HIDE DEF from
    <3>4. IsInjective(t)
      <4> SUFFICES ASSUME NEW i \in 1 .. Len(s) - 1, NEW j \in 1 .. Len(s) - 1, t[i] = t[j]
                   PROVE  i = j
        BY <2>6 DEF IsInjective
      <4> QED BY <3>1, <3>2, <3>3
    <3>5. ASSUME NEW i \in 1 .. Len(s) - 1
          PROVE  t[i] # e
      BY <3>1, <3>2, <2>3
    <3> QED BY <3>4, <3>5, <2>6 DEF ToSet
  <2> QED BY <2>4, <2>5, <2>7, <2>8, <2>9
<1> QED BY <1>1, <1>2

(* In a list that has its elements once each the first occurrence is the   *)
(* only one; what is not in a list is not removed.                         *)
LEMMA RemoveFirstIsRemoveAt ==
  ASSUME NEW S, NEW s \in Seq(S), IsInjective(s)
  PROVE  /\ \A k \in 1 .. Len(s) : RemoveFirst(s, s[k]) = RemoveAt(s, k)
         /\ \A e : e \notin ToSet(s) => RemoveFirst(s, e) = s
<1>1. DOMAIN s = 1 .. Len(s) /\ \A i, j \in 1 .. Len(s) : s[i] = s[j] => i = j
  BY LenProperties DEF IsInjective
<1>2. ASSUME NEW k \in 1 .. Len(s)
      PROVE  RemoveFirst(s, s[k]) = RemoveAt(s, k)
  <2> DEFINE I == {i \in 1 .. Len(s) : s[i] = s[k]}
  <2>1. I = {k}
    BY <1>1
  <2>2. I \in SUBSET Nat /\ I # {}
    BY <2>1
  <2>3. Min(I) = k
    <3>1. Min(I) \in I
      <4> HIDE DEF I
      <4> QED BY <2>2, MinIsLeast
    <3> QED BY <2>1, <3>1
  <2>4. \E i \in 1 .. Len(s) : s[i] = s[k]
    OBVIOUS
  <2> QED BY <2>2, <2>3, <2>4 DEF RemoveFirst, SelectInSeq
<1>3. ASSUME NEW e, e \notin ToSet(s)
      PROVE  RemoveFirst(s, e) = s
  BY <1>1, <1>3 DEF RemoveFirst, ToSet
<1> QED BY <1>2, <1>3

(* Both sides of the gap that an element leaves.                           *)
LEMMA SidesOfRemoveAt ==
  ASSUME NEW S, NEW s \in Seq(S), NEW k \in 1 .. Len(s)
  PROVE  LET t == RemoveAt(s, k)
         IN  /\ k \in 1 .. Len(t) + 1
             /\ SubSeq(t, 1, k - 1) = SubSeq(s, 1, k - 1)
             /\ SubSeq(t, k, Len(t)) = SubSeq(s, k + 1, Len(s))
<1> DEFINE t == RemoveAt(s, k)
<1>1. /\ t \in Seq(S)
      /\ Len(t) = Len(s) - 1
      /\ \A i \in 1 .. Len(s) - 1 : t[i] = IF i < k THEN s[i] ELSE s[i + 1]
  BY RemoveAtProperties
<1>2. Len(s) \in Nat
  BY LenProperties
<1> HIDE DEF t
<1>3. SubSeq(t, 1, k - 1) = SubSeq(s, 1, k - 1)
  <2>1. \A i \in 1 .. k - 1 : t[i] = s[i]
    <3> SUFFICES ASSUME NEW i \in 1 .. k - 1
                 PROVE  t[i] = s[i]
      OBVIOUS
    <3>1. i \in 1 .. Len(s) - 1 /\ i < k
      BY <1>2
    <3> QED BY <3>1, <1>1
  <2> QED BY <2>1, <1>1, <1>2
<1>4. SubSeq(t, k, Len(t)) = SubSeq(s, k + 1, Len(s))
  <2> DEFINE a == SubSeq(t, k, Len(t))
             b == SubSeq(s, k + 1, Len(s))
  <2>1. /\ a \in Seq(S) /\ Len(a) = Len(s) - k
        /\ \A i \in 1 .. Len(s) - k : a[i] = t[k + i - 1]
    BY <1>1, <1>2, SubSeqProperties, ElementOfSeq
  <2>2. /\ b \in Seq(S) /\ Len(b) = Len(s) - k
        /\ \A i \in 1 .. Len(s) - k : b[i] = s[k + i]
    BY <1>2, SubSeqProperties, ElementOfSeq
  <2> HIDE DEF a, b
  <2>3. ASSUME NEW i \in 1 .. Len(s) - k
        PROVE  a[i] = b[i]
    <3> DEFINE m == k + i - 1
    <3>1. m \in 1 .. Len(s) - 1 /\ ~(m < k) /\ m + 1 = k + i
      BY <1>2
    <3>2. a[i] = t[m] /\ b[i] = s[k + i]
      BY <2>1, <2>2
    <3> HIDE DEF m
    <3> QED BY <3>1, <3>2, <1>1
  <2>4. a = b
    BY <2>1, <2>2, <2>3, SeqEqual
  <2> QED BY <2>4 DEF a, b
<1>5. k \in 1 .. Len(t) + 1
  BY <1>1, <1>2
<1> QED BY <1>3, <1>4, <1>5 DEF t

(* A list with another one put in before its i-th element.                 *)
LEMMA SpliceProperties ==
  ASSUME NEW S, NEW s \in Seq(S), NEW r \in Seq(S), NEW i \in 1 .. Len(s) + 1
  PROVE  LET t == SubSeq(s, 1, i - 1) \o r \o SubSeq(s, i, Len(s))
         IN  /\ t \in Seq(S)
             /\ Len(t) = Len(s) + Len(r)
             /\ \A j \in 1 .. i - 1 : t[j] = s[j]
             /\ \A j \in 1 .. Len(r) : t[(i - 1) + j] = r[j]
             /\ \A j \in i .. Len(s) : t[j + Len(r)] = s[j]
<1>1. /\ SubSeq(s, 1, i - 1) \in Seq(S)
      /\ Len(SubSeq(s, 1, i - 1)) = i - 1
      /\ \A j \in 1 .. i - 1 : SubSeq(s, 1, i - 1)[j] = s[j]
  BY SubSeqProperties, LenProperties, ElementOfSeq
<1>2. /\ SubSeq(s, i, Len(s)) \in Seq(S)
      /\ Len(SubSeq(s, i, Len(s))) = Len(s) - i + 1
      /\ \A j \in 1 .. Len(s) - i + 1 : SubSeq(s, i, Len(s))[j] = s[i + j - 1]
  BY SubSeqProperties, LenProperties, ElementOfSeq
<1> DEFINE a == SubSeq(s, 1, i - 1)
           b == SubSeq(s, i, Len(s))
           c == a \o r
           t == c \o b
<1>3. Len(s) \in Nat /\ Len(r) \in Nat /\ i \in Nat \ {0}
  BY LenProperties
<1>4. a \in Seq(S) /\ b \in Seq(S) /\ Len(a) = i - 1 /\ Len(b) = Len(s) - i + 1
  BY <1>1, <1>2
<1> HIDE DEF a, b
<1>5. /\ c \in Seq(S)
      /\ Len(c) = Len(a) + Len(r)
      /\ \A j \in 1 .. Len(a) + Len(r) : c[j] = IF j <= Len(a) THEN a[j] ELSE r[j - Len(a)]
  BY <1>4, ConcatProperties
<1> HIDE DEF c
<1>6. /\ t \in Seq(S)
      /\ Len(t) = Len(c) + Len(b)
      /\ \A j \in 1 .. Len(c) + Len(b) : t[j] = IF j <= Len(c) THEN c[j] ELSE b[j - Len(c)]
  <2>1. /\ c \o b \in Seq(S)
        /\ Len(c \o b) = Len(c) + Len(b)
        /\ \A j \in 1 .. Len(c) + Len(b) :
             (c \o b)[j] = IF j <= Len(c) THEN c[j] ELSE b[j - Len(c)]
    <3>1. c \in Seq(S) /\ b \in Seq(S)
      BY <1>4, <1>5
    <3> QED BY <3>1, ConcatProperties
  <2> QED BY <2>1
<1> HIDE DEF t
<1>7. Len(c) = (i - 1) + Len(r) /\ Len(t) = Len(s) + Len(r)
  BY <1>3, <1>4, <1>5, <1>6
<1>8. ASSUME NEW j \in 1 .. i - 1
      PROVE  t[j] = s[j]
  <2>1. j \in 1 .. Len(c) + Len(b) /\ j <= Len(c) /\ j \in 1 .. Len(a) + Len(r) /\ j <= Len(a)
    BY <1>3, <1>4, <1>7
  <2> QED BY <2>1, <1>1, <1>5, <1>6 DEF a
<1>9. ASSUME NEW j \in 1 .. Len(r)
      PROVE  t[(i - 1) + j] = r[j]
  <2> DEFINE k == (i - 1) + j
  <2>1. /\ k \in 1 .. Len(c) + Len(b) /\ k <= Len(c)
        /\ k \in 1 .. Len(a) + Len(r) /\ ~(k <= Len(a)) /\ k - Len(a) = j
    BY <1>3, <1>4, <1>7
  <2> HIDE DEF k
  <2>2. t[k] = r[j]
    BY <2>1, <1>5, <1>6
  <2> QED BY <2>2 DEF k
<1>10. ASSUME NEW j \in i .. Len(s)
       PROVE  t[j + Len(r)] = s[j]
  <2> DEFINE k == j + Len(r)
             m == j - i + 1
  <2>1. /\ k \in 1 .. Len(c) + Len(b) /\ ~(k <= Len(c)) /\ k - Len(c) = m
        /\ m \in 1 .. Len(s) - i + 1 /\ i + m - 1 = j
    BY <1>3, <1>4, <1>7
  <2> HIDE DEF k, m
  <2>2. t[k] = b[m]
    BY <2>1, <1>6
  <2>3. b[m] = s[i + m - 1]
    BY <2>1, <1>2 DEF b
  <2> QED BY <2>1, <2>2, <2>3 DEF k
<1> QED BY <1>6, <1>7, <1>8, <1>9, <1>10 DEF a, b, c, t

(* Every place of such a list is one of the three kinds.                   *)
LEMMA PlacesOfSplice ==
  ASSUME NEW n \in Nat, NEW m \in Nat, NEW i \in 1 .. n + 1, NEW k \in 1 .. n + m
  PROVE  \/ k \in 1 .. i - 1
         \/ \E j \in 1 .. m : k = (i - 1) + j
         \/ \E j \in i .. n : k = j + m
<1>1. CASE k < i
  <2>1. k \in 1 .. i - 1
    BY <1>1
  <2> QED BY <2>1
<1>2. CASE i <= k /\ k <= (i - 1) + m
  <2>1. k - (i - 1) \in 1 .. m /\ k = (i - 1) + (k - (i - 1))
    BY <1>2
  <2> QED BY <2>1
<1>3. CASE k > (i - 1) + m
  <2>1. k - m \in i .. n /\ k = (k - m) + m
    BY <1>3
  <2> QED BY <2>1
<1>4. k < i \/ (i <= k /\ k <= (i - 1) + m) \/ k > (i - 1) + m
  OBVIOUS
<1> QED BY <1>1, <1>2, <1>3, <1>4

(* It has the elements of both, and once each if they have none in common. *)
LEMMA SpliceElements ==
  ASSUME NEW S, NEW s \in Seq(S), NEW r \in Seq(S), NEW i \in 1 .. Len(s) + 1
  PROVE  LET t == SubSeq(s, 1, i - 1) \o r \o SubSeq(s, i, Len(s))
         IN  /\ ToSet(t) = ToSet(s) \cup ToSet(r)
             /\ IsInjective(s) /\ IsInjective(r) /\ ToSet(s) \cap ToSet(r) = {}
                  => IsInjective(t)
<1> DEFINE t == SubSeq(s, 1, i - 1) \o r \o SubSeq(s, i, Len(s))
<1>1. /\ t \in Seq(S)
      /\ Len(t) = Len(s) + Len(r)
      /\ \A j \in 1 .. i - 1 : t[j] = s[j]
      /\ \A j \in 1 .. Len(r) : t[(i - 1) + j] = r[j]
      /\ \A j \in i .. Len(s) : t[j + Len(r)] = s[j]
  BY SpliceProperties
<1> HIDE DEF t
<1>2. /\ Len(s) \in Nat /\ Len(r) \in Nat
      /\ DOMAIN s = 1 .. Len(s) /\ DOMAIN r = 1 .. Len(r)
      /\ DOMAIN t = 1 .. Len(s) + Len(r)
  BY <1>1, LenProperties
<1>3. \A k \in 1 .. Len(s) + Len(r) :
        \/ k \in 1 .. i - 1
        \/ \E j \in 1 .. Len(r) : k = (i - 1) + j
        \/ \E j \in i .. Len(s) : k = j + Len(r)
  BY <1>2, PlacesOfSplice
<1>4. ToSet(t) \subseteq ToSet(s) \cup ToSet(r)
  <2> SUFFICES ASSUME NEW k \in 1 .. Len(s) + Len(r)
               PROVE  t[k] \in ToSet(s) \cup ToSet(r)
    BY <1>2 DEF ToSet
  <2>1. CASE k \in 1 .. i - 1
    <3>1. k \in 1 .. Len(s)
      BY <2>1, <1>2
    <3> QED BY <2>1, <3>1, <1>1, <1>2 DEF ToSet
  <2>2. ASSUME NEW j \in 1 .. Len(r), k = (i - 1) + j
        PROVE  t[k] \in ToSet(r)
    BY <2>2, <1>1, <1>2 DEF ToSet
  <2>3. ASSUME NEW j \in i .. Len(s), k = j + Len(r)
        PROVE  t[k] \in ToSet(s)
    <3>1. j \in 1 .. Len(s)
      BY <1>2
    <3> QED BY <2>3, <3>1, <1>1, <1>2 DEF ToSet
  <2> QED BY <2>1, <2>2, <2>3, <1>3
<1>5. ToSet(s) \subseteq ToSet(t)
  <2> SUFFICES ASSUME NEW j \in 1 .. Len(s)
               PROVE  s[j] \in ToSet(t)
    BY <1>2 DEF ToSet
  <2>1. CASE j < i
    <3>1. j \in 1 .. i - 1 /\ j \in 1 .. Len(s) + Len(r)
      BY <2>1, <1>2
    <3> QED BY <3>1, <1>1, <1>2 DEF ToSet
  <2>2. CASE i <= j
    <3>1. j \in i .. Len(s) /\ j + Len(r) \in 1 .. Len(s) + Len(r)
      BY <2>2, <1>2
    <3>2. t[j + Len(r)] = s[j]
      BY <3>1, <1>1
    <3> QED BY <3>1, <3>2, <1>2 DEF ToSet
  <2> QED BY <2>1, <2>2, <1>2
<1>6. ToSet(r) \subseteq ToSet(t)
  <2> SUFFICES ASSUME NEW j \in 1 .. Len(r)
               PROVE  r[j] \in ToSet(t)
    BY <1>2 DEF ToSet
  <2>1. (i - 1) + j \in 1 .. Len(s) + Len(r)
    BY <1>2
  <2>2. t[(i - 1) + j] = r[j]
    BY <1>1
  <2> QED BY <2>1, <2>2, <1>2 DEF ToSet
<1>7. ASSUME IsInjective(s), IsInjective(r), ToSet(s) \cap ToSet(r) = {}
      PROVE  IsInjective(t)
  <2>1. /\ \A j, k \in 1 .. Len(s) : s[j] = s[k] => j = k
        /\ \A j, k \in 1 .. Len(r) : r[j] = r[k] => j = k
    BY <1>7, <1>2 DEF IsInjective
  <2>2. \A j \in 1 .. Len(s), k \in 1 .. Len(r) : s[j] # r[k]
    BY <1>7, <1>2 DEF ToSet
  <2>3. /\ \A j \in 1 .. i - 1 : j \in 1 .. Len(s) /\ j \notin i .. Len(s)
        /\ \A j \in i .. Len(s) : j \in 1 .. Len(s)
    BY <1>2
  <2> SUFFICES ASSUME NEW x \in 1 .. Len(s) + Len(r), NEW y \in 1 .. Len(s) + Len(r),
                      t[x] = t[y]
               PROVE  x = y
    BY <1>2 DEF IsInjective
  <2>4. CASE x \in 1 .. i - 1
    <3>1. t[x] = s[x] /\ x \in 1 .. Len(s)
      BY <2>4, <2>3, <1>1
    <3>2. ASSUME NEW j \in i .. Len(s), y = j + Len(r)
          PROVE  FALSE
      <4>1. t[y] = s[j] /\ j \in 1 .. Len(s) /\ x \notin i .. Len(s)
        BY <2>3, <2>4, <3>2, <1>1
      <4>2. x = j
        BY <4>1, <3>1, <2>1
      <4> QED BY <4>1, <4>2
    <3>3. ASSUME NEW j \in 1 .. Len(r), y = (i - 1) + j
          PROVE  FALSE
      BY <2>2, <3>1, <3>3, <1>1
    <3>4. CASE y \in 1 .. i - 1
      BY <2>1, <2>3, <3>1, <3>4, <1>1
    <3> QED BY <3>2, <3>3, <3>4, <1>3
  <2>5. ASSUME NEW j \in 1 .. Len(r), x = (i - 1) + j
        PROVE  x = y
    <3>1. t[x] = r[j]
      BY <2>5, <1>1
    <3>2. ASSUME NEW k \in i .. Len(s), y = k + Len(r)
          PROVE  FALSE
      BY <2>2, <2>3, <3>1, <3>2, <1>1
    <3>3. ASSUME NEW k \in 1 .. Len(r), y = (i - 1) + k
          PROVE  x = y
      BY <2>1, <2>5, <3>1, <3>3, <1>1
    <3>4. CASE y \in 1 .. i - 1
      BY <2>2, <2>3, <3>1, <3>4, <1>1
    <3> QED BY <3>2, <3>3, <3>4, <1>3
  <2>6. ASSUME NEW j \in i .. Len(s), x = j + Len(r)
        PROVE  x = y
    <3>1. t[x] = s[j] /\ j \in 1 .. Len(s)
      BY <2>3, <2>6, <1>1
    <3>2. ASSUME NEW k \in i .. Len(s), y = k + Len(r)
          PROVE  x = y
      BY <2>1, <2>3, <2>6, <3>1, <3>2, <1>1
    <3>3. ASSUME NEW k \in 1 .. Len(r), y = (i - 1) + k
          PROVE  FALSE
      BY <2>2, <3>1, <3>3, <1>1
    <3>4. CASE y \in 1 .. i - 1
      <4>1. t[y] = s[y] /\ y \in 1 .. Len(s) /\ y \notin i .. Len(s)
        BY <2>3, <3>4, <1>1
      <4>2. y = j
        BY <4>1, <3>1, <2>1
      <4> QED BY <4>1, <4>2
    <3> QED BY <3>2, <3>3, <3>4, <1>3
  <2> QED BY <2>4, <2>5, <2>6, <1>3
<1> QED BY <1>4, <1>5, <1>6, <1>7 DEF t

(* A list with e put in at position i.                                     *)
LEMMA InsertAtProperties ==
  ASSUME NEW S, NEW s \in Seq(S), NEW e \in S, NEW i \in 1 .. Len(s) + 1
  PROVE  /\ InsertAt(s, i, e) \in Seq(S)
         /\ ToSet(InsertAt(s, i, e)) = ToSet(s) \cup {e}
         /\ IsInjective(s) /\ e \notin ToSet(s) => IsInjective(InsertAt(s, i, e))
<1>1. <<e>> \in Seq(S) /\ ToSet(<<e>>) = {e} /\ IsInjective(<<e>>)
  <2>1. <<e>> \in Seq(S) /\ DOMAIN <<e>> = {1} /\ <<e>>[1] = e
    OBVIOUS
  <2> QED BY <2>1 DEF ToSet, IsInjective
<1> DEFINE t == SubSeq(s, 1, i - 1) \o <<e>> \o SubSeq(s, i, Len(s))
<1>2. t \in Seq(S)
  BY <1>1, SpliceProperties
<1>3. /\ ToSet(t) = ToSet(s) \cup ToSet(<<e>>)
      /\ IsInjective(s) /\ IsInjective(<<e>>) /\ ToSet(s) \cap ToSet(<<e>>) = {}
           => IsInjective(t)
  BY <1>1, SpliceElements
<1>4. InsertAt(s, i, e) = t
  BY DEF InsertAt
<1> HIDE DEF t
<1> QED BY <1>1, <1>2, <1>3, <1>4

(* A list that has its elements once each has as many as their set.        *)
LEMMA LengthIsCardinality ==
  ASSUME NEW S, NEW s \in Seq(S), IsInjective(s)
  PROVE  Cardinality(ToSet(s)) = Len(s)
<1>1. Len(s) \in Nat /\ DOMAIN s = 1 .. Len(s)
  BY LenProperties
<1>2. s \in [1 .. Len(s) -> ToSet(s)]
  BY <1>1 DEF ToSet
<1>3. ExistsBijection(1 .. Len(s), ToSet(s))
  <2>1. s \in Injection(1 .. Len(s), ToSet(s))
    BY <1>1, <1>2 DEF Injection, IsInjective
  <2>2. s \in Surjection(1 .. Len(s), ToSet(s))
    BY <1>1, <1>2 DEF Surjection, ToSet
  <2> QED BY <2>1, <2>2 DEF ExistsBijection, Bijection
<1> QED BY <1>1, <1>3, FS_CountingElements

-----------------------------------------------------------------------------
(* Recursion and induction along a rank.                                   *)

(* A function can be given by what each of its values is made of, if these *)
(* are values at smaller ranks.                                            *)
Grounded(D, V, rank, H) ==
  \A n \in D : \A f, g \in [D -> V] :
    (\A m \in D : rank[m] < rank[n] => f[m] = g[m]) => H[n][f] = H[n][g]

Solves(f, D, H) == \A n \in D : f[n] = H[n][f]

LEMMA RecursionExists ==
  ASSUME NEW D, NEW V, V # {},
         NEW rank \in [D -> Nat], NEW bound \in Nat, \A n \in D : rank[n] < bound,
         NEW H \in [D -> [[D -> V] -> V]], Grounded(D, V, rank, H)
  PROVE  \E f \in [D -> V] : Solves(f, D, H)
<1> DEFINE Good(k, f) == \A n \in D : rank[n] < k => f[n] = H[n][f]
           Bad == {k \in Nat : \A f \in [D -> V] : ~ Good(k, f)}
<1>1. Bad = {}
  <2> SUFFICES ASSUME Bad # {}
               PROVE  FALSE
    OBVIOUS
  <2>1. PICK k \in Bad : \A l \in Bad : k <= l
    <3>1. Bad \in SUBSET Nat
      OBVIOUS
    <3> HIDE DEF Bad
    <3> QED BY <3>1, MinIsLeast
  <2>2. k \in Nat /\ \A f \in [D -> V] : ~ Good(k, f)
    OBVIOUS
  <2>3. k # 0
    <3>1. PICK v \in V : TRUE
      OBVIOUS
    <3>2. [n \in D |-> v] \in [D -> V]
      OBVIOUS
    <3>3. Good(0, [n \in D |-> v])
      OBVIOUS
    <3> QED BY <3>2, <3>3, <2>2
  <2>4. k - 1 \in Nat /\ k - 1 \notin Bad
    BY <2>1, <2>2, <2>3
  <2>5. PICK f \in [D -> V] : Good(k - 1, f)
    BY <2>4
  <2> DEFINE g == [n \in D |-> IF rank[n] = k - 1 THEN H[n][f] ELSE f[n]]
  <2>6. g \in [D -> V]
    OBVIOUS
  <2>7. \A n \in D : g[n] = IF rank[n] = k - 1 THEN H[n][f] ELSE f[n]
    OBVIOUS
  <2> HIDE DEF g
  <2>8. ASSUME NEW n \in D, rank[n] < k
        PROVE  g[n] = H[n][g]
    <3>1. rank[n] \in Nat /\ (rank[n] = k - 1 \/ rank[n] < k - 1)
      <4>1. rank[n] \in Nat /\ k \in Nat
        BY <2>2
      <4>2. \A i, j \in Nat : i < j => i = j - 1 \/ i < j - 1
        OBVIOUS
      <4> QED BY <4>1, <4>2, <2>8
    <3>2. \A m \in D : rank[m] < rank[n] => g[m] = f[m]
      BY <2>7, <3>1, <2>2
    <3>3. H[n][f] = H[n][g]
      BY <3>2, <2>6 DEF Grounded
    <3>4. CASE rank[n] = k - 1
      BY <3>3, <3>4, <2>7
    <3>5. CASE rank[n] < k - 1
      <4>1. f[n] = H[n][f]
        BY <3>5, <2>5
      <4>2. g[n] = f[n]
        BY <3>5, <2>7, <3>1, <2>2
      <4> QED BY <4>1, <4>2, <3>3
    <3> QED BY <3>1, <3>4, <3>5
  <2> QED BY <2>6, <2>8, <2>2
<1>2. PICK f \in [D -> V] : Good(bound, f)
  BY <1>1
<1> QED BY <1>2 DEF Solves

LEMMA RankInduction ==
  ASSUME NEW D, NEW rank \in [D -> Nat], NEW G \in SUBSET D,
         \A n \in D : (\A m \in D : rank[m] < rank[n] => m \in G) => n \in G
  PROVE  G = D
<1> SUFFICES ASSUME D \ G # {}
             PROVE  FALSE
  OBVIOUS
<1> DEFINE Ranks == {rank[n] : n \in D \ G}
<1>1. Ranks \in SUBSET Nat /\ Ranks # {}
  OBVIOUS
<1>2. PICK k \in Ranks : \A l \in Ranks : k <= l
  <2> HIDE DEF Ranks
  <2> QED BY <1>1, MinIsLeast
<1>3. PICK n \in D \ G : k = rank[n]
  OBVIOUS
<1>4. \A m \in D : rank[m] < rank[n] => m \in G
  <2> SUFFICES ASSUME NEW m \in D, rank[m] < rank[n], m \notin G
               PROVE  FALSE
    OBVIOUS
  <2>1. rank[n] <= rank[m]
    BY <1>2, <1>3
  <2>2. rank[m] \in Nat /\ rank[n] \in Nat
    OBVIOUS
  <2> QED BY <2>1, <2>2
<1> QED BY <1>3, <1>4

LEMMA ProperSubsetIsSmaller ==
  ASSUME NEW T, IsFiniteSet(T), NEW S \in SUBSET T, S # T
  PROVE  Cardinality(S) < Cardinality(T)
<1>1. /\ IsFiniteSet(S) /\ Cardinality(S) <= Cardinality(T)
      /\ Cardinality(S) # Cardinality(T)
  BY FS_Subset
<1>2. Cardinality(S) \in Nat /\ Cardinality(T) \in Nat
  BY <1>1, FS_CardinalityType
<1> QED BY <1>1, <1>2

-----------------------------------------------------------------------------
(* What is at or below the nodes of a set, given the children of each: the *)
(* least set with them that no child leaves.                               *)

Closed(ch, T) == \A n \in T : ToSet(ch[n]) \subseteq T

Reach(ch, S) ==
  {n \in DOMAIN ch : \A T \in SUBSET DOMAIN ch : S \subseteq T /\ Closed(ch, T) => n \in T}

Under(ch, n) == Reach(ch, ToSet(ch[n]))

(* Every node is the child of at most one, once, and not below itself.     *)
IsFamily(ch) ==
  /\ IsFiniteSet(DOMAIN ch)
  /\ ch \in [DOMAIN ch -> Seq(DOMAIN ch)]
  /\ \A p \in DOMAIN ch : IsInjective(ch[p])
  /\ \A p, q \in DOMAIN ch : ToSet(ch[p]) \cap ToSet(ch[q]) # {} => p = q
  /\ \A n \in DOMAIN ch : n \notin Under(ch, n)

LEMMA ToSetOfSeq ==
  ASSUME NEW S, NEW s \in Seq(S)
  PROVE  /\ ToSet(s) \subseteq S
         /\ DOMAIN s = 1 .. Len(s) /\ Len(s) \in Nat
         /\ \A x : x \in ToSet(s) <=> \E i \in 1 .. Len(s) : s[i] = x
         /\ s = <<>> <=> ToSet(s) = {}
         /\ s = <<>> <=> Len(s) = 0
<1>1. Len(s) \in Nat /\ DOMAIN s = 1 .. Len(s) /\ \A i \in 1 .. Len(s) : s[i] \in S
  BY LenProperties, ElementOfSeq
<1>2. \A x : x \in ToSet(s) <=> \E i \in 1 .. Len(s) : s[i] = x
  BY <1>1 DEF ToSet
<1>3. s = <<>> <=> Len(s) = 0
  BY EmptySeq
<1>4. Len(s) = 0 => ToSet(s) = {}
  BY <1>1, <1>2
<1>5. Len(s) # 0 => 1 \in 1 .. Len(s)
  BY <1>1
<1>6. Len(s) # 0 => ToSet(s) # {}
  BY <1>5, <1>2
<1> QED BY <1>1, <1>2, <1>3, <1>4, <1>6

LEMMA AppendElements ==
  ASSUME NEW S, NEW s \in Seq(S), NEW e \in S
  PROVE  /\ Append(s, e) \in Seq(S)
         /\ ToSet(Append(s, e)) = ToSet(s) \cup {e}
         /\ IsInjective(s) /\ e \notin ToSet(s) => IsInjective(Append(s, e))
<1> DEFINE t == Append(s, e)
           n == Len(s)
<1>1. /\ t \in Seq(S) /\ Len(t) = n + 1 /\ t[n + 1] = e
      /\ \A i \in 1 .. n : t[i] = s[i]
  OBVIOUS
<1>2. DOMAIN s = 1 .. n /\ n \in Nat /\ \A x : x \in ToSet(s) <=> \E i \in 1 .. n : s[i] = x
  BY ToSetOfSeq
<1> HIDE DEF t, n
<1>3. DOMAIN t = 1 .. n + 1 /\ \A x : x \in ToSet(t) <=> \E i \in 1 .. n + 1 : t[i] = x
  BY <1>1, ToSetOfSeq
<1>4. \A i \in 1 .. n + 1 : i = n + 1 \/ i \in 1 .. n
  BY <1>2
<1>5. n + 1 \in 1 .. n + 1 /\ \A i \in 1 .. n : i \in 1 .. n + 1
  BY <1>2
<1>6. ToSet(t) = ToSet(s) \cup {e}
  <2>1. \A x : x \in ToSet(t) <=> x \in ToSet(s) \cup {e}
    BY <1>1, <1>2, <1>3, <1>4, <1>5
  <2> QED BY <2>1
<1>7. ASSUME IsInjective(s), e \notin ToSet(s)
      PROVE  IsInjective(t)
  <2> SUFFICES ASSUME NEW i \in 1 .. n + 1, NEW j \in 1 .. n + 1, t[i] = t[j]
               PROVE  i = j
    BY <1>3 DEF IsInjective
  <2>1. \A k \in 1 .. n : s[k] # e
    BY <1>2, <1>7
  <2>2. CASE i \in 1 .. n /\ j \in 1 .. n
    BY <2>2, <1>1, <1>2, <1>7 DEF IsInjective
  <2> QED BY <2>1, <2>2, <1>1, <1>4
<1> QED BY <1>1, <1>6, <1>7 DEF t

LEMMA ReachIsLeast ==
  ASSUME NEW ch, NEW S \in SUBSET DOMAIN ch, ch \in [DOMAIN ch -> Seq(DOMAIN ch)]
  PROVE  /\ S \subseteq Reach(ch, S) /\ Reach(ch, S) \subseteq DOMAIN ch
         /\ Closed(ch, Reach(ch, S))
         /\ \A T \in SUBSET DOMAIN ch : S \subseteq T /\ Closed(ch, T) => Reach(ch, S) \subseteq T
<1>1. S \subseteq Reach(ch, S) /\ Reach(ch, S) \subseteq DOMAIN ch
  BY DEF Reach
<1>2. \A T \in SUBSET DOMAIN ch : S \subseteq T /\ Closed(ch, T) => Reach(ch, S) \subseteq T
  BY DEF Reach
<1>3. ASSUME NEW n \in Reach(ch, S), NEW c \in ToSet(ch[n])
      PROVE  c \in Reach(ch, S)
  <2>1. ch[n] \in Seq(DOMAIN ch)
    BY <1>1
  <2>2. c \in DOMAIN ch
    BY <2>1, ToSetOfSeq
  <2>3. ASSUME NEW T \in SUBSET DOMAIN ch, S \subseteq T, Closed(ch, T)
        PROVE  c \in T
    BY <2>3 DEF Reach, Closed
  <2> QED BY <2>2, <2>3 DEF Reach
<1>4. Closed(ch, Reach(ch, S))
  BY <1>3 DEF Closed
<1> QED BY <1>1, <1>2, <1>4

LEMMA ChildrenAreNodes ==
  ASSUME NEW ch, ch \in [DOMAIN ch -> Seq(DOMAIN ch)], NEW n \in DOMAIN ch
  PROVE  ToSet(ch[n]) \in SUBSET DOMAIN ch
<1>1. ch[n] \in Seq(DOMAIN ch)
  OBVIOUS
<1> QED BY <1>1, ToSetOfSeq

LEMMA ReachOfUnion ==
  ASSUME NEW ch, NEW S \in SUBSET DOMAIN ch, NEW R \in SUBSET DOMAIN ch,
         ch \in [DOMAIN ch -> Seq(DOMAIN ch)]
  PROVE  Reach(ch, S \cup R) = Reach(ch, S) \cup Reach(ch, R)
<1>1. /\ S \subseteq Reach(ch, S) /\ Reach(ch, S) \subseteq DOMAIN ch /\ Closed(ch, Reach(ch, S))
      /\ \A T \in SUBSET DOMAIN ch : S \subseteq T /\ Closed(ch, T) => Reach(ch, S) \subseteq T
  BY ReachIsLeast
<1>2. /\ R \subseteq Reach(ch, R) /\ Reach(ch, R) \subseteq DOMAIN ch /\ Closed(ch, Reach(ch, R))
      /\ \A T \in SUBSET DOMAIN ch : R \subseteq T /\ Closed(ch, T) => Reach(ch, R) \subseteq T
  BY ReachIsLeast
<1>3. S \cup R \in SUBSET DOMAIN ch
  OBVIOUS
<1>4. /\ S \cup R \subseteq Reach(ch, S \cup R) /\ Reach(ch, S \cup R) \subseteq DOMAIN ch
      /\ Closed(ch, Reach(ch, S \cup R))
      /\ \A T \in SUBSET DOMAIN ch : S \cup R \subseteq T /\ Closed(ch, T) => Reach(ch, S \cup R) \subseteq T
  BY <1>3, ReachIsLeast
<1>5. Closed(ch, Reach(ch, S) \cup Reach(ch, R))
  BY <1>1, <1>2 DEF Closed
<1> QED BY <1>1, <1>2, <1>4, <1>5

LEMMA ReachOfMember ==
  ASSUME NEW ch, NEW S \in SUBSET DOMAIN ch, NEW m \in Reach(ch, S),
         ch \in [DOMAIN ch -> Seq(DOMAIN ch)]
  PROVE  m \in DOMAIN ch /\ Reach(ch, {m}) \subseteq Reach(ch, S) /\ Under(ch, m) \subseteq Reach(ch, S)
<1>1. Reach(ch, S) \subseteq DOMAIN ch /\ Closed(ch, Reach(ch, S))
  BY ReachIsLeast
<1>2. m \in DOMAIN ch /\ {m} \in SUBSET DOMAIN ch /\ ToSet(ch[m]) \in SUBSET DOMAIN ch
  BY <1>1, ChildrenAreNodes
<1>3. ToSet(ch[m]) \subseteq Reach(ch, S)
  BY <1>1 DEF Closed
<1>4. Reach(ch, {m}) \subseteq Reach(ch, S)
  <2>1. \A T \in SUBSET DOMAIN ch : {m} \subseteq T /\ Closed(ch, T) => Reach(ch, {m}) \subseteq T
    BY <1>2, ReachIsLeast
  <2> QED BY <1>1, <2>1
<1>5. Under(ch, m) \subseteq Reach(ch, S)
  BY <1>1, <1>2, <1>3, ReachIsLeast DEF Under
<1> QED BY <1>2, <1>4, <1>5

LEMMA ReachOfNode ==
  ASSUME NEW ch, NEW n \in DOMAIN ch, ch \in [DOMAIN ch -> Seq(DOMAIN ch)]
  PROVE  Reach(ch, {n}) = {n} \cup Under(ch, n)
<1>1. {n} \in SUBSET DOMAIN ch /\ ToSet(ch[n]) \in SUBSET DOMAIN ch
  BY ChildrenAreNodes
<1>2. /\ n \in Reach(ch, {n}) /\ Reach(ch, {n}) \subseteq DOMAIN ch /\ Closed(ch, Reach(ch, {n}))
      /\ \A T \in SUBSET DOMAIN ch : n \in T /\ Closed(ch, T) => Reach(ch, {n}) \subseteq T
  BY <1>1, ReachIsLeast
<1>3. /\ ToSet(ch[n]) \subseteq Under(ch, n) /\ Under(ch, n) \subseteq DOMAIN ch
      /\ Closed(ch, Under(ch, n))
  BY <1>1, ReachIsLeast DEF Under
<1>4. Closed(ch, {n} \cup Under(ch, n))
  BY <1>3 DEF Closed
<1>5. Under(ch, n) \subseteq Reach(ch, {n})
  BY <1>1, <1>2, ReachOfMember
<1> QED BY <1>2, <1>3, <1>4, <1>5

(* What is below a set is the child of something that is.                  *)
LEMMA ReachHasParent ==
  ASSUME NEW ch, NEW S \in SUBSET DOMAIN ch, NEW m \in Reach(ch, S), m \notin S,
         ch \in [DOMAIN ch -> Seq(DOMAIN ch)]
  PROVE  \E p \in Reach(ch, S) : m \in ToSet(ch[p])
<1> SUFFICES ASSUME \A p \in Reach(ch, S) : m \notin ToSet(ch[p])
             PROVE  FALSE
  OBVIOUS
<1>1. /\ S \subseteq Reach(ch, S) /\ Reach(ch, S) \subseteq DOMAIN ch /\ Closed(ch, Reach(ch, S))
      /\ \A T \in SUBSET DOMAIN ch : S \subseteq T /\ Closed(ch, T) => Reach(ch, S) \subseteq T
  BY ReachIsLeast
<1>2. Closed(ch, Reach(ch, S) \ {m})
  BY <1>1 DEF Closed
<1>3. Reach(ch, S) \ {m} \in SUBSET DOMAIN ch /\ S \subseteq Reach(ch, S) \ {m}
  BY <1>1
<1> QED BY <1>1, <1>2, <1>3

(* What can be reached from a set can be reached from one of its members.  *)
LEMMA ReachOfMembers ==
  ASSUME NEW ch, NEW S \in SUBSET DOMAIN ch, ch \in [DOMAIN ch -> Seq(DOMAIN ch)]
  PROVE  Reach(ch, S) = UNION {Reach(ch, {n}) : n \in S}
<1> DEFINE U == UNION {Reach(ch, {n}) : n \in S}
<1>1. /\ S \subseteq Reach(ch, S) /\ Reach(ch, S) \subseteq DOMAIN ch
      /\ \A T \in SUBSET DOMAIN ch : S \subseteq T /\ Closed(ch, T) => Reach(ch, S) \subseteq T
  BY ReachIsLeast
<1>2. ASSUME NEW n \in S
      PROVE  /\ n \in Reach(ch, {n}) /\ Closed(ch, Reach(ch, {n}))
             /\ Reach(ch, {n}) \subseteq Reach(ch, S)
  <2>1. {n} \in SUBSET DOMAIN ch /\ n \in Reach(ch, S)
    BY <1>1
  <2> QED BY <2>1, ReachIsLeast, ReachOfMember
<1>3. U \subseteq Reach(ch, S) /\ S \subseteq U
  BY <1>2
<1>4. Closed(ch, U)
  <2> SUFFICES ASSUME NEW x \in U, NEW y \in ToSet(ch[x])
               PROVE  y \in U
    BY DEF Closed
  <2>1. PICK n \in S : x \in Reach(ch, {n})
    OBVIOUS
  <2>2. y \in Reach(ch, {n})
    BY <1>2, <2>1 DEF Closed
  <2> QED BY <2>2
<1> HIDE DEF U
<1>5. Reach(ch, S) \subseteq U
  BY <1>1, <1>3, <1>4
<1> QED BY <1>3, <1>5 DEF U

(* What can be reached still can if only c loses its place, and c is one   *)
(* of those to start from.                                                 *)
LEMMA ReachIsKept ==
  ASSUME NEW ch, ch \in [DOMAIN ch -> Seq(DOMAIN ch)],
         NEW new \in [DOMAIN ch -> Seq(DOMAIN ch)],
         NEW S \in SUBSET DOMAIN ch, NEW c \in S,
         \A q \in DOMAIN ch : ToSet(ch[q]) \subseteq ToSet(new[q]) \cup {c}
  PROVE  Reach(ch, S) \subseteq Reach(new, S)
<1>1. DOMAIN new = DOMAIN ch
  OBVIOUS
<1>2. /\ S \subseteq Reach(new, S) /\ Reach(new, S) \subseteq DOMAIN ch
      /\ Closed(new, Reach(new, S))
  BY <1>1, ReachIsLeast
<1>3. Closed(ch, Reach(new, S))
  BY <1>2 DEF Closed
<1> QED BY <1>2, <1>3, ReachIsLeast

(* Or if everything that cannot be reached loses its children.             *)
LEMMA ReachIsKeptInUse ==
  ASSUME NEW ch, ch \in [DOMAIN ch -> Seq(DOMAIN ch)],
         NEW new \in [DOMAIN ch -> Seq(DOMAIN ch)],
         NEW S \in SUBSET DOMAIN ch,
         \A q \in Reach(ch, S) : new[q] = ch[q]
  PROVE  Reach(ch, S) \subseteq Reach(new, S)
<1> DEFINE R == Reach(ch, S)
           T == Reach(new, S)
<1>1. DOMAIN new = DOMAIN ch
  OBVIOUS
<1>2. S \subseteq T /\ T \subseteq DOMAIN ch /\ Closed(new, T)
  BY <1>1, ReachIsLeast
<1>3. S \subseteq R /\ Closed(ch, R) /\ \A q \in R : new[q] = ch[q]
  BY ReachIsLeast
<1>4. \A X \in SUBSET DOMAIN ch : S \subseteq X /\ Closed(ch, X) => R \subseteq X
  BY ReachIsLeast
<1> HIDE DEF R, T
<1>5. Closed(ch, R \cap T)
  BY <1>2, <1>3 DEF Closed
<1>6. R \cap T \in SUBSET DOMAIN ch /\ S \subseteq R \cap T
  BY <1>2, <1>3
<1>7. R \subseteq T
  BY <1>4, <1>5, <1>6
<1> QED BY <1>7 DEF R, T

LEMMA ReachGrows ==
  ASSUME NEW ch, NEW S \in SUBSET DOMAIN ch, NEW R \in SUBSET DOMAIN ch, S \subseteq R,
         ch \in [DOMAIN ch -> Seq(DOMAIN ch)]
  PROVE  Reach(ch, S) \subseteq Reach(ch, R)
<1>1. /\ R \subseteq Reach(ch, R) /\ Reach(ch, R) \subseteq DOMAIN ch
      /\ Closed(ch, Reach(ch, R))
  BY ReachIsLeast
<1> QED BY <1>1, ReachIsLeast

(* Nodes of which neither is below the other have nothing below them both. *)
LEMMA ReachesAreDisjoint ==
  ASSUME NEW ch, IsFamily(ch), NEW a \in DOMAIN ch, NEW b \in DOMAIN ch,
         a \notin Reach(ch, {b}), b \notin Reach(ch, {a})
  PROVE  Reach(ch, {a}) \cap Reach(ch, {b}) = {}
<1>1. ch \in [DOMAIN ch -> Seq(DOMAIN ch)]
  BY DEF IsFamily
<1>2. /\ a \in Reach(ch, {a}) /\ Reach(ch, {a}) \subseteq DOMAIN ch /\ Closed(ch, Reach(ch, {a}))
      /\ \A T \in SUBSET DOMAIN ch : a \in T /\ Closed(ch, T) => Reach(ch, {a}) \subseteq T
  <2>1. {a} \in SUBSET DOMAIN ch
    OBVIOUS
  <2> QED BY <1>1, <2>1, ReachIsLeast
<1>3. Reach(ch, {b}) \subseteq DOMAIN ch
  BY <1>1, ReachIsLeast
<1>4. ASSUME NEW x \in Reach(ch, {a}) \ Reach(ch, {b}), NEW y \in ToSet(ch[x])
      PROVE  y \in Reach(ch, {a}) \ Reach(ch, {b})
  <2>1. y \in Reach(ch, {a}) /\ y # b /\ x \in DOMAIN ch
    BY <1>2 DEF Closed
  <2>2. ASSUME y \in Reach(ch, {b})
        PROVE  FALSE
    <3>1. PICK p \in Reach(ch, {b}) : y \in ToSet(ch[p])
      BY <1>1, <2>1, <2>2, ReachHasParent
    <3>2. p = x
      BY <3>1, <1>3, <2>1 DEF IsFamily
    <3> QED BY <3>1, <3>2
  <2> QED BY <2>1, <2>2
<1>5. Closed(ch, Reach(ch, {a}) \ Reach(ch, {b}))
  BY <1>4 DEF Closed
<1> QED BY <1>2, <1>5

LEMMA SiblingsAreApart ==
  ASSUME NEW ch, IsFamily(ch), NEW p \in DOMAIN ch, NEW a \in ToSet(ch[p]), NEW b \in ToSet(ch[p]), a # b
  PROVE  Reach(ch, {a}) \cap Reach(ch, {b}) = {}
<1>1. ch \in [DOMAIN ch -> Seq(DOMAIN ch)]
  BY DEF IsFamily
<1>2. a \in DOMAIN ch /\ b \in DOMAIN ch /\ ToSet(ch[p]) \in SUBSET DOMAIN ch
  BY <1>1, ChildrenAreNodes
<1>3. ASSUME NEW x \in ToSet(ch[p]), NEW y \in ToSet(ch[p]), x # y, x \in Reach(ch, {y})
      PROVE  FALSE
  <2>1. y \in DOMAIN ch /\ {y} \in SUBSET DOMAIN ch
    BY <1>2
  <2>2. PICK q \in Reach(ch, {y}) : x \in ToSet(ch[q])
    BY <1>1, <1>3, <2>1, ReachHasParent
  <2>3. Reach(ch, {y}) \subseteq DOMAIN ch
    BY <1>1, <2>1, ReachIsLeast
  <2>4. q = p
    BY <2>2, <2>3 DEF IsFamily
  <2>5. y \in Reach(ch, ToSet(ch[p]))
    BY <1>1, <1>2, ReachIsLeast
  <2>6. Reach(ch, {y}) \subseteq Under(ch, p)
    BY <1>1, <1>2, <2>5, ReachOfMember DEF Under
  <2> QED BY <2>2, <2>4, <2>6 DEF IsFamily
<1> QED BY <1>2, <1>3, ReachesAreDisjoint

-----------------------------------------------------------------------------
(* Trees: parents and siblings.                                            *)

IsTree(t) ==
  /\ IsFamily(t.children)
  /\ t = Tree(t.children, t.null, t.fault)
  /\ t.null \notin Nodes(t) /\ t.fault \notin Nodes(t) /\ t.null # t.fault

LEMMA ParentIsKnown ==
  ASSUME NEW t, IsTree(t)
  PROVE  /\ \A n \in Nodes(t) : Up(t, n) \in Nodes(t) \cup {t.null}
         /\ \A n, p \in Nodes(t) : Up(t, n) = p <=> n \in ToSet(t.children[p])
<1> DEFINE N == Nodes(t)
           Has(p, n) == n \in ToSet(t.children[p])
<1>1. t.parent = [n \in N |-> IF \E p \in N : Has(p, n) THEN CHOOSE p \in N : Has(p, n) ELSE t.null]
  <2>1. Tree(t.children, t.null, t.fault).parent =
          [n \in N |-> IF \E p \in N : Has(p, n) THEN CHOOSE p \in N : Has(p, n) ELSE t.null]
    BY DEF Tree, Nodes
  <2> QED BY <2>1 DEF IsTree
<1>2. t.null \notin N
  BY DEF IsTree
<1>3. \A p, q, n \in N : Has(p, n) /\ Has(q, n) => p = q
  BY DEF IsTree, IsFamily, Nodes
<1> HIDE DEF Has, N
<1>4. \A n \in N : Up(t, n) = IF \E p \in N : Has(p, n) THEN CHOOSE p \in N : Has(p, n) ELSE t.null
  BY <1>1 DEF Up
<1>5. ASSUME NEW n \in N
      PROVE  /\ Up(t, n) \in N \cup {t.null}
             /\ \A p \in N : Up(t, n) = p <=> Has(p, n)
  <2>1. CASE \E p \in N : Has(p, n)
    <3> DEFINE c == CHOOSE p \in N : Has(p, n)
    <3>1. c \in N /\ Has(c, n)
      BY <2>1
    <3>2. Up(t, n) = c
      BY <1>4, <2>1
    <3> HIDE DEF c
    <3> QED BY <3>1, <3>2, <1>3
  <2>2. CASE ~ \E p \in N : Has(p, n)
    BY <2>2, <1>2, <1>4
  <2> QED BY <2>1, <2>2
<1> QED BY <1>5 DEF N, Has

LEMMA TreeIsTyped ==
  ASSUME NEW t, IsTree(t)
  PROVE  /\ t.children \in [Nodes(t) -> Seq(Nodes(t))]
         /\ t.null \notin Nodes(t) /\ t.fault \notin Nodes(t) /\ t.null # t.fault
         /\ IsFiniteSet(Nodes(t))
         /\ IsFamily(t.children) /\ Nodes(t) = DOMAIN t.children
BY DEF IsTree, IsFamily, Nodes

(* The k-th child of p.                                                    *)
LEMMA ChildIsKnown ==
  ASSUME NEW t, IsTree(t), NEW p \in Nodes(t), NEW k \in 1 .. Len(t.children[p])
  PROVE  LET n == t.children[p][k]
         IN  /\ n \in Nodes(t) /\ n \in ToSet(t.children[p]) /\ Up(t, n) = p
             /\ After(t, n) = IF k = Len(t.children[p]) THEN t.null ELSE t.children[p][k + 1]
             /\ LastOf(t, p) = n <=> k = Len(t.children[p])
<1> DEFINE s == t.children[p]
           n == s[k]
<1>1. s \in Seq(Nodes(t)) /\ Len(s) \in Nat /\ DOMAIN s = 1 .. Len(s) /\ s # <<>>
  <2>1. s \in Seq(Nodes(t))
    BY TreeIsTyped
  <2> HIDE DEF s
  <2>2. Len(s) \in Nat /\ DOMAIN s = 1 .. Len(s) /\ (s = <<>> <=> Len(s) = 0)
    BY <2>1, ToSetOfSeq
  <2>3. k \in 1 .. Len(s)
    BY DEF s
  <2> QED BY <2>1, <2>2, <2>3
<1>2. \A i, j \in 1 .. Len(s) : s[i] = s[j] => i = j
  BY <1>1 DEF IsTree, IsFamily, IsInjective, Nodes
<1>3. n \in Nodes(t) /\ n \in ToSet(s)
  BY <1>1, ElementOfSeq, ToSetOfSeq
<1>4. Up(t, n) = p
  BY <1>3, ParentIsKnown
<1>5. p # t.null
  BY TreeIsTyped
<1>6. SelectInSeq(s, LAMBDA c : c = n) = k
  <2> DEFINE I == {i \in 1 .. Len(s) : s[i] = n}
  <2>1. I = {k}
    BY <1>2
  <2>2. I \in SUBSET Nat /\ I # {}
    BY <2>1
  <2>3. Min(I) = k
    <3>1. Min(I) \in I
      <4> HIDE DEF I
      <4> QED BY <2>2, MinIsLeast
    <3> QED BY <2>1, <3>1
  <2> QED BY <2>2, <2>3 DEF SelectInSeq
<1>7. After(t, n) = IF k = Len(s) THEN t.null ELSE s[k + 1]
  BY <1>4, <1>5, <1>6 DEF After
<1>8. LastOf(t, p) = s[Len(s)] /\ Len(s) \in 1 .. Len(s)
  BY <1>1 DEF LastOf, Last
<1>9. LastOf(t, p) = n <=> k = Len(s)
  BY <1>2, <1>8
<1> QED BY <1>3, <1>4, <1>7, <1>9

LEMMA NodeIsChild ==
  ASSUME NEW t, IsTree(t), NEW n \in Nodes(t)
  PROVE  /\ Up(t, n) = t.null => After(t, n) = t.null
         /\ Up(t, n) # t.null => /\ Up(t, n) \in Nodes(t)
                                 /\ n \in ToSet(t.children[Up(t, n)])
                                 /\ \E k \in 1 .. Len(t.children[Up(t, n)]) :
                                      n = t.children[Up(t, n)][k]
<1>1. Up(t, n) = t.null => After(t, n) = t.null
  BY DEF After
<1>2. ASSUME Up(t, n) # t.null
      PROVE  Up(t, n) \in Nodes(t) /\ n \in ToSet(t.children[Up(t, n)])
  BY <1>2, ParentIsKnown
<1>3. ASSUME Up(t, n) # t.null
      PROVE  \E k \in 1 .. Len(t.children[Up(t, n)]) : n = t.children[Up(t, n)][k]
  <2> DEFINE s == t.children[Up(t, n)]
  <2>1. s \in Seq(Nodes(t)) /\ n \in ToSet(s)
    BY <1>2, <1>3, TreeIsTyped
  <2> HIDE DEF s
  <2>2. \E k \in 1 .. Len(s) : s[k] = n
    BY <2>1, ToSetOfSeq
  <2> QED BY <2>2 DEF s
<1> QED BY <1>1, <1>2, <1>3

(* A node's next sibling has its parent; only the last child has none.     *)
LEMMA NextSibling ==
  ASSUME NEW t, IsTree(t), NEW n \in Nodes(t)
  PROVE  /\ After(t, n) # t.null =>
              After(t, n) \in Nodes(t) /\ Up(t, n) \in Nodes(t) /\ Up(t, After(t, n)) = Up(t, n)
         /\ Up(t, n) # t.null => (After(t, n) = t.null <=> n = LastOf(t, Up(t, n)))
<1>1. CASE Up(t, n) = t.null
  BY <1>1, NodeIsChild
<1>2. CASE Up(t, n) # t.null
  <2> DEFINE p == Up(t, n)
             s == t.children[p]
  <2>1. p \in Nodes(t)
    BY <1>2, NodeIsChild
  <2>2. PICK k \in 1 .. Len(s) : n = s[k]
    BY <1>2, NodeIsChild
  <2>3. Len(s) \in Nat
    <3>1. s \in Seq(Nodes(t))
      BY <2>1, TreeIsTyped
    <3> HIDE DEF s
    <3> QED BY <3>1, LenProperties
  <2>4. /\ After(t, n) = IF k = Len(s) THEN t.null ELSE s[k + 1]
        /\ LastOf(t, p) = n <=> k = Len(s)
    <3> HIDE DEF p
    <3> QED BY <2>1, <2>2, ChildIsKnown
  <2>5. ASSUME k # Len(s)
        PROVE  s[k + 1] \in Nodes(t) /\ Up(t, s[k + 1]) = p
    <3>1. k + 1 \in 1 .. Len(s)
      BY <2>3, <2>5
    <3> HIDE DEF p
    <3> QED BY <2>1, <3>1, ChildIsKnown
  <2>6. t.null \notin Nodes(t)
    BY TreeIsTyped
  <2> HIDE DEF s
  <2> QED BY <2>1, <2>4, <2>5, <2>6
<1> QED BY <1>1, <1>2

LEMMA FirstChild ==
  ASSUME NEW t, IsTree(t), NEW n \in Nodes(t)
  PROVE  /\ First(t, n) = t.null <=> t.children[n] = <<>>
         /\ First(t, n) # t.null => /\ First(t, n) \in Nodes(t) /\ Up(t, First(t, n)) = n
                                    /\ First(t, n) = t.children[n][1]
                                    /\ 1 \in 1 .. Len(t.children[n])
<1>1. CASE t.children[n] = <<>>
  BY <1>1 DEF First
<1>2. CASE t.children[n] # <<>>
  <2>1. First(t, n) = t.children[n][1]
    BY <1>2 DEF First
  <2>2. 1 \in 1 .. Len(t.children[n])
    <3> DEFINE s == t.children[n]
    <3>1. s \in Seq(Nodes(t)) /\ s # <<>>
      BY <1>2, TreeIsTyped
    <3> HIDE DEF s
    <3>2. Len(s) \in Nat /\ Len(s) # 0
      BY <3>1, ToSetOfSeq
    <3> QED BY <3>2 DEF s
  <2>3. t.children[n][1] \in Nodes(t) /\ Up(t, t.children[n][1]) = n
    BY <2>2, ChildIsKnown
  <2> QED BY <1>2, <2>1, <2>2, <2>3, TreeIsTyped
<1> QED BY <1>1, <1>2

-----------------------------------------------------------------------------
(* A node with its later siblings and what is below them.                  *)

Trailing(t, n) ==
  {n} \cup {m \in Nodes(t) : \E p \in Nodes(t) : \E i, j \in 1 .. Len(t.children[p]) :
              i <= j /\ n = t.children[p][i] /\ m = t.children[p][j]}

Rest(t, n) == IF n = t.null THEN {} ELSE Reach(t.children, Trailing(t, n))

(* The next siblings of the k-th child are the children from k on.         *)
LEMMA TrailingChildren ==
  ASSUME NEW t, IsTree(t), NEW p \in Nodes(t), NEW k \in 1 .. Len(t.children[p])
  PROVE  \A m : m \in Trailing(t, t.children[p][k]) <=>
                 \E j \in k .. Len(t.children[p]) : m = t.children[p][j]
<1> DEFINE s == t.children[p]
           n == s[k]
<1>1. s \in Seq(Nodes(t))
  BY TreeIsTyped
<1>2. Len(s) \in Nat
  <2> HIDE DEF s
  <2> QED BY <1>1, LenProperties
<1>3. n \in Nodes(t) /\ Up(t, n) = p
  BY ChildIsKnown
<1>4. ASSUME NEW q \in Nodes(t), NEW i \in 1 .. Len(t.children[q]), n = t.children[q][i]
      PROVE  q = p /\ i = k
  <2>1. Up(t, n) = q
    BY <1>4, ChildIsKnown
  <2>2. q = p
    BY <2>1, <1>3
  <2>3. IsInjective(s) /\ DOMAIN s = 1 .. Len(s)
    BY <1>1, ToSetOfSeq DEF IsTree, IsFamily, Nodes
  <2> QED BY <2>2, <2>3, <1>4 DEF IsInjective
<1>5. ASSUME NEW j \in k .. Len(s)
      PROVE  s[j] \in Trailing(t, n)
  <2>1. j \in 1 .. Len(s) /\ k <= j
    BY <1>2
  <2>2. s[j] \in Nodes(t)
    BY <2>1, ChildIsKnown
  <2> QED BY <2>1, <2>2 DEF Trailing
<1>6. ASSUME NEW m \in Trailing(t, n)
      PROVE  \E j \in k .. Len(s) : m = s[j]
  <2>1. CASE m = n
    <3>1. k \in k .. Len(s)
      BY <1>2
    <3> QED BY <2>1, <3>1
  <2>2. CASE m # n
    <3>1. PICK q \in Nodes(t) : \E i, j \in 1 .. Len(t.children[q]) :
            i <= j /\ n = t.children[q][i] /\ m = t.children[q][j]
      BY <2>2 DEF Trailing
    <3>2. PICK i \in 1 .. Len(t.children[q]), j \in 1 .. Len(t.children[q]) :
            i <= j /\ n = t.children[q][i] /\ m = t.children[q][j]
      BY <3>1
    <3>3. q = p /\ i = k
      BY <3>2, <1>4
    <3>4. j \in k .. Len(s)
      BY <3>2, <3>3, <1>2
    <3> QED BY <3>2, <3>3, <3>4
  <2> QED BY <2>1, <2>2
<1> QED BY <1>5, <1>6

LEMMA TrailingNodes ==
  ASSUME NEW t, IsTree(t), NEW n \in Nodes(t)
  PROVE  /\ Trailing(t, n) \in SUBSET Nodes(t) /\ n \in Trailing(t, n)
         /\ First(t, n) # t.null => Trailing(t, First(t, n)) = ToSet(t.children[n])
         /\ After(t, n) # t.null => Trailing(t, n) = {n} \cup Trailing(t, After(t, n))
         /\ After(t, n) = t.null => Trailing(t, n) = {n}
         /\ \A m \in Trailing(t, n) : m # n => Up(t, n) \in Nodes(t) /\ m \in ToSet(t.children[Up(t, n)])
         /\ After(t, n) # t.null => n \notin Trailing(t, After(t, n))
<1>1. Trailing(t, n) \in SUBSET Nodes(t) /\ n \in Trailing(t, n)
  BY DEF Trailing
<1>2. ASSUME First(t, n) # t.null
      PROVE  Trailing(t, First(t, n)) = ToSet(t.children[n])
  <2> DEFINE s == t.children[n]
  <2>1. First(t, n) = s[1] /\ 1 \in 1 .. Len(s)
    BY <1>2, FirstChild
  <2>2. \A m : m \in Trailing(t, First(t, n)) <=> \E j \in 1 .. Len(s) : m = s[j]
    <3> DEFINE k == 1
    <3>1. k \in 1 .. Len(t.children[n])
      BY <2>1
    <3> HIDE DEF k
    <3>2. \A m : m \in Trailing(t, s[k]) <=> \E j \in k .. Len(s) : m = s[j]
      BY <3>1, TrailingChildren
    <3> QED BY <2>1, <3>2 DEF k
  <2>3. s \in Seq(Nodes(t))
    BY TreeIsTyped
  <2> HIDE DEF s
  <2>4. \A m : m \in ToSet(s) <=> \E j \in 1 .. Len(s) : s[j] = m
    BY <2>3, ToSetOfSeq
  <2>5. \A m : m \in Trailing(t, First(t, n)) <=> m \in ToSet(s)
    BY <2>2, <2>4
  <2> QED BY <2>5 DEF s
<1>3. CASE Up(t, n) = t.null
  <2>1. After(t, n) = t.null
    BY <1>3, NodeIsChild
  <2>2. ASSUME NEW m \in Trailing(t, n), m # n
        PROVE  FALSE
    <3>1. PICK q \in Nodes(t) : \E i \in 1 .. Len(t.children[q]) : n = t.children[q][i]
      BY <2>2 DEF Trailing
    <3>2. Up(t, n) = q
      BY <3>1, ChildIsKnown
    <3> QED BY <3>2, <1>3, TreeIsTyped
  <2> QED BY <1>1, <1>2, <2>1, <2>2
<1>4. CASE Up(t, n) # t.null
  <2> DEFINE p == Up(t, n)
             s == t.children[p]
  <2>1. p \in Nodes(t)
    BY <1>4, NodeIsChild
  <2>2. PICK k \in 1 .. Len(s) : n = s[k]
    BY <1>4, NodeIsChild
  <2>3. s \in Seq(Nodes(t))
    BY <2>1, TreeIsTyped
  <2>4. Len(s) \in Nat /\ DOMAIN s = 1 .. Len(s)
    <3> HIDE DEF s
    <3> QED BY <2>3, ToSetOfSeq
  <2>5. \A m : m \in Trailing(t, n) <=> \E j \in k .. Len(s) : m = s[j]
    <3> HIDE DEF p
    <3>1. \A m : m \in Trailing(t, s[k]) <=> \E j \in k .. Len(s) : m = s[j]
      BY <2>1, TrailingChildren
    <3> QED BY <2>2, <3>1
  <2>6. After(t, n) = IF k = Len(s) THEN t.null ELSE s[k + 1]
    <3> HIDE DEF p
    <3> QED BY <2>1, <2>2, ChildIsKnown
  <2>7. CASE k = Len(s)
    <3>1. k .. Len(s) = {k}
      BY <2>7, <2>4
    <3>2. Trailing(t, n) = {n}
      BY <3>1, <2>2, <2>5
    <3> QED BY <3>2, <2>6, <2>7, <1>1, <1>2
  <2>8. CASE k # Len(s)
    <3>1. k + 1 \in 1 .. Len(s) /\ k .. Len(s) = {k} \cup (k + 1) .. Len(s)
      BY <2>4, <2>8
    <3>2. After(t, n) = s[k + 1]
      BY <2>6, <2>8
    <3>3. \A m : m \in Trailing(t, s[k + 1]) <=> \E j \in (k + 1) .. Len(s) : m = s[j]
      <4> HIDE DEF p
      <4> QED BY <2>1, <3>1, TrailingChildren
    <3>4. Trailing(t, n) = {n} \cup Trailing(t, After(t, n))
      BY <3>1, <3>2, <3>3, <2>2, <2>5
    <3>5. \A i, j \in 1 .. Len(s) : s[i] = s[j] => i = j
      BY <2>1, <2>4 DEF IsTree, IsFamily, IsInjective, Nodes
    <3>6. \A j \in (k + 1) .. Len(s) : j \in 1 .. Len(s) /\ j # k
      BY <2>4
    <3>7. n \notin Trailing(t, After(t, n))
      BY <3>2, <3>3, <3>5, <3>6, <2>2
    <3>8. \A j \in k .. Len(s) : j \in 1 .. Len(s)
      BY <2>4
    <3>9. \A m \in Trailing(t, n) : m \in ToSet(s)
      BY <2>4, <2>5, <3>8 DEF ToSet
    <3>10. After(t, n) # t.null
      BY <3>1, <3>2, <2>1, ChildIsKnown, TreeIsTyped
    <3> QED BY <1>1, <1>2, <2>1, <3>4, <3>7, <3>9, <3>10
  <2> QED BY <2>7, <2>8
<1> QED BY <1>3, <1>4

(* They are the node, what is below it, and the same of its next sibling,  *)
(* which have nothing in common.                                           *)
LEMMA RestIsSplit ==
  ASSUME NEW t, IsTree(t), NEW n \in Nodes(t)
  PROVE  /\ Rest(t, First(t, n)) = Under(t.children, n)
         /\ Rest(t, n) = {n} \cup Rest(t, First(t, n)) \cup Rest(t, After(t, n))
         /\ n \notin Rest(t, First(t, n)) /\ n \notin Rest(t, After(t, n))
         /\ Rest(t, First(t, n)) \cap Rest(t, After(t, n)) = {}
         /\ Rest(t, n) \in SUBSET Nodes(t)
         /\ n \in Rest(t, n)
<1> DEFINE ch == t.children
           f == First(t, n)
           a == After(t, n)
<1>1. /\ ch \in [DOMAIN ch -> Seq(DOMAIN ch)] /\ Nodes(t) = DOMAIN ch
      /\ t.null \notin Nodes(t) /\ IsFamily(ch)
  BY TreeIsTyped
<1>2. Rest(t, f) = Under(ch, n)
  <2>1. CASE f # t.null
    BY <2>1, TrailingNodes DEF Rest, Under
  <2>2. CASE f = t.null
    <3>1. ch[n] = <<>>
      BY <2>2, FirstChild
    <3>2. ToSet(ch[n]) = {}
      BY <3>1 DEF ToSet
    <3>3. Closed(ch, {})
      BY DEF Closed
    <3>4. Under(ch, n) = {}
      BY <3>2, <3>3, <1>1, ReachIsLeast DEF Under
    <3> QED BY <2>2, <3>4 DEF Rest
  <2> QED BY <2>1, <2>2
<1>3. Reach(ch, {n}) = {n} \cup Under(ch, n)
  BY <1>1, ReachOfNode
<1>4. n \notin Under(ch, n)
  BY <1>1 DEF IsFamily
<1>5. n # t.null /\ Rest(t, n) = Reach(ch, Trailing(t, n))
  BY <1>1 DEF Rest
<1>6. CASE a = t.null
  <2>1. Rest(t, n) = Reach(ch, {n}) /\ Rest(t, a) = {}
    BY <1>5, <1>6, TrailingNodes DEF Rest
  <2>2. Under(ch, n) \subseteq DOMAIN ch
    BY DEF Under, Reach
  <2> QED BY <2>1, <2>2, <1>1, <1>2, <1>3, <1>4
<1>7. CASE a # t.null
  <2>1. a \in Nodes(t) /\ Up(t, a) = Up(t, n) /\ Up(t, n) \in Nodes(t)
    BY <1>7, NextSibling
  <2>2. /\ Trailing(t, n) = {n} \cup Trailing(t, a) /\ n \notin Trailing(t, a)
        /\ \A m \in Trailing(t, n) : m # n => m \in ToSet(ch[Up(t, n)])
    BY <1>7, TrailingNodes
  <2>3. Trailing(t, a) \in SUBSET DOMAIN ch /\ {n} \in SUBSET DOMAIN ch
    BY <1>1, <2>1, TrailingNodes
  <2>4. Rest(t, a) = Reach(ch, Trailing(t, a))
    BY <1>7 DEF Rest
  <2>5. Rest(t, n) = Reach(ch, {n}) \cup Rest(t, a)
    BY <1>1, <1>5, <2>2, <2>3, <2>4, ReachOfUnion
  <2>6. n \in ToSet(ch[Up(t, n)])
    BY <2>1, <1>1, NodeIsChild
  <2>7. Reach(ch, {n}) \cap Rest(t, a) = {}
    <3> DEFINE T == {x \in DOMAIN ch : \E m \in Trailing(t, a) : x \in Reach(ch, {m})}
    <3>1. \A m \in Trailing(t, a) : m \in DOMAIN ch /\ m \in Reach(ch, {m})
      BY <2>3, <1>1, ReachOfNode
    <3>2. Trailing(t, a) \subseteq T
      BY <3>1
    <3>3. Closed(ch, T)
      <4> SUFFICES ASSUME NEW m \in Trailing(t, a), NEW x \in Reach(ch, {m}), NEW y \in ToSet(ch[x])
                   PROVE  y \in DOMAIN ch /\ y \in Reach(ch, {m})
        BY DEF Closed
      <4>1. {m} \in SUBSET DOMAIN ch
        BY <3>1
      <4>2. Closed(ch, Reach(ch, {m})) /\ Reach(ch, {m}) \subseteq DOMAIN ch
        BY <4>1, <1>1, ReachIsLeast
      <4> QED BY <4>2 DEF Closed
    <3>4. T \in SUBSET DOMAIN ch
      OBVIOUS
    <3>5. T \cap Reach(ch, {n}) = {}
      <4> SUFFICES ASSUME NEW m \in Trailing(t, a)
                   PROVE  Reach(ch, {m}) \cap Reach(ch, {n}) = {}
        OBVIOUS
      <4>1. m # n /\ m \in ToSet(ch[Up(t, n)])
        BY <2>2
      <4> QED BY <4>1, <2>1, <2>6, <1>1, SiblingsAreApart
    <3> HIDE DEF T
    <3>6. Reach(ch, Trailing(t, a)) \subseteq T
      <4> DEFINE S == Trailing(t, a)
      <4>1. S \in SUBSET DOMAIN ch /\ S \subseteq T
        BY <2>3, <3>2
      <4> HIDE DEF S, ch
      <4>2. Reach(ch, S) \subseteq T
        BY <4>1, <3>3, <3>4 DEF Reach
      <4> QED BY <4>2 DEF S
    <3> QED BY <3>5, <3>6, <2>4
  <2>8. Rest(t, a) \subseteq DOMAIN ch /\ Under(ch, n) \subseteq DOMAIN ch
    BY <2>4 DEF Reach, Under
  <2> HIDE DEF ch, f, a
  <2> QED BY <1>1, <1>2, <1>3, <1>4, <2>5, <2>7, <2>8 DEF ch, f, a
<1> QED BY <1>6, <1>7

-----------------------------------------------------------------------------
(* The nodes below a root in document order.                               *)

RestRank(t) == [n \in Nodes(t) \cup {t.null} |-> Cardinality(Rest(t, n))]

LEMMA RestRanks ==
  ASSUME NEW t, IsTree(t)
  PROVE  /\ RestRank(t) \in [Nodes(t) \cup {t.null} -> Nat]
         /\ \A n \in Nodes(t) \cup {t.null} : RestRank(t)[n] < Cardinality(Nodes(t)) + 1
         /\ \A n \in Nodes(t) : /\ First(t, n) \in Nodes(t) \cup {t.null}
                                /\ After(t, n) \in Nodes(t) \cup {t.null}
                                /\ RestRank(t)[First(t, n)] < RestRank(t)[n]
                                /\ RestRank(t)[After(t, n)] < RestRank(t)[n]
         /\ Cardinality(Nodes(t)) \in Nat
<1>1. IsFiniteSet(Nodes(t)) /\ Cardinality(Nodes(t)) \in Nat
  BY TreeIsTyped, FS_CardinalityType
<1>2. ASSUME NEW n \in Nodes(t) \cup {t.null}
      PROVE  /\ Rest(t, n) \in SUBSET Nodes(t) /\ IsFiniteSet(Rest(t, n))
             /\ Cardinality(Rest(t, n)) \in Nat
             /\ Cardinality(Rest(t, n)) < Cardinality(Nodes(t)) + 1
  <2>1. Rest(t, n) \in SUBSET Nodes(t)
    BY RestIsSplit DEF Rest
  <2>2. IsFiniteSet(Rest(t, n)) /\ Cardinality(Rest(t, n)) <= Cardinality(Nodes(t))
    BY <1>1, <2>1, FS_Subset
  <2>3. Cardinality(Rest(t, n)) \in Nat
    BY <2>2, FS_CardinalityType
  <2> QED BY <1>1, <2>1, <2>2, <2>3
<1>3. ASSUME NEW n \in Nodes(t)
      PROVE  /\ First(t, n) \in Nodes(t) \cup {t.null}
             /\ After(t, n) \in Nodes(t) \cup {t.null}
             /\ Cardinality(Rest(t, First(t, n))) < Cardinality(Rest(t, n))
             /\ Cardinality(Rest(t, After(t, n))) < Cardinality(Rest(t, n))
  <2>1. First(t, n) \in Nodes(t) \cup {t.null} /\ After(t, n) \in Nodes(t) \cup {t.null}
    BY FirstChild, NextSibling
  <2>2. /\ n \in Rest(t, n) /\ n \notin Rest(t, First(t, n)) /\ n \notin Rest(t, After(t, n))
        /\ Rest(t, First(t, n)) \in SUBSET Rest(t, n) /\ Rest(t, After(t, n)) \in SUBSET Rest(t, n)
    BY RestIsSplit
  <2>3. IsFiniteSet(Rest(t, n))
    BY <1>2
  <2> QED BY <2>1, <2>2, <2>3, ProperSubsetIsSmaller
<1> QED BY <1>1, <1>2, <1>3 DEF RestRank

LEMMA RowIsKnown ==
  ASSUME NEW t, IsTree(t)
  PROVE  /\ Row(t, t.null) = <<>>
         /\ \A n \in Nodes(t) : Row(t, n) = <<n>> \o Row(t, First(t, n)) \o Row(t, After(t, n))
         /\ \A n \in Nodes(t) \cup {t.null} : Row(t, n) \in Seq(Nodes(t))
<1> DEFINE N == Nodes(t)
           D == N \cup {t.null}
           V == Seq(N)
           rank == RestRank(t)
           H == [n \in D |-> [g \in [D -> V] |->
                  IF n = t.null THEN <<>> ELSE <<n>> \o g[First(t, n)] \o g[After(t, n)]]]
           Is(g) == g = [n \in D |-> IF n = t.null THEN <<>>
                                     ELSE <<n>> \o g[First(t, n)] \o g[After(t, n)]]
           row == CHOOSE g : Is(g)
<1>1. /\ rank \in [D -> Nat]
      /\ \A n \in D : rank[n] < Cardinality(N) + 1
      /\ \A n \in N : /\ First(t, n) \in D /\ After(t, n) \in D
                      /\ rank[First(t, n)] < rank[n] /\ rank[After(t, n)] < rank[n]
      /\ Cardinality(N) \in Nat
  BY RestRanks
<1>2. t.null \notin N
  BY TreeIsTyped
<1> HIDE DEF rank
<1>3. \A n \in D : n # t.null => n \in N
  OBVIOUS
<1> HIDE DEF N
<1>4. H \in [D -> [[D -> V] -> V]]
  <2> SUFFICES ASSUME NEW n \in D, NEW g \in [D -> V]
               PROVE  (IF n = t.null THEN <<>> ELSE <<n>> \o g[First(t, n)] \o g[After(t, n)]) \in V
    OBVIOUS
  <2>1. CASE n # t.null
    <3>1. n \in N /\ First(t, n) \in D /\ After(t, n) \in D
      BY <2>1, <1>1, <1>3
    <3>2. g[First(t, n)] \in Seq(N) /\ g[After(t, n)] \in Seq(N) /\ <<n>> \in Seq(N)
      BY <3>1
    <3>3. <<n>> \o g[First(t, n)] \in Seq(N)
      BY <3>2, ConcatProperties
    <3>4. <<n>> \o g[First(t, n)] \o g[After(t, n)] \in Seq(N)
      BY <3>2, <3>3, ConcatProperties
    <3> QED BY <2>1, <3>4
  <2> QED BY <2>1
<1>5. ASSUME NEW n \in D, NEW f \in [D -> V], NEW g \in [D -> V],
             \A m \in D : rank[m] < rank[n] => f[m] = g[m]
      PROVE  H[n][f] = H[n][g]
  <2>1. \A e \in [D -> V] : H[n][e] = IF n = t.null THEN <<>> ELSE <<n>> \o e[First(t, n)] \o e[After(t, n)]
    OBVIOUS
  <2> HIDE DEF H
  <2>2. n # t.null => f[First(t, n)] = g[First(t, n)] /\ f[After(t, n)] = g[After(t, n)]
    BY <1>1, <1>3, <1>5
  <2> QED BY <2>1, <2>2
<1>6. V # {}
  <2>1. <<>> \in Seq(N)
    OBVIOUS
  <2> QED BY <2>1
<1>7. rank \in [D -> Nat]
  BY <1>1
<1>8. \E f \in [D -> V] : Solves(f, D, H)
  <2> DEFINE bound == Cardinality(N) + 1
  <2>1. bound \in Nat /\ \A n \in D : rank[n] < bound
    BY <1>1
  <2> HIDE DEF H, V, D, bound
  <2>2. Grounded(D, V, rank, H)
    BY <1>5 DEF Grounded
  <2> QED BY <2>1, <2>2, <1>4, <1>6, <1>7, RecursionExists
<1>10. \E g : Is(g)
  <2>1. PICK f \in [D -> V] : \A n \in D : f[n] = H[n][f]
    BY <1>8 DEF Solves
  <2>2. Is(f)
    BY <2>1
  <2> HIDE DEF Is
  <2> QED BY <2>2
<1>11. Is(row)
  <2> HIDE DEF Is
  <2> QED BY <1>10
<1>12. ASSUME NEW m
       PROVE  Row(t, m) = row[m]
  BY DEF Row, N
<1>13. row = [n \in D |-> IF n = t.null THEN <<>> ELSE <<n>> \o row[First(t, n)] \o row[After(t, n)]]
  <2> HIDE DEF row
  <2> QED BY <1>11
<1> HIDE DEF row, H, Is
<1>14. row[t.null] = <<>>
  BY <1>13
<1>15. \A n \in N : row[n] = <<n>> \o row[First(t, n)] \o row[After(t, n)]
  BY <1>13, <1>2 DEF N
<1> DEFINE G == {n \in D : row[n] \in Seq(N)}
<1>16. ASSUME NEW n \in D, \A m \in D : rank[m] < rank[n] => m \in G
       PROVE  n \in G
  <2> SUFFICES row[n] \in Seq(N)
    OBVIOUS
  <2>1. CASE n = t.null
    BY <2>1, <1>14
  <2>2. CASE n # t.null
    <3>1. n \in N /\ First(t, n) \in G /\ After(t, n) \in G
      BY <2>2, <1>1, <1>3, <1>16
    <3>2. row[First(t, n)] \in Seq(N) /\ row[After(t, n)] \in Seq(N) /\ <<n>> \in Seq(N)
      BY <3>1
    <3>3. <<n>> \o row[First(t, n)] \in Seq(N)
      BY <3>2, ConcatProperties
    <3>4. <<n>> \o row[First(t, n)] \o row[After(t, n)] \in Seq(N)
      BY <3>2, <3>3, ConcatProperties
    <3> QED BY <3>1, <3>4, <1>15
  <2> QED BY <2>1, <2>2
<1>17. G = D
  <2>1. G \in SUBSET D
    OBVIOUS
  <2> HIDE DEF G, D
  <2> QED BY <1>7, <1>16, <2>1, RankInduction
<1>18. \A n \in D : row[n] \in Seq(N)
  BY <1>17
<1> QED BY <1>12, <1>14, <1>15, <1>18 DEF N

(* Lists without common elements, one after the other.                     *)
LEMMA ConcatElements ==
  ASSUME NEW S, NEW r \in Seq(S), NEW s \in Seq(S)
  PROVE  /\ r \o s \in Seq(S)
         /\ Len(r \o s) = Len(r) + Len(s)
         /\ ToSet(r \o s) = ToSet(r) \cup ToSet(s)
         /\ IsInjective(r) /\ IsInjective(s) /\ ToSet(r) \cap ToSet(s) = {} => IsInjective(r \o s)
<1> DEFINE t == r \o s
<1>1. /\ t \in Seq(S) /\ Len(t) = Len(r) + Len(s)
      /\ \A i \in 1 .. Len(r) + Len(s) : t[i] = IF i <= Len(r) THEN r[i] ELSE s[i - Len(r)]
  BY ConcatProperties
<1>2. /\ Len(r) \in Nat /\ Len(s) \in Nat
      /\ DOMAIN r = 1 .. Len(r) /\ DOMAIN s = 1 .. Len(s)
  BY LenProperties
<1> HIDE DEF t
<1>3. DOMAIN t = 1 .. Len(r) + Len(s)
  BY <1>1, LenProperties
<1>4. \A i \in 1 .. Len(r) + Len(s) :
        \/ i \in 1 .. Len(r) /\ t[i] = r[i]
        \/ i - Len(r) \in 1 .. Len(s) /\ t[i] = s[i - Len(r)] /\ ~ (i <= Len(r))
  BY <1>1, <1>2
<1>5. \A i \in 1 .. Len(r) : i \in 1 .. Len(r) + Len(s) /\ t[i] = r[i]
  BY <1>1, <1>2
<1>6. \A i \in 1 .. Len(s) : i + Len(r) \in 1 .. Len(r) + Len(s) /\ t[i + Len(r)] = s[i]
  <2> SUFFICES ASSUME NEW i \in 1 .. Len(s)
               PROVE  i + Len(r) \in 1 .. Len(r) + Len(s) /\ t[i + Len(r)] = s[i]
    OBVIOUS
  <2>1. /\ i + Len(r) \in 1 .. Len(r) + Len(s)
        /\ ~ (i + Len(r) <= Len(r)) /\ (i + Len(r)) - Len(r) = i
    BY <1>2
  <2> QED BY <2>1, <1>1
<1>7. ToSet(t) = ToSet(r) \cup ToSet(s)
  <2>1. /\ \A x : x \in ToSet(t) <=> \E i \in 1 .. Len(r) + Len(s) : t[i] = x
        /\ \A x : x \in ToSet(r) <=> \E i \in 1 .. Len(r) : r[i] = x
        /\ \A x : x \in ToSet(s) <=> \E i \in 1 .. Len(s) : s[i] = x
    BY <1>1, ToSetOfSeq
  <2>2. ToSet(t) \subseteq ToSet(r) \cup ToSet(s)
    BY <2>1, <1>4
  <2>3. ToSet(r) \subseteq ToSet(t)
    BY <2>1, <1>5
  <2>4. ToSet(s) \subseteq ToSet(t)
    BY <2>1, <1>6
  <2> QED BY <2>2, <2>3, <2>4
<1>8. ASSUME IsInjective(r), IsInjective(s), ToSet(r) \cap ToSet(s) = {}
      PROVE  IsInjective(t)
  <2>1. /\ \A i, j \in 1 .. Len(r) : r[i] = r[j] => i = j
        /\ \A i, j \in 1 .. Len(s) : s[i] = s[j] => i = j
        /\ \A i \in 1 .. Len(r), j \in 1 .. Len(s) : r[i] # s[j]
    <3>1. \A i, j \in 1 .. Len(r) : r[i] = r[j] => i = j
      BY <1>8, <1>2 DEF IsInjective
    <3>2. \A i, j \in 1 .. Len(s) : s[i] = s[j] => i = j
      BY <1>8, <1>2 DEF IsInjective
    <3>3. \A i \in 1 .. Len(r), j \in 1 .. Len(s) : r[i] # s[j]
      BY <1>8, ToSetOfSeq
    <3> QED BY <3>1, <3>2, <3>3
  <2> SUFFICES ASSUME NEW i \in 1 .. Len(r) + Len(s), NEW j \in 1 .. Len(r) + Len(s), t[i] = t[j]
               PROVE  i = j
    BY <1>3 DEF IsInjective
  <2>2. CASE i \in 1 .. Len(r)
    <3>1. t[i] = r[i]
      BY <2>2, <1>5
    <3>2. j \in 1 .. Len(r) /\ t[j] = r[j]
      BY <1>4, <3>1, <2>1, <2>2
    <3> QED BY <3>1, <3>2, <2>1, <2>2
  <2>3. CASE i \notin 1 .. Len(r)
    <3>1. i - Len(r) \in 1 .. Len(s) /\ t[i] = s[i - Len(r)]
      BY <2>3, <1>4
    <3>2. j - Len(r) \in 1 .. Len(s) /\ t[j] = s[j - Len(r)]
      BY <1>4, <3>1, <2>1
    <3>3. i - Len(r) = j - Len(r)
      BY <3>1, <3>2, <2>1
    <3> QED BY <3>3, <1>2
  <2> QED BY <2>2, <2>3
<1> QED BY <1>1, <1>7, <1>8 DEF t

LEMMA RowElements ==
  ASSUME NEW t, IsTree(t)
  PROVE  \A n \in Nodes(t) \cup {t.null} :
           ToSet(Row(t, n)) = Rest(t, n) /\ IsInjective(Row(t, n))
<1> DEFINE N == Nodes(t)
           D == N \cup {t.null}
           rank == RestRank(t)
           G == {n \in D : ToSet(Row(t, n)) = Rest(t, n) /\ IsInjective(Row(t, n))}
<1>1. /\ rank \in [D -> Nat]
      /\ \A n \in N : /\ First(t, n) \in D /\ After(t, n) \in D
                      /\ rank[First(t, n)] < rank[n] /\ rank[After(t, n)] < rank[n]
  BY RestRanks
<1>2. /\ Row(t, t.null) = <<>>
      /\ \A n \in N : Row(t, n) = <<n>> \o Row(t, First(t, n)) \o Row(t, After(t, n))
      /\ \A n \in D : Row(t, n) \in Seq(N)
  BY RowIsKnown
<1> HIDE DEF rank
<1>3. ASSUME NEW n \in D, \A m \in D : rank[m] < rank[n] => m \in G
      PROVE  n \in G
  <2>1. CASE n = t.null
    <3>1. Rest(t, n) = {} /\ Row(t, n) = <<>>
      BY <2>1, <1>2 DEF Rest
    <3>2. ToSet(<<>>) = {} /\ IsInjective(<<>>)
      BY DEF ToSet, IsInjective
    <3> QED BY <3>1, <3>2
  <2>2. CASE n \in N
    <3> DEFINE a == <<n>>
               b == Row(t, First(t, n))
               c == Row(t, After(t, n))
    <3>1. First(t, n) \in G /\ After(t, n) \in G
      BY <2>2, <1>1, <1>3
    <3>2. /\ ToSet(b) = Rest(t, First(t, n)) /\ IsInjective(b)
          /\ ToSet(c) = Rest(t, After(t, n)) /\ IsInjective(c)
      BY <3>1
    <3>3. a \in Seq(N) /\ ToSet(a) = {n} /\ IsInjective(a)
      <4>1. a \in Seq(N) /\ DOMAIN a = {1} /\ a[1] = n
        BY <2>2
      <4> QED BY <4>1 DEF ToSet, IsInjective
    <3>4. b \in Seq(N) /\ c \in Seq(N)
      BY <2>2, <1>1, <1>2
    <3>5. /\ Rest(t, n) = {n} \cup ToSet(b) \cup ToSet(c)
          /\ n \notin ToSet(b) /\ n \notin ToSet(c) /\ ToSet(b) \cap ToSet(c) = {}
      BY <2>2, <3>2, RestIsSplit
    <3>6. Row(t, n) = a \o b \o c
      BY <2>2, <1>2
    <3> HIDE DEF a, b, c
    <3>7. a \o b \in Seq(N) /\ ToSet(a \o b) = {n} \cup ToSet(b) /\ IsInjective(a \o b)
      BY <3>2, <3>3, <3>4, <3>5, ConcatElements
    <3>8. ToSet(a \o b \o c) = {n} \cup ToSet(b) \cup ToSet(c) /\ IsInjective(a \o b \o c)
      <4> DEFINE d == a \o b
      <4>1. d \in Seq(N) /\ ToSet(d) = {n} \cup ToSet(b) /\ IsInjective(d)
        BY <3>7
      <4>2. ToSet(d) \cap ToSet(c) = {}
        BY <4>1, <3>5
      <4> HIDE DEF d
      <4>3. ToSet(d \o c) = ToSet(d) \cup ToSet(c) /\ IsInjective(d \o c)
        BY <4>1, <4>2, <3>2, <3>4, ConcatElements
      <4> QED BY <4>1, <4>3 DEF d
    <3> QED BY <3>5, <3>6, <3>8
  <2> QED BY <2>1, <2>2
<1>4. G = D
  <2>1. G \in SUBSET D
    OBVIOUS
  <2> HIDE DEF G, D
  <2> QED BY <1>1, <1>3, <2>1, RankInduction
<1> QED BY <1>4

-----------------------------------------------------------------------------
(* A walk that goes to the first child of a node, and from a node without  *)
(* children to where skip says, which is the next sibling of the node or   *)
(* where its parent skips to, comes by the nodes in document order.        *)

Leads(f, s, d) ==
  /\ s # <<>>
  /\ f[s[Len(s)]] = d
  /\ \A i \in 1 .. Len(s) - 1 : f[s[i]] = s[i + 1]

LEMMA LeadsOn ==
  ASSUME NEW S, NEW r \in Seq(S), NEW s \in Seq(S), NEW f, NEW d,
         Leads(f, r, s[1]), Leads(f, s, d)
  PROVE  Leads(f, r \o s, d) /\ (r \o s)[1] = r[1]
<1> DEFINE t == r \o s
<1>1. /\ t \in Seq(S) /\ Len(t) = Len(r) + Len(s)
      /\ \A i \in 1 .. Len(r) + Len(s) : t[i] = IF i <= Len(r) THEN r[i] ELSE s[i - Len(r)]
  BY ConcatProperties
<1>2. Len(r) \in Nat /\ Len(s) \in Nat /\ Len(r) # 0 /\ Len(s) # 0
  BY ToSetOfSeq DEF Leads
<1> HIDE DEF t
<1>3. \A i \in 1 .. Len(r) : t[i] = r[i]
  BY <1>1, <1>2
<1>4. \A i \in 1 .. Len(s) : t[Len(r) + i] = s[i]
  <2> SUFFICES ASSUME NEW i \in 1 .. Len(s)
               PROVE  t[Len(r) + i] = s[i]
    OBVIOUS
  <2>1. /\ Len(r) + i \in 1 .. Len(r) + Len(s)
        /\ ~ (Len(r) + i <= Len(r)) /\ (Len(r) + i) - Len(r) = i
    BY <1>2
  <2> QED BY <2>1, <1>1
<1>5. f[t[Len(t)]] = d
  <2>1. Len(s) \in 1 .. Len(s)
    BY <1>2
  <2>2. t[Len(r) + Len(s)] = s[Len(s)]
    BY <1>4, <2>1
  <2> QED BY <2>2, <1>1 DEF Leads
<1>6. ASSUME NEW i \in 1 .. Len(t) - 1
      PROVE  f[t[i]] = t[i + 1]
  <2>1. CASE i < Len(r)
    <3>1. i \in 1 .. Len(r) - 1 /\ i \in 1 .. Len(r) /\ i + 1 \in 1 .. Len(r)
      BY <2>1, <1>1, <1>2
    <3> QED BY <3>1, <1>3 DEF Leads
  <2>2. CASE i = Len(r)
    <3>1. Len(r) \in 1 .. Len(r) /\ 1 \in 1 .. Len(s)
      BY <1>2
    <3>2. t[Len(r)] = r[Len(r)] /\ t[Len(r) + 1] = s[1]
      BY <3>1, <1>3, <1>4
    <3> QED BY <3>2, <2>2 DEF Leads
  <2>3. CASE i > Len(r)
    <3> DEFINE j == i - Len(r)
    <3>1. /\ j \in 1 .. Len(s) - 1 /\ j \in 1 .. Len(s) /\ j + 1 \in 1 .. Len(s)
          /\ Len(r) + j = i /\ Len(r) + (j + 1) = i + 1
      BY <2>3, <1>1, <1>2
    <3> HIDE DEF j
    <3>2. t[i] = s[j] /\ t[i + 1] = s[j + 1]
      BY <3>1, <1>4
    <3> QED BY <3>1, <3>2 DEF Leads
  <2>4. i < Len(r) \/ i = Len(r) \/ i > Len(r)
    BY <1>1, <1>2
  <2> QED BY <2>1, <2>2, <2>3, <2>4
<1>7. t # <<>>
  <2>1. Len(t) # 0
    BY <1>1, <1>2
  <2> QED BY <2>1, <1>1, ToSetOfSeq
<1>8. 1 \in 1 .. Len(r)
  BY <1>2
<1> QED BY <1>3, <1>5, <1>6, <1>7, <1>8 DEF t, Leads

LEMMA LeadsOne ==
  ASSUME NEW n, NEW f
  PROVE  Leads(f, <<n>>, f[n])
<1>1. Len(<<n>>) = 1 /\ <<n>>[1] = n /\ <<n>> # <<>>
  OBVIOUS
<1>2. ~ \E i \in 1 .. 1 - 1 : TRUE
  OBVIOUS
<1> QED BY <1>1, <1>2 DEF Leads

LEMMA HeadOfConcat ==
  ASSUME NEW S, NEW r \in Seq(S), NEW s \in Seq(S), r # <<>>
  PROVE  (r \o s)[1] = r[1] /\ r \o s # <<>>
<1> DEFINE t == r \o s
<1>1. /\ t \in Seq(S) /\ Len(t) = Len(r) + Len(s)
      /\ \A i \in 1 .. Len(r) + Len(s) : t[i] = IF i <= Len(r) THEN r[i] ELSE s[i - Len(r)]
  BY ConcatProperties
<1>2. Len(r) \in Nat /\ Len(s) \in Nat /\ Len(r) # 0
  BY ToSetOfSeq
<1> HIDE DEF t
<1>3. 1 \in 1 .. Len(r) + Len(s) /\ 1 <= Len(r) /\ Len(r) + Len(s) # 0
  BY <1>2
<1>4. t # <<>>
  BY <1>1, <1>3, ToSetOfSeq
<1> QED BY <1>1, <1>3, <1>4 DEF t

LEMMA HeadOfRow ==
  ASSUME NEW t, IsTree(t), NEW n \in Nodes(t)
  PROVE  Row(t, n)[1] = n /\ Row(t, n) # <<>>
<1> DEFINE a == <<n>>
           b == Row(t, First(t, n))
           c == Row(t, After(t, n))
<1>1. a \in Seq(Nodes(t)) /\ a[1] = n /\ a # <<>>
  OBVIOUS
<1>2. b \in Seq(Nodes(t)) /\ c \in Seq(Nodes(t))
  BY RestRanks, RowIsKnown
<1>3. Row(t, n) = a \o b \o c
  BY RowIsKnown
<1> HIDE DEF a, b, c
<1>4. (a \o b)[1] = n /\ a \o b # <<>> /\ a \o b \in Seq(Nodes(t))
  BY <1>1, <1>2, HeadOfConcat, ConcatProperties
<1> DEFINE d == a \o b
<1>5. d[1] = n /\ d # <<>> /\ d \in Seq(Nodes(t))
  BY <1>4
<1> HIDE DEF d
<1>6. (d \o c)[1] = n /\ d \o c # <<>>
  BY <1>2, <1>5, HeadOfConcat
<1> QED BY <1>3, <1>6 DEF d

Skips(t, root, f, skip) ==
  \A n \in Under(t.children, root) :
    /\ First(t, n) # t.null => f[n] = First(t, n)
    /\ First(t, n) = t.null => f[n] = skip[n]
    /\ After(t, n) # t.null => skip[n] = After(t, n)
    /\ After(t, n) = t.null => skip[n] = skip[Up(t, n)]

LEMMA UnderIsClosed ==
  ASSUME NEW t, IsTree(t), NEW root \in Nodes(t), NEW n \in Under(t.children, root)
  PROVE  /\ n \in Nodes(t)
         /\ Up(t, n) \in {root} \cup Under(t.children, root) /\ Up(t, n) \in Nodes(t)
         /\ First(t, n) # t.null => First(t, n) \in Under(t.children, root)
         /\ After(t, n) # t.null => After(t, n) \in Under(t.children, root)
<1> DEFINE ch == t.children
           S == ToSet(ch[root])
<1>1. ch \in [DOMAIN ch -> Seq(DOMAIN ch)] /\ Nodes(t) = DOMAIN ch
  BY TreeIsTyped
<1>2. S \in SUBSET DOMAIN ch
  BY <1>1, ChildrenAreNodes
<1>3. S \subseteq Under(ch, root) /\ Under(ch, root) \subseteq DOMAIN ch /\ Closed(ch, Under(ch, root))
  <2> HIDE DEF ch, S
  <2>1. S \subseteq Reach(ch, S) /\ Reach(ch, S) \subseteq DOMAIN ch /\ Closed(ch, Reach(ch, S))
    BY <1>1, <1>2, ReachIsLeast
  <2> QED BY <2>1 DEF Under, S
<1>4. n \in Nodes(t)
  BY <1>1, <1>3
<1>5. Up(t, n) \in {root} \cup Under(ch, root) /\ Up(t, n) \in Nodes(t)
  <2>1. CASE n \in S
    BY <2>1, <1>4, ParentIsKnown
  <2>2. CASE n \notin S
    <3>1. PICK p \in Under(ch, root) : n \in ToSet(ch[p])
      BY <2>2, <1>1, <1>2, ReachHasParent DEF Under
    <3>2. Up(t, n) = p /\ p \in Nodes(t)
      BY <3>1, <1>1, <1>3, <1>4, ParentIsKnown
    <3> QED BY <3>1, <3>2
  <2> QED BY <2>1, <2>2
<1>6. \A p \in {root} \cup Under(ch, root) : ToSet(ch[p]) \subseteq Under(ch, root)
  BY <1>3 DEF Closed
<1>7. ASSUME First(t, n) # t.null
      PROVE  First(t, n) \in Under(ch, root)
  <2>1. First(t, n) \in Nodes(t) /\ Up(t, First(t, n)) = n
    BY <1>4, <1>7, FirstChild
  <2>2. First(t, n) \in ToSet(ch[n])
    BY <2>1, <1>4, ParentIsKnown
  <2> QED BY <2>2, <1>6
<1>8. ASSUME After(t, n) # t.null
      PROVE  After(t, n) \in Under(ch, root)
  <2>1. After(t, n) \in Nodes(t) /\ Up(t, After(t, n)) = Up(t, n)
    BY <1>4, <1>8, NextSibling
  <2>2. After(t, n) \in ToSet(ch[Up(t, n)])
    BY <2>1, <1>5, ParentIsKnown
  <2> QED BY <2>2, <1>5, <1>6
<1> QED BY <1>4, <1>5, <1>7, <1>8

LEMMA WalkFollowsRow ==
  ASSUME NEW t, IsTree(t), NEW root \in Nodes(t), NEW f, NEW skip, Skips(t, root, f, skip)
  PROVE  \A n \in Under(t.children, root) : Leads(f, Row(t, n), skip[Up(t, n)])
<1> DEFINE N == Nodes(t)
           D == N \cup {t.null}
           rank == RestRank(t)
           G == {n \in D : n \in Under(t.children, root) => Leads(f, Row(t, n), skip[Up(t, n)])}
<1>1. /\ rank \in [D -> Nat]
      /\ \A n \in N : /\ First(t, n) \in D /\ After(t, n) \in D
                      /\ rank[First(t, n)] < rank[n] /\ rank[After(t, n)] < rank[n]
  BY RestRanks
<1>2. /\ Row(t, t.null) = <<>>
      /\ \A n \in N : Row(t, n) = <<n>> \o Row(t, First(t, n)) \o Row(t, After(t, n))
      /\ \A n \in D : Row(t, n) \in Seq(N)
  BY RowIsKnown
<1> HIDE DEF rank
<1>3. ASSUME NEW n \in D, \A m \in D : rank[m] < rank[n] => m \in G
      PROVE  n \in G
  <2> SUFFICES ASSUME n \in Under(t.children, root)
               PROVE  Leads(f, Row(t, n), skip[Up(t, n)])
    OBVIOUS
  <2>1. /\ n \in N
        /\ First(t, n) # t.null => First(t, n) \in Under(t.children, root)
        /\ After(t, n) # t.null => After(t, n) \in Under(t.children, root)
    BY UnderIsClosed
  <2> DEFINE x == First(t, n)
             y == After(t, n)
             a == <<n>>
             b == Row(t, x)
             c == Row(t, y)
  <2>2. a \in Seq(N) /\ b \in Seq(N) /\ c \in Seq(N) /\ Row(t, n) = a \o b \o c
    <3>1. x \in D /\ y \in D
      BY <2>1, <1>1
    <3>2. b \in Seq(N) /\ c \in Seq(N)
      <4> HIDE DEF x, y, D
      <4> QED BY <3>1, <1>2
    <3>3. a \in Seq(N)
      BY <2>1
    <3>4. Row(t, n) = a \o b \o c
      BY <2>1, <1>2
    <3> QED BY <3>2, <3>3, <3>4
  <2>3. Leads(f, a, f[n])
    BY LeadsOne
  <2>4. ASSUME x # t.null
        PROVE  Leads(f, b, skip[n]) /\ b[1] = x
    <3>1. x \in G /\ x \in N /\ Up(t, x) = n
      BY <2>1, <2>4, <1>1, <1>3, FirstChild
    <3> QED BY <3>1, <2>1, <2>4, HeadOfRow
  <2>5. ASSUME y # t.null
        PROVE  Leads(f, c, skip[Up(t, n)]) /\ c[1] = y
    <3>1. y \in G /\ y \in N /\ Up(t, y) = Up(t, n)
      BY <2>1, <2>5, <1>1, <1>3, NextSibling
    <3> QED BY <3>1, <2>1, <2>5, HeadOfRow
  <2>6. Leads(f, a \o b, skip[n]) /\ a \o b \in Seq(N)
    <3>1. CASE x = t.null
      <4>1. b = <<>> /\ f[n] = skip[n]
        BY <3>1, <1>2 DEF Skips
      <4>2. a \o b = a
        BY <4>1, <2>2
      <4> QED BY <4>1, <4>2, <2>2, <2>3
    <3>2. CASE x # t.null
      <4>1. f[n] = b[1] /\ Leads(f, b, skip[n])
        BY <3>2, <2>4 DEF Skips
      <4> HIDE DEF a, b
      <4>2. a \o b \in Seq(N)
        BY <2>2, ConcatProperties
      <4> QED BY <4>1, <4>2, <2>2, <2>3, LeadsOn
    <3> QED BY <3>1, <3>2
  <2> DEFINE d == a \o b
  <2>7. Leads(f, d, skip[n]) /\ d \in Seq(N) /\ Row(t, n) = d \o c
    BY <2>2, <2>6
  <2> HIDE DEF a, b, d
  <2>8. CASE y = t.null
    <3>1. c = <<>> /\ skip[n] = skip[Up(t, n)]
      BY <2>8, <1>2 DEF Skips
    <3>2. d \o c = d
      BY <3>1, <2>7
    <3> QED BY <3>1, <3>2, <2>7
  <2>9. CASE y # t.null
    <3>1. skip[n] = c[1] /\ Leads(f, c, skip[Up(t, n)])
      BY <2>9, <2>5 DEF Skips
    <3> HIDE DEF c
    <3>2. Leads(f, d \o c, skip[Up(t, n)])
      BY <3>1, <2>2, <2>7, LeadsOn
    <3> QED BY <3>2, <2>7
  <2> QED BY <2>8, <2>9
<1>4. G = D
  <2>1. G \in SUBSET D
    OBVIOUS
  <2>2. rank \in [D -> Nat]
    BY <1>1
  <2> HIDE DEF G, D
  <2> QED BY <1>3, <2>1, <2>2, RankInduction
<1>5. \A n \in Under(t.children, root) : n \in N
  BY UnderIsClosed
<1> QED BY <1>4, <1>5

(* The path of such a walk: a list of nodes, each of which leads to the    *)
(* next and the last to no node, is what the walk comes by.                *)
LEMMA FromIsChain ==
  ASSUME NEW t, IsTree(t), NEW s \in Seq(Nodes(t)), IsInjective(s), NEW f, NEW start,
         s = <<>> => start = t.null,
         s # <<>> => start = s[1] /\ Leads(f, s, t.null)
  PROVE  From(t, start, f) = s
<1> DEFINE N == Nodes(t)
           Then(path) == IF path = <<>> THEN start
                         ELSE IF Last(path) \in N THEN f[Last(path)] ELSE t.null
           Step(path) == IF Then(path) = t.null THEN path ELSE Append(path, Then(path))
           Is(h) == h = [i \in Nat |-> IF i = 0 THEN <<>> ELSE Step(h[i - 1])]
           visited == CHOOSE h : Is(h)
           g == [i \in Nat |-> SubSeq(s, 1, IF i <= Len(s) THEN i ELSE Len(s))]
<1>1. /\ Len(s) \in Nat /\ s \in Seq(N) /\ t.null \notin N
      /\ \A i \in 1 .. Len(s) : s[i] \in N
      /\ s = <<>> <=> Len(s) = 0
  BY TreeIsTyped, LenProperties, ElementOfSeq, EmptySeq
<1>2. \A k \in 0 .. Len(s) :
        /\ SubSeq(s, 1, k) \in Seq(N) /\ Len(SubSeq(s, 1, k)) = k
        /\ \A i \in 1 .. k : SubSeq(s, 1, k)[i] = s[i]
  <2> SUFFICES ASSUME NEW k \in 0 .. Len(s)
               PROVE  /\ SubSeq(s, 1, k) \in Seq(N) /\ Len(SubSeq(s, 1, k)) = k
                      /\ \A i \in 1 .. k : SubSeq(s, 1, k)[i] = s[i]
    OBVIOUS
  <2>1. k \in Nat /\ k <= Len(s) /\ \A i \in 1 .. k : i \in 1 .. Len(s)
    BY <1>1
  <2> QED BY <2>1, <1>1, SubSeqProperties
<1>3. SubSeq(s, 1, Len(s)) = s
  <2>1. Len(s) \in 0 .. Len(s)
    BY <1>1
  <2> DEFINE r == SubSeq(s, 1, Len(s))
  <2>2. r \in Seq(N) /\ Len(r) = Len(s) /\ \A i \in 1 .. Len(s) : r[i] = s[i]
    BY <2>1, <1>2
  <2> HIDE DEF r
  <2>3. r = s
    BY <2>2, <1>1, SeqEqual
  <2> QED BY <2>3 DEF r
<1>4. SubSeq(s, 1, 0) = <<>>
  BY <1>1
<1>5. ASSUME NEW k \in 0 .. Len(s) - 1
      PROVE  Step(SubSeq(s, 1, k)) = SubSeq(s, 1, k + 1)
  <2> DEFINE p == SubSeq(s, 1, k)
             q == SubSeq(s, 1, k + 1)
  <2>1. /\ k \in Nat /\ k \in 0 .. Len(s) /\ k + 1 \in 0 .. Len(s) /\ k + 1 \in 1 .. Len(s)
        /\ k # 0 => k \in 1 .. k /\ k \in 1 .. Len(s) /\ k \in 1 .. Len(s) - 1
        /\ Len(s) # 0
    BY <1>1
  <2>2. /\ p \in Seq(N) /\ Len(p) = k
        /\ \A i \in 1 .. k : p[i] = s[i]
    BY <2>1, <1>2
  <2>3. /\ q \in Seq(N) /\ Len(q) = k + 1
        /\ \A i \in 1 .. k + 1 : q[i] = s[i]
    BY <2>1, <1>2
  <2> HIDE DEF p, q
  <2>4. p = <<>> <=> k = 0
    BY <2>2, EmptySeq
  <2>5. s[k + 1] \in N
    BY <2>1, <1>1
  <2>6. Then(p) = s[k + 1]
    <3>1. CASE k = 0
      BY <3>1, <2>1, <2>4, <1>1
    <3>2. CASE k # 0
      <4>1. Last(p) = s[k] /\ s[k] \in N
        BY <3>2, <2>1, <2>2, <1>1 DEF Last
      <4>2. f[s[k]] = s[k + 1]
        BY <3>2, <2>1, <1>1 DEF Leads
      <4> QED BY <3>2, <4>1, <4>2, <2>4
    <3> QED BY <3>1, <3>2
  <2>7. Step(p) = Append(p, s[k + 1])
    BY <2>5, <2>6, <1>1
  <2>8. Append(p, s[k + 1]) = q
    <3> DEFINE r == Append(p, s[k + 1])
    <3>1. /\ r \in Seq(N) /\ Len(r) = k + 1
          /\ \A i \in 1 .. k + 1 : r[i] = IF i <= k THEN p[i] ELSE s[k + 1]
      BY <2>2, <2>5, AppendProperties
    <3> HIDE DEF r
    <3>2. \A i \in 1 .. k + 1 : i <= k \/ i = k + 1
      BY <2>1
    <3>3. \A i \in 1 .. k + 1 : i <= k => i \in 1 .. k
      BY <2>1
    <3>4. \A i \in 1 .. k + 1 : r[i] = q[i]
      BY <3>1, <3>2, <3>3, <2>1, <2>2, <2>3
    <3>5. r = q
      BY <3>1, <3>4, <2>3, SeqEqual
    <3> QED BY <3>5 DEF r
  <2> QED BY <2>7, <2>8 DEF p, q
<1>6. Step(s) = s
  <2>1. CASE s = <<>>
    BY <2>1
  <2>2. CASE s # <<>>
    <3>1. Len(s) \in 1 .. Len(s)
      BY <2>2, <1>1
    <3>2. Last(s) = s[Len(s)] /\ s[Len(s)] \in N /\ f[s[Len(s)]] = t.null
      BY <2>2, <3>1, <1>1 DEF Last, Leads
    <3> QED BY <2>2, <3>2
  <2> QED BY <2>1, <2>2
<1>7. From(t, start, f) = visited[Cardinality(N) + 1]
  BY DEF From
<1> HIDE DEF Step
<1>8. Is(g)
  <2>1. \A i \in Nat : g[i] = SubSeq(s, 1, IF i <= Len(s) THEN i ELSE Len(s))
    OBVIOUS
  <2> HIDE DEF g
  <2>2. ASSUME NEW i \in Nat
        PROVE  g[i] = IF i = 0 THEN <<>> ELSE Step(g[i - 1])
    <3>1. CASE i = 0
      BY <3>1, <2>1, <1>1, <1>4
    <3>2. CASE i # 0 /\ i <= Len(s)
      <4>1. i - 1 \in 0 .. Len(s) - 1 /\ i - 1 \in Nat /\ i - 1 <= Len(s) /\ (i - 1) + 1 = i
        BY <3>2, <1>1
      <4>2. g[i - 1] = SubSeq(s, 1, i - 1)
        BY <4>1, <2>1
      <4>3. Step(SubSeq(s, 1, i - 1)) = SubSeq(s, 1, (i - 1) + 1)
        BY <4>1, <1>5
      <4> QED BY <4>1, <4>2, <4>3, <3>2, <2>1
    <3>3. CASE i > Len(s)
      <4>1. i - 1 \in Nat /\ i # 0 /\ ~ (i <= Len(s)) /\ (i - 1 = Len(s) \/ ~ (i - 1 <= Len(s)))
        BY <3>3, <1>1
      <4>2. g[i - 1] = s
        BY <4>1, <2>1, <1>3
      <4>3. g[i] = s
        BY <4>1, <2>1, <1>3
      <4> QED BY <4>1, <4>2, <4>3, <1>6
    <3> QED BY <3>1, <3>2, <3>3, <1>1
  <2>3. g = [i \in Nat |-> g[i]]
    BY DEF g
  <2> QED BY <2>2, <2>3
<1>9. Is(visited)
  <2> HIDE DEF Is
  <2> QED BY <1>8
<1>10. \A i \in Nat : visited[i] = IF i = 0 THEN <<>> ELSE Step(visited[i - 1])
  <2> HIDE DEF visited
  <2> QED BY <1>9
<1>11. \A i \in Nat : g[i] = IF i = 0 THEN <<>> ELSE Step(g[i - 1])
  <2> HIDE DEF g
  <2> QED BY <1>8
<1> HIDE DEF visited, g, Is
<1>12. \A i \in Nat : visited[i] = g[i]
  <2> DEFINE B == {i \in Nat : visited[i] # g[i]}
  <2> SUFFICES ASSUME B # {}
               PROVE  FALSE
    OBVIOUS
  <2>1. PICK i \in B : \A j \in B : i <= j
    <3>1. B \in SUBSET Nat
      OBVIOUS
    <3> HIDE DEF B
    <3> QED BY <3>1, MinIsLeast
  <2>2. i \in Nat /\ visited[i] # g[i]
    OBVIOUS
  <2>3. i # 0
    BY <1>10, <1>11, <2>2
  <2>4. i - 1 \in Nat /\ ~ (i <= i - 1)
    BY <2>2, <2>3
  <2>5. visited[i - 1] = g[i - 1]
    BY <2>1, <2>4
  <2> QED BY <1>10, <1>11, <2>2, <2>3, <2>5
<1>13. Cardinality(N) + 1 \in Nat /\ Len(s) <= Cardinality(N) + 1
  <2>1. ToSet(s) \in SUBSET N /\ Cardinality(ToSet(s)) = Len(s)
    BY ToSetOfSeq, LengthIsCardinality
  <2>2. IsFiniteSet(N) /\ Cardinality(N) \in Nat
    BY TreeIsTyped, FS_CardinalityType
  <2>3. Cardinality(ToSet(s)) <= Cardinality(N)
    BY <2>1, <2>2, FS_Subset
  <2> QED BY <2>1, <2>2, <2>3, <1>1
<1>14. g[Cardinality(N) + 1] = s
  <2> DEFINE k == Cardinality(N) + 1
  <2>1. k \in Nat /\ (k = Len(s) \/ ~ (k <= Len(s)))
    BY <1>13, <1>1
  <2> HIDE DEF k
  <2>2. g[k] = s
    BY <2>1, <1>3 DEF g
  <2> QED BY <2>2 DEF k
<1> QED BY <1>7, <1>12, <1>13, <1>14

-----------------------------------------------------------------------------
(* A climb goes up from node to node until it stops.                       *)

HeightRank(t) ==
  [n \in Nodes(t) \cup {t.null} |->
     IF n = t.null THEN 0 ELSE Cardinality(Nodes(t) \ Under(t.children, n))]

LEMMA HeightRanks ==
  ASSUME NEW t, IsTree(t)
  PROVE  /\ HeightRank(t) \in [Nodes(t) \cup {t.null} -> Nat]
         /\ \A n \in Nodes(t) \cup {t.null} : HeightRank(t)[n] < Cardinality(Nodes(t)) + 1
         /\ \A n \in Nodes(t) : /\ Up(t, n) \in Nodes(t) \cup {t.null}
                                /\ HeightRank(t)[Up(t, n)] < HeightRank(t)[n]
         /\ Cardinality(Nodes(t)) \in Nat
<1> DEFINE N == Nodes(t)
           ch == t.children
           Above(n) == N \ Under(ch, n)
<1>1. IsFiniteSet(N) /\ Cardinality(N) \in Nat /\ t.null \notin N /\ IsFamily(ch) /\ N = DOMAIN ch
  BY TreeIsTyped, FS_CardinalityType
<1>2. ASSUME NEW n \in N
      PROVE  /\ IsFiniteSet(Above(n)) /\ Cardinality(Above(n)) \in Nat /\ Cardinality(Above(n)) # 0
             /\ Cardinality(Above(n)) < Cardinality(N) + 1
             /\ n \in Above(n)
  <2>1. Above(n) \in SUBSET N /\ n \in Above(n)
    BY <1>1 DEF IsFamily
  <2> HIDE DEF Above
  <2>2. IsFiniteSet(Above(n)) /\ Cardinality(Above(n)) <= Cardinality(N)
    BY <1>1, <2>1, FS_Subset
  <2>3. Cardinality(Above(n)) \in Nat /\ Cardinality(Above(n)) # 0
    BY <2>1, <2>2, FS_CardinalityType, FS_EmptySet
  <2> QED BY <1>1, <2>1, <2>2, <2>3
<1>3. ASSUME NEW n \in N, Up(t, n) # t.null
      PROVE  Up(t, n) \in N /\ Cardinality(Above(Up(t, n))) < Cardinality(Above(n))
  <2>1. Up(t, n) \in N /\ n \in ToSet(ch[Up(t, n)])
    BY <1>3, NodeIsChild
  <2>2. ch \in [DOMAIN ch -> Seq(DOMAIN ch)]
    BY <1>1 DEF IsFamily
  <2> DEFINE S == ToSet(ch[Up(t, n)])
  <2>3. S \in SUBSET DOMAIN ch
    BY <2>1, <2>2, <1>1, ChildrenAreNodes
  <2>4. n \in Reach(ch, S)
    <3> HIDE DEF S, ch
    <3>1. S \subseteq Reach(ch, S)
      BY <2>2, <2>3, ReachIsLeast
    <3> QED BY <3>1, <2>1 DEF S
  <2>5. Under(ch, n) \subseteq Reach(ch, S)
    <3> HIDE DEF S, ch
    <3> QED BY <2>2, <2>3, <2>4, ReachOfMember
  <2>6. Above(Up(t, n)) \in SUBSET Above(n) /\ n \notin Above(Up(t, n))
    BY <2>4, <2>5 DEF Under
  <2>7. IsFiniteSet(Above(n)) /\ n \in Above(n)
    BY <1>2
  <2> HIDE DEF Above
  <2> QED BY <2>1, <2>6, <2>7, ProperSubsetIsSmaller
<1>4. \A n \in N : Up(t, n) \in N \cup {t.null}
  BY ParentIsKnown
<1>5. \A n \in N \cup {t.null} : HeightRank(t)[n] = IF n = t.null THEN 0 ELSE Cardinality(Above(n))
  BY DEF HeightRank
<1>6. HeightRank(t) \in [N \cup {t.null} -> Nat]
  BY <1>2 DEF HeightRank
<1> HIDE DEF Above
<1>7. \A n \in N \cup {t.null} : HeightRank(t)[n] < Cardinality(N) + 1
  BY <1>1, <1>2, <1>5
<1>8. ASSUME NEW n \in N
      PROVE  HeightRank(t)[Up(t, n)] < HeightRank(t)[n]
  <2>1. n # t.null
    BY <1>1
  <2>2. CASE Up(t, n) = t.null
    <3>1. HeightRank(t)[Up(t, n)] = 0 /\ HeightRank(t)[n] = Cardinality(Above(n))
      BY <2>1, <2>2, <1>5
    <3> QED BY <3>1, <1>2
  <2>3. CASE Up(t, n) # t.null
    BY <2>1, <2>3, <1>3, <1>5
  <2> QED BY <2>2, <2>3
<1> QED BY <1>1, <1>4, <1>6, <1>7, <1>8 DEF N

(* There is a climb, whatever it stops at.                                 *)
Climbs(t, D, Stop, at, f) ==
  \A n \in D : f[n] = IF n \in Stop THEN at[n] ELSE f[Up(t, n)]

LEMMA ClimbExists ==
  ASSUME NEW t, IsTree(t), NEW D \in SUBSET (Nodes(t) \cup {t.null}), NEW V, V # {},
         NEW Stop, NEW at \in [D -> V],
         \A n \in D \ Stop : n \in Nodes(t) /\ Up(t, n) \in D
  PROVE  \E f \in [D -> V] : Climbs(t, D, Stop, at, f)
<1> DEFINE rank == [n \in D |-> HeightRank(t)[n]]
           H == [n \in D |-> [g \in [D -> V] |-> IF n \in Stop THEN at[n] ELSE g[Up(t, n)]]]
           bound == Cardinality(Nodes(t)) + 1
<1>1. /\ rank \in [D -> Nat]
      /\ bound \in Nat
      /\ \A n \in D : rank[n] < bound
      /\ \A n \in D \ Stop : rank[Up(t, n)] < rank[n]
  <2>1. \A n \in D : rank[n] = HeightRank(t)[n]
    OBVIOUS
  <2>2. /\ HeightRank(t) \in [Nodes(t) \cup {t.null} -> Nat]
        /\ \A n \in Nodes(t) \cup {t.null} : HeightRank(t)[n] < bound
        /\ \A n \in Nodes(t) : HeightRank(t)[Up(t, n)] < HeightRank(t)[n]
    BY HeightRanks
  <2>3. bound \in Nat
    <3>1. Cardinality(Nodes(t)) \in Nat
      BY HeightRanks
    <3> QED BY <3>1
  <2>4. rank \in [D -> Nat]
    BY <2>2
  <2> HIDE DEF rank, bound
  <2> QED BY <2>1, <2>2, <2>3, <2>4
<1>2. H \in [D -> [[D -> V] -> V]]
  OBVIOUS
<1>3. \A n \in D, g \in [D -> V] : H[n][g] = IF n \in Stop THEN at[n] ELSE g[Up(t, n)]
  OBVIOUS
<1> HIDE DEF H, rank, bound
<1>4. Grounded(D, V, rank, H)
  <2> SUFFICES ASSUME NEW n \in D, NEW f \in [D -> V], NEW g \in [D -> V],
                      \A m \in D : rank[m] < rank[n] => f[m] = g[m]
               PROVE  H[n][f] = H[n][g]
    BY DEF Grounded
  <2>1. n \notin Stop => f[Up(t, n)] = g[Up(t, n)]
    BY <1>1
  <2> QED BY <2>1, <1>3
<1>5. \E f \in [D -> V] : Solves(f, D, H)
  BY <1>1, <1>2, <1>4, RecursionExists
<1>6. ASSUME NEW f \in [D -> V], Solves(f, D, H)
      PROVE  Climbs(t, D, Stop, at, f)
  BY <1>3, <1>6 DEF Solves, Climbs
<1> QED BY <1>5, <1>6

LEMMA ListClimbIsKnown ==
  ASSUME NEW t, IsTree(t), NEW root
  PROVE  \A n \in Nodes(t) :
           ListClimb(t, root, n) =
             IF Up(t, n) = root THEN n ELSE IF Up(t, n) = t.null THEN t.fault
             ELSE IF n = LastOf(t, Up(t, n)) THEN ListClimb(t, root, Up(t, n)) ELSE n
<1> DEFINE N == Nodes(t)
           V == N \cup {t.fault}
           Stop == {n \in N : Up(t, n) = root \/ Up(t, n) = t.null \/ n # LastOf(t, Up(t, n))}
           at == [n \in N |-> IF Up(t, n) = root THEN n ELSE IF Up(t, n) = t.null THEN t.fault ELSE n]
           Is(g) == g = [n \in N |->
                           IF Up(t, n) = root THEN n ELSE IF Up(t, n) = t.null THEN t.fault
                           ELSE IF n = LastOf(t, Up(t, n)) THEN g[Up(t, n)] ELSE n]
           climb == CHOOSE g : Is(g)
<1>1. at \in [N -> V] /\ V # {} /\ N \in SUBSET (N \cup {t.null})
  OBVIOUS
<1>2. \A n \in N \ Stop : n \in N /\ Up(t, n) \in N
  BY ParentIsKnown
<1>3. \E f \in [N -> V] : Climbs(t, N, Stop, at, f)
  <2> HIDE DEF V, Stop, at
  <2> QED BY <1>1, <1>2, ClimbExists
<1>4. ASSUME NEW f \in [N -> V], Climbs(t, N, Stop, at, f)
      PROVE  Is(f)
  <2>1. ASSUME NEW n \in N
        PROVE  f[n] = IF Up(t, n) = root THEN n ELSE IF Up(t, n) = t.null THEN t.fault
                      ELSE IF n = LastOf(t, Up(t, n)) THEN f[Up(t, n)] ELSE n
    BY <1>4 DEF Climbs
  <2> QED BY <2>1
<1>5. Is(climb)
  <2>1. \E g : Is(g)
    <3> HIDE DEF Is, V, Stop, at
    <3> QED BY <1>3, <1>4
  <2> HIDE DEF Is
  <2> QED BY <2>1
<1>6. \A n \in N : climb[n] = IF Up(t, n) = root THEN n ELSE IF Up(t, n) = t.null THEN t.fault
                              ELSE IF n = LastOf(t, Up(t, n)) THEN climb[Up(t, n)] ELSE n
  <2> HIDE DEF climb
  <2> QED BY <1>5
<1>7. ASSUME NEW n
      PROVE  ListClimb(t, root, n) = climb[n]
  BY DEF ListClimb
<1> HIDE DEF climb
<1> QED BY <1>6, <1>7

LEMMA CollectionClimbIsKnown ==
  ASSUME NEW t, IsTree(t), NEW root
  PROVE  \A n \in Nodes(t) :
           CollectionClimb(t, root, n) =
             IF n = root THEN n ELSE IF Up(t, n) = t.null THEN t.fault
             ELSE IF n = LastOf(t, Up(t, n)) THEN CollectionClimb(t, root, Up(t, n)) ELSE n
<1> DEFINE N == Nodes(t)
           V == N \cup {t.fault}
           Stop == {n \in N : n = root \/ Up(t, n) = t.null \/ n # LastOf(t, Up(t, n))}
           at == [n \in N |-> IF n = root THEN n ELSE IF Up(t, n) = t.null THEN t.fault ELSE n]
           Is(g) == g = [n \in N |->
                           IF n = root THEN n ELSE IF Up(t, n) = t.null THEN t.fault
                           ELSE IF n = LastOf(t, Up(t, n)) THEN g[Up(t, n)] ELSE n]
           climb == CHOOSE g : Is(g)
<1>1. at \in [N -> V] /\ V # {} /\ N \in SUBSET (N \cup {t.null})
  OBVIOUS
<1>2. \A n \in N \ Stop : n \in N /\ Up(t, n) \in N
  BY ParentIsKnown
<1>3. \E f \in [N -> V] : Climbs(t, N, Stop, at, f)
  <2> HIDE DEF V, Stop, at
  <2> QED BY <1>1, <1>2, ClimbExists
<1>4. ASSUME NEW f \in [N -> V], Climbs(t, N, Stop, at, f)
      PROVE  Is(f)
  <2>1. ASSUME NEW n \in N
        PROVE  f[n] = IF n = root THEN n ELSE IF Up(t, n) = t.null THEN t.fault
                      ELSE IF n = LastOf(t, Up(t, n)) THEN f[Up(t, n)] ELSE n
    BY <1>4 DEF Climbs
  <2> QED BY <2>1
<1>5. Is(climb)
  <2>1. \E g : Is(g)
    <3> HIDE DEF Is, V, Stop, at
    <3> QED BY <1>3, <1>4
  <2> HIDE DEF Is
  <2> QED BY <2>1
<1>6. \A n \in N : climb[n] = IF n = root THEN n ELSE IF Up(t, n) = t.null THEN t.fault
                              ELSE IF n = LastOf(t, Up(t, n)) THEN climb[Up(t, n)] ELSE n
  <2> HIDE DEF climb
  <2> QED BY <1>5
<1>7. ASSUME NEW n
      PROVE  CollectionClimb(t, root, n) = climb[n]
  BY DEF CollectionClimb
<1> HIDE DEF climb
<1> QED BY <1>6, <1>7

LEMMA IdClimbIsKnown ==
  ASSUME NEW t, IsTree(t), NEW root \in Nodes(t)
  PROVE  /\ IdClimb(t, root, t.null) = t.null
         /\ \A n \in Nodes(t) :
              IdClimb(t, root, n) =
                IF After(t, n) # t.null THEN After(t, n)
                ELSE IF Up(t, n) = root THEN t.null ELSE IdClimb(t, root, Up(t, n))
<1> DEFINE N == Nodes(t)
           D == N \cup {t.null}
           Stop == {n \in D : n = t.null \/ After(t, n) # t.null \/ Up(t, n) = root}
           at == [n \in D |-> IF n = t.null THEN t.null
                              ELSE IF After(t, n) # t.null THEN After(t, n) ELSE t.null]
           Is(g) == g = [n \in D |->
                           IF n = t.null THEN t.null ELSE IF After(t, n) # t.null THEN After(t, n)
                           ELSE IF Up(t, n) = root THEN t.null ELSE g[Up(t, n)]]
           climb == CHOOSE g : Is(g)
<1>1. at \in [D -> D] /\ D # {} /\ D \in SUBSET (N \cup {t.null})
  BY NextSibling
<1>2. \A n \in D \ Stop : n \in N /\ Up(t, n) \in D
  BY ParentIsKnown
<1>3. \E f \in [D -> D] : Climbs(t, D, Stop, at, f)
  <2> HIDE DEF D, Stop, at
  <2> QED BY <1>1, <1>2, ClimbExists
<1>4. ASSUME NEW f \in [D -> D], Climbs(t, D, Stop, at, f)
      PROVE  Is(f)
  <2>1. ASSUME NEW n \in D
        PROVE  f[n] = IF n = t.null THEN t.null ELSE IF After(t, n) # t.null THEN After(t, n)
                      ELSE IF Up(t, n) = root THEN t.null ELSE f[Up(t, n)]
    BY <1>4 DEF Climbs
  <2> QED BY <2>1
<1>5. Is(climb)
  <2>1. \E g : Is(g)
    <3> HIDE DEF Is, D, Stop, at
    <3> QED BY <1>3, <1>4
  <2> HIDE DEF Is
  <2> QED BY <2>1
<1>6. \A n \in D : climb[n] = IF n = t.null THEN t.null ELSE IF After(t, n) # t.null THEN After(t, n)
                              ELSE IF Up(t, n) = root THEN t.null ELSE climb[Up(t, n)]
  <2> HIDE DEF climb
  <2> QED BY <1>5
<1>7. ASSUME NEW n
      PROVE  IdClimb(t, root, n) = climb[n]
  BY DEF IdClimb
<1>8. t.null \notin N
  BY TreeIsTyped
<1> HIDE DEF climb
<1> QED BY <1>6, <1>7, <1>8

-----------------------------------------------------------------------------
(* The three walks meet the nodes below their root in document order.      *)

LEMMA BelowElements ==
  ASSUME NEW t, IsTree(t), NEW root \in Nodes(t)
  PROVE  /\ Below(t, root) \in Seq(Nodes(t)) /\ IsInjective(Below(t, root))
         /\ ToSet(Below(t, root)) = Under(t.children, root)
         /\ AtOrBelow(t, root) \in Seq(Nodes(t)) /\ IsInjective(AtOrBelow(t, root))
         /\ ToSet(AtOrBelow(t, root)) = Reach(t.children, {root})
         /\ AtOrBelow(t, root)[1] = root /\ AtOrBelow(t, root) # <<>>
<1> DEFINE N == Nodes(t)
           a == <<root>>
           b == Row(t, First(t, root))
<1>1. First(t, root) \in N \cup {t.null}
  BY RestRanks
<1>2. b \in Seq(N) /\ ToSet(b) = Rest(t, First(t, root)) /\ IsInjective(b)
  BY <1>1, RowIsKnown, RowElements
<1>3. Rest(t, First(t, root)) = Under(t.children, root) /\ root \notin Rest(t, First(t, root))
  BY RestIsSplit
<1>4. a \in Seq(N) /\ ToSet(a) = {root} /\ IsInjective(a) /\ a # <<>> /\ a[1] = root
  <2>1. a \in Seq(N) /\ DOMAIN a = {1} /\ a[1] = root /\ a # <<>>
    OBVIOUS
  <2> QED BY <2>1 DEF ToSet, IsInjective
<1>5. Reach(t.children, {root}) = {root} \cup Under(t.children, root)
  BY TreeIsTyped, ReachOfNode
<1> HIDE DEF a, b
<1>6. a \o b \in Seq(N) /\ ToSet(a \o b) = ToSet(a) \cup ToSet(b) /\ IsInjective(a \o b)
  BY <1>2, <1>3, <1>4, ConcatElements
<1>7. (a \o b)[1] = root /\ a \o b # <<>>
  BY <1>2, <1>4, HeadOfConcat
<1>8. Below(t, root) = b /\ AtOrBelow(t, root) = a \o b
  BY DEF Below, AtOrBelow, a, b
<1> QED BY <1>2, <1>3, <1>4, <1>5, <1>6, <1>7, <1>8

LEMMA WalkFromFirst ==
  ASSUME NEW t, IsTree(t), NEW root \in Nodes(t), NEW f, NEW skip, Skips(t, root, f, skip),
         skip[root] = t.null
  PROVE  From(t, First(t, root), f) = Below(t, root)
<1> DEFINE s == Below(t, root)
<1>1. s \in Seq(Nodes(t)) /\ IsInjective(s)
  BY BelowElements
<1>2. s = Row(t, First(t, root))
  BY DEF Below
<1>3. CASE First(t, root) = t.null
  <2>1. s = <<>>
    BY <1>2, <1>3, RowIsKnown
  <2> HIDE DEF s
  <2>2. From(t, First(t, root), f) = s
    BY <1>1, <1>3, <2>1, FromIsChain
  <2> QED BY <2>2 DEF s
<1>4. CASE First(t, root) # t.null
  <2> DEFINE c == First(t, root)
  <2>1. c \in Nodes(t) /\ Up(t, c) = root
    BY <1>4, FirstChild
  <2>2. c \in Under(t.children, root)
    <3>1. c \in Rest(t, c)
      BY <2>1, RestIsSplit
    <3> QED BY <3>1, RestIsSplit
  <2>3. Leads(f, s, t.null)
    BY <1>2, <2>1, <2>2, WalkFollowsRow
  <2>4. s[1] = c /\ s # <<>>
    BY <1>2, <2>1, HeadOfRow
  <2> HIDE DEF s, c
  <2>5. From(t, c, f) = s
    BY <1>1, <2>3, <2>4, FromIsChain
  <2> QED BY <2>5 DEF s, c
<1> QED BY <1>3, <1>4

LEMMA WalkFromRoot ==
  ASSUME NEW t, IsTree(t), NEW root \in Nodes(t), NEW f, NEW skip, Skips(t, root, f, skip),
         skip[root] = t.null, f[root] = First(t, root)
  PROVE  From(t, root, f) = AtOrBelow(t, root)
<1> DEFINE a == <<root>>
           b == Row(t, First(t, root))
           s == AtOrBelow(t, root)
<1>1. s \in Seq(Nodes(t)) /\ IsInjective(s) /\ s # <<>> /\ s[1] = root
  BY BelowElements
<1>2. s = a \o b
  BY DEF AtOrBelow, Below
<1>3. a \in Seq(Nodes(t)) /\ b \in Seq(Nodes(t)) /\ Leads(f, a, First(t, root))
  <2>1. First(t, root) \in Nodes(t) \cup {t.null}
    BY RestRanks
  <2>2. b \in Seq(Nodes(t))
    BY <2>1, RowIsKnown
  <2>3. Leads(f, a, First(t, root))
    BY LeadsOne
  <2> QED BY <2>2, <2>3
<1>4. Leads(f, s, t.null)
  <2>1. CASE First(t, root) = t.null
    <3>1. b = <<>>
      BY <2>1, RowIsKnown
    <3>2. s = a
      BY <3>1, <1>2, <1>3
    <3> QED BY <2>1, <3>2, <1>3
  <2>2. CASE First(t, root) # t.null
    <3> DEFINE c == First(t, root)
    <3>1. c \in Nodes(t) /\ Up(t, c) = root
      BY <2>2, FirstChild
    <3>2. c \in Under(t.children, root)
      <4>1. c \in Rest(t, c)
        BY <3>1, RestIsSplit
      <4> QED BY <4>1, RestIsSplit
    <3>3. Leads(f, b, t.null) /\ b[1] = c
      BY <3>1, <3>2, WalkFollowsRow, HeadOfRow
    <3> HIDE DEF a, b, c, s
    <3>4. Leads(f, a, b[1])
      BY <1>3, <3>3 DEF c
    <3>5. Leads(f, a \o b, t.null)
      BY <1>3, <3>3, <3>4, LeadsOn
    <3> QED BY <1>2, <3>5
  <2> QED BY <2>1, <2>2
<1> HIDE DEF s
<1>5. From(t, root, f) = s
  BY <1>1, <1>4, FromIsChain
<1> QED BY <1>5 DEF s

(* Every list meets what is below its root.                                *)
LEMMA ListPathIsBelow ==
  ASSUME NEW t, IsTree(t), NEW root \in Nodes(t)
  PROVE  ListPath(t, root) = Below(t, root)
<1> DEFINE N == Nodes(t)
           U == Under(t.children, root)
           f == [n \in N |-> ListAfter(t, root, n)]
           skip == [n \in N |-> IF n = root THEN t.null ELSE After(t, ListClimb(t, root, n))]
           climb(n) == ListClimb(t, root, n)
<1>1. \A n \in N : climb(n) = IF Up(t, n) = root THEN n ELSE IF Up(t, n) = t.null THEN t.fault
                              ELSE IF n = LastOf(t, Up(t, n)) THEN climb(Up(t, n)) ELSE n
  BY ListClimbIsKnown
<1>2. root \notin U /\ t.null \notin N /\ t.fault \notin N
  BY TreeIsTyped DEF IsFamily
<1>3. \A n \in U : n \in N /\ n # root /\ Up(t, n) \in N /\ Up(t, n) \in {root} \cup U
  BY <1>2, UnderIsClosed
<1>4. \A n \in U : climb(n) # t.fault
  <2> DEFINE ch == t.children
             S == ToSet(ch[root])
             T == {n \in U : climb(n) # t.fault}
  <2>1. S \in SUBSET DOMAIN ch /\ ch \in [DOMAIN ch -> Seq(DOMAIN ch)] /\ N = DOMAIN ch
    BY TreeIsTyped, ChildrenAreNodes
  <2>2. S \subseteq U /\ Closed(ch, U) /\ U \subseteq DOMAIN ch
    BY <2>1, ReachIsLeast DEF Under
  <2>3. S \subseteq T
    BY <1>1, <1>2, <2>1, <2>2, ParentIsKnown
  <2>4. Closed(ch, T)
    <3> SUFFICES ASSUME NEW x \in T, NEW y \in ToSet(ch[x])
                 PROVE  y \in T
      BY DEF Closed
    <3>1. y \in U /\ x \in U /\ climb(x) # t.fault
      BY <2>2 DEF Closed
    <3>2. Up(t, y) = x /\ y \in N /\ x # root /\ x # t.null
      <4>1. y \in N /\ x \in N /\ x # root /\ x # t.null
        BY <3>1, <1>2, <1>3
      <4> QED BY <4>1, ParentIsKnown
    <3>3. climb(y) = IF y = LastOf(t, x) THEN climb(x) ELSE y
      BY <3>2, <1>1
    <3> QED BY <3>1, <3>2, <3>3, <1>2
  <2>5. T \in SUBSET DOMAIN ch
    BY <2>2
  <2> HIDE DEF T, S, ch
  <2>6. U \subseteq T
    BY <2>1, <2>3, <2>4, <2>5, ReachIsLeast DEF Under, S, ch
  <2> QED BY <2>6 DEF T
<1>5. ASSUME NEW n \in U
      PROVE  /\ First(t, n) # t.null => f[n] = First(t, n)
             /\ First(t, n) = t.null => f[n] = skip[n]
             /\ After(t, n) # t.null => skip[n] = After(t, n)
             /\ After(t, n) = t.null => skip[n] = skip[Up(t, n)]
  <2>1. n \in N /\ n # root /\ Up(t, n) \in N
    BY <1>3
  <2>2. /\ f[n] = ListAfter(t, root, n)
        /\ skip[n] = After(t, climb(n))
        /\ Up(t, n) # root => skip[Up(t, n)] = After(t, climb(Up(t, n)))
        /\ Up(t, n) = root => skip[Up(t, n)] = t.null
    BY <2>1
  <2>3. After(t, n) = t.null <=> n = LastOf(t, Up(t, n))
    BY <2>1, <1>2, NextSibling
  <2>4. Up(t, n) # t.null
    BY <2>1, <1>2
  <2>5. climb(n) = IF Up(t, n) = root THEN n
                   ELSE IF n = LastOf(t, Up(t, n)) THEN climb(Up(t, n)) ELSE n
    BY <2>1, <2>4, <1>1
  <2>6. climb(n) # t.fault
    BY <1>4
  <2>7. ListAfter(t, root, n) =
          IF First(t, n) # t.null THEN First(t, n)
          ELSE IF After(t, n) # t.null THEN After(t, n) ELSE After(t, climb(n))
    BY <2>6 DEF ListAfter
  <2> HIDE DEF f, skip, climb
  <2> QED BY <2>2, <2>3, <2>5, <2>7
<1>6. Skips(t, root, f, skip)
  <2> HIDE DEF f, skip
  <2> QED BY <1>5 DEF Skips
<1>7. skip[root] = t.null
  OBVIOUS
<1>8. ListPath(t, root) = From(t, First(t, root), f)
  BY DEF ListPath
<1> HIDE DEF f, skip
<1> QED BY <1>6, <1>7, <1>8, WalkFromFirst

(* A collection meets its root and what is below it, if the root has       *)
(* children or is the last of its own parent's.                            *)
LEMMA CollectionPathIsAtOrBelow ==
  ASSUME NEW t, IsTree(t), NEW root \in Nodes(t),
         t.children[root] # <<>> \/ After(t, root) = t.null
  PROVE  CollectionPath(t, root) = AtOrBelow(t, root)
<1> DEFINE N == Nodes(t)
           U == Under(t.children, root)
           f == [n \in N |-> CollectionAfter(t, root, n)]
           climb(n) == CollectionClimb(t, root, n)
           skip == [n \in N |-> IF climb(n) = root THEN t.null ELSE After(t, climb(n))]
<1>1. \A n \in N : climb(n) = IF n = root THEN n ELSE IF Up(t, n) = t.null THEN t.fault
                              ELSE IF n = LastOf(t, Up(t, n)) THEN climb(Up(t, n)) ELSE n
  BY CollectionClimbIsKnown
<1>2. root \notin U /\ t.null \notin N /\ t.fault \notin N
  BY TreeIsTyped DEF IsFamily
<1>3. \A n \in U : n \in N /\ n # root /\ Up(t, n) \in N /\ Up(t, n) \in {root} \cup U
  BY <1>2, UnderIsClosed
<1>4. \A n \in U : climb(n) # t.fault
  <2> DEFINE ch == t.children
             S == ToSet(ch[root])
             T == {n \in U : climb(n) # t.fault}
  <2>1. S \in SUBSET DOMAIN ch /\ ch \in [DOMAIN ch -> Seq(DOMAIN ch)] /\ N = DOMAIN ch
    BY TreeIsTyped, ChildrenAreNodes
  <2>2. S \subseteq U /\ Closed(ch, U) /\ U \subseteq DOMAIN ch
    BY <2>1, ReachIsLeast DEF Under
  <2>3. \A x \in {root} \cup U : x \in N /\ climb(x) # t.fault =>
          \A y \in ToSet(ch[x]) : y \in U => climb(y) # t.fault
    <3> SUFFICES ASSUME NEW x \in N, climb(x) # t.fault, NEW y \in ToSet(ch[x]), y \in U
                 PROVE  climb(y) # t.fault
      OBVIOUS
    <3>1. Up(t, y) = x /\ y \in N /\ y # root /\ x # t.null
      BY <1>2, <1>3, <2>1, ParentIsKnown
    <3>2. climb(y) = IF y = LastOf(t, x) THEN climb(x) ELSE y
      BY <3>1, <1>1
    <3> QED BY <3>1, <3>2, <1>2
  <2>4. climb(root) # t.fault
    BY <1>1, <1>2
  <2>5. S \subseteq T
    BY <2>2, <2>3, <2>4
  <2>6. Closed(ch, T)
    <3> SUFFICES ASSUME NEW x \in T, NEW y \in ToSet(ch[x])
                 PROVE  y \in T
      BY DEF Closed
    <3>1. y \in U /\ x \in U /\ x \in N /\ climb(x) # t.fault
      BY <1>3, <2>2 DEF Closed
    <3> QED BY <3>1, <2>3
  <2>7. T \in SUBSET DOMAIN ch
    BY <2>2
  <2> HIDE DEF T, S, ch
  <2>8. U \subseteq T
    BY <2>1, <2>5, <2>6, <2>7, ReachIsLeast DEF Under, S, ch
  <2> QED BY <2>8 DEF T
<1>5. ASSUME NEW n \in N, climb(n) # t.fault
      PROVE  f[n] = IF First(t, n) # t.null THEN First(t, n)
                    ELSE IF After(t, n) # t.null THEN After(t, n) ELSE skip[n]
  <2>1. f[n] = CollectionAfter(t, root, n) /\ skip[n] = IF climb(n) = root THEN t.null ELSE After(t, climb(n))
    OBVIOUS
  <2> HIDE DEF f, skip
  <2> QED BY <1>5, <2>1 DEF CollectionAfter
<1>6. ASSUME NEW n \in U
      PROVE  /\ First(t, n) # t.null => f[n] = First(t, n)
             /\ First(t, n) = t.null => f[n] = skip[n]
             /\ After(t, n) # t.null => skip[n] = After(t, n)
             /\ After(t, n) = t.null => skip[n] = skip[Up(t, n)]
  <2>1. n \in N /\ n # root /\ Up(t, n) \in N
    BY <1>3
  <2>2. /\ skip[n] = IF climb(n) = root THEN t.null ELSE After(t, climb(n))
        /\ skip[Up(t, n)] = IF climb(Up(t, n)) = root THEN t.null ELSE After(t, climb(Up(t, n)))
    BY <2>1
  <2>3. After(t, n) = t.null <=> n = LastOf(t, Up(t, n))
    BY <2>1, <1>2, NextSibling
  <2>4. Up(t, n) # t.null
    BY <2>1, <1>2
  <2>5. climb(n) = IF n = LastOf(t, Up(t, n)) THEN climb(Up(t, n)) ELSE n
    BY <2>1, <2>4, <1>1
  <2>6. f[n] = IF First(t, n) # t.null THEN First(t, n)
               ELSE IF After(t, n) # t.null THEN After(t, n) ELSE skip[n]
    BY <1>4, <1>5, <2>1
  <2> HIDE DEF f, skip, climb
  <2> QED BY <2>1, <2>2, <2>3, <2>5, <2>6
<1>7. Skips(t, root, f, skip)
  <2> HIDE DEF f, skip
  <2> QED BY <1>6 DEF Skips
<1>8. climb(root) = root /\ skip[root] = t.null
  BY <1>1
<1>9. f[root] = First(t, root)
  <2>1. First(t, root) # t.null \/ After(t, root) = t.null
    BY FirstChild
  <2>2. climb(root) # t.fault
    BY <1>2, <1>8
  <2> QED BY <1>5, <1>8, <2>1, <2>2
<1>10. CollectionPath(t, root) = From(t, root, f)
  BY DEF CollectionPath
<1> HIDE DEF f, skip
<1> QED BY <1>7, <1>8, <1>9, <1>10, WalkFromRoot

(* getElementById meets the same, if the root has children.                *)
LEMMA IdPathIsAtOrBelow ==
  ASSUME NEW t, IsTree(t), NEW root \in Nodes(t), t.children[root] # <<>>
  PROVE  IdPath(t, root) = AtOrBelow(t, root)
<1> DEFINE N == Nodes(t)
           U == Under(t.children, root)
           f == [n \in N |-> IdAfter(t, root, n)]
           climb(n) == IdClimb(t, root, n)
           skip == [n \in N |-> IF n = root THEN t.null ELSE climb(n)]
<1>1. \A n \in N : climb(n) = IF After(t, n) # t.null THEN After(t, n)
                              ELSE IF Up(t, n) = root THEN t.null ELSE climb(Up(t, n))
  BY IdClimbIsKnown
<1>2. root \notin U /\ t.null \notin N
  BY TreeIsTyped DEF IsFamily
<1>3. \A n \in U : n \in N /\ n # root /\ Up(t, n) \in N
  BY <1>2, UnderIsClosed
<1>4. ASSUME NEW n \in U
      PROVE  /\ First(t, n) # t.null => f[n] = First(t, n)
             /\ First(t, n) = t.null => f[n] = skip[n]
             /\ After(t, n) # t.null => skip[n] = After(t, n)
             /\ After(t, n) = t.null => skip[n] = skip[Up(t, n)]
  <2>1. n \in N /\ n # root /\ Up(t, n) \in N
    BY <1>3
  <2>2. /\ f[n] = IdAfter(t, root, n)
        /\ skip[n] = climb(n)
        /\ skip[Up(t, n)] = IF Up(t, n) = root THEN t.null ELSE climb(Up(t, n))
    BY <2>1
  <2>3. IdAfter(t, root, n) = IF First(t, n) # t.null THEN First(t, n) ELSE climb(n)
    BY DEF IdAfter
  <2>4. climb(n) = IF After(t, n) # t.null THEN After(t, n)
                   ELSE IF Up(t, n) = root THEN t.null ELSE climb(Up(t, n))
    BY <2>1, <1>1
  <2> HIDE DEF f, skip, climb
  <2> QED BY <2>2, <2>3, <2>4
<1>5. Skips(t, root, f, skip)
  <2> HIDE DEF f, skip
  <2> QED BY <1>4 DEF Skips
<1>6. skip[root] = t.null
  OBVIOUS
<1>7. f[root] = First(t, root)
  BY FirstChild DEF IdAfter
<1>8. IdPath(t, root) = From(t, root, f)
  BY DEF IdPath
<1> HIDE DEF f, skip
<1> QED BY <1>5, <1>6, <1>7, <1>8, WalkFromRoot

(* The members of a set along a path.                                      *)
HitsAlong(path, M, hits) ==
  \A i \in 0 .. Len(path) :
    hits[i] = IF i = 0 THEN <<>>
              ELSE IF path[i] \in M THEN Append(hits[i - 1], path[i]) ELSE hits[i - 1]

LEMMA HitsExist ==
  ASSUME NEW S, NEW path \in Seq(S), NEW M
  PROVE  \E hits \in [0 .. Len(path) -> Seq(S)] :
           HitsAlong(path, M, hits) /\ Hits(path, M) = hits[Len(path)]
<1> DEFINE D == 0 .. Len(path)
           V == Seq(S)
           rank == [i \in D |-> i]
           bound == Len(path) + 1
           H == [i \in D |-> [g \in [D -> V] |->
                  IF i = 0 THEN <<>>
                  ELSE IF path[i] \in M THEN Append(g[i - 1], path[i]) ELSE g[i - 1]]]
           Is(g) == g = [i \in D |-> IF i = 0 THEN <<>>
                           ELSE IF path[i] \in M THEN Append(g[i - 1], path[i]) ELSE g[i - 1]]
           hits == CHOOSE g : Is(g)
<1>1. Len(path) \in Nat /\ \A i \in 1 .. Len(path) : path[i] \in S
  BY LenProperties, ElementOfSeq
<1>2. rank \in [D -> Nat] /\ bound \in Nat /\ (\A i \in D : rank[i] < bound)
  BY <1>1
<1>3. \A i \in D : i # 0 => i - 1 \in D /\ rank[i - 1] < rank[i] /\ path[i] \in S
  <2> SUFFICES ASSUME NEW i \in D, i # 0
               PROVE  i - 1 \in D /\ i - 1 < i /\ i \in 1 .. Len(path)
    BY <1>1
  <2> QED BY <1>1
<1>4. V # {}
  <2>1. <<>> \in Seq(S)
    OBVIOUS
  <2> QED BY <2>1
<1>5. H \in [D -> [[D -> V] -> V]]
  <2> SUFFICES ASSUME NEW i \in D, NEW g \in [D -> V]
               PROVE  (IF i = 0 THEN <<>>
                       ELSE IF path[i] \in M THEN Append(g[i - 1], path[i]) ELSE g[i - 1]) \in V
    OBVIOUS
  <2>1. i # 0 => g[i - 1] \in Seq(S) /\ path[i] \in S
    BY <1>3
  <2>2. i # 0 => Append(g[i - 1], path[i]) \in Seq(S)
    BY <2>1, AppendProperties
  <2> QED BY <2>1, <2>2
<1>6. \A i \in D, g \in [D -> V] :
        H[i][g] = IF i = 0 THEN <<>>
                  ELSE IF path[i] \in M THEN Append(g[i - 1], path[i]) ELSE g[i - 1]
  OBVIOUS
<1> HIDE DEF D, H, rank, bound
<1>7. Grounded(D, V, rank, H)
  <2> SUFFICES ASSUME NEW i \in D, NEW f \in [D -> V], NEW g \in [D -> V],
                      \A m \in D : rank[m] < rank[i] => f[m] = g[m]
               PROVE  H[i][f] = H[i][g]
    BY DEF Grounded
  <2>1. i # 0 => f[i - 1] = g[i - 1]
    BY <1>3
  <2>2. /\ H[i][f] = IF i = 0 THEN <<>>
                     ELSE IF path[i] \in M THEN Append(f[i - 1], path[i]) ELSE f[i - 1]
        /\ H[i][g] = IF i = 0 THEN <<>>
                     ELSE IF path[i] \in M THEN Append(g[i - 1], path[i]) ELSE g[i - 1]
    <3> HIDE DEF V
    <3> QED BY <1>6
  <2> QED BY <2>1, <2>2
<1>8. \E g \in [D -> V] : Solves(g, D, H)
  <2> HIDE DEF V
  <2> QED BY <1>2, <1>4, <1>5, <1>7, RecursionExists
<1>9. \E g : Is(g)
  <2>1. PICK f \in [D -> V] : Solves(f, D, H)
    BY <1>8
  <2>2. Is(f)
    BY <2>1, <1>6 DEF Solves
  <2> HIDE DEF Is
  <2> QED BY <2>2
<1>10. Is(hits)
  <2> HIDE DEF Is
  <2> QED BY <1>9
<1>11. Hits(path, M) = hits[Len(path)]
  BY DEF Hits, D
<1> HIDE DEF hits
<1>12. /\ DOMAIN hits = D
       /\ hits = [i \in D |-> hits[i]]
       /\ \A i \in D : hits[i] = IF i = 0 THEN <<>>
                       ELSE IF path[i] \in M THEN Append(hits[i - 1], path[i]) ELSE hits[i - 1]
  BY <1>10
<1> DEFINE G == {i \in D : hits[i] \in Seq(S)}
<1>13. ASSUME NEW i \in D, \A m \in D : rank[m] < rank[i] => m \in G
       PROVE  i \in G
  <2>1. i # 0 => hits[i - 1] \in Seq(S) /\ path[i] \in S
    BY <1>3, <1>13
  <2>2. i # 0 => Append(hits[i - 1], path[i]) \in Seq(S)
    BY <2>1, AppendProperties
  <2>3. hits[i] = IF i = 0 THEN <<>>
                  ELSE IF path[i] \in M THEN Append(hits[i - 1], path[i]) ELSE hits[i - 1]
    BY <1>12
  <2>4. CASE i = 0
    <3>1. hits[i] = <<>> /\ <<>> \in Seq(S)
      BY <2>3, <2>4
    <3> QED BY <3>1
  <2>5. CASE i # 0
    <3>1. hits[i] = Append(hits[i - 1], path[i]) \/ hits[i] = hits[i - 1]
      BY <2>3, <2>5
    <3> QED BY <3>1, <2>1, <2>2, <2>5
  <2> QED BY <2>4, <2>5
<1>14. G = D
  <2>1. G \in SUBSET D
    OBVIOUS
  <2>2. rank \in [D -> Nat]
    BY <1>2
  <2> HIDE DEF G
  <2> QED BY <1>13, <2>1, <2>2, RankInduction
<1>15. hits \in [D -> Seq(S)]
  BY <1>12, <1>14
<1> QED BY <1>11, <1>12, <1>15 DEF D, HitsAlong

LEMMA HitsProperties ==
  ASSUME NEW S, NEW path \in Seq(S), NEW M
  PROVE  /\ Hits(path, M) \in Seq(S)
         /\ ToSet(Hits(path, M)) = ToSet(path) \cap M
         /\ IsInjective(path) => IsInjective(Hits(path, M))
<1>1. PICK hits \in [0 .. Len(path) -> Seq(S)] :
        HitsAlong(path, M, hits) /\ Hits(path, M) = hits[Len(path)]
  BY HitsExist
<1>2. Len(path) \in Nat /\ DOMAIN path = 1 .. Len(path) /\ \A i \in 1 .. Len(path) : path[i] \in S
  BY LenProperties, ElementOfSeq
<1> DEFINE D == 0 .. Len(path)
           Past(i) == {path[j] : j \in 1 .. i}
           Good(i) == /\ ToSet(hits[i]) = Past(i) \cap M
                      /\ IsInjective(path) => IsInjective(hits[i])
           B == {i \in D : ~ Good(i)}
<1>3. B = {}
  <2> SUFFICES ASSUME B # {}
               PROVE  FALSE
    OBVIOUS
  <2>1. PICK i \in B : \A j \in B : i <= j
    <3>1. B \in SUBSET Nat
      BY <1>2
    <3> HIDE DEF B
    <3> QED BY <3>1, MinIsLeast
  <2>2. i \in D /\ i \in Nat /\ ~ Good(i)
    BY <1>2
  <2>3. i # 0
    <3>1. ASSUME i = 0
          PROVE  Good(i)
      <4>1. hits[i] = <<>> /\ Past(i) = {}
        BY <1>1, <1>2, <3>1 DEF HitsAlong
      <4>2. ToSet(<<>>) = {} /\ IsInjective(<<>>)
        BY DEF ToSet, IsInjective
      <4> HIDE DEF Past
      <4> QED BY <4>1, <4>2
    <3> QED BY <3>1, <2>2
  <2>4. /\ i - 1 \in D /\ i - 1 \in Nat /\ i - 1 < i /\ i \in 1 .. Len(path)
        /\ 1 .. i = (1 .. i - 1) \cup {i}
        /\ \A j \in 1 .. i - 1 : j \in 1 .. Len(path) /\ j # i
    BY <1>2, <2>2, <2>3
  <2>5. i - 1 \notin B
    BY <2>1, <2>2, <2>4
  <2>6. Good(i - 1)
    BY <2>4, <2>5
  <2> DEFINE s == hits[i - 1]
             x == path[i]
  <2>7. s \in Seq(S) /\ x \in S /\ Past(i) = Past(i - 1) \cup {x}
    BY <1>1, <1>2, <2>4
  <2>8. hits[i] = IF x \in M THEN Append(s, x) ELSE s
    BY <1>1, <2>2, <2>3 DEF HitsAlong
  <2>9. ToSet(s) = Past(i - 1) \cap M /\ (IsInjective(path) => IsInjective(s))
    BY <2>6
  <2>10. IsInjective(path) => x \notin Past(i - 1)
    BY <1>2, <2>4 DEF IsInjective
  <2> HIDE DEF s, x, Past
  <2>11. ToSet(Append(s, x)) = ToSet(s) \cup {x}
         /\ (IsInjective(s) /\ x \notin ToSet(s) => IsInjective(Append(s, x)))
    <3>1. <<x>> \in Seq(S) /\ ToSet(<<x>>) = {x} /\ IsInjective(<<x>>)
      <4>1. <<x>> \in Seq(S) /\ DOMAIN <<x>> = {1} /\ <<x>>[1] = x
        BY <2>7
      <4> QED BY <4>1 DEF ToSet, IsInjective
    <3>2. Append(s, x) = s \o <<x>>
      BY <2>7
    <3>3. /\ ToSet(s \o <<x>>) = ToSet(s) \cup ToSet(<<x>>)
          /\ IsInjective(s) /\ IsInjective(<<x>>) /\ ToSet(s) \cap ToSet(<<x>>) = {}
               => IsInjective(s \o <<x>>)
      BY <2>7, <3>1, ConcatElements
    <3> QED BY <3>1, <3>2, <3>3
  <2>12. Good(i)
    BY <2>7, <2>8, <2>9, <2>10, <2>11
  <2> QED BY <2>2, <2>12
<1>4. Len(path) \in D
  BY <1>2
<1>5. Good(Len(path))
  BY <1>3, <1>4
<1>6. Past(Len(path)) = ToSet(path)
  BY <1>2 DEF ToSet
<1>7. Hits(path, M) \in Seq(S)
  BY <1>1, <1>4
<1> QED BY <1>1, <1>5, <1>6, <1>7

(* Sets with the same members on a path are the same to it.                *)
LEMMA HitsAgree ==
  ASSUME NEW S, NEW path \in Seq(S), NEW M, NEW N, ToSet(path) \cap M = ToSet(path) \cap N
  PROVE  Hits(path, M) = Hits(path, N)
<1>1. PICK m \in [0 .. Len(path) -> Seq(S)] : HitsAlong(path, M, m) /\ Hits(path, M) = m[Len(path)]
  BY HitsExist
<1>2. PICK n \in [0 .. Len(path) -> Seq(S)] : HitsAlong(path, N, n) /\ Hits(path, N) = n[Len(path)]
  BY HitsExist
<1>3. Len(path) \in Nat /\ \A i \in 1 .. Len(path) : path[i] \in M <=> path[i] \in N
  BY ToSetOfSeq
<1> DEFINE D == 0 .. Len(path)
           B == {i \in D : m[i] # n[i]}
<1>4. B = {}
  <2> SUFFICES ASSUME B # {}
               PROVE  FALSE
    OBVIOUS
  <2>1. B \in SUBSET Nat
    BY <1>3
  <2>2. Min(B) \in B /\ \A i \in B : Min(B) <= i
    <3> HIDE DEF B
    <3> QED BY <2>1, MinIsLeast
  <2> DEFINE b == Min(B)
  <2>3. b \in D /\ m[b] # n[b]
    BY <2>2
  <2>4. \A i \in D : i \notin B => m[i] = n[i]
    OBVIOUS
  <2>5. \A i \in D : ~ (b <= i) => i \notin B
    BY <2>2
  <2> HIDE DEF b, B
  <2>6. CASE b = 0
    BY <2>6, <2>3, <1>1, <1>2 DEF HitsAlong
  <2>7. CASE b # 0
    <3>1. b - 1 \in D /\ ~ (b <= b - 1) /\ b \in 1 .. Len(path)
      BY <2>3, <2>7, <1>3
    <3>2. m[b - 1] = n[b - 1]
      BY <3>1, <2>4, <2>5
    <3>3. m[b] = IF path[b] \in M THEN Append(m[b - 1], path[b]) ELSE m[b - 1]
      BY <1>1, <2>3, <2>7 DEF HitsAlong
    <3>4. n[b] = IF path[b] \in N THEN Append(n[b - 1], path[b]) ELSE n[b - 1]
      BY <1>2, <2>3, <2>7 DEF HitsAlong
    <3> QED BY <3>1, <3>2, <3>3, <3>4, <2>3, <1>3
  <2> QED BY <2>6, <2>7
<1>5. Len(path) \in D
  BY <1>3
<1>6. m[Len(path)] = n[Len(path)]
  BY <1>4, <1>5
<1> QED BY <1>1, <1>2, <1>6

-----------------------------------------------------------------------------
(* What a change of the children leaves a family.                          *)

LEMMA EmptyFamily ==
  ASSUME NEW N, IsFiniteSet(N)
  PROVE  IsFamily([n \in N |-> <<>>])
<1> DEFINE ch == [n \in N |-> <<>>]
<1>1. DOMAIN ch = N /\ ch \in [DOMAIN ch -> Seq(DOMAIN ch)] /\ \A n \in N : ch[n] = <<>>
  OBVIOUS
<1>2. ToSet(<<>>) = {} /\ IsInjective(<<>>)
  BY DEF ToSet, IsInjective
<1> HIDE DEF ch
<1>3. ASSUME NEW n \in N
      PROVE  Under(ch, n) = {}
  <2>1. Closed(ch, {}) /\ ToSet(ch[n]) = {}
    BY <1>1, <1>2 DEF Closed
  <2> QED BY <2>1, <1>1, ReachIsLeast DEF Under
<1>4. IsFamily(ch)
  BY <1>1, <1>2, <1>3 DEF IsFamily
<1> QED BY <1>4 DEF ch

(* Taking children away; and giving p the child c, which is not above it   *)
(* and no child of another any more.                                       *)
LEMMA GrownFamily ==
  ASSUME NEW ch, IsFamily(ch), NEW new \in [DOMAIN ch -> Seq(DOMAIN ch)],
         NEW p \in DOMAIN ch, NEW c \in DOMAIN ch, p \notin Reach(ch, {c}),
         \A q \in DOMAIN ch : IsInjective(new[q]),
         \A q \in DOMAIN ch : q # p => ToSet(new[q]) \subseteq ToSet(ch[q]) \ {c},
         ToSet(new[p]) \subseteq ToSet(ch[p]) \cup {c}
  PROVE  IsFamily(new)
<1> DEFINE N == DOMAIN ch
           R == Reach(ch, {c})
<1>1. DOMAIN new = N /\ IsFiniteSet(N) /\ ch \in [N -> Seq(N)] /\ new \in [N -> Seq(N)]
  BY DEF IsFamily
<1>2. \A a, b \in N : ToSet(new[a]) \cap ToSet(new[b]) # {} => a = b
  <2> SUFFICES ASSUME NEW a \in N, NEW b \in N, NEW x, x \in ToSet(new[a]), x \in ToSet(new[b])
               PROVE  a = b
    OBVIOUS
  <2>1. CASE x = c
    BY <2>1
  <2>2. CASE x # c
    <3>1. x \in ToSet(ch[a]) /\ x \in ToSet(ch[b])
      BY <2>2
    <3> QED BY <3>1 DEF IsFamily
  <2> QED BY <2>1, <2>2
<1>3. /\ c \in R /\ R \subseteq N /\ Closed(ch, R)
  <2>1. {c} \in SUBSET N
    OBVIOUS
  <2> QED BY <2>1, <1>1, ReachIsLeast
<1>4. Closed(new, R)
  BY <1>3 DEF Closed
<1>5. ASSUME NEW n \in N
      PROVE  n \notin Under(new, n)
  <2> DEFINE U == Under(ch, n)
             S == ToSet(ch[n])
             Z == ToSet(new[n])
  <2>1. S \in SUBSET N /\ Z \in SUBSET N
    BY <1>1, ChildrenAreNodes
  <2>2. S \subseteq U /\ U \subseteq N /\ Closed(ch, U) /\ n \notin U
    BY <1>1, <2>1, ReachIsLeast DEF IsFamily, Under
  <2>3. \A T \in SUBSET N : Z \subseteq T /\ Closed(new, T) => Under(new, n) \subseteq T
    BY <1>1 DEF Under, Reach
  <2>4. CASE n \in R
    <3>1. U \subseteq R
      BY <2>4, <1>1, ReachOfMember
    <3>2. p \notin U /\ n # p
      BY <3>1, <2>4
    <3>3. Z \subseteq S
      BY <3>2
    <3>4. Closed(new, U)
      BY <2>2, <3>2 DEF Closed
    <3> HIDE DEF U, Z, S
    <3> QED BY <2>2, <2>3, <3>3, <3>4
  <2>5. CASE n \notin R
    <3>1. Z \subseteq S \cup {c}
      OBVIOUS
    <3>2. Closed(new, U \cup R)
      <4> SUFFICES ASSUME NEW x \in U \cup R, NEW y \in ToSet(new[x])
                   PROVE  y \in U \cup R
        BY DEF Closed
      <4>1. x \in N
        BY <2>2, <1>3
      <4>2. y = c \/ y \in ToSet(ch[x])
        BY <4>1
      <4> QED BY <4>2, <2>2, <1>3 DEF Closed
    <3>3. U \cup R \in SUBSET N /\ n \notin U \cup R /\ Z \subseteq U \cup R
      BY <3>1, <2>2, <2>5, <1>3
    <3> HIDE DEF U, Z, S, R
    <3> QED BY <2>3, <3>2, <3>3
  <2> QED BY <2>4, <2>5
<1> QED BY <1>1, <1>2, <1>5 DEF IsFamily

LEMMA ShrunkFamily ==
  ASSUME NEW ch, IsFamily(ch), NEW new \in [DOMAIN ch -> Seq(DOMAIN ch)],
         \A q \in DOMAIN ch : IsInjective(new[q]) /\ ToSet(new[q]) \subseteq ToSet(ch[q])
  PROVE  IsFamily(new)
<1> DEFINE N == DOMAIN ch
<1>1. DOMAIN new = N /\ IsFiniteSet(N) /\ ch \in [N -> Seq(N)] /\ new \in [N -> Seq(N)]
  BY DEF IsFamily
<1>2. \A a, b \in N : ToSet(new[a]) \cap ToSet(new[b]) # {} => a = b
  <2>1. \A a, b \in N : ToSet(new[a]) \cap ToSet(new[b]) # {} => ToSet(ch[a]) \cap ToSet(ch[b]) # {}
    OBVIOUS
  <2> QED BY <2>1 DEF IsFamily
<1>3. ASSUME NEW n \in N
      PROVE  n \notin Under(new, n)
  <2> DEFINE U == Under(ch, n)
             S == ToSet(ch[n])
             Z == ToSet(new[n])
  <2>1. S \in SUBSET N /\ Z \in SUBSET N
    BY <1>1, ChildrenAreNodes
  <2>2. S \subseteq U /\ U \subseteq N /\ Closed(ch, U) /\ n \notin U
    BY <1>1, <2>1, ReachIsLeast DEF IsFamily, Under
  <2>3. \A T \in SUBSET N : Z \subseteq T /\ Closed(new, T) => Under(new, n) \subseteq T
    BY <1>1 DEF Under, Reach
  <2>4. Z \subseteq U /\ Closed(new, U)
    BY <2>2 DEF Closed
  <2> HIDE DEF U, Z, S
  <2> QED BY <2>2, <2>3, <2>4
<1> QED BY <1>1, <1>2, <1>3 DEF IsFamily

LEMMA FamilyIsTree ==
  ASSUME NEW ch, IsFamily(ch), NEW null, NEW fault,
         null \notin DOMAIN ch, fault \notin DOMAIN ch, null # fault
  PROVE  IsTree(Tree(ch, null, fault)) /\ Tree(ch, null, fault).children = ch
         /\ Tree(ch, null, fault).null = null /\ Tree(ch, null, fault).fault = fault
BY DEF IsTree, Tree, Nodes

-----------------------------------------------------------------------------
(* Hits along a sequence that is put together.                             *)

LEMMA SeqInduction ==
  ASSUME NEW S, NEW G \in SUBSET Seq(S), <<>> \in G,
         \A s \in G, x \in S : Append(s, x) \in G
  PROVE  G = Seq(S)
<1> DEFINE D == Seq(S)
           rank == [s \in D |-> Len(s)]
<1>1. rank \in [D -> Nat] /\ G \in SUBSET D /\ \A s \in D : rank[s] = Len(s)
  OBVIOUS
<1>2. ASSUME NEW s \in D, \A r \in D : rank[r] < rank[s] => r \in G
      PROVE  s \in G
  <2>1. CASE s # <<>>
    <3>1. PICK r \in Seq(S), x \in S : s = Append(r, x)
      BY <2>1, SequenceEmptyOrAppend
    <3>2. Len(s) = Len(r) + 1 /\ Len(r) \in Nat
      BY <3>1, AppendProperties
    <3>3. rank[r] < rank[s]
      BY <1>1, <3>1, <3>2
    <3> QED BY <1>2, <3>1, <3>3
  <2> QED BY <2>1
<1>3. rank \in [D -> Nat] /\ G \in SUBSET D
  BY <1>1
<1>4. \A s \in D : (\A r \in D : rank[r] < rank[s] => r \in G) => s \in G
  BY <1>2
<1> HIDE DEF rank, D
<1>5. G = D
  BY <1>3, <1>4, RankInduction
<1> QED BY <1>5 DEF D

LEMMA HitsOfEmpty ==
  ASSUME NEW M
  PROVE  Hits(<<>>, M) = <<>>
<1>1. <<>> \in Seq({}) /\ Len(<<>>) = 0
  OBVIOUS
<1>2. PICK h \in [0 .. Len(<<>>) -> Seq({})] : HitsAlong(<<>>, M, h) /\ Hits(<<>>, M) = h[Len(<<>>)]
  BY <1>1, HitsExist
<1>3. 0 \in 0 .. Len(<<>>)
  BY <1>1
<1> QED BY <1>1, <1>2, <1>3 DEF HitsAlong

LEMMA HitsOfAppend ==
  ASSUME NEW S, NEW s \in Seq(S), NEW x \in S, NEW M
  PROVE  Hits(Append(s, x), M) = IF x \in M THEN Append(Hits(s, M), x) ELSE Hits(s, M)
<1> DEFINE t == Append(s, x)
           k == Len(s)
           D == 0 .. k
<1>1. /\ t \in Seq(S) /\ Len(t) = k + 1 /\ t[k + 1] = x /\ k \in Nat
      /\ \A i \in 1 .. k : t[i] = s[i]
  BY AppendProperties, LenProperties
<1> HIDE DEF t
<1>2. PICK m \in [0 .. Len(s) -> Seq(S)] : HitsAlong(s, M, m) /\ Hits(s, M) = m[Len(s)]
  BY HitsExist
<1>3. PICK n \in [0 .. Len(t) -> Seq(S)] : HitsAlong(t, M, n) /\ Hits(t, M) = n[Len(t)]
  BY <1>1, HitsExist
<1> HIDE DEF k
<1>4. \A i \in D : m[i] = IF i = 0 THEN <<>> ELSE IF s[i] \in M THEN Append(m[i - 1], s[i]) ELSE m[i - 1]
  BY <1>2 DEF HitsAlong, k
<1>5. \A i \in 0 .. k + 1 : n[i] = IF i = 0 THEN <<>> ELSE IF t[i] \in M THEN Append(n[i - 1], t[i]) ELSE n[i - 1]
  BY <1>1, <1>3 DEF HitsAlong
<1>6. D \subseteq 0 .. k + 1 /\ k \in D /\ k + 1 \in 0 .. k + 1 /\ k + 1 # 0 /\ (k + 1) - 1 = k
  BY <1>1
<1> DEFINE B == {i \in D : m[i] # n[i]}
<1>7. B = {}
  <2> SUFFICES ASSUME B # {}
               PROVE  FALSE
    OBVIOUS
  <2>1. B \in SUBSET Nat
    BY <1>1
  <2>2. Min(B) \in B /\ \A i \in B : Min(B) <= i
    <3> HIDE DEF B
    <3> QED BY <2>1, MinIsLeast
  <2> DEFINE b == Min(B)
  <2>3. b \in D /\ m[b] # n[b]
    BY <2>2
  <2>4. \A i \in D : i \notin B => m[i] = n[i]
    OBVIOUS
  <2>5. \A i \in D : ~ (b <= i) => i \notin B
    BY <2>2
  <2> HIDE DEF b, B
  <2>6. CASE b = 0
    BY <2>6, <2>3, <1>4, <1>5, <1>6
  <2>7. CASE b # 0
    <3>1. b - 1 \in D /\ ~ (b <= b - 1) /\ b \in 1 .. k
      BY <2>3, <2>7, <1>1
    <3>2. m[b - 1] = n[b - 1] /\ t[b] = s[b]
      BY <3>1, <2>4, <2>5, <1>1
    <3>3. m[b] = IF s[b] \in M THEN Append(m[b - 1], s[b]) ELSE m[b - 1]
      BY <1>4, <2>3, <2>7
    <3>4. n[b] = IF t[b] \in M THEN Append(n[b - 1], t[b]) ELSE n[b - 1]
      BY <1>5, <1>6, <2>3, <2>7
    <3> QED BY <3>2, <3>3, <3>4, <2>3
  <2> QED BY <2>6, <2>7
<1>8. m[k] = n[k]
  BY <1>6, <1>7
<1>9. n[k + 1] = IF x \in M THEN Append(n[k], x) ELSE n[k]
  BY <1>1, <1>5, <1>6
<1> QED BY <1>1, <1>2, <1>3, <1>8, <1>9 DEF t, k

LEMMA HitsOfOne ==
  ASSUME NEW x, NEW M
  PROVE  Hits(<<x>>, M) = IF x \in M THEN <<x>> ELSE <<>>
<1>1. <<>> \in Seq({x}) /\ x \in {x} /\ Append(<<>>, x) = <<x>>
  OBVIOUS
<1>2. Hits(Append(<<>>, x), M) = IF x \in M THEN Append(Hits(<<>>, M), x) ELSE Hits(<<>>, M)
  BY <1>1, HitsOfAppend
<1> QED BY <1>1, <1>2, HitsOfEmpty

LEMMA HitsOfConcat ==
  ASSUME NEW S, NEW a \in Seq(S), NEW b \in Seq(S), NEW M
  PROVE  Hits(a \o b, M) = Hits(a, M) \o Hits(b, M)
<1> DEFINE G == {s \in Seq(S) : Hits(a \o s, M) = Hits(a, M) \o Hits(s, M)}
<1>1. <<>> \in G
  <2>1. Hits(a, M) \in Seq(S) /\ a \o <<>> = a /\ <<>> \in Seq(S)
    BY HitsProperties, ConcatEmptySeq
  <2>2. Hits(a, M) \o <<>> = Hits(a, M)
    BY <2>1, ConcatEmptySeq
  <2> QED BY <2>1, <2>2, HitsOfEmpty
<1>2. ASSUME NEW s \in G, NEW x \in S
      PROVE  Append(s, x) \in G
  <2>1. s \in Seq(S) /\ Append(s, x) \in Seq(S) /\ a \o s \in Seq(S)
        /\ Hits(a \o s, M) = Hits(a, M) \o Hits(s, M)
    BY ConcatProperties, AppendProperties
  <2>2. a \o Append(s, x) = Append(a \o s, x)
    <3>1. Append(s, x) = s \o <<x>> /\ Append(a \o s, x) = (a \o s) \o <<x>> /\ <<x>> \in Seq(S)
      BY <2>1, AppendIsConcat
    <3> QED BY <2>1, <3>1, ConcatAssociative
  <2>3. Hits(Append(a \o s, x), M) = IF x \in M THEN Append(Hits(a \o s, M), x) ELSE Hits(a \o s, M)
    <3> DEFINE as == a \o s
    <3>1. as \in Seq(S)
      BY <2>1
    <3> HIDE DEF as
    <3>2. Hits(Append(as, x), M) = IF x \in M THEN Append(Hits(as, M), x) ELSE Hits(as, M)
      BY <3>1, HitsOfAppend
    <3> QED BY <3>2 DEF as
  <2>4. Hits(Append(s, x), M) = IF x \in M THEN Append(Hits(s, M), x) ELSE Hits(s, M)
    BY <2>1, HitsOfAppend
  <2> DEFINE p == Hits(a, M)
             q == Hits(s, M)
  <2>5. p \in Seq(S) /\ q \in Seq(S)
    BY <2>1, HitsProperties
  <2> HIDE DEF p, q
  <2>6. p \o Append(q, x) = Append(p \o q, x)
    <3>1. /\ Append(q, x) = q \o <<x>> /\ Append(p \o q, x) = (p \o q) \o <<x>>
          /\ <<x>> \in Seq(S) /\ p \o q \in Seq(S)
      BY <2>5, AppendIsConcat, ConcatProperties
    <3> QED BY <2>5, <3>1, ConcatAssociative
  <2>7. Hits(Append(a \o s, x), M) = p \o Hits(Append(s, x), M)
    BY <2>1, <2>3, <2>4, <2>6 DEF p, q
  <2> QED BY <2>1, <2>2, <2>7 DEF p
<1>3. G \in SUBSET Seq(S)
  OBVIOUS
<1> HIDE DEF G
<1>4. G = Seq(S)
  BY <1>1, <1>2, <1>3, SeqInduction
<1> QED BY <1>4 DEF G

LEMMA HitsOfHits ==
  ASSUME NEW S, NEW path \in Seq(S), NEW M, NEW N
  PROVE  Hits(Hits(path, M), N) = Hits(path, M \cap N)
<1> DEFINE G == {s \in Seq(S) : Hits(Hits(s, M), N) = Hits(s, M \cap N)}
<1>1. <<>> \in G
  BY HitsOfEmpty
<1>2. ASSUME NEW s \in G, NEW x \in S
      PROVE  Append(s, x) \in G
  <2> DEFINE h == Hits(s, M)
  <2>1. s \in Seq(S) /\ Hits(h, N) = Hits(s, M \cap N) /\ h \in Seq(S) /\ Append(s, x) \in Seq(S)
    BY HitsProperties, AppendProperties
  <2>2. Hits(Append(s, x), M) = IF x \in M THEN Append(h, x) ELSE h
    BY <2>1, HitsOfAppend
  <2>3. Hits(Append(s, x), M \cap N) = IF x \in M \cap N THEN Append(Hits(s, M \cap N), x) ELSE Hits(s, M \cap N)
    BY <2>1, HitsOfAppend
  <2> HIDE DEF h
  <2>4. Hits(Append(h, x), N) = IF x \in N THEN Append(Hits(h, N), x) ELSE Hits(h, N)
    <3>1. h \in Seq(S)
      BY <2>1
    <3> QED BY ONLY <3>1, x \in S, HitsOfAppend
  <2>5. Hits(Hits(Append(s, x), M), N) = Hits(Append(s, x), M \cap N)
    <3>1. CASE x \in M
      <4>1. Hits(Append(s, x), M) = Append(h, x) /\ (x \in M \cap N <=> x \in N)
        BY <2>2, <3>1
      <4> QED BY <4>1, <2>1, <2>3, <2>4
    <3>2. CASE x \notin M
      <4>1. Hits(Append(s, x), M) = h /\ x \notin M \cap N
        BY <2>2, <3>2
      <4> QED BY <4>1, <2>1, <2>3
    <3> QED BY <3>1, <3>2
  <2> QED BY <2>1, <2>5
<1>3. G \in SUBSET Seq(S)
  OBVIOUS
<1> HIDE DEF G
<1>4. G = Seq(S)
  BY <1>1, <1>2, <1>3, SeqInduction
<1> QED BY <1>4 DEF G

(* All are members, or none is.                                            *)
LEMMA HitsOfAll ==
  ASSUME NEW S, NEW path \in Seq(S), NEW M
  PROVE  /\ ToSet(path) \subseteq M => Hits(path, M) = path
         /\ ToSet(path) \cap M = {} => Hits(path, M) = <<>>
<1> DEFINE G == {s \in Seq(S) : Hits(s, S) = s}
<1>1. <<>> \in G
  BY HitsOfEmpty
<1>2. ASSUME NEW s \in G, NEW x \in S
      PROVE  Append(s, x) \in G
  <2>1. s \in Seq(S) /\ Hits(s, S) = s /\ Append(s, x) \in Seq(S)
    BY AppendProperties
  <2>2. Hits(Append(s, x), S) = IF x \in S THEN Append(Hits(s, S), x) ELSE Hits(s, S)
    BY <2>1, HitsOfAppend
  <2> QED BY <2>1, <2>2
<1>3. G \in SUBSET Seq(S)
  OBVIOUS
<1> HIDE DEF G
<1>4. G = Seq(S)
  BY <1>1, <1>2, <1>3, SeqInduction
<1>5. Hits(path, S) = path /\ ToSet(path) \subseteq S
  BY <1>4, ToSetOfSeq DEF G
<1>6. ASSUME ToSet(path) \subseteq M
      PROVE  Hits(path, M) = path
  <2>1. ToSet(path) \cap M = ToSet(path) \cap S
    BY <1>5, <1>6
  <2>2. Hits(path, M) = Hits(path, S)
    BY <2>1, HitsAgree
  <2> QED BY <2>2, <1>5
<1>7. ASSUME ToSet(path) \cap M = {}
      PROVE  Hits(path, M) = <<>>
  <2> DEFINE h == Hits(path, M)
  <2>1. h \in Seq(S) /\ ToSet(h) = {}
    BY <1>7, HitsProperties
  <2> HIDE DEF h
  <2>2. h = <<>>
    BY <2>1, ToSetOfSeq
  <2> QED BY <2>2 DEF h
<1> QED BY <1>6, <1>7

(* A list is what comes before one of its elements, that element, and what *)
(* comes after.                                                            *)
LEMMA SplitAt ==
  ASSUME NEW S, NEW s \in Seq(S), NEW i \in 1 .. Len(s)
  PROVE  /\ SubSeq(s, 1, i - 1) \in Seq(S) /\ SubSeq(s, i + 1, Len(s)) \in Seq(S) /\ s[i] \in S
         /\ s = SubSeq(s, 1, i - 1) \o (<<s[i]>> \o SubSeq(s, i + 1, Len(s)))
         /\ Len(SubSeq(s, 1, i - 1)) = i - 1
         /\ \A x : x \in ToSet(SubSeq(s, 1, i - 1)) <=> \E j \in 1 .. i - 1 : s[j] = x
<1>1. Len(s) \in Nat /\ i \in Nat /\ 1 <= i /\ i <= Len(s) /\ \A j \in 1 .. Len(s) : s[j] \in S
  BY LenProperties, ElementOfSeq
<1> DEFINE n == Len(s)
           a == SubSeq(s, 1, i - 1)
           b == SubSeq(s, i + 1, n)
           c == SubSeq(s, i, n)
<1>2. /\ 1 \in Int /\ i - 1 \in Int /\ i + 1 \in Int /\ n \in Int /\ i \in Int
      /\ (\A j \in 1 .. i - 1 : s[j] \in S) /\ (\A j \in i + 1 .. n : s[j] \in S)
      /\ (\A j \in i .. n : s[j] \in S)
  BY <1>1
<1>3. a \in Seq(S) /\ (Len(a) = IF 1 <= i - 1 THEN (i - 1) - 1 + 1 ELSE 0)
      /\ \A j \in 1 .. (i - 1) - 1 + 1 : a[j] = s[1 + j - 1]
  BY <1>2, SubSeqProperties
<1>4. b \in Seq(S)
  BY <1>2, SubSeqProperties
<1>5. c = <<s[i]>> \o b
  <2>1. i \in 1 .. n /\ n \in i .. n
    BY <1>1
  <2> QED BY <2>1, SubSeqRecursiveFirst
<1>6. a \o c = s
  <2>1. 1 \in 1 .. n + 1 /\ i - 1 \in 1 - 1 .. n /\ n \in i - 1 .. n /\ (i - 1) + 1 = i
    BY <1>1
  <2> DEFINE k == i - 1
             l == 1
  <2>2. l \in 1 .. n + 1 /\ k \in l - 1 .. n /\ n \in k .. n /\ k + 1 = i
    BY <2>1
  <2>3. a = SubSeq(s, l, k) /\ c = SubSeq(s, k + 1, n)
    BY <2>1
  <2> HIDE DEF k, l, a, c
  <2>4. SubSeq(s, l, k) \o SubSeq(s, k + 1, n) = SubSeq(s, l, n)
    BY <2>2, ConcatAdjacentSubSeq
  <2>5. SubSeq(s, 1, n) = s
    BY SubSeqFull
  <2> QED BY <2>3, <2>4, <2>5 DEF l
<1>7. Len(a) = i - 1 /\ \A j \in 1 .. i - 1 : a[j] = s[j]
  BY <1>1, <1>3
<1> HIDE DEF a, b, c, n
<1>8. \A x : x \in ToSet(a) <=> \E j \in 1 .. i - 1 : s[j] = x
  BY <1>3, <1>7, ToSetOfSeq
<1> QED BY <1>1, <1>3, <1>4, <1>5, <1>6, <1>7, <1>8 DEF a, b, n

(* The parts of a sequence before and after its i-th element.              *)
Preceding(s, i) == SubSeq(s, 1, i - 1)
Succeeding(s, i) == SubSeq(s, i + 1, Len(s))

LEMMA PartsOfSeq ==
  ASSUME NEW S, NEW s \in Seq(S), NEW i \in 1 .. Len(s)
  PROVE  /\ Preceding(s, i) \in Seq(S) /\ Succeeding(s, i) \in Seq(S) /\ s[i] \in S
         /\ s = Preceding(s, i) \o (<<s[i]>> \o Succeeding(s, i))
         /\ Len(Preceding(s, i)) = i - 1
         /\ \A x : x \in ToSet(Preceding(s, i)) <=> \E j \in 1 .. i - 1 : s[j] = x
BY SplitAt DEF Preceding, Succeeding

(* The element between two parts.                                          *)
LEMMA MiddleOfConcat ==
  ASSUME NEW S, NEW p \in Seq(S), NEW x \in S, NEW q \in Seq(S)
  PROVE  /\ p \o (<<x>> \o q) \in Seq(S)
         /\ Len(p) + 1 \in 1 .. Len(p \o (<<x>> \o q))
         /\ (p \o (<<x>> \o q))[Len(p) + 1] = x
         /\ Len(p) \in Nat
<1> DEFINE r == <<x>> \o q
<1>1. r \in Seq(S) /\ Len(r) \in Nat \ {0} /\ r[1] = x
  <2> DEFINE ox == <<x>>
  <2>1. ox \in Seq(S) /\ Len(ox) = 1 /\ Len(q) \in Nat
    BY LenProperties
  <2>2. r[1] = x
    OBVIOUS
  <2> HIDE DEF ox
  <2>3. ox \o q \in Seq(S) /\ Len(ox \o q) = Len(ox) + Len(q)
    BY <2>1, ConcatElements
  <2>4. r = ox \o q
    BY DEF ox
  <2> HIDE DEF r
  <2> QED BY <2>1, <2>2, <2>3, <2>4
<1> HIDE DEF r
<1>2. p \o r \in Seq(S) /\ Len(p \o r) = Len(p) + Len(r) /\ Len(p) \in Nat
  BY <1>1, ConcatElements, LenProperties
<1>3. Len(p) + 1 \in 1 .. Len(p) + Len(r)
  BY <1>1, <1>2
<1>4. (p \o r)[Len(p) + 1] = r[1]
  BY <1>1
<1> QED BY <1>1, <1>2, <1>3, <1>4 DEF r

LEMMA HitsAt ==
  ASSUME NEW S, NEW s \in Seq(S), NEW i \in 1 .. Len(s), NEW M, s[i] \in M
  PROVE  /\ Hits(Preceding(s, i), M) \in Seq(S)
         /\ Hits(Succeeding(s, i), M) \in Seq(S)
         /\ Hits(s, M) = Hits(Preceding(s, i), M) \o (<<s[i]>> \o Hits(Succeeding(s, i), M))
<1> DEFINE a == Preceding(s, i)
           x == s[i]
           b == Succeeding(s, i)
           ox == <<x>>
           xb == ox \o b
<1>1. a \in Seq(S) /\ b \in Seq(S) /\ x \in S /\ s = a \o xb
  BY PartsOfSeq
<1>2. x \in M
  OBVIOUS
<1> DEFINE p == Hits(a, M)
           q == Hits(b, M)
<1> HIDE DEF a, b, x
<1>3. xb \in Seq(S) /\ ox \in Seq(S)
  BY <1>1
<1>4. Hits(xb, M) = <<x>> \o q
  <2>1. Hits(ox, M) = <<x>>
    BY <1>2, HitsOfOne
  <2> HIDE DEF ox
  <2>2. Hits(ox \o b, M) = Hits(ox, M) \o Hits(b, M)
    BY <1>1, <1>3, HitsOfConcat
  <2> QED BY <2>1, <2>2
<1> HIDE DEF xb
<1>5. Hits(s, M) = p \o (<<x>> \o q)
  <2>1. Hits(a \o xb, M) = Hits(a, M) \o Hits(xb, M)
    BY <1>1, <1>3, HitsOfConcat
  <2> QED BY <2>1, <1>1, <1>4
<1>6. p \in Seq(S) /\ q \in Seq(S)
  <2>1. p \in Seq(S)
    BY <1>1, HitsProperties
  <2>2. q \in Seq(S)
    BY <1>1, HitsProperties
  <2> QED BY <2>1, <2>2
<1> HIDE DEF p, q
<1> QED BY <1>1, <1>5, <1>6 DEF p, q, a, b, x

(* The first hit is the first element that is one.                         *)
LEMMA FirstHit ==
  ASSUME NEW S, NEW s \in Seq(S), NEW M
  PROVE  /\ Hits(s, M) = <<>> <=> \A i \in 1 .. Len(s) : s[i] \notin M
         /\ \A k \in 1 .. Len(s) : s[k] \in M /\ (\A j \in 1 .. k - 1 : s[j] \notin M) =>
              Hits(s, M)[1] = s[k]
<1>1. Hits(s, M) = <<>> <=> \A i \in 1 .. Len(s) : s[i] \notin M
  <2>1. Hits(s, M) \in Seq(S) /\ ToSet(Hits(s, M)) = ToSet(s) \cap M
    BY HitsProperties
  <2>2. Hits(s, M) = <<>> <=> ToSet(s) \cap M = {}
    BY <2>1, ToSetOfSeq
  <2>3. \A x : x \in ToSet(s) <=> \E i \in 1 .. Len(s) : s[i] = x
    BY ToSetOfSeq
  <2> QED BY <2>2, <2>3
<1>2. ASSUME NEW k \in 1 .. Len(s), s[k] \in M, \A j \in 1 .. k - 1 : s[j] \notin M
      PROVE  Hits(s, M)[1] = s[k]
  <2> DEFINE a == Preceding(s, k)
             q == Hits(Succeeding(s, k), M)
  <2>1. a \in Seq(S) /\ \A x : x \in ToSet(a) <=> \E j \in 1 .. k - 1 : s[j] = x
    BY PartsOfSeq
  <2>2. ToSet(a) \cap M = {}
    BY <2>1, <1>2
  <2>3. Hits(a, M) = <<>>
    BY <2>1, <2>2, HitsOfAll
  <2>4. Hits(s, M) = Hits(a, M) \o (<<s[k]>> \o q) /\ q \in Seq(S) /\ s[k] \in S
    <3>1. s[k] \in M
      BY <1>2
    <3>2. Hits(s, M) = Hits(Preceding(s, k), M) \o (<<s[k]>> \o Hits(Succeeding(s, k), M))
      BY ONLY <3>1, s \in Seq(S), k \in 1 .. Len(s), HitsAt
    <3>3. Hits(Succeeding(s, k), M) \in Seq(S)
      BY ONLY <3>1, s \in Seq(S), k \in 1 .. Len(s), HitsAt
    <3> QED BY <3>2, <3>3, PartsOfSeq
  <2> HIDE DEF a, q
  <2>5. Hits(s, M) = <<>> \o (<<s[k]>> \o q)
    BY <2>3, <2>4
  <2>6. (<<>> \o (<<s[k]>> \o q))[1] = s[k]
    BY <2>4
  <2> QED BY <2>5, <2>6
<1> QED BY <1>1, <1>2

(* The number of hits before one that is there once.                       *)
LEMMA HitsBefore ==
  ASSUME NEW S, NEW s \in Seq(S), IsInjective(s), NEW M, NEW k \in 1 .. Len(s),
         NEW i \in 1 .. Len(Hits(s, M)), Hits(s, M)[i] = s[k]
  PROVE  Len(Hits(Preceding(s, k), M)) = i - 1
<1> DEFINE h == Hits(s, M)
           n == Len(Hits(Preceding(s, k), M))
<1>1. h \in Seq(S) /\ ToSet(h) = ToSet(s) \cap M /\ IsInjective(h)
  BY HitsProperties
<1>2. h[i] \in ToSet(h)
  <2> HIDE DEF h
  <2>1. i \in 1 .. Len(h)
    BY DEF h
  <2> QED BY <1>1, <2>1, ToSetOfSeq
<1>3. s[k] \in M
  BY <1>1, <1>2
<1>4. n + 1 \in 1 .. Len(h) /\ h[n + 1] = s[k] /\ n \in Nat
  <2> DEFINE p == Hits(Preceding(s, k), M)
             q == Hits(Succeeding(s, k), M)
  <2>1. p \in Seq(S) /\ q \in Seq(S) /\ s[k] \in S
    BY ONLY <1>3, s \in Seq(S), k \in 1 .. Len(s), HitsAt, PartsOfSeq
  <2>2. h = p \o (<<s[k]>> \o q)
    BY ONLY <1>3, s \in Seq(S), k \in 1 .. Len(s), HitsAt DEF h, p, q
  <2> HIDE DEF p, q, h
  <2>3. /\ Len(p) + 1 \in 1 .. Len(p \o (<<s[k]>> \o q)) /\ Len(p) \in Nat
        /\ (p \o (<<s[k]>> \o q))[Len(p) + 1] = s[k]
    BY <2>1, MiddleOfConcat
  <2> QED BY <2>2, <2>3 DEF p
<1>5. i \in 1 .. Len(h) /\ h[i] = s[k]
  OBVIOUS
<1> HIDE DEF h, n
<1>6. n + 1 = i
  BY <1>1, <1>4, <1>5, ToSetOfSeq DEF IsInjective
<1>7. n = i - 1
  BY <1>4, <1>6
<1> QED BY <1>7 DEF n

-----------------------------------------------------------------------------
(* Hits along rows of a tree.                                              *)

LEMMA RowIsTyped ==
  ASSUME NEW t, IsTree(t), NEW n \in Nodes(t)
  PROVE  /\ Row(t, First(t, n)) \in Seq(Nodes(t)) /\ Row(t, After(t, n)) \in Seq(Nodes(t))
         /\ <<n>> \in Seq(Nodes(t)) /\ Row(t, n) \in Seq(Nodes(t))
         /\ Row(t, n) = <<n>> \o (Row(t, First(t, n)) \o Row(t, After(t, n)))
<1> DEFINE a == <<n>>
           b == Row(t, First(t, n))
           c == Row(t, After(t, n))
<1>1. First(t, n) \in Nodes(t) \cup {t.null} /\ After(t, n) \in Nodes(t) \cup {t.null}
  BY RestRanks
<1>2. b \in Seq(Nodes(t)) /\ c \in Seq(Nodes(t)) /\ Row(t, n) \in Seq(Nodes(t))
  BY <1>1, RowIsKnown
<1>3. Row(t, n) = a \o b \o c
  BY RowIsKnown
<1>4. a \in Seq(Nodes(t))
  OBVIOUS
<1> HIDE DEF a, b, c
<1>5. (a \o b) \o c = a \o (b \o c)
  BY <1>2, <1>4, ConcatAssociative
<1> QED BY <1>2, <1>3, <1>4, <1>5 DEF a, b, c

LEMMA HitsOfRow ==
  ASSUME NEW t, IsTree(t), NEW n \in Nodes(t), NEW M
  PROVE  Hits(Row(t, n), M)
           = Hits(<<n>>, M) \o (Hits(Row(t, First(t, n)), M) \o Hits(Row(t, After(t, n)), M))
<1> DEFINE a == <<n>>
           b == Row(t, First(t, n))
           c == Row(t, After(t, n))
           S == Nodes(t)
<1>1. a \in Seq(S) /\ b \in Seq(S) /\ c \in Seq(S) /\ Row(t, n) = a \o (b \o c)
  BY RowIsTyped
<1> HIDE DEF a, b, c, S
<1> DEFINE bc == b \o c
<1>2. bc \in Seq(S) /\ Hits(bc, M) = Hits(b, M) \o Hits(c, M)
  <2>1. bc \in Seq(S)
    BY <1>1, ConcatElements
  <2>2. Hits(b \o c, M) = Hits(b, M) \o Hits(c, M)
    BY <1>1, HitsOfConcat
  <2> QED BY <2>1, <2>2
<1> HIDE DEF bc
<1>3. Hits(a \o bc, M) = Hits(a, M) \o Hits(bc, M)
  <2>1. a \in Seq(S) /\ bc \in Seq(S)
    BY <1>1, <1>2
  <2> QED BY ONLY <2>1, HitsOfConcat
<1>4. Row(t, n) = a \o bc
  BY <1>1 DEF bc
<1> QED BY <1>2, <1>3, <1>4 DEF a, b, c

(* No child is below another.                                              *)
LEMMA ChildrenAreNotBelow ==
  ASSUME NEW t, IsTree(t), NEW p \in Nodes(t), NEW n \in ToSet(t.children[p])
  PROVE  Under(t.children, n) \cap ToSet(t.children[p]) = {}
<1> DEFINE ch == t.children
<1>1. IsFamily(ch) /\ p \in DOMAIN ch /\ ch \in [DOMAIN ch -> Seq(DOMAIN ch)]
  BY TreeIsTyped
<1> HIDE DEF ch
<1>2. ToSet(ch[p]) \in SUBSET DOMAIN ch /\ n \in ToSet(ch[p]) /\ n \in DOMAIN ch
  BY <1>1, ChildrenAreNodes DEF ch
<1>3. ASSUME NEW x \in ToSet(ch[p]), x \in Under(ch, n)
      PROVE  FALSE
  <2>1. x # n
    BY <1>1, <1>2, <1>3 DEF IsFamily
  <2>2. Reach(ch, {x}) \cap Reach(ch, {n}) = {}
    BY <1>1, <1>2, <2>1, SiblingsAreApart
  <2>3. x \in DOMAIN ch
    BY <1>2
  <2>4. x \in Reach(ch, {x}) /\ x \in Reach(ch, {n})
    BY <1>1, <1>2, <1>3, <2>3, ReachOfNode
  <2> QED BY <2>2, <2>4
<1> QED BY <1>3 DEF ch

(* The children of a node in the order of the nodes below it.              *)
LEMMA ChildrenInOrder ==
  ASSUME NEW t, IsTree(t), NEW p \in Nodes(t)
  PROVE  Hits(Below(t, p), ToSet(t.children[p])) = t.children[p]
<1> DEFINE N == Nodes(t)
           s == t.children[p]
           M == ToSet(s)
           rank == [n \in N |-> RestRank(t)[n]]
           G == {n \in N : \A k \in 1 .. Len(s) : n = s[k] => Hits(Row(t, n), M) = SubSeq(s, k, Len(s))}
<1>1. s \in Seq(N) /\ Len(s) \in Nat
  BY TreeIsTyped, LenProperties
<1>2. rank \in [N -> Nat] /\ \A n \in N : rank[n] = RestRank(t)[n]
  BY RestRanks
<1>3. ASSUME NEW n \in N, \A m \in N : rank[m] < rank[n] => m \in G
      PROVE  n \in G
  <2> SUFFICES ASSUME NEW k \in 1 .. Len(s), n = s[k]
               PROVE  Hits(Row(t, n), M) = SubSeq(s, k, Len(s))
    OBVIOUS
  <2> DEFINE later == Hits(Row(t, After(t, n)), M)
  <2>1. n \in M /\ After(t, n) = IF k = Len(s) THEN t.null ELSE s[k + 1]
    BY ChildIsKnown
  <2>2. Hits(Row(t, First(t, n)), M) = <<>>
    <3>1. ToSet(Row(t, First(t, n))) = Under(t.children, n)
      <4>1. First(t, n) \in Nodes(t) \cup {t.null}
        BY RestRanks
      <4>2. ToSet(Row(t, First(t, n))) = Rest(t, First(t, n))
        BY <4>1, RowElements
      <4> QED BY <4>2, RestIsSplit
    <3>2. ToSet(Row(t, First(t, n))) \cap M = {}
      BY <2>1, <3>1, ChildrenAreNotBelow
    <3>3. Row(t, First(t, n)) \in Seq(N)
      BY RowIsTyped
    <3> HIDE DEF M, N
    <3> QED BY <3>2, <3>3, HitsOfAll
  <2>3. Hits(<<n>>, M) = <<n>>
    <3> HIDE DEF M
    <3> QED BY <2>1, HitsOfOne
  <2>4. later = SubSeq(s, k + 1, Len(s))
    <3>1. CASE k = Len(s)
      <4>1. later = <<>>
        BY <3>1, <2>1, RowIsKnown, HitsOfEmpty
      <4>2. SubSeq(s, k + 1, Len(s)) = <<>>
        <5> HIDE DEF s
        <5> QED BY <1>1, <3>1, SubSeqEmpty
      <4> QED BY <4>1, <4>2
    <3>2. CASE k # Len(s)
      <4>1. k + 1 \in 1 .. Len(s) /\ After(t, n) = s[k + 1]
        <5> HIDE DEF s
        <5> QED BY <1>1, <2>1, <3>2
      <4>2. After(t, n) \in N
        <5> HIDE DEF s, N
        <5> QED BY <4>1, <1>1, ElementOfSeq
      <4>3. rank[After(t, n)] < rank[n]
        BY <4>2, <1>2, RestRanks
      <4>4. After(t, n) \in G
        <5> HIDE DEF G, rank, N
        <5> QED BY <4>2, <4>3, <1>3
      <4> QED BY <4>1, <4>4
    <3> QED BY <3>1, <3>2
  <2>5. Hits(Row(t, n), M) = <<n>> \o (<<>> \o later)
    <3> HIDE DEF M
    <3>1. Hits(Row(t, n), M)
            = Hits(<<n>>, M) \o (Hits(Row(t, First(t, n)), M) \o Hits(Row(t, After(t, n)), M))
      BY HitsOfRow
    <3> QED BY <3>1, <2>2, <2>3
  <2>6. later \in Seq(N)
    <3>1. Row(t, After(t, n)) \in Seq(N)
      BY RowIsTyped
    <3> HIDE DEF N, M
    <3> QED BY <3>1, HitsProperties
  <2> HIDE DEF later, M
  <2>7. Hits(Row(t, n), M) = <<n>> \o later
    BY <2>5, <2>6
  <2> HIDE DEF s, N
  <2>8. <<n>> \o later = SubSeq(s, k, Len(s))
    <3>1. k \in 1 .. Len(s) /\ Len(s) \in k .. Len(s)
      BY <1>1
    <3> QED BY <3>1, <2>4, <1>1, SubSeqRecursiveFirst
  <2> QED BY <2>7, <2>8
<1>4. G = N
  <2>1. G \in SUBSET N /\ \A n \in N : (\A m \in N : rank[m] < rank[n] => m \in G) => n \in G
    BY <1>3
  <2> HIDE DEF G, N, rank
  <2> QED BY <1>2, <2>1, RankInduction
<1>5. CASE s = <<>>
  <2>1. First(t, p) = t.null
    BY <1>5, FirstChild
  <2>2. Below(t, p) = <<>>
    BY <2>1, RowIsKnown DEF Below
  <2> QED BY <1>5, <2>2, HitsOfEmpty
<1>6. CASE s # <<>>
  <2>1. First(t, p) \in N /\ First(t, p) = s[1] /\ 1 \in 1 .. Len(s)
    BY <1>6, FirstChild
  <2>2. Hits(Row(t, First(t, p)), M) = SubSeq(s, 1, Len(s))
    BY <1>4, <2>1
  <2>3. SubSeq(s, 1, Len(s)) = s
    <3> HIDE DEF s
    <3> QED BY <1>1
  <2> QED BY <2>2, <2>3 DEF Below
<1> QED BY <1>5, <1>6

(* What is below a node ends with the row of any of its children.          *)
LEMMA BelowFromChild ==
  ASSUME NEW t, IsTree(t), NEW p \in Nodes(t)
  PROVE  \A k \in 1 .. Len(t.children[p]) :
           \E pre \in Seq(Nodes(t)) : Below(t, p) = pre \o Row(t, t.children[p][k])
<1> DEFINE N == Nodes(t)
           s == t.children[p]
           D == 1 .. Len(s)
           rank == [k \in D |-> k]
           Ends(k) == \E pre \in Seq(N) : Below(t, p) = pre \o Row(t, s[k])
           G == {k \in D : Ends(k)}
<1>1. s \in Seq(N)
  BY TreeIsTyped
<1>2. Len(s) \in Nat /\ \A k \in D : s[k] \in N
  <2> HIDE DEF s, N
  <2> QED BY <1>1, LenProperties, ElementOfSeq
<1>3. ASSUME NEW k \in D, \A m \in D : m < k => Ends(m)
      PROVE  Ends(k)
  <2>1. CASE k = 1
    <3>1. s # <<>>
      <4> HIDE DEF s
      <4> QED BY <1>1, <1>2
    <3>2. First(t, p) = s[1]
      BY <3>1 DEF First
    <3> DEFINE r == Row(t, s[k])
               none == <<>>
    <3>3. Below(t, p) = r /\ r \in Seq(N)
      <4>1. s[k] \in N
        BY <1>2
      <4> QED BY <2>1, <3>2, <4>1, RowIsTyped DEF Below
    <3>4. none \in Seq(N)
      OBVIOUS
    <3> HIDE DEF r
    <3>5. Below(t, p) = none \o r
      BY <3>3
    <3> HIDE DEF none
    <3> QED BY <3>4, <3>5 DEF r
  <2>2. CASE k # 1
    <3> DEFINE n == s[k - 1]
               a == <<n>>
               b == Row(t, First(t, n))
               c == Row(t, s[k])
    <3>1. k - 1 \in D /\ k - 1 < k /\ k - 1 # Len(s) /\ (k - 1) + 1 = k
      BY <1>2, <2>2
    <3>2. n \in N /\ After(t, n) = s[k]
      <4> DEFINE j == k - 1
      <4>1. j \in 1 .. Len(t.children[p]) /\ j # Len(t.children[p]) /\ j + 1 = k
        BY <3>1
      <4> HIDE DEF j
      <4>2. t.children[p][j] \in Nodes(t) /\ After(t, t.children[p][j]) = t.children[p][k]
        BY <4>1, ChildIsKnown
      <4> QED BY <4>2 DEF j
    <3> HIDE DEF n
    <3>3. /\ a \in Seq(N) /\ b \in Seq(N) /\ c \in Seq(N)
          /\ Row(t, n) = a \o (b \o c)
      BY <3>2, RowIsTyped
    <3>4. PICK pre \in Seq(N) : Below(t, p) = pre \o Row(t, n)
      BY <1>3, <3>1 DEF n
    <3> HIDE DEF a, b, c, N
    <3>5. pre \o (a \o (b \o c)) = (pre \o (a \o b)) \o c
      BY <3>3
    <3>6. pre \o (a \o b) \in Seq(N)
      BY <3>3, ConcatElements
    <3> QED BY <3>3, <3>4, <3>5, <3>6 DEF c
  <2> QED BY <2>1, <2>2
<1> HIDE DEF Ends
<1>4. G = D
  <2>1. rank \in [D -> Nat] /\ G \in SUBSET D /\ \A k \in D : rank[k] = k
    BY <1>2
  <2>2. \A k \in D : (\A m \in D : rank[m] < rank[k] => m \in G) => k \in G
    BY <1>3
  <2> HIDE DEF rank, D, G
  <2> QED BY <2>1, <2>2, RankInduction
<1> QED BY <1>4 DEF Ends

-----------------------------------------------------------------------------
(* u is t without the child c, which stays with all that is below it.      *)
LosesChild(t, u, c) ==
  /\ IsTree(t) /\ IsTree(u) /\ Nodes(u) = Nodes(t) /\ u.null = t.null
  /\ c \in Nodes(t)
  /\ \A n \in Nodes(t) : u.children[n] = RemoveFirst(t.children[n], c)

(* Where a step that led to c leads to then.                               *)
Beyond(t, c, m) == IF m = c THEN After(t, c) ELSE m

(* A row without c.                                                        *)
LEMMA RowLoses ==
  ASSUME NEW t, NEW u, NEW c, LosesChild(t, u, c), NEW p \in Nodes(t)
  PROVE  /\ c \notin ToSet(t.children[p]) => u.children[p] = t.children[p]
         /\ \A j \in 1 .. Len(t.children[p]) : t.children[p][j] = c =>
              /\ Len(u.children[p]) = Len(t.children[p]) - 1
              /\ \A i \in 1 .. Len(t.children[p]) - 1 :
                   u.children[p][i] = IF i < j THEN t.children[p][i] ELSE t.children[p][i + 1]
         /\ t.children[p] \in Seq(Nodes(t)) /\ IsInjective(t.children[p])
         /\ u.children[p] \in Seq(Nodes(t))
         /\ \A n : n # c => (n \in ToSet(u.children[p]) <=> n \in ToSet(t.children[p]))
<1> DEFINE s == t.children[p]
           v == u.children[p]
           N == Nodes(t)
<1>1. s \in Seq(N) /\ IsInjective(s) /\ v = RemoveFirst(s, c)
  BY TreeIsTyped DEF LosesChild, IsFamily
<1> HIDE DEF s, v, N
<1>2. c \notin ToSet(s) => v = s
  BY <1>1, RemoveFirstIsRemoveAt
<1>3. ASSUME NEW j \in 1 .. Len(s), s[j] = c
      PROVE  /\ Len(v) = Len(s) - 1
             /\ \A i \in 1 .. Len(s) - 1 : v[i] = IF i < j THEN s[i] ELSE s[i + 1]
  <2>1. v = RemoveAt(s, j)
    BY <1>1, <1>3, RemoveFirstIsRemoveAt
  <2> QED BY <2>1, <1>1, RemoveAtProperties
<1>4. v \in Seq(N) /\ ToSet(v) \subseteq ToSet(s) /\ ToSet(s) \subseteq ToSet(v) \cup {c}
  BY <1>1, RemoveFirstProperties
<1>5. \A n : n # c => (n \in ToSet(v) <=> n \in ToSet(s))
  BY <1>4
<1> QED BY <1>1, <1>2, <1>3, <1>4, <1>5 DEF s, v, N

LEMMA FirstWithout ==
  ASSUME NEW t, NEW u, NEW c, LosesChild(t, u, c), NEW n \in Nodes(t)
  PROVE  First(u, n) = Beyond(t, c, First(t, n))
<1> DEFINE s == t.children[n]
           v == u.children[n]
           N == Nodes(t)
<1>1. /\ c \in N /\ IsTree(t) /\ t.null \notin N
      /\ First(t, n) = IF s = <<>> THEN t.null ELSE s[1]
      /\ First(u, n) = IF v = <<>> THEN t.null ELSE v[1]
  BY TreeIsTyped DEF LosesChild, First
<1>2. s \in Seq(N) /\ v \in Seq(N) /\ IsInjective(s)
  BY RowLoses
<1>3. /\ Len(s) \in Nat /\ Len(v) \in Nat
      /\ (s = <<>> <=> Len(s) = 0) /\ (v = <<>> <=> Len(v) = 0)
      /\ \A x : x \in ToSet(s) <=> \E i \in 1 .. Len(s) : s[i] = x
      /\ \A i, j \in 1 .. Len(s) : s[i] = s[j] => i = j
  <2> HIDE DEF s, v
  <2>1. /\ Len(s) \in Nat /\ (s = <<>> <=> Len(s) = 0) /\ DOMAIN s = 1 .. Len(s)
        /\ \A x : x \in ToSet(s) <=> \E i \in 1 .. Len(s) : s[i] = x
    BY <1>2, ToSetOfSeq
  <2>2. Len(v) \in Nat /\ (v = <<>> <=> Len(v) = 0)
    BY <1>2, ToSetOfSeq
  <2> QED BY <1>2, <2>1, <2>2 DEF IsInjective
<1>4. CASE c \notin ToSet(s)
  <2>1. v = s
    BY <1>4, RowLoses
  <2> HIDE DEF s, v
  <2>2. s # <<>> => 1 \in 1 .. Len(s)
    BY <1>3
  <2>3. First(t, n) # c
    BY <1>1, <1>3, <1>4, <2>2
  <2> QED BY <1>1, <2>1, <2>3 DEF Beyond
<1>5. CASE c \in ToSet(s)
  <2>1. PICK j \in 1 .. Len(s) : s[j] = c
    BY <1>3, <1>5
  <2>2. /\ Len(v) = Len(s) - 1
        /\ \A i \in 1 .. Len(s) - 1 : v[i] = IF i < j THEN s[i] ELSE s[i + 1]
    BY <2>1, RowLoses
  <2>3. After(t, c) = IF j = Len(s) THEN t.null ELSE s[j + 1]
    BY <1>1, <2>1, ChildIsKnown
  <2> HIDE DEF s, v
  <2>4. s # <<>> /\ 1 \in 1 .. Len(s)
    BY <1>3, <2>1
  <2>5. CASE j = 1
    <3>1. First(t, n) = c
      BY <1>1, <2>1, <2>4, <2>5
    <3>2. First(u, n) = After(t, c)
      BY <1>1, <1>3, <2>2, <2>3, <2>5
    <3> QED BY <3>1, <3>2 DEF Beyond
  <2>6. CASE j # 1
    <3>1. First(t, n) = s[1] /\ s[1] # c
      BY <1>1, <1>3, <2>1, <2>4, <2>6
    <3>2. 1 \in 1 .. Len(s) - 1 /\ 1 < j /\ v # <<>>
      BY <1>3, <2>1, <2>2, <2>6
    <3>3. First(u, n) = s[1]
      BY <1>1, <2>2, <3>2
    <3> QED BY <3>1, <3>3 DEF Beyond
  <2> QED BY <2>5, <2>6
<1> QED BY <1>4, <1>5

LEMMA AfterWithout ==
  ASSUME NEW t, NEW u, NEW c, LosesChild(t, u, c), NEW n \in Nodes(t), n # c
  PROVE  After(u, n) = Beyond(t, c, After(t, n))
<1> DEFINE N == Nodes(t)
           p == Up(t, n)
           s == t.children[p]
           v == u.children[p]
<1>1. IsTree(t) /\ IsTree(u) /\ c \in N /\ Nodes(u) = N /\ t.null \notin N /\ u.null = t.null
  BY TreeIsTyped DEF LosesChild
<1>2. CASE p = t.null
  <2>1. \A q \in N : n \notin ToSet(t.children[q])
    BY <1>1, <1>2, ParentIsKnown
  <2>2. \A q \in N : n \notin ToSet(u.children[q])
    BY <2>1, RowLoses
  <2>3. Up(u, n) = t.null
    BY <1>1, <2>2, ParentIsKnown
  <2>4. After(t, n) = t.null /\ After(u, n) = t.null
    BY <1>1, <1>2, <2>3, NodeIsChild
  <2> QED BY <1>1, <2>4 DEF Beyond
<1>3. CASE p # t.null
  <2>1. p \in N /\ n \in ToSet(s)
    BY <1>1, <1>3, NodeIsChild
  <2>2. PICK k \in 1 .. Len(s) : n = s[k]
    BY <1>1, <1>3, NodeIsChild
  <2>3. s \in Seq(N) /\ IsInjective(s) /\ v \in Seq(N)
    BY <2>1, RowLoses
  <2>4. After(t, n) = IF k = Len(s) THEN t.null ELSE s[k + 1]
    <3> HIDE DEF p
    <3> QED BY <1>1, <2>1, <2>2, ChildIsKnown
  <2>5. /\ Len(s) \in Nat
        /\ \A x : x \in ToSet(s) <=> \E i \in 1 .. Len(s) : s[i] = x
        /\ \A i, j \in 1 .. Len(s) : s[i] = s[j] => i = j
    <3> HIDE DEF s
    <3>1. /\ Len(s) \in Nat /\ DOMAIN s = 1 .. Len(s)
          /\ \A x : x \in ToSet(s) <=> \E i \in 1 .. Len(s) : s[i] = x
      BY <2>3, ToSetOfSeq
    <3> QED BY <2>3, <3>1 DEF IsInjective
  <2>6. ASSUME NEW j \in 1 .. Len(v), n = v[j]
        PROVE  After(u, n) = IF j = Len(v) THEN t.null ELSE v[j + 1]
    <3> HIDE DEF p
    <3> QED BY <1>1, <2>1, <2>6, ChildIsKnown
  <2>7. CASE c \notin ToSet(s)
    <3>1. v = s
      BY <2>1, <2>7, RowLoses
    <3>2. After(u, n) = After(t, n)
      BY <2>2, <2>4, <2>6, <3>1
    <3>3. After(t, n) # c
      <4> HIDE DEF s
      <4>1. k # Len(s) => k + 1 \in 1 .. Len(s)
        BY <2>5
      <4> QED BY <1>1, <2>4, <2>5, <2>7, <4>1
    <3> QED BY <3>2, <3>3 DEF Beyond
  <2>8. CASE c \in ToSet(s)
    <3>1. PICK j \in 1 .. Len(s) : s[j] = c
      BY <2>5, <2>8
    <3>2. /\ Len(v) = Len(s) - 1
          /\ \A i \in 1 .. Len(s) - 1 : v[i] = IF i < j THEN s[i] ELSE s[i + 1]
      BY <2>1, <3>1, RowLoses
    <3>3. After(t, c) = IF j = Len(s) THEN t.null ELSE s[j + 1]
      <4> HIDE DEF p
      <4> QED BY <1>1, <2>1, <3>1, ChildIsKnown
    <3> HIDE DEF s, v
    <3>4. j # k
      BY <2>2, <3>1
    <3>5. CASE k < j
      <4>1. k \in 1 .. Len(v) /\ n = v[k]
        BY <2>2, <2>5, <3>1, <3>2, <3>5
      <4>2. After(u, n) = IF k = Len(v) THEN t.null ELSE v[k + 1]
        BY <2>6, <4>1
      <4>3. CASE k + 1 = j
        <5>1. After(t, n) = c
          BY <2>2, <2>4, <2>5, <3>1, <4>3
        <5>2. After(u, n) = After(t, c)
          BY <2>5, <3>1, <3>2, <3>3, <4>2, <4>3
        <5> QED BY <5>1, <5>2 DEF Beyond
      <4>4. CASE k + 1 # j
        <5>1. k + 1 \in 1 .. Len(s) - 1 /\ k + 1 < j /\ k # Len(s) /\ k # Len(v)
          BY <2>5, <3>1, <3>2, <3>5, <4>4
        <5>2. After(u, n) = s[k + 1] /\ After(t, n) = s[k + 1]
          BY <2>4, <3>2, <4>2, <5>1
        <5>3. s[k + 1] # c
          BY <2>5, <3>1, <4>4, <5>1
        <5> QED BY <5>2, <5>3 DEF Beyond
      <4> QED BY <4>3, <4>4
    <3>6. CASE j < k
      <4>1. k - 1 \in 1 .. Len(v) /\ n = v[k - 1]
        BY <2>2, <2>5, <3>1, <3>2, <3>6
      <4>2. After(u, n) = IF k - 1 = Len(v) THEN t.null ELSE v[(k - 1) + 1]
        BY <2>6, <4>1
      <4>3. CASE k = Len(s)
        <5>1. After(u, n) = t.null /\ After(t, n) = t.null
          BY <2>4, <2>5, <3>2, <4>2, <4>3
        <5> QED BY <1>1, <5>1 DEF Beyond
      <4>4. CASE k # Len(s)
        <5>1. k \in 1 .. Len(s) - 1 /\ k + 1 \in 1 .. Len(s) /\ ~(k < j) /\ (k - 1) + 1 = k
              /\ k - 1 # Len(v) /\ k + 1 # j
          BY <2>5, <3>1, <3>2, <3>6, <4>4
        <5>2. After(u, n) = s[k + 1] /\ After(t, n) = s[k + 1]
          BY <2>4, <3>2, <4>2, <4>4, <5>1
        <5>3. s[k + 1] # c
          BY <2>5, <3>1, <5>1
        <5> QED BY <5>2, <5>3 DEF Beyond
      <4> QED BY <4>3, <4>4
    <3> QED BY <2>5, <3>1, <3>4, <3>5, <3>6
  <2> QED BY <2>7, <2>8
<1> QED BY <1>2, <1>3

(* What is under c keeps its rows.                                         *)
LEMMA RowInside ==
  ASSUME NEW t, NEW u, NEW c, LosesChild(t, u, c)
  PROVE  \A m \in Under(t.children, c) \cup {t.null} : Row(u, m) = Row(t, m)
<1> DEFINE U == Under(t.children, c) \cup {t.null}
           rank == [n \in U |-> RestRank(t)[n]]
           G == {m \in U : Row(u, m) = Row(t, m)}
<1>1. IsTree(t) /\ IsTree(u) /\ c \in Nodes(t) /\ Nodes(u) = Nodes(t) /\ u.null = t.null
  BY DEF LosesChild
<1>2. c \notin Under(t.children, c) /\ t.null \notin Nodes(t) /\ Under(t.children, c) \subseteq Nodes(t)
  <2>1. c \notin Under(t.children, c) /\ t.null \notin Nodes(t)
    BY <1>1, TreeIsTyped DEF IsFamily
  <2>2. \A n \in Under(t.children, c) : n \in Nodes(t)
    BY <1>1, UnderIsClosed
  <2> QED BY <2>1, <2>2
<1>3. rank \in [U -> Nat] /\ \A n \in U : rank[n] = RestRank(t)[n]
  <2>1. \A n \in U : RestRank(t)[n] \in Nat
    BY <1>1, <1>2, RestRanks
  <2> QED BY <2>1
<1>4. ASSUME NEW m \in U, \A n \in U : rank[n] < rank[m] => n \in G
      PROVE  Row(u, m) = Row(t, m)
  <2>1. CASE m = t.null
    BY <2>1, <1>1, RowIsKnown
  <2>2. CASE m # t.null
    <3>1. m \in Under(t.children, c) /\ m \in Nodes(t) /\ m # c
      BY <1>2, <2>2
    <3>2. First(t, m) \in U /\ After(t, m) \in U /\ First(t, m) # c /\ After(t, m) # c
      BY <1>1, <1>2, <3>1, UnderIsClosed
    <3>3. First(u, m) = First(t, m) /\ After(u, m) = After(t, m)
      BY <3>1, <3>2, FirstWithout, AfterWithout DEF Beyond
    <3>4. RestRank(t)[First(t, m)] < RestRank(t)[m] /\ RestRank(t)[After(t, m)] < RestRank(t)[m]
      BY <1>1, <3>1, RestRanks
    <3>5. rank[First(t, m)] < rank[m] /\ rank[After(t, m)] < rank[m]
      <4> HIDE DEF rank, U
      <4> QED BY <1>3, <3>2, <3>4
    <3>6. Row(u, First(t, m)) = Row(t, First(t, m)) /\ Row(u, After(t, m)) = Row(t, After(t, m))
      <4>1. First(t, m) \in G /\ After(t, m) \in G
        <5> HIDE DEF G, rank, U
        <5> QED BY <1>4, <3>2, <3>5
      <4> QED BY <4>1
    <3>7. Row(u, m) = <<m>> \o Row(u, First(u, m)) \o Row(u, After(u, m))
      BY <1>1, <3>1, RowIsKnown
    <3>8. Row(t, m) = <<m>> \o Row(t, First(t, m)) \o Row(t, After(t, m))
      BY <1>1, <3>1, RowIsKnown
    <3> QED BY <3>3, <3>6, <3>7, <3>8
  <2> QED BY <2>1, <2>2
<1>5. G = U
  <2>1. G \in SUBSET U /\ \A m \in U : (\A n \in U : rank[n] < rank[m] => n \in G) => m \in G
    BY <1>4
  <2> HIDE DEF G, U, rank
  <2> QED BY <1>3, <2>1, RankInduction
<1> QED BY <1>5

(* c keeps what is below it.                                               *)
LEMMA BelowIsKept ==
  ASSUME NEW t, NEW u, NEW c, LosesChild(t, u, c)
  PROVE  Below(u, c) = Below(t, c) /\ AtOrBelow(u, c) = AtOrBelow(t, c)
<1>1. IsTree(t) /\ c \in Nodes(t)
  BY DEF LosesChild
<1>2. First(t, c) \in Under(t.children, c) \cup {t.null}
  <2>1. CASE First(t, c) = t.null
    BY <2>1
  <2>2. CASE First(t, c) # t.null
    <3>1. First(t, c) \in Nodes(t) /\ Up(t, First(t, c)) = c
      BY <1>1, <2>2, FirstChild
    <3>2. First(t, c) \in ToSet(t.children[c])
      BY <1>1, <3>1, ParentIsKnown
    <3>3. ToSet(t.children[c]) \in SUBSET DOMAIN t.children
      BY <1>1, TreeIsTyped, ChildrenAreNodes
    <3>4. First(t, c) \in Under(t.children, c)
      BY <1>1, <3>2, <3>3, TreeIsTyped, ReachIsLeast DEF Under
    <3> QED BY <3>4
  <2> QED BY <2>1, <2>2
<1>3. First(u, c) = First(t, c)
  <2>1. First(t, c) # c
    BY <1>1, <1>2, TreeIsTyped DEF IsFamily
  <2> QED BY <1>1, <2>1, FirstWithout DEF Beyond
<1>4. Row(u, First(t, c)) = Row(t, First(t, c))
  BY <1>2, RowInside
<1> QED BY <1>3, <1>4 DEF Below, AtOrBelow

(* Only c leads to what is below it.                                       *)
LEMMA OutsideIsClosed ==
  ASSUME NEW t, IsTree(t), NEW c \in Nodes(t), NEW m \in Nodes(t), m \notin Under(t.children, c)
  PROVE  /\ After(t, m) \notin Under(t.children, c)
         /\ m # c => First(t, m) \notin Under(t.children, c)
<1> DEFINE ch == t.children
           U == Under(ch, c)
<1>1. ch \in [DOMAIN ch -> Seq(DOMAIN ch)] /\ c \in DOMAIN ch /\ DOMAIN ch = Nodes(t)
  BY TreeIsTyped
<1>2. ToSet(ch[c]) \subseteq U /\ \A q \in U : ToSet(ch[q]) \subseteq U
  <2> HIDE DEF ch
  <2>1. ToSet(ch[c]) \in SUBSET DOMAIN ch
    BY <1>1, ChildrenAreNodes
  <2>2. ToSet(ch[c]) \subseteq U /\ Closed(ch, U)
    BY <1>1, <2>1, ReachIsLeast DEF Under
  <2> QED BY <2>2 DEF Closed
<1>3. ASSUME NEW a \in U
      PROVE  a \in Nodes(t) /\ Up(t, a) \in {c} \cup U /\ Up(t, a) \in Nodes(t)
  BY <1>3, UnderIsClosed
<1>4. ASSUME After(t, m) \in U
      PROVE  FALSE
  <2> DEFINE p == Up(t, m)
  <2>1. After(t, m) \in Nodes(t) /\ t.null \notin Nodes(t)
    BY <1>3, <1>4, TreeIsTyped
  <2>2. Up(t, After(t, m)) = p
    BY <2>1, NextSibling
  <2>3. p \in {c} \cup U /\ p \in Nodes(t)
    BY <1>3, <1>4, <2>2
  <2>4. m \in ToSet(ch[p])
    BY <2>3, ParentIsKnown
  <2> HIDE DEF p
  <2>5. m \in U
    BY <1>2, <2>3, <2>4
  <2> QED BY <2>5
<1>5. ASSUME m # c, First(t, m) \in U
      PROVE  FALSE
  <2>1. First(t, m) \in Nodes(t) /\ t.null \notin Nodes(t)
    BY <1>3, <1>5, TreeIsTyped
  <2>2. Up(t, First(t, m)) = m
    BY <2>1, FirstChild
  <2> QED BY <1>3, <1>5, <2>2
<1> QED BY <1>4, <1>5

(* A row outside of c is what it was, without c and what is below it.      *)
LEMMA RowWithout ==
  ASSUME NEW t, NEW u, NEW c, LosesChild(t, u, c)
  PROVE  \A m \in (Nodes(t) \cup {t.null}) \ Under(t.children, c) :
           Row(u, Beyond(t, c, m)) = Hits(Row(t, m), Nodes(t) \ Reach(t.children, {c}))
<1> DEFINE N == Nodes(t)
           R == Reach(t.children, {c})
           U == Under(t.children, c)
           K == N \ R
           D == (N \cup {t.null}) \ U
           rank == [n \in D |-> RestRank(t)[n]]
           Good(m) == Row(u, Beyond(t, c, m)) = Hits(Row(t, m), K)
           G == {m \in D : Good(m)}
<1>1. IsTree(t) /\ IsTree(u) /\ c \in N /\ Nodes(u) = N /\ u.null = t.null
  BY DEF LosesChild
<1>2. c \notin U /\ t.null \notin N /\ R = {c} \cup U
  BY <1>1, TreeIsTyped, ReachOfNode DEF IsFamily
<1>3. /\ rank \in [D -> Nat] /\ \A n \in D : rank[n] = RestRank(t)[n]
      /\ \A n \in N : RestRank(t)[First(t, n)] < RestRank(t)[n] /\ RestRank(t)[After(t, n)] < RestRank(t)[n]
      /\ \A n \in N \cup {t.null} : RestRank(t)[n] \in Nat
  <2>1. \A n \in N \cup {t.null} : RestRank(t)[n] \in Nat
    BY <1>1, RestRanks
  <2>2. \A n \in N : RestRank(t)[First(t, n)] < RestRank(t)[n] /\ RestRank(t)[After(t, n)] < RestRank(t)[n]
    BY <1>1, RestRanks
  <2> QED BY <2>1, <2>2
<1>4. ASSUME NEW m \in D, m # t.null
      PROVE  /\ m \in N /\ After(t, m) \in D /\ (m # c => First(t, m) \in D)
             /\ Hits(Row(t, m), K)
                  = Hits(<<m>>, K) \o (Hits(Row(t, First(t, m)), K) \o Hits(Row(t, After(t, m)), K))
             /\ After(t, m) \in N \cup {t.null} /\ First(t, m) \in N \cup {t.null}
  <2>1. m \in N /\ m \notin U
    BY <1>4
  <2>2. After(t, m) \in N \cup {t.null} /\ First(t, m) \in N \cup {t.null}
    BY <1>1, <2>1, RestRanks
  <2>3. After(t, m) \notin U /\ (m # c => First(t, m) \notin U)
    BY <1>1, <2>1, OutsideIsClosed
  <2>4. Hits(Row(t, m), K)
          = Hits(<<m>>, K) \o (Hits(Row(t, First(t, m)), K) \o Hits(Row(t, After(t, m)), K))
    <3> HIDE DEF K
    <3> QED BY <1>1, <2>1, HitsOfRow
  <2> QED BY <2>1, <2>2, <2>3, <2>4
<1>5. ASSUME NEW m \in D, \A n \in D : rank[n] < rank[m] => Good(n)
      PROVE  Good(m)
  <2>1. CASE m = t.null
    <3>1. Beyond(t, c, m) = t.null /\ Row(t, m) = <<>>
      BY <1>1, <1>2, <2>1, RowIsKnown DEF Beyond
    <3>2. Row(u, t.null) = <<>>
      BY <1>1, RowIsKnown
    <3> QED BY <3>1, <3>2, HitsOfEmpty
  <2>2. CASE m = c
    <3> DEFINE a == After(t, c)
               below == Row(t, First(t, c))
               later == Hits(Row(t, a), K)
    <3>1. m # t.null /\ a \in D
      BY <1>1, <1>2, <1>4, <2>2
    <3>2. Hits(Row(t, c), K) = Hits(<<c>>, K) \o (Hits(below, K) \o later)
      BY <3>1, <1>4, <2>2
    <3>3. Hits(<<c>>, K) = <<>>
      <4>1. c \notin K
        BY <1>2
      <4> HIDE DEF K
      <4> QED BY <4>1, HitsOfOne
    <3>4. Hits(below, K) = <<>>
      <4>1. First(t, c) \in N \cup {t.null}
        BY <1>1, RestRanks
      <4>2. ToSet(below) = U
        BY <1>1, <4>1, RowElements, RestIsSplit
      <4>3. below \in Seq(N)
        BY <1>1, RowIsTyped
      <4>4. ToSet(below) \cap K = {}
        BY <1>2, <4>2
      <4> HIDE DEF K, N, below
      <4> QED BY <4>3, <4>4, HitsOfAll
    <3>5. Row(u, Beyond(t, c, a)) = later
      <4>1. rank[a] < rank[m]
        <5> HIDE DEF rank
        <5> QED BY <1>1, <1>3, <2>2, <3>1
      <4> QED BY <1>5, <3>1, <4>1
    <3>6. Beyond(t, c, a) = a /\ Beyond(t, c, m) = a
      BY <2>2 DEF Beyond
    <3>7. later \in Seq(N)
      <4>1. Row(t, a) \in Seq(N)
        BY <1>1, RowIsTyped
      <4> HIDE DEF K, N
      <4> QED BY <4>1, HitsProperties
    <3> HIDE DEF later, below, a
    <3>8. Hits(Row(t, c), K) = later
      <4>1. Hits(Row(t, c), K) = <<>> \o (<<>> \o later)
        BY <3>2, <3>3, <3>4
      <4> HIDE DEF N
      <4>2. <<>> \o (<<>> \o later) = later
        BY <3>7
      <4> QED BY <4>1, <4>2
    <3> QED BY <2>2, <3>5, <3>6, <3>8
  <2>3. CASE m # t.null /\ m # c
    <3> DEFINE f == First(t, m)
               a == After(t, m)
    <3>1. m \in N /\ f \in D /\ a \in D
      BY <1>4, <2>3
    <3>2. Hits(Row(t, m), K) = Hits(<<m>>, K) \o (Hits(Row(t, f), K) \o Hits(Row(t, a), K))
      BY <1>4, <2>3
    <3>3. m \in K
      BY <1>2, <2>3, <3>1
    <3>4. Hits(<<m>>, K) = <<m>>
      <4> HIDE DEF K
      <4> QED BY <3>3, HitsOfOne
    <3>5. rank[f] < rank[m] /\ rank[a] < rank[m]
      <4> HIDE DEF rank, D
      <4> QED BY <1>3, <3>1
    <3>6. Row(u, Beyond(t, c, f)) = Hits(Row(t, f), K) /\ Row(u, Beyond(t, c, a)) = Hits(Row(t, a), K)
      BY <1>5, <3>1, <3>5
    <3>7. First(u, m) = Beyond(t, c, f) /\ After(u, m) = Beyond(t, c, a)
      BY <2>3, <3>1, FirstWithout, AfterWithout
    <3>8. Row(u, m) = <<m>> \o (Row(u, First(u, m)) \o Row(u, After(u, m)))
      BY <1>1, <3>1, RowIsTyped
    <3>9. Beyond(t, c, m) = m
      BY <2>3 DEF Beyond
    <3> QED BY <3>2, <3>4, <3>6, <3>7, <3>8, <3>9
  <2> QED BY <2>1, <2>2, <2>3
<1> HIDE DEF Good
<1>6. G = D
  <2>1. G \in SUBSET D /\ \A m \in D : (\A n \in D : rank[n] < rank[m] => n \in G) => m \in G
    BY <1>5
  <2> HIDE DEF G, D, rank
  <2> QED BY <1>3, <2>1, RankInduction
<1> QED BY <1>6 DEF Good

(* So is what is below a node that c is not, and that is not below c.      *)
LEMMA BelowWithout ==
  ASSUME NEW t, NEW u, NEW c, LosesChild(t, u, c), NEW n \in Nodes(t), n \notin Reach(t.children, {c})
  PROVE  Below(u, n) = Hits(Below(t, n), Nodes(t) \ Reach(t.children, {c}))
<1>1. IsTree(t) /\ c \in Nodes(t)
  BY DEF LosesChild
<1>2. n # c /\ n \notin Under(t.children, c)
  BY <1>1, TreeIsTyped, ReachOfNode
<1>3. First(t, n) \in (Nodes(t) \cup {t.null}) \ Under(t.children, c)
  BY <1>1, <1>2, RestRanks, OutsideIsClosed
<1>4. First(u, n) = Beyond(t, c, First(t, n))
  BY FirstWithout
<1> QED BY <1>3, <1>4, RowWithout DEF Below

-----------------------------------------------------------------------------
(* Lists with a part put between.                                          *)

(* The place of an element that is there once.                             *)
LEMMA PlaceOfElement ==
  ASSUME NEW S, NEW row \in Seq(S), IsInjective(row), NEW k \in 1 .. Len(row), NEW x, x = row[k]
  PROVE  LET I == {i \in 1 .. Len(row) : row[i] = x} IN I # {} /\ Min(I) = k
<1> DEFINE I == {i \in 1 .. Len(row) : row[i] = x}
<1>1. DOMAIN row = 1 .. Len(row) /\ Len(row) \in Nat
  BY ToSetOfSeq
<1>2. \A i, j \in 1 .. Len(row) : row[i] = row[j] => i = j
  BY <1>1 DEF IsInjective
<1>3. I = {k}
  BY <1>2
<1>4. I \in SUBSET Nat /\ I # {}
  BY <1>1, <1>3
<1>5. Min(I) = k
  <2>1. Min(I) \in I
    <3> HIDE DEF I
    <3> QED BY <1>4, MinIsLeast
  <2> QED BY <1>3, <2>1
<1> QED BY <1>4, <1>5

(* What is once in two lists together is in one of them.                   *)
LEMMA ConcatApart ==
  ASSUME NEW S, NEW r \in Seq(S), NEW s \in Seq(S), IsInjective(r \o s)
  PROVE  ToSet(r) \cap ToSet(s) = {} /\ IsInjective(s)
<1> DEFINE t == r \o s
<1>1. /\ t \in Seq(S) /\ Len(t) = Len(r) + Len(s) /\ IsInjective(t)
      /\ \A i \in 1 .. Len(r) + Len(s) : t[i] = IF i <= Len(r) THEN r[i] ELSE s[i - Len(r)]
  BY ConcatProperties
<1>2. /\ Len(r) \in Nat /\ Len(s) \in Nat
      /\ DOMAIN s = 1 .. Len(s)
  BY LenProperties
<1> HIDE DEF t
<1>3. DOMAIN t = 1 .. Len(r) + Len(s)
  BY <1>1, LenProperties
<1>4. \A i, j \in 1 .. Len(r) + Len(s) : t[i] = t[j] => i = j
  BY <1>1, <1>3 DEF IsInjective
<1>5. \A i \in 1 .. Len(r) : i \in 1 .. Len(r) + Len(s) /\ t[i] = r[i]
  BY <1>1, <1>2
<1>6. \A i \in 1 .. Len(s) : i + Len(r) \in 1 .. Len(r) + Len(s) /\ t[i + Len(r)] = s[i]
  <2> SUFFICES ASSUME NEW i \in 1 .. Len(s)
               PROVE  i + Len(r) \in 1 .. Len(r) + Len(s) /\ t[i + Len(r)] = s[i]
    OBVIOUS
  <2>1. /\ i + Len(r) \in 1 .. Len(r) + Len(s)
        /\ ~ (i + Len(r) <= Len(r)) /\ (i + Len(r)) - Len(r) = i
    BY <1>2
  <2> QED BY <2>1, <1>1
<1>7. \A i \in 1 .. Len(r), j \in 1 .. Len(s) : r[i] # s[j]
  <2> SUFFICES ASSUME NEW i \in 1 .. Len(r), NEW j \in 1 .. Len(s), r[i] = s[j]
               PROVE  FALSE
    OBVIOUS
  <2>1. i = j + Len(r)
    BY <1>4, <1>5, <1>6
  <2> QED BY <1>2, <2>1
<1>8. \A i, j \in 1 .. Len(s) : s[i] = s[j] => i = j
  <2> SUFFICES ASSUME NEW i \in 1 .. Len(s), NEW j \in 1 .. Len(s), s[i] = s[j]
               PROVE  i = j
    OBVIOUS
  <2>1. i + Len(r) = j + Len(r)
    BY <1>4, <1>6
  <2> QED BY <1>2, <2>1
<1>9. ToSet(r) \cap ToSet(s) = {}
  BY <1>7, ToSetOfSeq
<1> QED BY <1>2, <1>8, <1>9 DEF IsInjective

(* Two lists are found again in what they make together.                   *)
LEMMA HalvesOfConcat ==
  ASSUME NEW S, NEW r \in Seq(S), NEW s \in Seq(S), s # <<>>
  PROVE  /\ SubSeq(r \o s, 1, Len(r)) = r
         /\ SubSeq(r \o s, Len(r) + 1, Len(r \o s)) = s
         /\ Len(r) + 1 \in 1 .. Len(r \o s) /\ (r \o s)[Len(r) + 1] = s[1]
<1> DEFINE t == r \o s
           n == Len(r)
<1>1. /\ t \in Seq(S) /\ Len(t) = n + Len(s)
      /\ \A i \in 1 .. n + Len(s) : t[i] = IF i <= n THEN r[i] ELSE s[i - n]
  BY ConcatProperties
<1>2. n \in Nat /\ Len(s) \in Nat /\ Len(s) # 0
  BY LenProperties, ToSetOfSeq
<1>3. SubSeq(t, 1, n) = r
  <2>1. CASE n = 0
    <3>1. r = <<>>
      BY <2>1, ToSetOfSeq
    <3>2. SubSeq(t, 1, n) = <<>>
      BY <2>1, SubSeqEmpty
    <3> QED BY <3>1, <3>2
  <2>2. CASE n # 0
    <3> DEFINE l == 1
    <3>1. l \in 1 .. Len(r) /\ n \in 1 .. Len(r)
      BY <1>2, <2>2
    <3> HIDE DEF l, n
    <3>2. SubSeq(r \o s, l, n) = SubSeq(r, l, n)
      BY <3>1, SubSeqOfConcat1
    <3>3. SubSeq(r, 1, Len(r)) = r
      BY SubSeqFull
    <3> QED BY <3>2, <3>3 DEF l, n
  <2> QED BY <2>1, <2>2
<1>4. SubSeq(t, n + 1, n + Len(s)) = s
  <2> DEFINE l == n + 1
             m == n + Len(s)
  <2>1. l \in Len(r) + 1 .. Len(r) + Len(s) /\ m \in Len(r) + 1 .. Len(r) + Len(s)
    BY <1>2
  <2>2. l - Len(r) = 1 /\ m - Len(r) = Len(s)
    BY <1>2
  <2> HIDE DEF l, m
  <2>3. SubSeq(r \o s, l, m) = SubSeq(s, l - Len(r), m - Len(r))
    BY <2>1, SubSeqOfConcat2
  <2>4. SubSeq(s, 1, Len(s)) = s
    BY SubSeqFull
  <2> QED BY <2>2, <2>3, <2>4 DEF l, m
<1>5. n + 1 \in 1 .. n + Len(s) /\ ~ (n + 1 <= n) /\ (n + 1) - n = 1
  BY <1>2
<1>6. t[n + 1] = s[1]
  <2> HIDE DEF t, n
  <2> QED BY <1>1, <1>5
<1> QED BY <1>1, <1>3, <1>4, <1>5, <1>6

Spliced(s, i, r) == SubSeq(s, 1, i - 1) \o r \o SubSeq(s, i, Len(s))

LEMMA SplicedList ==
  ASSUME NEW S, NEW s \in Seq(S), NEW r \in Seq(S), NEW i \in 1 .. Len(s) + 1
  PROVE  /\ Spliced(s, i, r) \in Seq(S)
         /\ Len(Spliced(s, i, r)) = Len(s) + Len(r)
         /\ \A j \in 1 .. i - 1 : Spliced(s, i, r)[j] = s[j]
         /\ \A j \in 1 .. Len(r) : Spliced(s, i, r)[(i - 1) + j] = r[j]
         /\ \A j \in i .. Len(s) : Spliced(s, i, r)[j + Len(r)] = s[j]
<1> DEFINE v == SubSeq(s, 1, i - 1) \o r \o SubSeq(s, i, Len(s))
<1>1. /\ v \in Seq(S)
      /\ Len(v) = Len(s) + Len(r)
      /\ \A j \in 1 .. i - 1 : v[j] = s[j]
      /\ \A j \in 1 .. Len(r) : v[(i - 1) + j] = r[j]
      /\ \A j \in i .. Len(s) : v[j + Len(r)] = s[j]
  BY ONLY SpliceProperties
<1>2. Spliced(s, i, r) = v
  BY DEF Spliced
<1> HIDE DEF v
<1> QED BY <1>1, <1>2

(* What was put into a list is taken out again.                            *)
LEMMA RemoveInserted ==
  ASSUME NEW S, NEW s \in Seq(S), IsInjective(s), NEW e \in S, e \notin ToSet(s),
         NEW i \in 1 .. Len(s) + 1
  PROVE  /\ RemoveFirst(InsertAt(s, i, e), e) = s
         /\ Len(InsertAt(s, i, e)) = Len(s) + 1 /\ InsertAt(s, i, e)[i] = e
         /\ \A j \in i .. Len(s) : InsertAt(s, i, e)[j + 1] = s[j]
<1> DEFINE one == <<e>>
           t == InsertAt(s, i, e)
           u == RemoveAt(t, i)
<1>1. /\ t \in Seq(S) /\ IsInjective(t)
  BY InsertAtProperties
<1>2. one \in Seq(S) /\ Len(one) = 1 /\ one[1] = e /\ 1 \in 1 .. Len(one)
  OBVIOUS
<1>3. Len(s) \in Nat /\ i \in Nat /\ 1 <= i
  BY LenProperties
<1>4. /\ Len(t) = Len(s) + 1 /\ t[i] = e
      /\ \A j \in 1 .. i - 1 : t[j] = s[j]
      /\ \A j \in i .. Len(s) : t[j + 1] = s[j]
  <2>1. t = Spliced(s, i, one)
    BY DEF InsertAt, Spliced
  <2> HIDE DEF one, t
  <2>2. /\ Len(t) = Len(s) + Len(one)
        /\ \A j \in 1 .. i - 1 : t[j] = s[j]
        /\ \A j \in 1 .. Len(one) : t[(i - 1) + j] = one[j]
        /\ \A j \in i .. Len(s) : t[j + Len(one)] = s[j]
    <3>1. one \in Seq(S)
      BY <1>2
    <3> HIDE DEF u
    <3>2. Len(Spliced(s, i, one)) = Len(s) + Len(one)
      BY ONLY <3>1, SplicedList
    <3>3. \A j \in 1 .. i - 1 : Spliced(s, i, one)[j] = s[j]
      BY ONLY <3>1, SplicedList
    <3>4. \A j \in 1 .. Len(one) : Spliced(s, i, one)[(i - 1) + j] = one[j]
      BY ONLY <3>1, SplicedList
    <3>5. \A j \in i .. Len(s) : Spliced(s, i, one)[j + Len(one)] = s[j]
      BY ONLY <3>1, SplicedList
    <3> QED BY <2>1, <3>2, <3>3, <3>4, <3>5
  <2>3. (i - 1) + 1 = i
    BY <1>3
  <2>4. t[i] = e
    <3> DEFINE k == 1
    <3>1. k \in 1 .. Len(one) /\ one[k] = e /\ (i - 1) + k = i
      BY <1>2, <2>3
    <3> HIDE DEF k
    <3> QED BY <2>2, <3>1
  <2> QED BY <1>2, <2>2, <2>4
<1>5. i \in 1 .. Len(t)
  BY <1>3, <1>4
<1> HIDE DEF t
<1>6. RemoveFirst(t, e) = u
  BY <1>1, <1>4, <1>5, RemoveFirstIsRemoveAt
<1>7. /\ u \in Seq(S) /\ Len(u) = Len(t) - 1
      /\ \A j \in 1 .. Len(t) - 1 : u[j] = IF j < i THEN t[j] ELSE t[j + 1]
  BY <1>1, <1>5, RemoveAtProperties
<1> HIDE DEF u
<1>8. Len(u) = Len(s) /\ \A j \in 1 .. Len(s) : u[j] = s[j]
  BY <1>3, <1>4, <1>7
<1>9. u = s
  BY <1>7, <1>8, SeqEqual
<1> QED BY <1>4, <1>6, <1>9 DEF t

(* What is met along a whole is what is met without the part m, with that  *)
(* of m put in directly before b.                                          *)
HitsBetween(S, whole, m, b, M) ==
  \E x \in Seq(S), y \in Seq(S) :
    /\ y # <<>> /\ y[1] = b
    /\ Hits(whole, M) = x \o (Hits(m, M) \o y)
    /\ Hits(whole, M \ ToSet(m)) = x \o y

LEMMA HitsGoBetween ==
  ASSUME NEW S, NEW p \in Seq(S), NEW m \in Seq(S), NEW b \in S, NEW q \in Seq(S),
         IsInjective(p \o (m \o (<<b>> \o q))), NEW M, b \in M
  PROVE  HitsBetween(S, p \o (m \o (<<b>> \o q)), m, b, M)
<1> DEFINE one == <<b>>
           tail == one \o q
           x == Hits(p, M)
           y == Hits(tail, M)
           z == Hits(q, M)
<1>1. one \in Seq(S)
  OBVIOUS
<1>2. Hits(one, M) = one
  BY HitsOfOne
<1>3. x \in Seq(S) /\ z \in Seq(S)
  BY HitsProperties
<1>4. (<<b>> \o z)[1] = b /\ <<b>> \o z # <<>>
  <2> HIDE DEF z
  <2> QED BY <1>3
<1>5. tail \in Seq(S)
  <2> HIDE DEF one
  <2> QED BY <1>1
<1>6. y = one \o z
  <2> HIDE DEF one
  <2>1. Hits(one \o q, M) = Hits(one, M) \o Hits(q, M)
    BY ONLY <1>1, HitsOfConcat
  <2> QED BY <1>2, <2>1
<1>7. IsInjective(p \o (m \o tail))
  OBVIOUS
<1> HIDE DEF tail
<1>8. y \in Seq(S)
  BY <1>5, HitsProperties
<1> DEFINE K == M \ ToSet(m)
           r == m \o tail
<1>9. r \in Seq(S) /\ ToSet(r) = ToSet(m) \cup ToSet(tail)
  BY <1>5, ConcatElements
<1>10. \A N : Hits(r, N) = Hits(m, N) \o Hits(tail, N)
  BY <1>5, HitsOfConcat
<1>11. IsInjective(r) => ToSet(m) \cap ToSet(tail) = {}
  BY <1>5, ConcatApart
<1>12. IsInjective(p \o r)
  BY <1>7
<1> HIDE DEF r
<1>13. \A N : Hits(p \o r, N) = Hits(p, N) \o Hits(r, N)
  BY <1>9, HitsOfConcat
<1>14. ToSet(p) \cap ToSet(r) = {} /\ IsInjective(r)
  BY <1>9, <1>12, ConcatApart
<1>15. /\ ToSet(p) \cap K = ToSet(p) \cap M
       /\ ToSet(tail) \cap K = ToSet(tail) \cap M
       /\ ToSet(m) \cap K = {}
  BY <1>9, <1>11, <1>14
<1> HIDE DEF K
<1>16. Hits(p, K) = Hits(p, M)
  BY <1>15, HitsAgree
<1>17. Hits(tail, K) = Hits(tail, M)
  BY <1>5, <1>15, HitsAgree
<1>18. Hits(m, K) = <<>>
  BY <1>15, HitsOfAll
<1>19. <<>> \o Hits(tail, M) = Hits(tail, M)
  BY <1>8
<1>20. Hits(p \o r, K) = x \o y
  BY <1>10, <1>13, <1>16, <1>17, <1>18, <1>19
<1>21. Hits(p \o r, M) = x \o (Hits(m, M) \o y)
  BY <1>10, <1>13
<1>22. /\ Hits(p \o (m \o tail), M) = x \o (Hits(m, M) \o y)
      /\ Hits(p \o (m \o tail), M \ ToSet(m)) = x \o y
  BY <1>20, <1>21 DEF K, r
<1>23. y # <<>> /\ y[1] = b
  <2> HIDE DEF y, z
  <2> QED BY <1>4, <1>6
<1> HIDE DEF x, y
<1>24. HitsBetween(S, p \o (m \o tail), m, b, M)
  BY <1>3, <1>8, <1>22, <1>23 DEF HitsBetween
<1> QED BY <1>24 DEF tail

(* What is below a parent, around one of its children that has a next      *)
(* sibling.                                                                *)
BelowSplits(t, p, c, b) ==
  \E pre \in Seq(Nodes(t)), post \in Seq(Nodes(t)) :
    Below(t, p) = pre \o (AtOrBelow(t, c) \o (<<b>> \o post))

LEMMA BelowAround ==
  ASSUME NEW t, IsTree(t), NEW p \in Nodes(t), NEW k \in 1 .. Len(t.children[p]) - 1,
         NEW c, c = t.children[p][k], NEW b, b = t.children[p][k + 1]
  PROVE  BelowSplits(t, p, c, b)
<1> DEFINE N == Nodes(t)
           row == t.children[p]
<1>1. row \in Seq(N) /\ Len(row) \in Nat
  <2>1. row \in Seq(N)
    BY TreeIsTyped
  <2> QED BY <2>1
<1> HIDE DEF row
<1>2. k \in 1 .. Len(row) /\ k + 1 \in 1 .. Len(row) /\ k # Len(row)
  BY <1>1 DEF row
<1>3. b \in N /\ c \in N
  BY <1>1, <1>2, ElementOfSeq DEF row
<1>4. After(t, c) = b
  BY <1>2, ChildIsKnown DEF row
<1>5. PICK pre \in Seq(N) : Below(t, p) = pre \o Row(t, c)
  BY <1>2, BelowFromChild DEF row
<1>6. /\ Below(t, c) \in Seq(N) /\ Row(t, b) \in Seq(N) /\ <<c>> \in Seq(N)
      /\ Row(t, c) = <<c>> \o (Below(t, c) \o Row(t, b))
  BY <1>3, <1>4, RowIsTyped DEF Below
<1> DEFINE post == Row(t, First(t, b)) \o Row(t, After(t, b))
           one == <<c>>
           in == Below(t, c)
<1>7. post \in Seq(N) /\ Row(t, b) = <<b>> \o post
  <2>1. /\ Row(t, First(t, b)) \in Seq(N) /\ Row(t, After(t, b)) \in Seq(N)
        /\ Row(t, b) = <<b>> \o (Row(t, First(t, b)) \o Row(t, After(t, b)))
    BY <1>3, RowIsTyped
  <2> QED BY <2>1
<1>8. AtOrBelow(t, c) = one \o in
  BY DEF AtOrBelow
<1>9. one \in Seq(N) /\ in \in Seq(N) /\ Row(t, b) \in Seq(N)
  BY <1>6
<1>10. Row(t, c) = one \o (in \o Row(t, b))
  BY <1>6
<1> HIDE DEF N, post, one, in
<1>11. one \o (in \o Row(t, b)) = (one \o in) \o Row(t, b)
  <2> DEFINE tail == Row(t, b)
  <2>1. one \in Seq(N) /\ in \in Seq(N) /\ tail \in Seq(N)
    BY <1>9
  <2> HIDE DEF tail
  <2>2. one \o (in \o tail) = (one \o in) \o tail
    BY ONLY <2>1
  <2> QED BY <2>2 DEF tail
<1>12. Below(t, p) = pre \o (AtOrBelow(t, c) \o (<<b>> \o post))
  BY <1>5, <1>7, <1>8, <1>10, <1>11
<1> QED BY <1>7, <1>12 DEF N, BelowSplits
=============================================================================
