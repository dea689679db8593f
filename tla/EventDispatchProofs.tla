------------------------- MODULE EventDispatchProofs -------------------------
(***************************************************************************)
(* Proofs about EventDispatch, for every path of nodes, every set of       *)
(* registrations and events, and every depth of dispatches; for clients    *)
(* that remove the registration being called as well as for those that do  *)
(* not.                                                                    *)
(***************************************************************************)
EXTENDS EventDispatch, SharedLemmas

-----------------------------------------------------------------------------
(* The inductive invariant, dispatch by dispatch.                          *)

Frame ==
  [event : Event, target : DOMAIN Path, targets : SUBSET DOMAIN Path,
   phase : Phases \cup Callbacks \cup {"over"}, at : DOMAIN Path,
   cursor : Entry \cup {NULL}, running : BOOLEAN, called : Seq(Entry),
   disturbed : BOOLEAN, owed : SUBSET Entry, heard : BOOLEAN]

Injective(s) == \A j, k \in DOMAIN s : s[j] = s[k] => j = k

RingsTyped ==
  /\ ring \in [Target -> Seq(Entry)]
  /\ \A n \in Target : /\ Injective(ring[n])
                       /\ \A k \in DOMAIN ring[n] : Reg[ring[n][k]].node = n

FlagsTyped ==
  /\ in_dispatch \in [Event -> BOOLEAN]
  /\ stop \in [Event -> BOOLEAN]
  /\ stop_now \in [Event -> BOOLEAN]

StackTyped ==
  /\ stack \in Seq(Frame)
  /\ Len(stack) <= MaxDepth
  /\ \A i \in DOMAIN stack : i < Len(stack) => stack[i].running

(* A dispatch that walks the list has called one of its registrations, and *)
(* before anything is removed all that it should have called up to there.  *)
(* The one called last stays listed if clients are careful.                *)
WalkSound(f, list) ==
  /\ f.cursor = NULL => f.called = <<>> /\ ~f.disturbed
  /\ f.cursor # NULL => f.phase \in Phases /\ f.heard
  /\ f.cursor # NULL /\ ~f.disturbed => f.cursor \in ToSet(list) /\ InOrder(f, list)
  /\ f.cursor # NULL /\ Careful => f.cursor \in ToSet(list)

(* Between visits, a dispatch that was stopped after it called a listener  *)
(* has only its last callback left; so has one that makes a callback after *)
(* it called a listener, whoever stops it then.                            *)
StopSound(f, stopped) ==
  /\ f.phase = "started" => ~f.heard
  /\ f.heard /\ f.cursor = NULL /\ (stopped \/ f.running) => f.phase \in {"finished", "over"}

FrameSound(f, list, stopped) ==
  /\ WalkSound(f, list)
  /\ StopSound(f, stopped)
  /\ f.phase = "over" => f.running

FramesSound ==
  \A i \in DOMAIN stack :
    FrameSound(stack[i], ring[Node(stack[i])], Stopped(stack[i].event))

IInv == RingsTyped /\ FlagsTyped /\ StackTyped /\ FramesSound

-----------------------------------------------------------------------------
(* Searching a list.                                                       *)

(* The first match of a list, or 0.                                        *)
LEMMA FirstMatchProperties ==
  ASSUME NEW f, NEW S, NEW list \in Seq(S)
  PROVE  /\ FirstMatch(f, list) \in 0 .. Len(list)
         /\ FirstMatch(f, list) > 0 =>
              /\ FirstMatch(f, list) \in DOMAIN list
              /\ Matches(f, list[FirstMatch(f, list)])
              /\ \A i \in DOMAIN list : i < FirstMatch(f, list) => ~Matches(f, list[i])
         /\ FirstMatch(f, list) = 0 => \A i \in DOMAIN list : ~Matches(f, list[i])
<1> DEFINE I == {i \in 1 .. Len(list) : Matches(f, list[i])}
<1>1. FirstMatch(f, list) = IF I # {} THEN Min(I) ELSE 0
  BY DEF FirstMatch, SelectInSeq
<1>2. Len(list) \in Nat /\ DOMAIN list = 1 .. Len(list)
  BY LenProperties
<1>3. I \in SUBSET Nat /\ I \subseteq 1 .. Len(list)
  BY <1>2
<1>4. I # {} => Min(I) \in I /\ \A y \in I : Min(I) <= y
  BY <1>3, MinIsLeast
<1>5. CASE I = {}
  BY <1>1, <1>2, <1>5
<1>6. CASE I # {}
  <2> DEFINE k == FirstMatch(f, list)
  <2>1. k \in I /\ \A y \in I : k <= y
    BY <1>1, <1>4, <1>6
  <2>2. k \in 1 .. Len(list) /\ Matches(f, list[k])
    BY <2>1
  <2> HIDE DEF k
  <2>3. ASSUME NEW i \in DOMAIN list, i < k, Matches(f, list[i])
        PROVE  FALSE
    <3>1. i \in I
      BY <2>3, <1>2
    <3> QED BY <3>1, <2>1, <2>2, <2>3, <1>2
  <2> QED BY <2>2, <2>3, <1>2 DEF k
<1> QED BY <1>5, <1>6

(* The place of an element in a list that has it once.                     *)
LEMMA PositionProperties ==
  ASSUME NEW S, NEW list \in Seq(S), Injective(list), NEW k \in DOMAIN list
  PROVE  Position(list, list[k]) = k
<1> DEFINE I == {i \in 1 .. Len(list) : list[i] = list[k]}
<1>1. Position(list, list[k]) = IF I # {} THEN Min(I) ELSE 0
  BY DEF Position, SelectInSeq
<1>2. Len(list) \in Nat /\ DOMAIN list = 1 .. Len(list)
  BY LenProperties
<1>3. I \in SUBSET Nat /\ k \in I
  BY <1>2
<1>4. Min(I) \in I
  BY <1>3, MinIsLeast
<1>5. \A i \in I : i = k
  BY <1>2 DEF Injective
<1> QED BY <1>1, <1>3, <1>4, <1>5

LEMMA Membership ==
  ASSUME NEW S, NEW list \in Seq(S), NEW r
  PROVE  r \in ToSet(list) <=> \E k \in DOMAIN list : list[k] = r
  BY DEF ToSet

LEMMA PositionOfMember ==
  ASSUME NEW S, NEW list \in Seq(S), Injective(list), NEW r \in ToSet(list)
  PROVE  Position(list, r) \in DOMAIN list /\ list[Position(list, r)] = r
<1>1. PICK k \in DOMAIN list : list[k] = r
  BY DEF ToSet
<1> QED BY <1>1, PositionProperties

(* A list after a registration at its end.                                 *)
LEMMA AppendedProperties ==
  ASSUME NEW S, NEW list \in Seq(S), Injective(list), NEW r \in S, r \notin ToSet(list)
  PROVE  /\ Appended(list, r) \in Seq(S)
         /\ Injective(Appended(list, r))
         /\ ToSet(Appended(list, r)) = ToSet(list) \cup {r}
         /\ \A x \in ToSet(list) : Position(Appended(list, r), x) = Position(list, x)
         /\ \A x \in ToSet(list) : Position(list, x) < Position(Appended(list, r), r)
<1> DEFINE t == Appended(list, r)
<1>1. /\ t \in Seq(S)
      /\ Len(t) = Len(list) + 1
      /\ \A i \in 1 .. Len(list) : t[i] = list[i]
      /\ t[Len(list) + 1] = r
  BY AppendProperties DEF Appended
<1>2. /\ Len(list) \in Nat
      /\ DOMAIN list = 1 .. Len(list)
      /\ DOMAIN t = 1 .. Len(list) + 1
  BY <1>1, LenProperties
<1> HIDE DEF t
<1>3. \A i \in DOMAIN list : list[i] # r
  BY DEF ToSet
<1>4. ASSUME NEW j \in DOMAIN t, NEW k \in DOMAIN t, t[j] = t[k]
      PROVE  j = k
  <2>1. CASE j = Len(list) + 1 \/ k = Len(list) + 1
    BY <2>1, <1>1, <1>2, <1>3, <1>4
  <2>2. CASE j # Len(list) + 1 /\ k # Len(list) + 1
    <3>1. j \in DOMAIN list /\ k \in DOMAIN list
      BY <2>2, <1>2
    <3> QED BY <3>1, <1>1, <1>2, <1>4 DEF Injective
  <2> QED BY <2>1, <2>2
<1>5. Injective(t)
  BY <1>4 DEF Injective
<1>6. \A x : x \in ToSet(t) <=> x \in ToSet(list) \/ x = r
  <2> TAKE x
  <2>1. x \in ToSet(t) <=> \E k \in 1 .. Len(list) + 1 : t[k] = x
    BY <1>1, <1>2, Membership
  <2>2. x \in ToSet(list) <=> \E k \in 1 .. Len(list) : list[k] = x
    BY <1>2, Membership
  <2>3. \A k \in 1 .. Len(list) + 1 : k \in 1 .. Len(list) \/ k = Len(list) + 1
    BY <1>2
  <2>4. 1 .. Len(list) \subseteq 1 .. Len(list) + 1 /\ Len(list) + 1 \in 1 .. Len(list) + 1
    BY <1>2
  <2> QED BY <2>1, <2>2, <2>3, <2>4, <1>1
<1>7. ASSUME NEW x \in ToSet(list)
      PROVE  Position(t, x) = Position(list, x) /\ Position(list, x) < Position(t, r)
  <2>1. PICK k \in DOMAIN list : list[k] = x
    BY DEF ToSet
  <2>2. k \in DOMAIN t /\ t[k] = x /\ k < Len(list) + 1 /\ Len(list) + 1 \in DOMAIN t
    BY <2>1, <1>1, <1>2
  <2>3. Position(t, x) = k
    BY <2>2, <1>1, <1>5, PositionProperties
  <2>4. Position(list, x) = k
    BY <2>1, PositionProperties
  <2>5. Position(t, r) = Len(list) + 1
    BY <2>2, <1>1, <1>5, PositionProperties
  <2> QED BY <2>2, <2>3, <2>4, <2>5
<1> QED BY <1>1, <1>5, <1>6, <1>7 DEF t

(* A list after a removal has the other elements, each once.               *)
LEMMA RemovedProperties ==
  ASSUME NEW S, NEW list \in Seq(S), Injective(list), NEW k \in DOMAIN list
  PROVE  /\ Removed(list, k) \in Seq(S)
         /\ Injective(Removed(list, k))
         /\ ToSet(Removed(list, k)) = ToSet(list) \ {list[k]}
<1> DEFINE a == SubSeq(list, k + 1, Len(list))
           b == SubSeq(list, 1, k - 1)
           t == a \o b
           n == Len(list)
           Old(i) == IF i <= n - k THEN k + i ELSE i - (n - k)
           New(j) == IF j > k THEN j - k ELSE n - k + j
<1>1. n \in Nat /\ DOMAIN list = 1 .. n /\ k \in 1 .. n
  BY LenProperties
<1>2. \A i \in 1 .. n : list[i] \in S
  BY ElementOfSeq, <1>1
<1> HIDE DEF n
<1>3. a \in Seq(S) /\ Len(a) = n - k /\ \A i \in 1 .. n - k : a[i] = list[k + i]
  <2>1. \A i \in k + 1 .. n : list[i] \in S
    BY <1>1, <1>2
  <2>2. /\ a \in Seq(S)
        /\ Len(a) = IF k + 1 <= n THEN n - (k + 1) + 1 ELSE 0
        /\ \A i \in 1 .. n - (k + 1) + 1 : a[i] = list[k + 1 + i - 1]
    BY <2>1, <1>1, SubSeqProperties DEF n
  <2> HIDE DEF a
  <2>3. /\ (IF k + 1 <= n THEN n - (k + 1) + 1 ELSE 0) = n - k
        /\ n - (k + 1) + 1 = n - k
    BY <1>1
  <2>4. ASSUME NEW i \in 1 .. n - k
        PROVE  a[i] = list[k + i]
    <3>1. k + 1 + i - 1 = k + i
      BY <1>1
    <3> QED BY <3>1, <2>2, <2>3
  <2> QED BY <2>2, <2>3, <2>4
<1>4. b \in Seq(S) /\ Len(b) = k - 1 /\ \A i \in 1 .. k - 1 : b[i] = list[i]
  <2>1. \A i \in 1 .. k - 1 : list[i] \in S
    BY <1>1, <1>2
  <2>2. /\ b \in Seq(S)
        /\ Len(b) = IF 1 <= k - 1 THEN k - 1 - 1 + 1 ELSE 0
        /\ \A i \in 1 .. k - 1 - 1 + 1 : b[i] = list[1 + i - 1]
    BY <2>1, <1>1, SubSeqProperties
  <2>3. k - 1 - 1 + 1 = k - 1 /\ \A i \in Int : 1 + i - 1 = i
    BY <1>1
  <2> QED BY <2>2, <2>3, <1>1
<1> HIDE DEF a, b
<1>5. /\ t \in Seq(S)
      /\ Len(t) = n - 1
      /\ DOMAIN t = 1 .. n - 1
      /\ \A i \in 1 .. n - 1 : t[i] = IF i <= n - k THEN a[i] ELSE b[i - (n - k)]
  <2>1. /\ t \in Seq(S)
        /\ Len(t) = Len(a) + Len(b)
        /\ \A i \in 1 .. Len(a) + Len(b) : t[i] = IF i <= Len(a) THEN a[i] ELSE b[i - Len(a)]
    BY <1>3, <1>4, ConcatProperties
  <2>2. Len(a) + Len(b) = n - 1
    BY <1>1, <1>3, <1>4
  <2>3. DOMAIN t = 1 .. Len(t)
    BY <2>1, LenProperties
  <2> QED BY <2>1, <2>2, <2>3, <1>3
<1> HIDE DEF t
<1>6. ASSUME NEW i \in 1 .. n - 1
      PROVE  Old(i) \in 1 .. n /\ Old(i) # k /\ t[i] = list[Old(i)]
  <2>1. CASE i <= n - k
    <3>1. Old(i) = k + i /\ i \in 1 .. n - k
      BY <2>1, <1>1
    <3>2. k + i \in 1 .. n /\ k + i # k
      BY <3>1, <1>1
    <3>3. t[i] = a[i] /\ a[i] = list[k + i]
      BY <3>1, <2>1, <1>3, <1>5
    <3> HIDE DEF Old
    <3> QED BY <3>1, <3>2, <3>3
  <2>2. CASE ~(i <= n - k)
    <3>1. i - (n - k) \in 1 .. k - 1
      BY <2>2, <1>1
    <3>2. i - (n - k) \in 1 .. n /\ i - (n - k) # k
      BY <3>1, <1>1
    <3> QED BY <3>1, <3>2, <2>2, <1>4, <1>5
  <2> QED BY <2>1, <2>2
<1>7. ASSUME NEW j \in 1 .. n, j # k
      PROVE  New(j) \in 1 .. n - 1 /\ Old(New(j)) = j
  BY <1>1, <1>7
<1>8. \A i, j \in 1 .. n - 1 : Old(i) = Old(j) => i = j
  BY <1>1
<1> HIDE DEF Old, New
<1>9. Injective(t)
  <2> SUFFICES ASSUME NEW i \in 1 .. n - 1, NEW j \in 1 .. n - 1, t[i] = t[j]
               PROVE  i = j
    BY <1>5 DEF Injective
  <2>1. list[Old(i)] = list[Old(j)] /\ Old(i) \in DOMAIN list /\ Old(j) \in DOMAIN list
    BY <1>1, <1>6
  <2> QED BY <2>1, <1>8 DEF Injective
<1>10. \A x : x \in ToSet(t) <=> x \in ToSet(list) /\ x # list[k]
  <2> TAKE x
  <2>1. x \in ToSet(t) <=> \E i \in 1 .. n - 1 : t[i] = x
    BY <1>5, Membership
  <2>2. x \in ToSet(list) <=> \E j \in 1 .. n : list[j] = x
    BY <1>1, Membership
  <2>3. ASSUME NEW i \in 1 .. n - 1, t[i] = x
        PROVE  x \in ToSet(list) /\ x # list[k]
    <3>1. Old(i) \in DOMAIN list /\ list[Old(i)] = x /\ Old(i) # k
      BY <2>3, <1>1, <1>6
    <3> QED BY <3>1, <2>2, <1>1 DEF Injective
  <2>4. ASSUME NEW j \in 1 .. n, list[j] = x, x # list[k]
        PROVE  \E i \in 1 .. n - 1 : t[i] = x
    <3>1. j # k
      BY <2>4
    <3>2. New(j) \in 1 .. n - 1 /\ Old(New(j)) = j
      BY <3>1, <1>7
    <3>3. t[New(j)] = list[Old(New(j))]
      BY <3>2, <1>6
    <3> QED BY <3>2, <3>3, <2>4
  <2> QED BY <2>1, <2>2, <2>3, <2>4
<1>11. Removed(list, k) = t
  BY DEF Removed, a, b, t, n
<1> QED BY <1>5, <1>9, <1>10, <1>11

-----------------------------------------------------------------------------
(* One dispatch.                                                           *)

LEMMA PathProperties ==
  /\ Len(Path) \in Nat
  /\ DOMAIN Path = 1 .. Len(Path)
  /\ \A i \in DOMAIN Path : Path[i] \in Target
<1>1. Path \in Seq(Target)
  BY PathAssumption
<1> QED BY <1>1, LenProperties, ElementOfSeq

(* A dispatch begins with its first callback.                              *)
LEMMA BegunProperties ==
  ASSUME NEW i \in DOMAIN Path, NEW e \in Event
  PROVE  /\ Begun(i, e) \in Frame
         /\ Begun(i, e).phase = "started"
         /\ Begun(i, e).cursor = NULL
         /\ Begun(i, e).called = <<>>
         /\ ~Begun(i, e).disturbed
         /\ ~Begun(i, e).heard
<1>1. Listening(i, Type[e]) \subseteq DOMAIN Path
  BY PathProperties DEF Listening
<1>2. <<>> \in Seq(Entry)
  BY EmptySeq
<1> QED BY <1>1, <1>2 DEF Begun, Frame, Callbacks

(* What the next station of a dispatch leaves alone.                       *)
Alike(f, g) ==
  /\ g.event = f.event
  /\ g.cursor = f.cursor
  /\ g.called = f.called
  /\ g.disturbed = f.disturbed
  /\ g.heard = f.heard
  /\ g.running = f.running

LEMMA CapturesProperties ==
  ASSUME NEW f \in Frame, NEW left \in SUBSET DOMAIN Path
  PROVE  /\ Captures(f, left) \in Frame
         /\ Alike(f, Captures(f, left))
         /\ Captures(f, left).phase \in {"capture", "target"}
<1>1. CASE left = {}
  BY <1>1 DEF Captures, Alike, Frame, Phases
<1>2. CASE left # {}
  <2>1. Max(left) \in DOMAIN Path
    BY <1>2, PathProperties, MaxIsGreatest
  <2> QED BY <1>2, <2>1 DEF Captures, Alike, Frame, Phases
<1> QED BY <1>1, <1>2

LEMMA EndedProperties ==
  ASSUME NEW f \in Frame, NEW phase \in {"end", "finished"}
  PROVE  /\ Ended(f, phase) \in Frame
         /\ Alike(f, Ended(f, phase))
         /\ Ended(f, phase).phase = phase
  BY DEF Ended, Alike, Frame, Callbacks

LEMMA BubblesProperties ==
  ASSUME NEW f \in Frame, NEW left \in SUBSET DOMAIN Path
  PROVE  /\ Bubbles(f, left) \in Frame
         /\ Alike(f, Bubbles(f, left))
         /\ Bubbles(f, left).phase \in {"bubble", "end"}
<1>1. CASE left = {}
  BY <1>1, EndedProperties DEF Bubbles
<1>2. CASE left # {}
  <2>1. left \in SUBSET Nat
    BY PathProperties
  <2>2. Min(left) \in DOMAIN Path
    BY <1>2, <2>1, MinIsLeast
  <2> QED BY <1>2, <2>2 DEF Bubbles, Alike, Frame, Phases
<1> QED BY <1>1, <1>2

(* The next station of a dispatch.                                         *)
LEMMA OnwardProperties ==
  ASSUME NEW f \in Frame, f.phase # "over"
  PROVE  /\ Onward(f) \in Frame
         /\ Alike(f, Onward(f))
         /\ Onward(f).phase # "started"
         /\ f.phase = "end" => Onward(f).phase = "finished"
         /\ f.phase = "finished" <=> Onward(f).phase = "over"
<1>1. f.targets \in SUBSET DOMAIN Path /\ f.phase \in Phases \cup Callbacks
  BY DEF Frame
<1>2. CASE f.phase = "started"
  BY <1>1, <1>2, CapturesProperties DEF Onward
<1>3. CASE f.phase = "capture"
  <2>1. {k \in f.targets : k < f.at} \in SUBSET DOMAIN Path
    BY <1>1
  <2> QED BY <1>3, <2>1, CapturesProperties DEF Onward
<1>4. CASE f.phase = "target"
  BY <1>1, <1>4, BubblesProperties DEF Onward
<1>5. CASE f.phase = "bubble"
  <2>1. {k \in f.targets : k > f.at} \in SUBSET DOMAIN Path
    BY <1>1
  <2> QED BY <1>5, <2>1, BubblesProperties DEF Onward
<1>6. CASE f.phase = "end" \/ f.phase = "finished"
  BY <1>6 DEF Onward, Alike, Frame, Callbacks
<1> QED BY <1>1, <1>2, <1>3, <1>4, <1>5, <1>6 DEF Phases, Callbacks

(* A walk that begins calls the first match of the list.                   *)
LEMMA FirstCallInOrder ==
  ASSUME NEW f \in Frame, NEW g \in Frame, NEW list \in Seq(Entry), Injective(list),
         FirstMatch(f, list) > 0,
         f.event = g.event, f.phase = g.phase,
         g.cursor = list[FirstMatch(f, list)],
         g.called = Append(<<>>, list[FirstMatch(f, list)])
  PROVE  g.cursor \in ToSet(list) /\ InOrder(g, list)
<1> DEFINE k == FirstMatch(f, list)
<1>1. /\ k \in DOMAIN list
      /\ Matches(f, list[k])
      /\ \A i \in DOMAIN list : i < k => ~Matches(f, list[i])
  BY FirstMatchProperties
<1>2. DOMAIN list \subseteq Nat
  BY LenProperties
<1>3. list[k] \in ToSet(list) /\ list[k] \in Entry
  BY <1>1, LenProperties, ElementOfSeq DEF ToSet
<1> HIDE DEF k
<1>4. g.called = <<list[k]>>
  BY DEF k
<1>5. \A r : Matches(g, r) <=> Matches(f, r)
  BY DEF Matches
<1>6. ToSet(g.called) = {list[k]} /\ DOMAIN g.called = {1}
  BY <1>4 DEF ToSet
<1>7. ASSUME NEW r \in Due(g, list), Position(list, r) <= Position(list, list[k])
      PROVE  r = list[k]
  <2>1. PICK i \in DOMAIN list : list[i] = r
    BY DEF Due, ToSet
  <2>2. Position(list, r) = i /\ Position(list, list[k]) = k
    BY <2>1, <1>1, PositionProperties
  <2>3. Matches(f, list[i])
    BY <2>1, <1>5 DEF Due
  <2>4. i = k
    BY <2>2, <2>3, <1>1, <1>2, <1>7
  <2> QED BY <2>1, <2>4
<1>8. list[k] \in Due(g, list)
  BY <1>1, <1>3, <1>5 DEF Due
<1>9. Position(list, list[k]) <= Position(list, list[k])
  <2>1. Position(list, list[k]) = k
    BY <1>1, PositionProperties
  <2> QED BY <2>1, <1>1, <1>2
<1>10. g.cursor = list[k]
  BY DEF k
<1>11. ToSet(g.called) = {r \in Due(g, list) : Position(list, r) <= Position(list, g.cursor)}
  BY <1>6, <1>7, <1>8, <1>9, <1>10
<1>12. \A i, j \in DOMAIN g.called : ~(i < j)
  BY <1>6
<1> QED BY <1>3, <1>10, <1>11, <1>12 DEF InOrder

(* What follows an element of a list.                                      *)
LEMMA FollowingProperties ==
  ASSUME NEW list \in Seq(Entry), NEW p \in DOMAIN list, Injective(list), list[p] # NULL
  PROVE  /\ Following(list, list[p]) \in Seq(Entry)
         /\ DOMAIN Following(list, list[p]) = 1 .. Len(list) - p
         /\ \A i \in 1 .. Len(list) - p : Following(list, list[p])[i] = list[p + i]
<1> DEFINE n == Len(list)
           t == SubSeq(list, p + 1, n)
<1>1. n \in Nat /\ DOMAIN list = 1 .. n /\ p \in 1 .. n
  BY LenProperties
<1>2. \A i \in 1 .. n : list[i] \in Entry
  BY ElementOfSeq, <1>1
<1> HIDE DEF n
<1>3. /\ t \in Seq(Entry)
      /\ Len(t) = IF p + 1 <= n THEN n - (p + 1) + 1 ELSE 0
      /\ \A i \in 1 .. n - (p + 1) + 1 : t[i] = list[p + 1 + i - 1]
  <2>1. \A i \in p + 1 .. n : list[i] \in Entry
    BY <1>1, <1>2
  <2> QED BY <2>1, <1>1, SubSeqProperties DEF n
<1>4. /\ (IF p + 1 <= n THEN n - (p + 1) + 1 ELSE 0) = n - p
      /\ n - (p + 1) + 1 = n - p
  BY <1>1
<1>5. Following(list, list[p]) = t
  BY PositionProperties DEF Following, n
<1> HIDE DEF t
<1>6. DOMAIN t = 1 .. n - p
  BY <1>3, <1>4, LenProperties
<1>7. ASSUME NEW i \in 1 .. n - p
      PROVE  t[i] = list[p + i]
  <2>1. p + 1 + i - 1 = p + i
    BY <1>1
  <2> QED BY <2>1, <1>3, <1>4
<1> QED BY <1>3, <1>5, <1>6, <1>7 DEF n

LEMMA SuffixIsSeq ==
  ASSUME NEW S, NEW list \in Seq(S), NEW k \in 1 .. Len(list) + 1
  PROVE  SubSeq(list, k, Len(list)) \in Seq(S)
<1>1. Len(list) \in Nat /\ DOMAIN list = 1 .. Len(list)
  BY LenProperties
<1>2. \A i \in k .. Len(list) : list[i] \in S
  BY <1>1, ElementOfSeq
<1> QED BY <1>1, <1>2, SubSeqProperties

LEMMA FrameList ==
  ASSUME RingsTyped, NEW f \in Frame
  PROVE  /\ Node(f) \in Target
         /\ ring[Node(f)] \in Seq(Entry)
         /\ Injective(ring[Node(f)])
<1>1. f.at \in DOMAIN Path
  BY DEF Frame
<1> QED BY <1>1, PathProperties DEF RingsTyped, Node

LEMMA RemainingTyped ==
  ASSUME RingsTyped, NEW f \in Frame, NEW list \in Remaining(f)
  PROVE  list \in Seq(Entry)
<1> DEFINE whole == ring[Node(f)]
<1>1. whole \in Seq(Entry) /\ Injective(whole)
  BY FrameList
<1>2. f.cursor \in Entry \cup {NULL}
  BY DEF Frame
<1> HIDE DEF whole
<1>3. CASE f.cursor = NULL
  <2>1. list = whole
    BY <1>3 DEF Remaining, Following, whole
  <2> QED BY <2>1, <1>1
<1>4. CASE f.cursor # NULL /\ f.cursor \in ToSet(whole)
  <2>1. PICK p \in DOMAIN whole : whole[p] = f.cursor
    BY <1>4 DEF ToSet
  <2>2. list = Following(whole, whole[p])
    BY <2>1, <1>4 DEF Remaining, whole
  <2> QED BY <2>1, <2>2, <1>1, <1>4, FollowingProperties
<1>5. CASE f.cursor # NULL /\ f.cursor \notin ToSet(whole)
  <2>1. \/ list = <<f.cursor>> \o whole
        \/ \E k \in 1 .. Len(whole) + 1 : list = SubSeq(whole, k, Len(whole))
    BY <1>5 DEF Remaining, whole
  <2>2. <<f.cursor>> \in Seq(Entry)
    BY <1>2, <1>5
  <2>3. <<f.cursor>> \o whole \in Seq(Entry)
    BY <2>2, <1>1, ConcatProperties
  <2>4. \A k \in 1 .. Len(whole) + 1 : SubSeq(whole, k, Len(whole)) \in Seq(Entry)
    BY <1>1, SuffixIsSeq
  <2> QED BY <2>1, <2>3, <2>4
<1> QED BY <1>3, <1>4, <1>5

(* A walk that goes on calls the first match after its cursor.             *)
LEMMA NextCallInOrder ==
  ASSUME NEW f \in Frame, NEW g \in Frame, NEW list \in Seq(Entry), Injective(list),
         f.cursor # NULL, f.cursor \in ToSet(list), InOrder(f, list),
         NEW rest, rest = Following(list, f.cursor),
         FirstMatch(f, rest) > 0,
         f.event = g.event, f.phase = g.phase,
         g.cursor = rest[FirstMatch(f, rest)],
         g.called = Append(f.called, rest[FirstMatch(f, rest)])
  PROVE  g.cursor \in ToSet(list) /\ InOrder(g, list)
<1> DEFINE k == FirstMatch(f, rest)
           n == Len(list)
<1>1. PICK p \in DOMAIN list : list[p] = f.cursor
  BY DEF ToSet
<1>2. /\ rest \in Seq(Entry)
      /\ DOMAIN rest = 1 .. n - p
      /\ \A i \in 1 .. n - p : rest[i] = list[p + i]
  BY <1>1, FollowingProperties
<1>3. /\ k \in DOMAIN rest
      /\ Matches(f, rest[k])
      /\ \A i \in DOMAIN rest : i < k => ~Matches(f, rest[i])
  BY <1>2, FirstMatchProperties
<1> DEFINE q == p + k
           r == list[q]
<1>4. n \in Nat /\ DOMAIN list = 1 .. n
  BY LenProperties
<1> HIDE DEF k, n
<1>5. q \in DOMAIN list /\ rest[k] = r /\ p < q /\ p \in Nat /\ q \in Nat /\ k \in Nat
  BY <1>1, <1>2, <1>3, <1>4
<1>6. \A i \in DOMAIN list : p < i /\ i < q => ~Matches(f, list[i])
  <2> SUFFICES ASSUME NEW i \in DOMAIN list, p < i, i < q
               PROVE  ~Matches(f, list[i])
    OBVIOUS
  <2>1. i - p \in 1 .. n - p /\ i - p < k /\ p + (i - p) = i
    BY <1>1, <1>3, <1>4, <1>5
  <2> QED BY <2>1, <1>2, <1>3
<1>7. r \in ToSet(list) /\ r \in Entry /\ g.cursor = r /\ g.called = Append(f.called, r)
  BY <1>4, <1>5, ElementOfSeq DEF ToSet, k
<1> HIDE DEF r, q
<1>8. \A i \in DOMAIN list : Position(list, list[i]) = i
  BY PositionProperties
<1>9. Position(list, r) = q /\ Position(list, f.cursor) = p
  BY <1>1, <1>5, <1>8 DEF r
<1>10. \A x : Matches(g, x) <=> Matches(f, x)
  BY DEF Matches
<1>11. f.called \in Seq(Entry)
  BY DEF Frame
<1>12. /\ Len(g.called) = Len(f.called) + 1
       /\ \A i \in 1 .. Len(f.called) : g.called[i] = f.called[i]
       /\ g.called[Len(f.called) + 1] = r
       /\ Len(f.called) \in Nat
       /\ DOMAIN f.called = 1 .. Len(f.called)
       /\ DOMAIN g.called = 1 .. Len(f.called) + 1
       /\ g.called \in Seq(Entry)
  BY <1>7, <1>11, AppendProperties, LenProperties
<1>13. \A x : x \in ToSet(g.called) <=> x \in ToSet(f.called) \/ x = r
  <2> TAKE x
  <2>1. x \in ToSet(g.called) <=> \E i \in DOMAIN g.called : g.called[i] = x
    <3> DEFINE s == g.called
    <3>1. s \in Seq(Entry)
      BY <1>12
    <3> HIDE DEF s
    <3>2. x \in ToSet(s) <=> \E i \in DOMAIN s : s[i] = x
      BY <3>1, Membership
    <3> QED BY <3>2 DEF s
  <2>2. x \in ToSet(f.called) <=> \E i \in DOMAIN f.called : f.called[i] = x
    BY <1>11, Membership
  <2>3. \A i \in DOMAIN g.called : i \in DOMAIN f.called \/ i = Len(f.called) + 1
    BY <1>12
  <2>4. DOMAIN f.called \subseteq DOMAIN g.called /\ Len(f.called) + 1 \in DOMAIN g.called
    BY <1>12
  <2> QED BY <2>1, <2>2, <2>3, <2>4, <1>12
<1>14. \A x : x \in ToSet(f.called) <=>
               x \in Due(f, list) /\ Position(list, x) <= p
  BY <1>9 DEF InOrder
<1>15. Due(g, list) = Due(f, list)
  BY <1>10 DEF Due
<1>16. r \in Due(f, list)
  BY <1>3, <1>5, <1>7 DEF Due
<1>17. \A x \in Due(f, list) : Position(list, x) \in Nat
                               /\ (Position(list, x) <= q <=> Position(list, x) <= p \/ x = r)
  <2> SUFFICES ASSUME NEW x \in Due(f, list)
               PROVE  Position(list, x) \in Nat
                      /\ (Position(list, x) <= q <=> Position(list, x) <= p \/ x = r)
    OBVIOUS
  <2>1. PICK i \in DOMAIN list : list[i] = x
    BY DEF Due, ToSet
  <2>2. Position(list, x) = i /\ i \in Nat
    BY <2>1, <1>4, <1>8
  <2>3. Matches(f, list[i])
    BY <2>1 DEF Due
  <2>4. p < i /\ i <= q => i = q
    BY <2>2, <2>3, <1>5, <1>6
  <2>5. i = q <=> x = r
    BY <2>1, <2>2, <1>9 DEF r
  <2> QED BY <2>2, <2>4, <2>5, <1>5
<1>18. ToSet(g.called) = {x \in Due(g, list) : Position(list, x) <= Position(list, g.cursor)}
  <2>1. ASSUME NEW x
        PROVE  x \in ToSet(g.called) <=> x \in Due(g, list) /\ Position(list, x) <= q
    BY <1>13, <1>14, <1>15, <1>16, <1>17
  <2> QED BY <2>1, <1>7, <1>9
<1>19. ASSUME NEW i \in DOMAIN g.called, NEW j \in DOMAIN g.called, i < j
       PROVE  Position(list, g.called[i]) < Position(list, g.called[j])
  <2>1. i \in DOMAIN f.called /\ g.called[i] = f.called[i]
    BY <1>12, <1>19
  <2>2. CASE j = Len(f.called) + 1
    <3>1. f.called[i] \in ToSet(f.called)
      BY <2>1 DEF ToSet
    <3>2. Position(list, f.called[i]) <= p /\ Position(list, f.called[i]) \in Nat
      BY <3>1, <1>14, <1>17
    <3> QED BY <3>2, <2>1, <2>2, <1>5, <1>9, <1>12
  <2>3. CASE j # Len(f.called) + 1
    <3>1. j \in DOMAIN f.called /\ g.called[j] = f.called[j]
      BY <2>3, <1>12
    <3> QED BY <2>1, <3>1, <1>19 DEF InOrder
  <2> QED BY <2>2, <2>3
<1> QED BY <1>7, <1>18, <1>19 DEF InOrder

(* A walk does not notice a registration made behind its cursor.           *)
LEMMA WalkAppended ==
  ASSUME NEW f \in Frame, NEW list \in Seq(Entry), Injective(list),
         NEW r \in Entry, r \notin ToSet(list), WalkSound(f, list)
  PROVE  WalkSound(f, Appended(list, r))
<1> SUFFICES ASSUME f.cursor # NULL, ~f.disturbed
             PROVE  f.cursor \in ToSet(Appended(list, r)) /\ InOrder(f, Appended(list, r))
  BY AppendedProperties DEF WalkSound
<1> DEFINE t == Appended(list, r)
<1>1. /\ ToSet(t) = ToSet(list) \cup {r}
      /\ \A x \in ToSet(list) : Position(t, x) = Position(list, x)
      /\ \A x \in ToSet(list) : Position(list, x) < Position(t, r)
      /\ t \in Seq(Entry)
      /\ Injective(t)
  BY AppendedProperties
<1> HIDE DEF t
<1>2. f.cursor \in ToSet(list) /\ InOrder(f, list)
  BY DEF WalkSound
<1>3. \A x : x \in ToSet(f.called) <=>
              x \in Due(f, list) /\ Position(list, x) <= Position(list, f.cursor)
  BY <1>2 DEF InOrder
<1>4. Position(list, f.cursor) \in Nat /\ Position(t, r) \in Nat
  BY <1>1, <1>2, PositionOfMember, LenProperties
<1>5. ASSUME NEW x
      PROVE  x \in ToSet(f.called) <=>
             x \in Due(f, t) /\ Position(t, x) <= Position(t, f.cursor)
  <2>1. CASE x \in ToSet(list)
    <3>1. x \in Due(f, t) <=> x \in Due(f, list)
      BY <2>1, <1>1 DEF Due
    <3> QED BY <2>1, <3>1, <1>1, <1>2, <1>3
  <2>2. CASE x \notin ToSet(list)
    <3>1. x \notin ToSet(f.called)
      BY <2>2, <1>3 DEF Due
    <3>2. x \in Due(f, t) => x = r
      BY <2>2, <1>1 DEF Due
    <3>3. ~(Position(t, r) <= Position(t, f.cursor))
      BY <1>1, <1>2, <1>4
    <3> QED BY <3>1, <3>2, <3>3
  <2> QED BY <2>1, <2>2
<1>6. ToSet(f.called) = {x \in Due(f, t) : Position(t, x) <= Position(t, f.cursor)}
  BY <1>5
<1>7. \A i \in DOMAIN f.called : f.called[i] \in ToSet(list)
  BY <1>3 DEF Due, ToSet
<1>8. \A i, j \in DOMAIN f.called :
        i < j => Position(t, f.called[i]) < Position(t, f.called[j])
  BY <1>1, <1>2, <1>7 DEF InOrder
<1> QED BY <1>1, <1>2, <1>6, <1>8 DEF InOrder, t

-----------------------------------------------------------------------------
(* The stack of dispatches.                                                *)

LEMMA StackFields ==
  ASSUME StackTyped
  PROVE  /\ Len(stack) \in Nat
         /\ DOMAIN stack = 1 .. Len(stack)
         /\ \A i \in DOMAIN stack : stack[i] \in Frame /\ stack[i].event \in Event
         /\ stack # <<>> => Len(stack) \in DOMAIN stack /\ Len(stack) > 0
<1>1. stack \in Seq(Frame)
  BY DEF StackTyped
<1>2. Len(stack) \in Nat /\ DOMAIN stack = 1 .. Len(stack)
  BY <1>1, LenProperties
<1>3. \A i \in DOMAIN stack : stack[i] \in Frame
  BY <1>1, <1>2, ElementOfSeq
<1>4. stack # <<>> => Len(stack) # 0
  BY <1>1, EmptySeq
<1> QED BY <1>2, <1>3, <1>4 DEF Frame

LEMMA TopFacts ==
  ASSUME IInv, stack # <<>>
  PROVE  /\ Top \in Frame
         /\ FrameSound(Top, ring[Node(Top)], Stopped(Top.event))
<1>1. Len(stack) \in DOMAIN stack
  BY StackFields DEF IInv
<1> QED BY <1>1, StackFields DEF Top, Last, IInv, FramesSound

(* The innermost dispatch takes a step.                                    *)
LEMMA TopStep ==
  ASSUME IInv, stack # <<>>, NEW f \in Frame, Become(f), UNCHANGED <<ring, flags>>,
         FrameSound(f, ring[Node(f)], Stopped(f.event))
  PROVE  IInv'
<1> DEFINE n == Len(stack)
<1>1. /\ n \in Nat
      /\ DOMAIN stack = 1 .. n
      /\ n \in DOMAIN stack
      /\ \A i \in DOMAIN stack : stack[i] \in Frame
      /\ stack \in Seq(Frame)
  BY StackFields DEF IInv, StackTyped
<1> HIDE DEF n
<1>2. stack' = [stack EXCEPT ![n] = f]
  BY DEF Become, n
<1>3. /\ stack' \in Seq(Frame)
      /\ Len(stack') = n
      /\ \A i \in 1 .. n : stack'[i] = IF i = n THEN f ELSE stack[i]
  BY <1>1, <1>2, ExceptSeq DEF n
<1>4. DOMAIN stack' = 1 .. n
  BY <1>3, LenProperties
<1>5. \A i \in 1 .. n : i < n => stack[i].running
  BY <1>1 DEF IInv, StackTyped, n
<1>6. StackTyped'
  <2>1. \A i \in 1 .. n : i < n => stack'[i].running
    BY <1>1, <1>3, <1>5
  <2>2. n <= MaxDepth
    BY DEF IInv, StackTyped, n
  <2> QED BY <2>1, <2>2, <1>3, <1>4 DEF StackTyped
<1>7. \A g \in Frame : Node(g)' = Node(g) /\ Stopped(g.event)' = Stopped(g.event)
  BY DEF Node, Stopped, flags
<1>8. \A i \in 1 .. n : FrameSound(stack[i], ring[Node(stack[i])], Stopped(stack[i].event))
  BY <1>1 DEF IInv, FramesSound
<1>9. ASSUME NEW i \in 1 .. n
      PROVE  FrameSound(stack'[i], ring'[Path[stack'[i].at]],
                        stop_now'[stack'[i].event] \/ stop'[stack'[i].event])
  <2>1. ring' = ring /\ stop_now' = stop_now /\ stop' = stop
    BY DEF flags
  <2>2. stack'[i] = f \/ stack'[i] = stack[i]
    BY <1>3
  <2> QED BY <2>1, <2>2, <1>8 DEF Node, Stopped
<1>10. FramesSound'
  BY <1>4, <1>9 DEF FramesSound, Node, Stopped
<1>11. RingsTyped' /\ FlagsTyped'
  BY DEF IInv, RingsTyped, FlagsTyped, flags
<1> QED BY <1>6, <1>10, <1>11 DEF IInv

(* The dispatches of s are those of the stack, but for what the walks of   *)
(* n's list have called, and sound for that list.                          *)
Noticed(s, n, list) ==
  \A i \in DOMAIN stack : /\ s[i].event = stack[i].event
                          /\ s[i].at = stack[i].at
                          /\ s[i].running = stack[i].running
                          /\ s[i].phase = stack[i].phase
                          /\ s[i].cursor = stack[i].cursor
                          /\ s[i].heard = stack[i].heard
                          /\ Node(stack[i]) = n => WalkSound(s[i], list)
                          /\ Node(stack[i]) # n => s[i] = stack[i]

(* The list of one node changes, and the dispatches that walk it notice.   *)
LEMMA RingStep ==
  ASSUME IInv, UNCHANGED flags,
         NEW n \in Target, NEW list \in Seq(Entry), Injective(list),
         \A k \in DOMAIN list : Reg[list[k]].node = n,
         ring' = [ring EXCEPT ![n] = list],
         NEW s, stack' = s, s \in Seq(Frame), Len(s) = Len(stack),
         Noticed(s, n, list)
  PROVE  IInv'
<1> DEFINE m == Len(stack)
<1>1. /\ DOMAIN stack = 1 .. m
      /\ DOMAIN s = 1 .. m
      /\ \A i \in 1 .. m : stack[i] \in Frame
      /\ m <= MaxDepth
      /\ \A i \in 1 .. m : i < m => stack[i].running
  <2>1. DOMAIN s = 1 .. m
    BY LenProperties
  <2> QED BY <2>1, StackFields DEF IInv, StackTyped
<1>2. \A x \in Target : ring'[x] = IF x = n THEN list ELSE ring[x]
  BY DEF IInv, RingsTyped
<1>3. RingsTyped'
  <2>1. ring' \in [Target -> Seq(Entry)]
    BY DEF IInv, RingsTyped
  <2> QED BY <2>1, <1>2 DEF IInv, RingsTyped
<1>4. StackTyped'
  BY <1>1 DEF StackTyped, Noticed
<1>5. ASSUME NEW i \in 1 .. m
      PROVE  FrameSound(s[i], ring'[Path[s[i].at]],
                        stop_now'[s[i].event] \/ stop'[s[i].event])
  <2>1. FrameSound(stack[i], ring[Node(stack[i])], Stopped(stack[i].event))
    BY <1>1 DEF IInv, FramesSound
  <2>2. stop' = stop /\ stop_now' = stop_now
    BY DEF flags
  <2>3. Path[s[i].at] = Node(stack[i]) /\ Node(stack[i]) \in Target
    BY <1>1, FrameList DEF Node, IInv, Noticed
  <2>4. WalkSound(s[i], ring'[Node(stack[i])])
    <3>1. CASE Node(stack[i]) = n
      BY <3>1, <1>1, <1>2 DEF Noticed
    <3>2. CASE Node(stack[i]) # n
      <4>1. s[i] = stack[i] /\ ring'[Node(stack[i])] = ring[Node(stack[i])]
        BY <3>2, <1>1, <1>2, <2>3 DEF Noticed
      <4> QED BY <4>1, <2>1 DEF FrameSound
    <3> QED BY <3>1, <3>2
  <2>5. /\ s[i].event = stack[i].event
        /\ s[i].running = stack[i].running
        /\ s[i].phase = stack[i].phase
        /\ s[i].cursor = stack[i].cursor
        /\ s[i].heard = stack[i].heard
    BY <1>1 DEF Noticed
  <2>6. StopSound(s[i], stop_now'[s[i].event] \/ stop'[s[i].event])
    BY <2>1, <2>2, <2>5 DEF FrameSound, StopSound, Stopped
  <2>7. s[i].phase = "over" => s[i].running
    BY <2>1, <2>5 DEF FrameSound
  <2> QED BY <2>3, <2>4, <2>6, <2>7 DEF FrameSound
<1>6. FramesSound'
  BY <1>1, <1>5 DEF FramesSound, Node, Stopped
<1>7. FlagsTyped'
  BY DEF IInv, FlagsTyped, flags
<1> QED BY <1>3, <1>4, <1>6, <1>7 DEF IInv

-----------------------------------------------------------------------------
(* The steps of a client.                                                  *)

LEMMA AddListenerStep ==
  ASSUME IInv, NEW r \in Entry, AddListener(r)
  PROVE  IInv'
<1> DEFINE n == Reg[r].node
           list == Appended(ring[n], r)
<1>1. n \in Target
  BY RegAssumption
<1>2. ring[n] \in Seq(Entry) /\ Injective(ring[n]) /\ r \notin ToSet(ring[n])
  BY <1>1 DEF IInv, RingsTyped, AddListener
<1>3. list \in Seq(Entry) /\ Injective(list) /\ ToSet(list) = ToSet(ring[n]) \cup {r}
  BY <1>2, AppendedProperties
<1>4. \A k \in DOMAIN list : Reg[list[k]].node = n
  <2>1. \A x \in ToSet(ring[n]) : Reg[x].node = n
    BY <1>1 DEF IInv, RingsTyped, ToSet
  <2>2. \A k \in DOMAIN list : list[k] \in ToSet(list)
    BY DEF ToSet
  <2> HIDE DEF list
  <2> QED BY <2>1, <2>2, <1>3
<1>5. ring' = [ring EXCEPT ![n] = list] /\ UNCHANGED <<flags, stack>>
  BY DEF AddListener
<1>6. Noticed(stack, n, list)
  <2> SUFFICES ASSUME NEW i \in DOMAIN stack, Node(stack[i]) = n
               PROVE  WalkSound(stack[i], list)
    BY DEF Noticed
  <2>1. stack[i] \in Frame /\ WalkSound(stack[i], ring[n])
    BY StackFields DEF IInv, FramesSound, FrameSound
  <2> QED BY <2>1, <1>2, WalkAppended
<1>7. stack \in Seq(Frame)
  BY DEF IInv, StackTyped
<1> HIDE DEF list, n
<1> QED BY <1>1, <1>3, <1>4, <1>5, <1>6, <1>7, RingStep

LEMMA RemoveListenerStep ==
  ASSUME IInv, NEW n \in Target, NEW type, NEW listener, NEW capture,
         RemoveListener(n, type, listener, capture)
  PROVE  IInv'
<1> DEFINE matches(r) == /\ Reg[r].listener = listener
                         /\ type # NULL => Reg[r].type = type /\ Reg[r].capture = capture
           old == ring[n]
           k == SelectInSeq(old, matches)
           I == {i \in 1 .. Len(old) : matches(old[i])}
           list == Removed(old, k)
           AtNode(f) == f.cursor # NULL /\ Node(f) = n
           s == [i \in DOMAIN stack |->
                   IF AtNode(stack[i])
                   THEN [stack[i] EXCEPT !.disturbed = TRUE, !.called = <<>>,
                                         !.owed = @ \ {ring[n][k]}]
                   ELSE stack[i]]
<1>1. old \in Seq(Entry) /\ Injective(old)
  BY DEF IInv, RingsTyped
<1>2. /\ k > 0
      /\ ring' = [ring EXCEPT ![n] = list]
      /\ stack' = s
      /\ UNCHANGED flags
  BY DEF RemoveListener
<1>3. k = IF I # {} THEN Min(I) ELSE 0
  BY DEF SelectInSeq
<1>4. k \in DOMAIN old
  <2>1. DOMAIN old = 1 .. Len(old) /\ Len(old) \in Nat
    BY <1>1, LenProperties
  <2>2. I \in SUBSET Nat /\ I \subseteq 1 .. Len(old)
    BY <2>1
  <2> HIDE DEF I, k
  <2>3. ASSUME I = {}
        PROVE  FALSE
    <3>1. k = 0
      BY <1>3, <2>3
    <3>2. k > 0
      BY <1>2
    <3> QED BY <3>1, <3>2
  <2>4. Min(I) \in I
    BY <2>2, <2>3, MinIsLeast
  <2> QED BY <2>1, <2>2, <2>3, <2>4, <1>3
<1>5. ASSUME Careful, NEW i \in DOMAIN stack
       PROVE  stack[i].cursor # old[k]
  <2>1. {f \in ToSet(stack) : f.cursor = old[k]} = {}
    BY <1>5 DEF RemoveListener, k
  <2>2. stack[i] \in ToSet(stack)
    BY DEF ToSet
  <2> QED BY <2>1, <2>2
<1> HIDE DEF k
<1>6. list \in Seq(Entry) /\ Injective(list) /\ ToSet(list) = ToSet(old) \ {old[k]}
  BY <1>1, <1>4, RemovedProperties
<1>7. \A j \in DOMAIN list : Reg[list[j]].node = n
  <2>1. \A x \in ToSet(old) : Reg[x].node = n
    BY DEF IInv, RingsTyped, ToSet
  <2>2. \A j \in DOMAIN list : list[j] \in ToSet(list)
    BY DEF ToSet
  <2> HIDE DEF list
  <2> QED BY <2>1, <2>2, <1>6
<1>8. old = ring[n]
  OBVIOUS
<1> HIDE DEF list, old
<1>9. ASSUME NEW i \in DOMAIN stack
      PROVE  /\ s[i] \in Frame
             /\ s[i].event = stack[i].event
             /\ s[i].at = stack[i].at
             /\ s[i].running = stack[i].running
             /\ s[i].phase = stack[i].phase
             /\ s[i].cursor = stack[i].cursor
             /\ s[i].heard = stack[i].heard
             /\ Node(stack[i]) = n => WalkSound(s[i], list)
             /\ Node(stack[i]) # n => s[i] = stack[i]
  <2>1. stack[i] \in Frame /\ WalkSound(stack[i], ring[Node(stack[i])])
    BY StackFields DEF IInv, FramesSound, FrameSound
  <2>2. CASE AtNode(stack[i])
    <3>1. s[i] = [stack[i] EXCEPT !.disturbed = TRUE, !.called = <<>>,
                                  !.owed = @ \ {ring[n][k]}]
      BY <2>2
    <3>2. <<>> \in Seq(Entry)
      BY EmptySeq
    <3>3. /\ s[i] \in Frame
          /\ s[i].event = stack[i].event
          /\ s[i].at = stack[i].at
          /\ s[i].running = stack[i].running
          /\ s[i].phase = stack[i].phase
          /\ s[i].cursor = stack[i].cursor
          /\ s[i].heard = stack[i].heard
          /\ s[i].disturbed
      BY <2>1, <3>1, <3>2 DEF Frame
    <3> HIDE DEF s
    <3>4. Careful => s[i].cursor \in ToSet(list)
      BY <2>1, <2>2, <3>3, <1>6, <1>5, <1>8 DEF WalkSound
    <3> QED BY <2>1, <2>2, <3>3, <3>4 DEF WalkSound
  <2>3. CASE ~AtNode(stack[i])
    <3>1. s[i] = stack[i]
      BY <2>3
    <3> HIDE DEF s
    <3> QED BY <2>1, <2>3, <3>1 DEF WalkSound
  <2> QED BY <2>2, <2>3
<1>10. s \in Seq(Frame) /\ Len(s) = Len(stack)
  <2>1. DOMAIN stack = 1 .. Len(stack) /\ Len(stack) \in Nat
    BY StackFields DEF IInv
  <2>2. DOMAIN s = 1 .. Len(stack)
    BY <2>1
  <2>3. \A i \in 1 .. Len(stack) : s[i] \in Frame
    BY <2>1, <1>9
  <2>4. s \in [1 .. Len(stack) -> Frame]
    <3>1. s = [i \in 1 .. Len(stack) |-> s[i]]
      BY <2>1
    <3> HIDE DEF s
    <3> QED BY <3>1, <2>3
  <2> HIDE DEF s
  <2>5. s \in Seq(Frame)
    BY <2>1, <2>4
  <2>6. DOMAIN s = 1 .. Len(s) /\ Len(s) \in Nat
    BY <2>5, LenProperties
  <2> QED BY <2>1, <2>2, <2>5, <2>6
<1>11. stack' = s /\ UNCHANGED flags /\ ring' = [ring EXCEPT ![n] = list]
  BY <1>2
<1>12. Noticed(s, n, list)
  <2> HIDE DEF s
  <2> QED BY <1>9 DEF Noticed
<1> HIDE DEF s
<1>13. list \in Seq(Entry) /\ Injective(list)
  BY <1>6
<1> QED BY <1>7, <1>10, <1>11, <1>12, <1>13, RingStep

(* While a client acts, every dispatch is inside a call of it.             *)
LEMMA AllRunning ==
  ASSUME IInv, ClientActs, NEW i \in DOMAIN stack
  PROVE  stack[i].running
<1>1. DOMAIN stack = 1 .. Len(stack) /\ Len(stack) \in Nat
  BY StackFields DEF IInv
<1>2. stack # <<>>
  BY <1>1 DEF IInv, StackTyped
<1> QED BY <1>1, <1>2 DEF ClientActs, Top, Last, IInv, StackTyped

LEMMA FlagStep ==
  ASSUME IInv, ClientActs, UNCHANGED <<ring, stack>>, FlagsTyped'
  PROVE  IInv'
<1>1. ASSUME NEW i \in DOMAIN stack
      PROVE  FrameSound(stack[i], ring[Path[stack[i].at]],
                        stop_now'[stack[i].event] \/ stop'[stack[i].event])
  <2>1. FrameSound(stack[i], ring[Path[stack[i].at]], Stopped(stack[i].event))
    BY DEF IInv, FramesSound, Node
  <2>2. stack[i].running
    BY AllRunning
  <2> QED BY <2>1, <2>2 DEF FrameSound, StopSound
<1>2. FramesSound'
  BY <1>1 DEF FramesSound, Node, Stopped
<1>3. RingsTyped' /\ StackTyped'
  BY DEF IInv, RingsTyped, StackTyped
<1> QED BY <1>2, <1>3 DEF IInv

LEMMA StopSteps ==
  ASSUME IInv, NEW e \in Event,
         StopPropagation(e) \/ StopImmediatePropagation(e) \/ DispatchUninitialised(e)
  PROVE  IInv'
<1>1. FlagsTyped'
  BY DEF IInv, FlagsTyped, StopPropagation, StopImmediatePropagation, DispatchUninitialised
<1>2. ClientActs /\ UNCHANGED <<ring, stack>>
  BY DEF StopPropagation, StopImmediatePropagation, DispatchUninitialised
<1> QED BY <1>1, <1>2, FlagStep

LEMMA DispatchStep ==
  ASSUME IInv, NEW i \in DOMAIN Path, NEW e \in Event, Dispatch(i, e)
  PROVE  IInv'
<1> DEFINE n == Len(stack)
           f == Begun(i, e)
<1>1. /\ f \in Frame
      /\ f.phase = "started"
      /\ f.cursor = NULL
      /\ f.called = <<>>
      /\ ~f.disturbed
      /\ ~f.heard
  BY BegunProperties
<1>2. /\ DOMAIN stack = 1 .. n
      /\ n \in Nat
      /\ n < MaxDepth
      /\ stack \in Seq(Frame)
  BY StackFields DEF IInv, StackTyped, Dispatch
<1> HIDE DEF f
<1>3. /\ stack' \in Seq(Frame)
      /\ Len(stack') = n + 1
      /\ \A j \in 1 .. n : stack'[j] = stack[j]
      /\ stack'[n + 1] = f
  BY <1>1, <1>2, AppendProperties DEF Dispatch, f
<1>4. DOMAIN stack' = 1 .. n + 1
  BY <1>3, LenProperties
<1> HIDE DEF n
<1>5. ASSUME NEW j \in 1 .. n + 1
      PROVE  /\ j < n + 1 => stack'[j].running
             /\ FrameSound(stack'[j], ring[Path[stack'[j].at]],
                           stop_now[stack'[j].event] \/ stop[stack'[j].event])
  <2>1. CASE j = n + 1
    <3>1. FrameSound(f, ring[Path[f.at]], stop_now[f.event] \/ stop[f.event])
      BY <1>1 DEF FrameSound, WalkSound, StopSound
    <3> QED BY <3>1, <2>1, <1>2, <1>3
  <2>2. CASE j # n + 1
    <3>1. j \in 1 .. n /\ j \in DOMAIN stack
      BY <2>2, <1>2
    <3>2. stack'[j] = stack[j]
      BY <3>1, <1>3
    <3>3. stack[j].running
      BY <3>1, AllRunning DEF Dispatch
    <3>4. FrameSound(stack[j], ring[Path[stack[j].at]],
                     stop_now[stack[j].event] \/ stop[stack[j].event])
      BY <3>1 DEF IInv, FramesSound, Node, Stopped
    <3> QED BY <3>2, <3>3, <3>4
  <2> QED BY <2>1, <2>2
<1>6. ring' = ring /\ stop_now' = stop_now /\ stop' = stop
  BY DEF Dispatch
<1>7. FramesSound'
  BY <1>4, <1>5, <1>6 DEF FramesSound, Node, Stopped
<1>8. StackTyped'
  <2>1. n + 1 <= MaxDepth
    BY <1>2, BoundAssumption
  <2> QED BY <2>1, <1>3, <1>4, <1>5 DEF StackTyped
<1>9. RingsTyped' /\ FlagsTyped'
  BY <1>6 DEF IInv, RingsTyped, FlagsTyped, Dispatch
<1> QED BY <1>7, <1>8, <1>9 DEF IInv

LEMMA ReturnStep ==
  ASSUME IInv, Return
  PROVE  IInv'
<1>1. stack # <<>> /\ Top.running /\ UNCHANGED <<ring, flags>>
  BY DEF Return
<1>2. Top \in Frame /\ FrameSound(Top, ring[Node(Top)], Stopped(Top.event))
  BY <1>1, TopFacts
<1>3. CASE Top.phase # "over"
  <2> DEFINE f == [Top EXCEPT !.running = FALSE]
  <2>1. Become(f)
    BY <1>3 DEF Return
  <2>2. /\ f \in Frame
        /\ f.at = Top.at
        /\ f.event = Top.event
        /\ f.phase = Top.phase
        /\ f.cursor = Top.cursor
        /\ f.called = Top.called
        /\ f.disturbed = Top.disturbed
        /\ f.heard = Top.heard
        /\ ~f.running
    BY <1>2 DEF Frame
  <2> HIDE DEF f
  <2>3. InOrder(Top, ring[Node(Top)]) => InOrder(f, ring[Node(f)])
    BY <2>2 DEF InOrder, Due, Matches, Node
  <2>4. FrameSound(f, ring[Node(f)], Stopped(f.event))
    BY <1>2, <1>3, <2>2, <2>3 DEF FrameSound, WalkSound, StopSound, Node
  <2> QED BY <1>1, <2>1, <2>2, <2>4, TopStep
<1>4. CASE Top.phase = "over"
  <2> DEFINE n == Len(stack)
  <2>1. /\ n \in Nat
        /\ n > 0
        /\ DOMAIN stack = 1 .. n
        /\ \A i \in DOMAIN stack : stack[i] \in Frame
        /\ n <= MaxDepth
    BY <1>1, StackFields DEF IInv, StackTyped
  <2>2. stack' = SubSeq(stack, 1, n - 1)
    BY <1>4 DEF Return, Front
  <2> HIDE DEF n
  <2>3. /\ stack' \in Seq(Frame)
        /\ Len(stack') = n - 1
        /\ \A i \in 1 .. n - 1 : stack'[i] = stack[i]
    <3>1. \A i \in 1 .. n - 1 : stack[i] \in Frame
      BY <2>1
    <3>2. /\ SubSeq(stack, 1, n - 1) \in Seq(Frame)
          /\ Len(SubSeq(stack, 1, n - 1)) = IF 1 <= n - 1 THEN n - 1 - 1 + 1 ELSE 0
          /\ \A i \in 1 .. n - 1 - 1 + 1 : SubSeq(stack, 1, n - 1)[i] = stack[1 + i - 1]
      BY <2>1, <3>1, SubSeqProperties
    <3>3. n - 1 - 1 + 1 = n - 1 /\ \A i \in Int : 1 + i - 1 = i
      BY <2>1
    <3> QED BY <2>1, <2>2, <3>2, <3>3
  <2>4. DOMAIN stack' = 1 .. n - 1
    BY <2>3, LenProperties
  <2>5. ASSUME NEW i \in 1 .. n - 1
        PROVE  /\ stack'[i].running
               /\ FrameSound(stack'[i], ring[Path[stack'[i].at]],
                             stop_now[stack'[i].event] \/ stop[stack'[i].event])
    <3>1. i \in DOMAIN stack /\ i < Len(stack)
      BY <2>1 DEF n
    <3>2. stack'[i] = stack[i]
      BY <2>3
    <3> QED BY <3>1, <3>2 DEF IInv, FramesSound, StackTyped, Node, Stopped
  <2>6. ring' = ring /\ stop_now' = stop_now /\ stop' = stop /\ in_dispatch' = in_dispatch
    BY <1>1 DEF flags
  <2>7. FramesSound'
    BY <2>4, <2>5, <2>6 DEF FramesSound, Node, Stopped
  <2>8. StackTyped'
    <3>1. n - 1 <= MaxDepth
      BY <2>1, BoundAssumption
    <3> QED BY <3>1, <2>3, <2>4, <2>5 DEF StackTyped
  <2>9. RingsTyped' /\ FlagsTyped'
    BY <2>6 DEF IInv, RingsTyped, FlagsTyped
  <2> QED BY <2>7, <2>8, <2>9 DEF IInv
<1> QED BY <1>3, <1>4

-----------------------------------------------------------------------------
(* The steps of the library.                                               *)

(* What the walk of a visit has left, whose cursor is still listed.        *)
LEMMA RemainingListed ==
  ASSUME RingsTyped, NEW f \in Frame, WalkSound(f, ring[Node(f)]), ~f.disturbed \/ Careful
  PROVE  Remaining(f) = {IF f.cursor = NULL THEN ring[Node(f)]
                         ELSE Following(ring[Node(f)], f.cursor)}
  BY DEF Remaining, Following, WalkSound

LEMMA FollowingListed ==
  ASSUME NEW list \in Seq(Entry), Injective(list), NULL \notin ToSet(list), NEW r,
         r = NULL \/ r \in ToSet(list), NEW i \in DOMAIN Following(list, r)
  PROVE  Following(list, r)[i] \in ToSet(list)
<1>1. CASE r = NULL
  BY <1>1 DEF Following, ToSet
<1>2. CASE r # NULL
  <2>1. PICK p \in DOMAIN list : list[p] = r
    BY <1>2 DEF ToSet
  <2>2. /\ DOMAIN Following(list, r) = 1 .. Len(list) - p
        /\ \A j \in 1 .. Len(list) - p : Following(list, r)[j] = list[p + j]
    BY <2>1, <1>2, FollowingProperties
  <2>3. Following(list, r)[i] = list[p + i] /\ i \in 1 .. Len(list) - p
    BY <2>2
  <2>4. p + i \in DOMAIN list
    BY <2>3, LenProperties
  <2> QED BY <2>3, <2>4 DEF ToSet
<1> QED BY <1>1, <1>2

(* A careful client's listeners are called only while they are listed.     *)
LEMMA RemainingAreListed ==
  ASSUME RingsTyped, NEW f \in Frame, WalkSound(f, ring[Node(f)]), Careful,
         NEW list \in Remaining(f), NEW i \in DOMAIN list
  PROVE  list[i] \in ToSet(ring[Node(f)])
<1> DEFINE whole == ring[Node(f)]
<1>1. whole \in Seq(Entry) /\ Injective(whole)
  BY FrameList
<1>2. f.cursor = NULL \/ f.cursor \in ToSet(whole)
  BY DEF WalkSound
<1>3. list = IF f.cursor = NULL THEN whole ELSE Following(whole, f.cursor)
  BY RemainingListed
<1>4. Following(whole, NULL) = whole
  BY DEF Following
<1>5. NULL \notin ToSet(whole)
  BY <1>1, NullAssumption, LenProperties, ElementOfSeq DEF ToSet
<1> HIDE DEF whole
<1>6. list = Following(whole, f.cursor)
  BY <1>3, <1>4
<1>7. list[i] \in ToSet(whole)
  BY <1>1, <1>2, <1>5, <1>6, FollowingListed
<1> QED BY <1>7 DEF whole

LEMMA CallStep ==
  ASSUME IInv, Call
  PROVE  IInv'
<1> DEFINE whole == ring[Node(Top)]
<1>1. /\ stack # <<>>
      /\ ~Top.running
      /\ Top.phase \in Phases
      /\ UNCHANGED <<ring, flags>>
  BY DEF Call, LibraryActs
<1>2. /\ Top \in Frame
      /\ WalkSound(Top, whole)
      /\ StopSound(Top, Stopped(Top.event))
      /\ RingsTyped
      /\ whole \in Seq(Entry)
      /\ Injective(whole)
  BY <1>1, TopFacts, FrameList DEF FrameSound, IInv
<1>3. PICK list \in Remaining(Top) :
        /\ FirstMatch(Top, list) > 0
        /\ Become([Top EXCEPT !.cursor  = list[FirstMatch(Top, list)],
                              !.called  = IF Top.disturbed THEN @
                                          ELSE Append(@, list[FirstMatch(Top, list)]),
                              !.owed    = Owed(Top) \ {list[FirstMatch(Top, list)]},
                              !.heard   = TRUE,
                              !.running = TRUE])
  BY DEF Call
<1> DEFINE r == list[FirstMatch(Top, list)]
           g == [Top EXCEPT !.cursor  = r,
                            !.called  = IF Top.disturbed THEN @ ELSE Append(@, r),
                            !.owed    = Owed(Top) \ {r},
                            !.heard   = TRUE,
                            !.running = TRUE]
<1>4. list \in Seq(Entry)
  BY <1>2, RemainingTyped
<1>5. r \in Entry
  BY <1>3, <1>4, FirstMatchProperties, LenProperties, ElementOfSeq
<1>6. Become(g)
  BY <1>3
<1> HIDE DEF r
<1>7. Top.called \in Seq(Entry)
  BY <1>2 DEF Frame
<1>8. /\ Append(Top.called, r) \in Seq(Entry)
      /\ Owed(Top) \ {r} \in SUBSET Entry
  <2>1. ToSet(whole) \subseteq Entry
    BY <1>2, ElementOfSeq DEF ToSet
  <2>2. Top.owed \in SUBSET Entry
    BY <1>2 DEF Frame
  <2>3. Owed(Top) \in SUBSET Entry
    BY <2>1, <2>2 DEF Owed, Due, whole
  <2> QED BY <1>5, <1>7, <2>3, AppendProperties
<1>9. /\ g \in Frame
      /\ g.event = Top.event
      /\ g.at = Top.at
      /\ g.phase = Top.phase
      /\ g.cursor = r
      /\ g.disturbed = Top.disturbed
      /\ ~Top.disturbed => g.called = Append(Top.called, r)
      /\ g.heard
      /\ g.running
  BY <1>2, <1>5, <1>8 DEF Frame
<1> HIDE DEF g
<1>10. r # NULL
  BY <1>5, NullAssumption
<1>11. ASSUME ~Top.disturbed
       PROVE  r \in ToSet(whole) /\ InOrder(g, whole)
  <2>1. list = IF Top.cursor = NULL THEN whole ELSE Following(whole, Top.cursor)
    BY <1>2, <1>3, <1>11, RemainingListed
  <2> HIDE DEF whole
  <2>2. CASE Top.cursor = NULL
    <3>1. list = whole
      BY <2>1, <2>2
    <3>2. Top.called = <<>>
      BY <1>2, <2>2 DEF WalkSound
    <3>3. /\ FirstMatch(Top, whole) > 0
          /\ g.cursor = whole[FirstMatch(Top, whole)]
          /\ g.called = Append(<<>>, whole[FirstMatch(Top, whole)])
      BY <1>3, <1>9, <1>11, <3>1, <3>2 DEF r
    <3>4. g.cursor \in ToSet(whole) /\ InOrder(g, whole)
      BY <1>2, <1>9, <3>3, FirstCallInOrder
    <3> QED BY <3>4, <1>9
  <2>3. CASE Top.cursor # NULL
    <3>1. list = Following(whole, Top.cursor)
      BY <2>1, <2>3
    <3>2. Top.cursor \in ToSet(whole) /\ InOrder(Top, whole)
      BY <1>2, <1>11, <2>3 DEF WalkSound
    <3>3. /\ FirstMatch(Top, list) > 0
          /\ g.cursor = list[FirstMatch(Top, list)]
          /\ g.called = Append(Top.called, list[FirstMatch(Top, list)])
      BY <1>3, <1>9, <1>11 DEF r
    <3>4. g.cursor \in ToSet(whole) /\ InOrder(g, whole)
      BY <1>2, <1>9, <2>3, <3>1, <3>2, <3>3, NextCallInOrder
    <3> QED BY <3>4, <1>9
  <2> QED BY <2>2, <2>3
<1>12. Careful => r \in ToSet(whole)
  <2> SUFFICES ASSUME Careful
               PROVE  r \in ToSet(whole)
    OBVIOUS
  <2>1. FirstMatch(Top, list) \in DOMAIN list
    BY <1>3, <1>4, FirstMatchProperties
  <2> QED BY <1>2, <2>1, RemainingAreListed DEF r
<1>13. Node(g) = Node(Top)
  BY <1>9 DEF Node
<1>14. WalkSound(g, whole)
  BY <1>1, <1>9, <1>10, <1>11, <1>12 DEF WalkSound
<1>15. StopSound(g, Stopped(g.event))
  <2>1. g.phase # "started"
    BY <1>1, <1>9 DEF Phases
  <2> QED BY <2>1, <1>9, <1>10 DEF StopSound
<1>16. FrameSound(g, ring[Node(g)], Stopped(g.event))
  BY <1>9, <1>13, <1>14, <1>15 DEF FrameSound
<1> QED BY <1>1, <1>6, <1>9, <1>16, TopStep

LEMMA LeaveStep ==
  ASSUME IInv, Leave
  PROVE  IInv'
<1> DEFINE left == [Top EXCEPT !.cursor = NULL, !.called = <<>>, !.disturbed = FALSE,
                             !.owed = {}]
           g == IF Stopped(Top.event) THEN Ended(left, "finished") ELSE Onward(left)
<1>1. /\ stack # <<>>
      /\ ~Top.running
      /\ Top.phase \in Phases
      /\ UNCHANGED <<ring, flags>>
      /\ Become(g)
  BY DEF Leave, LibraryActs
<1>2. Top \in Frame
  BY <1>1, TopFacts
<1>3. <<>> \in Seq(Entry)
  BY EmptySeq
<1>4. /\ left \in Frame
      /\ left.phase = Top.phase
      /\ left.event = Top.event
      /\ left.cursor = NULL
      /\ left.called = <<>>
      /\ ~left.disturbed
      /\ left.running = Top.running
  BY <1>2, <1>3 DEF Frame
<1> HIDE DEF left
<1>5. /\ g \in Frame
      /\ Alike(left, g)
      /\ Stopped(Top.event) => g.phase = "finished"
      /\ g.phase # "started"
      /\ g.phase # "over"
  <2>1. CASE Stopped(Top.event)
    BY <2>1, <1>4, EndedProperties
  <2>2. CASE ~Stopped(Top.event)
    <3>1. left.phase # "over" /\ left.phase # "finished"
      BY <1>1, <1>4 DEF Phases
    <3> QED BY <2>2, <3>1, <1>4, OnwardProperties
  <2> QED BY <2>1, <2>2
<1> HIDE DEF g
<1>6. FrameSound(g, ring[Node(g)], Stopped(g.event))
  BY <1>1, <1>4, <1>5 DEF FrameSound, WalkSound, StopSound, Alike
<1> QED BY <1>1, <1>5, <1>6, TopStep

LEMMA CallBackStep ==
  ASSUME IInv, CallBack
  PROVE  IInv'
<1> DEFINE f == Onward(Top)
           g == [f EXCEPT !.running = TRUE]
<1>1. /\ stack # <<>>
      /\ Top.phase \in Callbacks
      /\ UNCHANGED <<ring, flags>>
      /\ Become(g)
  BY DEF CallBack, LibraryActs
<1>2. /\ Top \in Frame
      /\ WalkSound(Top, ring[Node(Top)])
      /\ StopSound(Top, Stopped(Top.event))
  BY <1>1, TopFacts DEF FrameSound
<1>3. Top.phase # "over" /\ Top.phase \notin Phases
  BY <1>1 DEF Phases, Callbacks
<1>4. /\ f \in Frame
      /\ Alike(Top, f)
      /\ f.phase # "started"
      /\ Top.phase = "end" => f.phase = "finished"
      /\ Top.phase = "finished" => f.phase = "over"
  BY <1>2, <1>3, OnwardProperties
<1> HIDE DEF f
<1>5. /\ g \in Frame
      /\ g.phase = f.phase
      /\ g.event = f.event
      /\ g.cursor = f.cursor
      /\ g.called = f.called
      /\ g.disturbed = f.disturbed
      /\ g.heard = f.heard
      /\ g.running
  BY <1>4 DEF Frame
<1> HIDE DEF g
<1>6. g.cursor = NULL /\ g.called = <<>> /\ ~g.disturbed
  BY <1>2, <1>3, <1>4, <1>5 DEF WalkSound, Alike
<1>7. g.heard => g.phase \in {"finished", "over"}
  BY <1>1, <1>2, <1>4, <1>5 DEF StopSound, Alike, Callbacks
<1>8. FrameSound(g, ring[Node(g)], Stopped(g.event))
  BY <1>4, <1>5, <1>6, <1>7 DEF FrameSound, WalkSound, StopSound
<1> QED BY <1>1, <1>5, <1>8, TopStep

-----------------------------------------------------------------------------
(* The invariant and what follows from it.                                 *)

LEMMA InitIInv == Init => IInv
<1> SUFFICES ASSUME Init
             PROVE  IInv
  OBVIOUS
<1>1. /\ ring = [n \in Target |-> <<>>]
      /\ in_dispatch = [e \in Event |-> FALSE]
      /\ stop = [e \in Event |-> FALSE]
      /\ stop_now = [e \in Event |-> FALSE]
      /\ stack = <<>>
  BY DEF Init
<1>2. <<>> \in Seq(Entry) /\ <<>> \in Seq(Frame) /\ Len(<<>>) = 0 /\ DOMAIN <<>> = {}
  BY EmptySeq, LenProperties
<1>3. RingsTyped
  BY <1>1, <1>2 DEF RingsTyped, Injective
<1>4. FlagsTyped
  BY <1>1 DEF FlagsTyped
<1>5. StackTyped /\ FramesSound
  BY <1>1, <1>2, BoundAssumption DEF StackTyped, FramesSound
<1> QED BY <1>3, <1>4, <1>5 DEF IInv

(* A step preserves the invariant.                                         *)
LEMMA StepIInv == IInv /\ [Next]_vars => IInv'
<1> SUFFICES ASSUME IInv, [Next]_vars
             PROVE  IInv'
  OBVIOUS
<1>1. CASE Registers
  BY <1>1, AddListenerStep DEF Registers
<1>2. CASE Removes
  BY <1>2, RemoveListenerStep DEF Removes
<1>3. ASSUME NEW e \in Event,
             StopPropagation(e) \/ StopImmediatePropagation(e) \/ DispatchUninitialised(e)
      PROVE  IInv'
  BY <1>3, StopSteps
<1>4. ASSUME NEW e \in Event, NEW i \in DOMAIN Path, Dispatch(i, e)
      PROVE  IInv'
  BY <1>4, DispatchStep
<1>5. CASE Return
  BY <1>5, ReturnStep
<1>6. CASE Call
  BY <1>6, CallStep
<1>7. CASE Leave
  BY <1>7, LeaveStep
<1>8. CASE CallBack
  BY <1>8, CallBackStep
<1>9. CASE UNCHANGED vars
  BY <1>9 DEF vars, flags, IInv, RingsTyped, FlagsTyped, StackTyped, FramesSound,
              Node, Stopped
<1> QED BY <1>1, <1>2, <1>3, <1>4, <1>5, <1>6, <1>7, <1>8, <1>9 DEF Next

(* The lists of listeners and the walks of all dispatches in progress are  *)
(* as the invariant says, whatever listeners do to the lists meanwhile.    *)
THEOREM DispatchInvariance == Spec => []IInv
<1>1. Init => IInv
  BY InitIInv
<1>2. IInv /\ [Next]_vars => IInv'
  BY StepIInv
<1> QED BY <1>1, <1>2, PTL DEF Spec

(* Listeners run in the order of the node's list, each once, until one is  *)
(* removed during the visit; a node lists only its own registrations.      *)
THEOREM ListenersRunInOrder == Spec => []WalksAreOrderly
<1>1. IInv => WalksAreOrderly
  <2> SUFFICES ASSUME IInv
               PROVE  WalksAreOrderly
    OBVIOUS
  <2>1. ASSUME NEW n \in Target
        PROVE  /\ \A r \in ToSet(ring[n]) : r \in Entry /\ Reg[r].node = n
               /\ IsInjective(ring[n])
    <3>1. ring[n] \in Seq(Entry) /\ Injective(ring[n])
      BY DEF IInv, RingsTyped
    <3>2. \A k \in DOMAIN ring[n] : ring[n][k] \in Entry /\ Reg[ring[n][k]].node = n
      BY <3>1, LenProperties, ElementOfSeq DEF IInv, RingsTyped
    <3> QED BY <3>1, <3>2 DEF ToSet, Injective, IsInjective
  <2>2. {in_dispatch, stop, stop_now} \subseteq [Event -> BOOLEAN]
    BY DEF IInv, FlagsTyped
  <2>3. ASSUME NEW i \in DOMAIN stack
        PROVE  /\ stack[i].event \in Event
               /\ stack[i].cursor \in Entry \cup {NULL}
               /\ i < Len(stack) => stack[i].running
    BY StackFields DEF IInv, StackTyped, Frame
  <2>4. TypeOK
    BY <2>1, <2>2, <2>3 DEF TypeOK, IInv, StackTyped
  <2>5. CalledInOrder
    BY DEF CalledInOrder, IInv, FramesSound, FrameSound, WalkSound
  <2> QED BY <2>4, <2>5 DEF WalksAreOrderly
<1> QED BY <1>1, DispatchInvariance, PTL

(* A visit that ends undisturbed and not stopped has called every listener *)
(* of the list that it should, those registered during the visit included. *)
THEOREM NoListenerIsSkipped == Spec => NothingSkipped
<1> DEFINE Complete == \/ Top.disturbed
                       \/ BrokenOff(Top)
                       \/ ToSet(Top.called) = Due(Top, ring[Node(Top)])
<1>1. IInv /\ [Next]_vars => [Leave => Complete]_vars
  <2> SUFFICES ASSUME IInv, Leave, ~Top.disturbed, ~BrokenOff(Top)
               PROVE  ToSet(Top.called) = Due(Top, ring[Node(Top)])
    OBVIOUS
  <2> DEFINE f == Top
             whole == ring[Node(f)]
  <2>1. /\ f \in Frame
        /\ WalkSound(f, whole)
        /\ RingsTyped
        /\ whole \in Seq(Entry)
        /\ Injective(whole)
    BY TopFacts, FrameList DEF FrameSound, IInv, Leave, LibraryActs
  <2>2. PICK list \in Remaining(f) : FirstMatch(f, list) = 0
    BY DEF Leave
  <2>3. list = IF f.cursor = NULL THEN whole ELSE Following(whole, f.cursor)
    BY <2>1, <2>2, RemainingListed
  <2>4. list \in Seq(Entry)
    BY <2>1, <2>2, RemainingTyped
  <2>5. \A i \in DOMAIN list : ~Matches(f, list[i])
    BY <2>2, <2>4, FirstMatchProperties
  <2> HIDE DEF whole, f
  <2>6. CASE f.cursor = NULL
    <3>1. f.called = <<>>
      BY <2>1, <2>6 DEF WalkSound
    <3>2. ToSet(f.called) = {}
      BY <3>1 DEF ToSet
    <3>3. Due(f, whole) = {}
      BY <2>3, <2>5, <2>6 DEF Due, ToSet
    <3> QED BY <3>2, <3>3 DEF f, whole
  <2>7. CASE f.cursor # NULL
    <3>1. f.cursor \in ToSet(whole) /\ InOrder(f, whole)
      BY <2>1, <2>7 DEF WalkSound, f
    <3>2. PICK p \in DOMAIN whole : whole[p] = f.cursor
      BY <3>1 DEF ToSet
    <3>3. /\ DOMAIN list = 1 .. Len(whole) - p
          /\ \A i \in 1 .. Len(whole) - p : list[i] = whole[p + i]
      BY <2>1, <2>3, <2>7, <3>2, FollowingProperties
    <3>4. Len(whole) \in Nat /\ DOMAIN whole = 1 .. Len(whole)
      BY <2>1, LenProperties
    <3>5. Position(whole, f.cursor) = p
      BY <2>1, <3>2, PositionProperties
    <3>6. ASSUME NEW r \in Due(f, whole)
          PROVE  Position(whole, r) <= p
      <4>1. PICK i \in DOMAIN whole : whole[i] = r
        BY DEF Due, ToSet
      <4>2. Position(whole, r) = i
        BY <2>1, <4>1, PositionProperties
      <4>3. Matches(f, whole[i])
        BY <4>1 DEF Due
      <4>4. ~(p < i)
        <5> SUFFICES ASSUME p < i
                     PROVE  FALSE
          OBVIOUS
        <5>1. i - p \in 1 .. Len(whole) - p /\ p + (i - p) = i
          BY <3>2, <3>4, <4>1
        <5> QED BY <5>1, <3>3, <4>3, <2>5
      <4> QED BY <4>2, <4>4, <3>2, <3>4
    <3>7. ToSet(f.called) = Due(f, whole)
      BY <3>1, <3>5, <3>6 DEF InOrder
    <3> QED BY <3>7 DEF f, whole
  <2> QED BY <2>6, <2>7
<1> QED BY <1>1, DispatchInvariance, PTL DEF Spec, NothingSkipped

(* What a listener stops stays stopped: no listener of the dispatch is     *)
(* called after stopImmediatePropagation, none of a later visit after      *)
(* stopPropagation.                                                        *)
THEOREM StoppingIsFinal == Spec => StopIsFinal
<1> DEFINE Goes == /\ ~stop_now[Top.event]
                   /\ stop[Top.event] => Top.cursor # NULL
<1>1. IInv /\ [Next]_vars => [Call /\ Top.heard => Goes]_vars
  <2> SUFFICES ASSUME IInv, Call, Top.heard
               PROVE  Goes
    OBVIOUS
  <2>1. StopSound(Top, Stopped(Top.event))
    BY TopFacts DEF FrameSound, Call, LibraryActs
  <2>2. Top.phase \in Phases /\ ~BrokenOff(Top)
    BY DEF Call
  <2>3. Top.cursor = NULL => ~Stopped(Top.event)
    BY <2>1, <2>2 DEF StopSound, Phases
  <2> QED BY <2>2, <2>3 DEF Stopped, BrokenOff
<1> QED BY <1>1, DispatchInvariance, PTL DEF Spec, StopIsFinal

(* A careful client, which does not remove a registration while it is      *)
(* being called, never sees a listener called after its removal.           *)
THEOREM CarefulNeverAfterRemoval ==
  ASSUME Careful
  PROVE  Spec => NeverAfterRemoval
<1>1. IInv /\ [Next]_vars => [Call => Top'.cursor \in ToSet(ring[Node(Top)])]_vars
  <2> SUFFICES ASSUME IInv, Call
               PROVE  Top'.cursor \in ToSet(ring[Node(Top)])
    OBVIOUS
  <2>1. stack # <<>>
    BY DEF Call, LibraryActs
  <2>2. /\ Top \in Frame
        /\ WalkSound(Top, ring[Node(Top)])
        /\ RingsTyped
    BY <2>1, TopFacts DEF FrameSound, IInv
  <2>3. PICK list \in Remaining(Top) :
          /\ FirstMatch(Top, list) > 0
          /\ Become([Top EXCEPT !.cursor  = list[FirstMatch(Top, list)],
                                !.called  = IF Top.disturbed THEN @
                                            ELSE Append(@, list[FirstMatch(Top, list)]),
                                !.owed    = Owed(Top) \ {list[FirstMatch(Top, list)]},
                                !.heard   = TRUE,
                                !.running = TRUE])
    BY DEF Call
  <2> DEFINE r == list[FirstMatch(Top, list)]
             g == [Top EXCEPT !.cursor  = r,
                              !.called  = IF Top.disturbed THEN @ ELSE Append(@, r),
                              !.owed    = Owed(Top) \ {r},
                              !.heard   = TRUE,
                              !.running = TRUE]
  <2>4. FirstMatch(Top, list) \in DOMAIN list
    BY <2>2, <2>3, RemainingTyped, FirstMatchProperties
  <2>5. r \in ToSet(ring[Node(Top)])
    BY <2>2, <2>4, RemainingAreListed
  <2>6. g.cursor = r
    BY <2>2 DEF Frame
  <2>7. stack' = [stack EXCEPT ![Len(stack)] = g]
    BY <2>3 DEF Become
  <2> HIDE DEF g, r
  <2>8. Len(stack) \in DOMAIN stack /\ DOMAIN stack = 1 .. Len(stack) /\ Len(stack) \in Nat
    BY <2>1, StackFields DEF IInv
  <2>9. Len(stack') = Len(stack)
    BY <2>7, <2>8
  <2>10. stack'[Len(stack')] = g
    BY <2>7, <2>8, <2>9
  <2> QED BY <2>5, <2>6, <2>10 DEF Top, Last
<1> QED BY <1>1, DispatchInvariance, PTL DEF Spec, NeverAfterRemoval
=============================================================================
