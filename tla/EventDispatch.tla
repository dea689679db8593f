---------------------------- MODULE EventDispatch ----------------------------
(***************************************************************************)
(* Dispatching events to listeners that change the lists of listeners      *)
(* (src/core/node.c, src/events/event_target.c, src/events/event.c).       *)
(*                                                                         *)
(* A node keeps its registrations on a circular list.  A dispatch visits   *)
(* the listening nodes between the target and the root, and at each of     *)
(* them walks that list and calls listeners, which run to their end inside *)
(* the walk: they may register and remove listeners, stop the event and    *)
(* dispatch other events before they return.  The library's steps and      *)
(* those of the running listener alternate; `stack' holds the dispatches   *)
(* in progress, innermost last.                                            *)
(*                                                                         *)
(* preventDefault is left out: it sets a flag that steers nothing here but *)
(* which callback, END or PREVENTED, is made for the default action (one   *)
(* callback, "end", below) and what the caller is told in the end.         *)
(***************************************************************************)
EXTENDS Naturals, SequencesExt

CONSTANTS
  Path,      \* a node, its parent, .. up to the root
  Entry,     \* the registrations (listener_entry) a run may make
  Reg,       \* what each of them says
  Listener,  \* the listeners
  EventType, \* the types registered for
  Event,     \* the events a client creates
  Type,      \* the type each is initialised with
  MaxDepth,  \* bound: dispatches inside one another
  Careful,   \* whether a registration being called is left alone
  NULL

Target == ToSet(Path)

ASSUME PathAssumption == Path \in Seq(Target) /\ IsInjective(Path) /\ Path # <<>>
ASSUME RegAssumption ==
  Reg \in [Entry -> [node : Target, type : EventType,
                     listener : Listener, capture : BOOLEAN]]
ASSUME TypeAssumption == Type \in [Event -> EventType]
ASSUME BoundAssumption == MaxDepth \in Nat \ {0}
ASSUME CarefulAssumption == Careful \in BOOLEAN
ASSUME NullAssumption == NULL \notin Entry \cup Target \cup EventType

VARIABLES
  ring,         \* the list of each node, from eti->listeners along next
  in_dispatch,  \* dom_event.in_dispatch
  stop,         \* dom_event.stop: stopPropagation was called
  stop_now,     \* dom_event.stop_now: stopImmediatePropagation was called
  stack         \* the dispatches in progress

flags == <<in_dispatch, stop, stop_now>>
vars == <<ring, flags, stack>>

-----------------------------------------------------------------------------
(* The stations of a dispatch: callbacks of the default action, and visits *)
(* to nodes.                                                               *)

Callbacks == {"started", "end", "finished"}
Phases == {"capture", "target", "bubble"}

(* Where the target and its ancestors have a listener for the type.        *)
Listening(i, type) ==
  {k \in i .. Len(Path) : \E r \in ToSet(ring[Path[k]]) : Reg[r].type = type}

(* One dispatch in progress, at Path[at].  The last four fields are        *)
(* histories: the registrations called in this visit until it is           *)
(* disturbed, whether one was removed during it, those registered before   *)
(* the visit and still, which it has not called yet, and whether the       *)
(* dispatch called any listener.                                           *)
Begun(i, event) ==
  [event     |-> event,
   target    |-> i,
   targets   |-> Listening(i, Type[event]),  \* found before the first call
   phase     |-> "started",
   at        |-> i,
   cursor    |-> NULL,                 \* le: the registration called last
   running   |-> FALSE,                \* the client's code is running
   called    |-> <<>>,
   disturbed |-> FALSE,
   owed      |-> {},
   heard     |-> FALSE]

(* Capturing goes up the list of targets from its end, bubbling down it.   *)
Captures(f, left) ==
  IF left = {} THEN [f EXCEPT !.phase = "target", !.at = f.target]
  ELSE [f EXCEPT !.phase = "capture", !.at = Max(left)]

(* No target is left to visit.                                             *)
Ended(f, phase) == [f EXCEPT !.phase = phase, !.targets = {}, !.at = f.target]

Bubbles(f, left) ==
  IF left = {} THEN Ended(f, "end")
  ELSE [f EXCEPT !.phase = "bubble", !.targets = left, !.at = Min(left)]

Onward(f) ==
  CASE f.phase = "started"  -> Captures(f, f.targets)
    [] f.phase = "capture"  -> Captures(f, {k \in f.targets : k < f.at})
    [] f.phase = "target"   -> Bubbles(f, f.targets)
    [] f.phase = "bubble"   -> Bubbles(f, {k \in f.targets : k > f.at})
    [] f.phase = "end"      -> [f EXCEPT !.phase = "finished"]
    [] f.phase = "finished" -> [f EXCEPT !.phase = "over"]

Top == Last(stack)
Node(f) == Path[f.at]
Become(f) == stack' = [stack EXCEPT ![Len(stack)] = f]

ClientActs == stack # <<>> => Top.running
LibraryActs == stack # <<>> /\ ~Top.running

-----------------------------------------------------------------------------
(* Registering and removing.                                               *)

(* Mutant: a new registration becomes the head of the list.                *)
Appended_AtHead(list, r) == <<r>> \o list

Appended(list, r) == Append(list, r)

AddListener(r) ==
  LET n == Reg[r].node
  IN  /\ ClientActs
      /\ r \notin ToSet(ring[n])
      /\ ring' = [ring EXCEPT ![n] = Appended(@, r)]
      /\ UNCHANGED <<flags, stack>>

(* The head of the list moves behind the removed registration, wherever    *)
(* that was: the list comes out rotated.                                   *)
Removed(list, k) == SubSeq(list, k + 1, Len(list)) \o SubSeq(list, 1, k - 1)

(* The first match is removed; without a type, any of the listener's.      *)
RemoveListener(n, type, listener, capture) ==
  LET matches(r) == /\ Reg[r].listener = listener
                    /\ type # NULL => Reg[r].type = type /\ Reg[r].capture = capture
      k == SelectInSeq(ring[n], matches)
      called == {f \in ToSet(stack) : f.cursor = ring[n][k]}
      AtNode(f) == f.cursor # NULL /\ Node(f) = n
  IN  /\ ClientActs
      /\ k > 0
      /\ Careful => called = {}
      /\ ring' = [ring EXCEPT ![n] = Removed(@, k)]
      /\ stack' = [i \in DOMAIN stack |->
                     IF AtNode(stack[i])
                     THEN [stack[i] EXCEPT !.disturbed = TRUE, !.called = <<>>,
                                           !.owed = @ \ {ring[n][k]}]
                     ELSE stack[i]]
      /\ UNCHANGED flags

-----------------------------------------------------------------------------
(* What else a client does.                                                *)

StopPropagation(event) ==
  /\ ClientActs
  /\ stop' = [stop EXCEPT ![event] = TRUE]
  /\ UNCHANGED <<ring, in_dispatch, stop_now, stack>>

StopImmediatePropagation(event) ==
  /\ ClientActs
  /\ stop_now' = [stop_now EXCEPT ![event] = TRUE]
  /\ UNCHANGED <<ring, in_dispatch, stop, stack>>

(* Dispatching an event that has no type yet marks it all the same.        *)
DispatchUninitialised(event) ==
  /\ ClientActs
  /\ ~in_dispatch[event]
  /\ in_dispatch' = [in_dispatch EXCEPT ![event] = TRUE]
  /\ UNCHANGED <<ring, stop, stop_now, stack>>

Dispatch(i, event) ==
  /\ ClientActs
  /\ Len(stack) < MaxDepth
  /\ ~in_dispatch[event]
  /\ in_dispatch' = [in_dispatch EXCEPT ![event] = TRUE]
  /\ stack' = Append(stack, Begun(i, event))
  /\ UNCHANGED <<ring, stop, stop_now>>

Return ==
  /\ stack # <<>>
  /\ Top.running
  /\ IF Top.phase = "over" THEN stack' = Front(stack)
     ELSE Become([Top EXCEPT !.running = FALSE])
  /\ UNCHANGED <<ring, flags>>

-----------------------------------------------------------------------------
(* The library between two calls of the client's code.                     *)

Matches(f, r) ==
  /\ Reg[r].type = Type[f.event]
  /\ f.phase = "capture" => Reg[r].capture
  /\ f.phase = "bubble" => ~Reg[r].capture

(* The registrations that the walk of a list ought to call.                *)
Due(f, list) == {r \in ToSet(list) : Matches(f, r)}

Owed(f) == IF f.cursor = NULL THEN Due(f, ring[Node(f)]) ELSE f.owed

FirstMatch(f, list) == SelectInSeq(list, LAMBDA r : Matches(f, r))

Position(list, r) == SelectInSeq(list, LAMBDA x : x = r)

(* Mutants: the walk leaves out the last registration; it does not end at  *)
(* the head.                                                               *)
Following_NotLast(list, r) ==
  IF r = NULL THEN list
  ELSE SubSeq(list, Position(list, r) + 1, Len(list) - 1)

Following_PastHead(list, r) ==
  IF r = NULL THEN list
  ELSE LET k == Position(list, r)
       IN  SubSeq(list, k + 1, Len(list)) \o SubSeq(list, 1, k)

(* The registrations that follow r before the head, all of them before the *)
(* first step.                                                             *)
Following(list, r) ==
  IF r = NULL THEN list
  ELSE SubSeq(list, Position(list, r) + 1, Len(list))

(* A registration that was removed is freed, and its next is read from     *)
(* freed memory: itself, as list_del left it, or anything listed.          *)
Remaining(f) ==
  LET list == ring[Node(f)]
  IN  IF f.cursor = NULL \/ f.cursor \in ToSet(list)
      THEN {Following(list, f.cursor)}
      ELSE {<<f.cursor>> \o list} \cup {SubSeq(list, k, Len(list)) : k \in 1 .. Len(list) + 1}

(* Mutant: stopImmediatePropagation does not end the visit.                *)
BrokenOff_Never(f) == FALSE

BrokenOff(f) == f.cursor # NULL /\ stop_now[f.event]

Call ==
  /\ LibraryActs
  /\ Top.phase \in Phases
  /\ ~BrokenOff(Top)
  /\ \E list \in Remaining(Top) :
       LET k == FirstMatch(Top, list)
       IN  /\ k > 0
           /\ Become([Top EXCEPT !.cursor  = list[k],
                                 !.called  = IF Top.disturbed THEN @
                                             ELSE Append(@, list[k]),
                                 !.owed    = Owed(Top) \ {list[k]},
                                 !.heard   = TRUE,
                                 !.running = TRUE])
  /\ UNCHANGED <<ring, flags>>

Stopped(event) == stop_now[event] \/ stop[event]

(* A visit ends where the walk does.  A stopped event goes to its end, and *)
(* of the callbacks only the last is made.                                 *)
Leave ==
  /\ LibraryActs
  /\ Top.phase \in Phases
  /\ BrokenOff(Top) \/ \E list \in Remaining(Top) : FirstMatch(Top, list) = 0
  /\ LET left == [Top EXCEPT !.cursor = NULL, !.called = <<>>, !.disturbed = FALSE,
                             !.owed = {}]
     IN  Become(IF Stopped(Top.event) THEN Ended(left, "finished")
                ELSE Onward(left))
  /\ UNCHANGED <<ring, flags>>

(* A callback of the default action.                                       *)
CallBack ==
  /\ LibraryActs
  /\ Top.phase \in Callbacks
  /\ Become([Onward(Top) EXCEPT !.running = TRUE])
  /\ UNCHANGED <<ring, flags>>

-----------------------------------------------------------------------------
Init ==
  /\ ring        = [n \in Target |-> <<>>]
  /\ in_dispatch = [e \in Event |-> FALSE]
  /\ stop        = [e \in Event |-> FALSE]
  /\ stop_now    = [e \in Event |-> FALSE]
  /\ stack       = <<>>

Registers == \E r \in Entry : AddListener(r)

Removes ==
  \E n \in Target, type \in EventType \cup {NULL}, listener \in Listener,
     capture \in BOOLEAN : RemoveListener(n, type, listener, capture)

Next ==
  \/ Registers
  \/ Removes
  \/ \E e \in Event : \/ StopPropagation(e)
                      \/ StopImmediatePropagation(e)
                      \/ DispatchUninitialised(e)
                      \/ \E i \in DOMAIN Path : Dispatch(i, e)
  \/ Return
  \/ Call
  \/ Leave
  \/ CallBack

Spec == Init /\ [][Next]_vars

(* The library does not wait, and listeners return.                        *)
FairSpec == Spec /\ WF_vars(Call) /\ WF_vars(Leave) /\ WF_vars(CallBack) /\ WF_vars(Return)

-----------------------------------------------------------------------------
(* Properties.                                                             *)

(* Types; a node lists only its own registrations, each once.              *)
TypeOK ==
  /\ \A n \in Target : /\ \A r \in ToSet(ring[n]) : r \in Entry /\ Reg[r].node = n
                        /\ IsInjective(ring[n])
  /\ {in_dispatch, stop, stop_now} \subseteq [Event -> BOOLEAN]
  /\ Len(stack) <= MaxDepth
  /\ \A i \in DOMAIN stack :
       /\ stack[i].event \in Event
       /\ stack[i].cursor \in Entry \cup {NULL}
       /\ i < Len(stack) => stack[i].running

(* Those up to the cursor were called, in their order.                     *)
InOrder(f, list) ==
  /\ ToSet(f.called) = {r \in Due(f, list) : Position(list, r) <= Position(list, f.cursor)}
  /\ \A j, k \in DOMAIN f.called :
       j < k => Position(list, f.called[j]) < Position(list, f.called[k])

(* Listeners run in the order of the list: when one runs, those before it  *)
(* ran, once each, unless a registration was removed during the visit      *)
(* (which rotates the list: then some may run twice or not at all).        *)
CalledInOrder ==
  \A i \in DOMAIN stack :
    stack[i].cursor # NULL /\ ~stack[i].disturbed =>
      InOrder(stack[i], ring[Node(stack[i])])

(* Both hold together: the lists are sound and are walked in order.        *)
WalksAreOrderly == TypeOK /\ CalledInOrder

(* A visit that nothing disturbed called every listener of the list that   *)
(* it should, those registered during the visit included.                  *)
NothingSkipped ==
  [][Leave => \/ Top.disturbed
              \/ BrokenOff(Top)
              \/ ToSet(Top.called) = Due(Top, ring[Node(Top)])]_vars

(* A listener is called whenever an event of its type occurs               *)
(* (test/dom2-events-interface.xml): a visit that is not broken off calls  *)
(* all that it should of those registered before it and still.  A listener *)
(* that removes another one makes the walk end too early.                  *)
CalledWheneverRegistered == [][Leave => BrokenOff(Top) \/ Top.owed = {}]_vars

(* The end of the event flow is followed by the callback of the default    *)
(* action, prevented or not (include/dom/events/document_event.h).         *)
DefaultActionFollows ==
  [][\A i \in DOMAIN stack \cap DOMAIN stack' :
       stack[i].phase \in Phases => stack'[i].phase \in Phases \cup {"end"}]_vars

(* What a listener stops stays stopped, whatever other listeners and       *)
(* nested dispatches do: after stopImmediatePropagation no listener of the *)
(* dispatch is called, after stopPropagation none in a later visit.        *)
StopIsFinal ==
  [][Call /\ Top.heard => /\ ~stop_now[Top.event]
                          /\ stop[Top.event] => Top.cursor # NULL]_vars

(* A listener that was removed is not called any more (dispatchEvent13 in  *)
(* test/testcases/tests/level2/events).                                    *)
NeverAfterRemoval ==
  [][Call => Top'.cursor \in ToSet(ring[Node(Top)])]_vars

(* Every dispatch comes to its end if listeners are not registered for     *)
(* ever; listeners may be removed, and events dispatched, all the time.    *)
Terminates == <>[][~Registers]_vars => []<>(stack = <<>>)
=============================================================================
