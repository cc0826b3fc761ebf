--------------------------- MODULE ClassAnimation ---------------------------
(***************************************************************************)
(* effects.core.js of the documentation pages: addClass, removeClass,      *)
(* toggleClass, morph and switchClass with a speed all go to animateClass, *)
(* which measures the style the class change would give, animates the      *)
(* difference through jQuery's fx queue of the element, and changes the    *)
(* classes for good only in the completion callback.                       *)
(*                                                                         *)
(* A class is a number; of several classes that set a property the one     *)
(* with the greatest number wins.  A style value is the class it comes     *)
(* from, 0 for the page's default, or Moving for a value between two.      *)
(***************************************************************************)
EXTENDS Naturals, Sequences, FiniteSets, Functions

CONSTANTS Pages,     \* the sets of elements a page may have
          MaxClass,  \* classes are 1 .. MaxClass
          Prop,      \* the properties an animation can change
          Sets,      \* Sets[c]: the properties class c sets
          MaxCalls   \* MaxCalls[n]: calls made on a page of n elements (bound)

Class == 1 .. MaxClass
None == 0                  \* no class
Unset == MaxClass + 1      \* a property the style attribute does not mention
Moving == MaxClass + 2
Value == 0 .. Moving

ASSUME ClassAnimationAssumption ==
  /\ MaxClass \in Nat
  /\ Sets \in [Class -> SUBSET Prop]
  /\ \A E \in Pages : IsFiniteSet(E) /\ MaxCalls[Cardinality(E)] \in Nat

VARIABLES
  element,  \* the elements of the page
  cls,      \* the classes of each element
  inline,   \* its style attribute
  busy,     \* whether its fx queue begins with jQuery's "inprogress" mark
  queue,    \* the animations that wait in it
  running,  \* its animations that have timers
  value,    \* the value object of each call, shared by the call's elements
  calls,    \* calls made so far
  todo,     \* elements the current call has still to visit
  want,     \* history: the classes if every call took effect at once
  own,      \* history: the style attribute of the page as it was loaded
  owed,     \* history: animations asked of each element less the callbacks run on it
  hasty     \* history: elements of a call made too early, or on elements that differ

vars == <<element, cls, inline, busy, queue, running, value, calls, todo, want, own, owed, hasty>>

Calls == MaxCalls[Cardinality(element)]
Call == 1 .. Calls
Style == [Prop -> Value]
ClassOrNone == 0 .. MaxClass
ValueObject == [toggle : ClassOrNone, add : ClassOrNone, remove : ClassOrNone]
NoValue == [toggle |-> None, add |-> None, remove |-> None]

Adding(c)      == [NoValue EXCEPT !.add = c]
Removing(c)    == [NoValue EXCEPT !.remove = c]
Toggling(c)    == [NoValue EXCEPT !.toggle = c]
Morphing(r, a) == [toggle |-> None, add |-> a, remove |-> r]

The(c) == {c} \ {None}

(* addClass and then removeClass of a value object, lines 90 and 107. *)
Changed(cs, v) == (cs \cup The(v.add)) \ The(v.remove)

(* removeClass and then addClass, line 92. *)
Unchanged(cs, v) == (cs \ The(v.add)) \cup The(v.remove)

(* mutant: the toggled class is always added *)
ResolvedToAdd(v, cs) == IF v.toggle = None THEN v ELSE [v EXCEPT !.add = v.toggle]

(* Line 86, on the value object the elements of the call share. *)
Resolved(v, cs) ==
  IF v.toggle = None THEN v
  ELSE IF v.toggle \in cs THEN [v EXCEPT !.remove = v.toggle]
                          ELSE [v EXCEPT !.add = v.toggle]

(* What a call asks of the classes cs, by the name of its method. *)
Asked(cs, v) ==
  IF v.toggle \in cs THEN cs \ {v.toggle}
  ELSE (cs \cup The(v.toggle) \cup The(v.add)) \ The(v.remove)

(* The computed style of an element with classes cs and style attribute st. *)
Computed(cs, st) ==
  [p \in Prop |->
     LET setters == {c \in cs : p \in Sets[c]}
     IN  IF st[p] # Unset THEN st[p]
         ELSE IF setters = {} THEN 0
         ELSE CHOOSE c \in setters : \A d \in setters : d <= c]

(* The properties a change of classes from cs to ds would change. *)
Offset(cs, ds, st) == {p \in Prop : Computed(cs, st)[p] # Computed(ds, st)[p]}

Animation == [call : Call, offset : SUBSET Prop, old : Style]

Idle(e) == running[e] = {} /\ ~busy[e]

TypeOK ==
  /\ element \in Pages
  /\ cls \in [element -> SUBSET Class]
  /\ inline \in [element -> Style]
  /\ busy \in [element -> BOOLEAN]
  /\ queue \in [element -> Seq(Animation)]
  /\ running \in [element -> SUBSET Animation]
  /\ value \in [Call -> ValueObject]
  /\ calls \in 0 .. Calls
  /\ todo \in Seq(element)
  /\ want \in [element -> SUBSET Class]
  /\ own \in [element -> Style]
  /\ owed \in [element -> Nat]
  /\ hasty \subseteq element

Init ==
  /\ element \in Pages
  /\ cls \in [element -> SUBSET Class]
  /\ inline \in [element -> [Prop -> {Unset, 0}]]
  /\ busy = [e \in element |-> FALSE]
  /\ queue = [e \in element |-> <<>>]
  /\ running = [e \in element |-> {}]
  /\ value = [c \in Call |-> NoValue]
  /\ calls = 0
  /\ todo = <<>>
  /\ want = cls
  /\ own = inline
  /\ owed = [e \in element |-> 0]
  /\ hasty = {}

(***************************************************************************)
(* jQuery.dequeue: the next animation, if there is one, starts at once and *)
(* writes its start values into the style attribute.                       *)
(***************************************************************************)
Started(q) == IF q = <<>> THEN {} ELSE {Head(q)}

StyleAfter(q, cs, st) ==
  [p \in Prop |-> IF \E a \in Started(q) : p \in a.offset
                  THEN Computed(cs, st)[p] ELSE st[p]]

(* mutant: the animation that starts stays in the queue *)
DequeueByPeeking(e, q, cs, st, rs) ==
  /\ busy' = [busy EXCEPT ![e] = q # <<>>]
  /\ queue' = [queue EXCEPT ![e] = q]
  /\ running' = [running EXCEPT ![e] = rs \cup Started(q)]
  /\ inline' = [inline EXCEPT ![e] = StyleAfter(q, cs, st)]
  /\ cls' = [cls EXCEPT ![e] = cs]

(* e is left with queue q, classes cs, style st and animations rs, and then *)
(* the next animation is taken from q.                                     *)
DequeueThen(e, q, cs, st, rs) ==
  /\ busy' = [busy EXCEPT ![e] = q # <<>>]
  /\ queue' = [queue EXCEPT ![e] = IF q = <<>> THEN q ELSE Tail(q)]
  /\ running' = [running EXCEPT ![e] = rs \cup Started(q)]
  /\ inline' = [inline EXCEPT ![e] = StyleAfter(q, cs, st)]
  /\ cls' = [cls EXCEPT ![e] = cs]

(* What makes a call safe: its elements are idle and agree about the class. *)
Careful(es, v) ==
  /\ \A e \in es : Idle(e)
  /\ \A e, f \in es : v.toggle \in cls[e] <=> v.toggle \in cls[f]

(***************************************************************************)
(* A call with a speed: it visits its elements in order (AnimateOne).      *)
(***************************************************************************)
Animate(es, v) ==
  /\ todo = <<>>
  /\ calls < Calls
  /\ calls' = calls + 1
  /\ value' = [value EXCEPT ![calls + 1] = v]
  /\ todo' = es
  /\ want' = [e \in element |-> IF e \in Range(es) THEN Asked(want[e], v) ELSE want[e]]
  /\ hasty' = hasty \cup (IF Careful(Range(es), v) THEN {} ELSE Range(es))
  /\ UNCHANGED <<element, cls, inline, busy, queue, running, own, owed>>

(* animateClass for one element.  If the style does not change, jQuery's    *)
(* animate completes at once, outside the queue, and dequeues all the same. *)
AnimateOne ==
  /\ todo # <<>>
  /\ LET e  == Head(todo)
         v  == Resolved(value[calls], cls[e])
         st == inline[e]
         a  == [call |-> calls, offset |-> Offset(cls[e], Changed(cls[e], v), st), old |-> st]
         cs == Unchanged(Changed(cls[e], v), v)
     IN  /\ value' = [value EXCEPT ![calls] = v]
         /\ \/ /\ a.offset = {}
               /\ DequeueThen(e, queue[e], Changed(cs, v), st, running[e])
               /\ UNCHANGED owed
            \/ /\ a.offset # {}
               /\ ~busy[e]
               /\ DequeueThen(e, <<a>>, cs, st, running[e])
               /\ owed' = [owed EXCEPT ![e] = @ + 1]
            \/ /\ a.offset # {}
               /\ busy[e]
               /\ queue' = [queue EXCEPT ![e] = Append(@, a)]
               /\ cls' = [cls EXCEPT ![e] = cs]
               /\ owed' = [owed EXCEPT ![e] = @ + 1]
               /\ UNCHANGED <<busy, running, inline>>
  /\ todo' = Tail(todo)
  /\ UNCHANGED <<element, calls, want, own, hasty>>

(* A timer tick writes values between start and end. *)
Frame(e) ==
  /\ todo = <<>>
  /\ \E a \in running[e] :
       inline' = [inline EXCEPT ![e] = [p \in Prop |-> IF p \in a.offset THEN Moving ELSE @[p]]]
  /\ UNCHANGED <<element, cls, busy, queue, running, value, calls, todo, want, own, owed, hasty>>

(* mutant: the callback runs and the queue is not taken further *)
FinishOnly(e) ==
  /\ todo = <<>>
  /\ \E a \in running[e] :
       /\ running' = [running EXCEPT ![e] = @ \ {a}]
       /\ inline' = [inline EXCEPT ![e] = a.old]
       /\ cls' = [cls EXCEPT ![e] = Changed(@, value[a.call])]
  /\ owed' = [owed EXCEPT ![e] = @ - 1]
  /\ UNCHANGED <<element, busy, queue, value, calls, todo, want, own, hasty>>

(* The last tick: the callback of animateClass, and the queue goes on. *)
Finish(e) ==
  /\ todo = <<>>
  /\ \E a \in running[e] :
       DequeueThen(e, queue[e], Changed(cls[e], value[a.call]), a.old, running[e] \ {a})
  /\ owed' = [owed EXCEPT ![e] = @ - 1]
  /\ UNCHANGED <<element, value, calls, todo, want, own, hasty>>

(* A call without a speed: jQuery's own addClass, removeClass, toggleClass. *)
AtOnce(e, v) ==
  /\ todo = <<>>
  /\ calls < Calls
  /\ hasty' = hasty \cup (IF Idle(e) THEN {} ELSE {e})
  /\ calls' = calls + 1
  /\ cls' = [cls EXCEPT ![e] = Changed(@, Resolved(v, @))]
  /\ want' = [want EXCEPT ![e] = Asked(@, v)]
  /\ UNCHANGED <<element, inline, busy, queue, running, value, todo, own, owed>>

(* What a jQuery object may hold: some elements of the page, each once. *)
Selection ==
  {es \in UNION {[1 .. n -> element] : n \in 1 .. Cardinality(element)} :
     \A i, j \in DOMAIN es : es[i] = es[j] => i = j}

AddClass == \E c \in Class :
  \/ \E es \in Selection : Animate(es, Adding(c))
  \/ \E e \in element : AtOnce(e, Adding(c))
RemoveClass == \E c \in Class :
  \/ \E es \in Selection : Animate(es, Removing(c))
  \/ \E e \in element : AtOnce(e, Removing(c))
ToggleClass == \E c \in Class :
  \/ \E es \in Selection : Animate(es, Toggling(c))
  \/ \E e \in element : AtOnce(e, Toggling(c))
Morph == \E es \in Selection, r, a \in Class : r # a /\ Animate(es, Morphing(r, a))

Next ==
  \/ AddClass \/ RemoveClass \/ ToggleClass \/ Morph
  \/ AnimateOne
  \/ \E e \in element : Frame(e) \/ Finish(e)

Spec == Init /\ [][Next]_vars

(* The page's one thread runs a call to its end, and timers tick. *)
Fairness == WF_vars(AnimateOne) /\ \A e \in UNION Pages : WF_vars(e \in element /\ Finish(e))
FairSpec == Spec /\ Fairness
-----------------------------------------------------------------------------
(* Nothing waits in an fx queue without an animation that will dequeue it:  *)
(* an animation that completes outside the queue must not strand the rest.  *)
NobodyStuck == \A e \in element : busy[e] \/ queue[e] # <<>> => running[e] # {}

(* Each callback that is still owed has exactly one animation that will run *)
(* it, and none waits for one that never ends: none is lost, started twice  *)
(* or stranded, however calls overlap.                                     *)
CallbacksOwed ==
  /\ \A e \in element : owed[e] = Cardinality(running[e]) + Len(queue[e])
  /\ NobodyStuck

(* If calls are only made on idle elements that agree about the class, each *)
(* leaves the classes it was asked for, on every element of its set, and    *)
(* the style attribute the page had.                                       *)
CarefulCallsAreRight ==
  \A e \in element \ hasty : Idle(e) /\ todo = <<>> => cls[e] = want[e] /\ inline[e] = own[e]

(* Every call's callback runs at last, on each of its elements: with no     *)
(* more calls the elements come to rest.                                   *)
ComeToRest == []<>(calls = Calls => todo = <<>> /\ \A e \in element : Idle(e))
=============================================================================
