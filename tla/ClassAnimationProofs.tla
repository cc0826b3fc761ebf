-------------------------- MODULE ClassAnimationProofs -------------------------
(***************************************************************************)
(* Theorems about animateClass, for any pages, classes, properties and     *)
(* number of calls: each callback that is still owed has exactly one       *)
(* animation that will run it, and no animation is stranded in a queue,    *)
(* although calls without a change of style dequeue out of turn.           *)
(***************************************************************************)
EXTENDS ClassAnimation, FiniteSetTheorems, TLAPS

(* What a property can be: a value, or what CHOOSE makes of a set of        *)
(* classes.  (That it is a class needs a greatest element of each, which is *)
(* left to the model checker.)                                             *)
Shown == Value \cup {CHOOSE c \in S : \A d \in S : d <= c : S \in SUBSET Class}
StyleOf == [Prop -> Shown]
Entry == [call : Call, offset : SUBSET Prop, old : StyleOf]

Types ==
  /\ element \in Pages
  /\ cls \in [element -> SUBSET Class]
  /\ inline \in [element -> StyleOf]
  /\ busy \in [element -> BOOLEAN]
  /\ queue \in [element -> Seq(Entry)]
  /\ running \in [element -> SUBSET Entry]
  /\ value \in [Call -> ValueObject]
  /\ calls \in 0 .. Calls
  /\ todo \in Seq(element)
  /\ owed \in [element -> Nat]

(* The call that visits its elements has a number and visits each once.     *)
Visiting ==
  /\ todo # <<>> => calls # 0
  /\ \A i, j \in DOMAIN todo : todo[i] = todo[j] => i = j

(* Nothing waits in a queue without the mark at its head, and nothing has   *)
(* the mark without an animation that runs.                                *)
Slots(e) ==
  /\ queue[e] # <<>> => busy[e]
  /\ busy[e] => running[e] # {}

(* The animations q that wait are of different calls, none of which has an  *)
(* animation among those, rs, that run, and of the first n calls.           *)
Separate(rs, q, n) ==
  /\ \A a \in rs, i \in DOMAIN q : a.call # q[i].call
  /\ \A i, j \in DOMAIN q : q[i].call = q[j].call => i = j
  /\ \A a \in rs : a.call <= n
  /\ \A i \in DOMAIN q : q[i].call <= n

(* The last call that may have an animation of e.                           *)
Latest(e) == IF e \in Range(todo) THEN calls - 1 ELSE calls

Apart(e) == Separate(running[e], queue[e], Latest(e))

Owed(e) ==
  /\ IsFiniteSet(running[e])
  /\ owed[e] = Cardinality(running[e]) + Len(queue[e])

IInv == Types /\ Visiting /\ \A e \in element : Slots(e) /\ Apart(e) /\ Owed(e)

-----------------------------------------------------------------------------
(* Classes and styles.                                                       *)

LEMMA CallsNat == element \in Pages => Calls \in Nat
BY ClassAnimationAssumption DEF Calls

LEMMA ClassesStay ==
  ASSUME NEW cs \in SUBSET Class, NEW v \in ValueObject
  PROVE  /\ Changed(cs, v) \in SUBSET Class
         /\ Unchanged(cs, v) \in SUBSET Class
         /\ Resolved(v, cs) \in ValueObject
<1> USE ClassAnimationAssumption DEF ValueObject, ClassOrNone, Class, None
<1>1. The(v.add) \subseteq Class /\ The(v.remove) \subseteq Class
  BY DEF The
<1>2. Resolved(v, cs) \in ValueObject
  <2>1. v.toggle \in 0 .. MaxClass
    OBVIOUS
  <2>2. [v EXCEPT !.remove = v.toggle] \in ValueObject
    BY <2>1 DEF ValueObject
  <2>3. [v EXCEPT !.add = v.toggle] \in ValueObject
    BY <2>1 DEF ValueObject
  <2> QED
    BY <2>2, <2>3 DEF Resolved
<1> QED
  BY <1>1, <1>2 DEF Changed, Unchanged

LEMMA ComputedStyle ==
  ASSUME NEW cs \in SUBSET Class, NEW st \in StyleOf
  PROVE  Computed(cs, st) \in StyleOf
<1> SUFFICES ASSUME NEW p \in Prop PROVE Computed(cs, st)[p] \in Shown
  BY DEF Computed, StyleOf
<1> DEFINE S == {c \in cs : p \in Sets[c]}
<1>1. st[p] \in Shown /\ 0 \in Shown
  <2>1. 0 \in Value
    BY ClassAnimationAssumption DEF Value, Moving
  <2> QED
    BY <2>1 DEF StyleOf, Shown
<1>2. (CHOOSE c \in S : \A d \in S : d <= c) \in Shown
  BY DEF Shown
<1> QED
  BY <1>1, <1>2 DEF Computed

LEMMA StyleAfterStyle ==
  ASSUME NEW q, NEW cs \in SUBSET Class, NEW st \in StyleOf
  PROVE  StyleAfter(q, cs, st) \in StyleOf
BY ComputedStyle DEF StyleAfter, StyleOf

-----------------------------------------------------------------------------
(* jQuery.dequeue.                                                           *)

LEMMA DequeueTypes ==
  ASSUME Types, NEW e \in element, NEW q \in Seq(Entry), NEW cs \in SUBSET Class,
         NEW st \in StyleOf, NEW rs \in SUBSET Entry, DequeueThen(e, q, cs, st, rs)
  PROVE  /\ cls' \in [element -> SUBSET Class]
         /\ inline' \in [element -> StyleOf]
         /\ busy' \in [element -> BOOLEAN]
         /\ queue' \in [element -> Seq(Entry)]
         /\ running' \in [element -> SUBSET Entry]
<1>1. Started(q) \in SUBSET Entry
  BY DEF Started
<1>2. StyleAfter(q, cs, st) \in StyleOf
  BY StyleAfterStyle
<1>3. queue' \in [element -> Seq(Entry)]
  BY DEF DequeueThen, Types
<1>4. running' \in [element -> SUBSET Entry]
  BY <1>1 DEF DequeueThen, Types
<1>5. inline' \in [element -> StyleOf]
  BY <1>2 DEF DequeueThen, Types
<1>6. cls' \in [element -> SUBSET Class] /\ busy' \in [element -> BOOLEAN]
  BY DEF DequeueThen, Types
<1> QED
  BY <1>3, <1>4, <1>5, <1>6

LEMMA DequeueValues ==
  ASSUME Types, NEW e \in element, NEW q, NEW cs, NEW st, NEW rs,
         DequeueThen(e, q, cs, st, rs)
  PROVE  /\ busy'[e] <=> q # <<>>
         /\ queue'[e] = IF q = <<>> THEN q ELSE Tail(q)
         /\ running'[e] = rs \cup Started(q)
         /\ \A f \in element : f # e =>
              busy'[f] = busy[f] /\ queue'[f] = queue[f] /\ running'[f] = running[f]
<1>1. busy' = [busy EXCEPT ![e] = q # <<>>]
  BY DEF DequeueThen
<1>2. busy'[e] = (q # <<>>)
  BY <1>1 DEF Types
<1>3. queue' = [queue EXCEPT ![e] = IF q = <<>> THEN q ELSE Tail(q)]
  BY DEF DequeueThen
<1>4. running' = [running EXCEPT ![e] = rs \cup Started(q)]
  BY DEF DequeueThen
<1>5. queue'[e] = (IF q = <<>> THEN q ELSE Tail(q)) /\ running'[e] = rs \cup Started(q)
  BY <1>3, <1>4 DEF Types
<1>6. \A f \in element : f # e =>
        busy'[f] = busy[f] /\ queue'[f] = queue[f] /\ running'[f] = running[f]
  BY <1>1, <1>3, <1>4 DEF Types
<1> QED
  BY <1>2, <1>5, <1>6

(* If the animations q that wait are none of those, rs, that run, the next  *)
(* one is started once: their number stays.                                *)
LEMMA StartedCount ==
  ASSUME NEW q \in Seq(Entry), NEW rs \in SUBSET Entry, IsFiniteSet(rs),
         \A a \in rs, i \in DOMAIN q : a.call # q[i].call
  PROVE  /\ IsFiniteSet(rs \cup Started(q))
         /\ Cardinality(rs \cup Started(q)) + Len(IF q = <<>> THEN q ELSE Tail(q))
              = Cardinality(rs) + Len(q)
<1>1. Cardinality(rs) \in Nat
  BY FS_CardinalityType
<1>2. CASE q = <<>>
  <2>1. rs \cup Started(q) = rs
    BY <1>2 DEF Started
  <2> QED
    BY <1>1, <1>2, <2>1
<1>3. CASE q # <<>>
  <2>1. rs \cup Started(q) = rs \cup {Head(q)}
    BY <1>3 DEF Started
  <2>2. Head(q) \notin rs
    <3>1. 1 \in DOMAIN q /\ q[1] = Head(q)
      BY <1>3
    <3>2. \A a \in rs : a.call # q[1].call
      BY <3>1
    <3> QED
      BY <3>1, <3>2
  <2>3. /\ IsFiniteSet(rs \cup {Head(q)})
        /\ Cardinality(rs \cup {Head(q)}) = Cardinality(rs) + 1
    BY <2>2, FS_AddElement
  <2>4. Len(Tail(q)) = Len(q) - 1 /\ Len(q) \in Nat
    BY <1>3
  <2>5. (IF q = <<>> THEN q ELSE Tail(q)) = Tail(q)
    BY <1>3
  <2>6. Cardinality(rs) + 1 + (Len(q) - 1) = Cardinality(rs) + Len(q)
    BY <1>1, <2>4
  <2> QED
    BY <2>1, <2>3, <2>4, <2>5, <2>6
<1> QED
  BY <1>2, <1>3

(* They are still apart: the one that starts leaves the queue.              *)
LEMMA StartedApart ==
  ASSUME NEW q \in Seq(Entry), NEW rs, NEW n \in Int, Separate(rs, q, n)
  PROVE  Separate(rs \cup Started(q), IF q = <<>> THEN q ELSE Tail(q), n)
<1>1. CASE q = <<>>
  BY <1>1 DEF Separate, Started
<1>2. CASE q # <<>>
  <2>1. 1 \in DOMAIN q /\ q[1] = Head(q) /\ Started(q) = {q[1]}
    BY <1>2 DEF Started
  <2>2. \A i \in DOMAIN Tail(q) : i + 1 \in DOMAIN q /\ i + 1 # 1 /\ Tail(q)[i] = q[i + 1]
    BY <1>2
  <2>3. \A i, j \in DOMAIN Tail(q) : i + 1 = j + 1 => i = j
    BY <1>2
  <2>4. \A a \in rs \cup Started(q), i \in DOMAIN Tail(q) : a.call # Tail(q)[i].call
    BY <2>1, <2>2 DEF Separate
  <2>5. \A i, j \in DOMAIN Tail(q) : Tail(q)[i].call = Tail(q)[j].call => i = j
    BY <2>2, <2>3 DEF Separate
  <2>6. \A a \in rs \cup Started(q) : a.call <= n
    BY <2>1 DEF Separate
  <2>7. \A i \in DOMAIN Tail(q) : Tail(q)[i].call <= n
    BY <2>2 DEF Separate
  <2> QED
    BY <1>2, <2>4, <2>5, <2>6, <2>7 DEF Separate
<1> QED
  BY <1>1, <1>2

(* What dequeueing does to the element it is done on.                       *)
LEMMA DequeueKeeps ==
  ASSUME Types, NEW e \in element, NEW q \in Seq(Entry), NEW cs, NEW st,
         NEW rs \in SUBSET Entry, NEW n \in Int, IsFiniteSet(rs), Separate(rs, q, n),
         DequeueThen(e, q, cs, st, rs)
  PROVE  /\ Slots(e)'
         /\ Separate(running'[e], queue'[e], n)
         /\ IsFiniteSet(running'[e])
         /\ Cardinality(running'[e]) + Len(queue'[e]) = Cardinality(rs) + Len(q)
<1>1. /\ busy'[e] <=> q # <<>>
      /\ queue'[e] = IF q = <<>> THEN q ELSE Tail(q)
      /\ running'[e] = rs \cup Started(q)
  BY DequeueValues
<1>2. Slots(e)'
  BY <1>1 DEF Slots, Started
<1>3. Separate(running'[e], queue'[e], n)
  BY <1>1, StartedApart
<1>4. \A a \in rs, i \in DOMAIN q : a.call # q[i].call
  BY DEF Separate
<1>5. /\ IsFiniteSet(running'[e])
      /\ Cardinality(running'[e]) + Len(queue'[e]) = Cardinality(rs) + Len(q)
  BY <1>1, <1>4, StartedCount
<1> QED
  BY <1>2, <1>3, <1>5

-----------------------------------------------------------------------------
(* Lists of animations that are apart.                                       *)

LEMMA SeparateLater ==
  ASSUME NEW q \in Seq(Entry), NEW rs \in SUBSET Entry, NEW ss \in SUBSET rs,
         NEW n \in Int, NEW m \in Int, n <= m, Separate(rs, q, n), element \in Pages
  PROVE  Separate(ss, q, m)
<1>1. \A a \in Entry : a.call \in Int
  BY DEF Entry, Call
<1>2. \A a \in ss : a.call <= m
  BY <1>1 DEF Separate
<1>3. \A i \in DOMAIN q : q[i].call <= m
  BY <1>1 DEF Separate
<1> QED
  BY <1>2, <1>3 DEF Separate

LEMMA SeparateAppend ==
  ASSUME NEW q \in Seq(Entry), NEW rs \in SUBSET Entry, NEW a \in Entry,
         Separate(rs, q, a.call - 1), element \in Pages
  PROVE  Separate(rs, Append(q, a), a.call)
<1>1. \A b \in Entry : b.call \in Int
  BY DEF Entry, Call
<1>2. /\ DOMAIN Append(q, a) = DOMAIN q \cup {Len(q) + 1}
      /\ Append(q, a)[Len(q) + 1] = a
      /\ \A i \in DOMAIN q : Append(q, a)[i] = q[i] /\ q[i] \in Entry
  OBVIOUS
<1>3. \A b \in rs : b.call <= a.call /\ b.call # a.call
  BY <1>1 DEF Separate
<1>4. \A i \in DOMAIN q : q[i].call <= a.call /\ q[i].call # a.call
  BY <1>1, <1>2 DEF Separate
<1>5. \A i \in DOMAIN Append(q, a) : Append(q, a)[i].call <= a.call
  BY <1>1, <1>2, <1>4
<1>6. \A b \in rs, i \in DOMAIN Append(q, a) : b.call # Append(q, a)[i].call
  BY <1>2, <1>3 DEF Separate
<1>7. \A i, j \in DOMAIN Append(q, a) :
        Append(q, a)[i].call = Append(q, a)[j].call => i = j
  BY <1>2, <1>4 DEF Separate
<1> QED
  BY <1>3, <1>5, <1>6, <1>7 DEF Separate

-----------------------------------------------------------------------------
(* One lemma for each action.                                                *)

(* An element an action leaves alone is as sound after it as before.        *)
LEMMA LeftAlone ==
  ASSUME Types, NEW f \in element, Slots(f), Apart(f), Owed(f),
         busy'[f] = busy[f], queue'[f] = queue[f], running'[f] = running[f],
         owed'[f] = owed[f], Latest(f)' \in Int, Latest(f) <= Latest(f)'
  PROVE  Slots(f)' /\ Apart(f)' /\ Owed(f)'
<1>1. Slots(f)' /\ Owed(f)'
  BY DEF Slots, Owed
<1>2. /\ queue[f] \in Seq(Entry) /\ running[f] \in SUBSET Entry
      /\ element \in Pages /\ Latest(f) \in Int
  <2>1. calls \in Int
    BY CallsNat DEF Types
  <2> QED
    BY <2>1 DEF Types, Latest
<1>3. Separate(running[f], queue[f], Latest(f)')
  BY <1>2, SeparateLater DEF Apart
<1> QED
  BY <1>1, <1>3 DEF Apart

LEMMA InitIInv == Init => IInv
<1> SUFFICES ASSUME Init PROVE IInv
  OBVIOUS
<1>1. Calls \in Nat
  BY CallsNat DEF Init
<1>2. Types
  <2>1. inline \in [element -> StyleOf]
    <3>1. {Unset, 0} \subseteq Value
      BY ClassAnimationAssumption DEF Unset, Value, Moving
    <3> QED
      BY <3>1 DEF Init, StyleOf, Shown
  <2>2. NoValue \in ValueObject
    BY ClassAnimationAssumption DEF NoValue, None, ValueObject, ClassOrNone
  <2>3. value \in [Call -> ValueObject]
    BY <2>2 DEF Init
  <2> QED
    BY <1>1, <2>1, <2>3 DEF Init, Types
<1>3. Visiting
  BY DEF Init, Visiting
<1>4. ASSUME NEW e \in element PROVE Slots(e) /\ Apart(e) /\ Owed(e)
  <2>1. busy[e] = FALSE /\ queue[e] = <<>> /\ running[e] = {} /\ owed[e] = 0
    BY DEF Init
  <2>2. Apart(e)
    BY <2>1 DEF Apart, Separate
  <2>3. Owed(e)
    BY <2>1, FS_EmptySet DEF Owed
  <2> QED
    BY <2>1, <2>2, <2>3 DEF Slots
<1> QED
  BY <1>2, <1>3, <1>4 DEF IInv

LEMMA SelectionSeq ==
  ASSUME element \in Pages, NEW es \in Selection
  PROVE  /\ es \in Seq(element)
         /\ \A i, j \in DOMAIN es : es[i] = es[j] => i = j
<1>1. Cardinality(element) \in Nat
  BY FS_CardinalityType, ClassAnimationAssumption
<1>2. PICK n \in 1 .. Cardinality(element) : es \in [1 .. n -> element]
  BY DEF Selection
<1>3. n \in Nat
  BY <1>1
<1> QED
  BY <1>2, <1>3 DEF Selection

LEMMA AnimateIInv ==
  ASSUME IInv, NEW es \in Selection, NEW v \in ValueObject, Animate(es, v)
  PROVE  IInv'
<1>1. Types /\ Calls \in Nat /\ calls \in Nat
  BY CallsNat DEF IInv, Types
<1>2. es \in Seq(element) /\ \A i, j \in DOMAIN es : es[i] = es[j] => i = j
  BY <1>1, SelectionSeq DEF Types
<1>3. Types'
  <2>1. element' = element /\ Calls' = Calls /\ Call' = Call
    BY DEF Animate, Calls, Call
  <2>2. calls' \in 0 .. Calls /\ value' \in [Call -> ValueObject] /\ todo' \in Seq(element)
    <3>1. calls' \in 0 .. Calls /\ todo' \in Seq(element)
      BY <1>1, <1>2 DEF Animate, Types
    <3>2. value' = [value EXCEPT ![calls + 1] = v]
      BY DEF Animate
    <3> QED
      BY <1>1, <3>1, <3>2 DEF Types
  <2>3. Entry' = Entry
    BY <2>1 DEF Entry
  <2> QED
    BY <1>1, <2>1, <2>2, <2>3 DEF Animate, Types
<1>4. Visiting'
  BY <1>1, <1>2 DEF Animate, Visiting
<1>5. ASSUME NEW f \in element PROVE Slots(f)' /\ Apart(f)' /\ Owed(f)'
  <2>1. Latest(f) = calls /\ Latest(f)' \in Int /\ Latest(f) <= Latest(f)'
    BY <1>1 DEF Animate, Latest, Range
  <2> QED
    BY <1>1, <1>5, <2>1, LeftAlone DEF Animate, IInv
<1> QED
  BY <1>3, <1>4, <1>5 DEF IInv, Animate

LEMMA AtOnceIInv ==
  ASSUME IInv, NEW e \in element, NEW v \in ValueObject, AtOnce(e, v)
  PROVE  IInv'
<1>1. Types /\ Calls \in Nat /\ calls \in Nat
  BY CallsNat DEF IInv, Types
<1>2. Types'
  <2>1. element' = element /\ Calls' = Calls /\ Call' = Call
    BY DEF AtOnce, Calls, Call
  <2>2. cls[e] \in SUBSET Class
    BY <1>1 DEF Types
  <2>3. Changed(cls[e], Resolved(v, cls[e])) \in SUBSET Class
    BY <2>2, ClassesStay
  <2>4. calls' \in 0 .. Calls /\ cls' \in [element -> SUBSET Class]
    BY <1>1, <2>3 DEF AtOnce, Types
  <2>5. Entry' = Entry
    BY <2>1 DEF Entry
  <2> QED
    BY <1>1, <2>1, <2>4, <2>5 DEF AtOnce, Types
<1>3. Visiting'
  BY DEF AtOnce, Visiting, IInv
<1>4. ASSUME NEW f \in element PROVE Slots(f)' /\ Apart(f)' /\ Owed(f)'
  <2>1. Latest(f)' \in Int /\ Latest(f) <= Latest(f)'
    BY <1>1 DEF AtOnce, Latest, Range
  <2> QED
    BY <1>1, <1>4, <2>1, LeftAlone DEF AtOnce, IInv
<1> QED
  BY <1>2, <1>3, <1>4 DEF IInv, AtOnce

LEMMA FrameIInv ==
  ASSUME IInv, NEW e \in element, Frame(e)
  PROVE  IInv'
<1>1. Types /\ Calls \in Nat /\ calls \in Nat
  BY CallsNat DEF IInv, Types
<1>2. Types'
  <2>1. element' = element /\ Calls' = Calls /\ Call' = Call
    BY DEF Frame, Calls, Call
  <2>2. inline' \in [element -> StyleOf]
    <3>1. PICK a \in running[e] :
            inline' = [inline EXCEPT ![e] =
                         [p \in Prop |-> IF p \in a.offset THEN Moving ELSE inline[e][p]]]
      BY DEF Frame
    <3>2. inline[e] \in StyleOf
      BY <1>1 DEF Types
    <3>3. Moving \in Value
      BY ClassAnimationAssumption DEF Moving, Value
    <3>4. [p \in Prop |-> IF p \in a.offset THEN Moving ELSE inline[e][p]] \in StyleOf
      BY <3>2, <3>3 DEF StyleOf, Shown
    <3> QED
      BY <1>1, <3>1, <3>4 DEF Types
  <2>3. Entry' = Entry
    BY <2>1 DEF Entry
  <2> QED
    BY <1>1, <2>1, <2>2, <2>3 DEF Frame, Types
<1>3. Visiting'
  BY DEF Frame, Visiting, IInv
<1>4. ASSUME NEW f \in element PROVE Slots(f)' /\ Apart(f)' /\ Owed(f)'
  <2>1. Latest(f)' \in Int /\ Latest(f) <= Latest(f)'
    BY <1>1 DEF Frame, Latest, Range
  <2> QED
    BY <1>1, <1>4, <2>1, LeftAlone DEF Frame, IInv
<1> QED
  BY <1>2, <1>3, <1>4 DEF IInv, Frame

LEMMA FinishIInv ==
  ASSUME IInv, NEW e \in element, Finish(e)
  PROVE  IInv'
<1>1. Types /\ Calls \in Nat /\ calls \in Nat
  BY CallsNat DEF IInv, Types
<1>2. PICK a \in running[e] :
        DequeueThen(e, queue[e], Changed(cls[e], value[a.call]), a.old, running[e] \ {a})
  BY DEF Finish
<1> DEFINE rs == running[e] \ {a}
<1>3. a \in Entry /\ queue[e] \in Seq(Entry) /\ running[e] \in SUBSET Entry
  BY <1>1 DEF Types
<1>4. /\ Changed(cls[e], value[a.call]) \in SUBSET Class
      /\ a.old \in StyleOf
      /\ rs \in SUBSET Entry
  <2>1. value[a.call] \in ValueObject /\ cls[e] \in SUBSET Class
    BY <1>1, <1>3 DEF Types, Entry
  <2> QED
    BY <1>3, <2>1, ClassesStay DEF Entry
<1>5. /\ IsFiniteSet(running[e])
      /\ IsFiniteSet(rs)
      /\ Cardinality(rs) = Cardinality(running[e]) - 1
      /\ owed[e] = Cardinality(running[e]) + Len(queue[e])
  <2>1. Owed(e)
    BY DEF IInv
  <2>2. IsFiniteSet(rs) /\ Cardinality(rs) = Cardinality(running[e]) - 1
    BY <2>1, FS_RemoveElement DEF Owed
  <2> QED
    BY <2>1, <2>2 DEF Owed
<1>6. Latest(e) = calls /\ Latest(e)' = calls /\ calls \in Int
  BY <1>1 DEF Finish, Latest, Range
<1>7. Separate(rs, queue[e], calls)
  <2>1. Separate(running[e], queue[e], calls)
    BY <1>6 DEF IInv, Apart
  <2> QED
    BY <2>1 DEF Separate
<1>8. /\ Slots(e)'
      /\ Separate(running'[e], queue'[e], calls)
      /\ IsFiniteSet(running'[e])
      /\ Cardinality(running'[e]) + Len(queue'[e]) = Cardinality(rs) + Len(queue[e])
  BY <1>1, <1>2, <1>3, <1>4, <1>5, <1>6, <1>7, DequeueKeeps
<1>9. owed'[e] = Cardinality(rs) + Len(queue[e]) /\ owed' \in [element -> Nat]
  <2>1. owed' = [owed EXCEPT ![e] = owed[e] - 1]
    BY DEF Finish
  <2>2. Cardinality(rs) \in Nat /\ Len(queue[e]) \in Nat
    BY <1>3, <1>5, FS_CardinalityType
  <2>3. owed[e] - 1 = Cardinality(rs) + Len(queue[e])
    BY <1>5, <2>2, FS_CardinalityType
  <2> QED
    BY <1>1, <2>1, <2>2, <2>3 DEF Types
<1>10. Types'
  <2>1. element' = element /\ Calls' = Calls /\ Call' = Call
    BY DEF Finish, Calls, Call
  <2>2. Entry' = Entry
    BY <2>1 DEF Entry
  <2>3. /\ cls' \in [element -> SUBSET Class]
        /\ inline' \in [element -> StyleOf]
        /\ busy' \in [element -> BOOLEAN]
        /\ queue' \in [element -> Seq(Entry)]
        /\ running' \in [element -> SUBSET Entry]
    BY <1>1, <1>2, <1>3, <1>4, DequeueTypes
  <2> QED
    BY <1>1, <1>9, <2>1, <2>2, <2>3 DEF Finish, Types
<1>11. Visiting'
  BY DEF Finish, Visiting, IInv
<1>12. ASSUME NEW f \in element PROVE Slots(f)' /\ Apart(f)' /\ Owed(f)'
  <2>1. CASE f = e
    BY <1>6, <1>8, <1>9, <2>1 DEF Apart, Owed
  <2>2. CASE f # e
    <3>1. busy'[f] = busy[f] /\ queue'[f] = queue[f] /\ running'[f] = running[f]
      BY <1>1, <1>2, <2>2, DequeueValues
    <3>2. owed'[f] = owed[f]
      BY <1>1, <2>2 DEF Finish, Types
    <3>3. Latest(f)' \in Int /\ Latest(f) <= Latest(f)'
      BY <1>1 DEF Finish, Latest, Range
    <3> QED
      BY <1>1, <3>1, <3>2, <3>3, LeftAlone DEF IInv
  <2> QED
    BY <2>1, <2>2
<1> QED
  BY <1>10, <1>11, <1>12 DEF IInv, Finish

LEMMA AnimateOneIInv ==
  ASSUME IInv, AnimateOne
  PROVE  IInv'
<1>1. Types /\ Calls \in Nat /\ calls \in Nat
  BY CallsNat DEF IInv, Types
<1> PICK e, v, st, a, cs :
         /\ e  = Head(todo)
         /\ v  = Resolved(value[calls], cls[e])
         /\ st = inline[e]
         /\ a  = [call |-> calls, offset |-> Offset(cls[e], Changed(cls[e], v), st), old |-> st]
         /\ cs = Unchanged(Changed(cls[e], v), v)
  OBVIOUS
<1> DEFINE Quick  == /\ DequeueThen(e, queue[e], Changed(cs, v), st, running[e])
                     /\ UNCHANGED owed
           Begins == /\ ~busy[e]
                     /\ DequeueThen(e, <<a>>, cs, st, running[e])
                     /\ owed' = [owed EXCEPT ![e] = owed[e] + 1]
           Waits  == /\ busy[e]
                     /\ queue' = [queue EXCEPT ![e] = Append(queue[e], a)]
                     /\ cls' = [cls EXCEPT ![e] = cs]
                     /\ owed' = [owed EXCEPT ![e] = owed[e] + 1]
                     /\ UNCHANGED <<busy, running, inline>>
<1>2. /\ value' = [value EXCEPT ![calls] = v]
      /\ Quick \/ Begins \/ Waits
  BY DEF AnimateOne
<1>3. /\ todo # <<>>
      /\ todo' = Tail(todo)
      /\ UNCHANGED <<element, calls, want, own, hasty>>
  BY DEF AnimateOne
<1>4. e \in element /\ e = todo[1] /\ 1 \in DOMAIN todo /\ todo' \in Seq(element)
  BY <1>1, <1>3 DEF Types
<1>5. \A i \in DOMAIN todo' : i + 1 \in DOMAIN todo /\ i + 1 # 1 /\ todo'[i] = todo[i + 1]
  <2>1. todo \in Seq(element) /\ todo # <<>> /\ todo' = Tail(todo)
    BY <1>1, <1>3 DEF Types
  <2> QED
    BY <2>1
<1>6. /\ Visiting'
      /\ e \notin Range(todo')
      /\ e \in Range(todo)
      /\ Range(todo') \subseteq Range(todo)
  <2>1. \A i, j \in DOMAIN todo : todo[i] = todo[j] => i = j
    BY DEF IInv, Visiting
  <2>2. e \notin Range(todo') /\ e \in Range(todo) /\ Range(todo') \subseteq Range(todo)
    BY <1>4, <1>5, <2>1 DEF Range
  <2>3. \A i, j \in DOMAIN todo' : i + 1 = j + 1 => i = j
    BY <1>1, <1>3 DEF Types
  <2>4. \A i, j \in DOMAIN todo' : todo'[i] = todo'[j] => i = j
    BY <1>5, <2>1, <2>3
  <2>5. calls' # 0
    BY <1>3 DEF IInv, Visiting
  <2> QED
    BY <2>2, <2>4, <2>5 DEF Visiting
<1>7. Latest(e) = calls - 1 /\ Latest(e)' = calls /\ calls \in Int /\ calls - 1 \in Int
  BY <1>1, <1>3, <1>6 DEF Latest
<1>8. calls \in Call
  BY <1>1, <1>3 DEF IInv, Visiting, Types, Call
<1>9. /\ queue[e] \in Seq(Entry) /\ running[e] \in SUBSET Entry
      /\ cls[e] \in SUBSET Class /\ st \in StyleOf /\ value[calls] \in ValueObject
      /\ busy[e] \in BOOLEAN /\ owed[e] \in Nat
  BY <1>1, <1>4, <1>8 DEF Types
<1>10. v \in ValueObject
  BY <1>9, ClassesStay
<1>11. Changed(cls[e], v) \in SUBSET Class /\ cs \in SUBSET Class /\ Changed(cs, v) \in SUBSET Class
  <2>1. Changed(cls[e], v) \in SUBSET Class
    BY <1>9, <1>10, ClassesStay
  <2>2. cs \in SUBSET Class
    BY <1>10, <2>1, ClassesStay
  <2> QED
    BY <1>10, <2>1, <2>2, ClassesStay
<1>12. a \in Entry /\ a.call = calls
  <2>1. a.offset \in SUBSET Prop
    BY DEF Offset
  <2> QED
    BY <1>8, <1>9, <2>1 DEF Entry
<1>13. Slots(e) /\ Owed(e) /\ Separate(running[e], queue[e], calls - 1)
  BY <1>4, <1>7 DEF IInv, Apart
<1>14. value' \in [Call -> ValueObject]
  BY <1>1, <1>2, <1>10 DEF Types
<1>15. element' = element /\ Calls' = Calls /\ Call' = Call /\ Entry' = Entry
  BY <1>3 DEF Calls, Call, Entry
<1>16. SUFFICES /\ cls' \in [element -> SUBSET Class]
                /\ inline' \in [element -> StyleOf]
                /\ busy' \in [element -> BOOLEAN]
                /\ queue' \in [element -> Seq(Entry)]
                /\ running' \in [element -> SUBSET Entry]
                /\ owed' \in [element -> Nat]
                /\ Slots(e)' /\ Separate(running'[e], queue'[e], calls) /\ Owed(e)'
                /\ \A f \in element : f # e =>
                     busy'[f] = busy[f] /\ queue'[f] = queue[f]
                     /\ running'[f] = running[f] /\ owed'[f] = owed[f]
  <2>1. Types'
    BY <1>1, <1>3, <1>4, <1>14, <1>15, <1>16 DEF Types
  <2>2. ASSUME NEW f \in element PROVE Slots(f)' /\ Apart(f)' /\ Owed(f)'
    <3>1. CASE f = e
      BY <1>7, <1>16, <3>1 DEF Apart
    <3>2. CASE f # e
      <4>1. Latest(f)' \in Int /\ Latest(f) <= Latest(f)'
        BY <1>1, <1>3, <1>6 DEF Latest
      <4> QED
        BY <1>1, <1>16, <3>2, <4>1, LeftAlone DEF IInv
    <3> QED
      BY <3>1, <3>2
  <2> QED
    BY <1>6, <1>15, <2>1, <2>2 DEF IInv
<1>17. CASE Quick
  <2>1. Separate(running[e], queue[e], calls)
    <3>1. element \in Pages /\ calls - 1 <= calls /\ running[e] \in SUBSET running[e]
      BY <1>1 DEF Types
    <3> HIDE DEF Quick, Begins, Waits
    <3> QED
      BY <1>7, <1>9, <1>13, <3>1, SeparateLater
  <2>2. /\ Slots(e)'
        /\ Separate(running'[e], queue'[e], calls)
        /\ IsFiniteSet(running'[e])
        /\ Cardinality(running'[e]) + Len(queue'[e]) = Cardinality(running[e]) + Len(queue[e])
    <3>1. IsFiniteSet(running[e]) /\ DequeueThen(e, queue[e], Changed(cs, v), st, running[e])
      BY <1>13, <1>17 DEF Owed
    <3> HIDE DEF Quick, Begins, Waits
    <3> QED
      BY <1>1, <1>4, <1>7, <1>9, <2>1, <3>1, DequeueKeeps
  <2>3. Owed(e)'
    BY <1>13, <1>17, <2>2 DEF Owed
  <2>4. /\ cls' \in [element -> SUBSET Class]
        /\ inline' \in [element -> StyleOf]
        /\ busy' \in [element -> BOOLEAN]
        /\ queue' \in [element -> Seq(Entry)]
        /\ running' \in [element -> SUBSET Entry]
    <3>1. DequeueThen(e, queue[e], Changed(cs, v), st, running[e])
      BY <1>17
    <3>2. /\ Changed(cs, v) \in SUBSET Class /\ st \in StyleOf
          /\ queue[e] \in Seq(Entry) /\ running[e] \in SUBSET Entry
      BY <1>9, <1>11
    <3> HIDE DEF Quick, Begins, Waits
    <3> QED
      BY <1>1, <1>4, <3>1, <3>2, DequeueTypes
  <2>5. \A f \in element : f # e =>
          busy'[f] = busy[f] /\ queue'[f] = queue[f] /\ running'[f] = running[f]
    BY <1>1, <1>4, <1>17, DequeueValues
  <2> QED
    BY <1>1, <1>17, <2>2, <2>3, <2>4, <2>5 DEF Types
<1>18. CASE Begins
  <2>1. queue[e] = <<>>
    BY <1>13, <1>18 DEF Slots
  <2>2. <<a>> \in Seq(Entry) /\ <<a>> = Append(queue[e], a) /\ Len(<<a>>) = Len(queue[e]) + 1
    BY <1>12, <2>1
  <2>3. Separate(running[e], <<a>>, calls)
    <3>1. running[e] \in SUBSET Entry /\ queue[e] \in Seq(Entry) /\ element \in Pages
      BY <1>1, <1>4 DEF Types
    <3> HIDE DEF Quick, Begins, Waits
    <3>2. Separate(running[e], Append(queue[e], a), calls)
      BY <1>9, <1>12, <1>13, <3>1, SeparateAppend
    <3> QED
      BY <2>2, <3>2
  <2>4. /\ Slots(e)'
        /\ Separate(running'[e], queue'[e], calls)
        /\ IsFiniteSet(running'[e])
        /\ Cardinality(running'[e]) + Len(queue'[e]) = Cardinality(running[e]) + Len(<<a>>)
    <3> DEFINE one == <<a>>
    <3>1. /\ IsFiniteSet(running[e]) /\ one \in Seq(Entry)
          /\ DequeueThen(e, one, cs, st, running[e])
      BY <1>13, <1>18, <2>2 DEF Owed
    <3>2. running[e] \in SUBSET Entry /\ calls \in Int
      BY <1>1, <1>4, <1>9 DEF Types
    <3>3. Separate(running[e], one, calls)
      BY <2>3
    <3> HIDE DEF one, Quick, Begins, Waits
    <3>4. /\ Slots(e)'
          /\ Separate(running'[e], queue'[e], calls)
          /\ IsFiniteSet(running'[e])
          /\ Cardinality(running'[e]) + Len(queue'[e]) = Cardinality(running[e]) + Len(one)
      BY <1>1, <1>4, <3>1, <3>2, <3>3, DequeueKeeps
    <3> QED
      BY <3>4 DEF one
  <2>5. owed' \in [element -> Nat] /\ owed'[e] = owed[e] + 1
    BY <1>1, <1>4, <1>9, <1>18 DEF Types
  <2>6. Owed(e)'
    <3>1. Cardinality(running[e]) \in Nat /\ Len(queue[e]) \in Nat
      BY <1>9, <1>13, FS_CardinalityType DEF Owed
    <3>2. owed'[e] = Cardinality(running[e]) + Len(<<a>>)
      BY <1>13, <2>2, <2>5, <3>1 DEF Owed
    <3> QED
      BY <2>4, <3>2 DEF Owed
  <2>7. /\ cls' \in [element -> SUBSET Class]
        /\ inline' \in [element -> StyleOf]
        /\ busy' \in [element -> BOOLEAN]
        /\ queue' \in [element -> Seq(Entry)]
        /\ running' \in [element -> SUBSET Entry]
    BY <1>1, <1>4, <1>9, <1>11, <1>18, <2>2, DequeueTypes
  <2>8. \A f \in element : f # e =>
          /\ busy'[f] = busy[f] /\ queue'[f] = queue[f]
          /\ running'[f] = running[f] /\ owed'[f] = owed[f]
    BY <1>1, <1>4, <1>18, DequeueValues DEF Types
  <2> QED
    BY <2>4, <2>5, <2>6, <2>7, <2>8
<1>19. CASE Waits
  <2>1. queue'[e] = Append(queue[e], a) /\ running'[e] = running[e] /\ busy'[e] = busy[e]
    BY <1>1, <1>4, <1>19 DEF Types
  <2>2. Append(queue[e], a) \in Seq(Entry) /\ Len(Append(queue[e], a)) = Len(queue[e]) + 1
    BY <1>9, <1>12
  <2>3. Separate(running[e], Append(queue[e], a), calls)
    BY <1>1, <1>9, <1>12, <1>13, SeparateAppend DEF Types
  <2>4. owed' \in [element -> Nat] /\ owed'[e] = owed[e] + 1
    BY <1>1, <1>4, <1>9, <1>19 DEF Types
  <2>5. Owed(e)'
    <3>1. Cardinality(running[e]) \in Nat /\ Len(queue[e]) \in Nat
      BY <1>9, <1>13, FS_CardinalityType DEF Owed
    <3> QED
      BY <1>13, <2>1, <2>2, <2>4, <3>1 DEF Owed
  <2>6. Slots(e)'
    BY <1>13, <1>19, <2>1 DEF Slots
  <2>7. /\ cls' \in [element -> SUBSET Class]
        /\ queue' \in [element -> Seq(Entry)]
    BY <1>1, <1>4, <1>11, <1>19, <2>2 DEF Types
  <2>8. \A f \in element : f # e =>
          /\ busy'[f] = busy[f] /\ queue'[f] = queue[f]
          /\ running'[f] = running[f] /\ owed'[f] = owed[f]
    BY <1>1, <1>4, <1>19 DEF Types
  <2> QED
    BY <1>1, <1>19, <2>1, <2>3, <2>4, <2>5, <2>6, <2>7, <2>8 DEF Types
<1> QED
  BY <1>2, <1>17, <1>18, <1>19

-----------------------------------------------------------------------------
LEMMA StepIInv ==
  ASSUME IInv, [Next]_vars
  PROVE  IInv'
<1>1. ASSUME NEW c \in Class
      PROVE  Adding(c) \in ValueObject /\ Removing(c) \in ValueObject /\ Toggling(c) \in ValueObject
  BY <1>1, ClassAnimationAssumption
     DEF Adding, Removing, Toggling, NoValue, None, ValueObject, ClassOrNone, Class
<1>2. ASSUME NEW r \in Class, NEW a \in Class PROVE Morphing(r, a) \in ValueObject
  <2>1. Morphing(r, a) = [toggle |-> None, add |-> a, remove |-> r]
    BY DEF Morphing
  <2>2. None \in ClassOrNone /\ r \in ClassOrNone /\ a \in ClassOrNone
    BY ClassAnimationAssumption DEF None, ClassOrNone, Class
  <2> QED
    BY <2>1, <2>2 DEF ValueObject
<1>3. CASE AddClass
  BY <1>1, <1>3, AnimateIInv, AtOnceIInv DEF AddClass
<1>4. CASE RemoveClass
  BY <1>1, <1>4, AnimateIInv, AtOnceIInv DEF RemoveClass
<1>5. CASE ToggleClass
  BY <1>1, <1>5, AnimateIInv, AtOnceIInv DEF ToggleClass
<1>6. CASE Morph
  BY <1>2, <1>6, AnimateIInv DEF Morph
<1>7. CASE AnimateOne
  BY <1>7, AnimateOneIInv
<1>8. CASE \E e \in element : Frame(e) \/ Finish(e)
  BY <1>8, FrameIInv, FinishIInv
<1>9. CASE UNCHANGED vars
  <2>1. UNCHANGED <<element, cls, inline, busy, queue, running, value, calls, todo, owed>>
    BY <1>9 DEF vars
  <2>2. Types'
    BY <2>1 DEF IInv, Types, Calls, Call, Entry, StyleOf, Shown
  <2>3. Visiting'
    BY <2>1 DEF IInv, Visiting
  <2>4. \A e \in element : Slots(e) /\ Apart(e) /\ Owed(e)
    BY DEF IInv
  <2>5. ASSUME NEW e \in element PROVE Slots(e)' /\ Apart(e)' /\ Owed(e)'
    <3>1. Slots(e)' /\ Owed(e)'
      BY <2>1, <2>4 DEF Slots, Owed
    <3>2. Latest(e)' = Latest(e)
      BY <2>1 DEF Latest
    <3>3. Apart(e)'
      BY <2>1, <2>4, <3>2 DEF Apart
    <3> QED
      BY <3>1, <3>3
  <2> QED
    BY <2>1, <2>2, <2>3, <2>5 DEF IInv
<1> QED
  BY <1>3, <1>4, <1>5, <1>6, <1>7, <1>8, <1>9 DEF Next

LEMMA Inductive == Spec => []IInv
<1>1. Init => IInv
  BY InitIInv
<1>2. IInv /\ [Next]_vars => IInv'
  BY StepIInv
<1> QED
  BY <1>1, <1>2, PTL DEF Spec

(* Each callback that is still owed has exactly one animation that will run *)
(* it, and none waits for one that never ends (animateClass with jQuery's   *)
(* queue), however many calls overlap and on however many elements.         *)
THEOREM CallbacksOwedHolds == Spec => []CallbacksOwed
<1>1. IInv => CallbacksOwed
  BY DEF IInv, Slots, Owed, CallbacksOwed, NobodyStuck
<1> QED
  BY <1>1, Inductive, PTL

-----------------------------------------------------------------------------
(* Elements whose calls were all careful.                                    *)

(* No call is on its way: the classes and the style are those asked for.    *)
Rests(e) == Idle(e) /\ cls[e] = want[e] /\ inline[e] = own[e]

(* The call has still to visit it: what it will resolve there is what was   *)
(* asked, and the elements that are left agree about the class to toggle.   *)
Awaits(e) ==
  LET v == value[calls]
  IN  /\ Idle(e) /\ inline[e] = own[e]
      /\ want[e] = Changed(cls[e], Resolved(v, cls[e]))
      /\ \A f \in Range(todo) : v.toggle \in cls[f] <=> v.toggle \in cls[e]

(* Its only animation leaves what was asked; the elements its call has      *)
(* still to visit do not change the value object they share any more.       *)
Animates(e) ==
  /\ queue[e] = <<>>
  /\ \E a \in running[e] :
       /\ running[e] = {a}
       /\ a.old = own[e]
       /\ want[e] = Changed(cls[e], value[a.call])
       /\ a.call = calls => \A f \in Range(todo) : Resolved(value[calls], cls[f]) = value[calls]

Right(e) == IF e \in Range(todo) THEN Awaits(e) ELSE Rests(e) \/ Animates(e)

CInv ==
  /\ want \in [element -> SUBSET Class]
  /\ \A e \in element \ hasty : Right(e)

(* A value object as the methods make it: it toggles or it adds and removes. *)
LEMMA AskedIsChanged ==
  ASSUME NEW cs \in SUBSET Class, NEW v \in ValueObject,
         v.toggle # None => v.add = None /\ v.remove = None
  PROVE  Asked(cs, v) = Changed(cs, Resolved(v, cs))
<1>1. None \notin cs /\ The(None) = {}
  BY ClassAnimationAssumption DEF None, Class, The
<1>2. CASE v.toggle = None
  BY <1>1, <1>2 DEF Asked, Changed, Resolved
<1>3. CASE v.toggle # None /\ v.toggle \in cs
  <2>1. Resolved(v, cs).remove = v.toggle /\ Resolved(v, cs).add = None
    BY <1>3 DEF Resolved, ValueObject
  <2>2. The(v.toggle) = {v.toggle}
    BY <1>3 DEF The
  <2> QED
    BY <1>1, <1>3, <2>1, <2>2 DEF Asked, Changed
<1>4. CASE v.toggle # None /\ v.toggle \notin cs
  <2>1. Resolved(v, cs).add = v.toggle /\ Resolved(v, cs).remove = None
    BY <1>4 DEF Resolved, ValueObject
  <2> QED
    BY <1>1, <1>4, <2>1 DEF Asked, Changed
<1> QED
  BY <1>2, <1>3, <1>4

(* Elements that agree about the class to toggle resolve it to the same.    *)
LEMMA ResolvedAgain ==
  ASSUME NEW v \in ValueObject, NEW cs, NEW ds, v.toggle \in cs <=> v.toggle \in ds
  PROVE  /\ Resolved(v, cs) = Resolved(v, ds)
         /\ Resolved(v, cs).toggle = v.toggle
         /\ Resolved(Resolved(v, cs), ds) = Resolved(v, cs)
<1>1. Resolved(v, cs) = Resolved(v, ds) /\ Resolved(v, cs).toggle = v.toggle
  BY DEF Resolved, ValueObject
<1>2. CASE v.toggle = None
  BY <1>2 DEF Resolved
<1>3. CASE v.toggle # None /\ v.toggle \in cs
  <2> DEFINE w == [v EXCEPT !.remove = v.toggle]
  <2>1. Resolved(v, cs) = w /\ w.toggle = v.toggle
    BY <1>3 DEF Resolved, ValueObject
  <2>2. [w EXCEPT !.remove = w.toggle] = w
    BY <2>1 DEF ValueObject
  <2> HIDE DEF w
  <2> QED
    BY <1>1, <1>3, <2>1, <2>2 DEF Resolved
<1>4. CASE v.toggle # None /\ v.toggle \notin cs
  <2> DEFINE w == [v EXCEPT !.add = v.toggle]
  <2>1. Resolved(v, cs) = w /\ w.toggle = v.toggle
    BY <1>4 DEF Resolved, ValueObject
  <2>2. [w EXCEPT !.add = w.toggle] = w
    BY <2>1 DEF ValueObject
  <2> HIDE DEF w
  <2> QED
    BY <1>1, <1>4, <2>1, <2>2 DEF Resolved
<1> QED
  BY <1>1, <1>2, <1>3, <1>4

(* The callback gives the classes the change had before it was undone.      *)
LEMMA ChangedAgain ==
  ASSUME NEW cs, NEW v
  PROVE  Changed(Unchanged(Changed(cs, v), v), v) = Changed(cs, v)
BY DEF Changed, Unchanged

LEMMA DequeueStyles ==
  ASSUME Types, NEW e \in element, NEW q, NEW cs, NEW st, NEW rs,
         DequeueThen(e, q, cs, st, rs)
  PROVE  /\ cls'[e] = cs
         /\ inline'[e] = StyleAfter(q, cs, st)
         /\ \A f \in element : f # e => cls'[f] = cls[f] /\ inline'[f] = inline[f]
<1>1. cls' = [cls EXCEPT ![e] = cs]
  BY DEF DequeueThen
<1>2. inline' = [inline EXCEPT ![e] = StyleAfter(q, cs, st)]
  BY DEF DequeueThen
<1>3. cls'[e] = cs /\ inline'[e] = StyleAfter(q, cs, st)
  BY <1>1, <1>2 DEF Types
<1>4. \A f \in element : f # e => cls'[f] = cls[f] /\ inline'[f] = inline[f]
  BY <1>1, <1>2 DEF Types
<1> QED
  BY <1>3, <1>4

LEMMA StyleAfterNone ==
  ASSUME NEW cs, NEW st \in StyleOf
  PROVE  StyleAfter(<<>>, cs, st) = st
BY DEF StyleAfter, Started, StyleOf

(* An element a step leaves alone while no call visits its elements.        *)
LEMMA StaysRight ==
  ASSUME NEW f, todo = <<>>, todo' = <<>>, Right(f),
         cls'[f] = cls[f], inline'[f] = inline[f], busy'[f] = busy[f], queue'[f] = queue[f],
         running'[f] = running[f], want'[f] = want[f], own'[f] = own[f],
         \A a \in running[f] : value'[a.call] = value[a.call]
  PROVE  Right(f)'
<1>1. Range(todo) = {} /\ Range(todo)' = {}
  BY DEF Range
<1>2. CASE Rests(f)
  BY <1>1, <1>2 DEF Right, Rests, Idle
<1>3. CASE Animates(f)
  BY <1>1, <1>3 DEF Right, Animates
<1> QED
  BY <1>1, <1>2, <1>3 DEF Right

LEMMA InitCInv == Init => CInv
<1> SUFFICES ASSUME Init, NEW e \in element PROVE CInv
  BY DEF Init, CInv
<1>1. ASSUME NEW f \in element PROVE Right(f)
  <2>1. todo = <<>> /\ Rests(f)
    BY DEF Init, Rests, Idle
  <2> QED
    BY <2>1 DEF Right, Range
<1> QED
  BY <1>1 DEF Init, CInv

LEMMA AnimateCInv ==
  ASSUME IInv, CInv, NEW es \in Selection, NEW v \in ValueObject,
         v.toggle # None => v.add = None /\ v.remove = None, Animate(es, v)
  PROVE  CInv'
<1>1. Types /\ Calls \in Nat /\ calls \in Nat
  BY CallsNat DEF IInv, Types
<1>2. /\ todo = <<>> /\ calls' = calls + 1 /\ calls < Calls /\ todo' = es
      /\ UNCHANGED <<element, cls, inline, busy, queue, running, own>>
  BY DEF Animate
<1>3. /\ value'[calls'] = v
      /\ \A c \in 1 .. calls : value'[c] = value[c]
  <2>1. value' = [value EXCEPT ![calls + 1] = v]
    BY DEF Animate
  <2>2. calls + 1 \in Call /\ 1 .. calls \subseteq Call /\ calls + 1 \notin 1 .. calls
    BY <1>1, <1>2 DEF Call
  <2> QED
    BY <1>1, <1>2, <2>1, <2>2 DEF Types
<1>4. Range(es) \subseteq element
  BY <1>1, SelectionSeq DEF Types, Range
<1>5. /\ \A f \in element : want'[f] = IF f \in Range(es) THEN Asked(want[f], v) ELSE want[f]
      /\ want' = [f \in element |-> IF f \in Range(es) THEN Asked(want[f], v) ELSE want[f]]
  BY DEF Animate
<1>6. ASSUME NEW f \in element
      PROVE  Asked(want[f], v) \in SUBSET Class
  <2>1. want[f] \in SUBSET Class
    BY DEF CInv
  <2>2. Resolved(v, want[f]) \in ValueObject
    BY <2>1, ClassesStay
  <2> QED
    BY <2>1, <2>2, AskedIsChanged, ClassesStay
<1>7. want' \in [element' -> SUBSET Class]
  BY <1>2, <1>5, <1>6 DEF CInv
<1>8. ASSUME NEW f \in element, f \notin hasty' PROVE Right(f)'
  <2>1. Rests(f) \/ Animates(f)
    BY <1>2, <1>8 DEF Animate, CInv, Right, Range
  <2>2. CASE f \in Range(es)
    <3>1. Careful(Range(es), v)
      BY <1>8, <2>2 DEF Animate
    <3>2. Rests(f)
      BY <2>1, <2>2, <3>1 DEF Careful, Animates, Idle
    <3>3. want'[f] = Changed(cls[f], Resolved(v, cls[f]))
      <4>1. want[f] = cls[f] /\ cls[f] \in SUBSET Class
        BY <1>1, <3>2 DEF Rests, Types
      <4> QED
        BY <1>5, <2>2, <4>1, AskedIsChanged
    <3>4. Awaits(f)'
      BY <1>2, <1>3, <2>2, <3>1, <3>2, <3>3 DEF Awaits, Rests, Idle, Careful
    <3> QED
      BY <1>2, <2>2, <3>4 DEF Right
  <2>3. CASE f \notin Range(es)
    <3>1. want'[f] = want[f]
      BY <1>5, <2>3
    <3>2. CASE Rests(f)
      BY <1>2, <2>3, <3>1, <3>2 DEF Right, Rests, Idle
    <3>3. CASE Animates(f)
      <4>1. PICK a \in running[f] :
              /\ running[f] = {a}
              /\ a.old = own[f]
              /\ want[f] = Changed(cls[f], value[a.call])
        BY <3>3 DEF Animates
      <4>2. Latest(f) = calls /\ Apart(f)
        BY <1>2 DEF IInv, Latest, Range
      <4>3. a.call <= calls
        BY <4>2 DEF Apart, Separate
      <4>4. a.call \in 1 .. calls
        <5>1. a.call \in 1 .. Calls
          BY <1>1 DEF Types, Entry, Call
        <5> QED
          BY <1>1, <4>3, <5>1
      <4>5. value'[a.call] = value[a.call] /\ a.call # calls'
        BY <1>1, <1>2, <1>3, <4>4
      <4>6. Animates(f)'
        BY <1>2, <3>1, <3>3, <4>1, <4>5 DEF Animates
      <4> QED
        BY <1>2, <2>3, <4>6 DEF Right
    <3> QED
      BY <2>1, <3>2, <3>3
  <2> QED
    BY <2>2, <2>3
<1> QED
  BY <1>2, <1>7, <1>8 DEF CInv

LEMMA AtOnceCInv ==
  ASSUME IInv, CInv, NEW e \in element, NEW v \in ValueObject,
         v.toggle # None => v.add = None /\ v.remove = None, AtOnce(e, v)
  PROVE  CInv'
<1>1. Types
  BY DEF IInv
<1>2. /\ todo = <<>> /\ todo' = <<>> /\ value' = value
      /\ UNCHANGED <<element, inline, busy, queue, running, own>>
      /\ cls' = [cls EXCEPT ![e] = Changed(cls[e], Resolved(v, cls[e]))]
      /\ want' = [want EXCEPT ![e] = Asked(want[e], v)]
      /\ hasty' = hasty \cup (IF Idle(e) THEN {} ELSE {e})
  BY DEF AtOnce
<1>3. want[e] \in SUBSET Class /\ cls[e] \in SUBSET Class
  BY <1>1 DEF CInv, Types
<1>4. Asked(want[e], v) = Changed(want[e], Resolved(v, want[e]))
      /\ Asked(want[e], v) \in SUBSET Class
  <2>1. Asked(want[e], v) = Changed(want[e], Resolved(v, want[e]))
    BY <1>3, AskedIsChanged
  <2>2. Resolved(v, want[e]) \in ValueObject
    BY <1>3, ClassesStay
  <2>3. Changed(want[e], Resolved(v, want[e])) \in SUBSET Class
    BY <1>3, <2>2, ClassesStay
  <2> QED
    BY <2>1, <2>3
<1>5. /\ want' \in [element' -> SUBSET Class]
      /\ want'[e] = Asked(want[e], v)
      /\ \A f \in element : f # e => want'[f] = want[f]
  BY <1>2, <1>4 DEF CInv
<1>6. /\ cls'[e] = Changed(cls[e], Resolved(v, cls[e]))
      /\ \A f \in element : f # e => cls'[f] = cls[f]
  BY <1>1, <1>2 DEF Types
<1>7. ASSUME NEW f \in element, f \notin hasty' PROVE Right(f)'
  <2>1. Right(f)
    BY <1>2, <1>7 DEF CInv
  <2>2. CASE f # e
    BY <1>2, <1>5, <1>6, <2>1, <2>2, StaysRight
  <2>3. CASE f = e
    <3>1. Idle(e)
      BY <1>2, <1>7, <2>3
    <3>2. Rests(e)
      BY <1>2, <2>1, <2>3, <3>1 DEF Right, Range, Animates, Idle
    <3>3. Rests(e)'
      BY <1>2, <1>4, <1>5, <1>6, <3>1, <3>2 DEF Rests, Idle
    <3> QED
      BY <1>2, <2>3, <3>3 DEF Right, Range
  <2> QED
    BY <2>2, <2>3
<1> QED
  BY <1>2, <1>5, <1>7 DEF CInv

LEMMA FrameCInv ==
  ASSUME IInv, CInv, NEW e \in element, Frame(e)
  PROVE  CInv'
<1>1. /\ todo = <<>> /\ todo' = <<>> /\ value' = value /\ calls' = calls
      /\ UNCHANGED <<element, cls, busy, queue, running, want, own, hasty>>
  BY DEF Frame
<1>2. \A f \in element : f # e => inline'[f] = inline[f]
  BY DEF Frame, IInv, Types
<1>3. running[e] # {}
  BY DEF Frame
<1>4. ASSUME NEW f \in element, f \notin hasty PROVE Right(f)'
  <2>1. Right(f)
    BY <1>4 DEF CInv
  <2>2. CASE f # e
    BY <1>1, <1>2, <2>1, <2>2, StaysRight
  <2>3. CASE f = e
    <3>1. Animates(e)
      BY <1>1, <1>3, <2>1, <2>3 DEF Right, Range, Rests, Idle
    <3>2. Animates(e)'
      BY <1>1, <3>1 DEF Animates
    <3> QED
      BY <1>1, <2>3, <3>2 DEF Right, Range
  <2> QED
    BY <2>2, <2>3
<1> QED
  BY <1>1, <1>4 DEF CInv

LEMMA FinishCInv ==
  ASSUME IInv, CInv, NEW e \in element, Finish(e)
  PROVE  CInv'
<1>1. Types
  BY DEF IInv
<1>2. /\ todo = <<>> /\ todo' = <<>> /\ value' = value
      /\ UNCHANGED <<element, want, own, hasty>>
  BY DEF Finish
<1>3. PICK a \in running[e] :
        DequeueThen(e, queue[e], Changed(cls[e], value[a.call]), a.old, running[e] \ {a})
  BY DEF Finish
<1>4. ASSUME NEW f \in element, f \notin hasty PROVE Right(f)'
  <2>1. Right(f)
    BY <1>4 DEF CInv
  <2>2. CASE f # e
    <3>1. /\ busy'[f] = busy[f] /\ queue'[f] = queue[f] /\ running'[f] = running[f]
          /\ cls'[f] = cls[f] /\ inline'[f] = inline[f]
      BY <1>1, <1>3, <2>2, DequeueValues, DequeueStyles
    <3> QED
      BY <1>2, <2>1, <3>1, StaysRight
  <2>3. CASE f = e
    <3>1. Animates(e)
      BY <1>2, <2>1, <2>3 DEF Right, Range, Rests, Idle
    <3>2. /\ running[e] \ {a} = {} /\ queue[e] = <<>>
          /\ a.old = own[e] /\ want[e] = Changed(cls[e], value[a.call])
      BY <3>1 DEF Animates
    <3>3. a.old \in StyleOf
      BY <1>1 DEF Types, Entry
    <3>4. DequeueThen(e, <<>>, want[e], a.old, {})
      BY <1>3, <3>2
    <3>5. running'[e] = {} /\ ~busy'[e]
      BY <1>1, <3>4, DequeueValues DEF Started
    <3>6. cls'[e] = want[e] /\ inline'[e] = own[e]
      BY <1>1, <3>2, <3>3, <3>4, DequeueStyles, StyleAfterNone
    <3>7. Rests(e)'
      BY <1>2, <3>5, <3>6 DEF Rests, Idle
    <3> QED
      BY <1>2, <2>3, <3>7 DEF Right, Range
  <2> QED
    BY <2>2, <2>3
<1> QED
  BY <1>2, <1>4 DEF CInv

(* The call takes the next of its elements off its list.                    *)
LEMMA VisitsHead ==
  ASSUME IInv, AnimateOne
  PROVE  /\ Head(todo) \in element /\ Head(todo) \notin Range(todo')
         /\ Range(todo) = Range(todo') \cup {Head(todo)}
         /\ calls \in Call
<1>1. todo \in Seq(element) /\ todo # <<>> /\ todo' = Tail(todo)
  BY DEF IInv, Types, AnimateOne
<1>2. \A i, j \in DOMAIN todo : todo[i] = todo[j] => i = j
  BY DEF IInv, Visiting
<1>3. 1 \in DOMAIN todo /\ Head(todo) = todo[1] /\ Head(todo) \in element
  BY <1>1
<1>4. \A i \in DOMAIN todo' : i + 1 \in DOMAIN todo /\ i + 1 # 1 /\ todo'[i] = todo[i + 1]
  BY <1>1
<1>5. \A i \in DOMAIN todo : i # 1 => i - 1 \in DOMAIN todo' /\ todo'[i - 1] = todo[i]
  BY <1>1
<1>6. Head(todo) \notin Range(todo')
  BY <1>2, <1>3, <1>4 DEF Range
<1>7. Range(todo) = Range(todo') \cup {Head(todo)}
  BY <1>3, <1>4, <1>5 DEF Range
<1>8. calls \in Call
  BY <1>1, CallsNat DEF IInv, Types, Visiting, Call
<1> QED
  BY <1>3, <1>6, <1>7, <1>8

LEMMA AnimateOneCInv ==
  ASSUME IInv, CInv, AnimateOne
  PROVE  CInv'
<1>1. Types
  BY DEF IInv
<1> PICK e, u, v, st, a, cs :
         /\ e  = Head(todo)
         /\ u  = value[calls]
         /\ v  = Resolved(u, cls[e])
         /\ st = inline[e]
         /\ a  = [call |-> calls, offset |-> Offset(cls[e], Changed(cls[e], v), st), old |-> st]
         /\ cs = Unchanged(Changed(cls[e], v), v)
  OBVIOUS
<1>2. /\ value' = [value EXCEPT ![calls] = v]
      /\ \/ DequeueThen(e, queue[e], Changed(cs, v), st, running[e])
         \/ ~busy[e] /\ DequeueThen(e, <<a>>, cs, st, running[e])
         \/ /\ busy[e]
            /\ queue' = [queue EXCEPT ![e] = Append(queue[e], a)]
            /\ cls' = [cls EXCEPT ![e] = cs]
            /\ UNCHANGED <<busy, running, inline>>
  BY DEF AnimateOne
<1>3. UNCHANGED <<element, calls, want, own, hasty>>
  BY DEF AnimateOne
<1>4. e \in element /\ e \notin Range(todo') /\ Range(todo) = Range(todo') \cup {e} /\ calls \in Call
  BY VisitsHead
<1>5. u \in ValueObject /\ st \in StyleOf /\ a.call = calls /\ a.old = st
  BY <1>1, <1>4 DEF Types
<1>6. value'[calls] = v /\ \A c \in Call : c # calls => value'[c] = value[c]
  BY <1>1, <1>2, <1>4 DEF Types
<1>7. \A f \in element : f # e =>
        /\ busy'[f] = busy[f] /\ queue'[f] = queue[f] /\ running'[f] = running[f]
        /\ cls'[f] = cls[f] /\ inline'[f] = inline[f]
  <2>1. CASE busy[e] /\ UNCHANGED <<busy, running, inline>>
             /\ queue' = [queue EXCEPT ![e] = Append(queue[e], a)]
             /\ cls' = [cls EXCEPT ![e] = cs]
    BY <1>1, <2>1 DEF Types
  <2>2. CASE DequeueThen(e, queue[e], Changed(cs, v), st, running[e])
    BY <1>1, <1>4, <2>2, DequeueValues, DequeueStyles
  <2>3. CASE DequeueThen(e, <<a>>, cs, st, running[e])
    BY <1>1, <1>4, <2>3, DequeueValues, DequeueStyles
  <2> QED
    BY <1>2, <2>1, <2>2, <2>3
<1>8. \A g \in Range(todo') : g \in element /\ g # e /\ cls'[g] = cls[g]
  <2>1. todo' \in Seq(element)
    <3>1. todo \in Seq(element) /\ todo # <<>> /\ todo' = Tail(todo)
      BY <1>1 DEF Types, AnimateOne
    <3> QED
      BY <3>1
  <2> QED
    BY <1>4, <1>7, <2>1 DEF Range
<1>9. ASSUME NEW f \in element, f \notin hasty PROVE Right(f)'
  <2>1. Right(f)
    BY <1>9 DEF CInv
  <2>2. CASE f = e
    <3>1. /\ Idle(e) /\ inline[e] = own[e]
          /\ want[e] = Changed(cls[e], v)
          /\ \A g \in Range(todo) : u.toggle \in cls[g] <=> u.toggle \in cls[e]
      BY <1>4, <2>1, <2>2 DEF Right, Awaits
    <3>2. ~busy[e] /\ running[e] = {} /\ queue[e] = <<>>
      BY <1>4, <3>1 DEF Idle, IInv, Slots
    <3>3. Changed(cs, v) = want[e]
      BY <3>1, ChangedAgain
    <3>4. CASE DequeueThen(e, <<>>, want[e], st, {})
      <4>1. running'[e] = {} /\ ~busy'[e]
        BY <1>1, <1>4, <3>4, DequeueValues DEF Started
      <4>2. cls'[e] = want[e] /\ inline'[e] = own[e]
        BY <1>1, <1>4, <1>5, <3>1, <3>4, DequeueStyles, StyleAfterNone
      <4>3. Rests(e)'
        BY <1>3, <4>1, <4>2 DEF Rests, Idle
      <4> QED
        BY <1>4, <2>2, <4>3 DEF Right
    <3>5. CASE DequeueThen(e, <<a>>, cs, st, {})
      <4> DEFINE q == <<a>>
      <4>1. Started(q) = {a} /\ q # <<>> /\ Tail(q) = <<>>
        BY DEF Started
      <4>2. running'[e] = {a} /\ queue'[e] = <<>> /\ cls'[e] = cs
        <5>1. DequeueThen(e, q, cs, st, {})
          BY <3>5
        <5> HIDE DEF q
        <5>2. /\ queue'[e] = IF q = <<>> THEN q ELSE Tail(q)
              /\ running'[e] = {} \cup Started(q)
          BY <1>1, <1>4, <5>1, DequeueValues
        <5>3. cls'[e] = cs
          BY <1>1, <1>4, <5>1, DequeueStyles
        <5> QED
          BY <4>1, <5>2, <5>3
      <4>3. \A g \in Range(todo') : Resolved(v, cls'[g]) = v
        BY <1>4, <1>5, <1>8, <3>1, ResolvedAgain
      <4>4. Animates(e)'
        BY <1>3, <1>5, <1>6, <3>1, <3>3, <4>2, <4>3 DEF Animates
      <4> QED
        BY <1>4, <2>2, <4>4 DEF Right
    <3> QED
      BY <1>2, <2>2, <3>2, <3>3, <3>4, <3>5
  <2>3. CASE f # e /\ f \in Range(todo)
    <3>1. /\ Idle(f) /\ inline[f] = own[f]
          /\ want[f] = Changed(cls[f], Resolved(u, cls[f]))
          /\ \A g \in Range(todo) : u.toggle \in cls[g] <=> u.toggle \in cls[f]
      BY <2>1, <2>3 DEF Right, Awaits
    <3>2. Resolved(v, cls[f]) = Resolved(u, cls[f]) /\ v.toggle = u.toggle
      BY <1>4, <1>5, <3>1, ResolvedAgain
    <3>3. Awaits(f)'
      BY <1>3, <1>4, <1>6, <1>7, <1>8, <2>3, <3>1, <3>2 DEF Awaits, Idle
    <3> QED
      BY <1>4, <2>3, <3>3 DEF Right
  <2>4. CASE f # e /\ f \notin Range(todo)
    <3>1. f \notin Range(todo')
      BY <1>4, <2>4
    <3>2. CASE Rests(f)
      <4>1. Rests(f)'
        BY <1>3, <1>7, <2>4, <3>2 DEF Rests, Idle
      <4> QED
        BY <3>1, <4>1 DEF Right
    <3>3. CASE Animates(f)
      <4>1. PICK b \in running[f] :
              /\ running[f] = {b}
              /\ b.old = own[f]
              /\ want[f] = Changed(cls[f], value[b.call])
              /\ b.call = calls => \A g \in Range(todo) : Resolved(u, cls[g]) = u
        BY <3>3 DEF Animates
      <4>2. b.call \in Call
        BY <1>1 DEF Types, Entry
      <4>3. b.call = calls => v = u
        BY <1>4, <4>1
      <4>4. value'[b.call] = value[b.call]
        BY <1>6, <4>2, <4>3
      <4>5. b.call = calls => \A g \in Range(todo') : Resolved(value'[calls], cls'[g]) = value'[calls]
        BY <1>4, <1>6, <1>8, <4>1, <4>3
      <4>6. /\ queue'[f] = <<>> /\ running'[f] = {b} /\ b.old = own'[f]
            /\ want'[f] = Changed(cls'[f], value'[b.call])
        BY <1>3, <1>7, <2>4, <3>3, <4>1, <4>4 DEF Animates
      <4>7. Animates(f)'
        BY <1>3, <4>5, <4>6 DEF Animates
      <4> QED
        BY <3>1, <4>7 DEF Right
    <3> QED
      BY <2>1, <2>4, <3>2, <3>3 DEF Right
  <2> QED
    BY <2>2, <2>3, <2>4
<1> QED
  BY <1>3, <1>9 DEF CInv

(* The methods make value objects that toggle or add and remove.            *)
LEMMA MadeByMethods ==
  ASSUME NEW r \in Class, NEW a \in Class, NEW v,
         \/ v = Adding(a) \/ v = Removing(a) \/ v = Toggling(a) \/ v = Morphing(r, a)
  PROVE  /\ v \in ValueObject
         /\ v.toggle # None => v.add = None /\ v.remove = None
<1>1. None \in ClassOrNone /\ r \in ClassOrNone /\ a \in ClassOrNone
  BY ClassAnimationAssumption DEF None, ClassOrNone, Class
<1>2. /\ Adding(a) = [toggle |-> None, add |-> a, remove |-> None]
      /\ Removing(a) = [toggle |-> None, add |-> None, remove |-> a]
      /\ Toggling(a) = [toggle |-> a, add |-> None, remove |-> None]
      /\ Morphing(r, a) = [toggle |-> None, add |-> a, remove |-> r]
  BY DEF Adding, Removing, Toggling, Morphing, NoValue
<1> QED
  BY <1>1, <1>2 DEF ValueObject

LEMMA StepCInv ==
  ASSUME IInv, CInv, [Next]_vars
  PROVE  CInv'
<1>1. CASE AddClass
  BY <1>1, MadeByMethods, AnimateCInv, AtOnceCInv DEF AddClass
<1>2. CASE RemoveClass
  BY <1>2, MadeByMethods, AnimateCInv, AtOnceCInv DEF RemoveClass
<1>3. CASE ToggleClass
  BY <1>3, MadeByMethods, AnimateCInv, AtOnceCInv DEF ToggleClass
<1>4. CASE Morph
  BY <1>4, MadeByMethods, AnimateCInv DEF Morph
<1>5. CASE AnimateOne
  BY <1>5, AnimateOneCInv
<1>6. CASE \E e \in element : Frame(e) \/ Finish(e)
  BY <1>6, FrameCInv, FinishCInv
<1>7. CASE UNCHANGED vars
  BY <1>7 DEF vars, CInv, Right, Rests, Awaits, Animates, Idle, Range
<1> QED
  BY <1>1, <1>2, <1>3, <1>4, <1>5, <1>6, <1>7 DEF Next

(* Where calls are only made on elements at rest that agree about the class *)
(* to toggle, each call leaves the classes it was asked for and the style   *)
(* the page had, although its elements share one value object.             *)
THEOREM CarefulCallsHold == Spec => []CarefulCallsAreRight
<1>1. ASSUME CInv, NEW e \in element, e \notin hasty, Idle(e), todo = <<>>
      PROVE  cls[e] = want[e] /\ inline[e] = own[e]
  BY <1>1 DEF CInv, Right, Range, Rests, Animates, Idle
<1>2. CInv => CarefulCallsAreRight
  BY <1>1 DEF CarefulCallsAreRight
<1>3. IInv /\ CInv /\ [Next]_vars => CInv'
  BY StepCInv
<1> QED
  BY <1>2, <1>3, InitCInv, Inductive, PTL DEF Spec
=============================================================================
