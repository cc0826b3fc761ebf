------------------------ MODULE HighlightEffectProofs ------------------------
(***************************************************************************)
(* Theorems about the highlights of effects.highlight.js, for any elements *)
(* and any number of calls: no highlight is stranded in a queue, whatever  *)
(* animateClass calls come between, and without those the style attribute  *)
(* a page began with comes back.                                           *)
(***************************************************************************)
EXTENDS HighlightEffect, FiniteSetTheorems, TLAPS

(* What keeps the fx queues going: the mark at their head belongs to a      *)
(* highlight that runs, nothing waits without the mark, and a highlight     *)
(* that runs has saved a style.                                            *)
Slots ==
  \A e \in Element :
    /\ busy[e] => running[e] # {}
    /\ queue[e] # <<>> => busy[e]
    /\ running[e] # {} => stored[e] \in Style

(* One highlight at a time: the one that runs shows in the style, and what  *)
(* it has saved is the page's own style.                                   *)
Lone(e) ==
  /\ running[e] = {} \/ (busy[e] /\ \E h \in Effect : running[e] = {h})
  /\ running[e] = {} <=> style[e] = "own"
  /\ running[e] # {} => stored[e] = "own"

(* That is so on every element without animateClass calls. *)
Alone == \A e \in Element : ~classed[e] => Lone(e)

IInv == TypeOK /\ Slots /\ Alone

(* jQuery.dequeue keeps the types of what it changes. *)
LEMMA DequeueTypes ==
  ASSUME TypeOK, NEW e \in Element, NEW q \in Seq(Effect), NEW visible \in BOOLEAN,
         NEW st \in Style, NEW rs \in SUBSET Effect,
         DequeueThen(e, q, visible, st, rs)
  PROVE  /\ shown' \in [Element -> BOOLEAN]
         /\ style' \in [Element -> Style]
         /\ stored' \in [Element -> Style \cup {"undefined"}]
         /\ busy' \in [Element -> BOOLEAN]
         /\ queue' \in [Element -> Seq(Effect)]
         /\ running' \in [Element -> SUBSET Effect]
<1>1. CASE q = <<>>
  <2>1. /\ busy' = [busy EXCEPT ![e] = FALSE] /\ queue' = [queue EXCEPT ![e] = <<>>]
        /\ shown' = [shown EXCEPT ![e] = visible] /\ style' = [style EXCEPT ![e] = st]
        /\ running' = [running EXCEPT ![e] = rs] /\ stored' = stored
    BY <1>1 DEF DequeueThen
  <2>2. shown' \in [Element -> BOOLEAN] /\ busy' \in [Element -> BOOLEAN]
    BY <2>1 DEF TypeOK
  <2>3. style' \in [Element -> Style] /\ stored' \in [Element -> Style \cup {"undefined"}]
    BY <2>1 DEF TypeOK
  <2>4. queue' \in [Element -> Seq(Effect)] /\ running' \in [Element -> SUBSET Effect]
    BY <2>1 DEF TypeOK
  <2> QED
    BY <2>2, <2>3, <2>4
<1>2. CASE q # <<>>
  <2> DEFINE h == [Head(q) EXCEPT !.mode = SetMode(@, visible)]
  <2>1. /\ Head(q) \in Effect
        /\ Tail(q) \in Seq(Effect)
    BY <1>2
  <2>2. h \in Effect
    BY <2>1 DEF Effect, Mode, SetMode
  <2>3. rs \cup {h} \in SUBSET Effect
    BY <2>2
  <2>4. running' = [running EXCEPT ![e] = rs \cup {h}]
    BY <1>2 DEF DequeueThen
  <2> HIDE DEF h
  <2>5. running' \in [Element -> SUBSET Effect]
    BY <2>3, <2>4 DEF TypeOK
  <2>6. queue' \in [Element -> Seq(Effect)]
    BY <1>2, <2>1 DEF DequeueThen, TypeOK
  <2>7. stored' \in [Element -> Style \cup {"undefined"}]
    BY <1>2 DEF DequeueThen, TypeOK
  <2>8. style' \in [Element -> Style] /\ shown' \in [Element -> BOOLEAN]
        /\ busy' \in [Element -> BOOLEAN]
    BY <1>2 DEF DequeueThen, TypeOK, Style
  <2> QED
    BY <2>5, <2>6, <2>7, <2>8
<1> QED
  BY <1>1, <1>2

(* jQuery.dequeue with something to run, or with nothing left, keeps Slots. *)
LEMMA DequeueSlots ==
  ASSUME TypeOK, Slots, NEW e \in Element, NEW q \in Seq(Effect), NEW visible \in BOOLEAN,
         NEW st \in Style, NEW rs \in SUBSET Effect, rs \subseteq running[e],
         DequeueThen(e, q, visible, st, rs)
  PROVE  Slots'
<1> SUFFICES ASSUME NEW f \in Element
             PROVE  /\ busy'[f] => running'[f] # {}
                    /\ queue'[f] # <<>> => busy'[f]
                    /\ running'[f] # {} => stored'[f] \in Style
  BY DEF Slots
<1>1. CASE f # e
  BY <1>1 DEF DequeueThen, TypeOK, Slots
<1>2. CASE f = e /\ q = <<>>
  BY <1>2 DEF DequeueThen, TypeOK, Slots
<1>3. CASE f = e /\ q # <<>>
  <2> DEFINE h == [Head(q) EXCEPT !.mode = SetMode(@, visible)]
  <2>1. /\ running' = [running EXCEPT ![e] = rs \cup {h}]
        /\ busy' = [busy EXCEPT ![e] = TRUE] /\ stored' = [stored EXCEPT ![e] = st]
    BY <1>3 DEF DequeueThen
  <2> HIDE DEF h
  <2>2. busy'[f] /\ h \in running'[f] /\ stored'[f] = st
    BY <1>3, <2>1 DEF TypeOK
  <2> QED
    BY <2>2
<1> QED
  BY <1>1, <1>2, <1>3

(* jQuery.dequeue leaves the other elements as they are. *)
LEMMA DequeueOthers ==
  ASSUME TypeOK, NEW e \in Element, NEW q, NEW visible, NEW st, NEW rs,
         DequeueThen(e, q, visible, st, rs), NEW f \in Element, f # e
  PROVE  /\ running'[f] = running[f] /\ busy'[f] = busy[f] /\ queue'[f] = queue[f]
         /\ style'[f] = style[f] /\ stored'[f] = stored[f]
BY DEF DequeueThen, TypeOK

(* If nothing else runs on the element and its style is the page's own,     *)
(* jQuery.dequeue leaves one highlight there at most.                      *)
LEMMA DequeueLone ==
  ASSUME TypeOK, NEW e \in Element, NEW q \in Seq(Effect), NEW visible \in BOOLEAN,
         DequeueThen(e, q, visible, "own", {})
  PROVE  Lone(e)'
<1>1. CASE q = <<>>
  <2>1. running'[e] = {} /\ style'[e] = "own"
    BY <1>1 DEF DequeueThen, TypeOK
  <2> QED
    BY <2>1 DEF Lone
<1>2. CASE q # <<>>
  <2> DEFINE h == [Head(q) EXCEPT !.mode = SetMode(@, visible)]
  <2>1. h \in Effect
    <3>1. Head(q) \in Effect
      BY <1>2
    <3> QED
      BY <3>1 DEF Effect, Mode, SetMode
  <2>2. running' = [running EXCEPT ![e] = {} \cup {h}] /\ busy' = [busy EXCEPT ![e] = TRUE]
    BY <1>2 DEF DequeueThen
  <2>3. style' = [style EXCEPT ![e] = "lit"] /\ stored' = [stored EXCEPT ![e] = "own"]
    BY <1>2 DEF DequeueThen
  <2> HIDE DEF h
  <2>4. running'[e] = {h} /\ busy'[e] /\ style'[e] = "lit" /\ stored'[e] = "own"
    BY <2>2, <2>3 DEF TypeOK
  <2> QED
    BY <2>1, <2>4 DEF Lone
<1> QED
  BY <1>1, <1>2

LEMMA InitIInv == Init => IInv
<1> SUFFICES ASSUME Init PROVE IInv
  OBVIOUS
<1>1. TypeOK
  BY HighlightAssumption DEF Init, TypeOK, Style
<1>2. Slots
  BY DEF Init, Slots
<1>3. Alone
  BY DEF Init, Alone, Lone
<1> QED
  BY <1>1, <1>2, <1>3 DEF IInv

LEMMA CallEffectIInv ==
  ASSUME IInv, NEW e \in Element, NEW mode \in Mode, CallEffect(e, mode)
  PROVE  IInv'
<1> DEFINE q == Append(queue[e], [id |-> calls + 1, mode |-> mode])
<1>1. TypeOK /\ Slots /\ Alone
  BY DEF IInv
<1>2. /\ calls + 1 \in 1 .. MaxCalls /\ calls' \in 0 .. MaxCalls
      /\ mixed' \in [Element -> BOOLEAN] /\ classed' = classed
  BY <1>1, HighlightAssumption DEF TypeOK, CallEffect
<1>3. asked' \in [Element -> BOOLEAN]
  BY <1>1 DEF TypeOK, CallEffect, Outcome
<1>4. q \in Seq(Effect)
  <2>1. [id |-> calls + 1, mode |-> mode] \in Effect
    BY <1>2 DEF Effect
  <2> QED
    BY <1>1, <2>1 DEF TypeOK
<1>5. CASE ~busy[e] /\ DequeueThen(e, q, shown[e], style[e], running[e])
  <2>1. /\ shown[e] \in BOOLEAN /\ style[e] \in Style /\ running[e] \in SUBSET Effect
    BY <1>1 DEF TypeOK
  <2>2. TypeOK'
    BY <1>1, <1>2, <1>3, <1>4, <1>5, <2>1, DequeueTypes DEF TypeOK
  <2>3. Slots'
    BY <1>1, <1>4, <1>5, <2>1, DequeueSlots
  <2>4. ASSUME NEW f \in Element, ~classed[f] PROVE Lone(f)'
    <3>1. Lone(f)
      BY <1>1, <2>4 DEF Alone
    <3>2. CASE f = e
      <4>1. running[e] = {} /\ style[e] = "own"
        BY <3>1, <3>2, <1>5 DEF Lone
      <4>2. DequeueThen(e, q, shown[e], "own", {})
        BY <1>5, <4>1
      <4> HIDE DEF q
      <4> QED
        BY <1>1, <1>4, <2>1, <3>2, <4>2, DequeueLone
    <3>3. CASE f # e
      BY <1>1, <1>5, <3>1, <3>3, DequeueOthers DEF Lone
    <3> QED
      BY <3>2, <3>3
  <2>5. Alone'
    BY <1>2, <2>4 DEF Alone
  <2> QED
    BY <2>2, <2>3, <2>5 DEF IInv
<1>6. CASE busy[e] /\ queue' = [queue EXCEPT ![e] = q]
           /\ UNCHANGED <<shown, style, stored, busy, running>>
  <2>1. TypeOK'
    BY <1>1, <1>2, <1>3, <1>4, <1>6 DEF TypeOK
  <2>2. Slots'
    BY <1>1, <1>6 DEF TypeOK, Slots
  <2>3. Alone'
    BY <1>1, <1>2, <1>6 DEF Alone, Lone
  <2> QED
    BY <2>1, <2>2, <2>3 DEF IInv
<1> QED
  BY <1>5, <1>6 DEF CallEffect

LEMMA CompleteIInv ==
  ASSUME IInv, NEW e \in Element, Complete(e)
  PROVE  IInv'
<1>1. TypeOK /\ Slots /\ Alone
  BY DEF IInv
<1>2. PICK h \in running[e] :
        DequeueThen(e, queue[e], shown[e] /\ h.mode # "hide", stored[e], running[e] \ {h})
  BY DEF Complete
<1> DEFINE v == shown[e] /\ h.mode # "hide"
<1>3. /\ v \in BOOLEAN /\ queue[e] \in Seq(Effect) /\ stored[e] \in Style
      /\ running[e] \ {h} \in SUBSET Effect /\ running[e] \ {h} \subseteq running[e]
  BY <1>1 DEF TypeOK, Slots
<1>4. TypeOK'
  <2>1. UNCHANGED <<calls, asked, mixed, classed>>
    BY DEF Complete
  <2> HIDE DEF v
  <2>2. DequeueThen(e, queue[e], v, stored[e], running[e] \ {h})
    BY <1>2 DEF v
  <2>3. /\ shown' \in [Element -> BOOLEAN]
        /\ style' \in [Element -> Style]
        /\ stored' \in [Element -> Style \cup {"undefined"}]
        /\ busy' \in [Element -> BOOLEAN]
        /\ queue' \in [Element -> Seq(Effect)]
        /\ running' \in [Element -> SUBSET Effect]
    BY <1>1, <1>3, <2>2, DequeueTypes
  <2> QED
    BY <1>1, <2>1, <2>3 DEF TypeOK
<1>5. Slots'
  BY <1>1, <1>2, <1>3, DequeueSlots
<1>6. ASSUME NEW f \in Element, ~classed[f] PROVE Lone(f)'
  <2>1. Lone(f)
    BY <1>1, <1>6 DEF Alone
  <2>2. CASE f = e
    <3>1. running[e] \ {h} = {} /\ stored[e] = "own"
      BY <2>1, <2>2 DEF Lone
    <3>2. DequeueThen(e, queue[e], v, "own", {})
      BY <1>2, <3>1
    <3> HIDE DEF v
    <3> QED
      BY <1>1, <1>3, <2>2, <3>2, DequeueLone
  <2>3. CASE f # e
    BY <1>1, <1>2, <2>1, <2>3, DequeueOthers DEF Lone
  <2> QED
    BY <2>2, <2>3
<1>7. Alone'
  BY <1>6 DEF Alone, Complete
<1> QED
  BY <1>4, <1>5, <1>7 DEF IInv

LEMMA PlainIInv ==
  ASSUME IInv, NEW e \in Element, NEW mode \in Mode, Plain(e, mode)
  PROVE  IInv'
<1>1. TypeOK'
  <2>1. calls' \in 0 .. MaxCalls
    BY HighlightAssumption DEF IInv, TypeOK, Plain
  <2>2. shown' \in [Element -> BOOLEAN] /\ asked' \in [Element -> BOOLEAN]
    BY DEF IInv, TypeOK, Plain, Outcome
  <2>3. mixed' \in [Element -> BOOLEAN]
    BY DEF IInv, TypeOK, Plain, Idle
  <2> QED
    BY <2>1, <2>2, <2>3 DEF IInv, TypeOK, Plain
<1>2. Slots' /\ Alone'
  BY DEF IInv, Plain, Slots, Alone, Lone
<1> QED
  BY <1>1, <1>2 DEF IInv

LEMMA ClassCallIInv ==
  ASSUME IInv, NEW e \in Element, ClassCall(e)
  PROVE  IInv'
<1>1. TypeOK /\ Slots /\ Alone
  BY DEF IInv
<1>2. /\ DequeueThen(e, queue[e], shown[e], style[e], running[e])
      /\ queue[e] \in Seq(Effect) /\ shown[e] \in BOOLEAN /\ style[e] \in Style
      /\ running[e] \in SUBSET Effect
  BY <1>1 DEF ClassCall, TypeOK
<1>3. calls' \in 0 .. MaxCalls
  BY <1>1, HighlightAssumption DEF ClassCall, TypeOK
<1>4. TypeOK'
  BY <1>1, <1>2, <1>3, DequeueTypes DEF TypeOK, ClassCall
<1>5. Slots'
  BY <1>1, <1>2, DequeueSlots
<1>6. ASSUME NEW f \in Element, ~classed'[f] PROVE Lone(f)'
  <2>1. f # e /\ ~classed[f]
    BY <1>1, <1>6 DEF ClassCall, TypeOK
  <2> QED
    BY <1>1, <1>2, <2>1, DequeueOthers DEF Alone, Lone
<1>7. Alone'
  BY <1>6 DEF Alone
<1> QED
  BY <1>4, <1>5, <1>7 DEF IInv

LEMMA StepIInv == IInv /\ [Next]_vars => IInv'
<1> SUFFICES ASSUME IInv, [Next]_vars PROVE IInv'
  OBVIOUS
<1>1. CASE UNCHANGED vars
  BY <1>1 DEF IInv, TypeOK, Slots, Alone, Lone, vars
<1>2. ASSUME NEW e \in Element, NEW mode \in Mode, CallEffect(e, mode) PROVE IInv'
  BY <1>2, CallEffectIInv
<1>3. ASSUME NEW e \in Element, NEW mode \in Mode, Plain(e, mode) PROVE IInv'
  BY <1>3, PlainIInv
<1>4. ASSUME NEW e \in Element, Complete(e) PROVE IInv'
  BY <1>4, CompleteIInv
<1>5. ASSUME NEW e \in Element, ClassCall(e) PROVE IInv'
  BY <1>5, ClassCallIInv
<1> QED
  BY <1>1, <1>2, <1>3, <1>4, <1>5 DEF Next

LEMMA Inductive == Spec => []IInv
BY InitIInv, StepIInv, PTL DEF Spec

(* The queues and styles keep their types, the one that matters being that  *)
(* only a style is ever written back, never "undefined".                   *)
THEOREM TypeCorrect == Spec => []TypeOK
<1>1. IInv => TypeOK
  BY DEF IInv
<1> QED
  BY <1>1, Inductive, PTL

(* No highlight waits without one that runs and will dequeue it, also when  *)
(* animateClass calls dequeue out of turn.                                 *)
THEOREM NobodyStuckHolds == Spec => []NobodyStuck
<1>1. IInv => NobodyStuck
  BY DEF IInv, Slots, NobodyStuck
<1> QED
  BY <1>1, Inductive, PTL

(* With only highlights on an element, the one slot for saved styles is     *)
(* enough: one runs at a time, and without one the style is the page's own. *)
THEOREM StyleRestoredHolds == Spec => []StyleRestored
<1>1. ASSUME IInv, NEW e \in Element, ~classed[e]
      PROVE  /\ style[e] = "own" <=> running[e] = {}
             /\ running[e] # {} => stored[e] = "own"
             /\ Cardinality(running[e]) <= 1
  <2>1. Lone(e)
    BY <1>1 DEF IInv, Alone
  <2>2. Cardinality(running[e]) <= 1
    <3>1. CASE running[e] = {}
      BY <3>1, FS_EmptySet
    <3>2. CASE \E h \in Effect : running[e] = {h}
      BY <3>2, FS_Singleton
    <3> QED
      BY <2>1, <3>1, <3>2, <1>1 DEF Lone
  <2> QED
    BY <1>1, <2>1, <2>2 DEF Lone
<1>2. IInv => StyleRestored
  BY <1>1 DEF StyleRestored
<1> QED
  BY <1>2, Inductive, PTL

-----------------------------------------------------------------------------
(* What the calls ask for.                                                   *)

(* The visibility the element has when the highlight that runs is complete. *)
After(e) == shown[e] /\ \A h \in running[e] : h.mode # "hide"

(* The highlights q, taken one after the other, lead from visibility v to   *)
(* visibility w: f[i] is what the first i of them leave.                   *)
Leads(v, q, w) ==
  \E f \in [0 .. Len(q) -> BOOLEAN] :
    /\ f[0] = v
    /\ \A i \in 1 .. Len(q) : f[i] = Outcome(q[i].mode, f[i - 1])
    /\ f[Len(q)] = w

(* Without plain calls among highlights and without animateClass calls, the *)
(* highlight that runs and then those that wait lead to what was asked.     *)
Due == \A e \in Element : ~mixed[e] /\ ~classed[e] => Leads(After(e), queue[e], asked[e])

LEMMA LeadsNone ==
  ASSUME NEW v \in BOOLEAN, NEW w \in BOOLEAN
  PROVE  Leads(v, <<>>, w) <=> v = w
<1>1. Leads(v, <<>>, w) => v = w
  BY DEF Leads
<1>2. ASSUME v = w PROVE Leads(v, <<>>, w)
  <2> DEFINE f == [i \in 0 .. 0 |-> v]
  <2>1. f \in [0 .. 0 -> BOOLEAN] /\ f[0] = v
    OBVIOUS
  <2> HIDE DEF f
  <2> QED
    BY <1>2, <2>1 DEF Leads
<1> QED
  BY <1>1, <1>2

LEMMA LeadsAppend ==
  ASSUME NEW v \in BOOLEAN, NEW w \in BOOLEAN, NEW q \in Seq(Effect), NEW x \in Effect,
         Leads(v, q, w)
  PROVE  Leads(v, Append(q, x), Outcome(x.mode, w))
<1>1. PICK f \in [0 .. Len(q) -> BOOLEAN] :
        /\ f[0] = v
        /\ \A i \in 1 .. Len(q) : f[i] = Outcome(q[i].mode, f[i - 1])
        /\ f[Len(q)] = w
  BY DEF Leads
<1> DEFINE n == Len(q)
           o == Outcome(x.mode, w)
           g == [i \in 0 .. n + 1 |-> IF i = n + 1 THEN o ELSE f[i]]
           r == Append(q, x)
<1>2. n \in Nat /\ Len(r) = n + 1 /\ r[n + 1] = x /\ \A i \in 1 .. n : r[i] = q[i]
  OBVIOUS
<1>3. o \in BOOLEAN
  BY DEF Outcome
<1> HIDE DEF n, o
<1>4. /\ g \in [0 .. n + 1 -> BOOLEAN]
      /\ g[n + 1] = o
      /\ \A i \in 0 .. n : g[i] = f[i]
  BY <1>2, <1>3 DEF n
<1> HIDE DEF g, r
<1>5. g[0] = v
  BY <1>1, <1>2, <1>4
<1>6. ASSUME NEW i \in 1 .. n + 1 PROVE g[i] = Outcome(r[i].mode, g[i - 1])
  <2>1. CASE i = n + 1
    <3>1. i - 1 = n /\ n \in 0 .. n
      BY <1>2, <2>1
    <3>2. g[i - 1] = f[n]
      BY <1>4, <3>1
    <3>3. g[i - 1] = w
      BY <1>1, <3>2 DEF n
    <3> QED
      BY <1>2, <1>4, <2>1, <3>3 DEF o
  <2>2. CASE i # n + 1
    <3>1. i \in 1 .. n /\ i \in 0 .. n /\ i - 1 \in 0 .. n
      BY <1>2, <2>2
    <3>2. f[i] = Outcome(q[i].mode, f[i - 1])
      BY <1>1, <3>1 DEF n
    <3>3. g[i] = f[i] /\ g[i - 1] = f[i - 1] /\ r[i] = q[i]
      BY <1>2, <1>4, <3>1
    <3> QED
      BY <3>2, <3>3
  <2> QED
    BY <2>1, <2>2
<1>7. Leads(v, r, o)
  BY <1>2, <1>4, <1>5, <1>6 DEF Leads
<1> QED
  BY <1>7 DEF r, o

LEMMA LeadsTail ==
  ASSUME NEW v \in BOOLEAN, NEW w \in BOOLEAN, NEW q \in Seq(Effect), q # <<>>,
         Leads(v, q, w)
  PROVE  Leads(Outcome(Head(q).mode, v), Tail(q), w)
<1>1. PICK f \in [0 .. Len(q) -> BOOLEAN] :
        /\ f[0] = v
        /\ \A i \in 1 .. Len(q) : f[i] = Outcome(q[i].mode, f[i - 1])
        /\ f[Len(q)] = w
  BY DEF Leads
<1>2. PICK n \in Nat : Len(q) = n + 1
  <2> DEFINE m == Len(q) - 1
  <2>1. m \in Nat /\ Len(q) = m + 1
    OBVIOUS
  <2> HIDE DEF m
  <2> QED
    BY <2>1
<1> DEFINE r == Tail(q)
           g == [i \in 0 .. n |-> f[i + 1]]
<1>3. Len(r) = n /\ Head(q) = q[1] /\ \A i \in 1 .. n : r[i] = q[i + 1]
  BY <1>2
<1>4. /\ g \in [0 .. n -> BOOLEAN]
      /\ \A i \in 0 .. n : g[i] = f[i + 1]
  BY <1>2
<1> HIDE DEF g, r
<1>5. g[0] = Outcome(q[1].mode, v)
  <2>1. 1 \in 1 .. Len(q) /\ 0 \in 0 .. n
    BY <1>2
  <2>2. f[1] = Outcome(q[1].mode, f[1 - 1])
    BY <1>1, <2>1
  <2> QED
    BY <1>1, <1>4, <2>1, <2>2
<1>6. ASSUME NEW i \in 1 .. n PROVE g[i] = Outcome(r[i].mode, g[i - 1])
  <2>1. i + 1 \in 1 .. Len(q) /\ (i + 1) - 1 = i /\ (i - 1) + 1 = i
        /\ i \in 0 .. n /\ i - 1 \in 0 .. n
    BY <1>2
  <2>2. f[i + 1] = Outcome(q[i + 1].mode, f[(i + 1) - 1])
    BY <1>1, <2>1
  <2>3. g[i] = f[i + 1] /\ g[i - 1] = f[(i - 1) + 1]
    BY <1>4, <2>1
  <2> QED
    BY <1>3, <2>1, <2>2, <2>3
<1>7. g[n] = w
  BY <1>1, <1>2, <1>4
<1>8. Leads(Outcome(q[1].mode, v), r, w)
  BY <1>3, <1>4, <1>5, <1>6, <1>7 DEF Leads
<1> QED
  BY <1>3, <1>8 DEF r

(* If nothing else runs on the element, jQuery.dequeue takes it one step on *)
(* the way to what was asked: the toggle it resolves and the highlight it   *)
(* starts give together what the call asked of the visibility then.        *)
LEMMA DequeueDue ==
  ASSUME TypeOK, NEW e \in Element, NEW q \in Seq(Effect), NEW visible \in BOOLEAN,
         NEW st, NEW w \in BOOLEAN, DequeueThen(e, q, visible, st, {}), Leads(visible, q, w)
  PROVE  Leads(After(e)', queue'[e], w)
<1>1. CASE q = <<>>
  <2>1. queue'[e] = <<>> /\ shown'[e] = visible /\ running'[e] = {}
    BY <1>1 DEF DequeueThen, TypeOK
  <2>2. After(e)' = visible
    BY <2>1 DEF After
  <2> QED
    BY <1>1, <2>1, <2>2
<1>2. CASE q # <<>>
  <2> DEFINE m == Head(q).mode
             h == [Head(q) EXCEPT !.mode = SetMode(m, visible)]
  <2>1. Head(q) \in Effect /\ m \in Mode
    <3>1. Head(q) \in Effect
      BY <1>2
    <3> QED
      BY <3>1 DEF Effect
  <2>2. h.mode = SetMode(m, visible)
    BY <2>1 DEF Effect
  <2>3. /\ queue' = [queue EXCEPT ![e] = Tail(q)]
        /\ running' = [running EXCEPT ![e] = {} \cup {h}]
        /\ shown' = [shown EXCEPT ![e] = TRUE]
    BY <1>2 DEF DequeueThen
  <2> HIDE DEF h
  <2>4. queue'[e] = Tail(q) /\ shown'[e] = TRUE /\ running'[e] = {h}
    BY <2>3 DEF TypeOK
  <2>5. After(e)' = (h.mode # "hide")
    BY <2>4 DEF After
  <2>6. After(e)' = Outcome(m, visible)
    BY <2>1, <2>2, <2>5 DEF Outcome, SetMode, Mode
  <2> QED
    BY <1>2, <2>4, <2>6, LeadsTail
<1> QED
  BY <1>1, <1>2

(* What is due on an element stays so when nothing of it changes.           *)
LEMMA DueElsewhere ==
  ASSUME NEW f, Leads(After(f), queue[f], asked[f]),
         shown'[f] = shown[f], running'[f] = running[f], queue'[f] = queue[f], asked'[f] = asked[f]
  PROVE  Leads(After(f), queue[f], asked[f])'
BY DEF Leads, After

LEMMA DequeueElsewhere ==
  ASSUME TypeOK, NEW e \in Element, NEW q, NEW visible, NEW st, NEW rs,
         DequeueThen(e, q, visible, st, rs), NEW f \in Element, f # e
  PROVE  shown'[f] = shown[f] /\ running'[f] = running[f] /\ queue'[f] = queue[f]
BY DEF DequeueThen, TypeOK

LEMMA CallEffectDue ==
  ASSUME IInv, Due, NEW e \in Element, NEW mode \in Mode, CallEffect(e, mode)
  PROVE  Due'
<1> DEFINE x == [id |-> calls + 1, mode |-> mode]
           o == Outcome(mode, asked[e])
<1>1. TypeOK /\ Slots /\ Alone
  BY DEF IInv
<1>2. mixed' = mixed /\ classed' = classed /\ asked' = [asked EXCEPT ![e] = o]
  BY DEF CallEffect
<1>3. x \in Effect /\ x.mode = mode
  BY <1>1, HighlightAssumption DEF CallEffect, TypeOK, Effect
<1>4. /\ queue[e] \in Seq(Effect) /\ shown[e] \in BOOLEAN /\ asked[e] \in BOOLEAN
      /\ After(e) \in BOOLEAN /\ o \in BOOLEAN
  BY <1>1 DEF TypeOK, After, Outcome
<1>5. asked'[e] = o
  BY <1>1, <1>2 DEF TypeOK
<1> HIDE DEF x, o
<1>6. SUFFICES ASSUME NEW f \in Element, ~mixed[f], ~classed[f]
               PROVE  Leads(After(f), queue[f], asked[f])'
  BY <1>2 DEF Due
<1>7. Leads(After(f), queue[f], asked[f]) /\ Lone(f)
  BY <1>1, <1>6 DEF Due, Alone
<1>8. CASE f # e
  <2>1. asked'[f] = asked[f]
    BY <1>1, <1>2, <1>8 DEF TypeOK
  <2>2. shown'[f] = shown[f] /\ running'[f] = running[f] /\ queue'[f] = queue[f]
    <3>1. CASE busy[e]
      BY <1>1, <1>8, <3>1 DEF CallEffect, TypeOK
    <3>2. CASE ~busy[e]
      BY <1>1, <1>8, <3>2, DequeueElsewhere DEF CallEffect
    <3> QED
      BY <3>1, <3>2
  <2> QED
    BY <1>7, <2>1, <2>2, DueElsewhere
<1>9. CASE f = e
  <2>1. Leads(After(e), Append(queue[e], x), o)
    BY <1>3, <1>4, <1>7, <1>9, LeadsAppend DEF o
  <2>2. CASE busy[e]
    <3>1. queue'[e] = Append(queue[e], x) /\ After(e)' = After(e)
      BY <1>1, <2>2 DEF CallEffect, TypeOK, After, x
    <3> QED
      BY <1>5, <1>9, <2>1, <3>1
  <2>3. CASE ~busy[e]
    <3>1. running[e] = {} /\ After(e) = shown[e]
      BY <1>4, <1>7, <1>9, <2>3 DEF Lone, After
    <3>2. DequeueThen(e, Append(queue[e], x), shown[e], style[e], {})
      BY <2>3, <3>1 DEF CallEffect, x
    <3>3. Leads(shown[e], Append(queue[e], x), o) /\ Append(queue[e], x) \in Seq(Effect)
      BY <1>3, <1>4, <2>1, <3>1
    <3>4. Leads(After(e)', queue'[e], o)
      BY <1>1, <1>4, <3>2, <3>3, DequeueDue
    <3> QED
      BY <1>5, <1>9, <3>4
  <2> QED
    BY <2>2, <2>3
<1> QED
  BY <1>8, <1>9

LEMMA CompleteDue ==
  ASSUME IInv, Due, NEW e \in Element, Complete(e)
  PROVE  Due'
<1>1. TypeOK /\ Slots /\ Alone
  BY DEF IInv
<1>2. mixed' = mixed /\ classed' = classed /\ asked' = asked
  BY DEF Complete
<1>3. PICK h \in running[e] :
        DequeueThen(e, queue[e], shown[e] /\ h.mode # "hide", stored[e], running[e] \ {h})
  BY DEF Complete
<1>4. SUFFICES ASSUME NEW f \in Element, ~mixed[f], ~classed[f]
               PROVE  Leads(After(f), queue[f], asked[f])'
  BY <1>2 DEF Due
<1>5. Leads(After(f), queue[f], asked[f]) /\ Lone(f)
  BY <1>1, <1>4 DEF Due, Alone
<1>6. CASE f # e
  BY <1>1, <1>2, <1>3, <1>5, <1>6, DequeueElsewhere, DueElsewhere
<1>7. CASE f = e
  <2>1. running[e] = {h}
    BY <1>5, <1>7 DEF Lone
  <2>2. (shown[e] /\ h.mode # "hide") = After(e) /\ running[e] \ {h} = {}
    BY <2>1 DEF After
  <2>3. DequeueThen(e, queue[e], After(e), stored[e], {})
    BY <1>3, <2>2
  <2>4. queue[e] \in Seq(Effect) /\ asked[e] \in BOOLEAN /\ After(e) \in BOOLEAN
    BY <1>1 DEF TypeOK, After
  <2>5. PICK v \in BOOLEAN, w \in BOOLEAN : v = After(e) /\ w = asked[e]
    BY <2>4
  <2>6. Leads(After(e)', queue'[e], w)
    BY <1>1, <1>5, <1>7, <2>3, <2>4, <2>5, DequeueDue
  <2> QED
    BY <1>2, <1>7, <2>5, <2>6
<1> QED
  BY <1>6, <1>7

LEMMA PlainDue ==
  ASSUME IInv, Due, NEW e \in Element, NEW mode \in Mode, Plain(e, mode)
  PROVE  Due'
<1>1. TypeOK /\ Slots /\ Alone
  BY DEF IInv
<1>2. SUFFICES ASSUME NEW f \in Element, ~mixed'[f], ~classed'[f]
               PROVE  Leads(After(f), queue[f], asked[f])'
  BY DEF Due
<1>3. ~mixed[f] /\ ~classed[f] /\ (f = e => Idle(e))
  BY <1>1, <1>2 DEF Plain, TypeOK
<1>4. Leads(After(f), queue[f], asked[f])
  BY <1>3 DEF Due
<1>5. CASE f # e
  <2>1. /\ shown'[f] = shown[f] /\ running'[f] = running[f]
        /\ queue'[f] = queue[f] /\ asked'[f] = asked[f]
    BY <1>1, <1>5 DEF Plain, TypeOK
  <2> QED
    BY <1>4, <2>1, DueElsewhere
<1>6. CASE f = e
  <2>1. running[e] = {} /\ queue[e] = <<>>
    BY <1>1, <1>3, <1>6 DEF Idle, Slots
  <2>2. shown[e] \in BOOLEAN /\ asked[e] \in BOOLEAN /\ After(e) = shown[e]
    BY <1>1, <2>1 DEF TypeOK, After
  <2>3. shown[e] = asked[e]
    BY <1>4, <1>6, <2>1, <2>2, LeadsNone
  <2>4. shown'[e] = Outcome(mode, shown[e]) /\ asked'[e] = Outcome(mode, asked[e])
        /\ running'[e] = {} /\ queue'[e] = <<>>
    BY <1>1, <2>1 DEF Plain, TypeOK
  <2>5. Outcome(mode, shown[e]) \in BOOLEAN
    BY DEF Outcome
  <2>6. After(e)' = Outcome(mode, shown[e])
    BY <2>4, <2>5 DEF After
  <2> QED
    BY <1>6, <2>3, <2>4, <2>5, <2>6, LeadsNone
<1> QED
  BY <1>5, <1>6

LEMMA ClassCallDue ==
  ASSUME IInv, Due, NEW e \in Element, ClassCall(e)
  PROVE  Due'
<1>1. TypeOK
  BY DEF IInv
<1>2. SUFFICES ASSUME NEW f \in Element, ~mixed'[f], ~classed'[f]
               PROVE  Leads(After(f), queue[f], asked[f])'
  BY DEF Due
<1>3. f # e /\ ~mixed[f] /\ ~classed[f] /\ asked' = asked
  BY <1>1, <1>2 DEF ClassCall, TypeOK
<1>4. DequeueThen(e, queue[e], shown[e], style[e], running[e])
  BY DEF ClassCall
<1> QED
  BY <1>1, <1>3, <1>4, DequeueElsewhere, DueElsewhere DEF Due

LEMMA InitDue == Init => Due
<1> SUFFICES ASSUME Init, NEW e \in Element PROVE Leads(After(e), queue[e], asked[e])
  BY DEF Due
<1>1. queue[e] = <<>> /\ asked[e] = shown[e] /\ shown[e] \in BOOLEAN /\ After(e) = shown[e]
  BY DEF Init, After
<1> QED
  BY <1>1, LeadsNone

LEMMA StepDue == IInv /\ Due /\ [Next]_vars => Due'
<1> SUFFICES ASSUME IInv, Due, [Next]_vars PROVE Due'
  OBVIOUS
<1>1. CASE UNCHANGED vars
  BY <1>1 DEF Due, Leads, After, vars
<1>2. ASSUME NEW e \in Element, NEW mode \in Mode, CallEffect(e, mode) PROVE Due'
  BY <1>2, CallEffectDue
<1>3. ASSUME NEW e \in Element, NEW mode \in Mode, Plain(e, mode) PROVE Due'
  BY <1>3, PlainDue
<1>4. ASSUME NEW e \in Element, Complete(e) PROVE Due'
  BY <1>4, CompleteDue
<1>5. ASSUME NEW e \in Element, ClassCall(e) PROVE Due'
  BY <1>5, ClassCallDue
<1> QED
  BY <1>1, <1>2, <1>3, <1>4, <1>5 DEF Next

(* Although a toggle is only resolved when its turn comes, an element at    *)
(* rest is shown or hidden as its calls, in their order, asked.            *)
THEOREM VisibleAsAskedHolds == Spec => []VisibleAsAsked
<1>1. ASSUME IInv, Due, NEW e \in Element, Idle(e), ~mixed[e], ~classed[e]
      PROVE  shown[e] = asked[e]
  <2>1. running[e] = {} /\ queue[e] = <<>>
    BY <1>1 DEF IInv, Slots, Idle
  <2>2. shown[e] \in BOOLEAN /\ asked[e] \in BOOLEAN /\ After(e) = shown[e]
    BY <1>1, <2>1 DEF IInv, TypeOK, After
  <2> QED
    BY <1>1, <2>1, <2>2, LeadsNone DEF Due
<1>2. IInv /\ Due => VisibleAsAsked
  BY <1>1 DEF VisibleAsAsked
<1> QED
  BY <1>2, InitDue, StepDue, Inductive, PTL DEF Spec
=============================================================================
