--------------------------- MODULE HighlightEffect ---------------------------
(***************************************************************************)
(* effects.highlight.js over effects.core.js: $.fn.effect and the forms of *)
(* show, hide and toggle that name an effect put a highlight into the fx   *)
(* queue of the element; when its turn comes it saves the style attribute  *)
(* in the element's data, shows the element, colours it, and animates      *)
(* outside the queue; its completion hides the element if that was asked   *)
(* for, restores the style and dequeues the next one.                      *)
(*                                                                         *)
(* An animateClass call that changes no style (module ClassAnimation)      *)
(* completes at once and dequeues, whoever holds the queue.                *)
(***************************************************************************)
EXTENDS Naturals, Sequences, FiniteSets

CONSTANTS Element,    \* elements of the page
          MaxCalls    \* calls made in a behaviour (bound)

ASSUME HighlightAssumption == MaxCalls \in Nat

VARIABLES
  shown,     \* the element is not hidden
  style,     \* its style attribute: the page's own values, or a highlight's
  stored,    \* the data "ec.storage.*" of $.effects.save
  busy,      \* its fx queue begins with jQuery's "inprogress" mark
  queue,     \* the highlights that wait in the queue
  running,   \* the highlights that animate
  calls,     \* calls made so far
  asked,     \* history: the visibility if every call took effect at once
  mixed,     \* history: a plain show, hide or toggle came between highlights
  classed    \* history: animateClass was called on the element

vars == <<shown, style, stored, busy, queue, running, calls, asked, mixed, classed>>

Mode == {"show", "hide", "toggle"}
Effect == [id : 1 .. MaxCalls, mode : Mode]
Style == {"own", "lit"}
Idle(e) == running[e] = {} /\ ~busy[e]

TypeOK ==
  /\ shown \in [Element -> BOOLEAN]
  /\ style \in [Element -> Style]
  /\ stored \in [Element -> Style \cup {"undefined"}]
  /\ busy \in [Element -> BOOLEAN]
  /\ queue \in [Element -> Seq(Effect)]
  /\ running \in [Element -> SUBSET Effect]
  /\ calls \in 0 .. MaxCalls
  /\ asked \in [Element -> BOOLEAN]
  /\ mixed \in [Element -> BOOLEAN]
  /\ classed \in [Element -> BOOLEAN]

Init ==
  /\ shown \in [Element -> BOOLEAN]
  /\ style = [e \in Element |-> "own"]
  /\ stored = [e \in Element |-> "undefined"]
  /\ busy = [e \in Element |-> FALSE]
  /\ queue = [e \in Element |-> <<>>]
  /\ running = [e \in Element |-> {}]
  /\ calls = 0
  /\ asked = shown
  /\ mixed = [e \in Element |-> FALSE]
  /\ classed = [e \in Element |-> FALSE]

(* $.effects.setMode. *)
SetMode(mode, visible) ==
  IF mode # "toggle" THEN mode ELSE IF visible THEN "hide" ELSE "show"

Outcome(mode, visible) == SetMode(mode, visible) = "show"

(* mutant: the style is saved after the element has been coloured *)
DequeueSavesLate(e, q, visible, st, rs) ==
  /\ busy' = [busy EXCEPT ![e] = q # <<>>]
  /\ queue' = [queue EXCEPT ![e] = IF q = <<>> THEN q ELSE Tail(q)]
  /\ running' = [running EXCEPT ![e] =
                   rs \cup (IF q = <<>> THEN {} ELSE {[Head(q) EXCEPT !.mode = SetMode(@, visible)]})]
  /\ stored' = [stored EXCEPT ![e] = IF q = <<>> THEN @ ELSE "lit"]
  /\ shown' = [shown EXCEPT ![e] = visible \/ q # <<>>]
  /\ style' = [style EXCEPT ![e] = IF q = <<>> THEN st ELSE "lit"]

(***************************************************************************)
(* jQuery.dequeue with the highlights q waiting, the element visible or    *)
(* not, its style st and its animations rs: the head of q runs its queued  *)
(* function, which saves, shows and colours.                               *)
(***************************************************************************)
DequeueThen(e, q, visible, st, rs) ==
  \/ /\ q = <<>>
     /\ busy' = [busy EXCEPT ![e] = FALSE]
     /\ queue' = [queue EXCEPT ![e] = <<>>]
     /\ shown' = [shown EXCEPT ![e] = visible]
     /\ style' = [style EXCEPT ![e] = st]
     /\ running' = [running EXCEPT ![e] = rs]
     /\ UNCHANGED stored
  \/ /\ q # <<>>
     /\ busy' = [busy EXCEPT ![e] = TRUE]
     /\ queue' = [queue EXCEPT ![e] = Tail(q)]
     /\ running' = [running EXCEPT ![e] =
                      rs \cup {[Head(q) EXCEPT !.mode = SetMode(@, visible)]}]
     /\ stored' = [stored EXCEPT ![e] = st]
     /\ shown' = [shown EXCEPT ![e] = TRUE]
     /\ style' = [style EXCEPT ![e] = "lit"]

(* mutant: a toggle is resolved at the call *)
CallEffectResolved(e, mode) ==
  /\ calls < MaxCalls
  /\ calls' = calls + 1
  /\ asked' = [asked EXCEPT ![e] = Outcome(mode, @)]
  /\ LET q == Append(queue[e], [id |-> calls + 1, mode |-> SetMode(mode, shown[e])])
     IN  \/ ~busy[e] /\ DequeueThen(e, q, shown[e], style[e], running[e])
         \/ /\ busy[e]
            /\ queue' = [queue EXCEPT ![e] = q]
            /\ UNCHANGED <<shown, style, stored, busy, running>>
  /\ UNCHANGED <<mixed, classed>>

(* $(e).effect("highlight", {mode: mode}), $(e).show("highlight") and so on. *)
CallEffect(e, mode) ==
  /\ calls < MaxCalls
  /\ calls' = calls + 1
  /\ asked' = [asked EXCEPT ![e] = Outcome(mode, @)]
  /\ LET q == Append(queue[e], [id |-> calls + 1, mode |-> mode])
     IN  \/ /\ ~busy[e]
            /\ DequeueThen(e, q, shown[e], style[e], running[e])
         \/ /\ busy[e]
            /\ queue' = [queue EXCEPT ![e] = q]
            /\ UNCHANGED <<shown, style, stored, busy, running>>
  /\ UNCHANGED <<mixed, classed>>

(* mutant: the completion does not dequeue *)
CompleteOnly(e) ==
  /\ \E h \in running[e] :
       /\ shown' = [shown EXCEPT ![e] = @ /\ h.mode # "hide"]
       /\ running' = [running EXCEPT ![e] = @ \ {h}]
       /\ style' = [style EXCEPT ![e] = stored[e]]
  /\ UNCHANGED <<stored, busy, queue, calls, asked, mixed, classed>>

(* The animation's complete function. *)
Complete(e) ==
  /\ \E h \in running[e] :
       DequeueThen(e, queue[e], shown[e] /\ h.mode # "hide", stored[e], running[e] \ {h})
  /\ UNCHANGED <<calls, asked, mixed, classed>>

(* show(), hide() and toggle() without an effect: jQuery's own methods. *)
Plain(e, mode) ==
  /\ calls < MaxCalls
  /\ calls' = calls + 1
  /\ shown' = [shown EXCEPT ![e] = Outcome(mode, @)]
  /\ asked' = [asked EXCEPT ![e] = Outcome(mode, @)]
  /\ mixed' = [mixed EXCEPT ![e] = @ \/ ~Idle(e)]
  /\ UNCHANGED <<style, stored, busy, queue, running, classed>>

(* animateClass with no style to change: animate calls complete, which dequeues. *)
ClassCall(e) ==
  /\ calls < MaxCalls
  /\ calls' = calls + 1
  /\ classed' = [classed EXCEPT ![e] = TRUE]
  /\ DequeueThen(e, queue[e], shown[e], style[e], running[e])
  /\ UNCHANGED <<asked, mixed>>

Next == \E e \in Element :
  \/ \E mode \in Mode : CallEffect(e, mode) \/ Plain(e, mode)
  \/ Complete(e)
  \/ ClassCall(e)

Spec == Init /\ [][Next]_vars

(* jQuery's interval timer ticks on until every animation is complete. *)
FairSpec == Spec /\ \A e \in Element : WF_vars(Complete(e))
-----------------------------------------------------------------------------
(* The one slot for saved styles suffices: with only highlights on an       *)
(* element, one runs at a time, and when none does the style is the page's. *)
StyleRestored ==
  \A e \in Element : ~classed[e] =>
    /\ style[e] = "own" <=> running[e] = {}
    /\ running[e] # {} => stored[e] = "own"
    /\ Cardinality(running[e]) <= 1

(* The mode of a toggle is decided when its turn comes, not at the call:    *)
(* still the element ends up as the calls, in their order, ask.             *)
VisibleAsAsked ==
  \A e \in Element : Idle(e) /\ ~mixed[e] /\ ~classed[e] => shown[e] = asked[e]

(* A highlight that waits has one that runs and will dequeue it, also when  *)
(* an animateClass call has dequeued out of turn.                           *)
NobodyStuck == \A e \in Element : queue[e] # <<>> => running[e] # {}

(* Every element comes to rest, with no highlight left over. *)
ComeToRest == []<>(calls = MaxCalls => \A e \in Element : Idle(e))
=============================================================================
