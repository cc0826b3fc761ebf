------------------------------- MODULE ColorFx -------------------------------
(***************************************************************************)
(* One animation of a colour of one element, by jQuery.fx.step[attr] of    *)
(* effects.core.js: the colours are read and parsed in the steps whose     *)
(* state is 0, of which there may be several or none, and each step writes *)
(* the style back as text.  One channel stands for the three, which the    *)
(* code treats alike.                                                      *)
(***************************************************************************)
EXTENDS Easing, Sequences, FiniteSets

CONSTANTS Animations  \* animations of the model: a page and an fx each

ColorAssumption == \A a \in Animations :
  a.page # <<>> /\ a.fx.easing \in EasingNames /\ a.fx.duration \in Nat

VARIABLES
  page,   \* the element's own value of attr, then the backgrounds of its parents
  fx,     \* the animation: easing, duration, and the end as the caller wrote it
  run,    \* "new", "running", "done", or "broken": a step threw
  time,   \* milliseconds since the start
  start, end, \* fx.start and fx.end
  style   \* the channel in the element's inline style, None without one

vars == <<page, fx, run, time, start, end, style>>

(* Colours as the browser or a caller writes them.  "clear" is the           *)
(* rgba(0, 0, 0, 0) of a browser without the word transparent, "rgba" any    *)
(* other, "percent" and "hex3" are the values with another scale.            *)
None == [form |-> "empty", v |-> 0]
Css(form, v) == [form |-> form, v |-> v]
Named(name) == Css(name, 0)
(* The green channel of some of the 43 names. *)
colors == [n \in {"gold", "green", "navy", "transparent"} |->
             CASE n = "gold" -> 215 [] n = "green" -> 128 [] n = "navy" -> 0 [] OTHER -> 255]

(* The channel of a colour; no element stands for undefined. *)
getRGB(c) ==
  CASE c.form \in {"array", "rgb", "hex6"} -> {c.v}
    [] c.form = "percent" -> {(255 * c.v) \div 100}
    [] c.form = "hex3" -> {17 * c.v}
    [] c.form = "clear" -> {colors["transparent"]}
    [] c.form \in DOMAIN colors -> {colors[c.form]}
    [] c.form \in {"rgba", "empty", "nonesuch"} -> {}

(* The first in the chain that is neither '' nor 'transparent', or its last. *)
getColor(chain) ==
  LET stops == {i \in DOMAIN chain : i = Len(chain) \/ chain[i] \notin {None, Named("transparent")}}
  IN getRGB(chain[CHOOSE i \in stops : \A j \in stops : i <= j])

(* parseInt of the text of n / m.  A number below 10^-6 is written with an *)
(* exponent, 3.2e-9, and parseInt reads its first digit.                   *)
LeadingDigit(n, m) ==
  LET k == CHOOSE k \in 1 .. 10 : (n * 10 ^ k) \div (m \div 10) \in 1 .. 9
  IN (n * 10 ^ k) \div (m \div 10)
ParseInt(n, m) ==
  IF 0 < n /\ n <= (m - 1) \div 1000000 THEN LeadingDigit(n, m) ELSE n \div m

Clamp(x) == IF x > 255 THEN 255 ELSE IF x < 0 THEN 0 ELSE x
Channel(p, s, e) == Clamp(ParseInt(p[1] * (e - s) + s * p[2], p[2]))

Init ==
  /\ \E a \in Animations : page = a.page /\ fx = a.fx
  /\ run = "new" /\ time = 0
  /\ start = {} /\ end = {} /\ style = None

Chain == [page EXCEPT ![1] = IF style = None THEN @ ELSE style]

(* jQuery's step at time t: its position, and state 0 at the first instant. *)
Position(t) == IF t >= fx.duration THEN <<1, 1>> ELSE Ease(fx.easing, t, fx.duration)
AtZero(t) == t = 0 /\ fx.duration > 0

(* fx.step[attr]: fx.end is an array after the first parse. *)
Step(t) ==
  /\ start' = IF AtZero(t) THEN getColor(Chain) ELSE start
  /\ end' = IF AtZero(t) THEN getRGB(IF end = {} THEN fx.end ELSE Css("array", CHOOSE c \in end : TRUE))
            ELSE end
  /\ time' = t
  /\ IF start' = {} \/ end' = {}
     THEN run' = (IF fx.duration = 0 THEN "done" ELSE "broken") /\ UNCHANGED style
     ELSE /\ style' = Css("rgb", Channel(Position(t), CHOOSE c \in start' : TRUE, CHOOSE c \in end' : TRUE))
          /\ run' = IF t >= fx.duration THEN "done" ELSE "running"
  /\ UNCHANGED <<page, fx>>

Begin == run = "new" /\ Step(0)
Tick == run = "running" /\ \E t \in time .. fx.duration : Step(t)

Next == Begin \/ Tick
Spec == Init /\ [][Next]_vars
-----------------------------------------------------------------------------
TypeOK ==
  /\ run \in {"new", "running", "done", "broken"}
  /\ time \in 0 .. fx.duration
  /\ Cardinality(start) <= 1 /\ Cardinality(end) <= 1
  /\ style = None \/ (style.form = "rgb" /\ style.v \in 0 .. 255)

(* What is meant by a colour, for those that have a meaning. *)
Understood(c) == c.form \notin {"rgba", "empty", "nonesuch"}
Meant(c) ==
  CASE c.form \in {"rgb", "hex6"} -> c.v
    [] c.form = "percent" -> (51 * c.v) \div 20
    [] c.form = "hex3" -> 16 * c.v + c.v
    [] c.form \in DOMAIN colors -> colors[c.form]
    [] c.form = "clear" -> 255

(* An animation to a colour in any of the notations, of any duration but 0,  *)
(* with any easing, ends with that colour in the style; with duration 0 no  *)
(* step has state 0, and the style is left alone.                           *)
ReachesItsEnd ==
  run = "done" => IF fx.duration = 0 THEN style = None ELSE style = Css("rgb", Meant(fx.end))

(* A step throws exactly if there is a colour it does not understand, its    *)
(* end or the first that the search for its start finds, however often the *)
(* colours are parsed in the first millisecond; it finds the same again.   *)
Found == page[CHOOSE i \in DOMAIN page :
                /\ i = Len(page) \/ page[i] \notin {None, Named("transparent")}
                /\ \A j \in 1 .. i - 1 : page[j] \in {None, Named("transparent")}]
BrokenForAReason ==
  fx.duration > 0 /\ run # "new" =>
    (run = "broken" <=> ~Understood(fx.end) \/ ~Understood(Found))

(* Back may leave the colours between start and end, and Bounce returns:    *)
(* the others go straight from the first to the second, but for the digit   *)
(* of a number too small to be written without an exponent.                 *)
Straight == fx.easing[2] \notin {"Back", "Bounce"}
Between(x, a, b) == (a <= x /\ x <= b) \/ (b <= x /\ x <= a)
NeverBack ==
  [][style # None /\ Straight => Between(style'.v, style.v, Meant(fx.end)) \/ style'.v < 10]_vars

(* The text of a very small number costs one digit at most: a channel of an *)
(* easing that does not overshoot is between its colours, or below 10.      *)
Near ==
  \A s \in start, e \in end :
    style # None /\ fx.easing[2] # "Back" => Between(style.v, s, e) \/ style.v < 10

(* In and Out are each other's mirror image, and InOut is its own.          *)
Opposite(way) == CASE way = "In" -> "Out" [] way = "Out" -> "In" [] OTHER -> way
Mirrored ==
  fx.duration > 0 /\ fx.easing[1] # "swing" =>
    LET p == Ease(fx.easing, time, fx.duration)
        q == Ease(<<Opposite(fx.easing[1]), fx.easing[2]>>, fx.duration - time, fx.duration)
    IN p[2] = q[2] /\ p[1] + q[1] = p[2]
=============================================================================
