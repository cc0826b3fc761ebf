------------------------------- MODULE Easing -------------------------------
(***************************************************************************)
(* The easing functions of effects.core.js that take only sums, products   *)
(* and powers of two, as jQuery calls them: from 0 to 1, at time t of d.   *)
(* A position is a fraction <<n, m>>; n is not bounded by m, Back goes     *)
(* beyond.  The curves of sines, roots and Elastic are left out.           *)
(***************************************************************************)
EXTENDS Integers

Poly == {"Quad", "Cubic", "Quart", "Quint"}
Degree(f) == CASE f = "Quad" -> 2 [] f = "Cubic" -> 3 [] f = "Quart" -> 4 [] f = "Quint" -> 5

Sign(k) == IF k % 2 = 0 THEN -1 ELSE 1

InPoly(k, t, d) == <<t ^ k, d ^ k>>

OutPoly(k, t, d) == <<Sign(k) * (t - d) ^ k + d ^ k, d ^ k>>

InOutPoly(k, t, d) ==
  IF 2 * t < d THEN <<(2 * t) ^ k, 2 * d ^ k>>
  ELSE <<Sign(k) * (2 * t - 2 * d) ^ k + 2 * d ^ k, 2 * d ^ k>>

(* Powers of two, where 10 * t / d is a whole number. *)
InExpo(t, d) == IF t = 0 THEN <<0, 1>> ELSE <<2 ^ ((10 * t) \div d), 1024>>
OutExpo(t, d) ==
  IF t = d THEN <<1, 1>> ELSE <<1024 - 2 ^ (10 - (10 * t) \div d), 1024>>
InOutExpo(t, d) ==
  CASE t = 0 -> <<0, 1>>
    [] t = d -> <<1, 1>>
    [] 0 < t /\ 2 * t < d -> <<2 ^ ((20 * t) \div d), 2048>>
    [] t < d /\ 2 * t >= d -> <<2048 - 2 ^ (20 - (20 * t) \div d), 2048>>

(* s = 1.70158 to two digits, and s * 1.525 too. *)
InBack(t, d) == <<t ^ 2 * (270 * t - 170 * d), 100 * d ^ 3>>
OutBack(t, d) ==
  <<(t - d) ^ 2 * (270 * (t - d) + 170 * d) + 100 * d ^ 3, 100 * d ^ 3>>
InOutBack(t, d) ==
  IF 2 * t < d THEN <<(2 * t) ^ 2 * (359 * 2 * t - 259 * d), 200 * d ^ 3>>
  ELSE <<(2 * t - 2 * d) ^ 2 * (359 * (2 * t - 2 * d) + 259 * d) + 200 * d ^ 3, 200 * d ^ 3>>

(* 7.5625 is 121/16 and 2.75 is 11/4. *)
OutBounce(t, d) ==
  CASE 11 * t < 4 * d -> <<484 * t ^ 2, 64 * d ^ 2>>
    [] 11 * t >= 4 * d /\ 11 * t < 8 * d -> <<4 * (11 * t - 6 * d) ^ 2 + 48 * d ^ 2, 64 * d ^ 2>>
    [] 11 * t >= 8 * d /\ 11 * t < 10 * d -> <<4 * (11 * t - 9 * d) ^ 2 + 60 * d ^ 2, 64 * d ^ 2>>
    [] 11 * t >= 10 * d -> <<(22 * t - 21 * d) ^ 2 + 63 * d ^ 2, 64 * d ^ 2>>

InBounce(t, d) == LET p == OutBounce(d - t, d) IN <<p[2] - p[1], p[2]>>
InOutBounce(t, d) ==
  IF 2 * t < d THEN LET p == InBounce(2 * t, d) IN <<p[1], 2 * p[2]>>
  ELSE LET p == OutBounce(2 * t - d, d) IN <<p[1] + p[2], 2 * p[2]>>

(* mutant: easing.def is easeOutBounce *)
SwingBounces(t, d) == OutBounce(t, d)

(* swing, jQuery's default, is overridden by easing.def, easeOutQuad. *)
Swing(t, d) == OutPoly(2, t, d)

Way == {"In", "Out", "InOut"}
EasingNames == {<<"swing", "">>} \cup (Way \X (Poly \cup {"Expo", "Back", "Bounce"}))

Curve(way, f, t, d) ==
  CASE f \in Poly -> (CASE way = "In" -> InPoly(Degree(f), t, d)
                        [] way = "Out" -> OutPoly(Degree(f), t, d)
                        [] way = "InOut" -> InOutPoly(Degree(f), t, d))
    [] f = "Expo" -> (CASE way = "In" -> InExpo(t, d)
                        [] way = "Out" -> OutExpo(t, d)
                        [] way = "InOut" -> InOutExpo(t, d))
    [] f = "Back" -> (CASE way = "In" -> InBack(t, d)
                        [] way = "Out" -> OutBack(t, d)
                        [] way = "InOut" -> InOutBack(t, d))
    [] f = "Bounce" -> (CASE way = "In" -> InBounce(t, d)
                          [] way = "Out" -> OutBounce(t, d)
                          [] way = "InOut" -> InOutBounce(t, d))

Ease(e, t, d) == IF e[1] = "swing" THEN Swing(t, d) ELSE Curve(e[1], e[2], t, d)
=============================================================================
