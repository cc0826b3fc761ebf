-------------------------- MODULE MCClassAnimation --------------------------
(* Two classes over two properties: class 1 sets p, class 2 sets p and q.   *)
(* One element and three calls, or two elements and two calls.              *)
EXTENDS ClassAnimation, TLC

CONSTANTS e1, e2

MCPages == {{e1}, {e1, e2}}
MCSets == (1 :> {"p"}) @@ (2 :> {"p", "q"})
MCMaxCalls == <<3, 2>>
=============================================================================
