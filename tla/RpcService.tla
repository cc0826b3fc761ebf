----------------------------- MODULE RpcService -----------------------------
(***************************************************************************)
(* What the akka-rpc proxy promises to the code that calls a remote bean:  *)
(* every call ends, with the bean's answer or with an exception; the bean  *)
(* method runs at most once for a call; and an answer is only given for a  *)
(* call whose method did run.  A call that ends with an exception may have *)
(* run, may not have run, and may still run later.                         *)
(***************************************************************************)
CONSTANT Call         \* the calls that may ever be made

VARIABLES status,     \* where each call stands, seen from its caller
          runs        \* the calls whose bean method has run

vars == <<status, runs>>

Status == {"new", "pending", "ok", "failed"}

Init == /\ status = [k \in Call |-> "new"]
        /\ runs = {}

Submit(k) == /\ status[k] = "new"
             /\ status' = [status EXCEPT ![k] = "pending"]
             /\ UNCHANGED runs

\* The method runs after the call was made, whether or not its caller waits.
Run(k) == /\ status[k] # "new"
          /\ k \notin runs
          /\ runs' = runs \cup {k}
          /\ UNCHANGED status

Answer(k) == /\ status[k] = "pending"
             /\ k \in runs
             /\ status' = [status EXCEPT ![k] = "ok"]
             /\ UNCHANGED runs

Fail(k) == /\ status[k] = "pending"
           /\ status' = [status EXCEPT ![k] = "failed"]
           /\ UNCHANGED runs

Next == \E k \in Call : Submit(k) \/ Run(k) \/ Answer(k) \/ Fail(k)

SafeSpec == Init /\ [][Next]_vars

\* A pending call is ended by an answer or by a failure; nothing else is promised.
Spec == SafeSpec /\ \A k \in Call : WF_vars(Answer(k) \/ Fail(k))
=============================================================================
