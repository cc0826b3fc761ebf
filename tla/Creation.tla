------------------------------ MODULE Creation ------------------------------
(***************************************************************************)
(* The creation example of akka-scala-example: for each operation a        *)
(* CreationActor deploys a CalculatorActor of its own to the worker node,  *)
(* sends it the operation, prints the result and stops that child.  Create *)
(* commands, operations and results may be lost between the nodes, stop    *)
(* commands and their confirmations only with the worker, which may crash  *)
(* and come back empty.                                                    *)
(***************************************************************************)
EXTENDS Naturals, FiniteSets

CONSTANTS MaxOps,    \* operations scheduled (bound)
          MaxCrashes \* of the worker (bound)

CreationAssumption == MaxOps \in Nat /\ MaxCrashes \in Nat

VARIABLES
  scheduled, \* operations sent to the CreationActor so far
  mailbox,   \* its mailbox
  children,  \* its children, named by their operation
  alive,     \* CalculatorActors on the worker
  wire,      \* messages between the nodes
  printed,   \* operations whose result was printed
  crashes,
  gone,      \* history: children of a worker that crashed
  lost       \* history: operations with a message lost

vars == <<scheduled, mailbox, children, alive, wire, printed, crashes, gone, lost>>

Op == 1 .. MaxOps
M(kind, k) == [kind |-> kind, op |-> k]
Lossy == {"create", "op", "result"}

Init ==
  /\ scheduled = 0 /\ crashes = 0
  /\ mailbox = {} /\ wire = {}
  /\ children = {} /\ alive = {} /\ printed = {} /\ gone = {} /\ lost = {}

(* Every second, a Multiply or a Divide. *)
Schedule ==
  /\ scheduled < MaxOps
  /\ scheduled' = scheduled + 1
  /\ mailbox' = mailbox \cup {M("op", scheduled + 1)}
  /\ UNCHANGED <<children, alive, wire, printed, crashes, gone, lost>>

Take(m) == m \in mailbox /\ mailbox' = mailbox \ {m}

ReceiveOp(k) ==
  /\ Take(M("op", k))
  /\ children' = children \cup {k}
  /\ wire' = wire \cup {M("create", k), M("op", k)}
  /\ UNCHANGED <<scheduled, alive, printed, crashes, gone, lost>>

(* mutant: all children are stopped *)
ReceiveResultStopsAll(k) ==
  /\ Take(M("result", k))
  /\ printed' = printed \cup {k}
  /\ wire' = wire \cup {M("stop", c) : c \in children}
  /\ UNCHANGED <<scheduled, children, alive, crashes, gone, lost>>

(* printf and context.stop(sender()): the same for both kinds of result. *)
ReceiveResult(k) ==
  /\ Take(M("result", k))
  /\ printed' = printed \cup {k}
  /\ wire' = wire \cup {M("stop", k)}
  /\ UNCHANGED <<scheduled, children, alive, crashes, gone, lost>>

(* Akka takes a stopped child off the list. *)
ReceiveTerminated(k) ==
  /\ Take(M("terminated", k))
  /\ children' = children \ {k}
  /\ UNCHANGED <<scheduled, alive, wire, printed, crashes, gone, lost>>

(* The worker: a create command is handled before what comes after it. *)
Deliver(m, answers) == m \in wire /\ wire' = (wire \ {m}) \cup answers

WorkerCreates(k) ==
  /\ Deliver(M("create", k), {})
  /\ alive' = alive \cup {k}
  /\ UNCHANGED <<scheduled, mailbox, children, printed, crashes, gone, lost>>

Calculates(k) ==
  /\ M("create", k) \notin wire
  /\ Deliver(M("op", k), IF k \in alive THEN {M("result", k)} ELSE {})
  /\ UNCHANGED <<scheduled, mailbox, children, alive, printed, crashes, gone, lost>>

WorkerStops(k) ==
  /\ Deliver(M("stop", k), IF k \in alive THEN {M("terminated", k)} ELSE {})
  /\ alive' = alive \ {k}
  /\ UNCHANGED <<scheduled, mailbox, children, printed, crashes, gone, lost>>

Arrives(k, kind) ==
  /\ Deliver(M(kind, k), {})
  /\ mailbox' = mailbox \cup {M(kind, k)}
  /\ UNCHANGED <<scheduled, children, alive, printed, crashes, gone, lost>>

Lose(m) ==
  /\ m.kind \in Lossy
  /\ Deliver(m, {})
  /\ lost' = lost \cup {m.op}
  /\ UNCHANGED <<scheduled, mailbox, children, alive, printed, crashes, gone>>

Crash ==
  /\ crashes < MaxCrashes /\ crashes' = crashes + 1
  /\ alive' = {} /\ wire' = {}
  /\ gone' = gone \cup children
  /\ UNCHANGED <<scheduled, mailbox, children, printed, lost>>

(* The failure detector, if it notices, makes Akka drop the dead children. *)
AddressTerminated ==
  /\ children \cap gone # {}
  /\ children' = children \ gone
  /\ UNCHANGED <<scheduled, mailbox, alive, wire, printed, crashes, gone, lost>>

Works(k) ==
  \/ ReceiveOp(k)
  \/ ReceiveResult(k)
  \/ ReceiveTerminated(k)
  \/ WorkerCreates(k)
  \/ Calculates(k)
  \/ WorkerStops(k)
  \/ \E kind \in {"result", "terminated"} : Arrives(k, kind)

Next ==
  \/ Schedule
  \/ \E k \in Op : Works(k)
  \/ \E m \in wire : Lose(m)
  \/ Crash
  \/ AddressTerminated

Spec == Init /\ [][Next]_vars

(* Both nodes work and messages travel; no fault has to happen. *)
Fairness == \A k \in Op : WF_vars(Works(k))

FairSpec == Spec /\ Fairness
-----------------------------------------------------------------------------
(* Every calculator on the worker is a child of the CreationActor, which    *)
(* would stop it with itself.                                               *)
NoOrphans == alive \subseteq children

(* A child goes only after its result was printed, or with its worker:      *)
(* results that come out of order stop their own calculators.               *)
GoesWithItsResult ==
  [][\A k \in alive \ alive' : k \in printed \/ crashes' > crashes]_vars

(* An operation of which no message was lost and whose worker did not crash *)
(* is answered, and its calculator is gone in the end: children pile up     *)
(* only through losses.                                                     *)
NoLeak ==
  \A k \in Op : k \in children ~> k \in printed \ children \/ k \in lost \cup gone
=============================================================================
