----------------------------- MODULE LookupActor ----------------------------
(***************************************************************************)
(* The remote calculator of akka-scala-example: LookupActor finds the      *)
(* CalculatorActor of another node with Identify, watches it, sends it the *)
(* operations LookupApplication schedules, and starts looking again when   *)
(* the death watch says it is gone.                                        *)
(*                                                                         *)
(* The calculator's node may crash and come back; each life of its actor   *)
(* is an incarnation 1, 2, ... and an ActorRef names one incarnation.  The *)
(* failure detector may also declare a living incarnation dead, which      *)
(* quarantines it: remoting drops every message to and from it for good.   *)
(* Messages between the nodes may be lost.                                 *)
(***************************************************************************)
EXTENDS Naturals, Sequences, FiniteSets

CONSTANTS MaxIncarnations,  \* lives of the calculator (bound of the model)
          MaxInFlight,      \* equal messages on the wire at a time (bound; more are lost)
          MaxOps            \* operations LookupApplication schedules (bound)

ASSUME LookupAssumption == /\ MaxIncarnations \in Nat \ {0}
                           /\ MaxInFlight \in Nat \ {0}
                           /\ MaxOps \in Nat

Incarnation == 1 .. MaxIncarnations
NoRef == 0
Ref == Incarnation \cup {NoRef}

VARIABLES
  target,       \* the incarnation the actor is active with, or NoRef while identifying
  watched,      \* the incarnations it watches
  mailbox,      \* its mailbox
  timers,       \* scheduled ReceiveTimeouts that have not fired
  node,         \* the calculator's node: "down", "starting" (no actor yet), "up"
  incarnation,  \* the latest incarnation of the calculator
  quarantined,  \* incarnations remoting no longer talks to
  identifies,   \* Identify messages on the wire
  identities,   \* ActorIdentity messages on the wire, per ref they carry
  operations,   \* MathOps on the wire to the living calculator
  results,      \* MathResults on the wire
  scheduled     \* operations scheduled so far

vars == <<target, watched, mailbox, timers, node, incarnation, quarantined,
          identifies, identities, operations, results, scheduled>>
calculator == <<node, incarnation, quarantined>>
wire == <<identifies, identities, operations, results>>

Identity(r)   == [kind |-> "identity", ref |-> r]
Terminated(r) == [kind |-> "terminated", ref |-> r]
ReceiveTimeout == [kind |-> "timeout", ref |-> NoRef]
Op     == [kind |-> "op", ref |-> NoRef]
Result == [kind |-> "result", ref |-> NoRef]

Message == {ReceiveTimeout, Op, Result} \cup {Identity(r) : r \in Ref}
           \cup {Terminated(r) : r \in Incarnation}

InFlight == 0 .. MaxInFlight
More(n) == IF n < MaxInFlight THEN n + 1 ELSE n

TypeOK ==
  /\ target \in Ref
  /\ watched \in SUBSET Incarnation
  /\ mailbox \in Seq(Message)
  /\ timers \in Nat
  /\ node \in {"down", "starting", "up"}
  /\ incarnation \in Ref
  /\ quarantined \in SUBSET Incarnation
  /\ identifies \in InFlight
  /\ identities \in [Ref -> InFlight]
  /\ operations \in InFlight
  /\ results \in InFlight
  /\ scheduled \in 0 .. MaxOps

\* The calculator that runs now, if one does.
Alive(i) == node = "up" /\ incarnation = i
Reachable(i) == Alive(i) /\ i \notin quarantined

\* The constructor has called sendIdentifyRequest.
Init ==
  /\ target = NoRef
  /\ watched = {}
  /\ mailbox = <<>>
  /\ timers = 1
  /\ node = "down"
  /\ incarnation = NoRef
  /\ quarantined = {}
  /\ identifies = 1
  /\ identities = [r \in Ref |-> 0]
  /\ operations = 0
  /\ results = 0
  /\ scheduled = 0

-----------------------------------------------------------------------------
(* LookupActor.receive.                                                      *)

SendIdentifyRequest ==
  /\ identifies' = More(identifies)
  /\ timers' = timers + 1
  /\ UNCHANGED <<identities, operations, results>>

\* Take a message of one of these kinds off the mailbox.
Receive(kinds) ==
  /\ mailbox # <<>>
  /\ Head(mailbox).kind \in kinds
  /\ mailbox' = Tail(mailbox)
  /\ UNCHANGED calculator

Identifying == target = NoRef
Active == target # NoRef

\* Mistake: the actor is not watched.
FoundUnwatched ==
  /\ Identifying
  /\ Receive({"identity"})
  /\ Head(mailbox).ref # NoRef
  /\ target' = Head(mailbox).ref
  /\ UNCHANGED <<watched, timers, wire>>

\* identifying: ActorIdentity(path, Some(actor))
Found ==
  /\ Identifying
  /\ Receive({"identity"})
  /\ Head(mailbox).ref # NoRef
  /\ target' = Head(mailbox).ref
  /\ watched' = watched \cup {Head(mailbox).ref}
  /\ UNCHANGED <<timers, wire>>

\* identifying: ActorIdentity(path, None), logged only
NotAvailable ==
  /\ Identifying
  /\ Receive({"identity"})
  /\ Head(mailbox).ref = NoRef
  /\ UNCHANGED <<target, watched, timers, wire>>

\* Mistake: Identify is sent again, but no further timeout is scheduled.
LookAgainOnce ==
  /\ Identifying
  /\ Receive({"timeout"})
  /\ identifies' = More(identifies)
  /\ UNCHANGED <<target, watched, timers, identities, operations, results>>

\* identifying: ReceiveTimeout
LookAgain ==
  /\ Identifying
  /\ Receive({"timeout"})
  /\ SendIdentifyRequest
  /\ UNCHANGED <<target, watched>>

\* identifying: everything else is "Not ready yet" and is dropped
NotReady ==
  /\ Identifying
  /\ Receive({"op", "result", "terminated"})
  /\ UNCHANGED <<target, watched, timers, wire>>

\* active: a MathOp goes to the calculator, or nowhere if that is gone
Forward ==
  /\ Active
  /\ Receive({"op"})
  /\ operations' = IF Reachable(target) THEN More(operations) ELSE operations
  /\ UNCHANGED <<target, watched, timers, identifies, identities, results>>

\* Mistake: no context.become(identifying).
LostWithoutBecome ==
  /\ Active
  /\ Receive({"terminated"})
  /\ Head(mailbox).ref = target
  /\ SendIdentifyRequest
  /\ UNCHANGED <<target, watched>>

\* active: Terminated(actor)
Lost ==
  /\ Active
  /\ Receive({"terminated"})
  /\ Head(mailbox).ref = target
  /\ SendIdentifyRequest
  /\ target' = NoRef
  /\ UNCHANGED watched

\* Mistake: a ReceiveTimeout is not ignored.
IgnoreButLookAgain ==
  /\ Active
  /\ Receive({"result", "timeout", "identity"})
  /\ IF Head(mailbox).kind = "timeout" THEN SendIdentifyRequest ELSE UNCHANGED <<timers, wire>>
  /\ UNCHANGED <<target, watched>>

\* active: a result is logged, a ReceiveTimeout is ignored, and a late ActorIdentity
\* is unhandled.  (A Terminated of another actor would be unhandled too and restart
\* the actor with a DeathPactException: OnlyTargetDies says that it never comes.)
Ignore ==
  /\ Active
  /\ Receive({"result", "timeout", "identity"})
  /\ UNCHANGED <<target, watched, timers, wire>>

LookupStep == Found \/ NotAvailable \/ LookAgain \/ NotReady \/ Forward \/ Lost \/ Ignore

-----------------------------------------------------------------------------
(* The schedulers of the lookup node.                                        *)

\* Mistake: schedule instead of scheduleOnce.
TimerRepeats ==
  /\ timers > 0
  /\ mailbox' = Append(mailbox, ReceiveTimeout)
  /\ UNCHANGED <<target, watched, timers, calculator, wire>>

\* The one firing of a scheduleOnce.
TimerFires ==
  /\ timers > 0
  /\ timers' = timers - 1
  /\ mailbox' = Append(mailbox, ReceiveTimeout)
  /\ UNCHANGED <<target, watched, calculator, wire>>

\* LookupApplication sends an operation every second (bound: MaxOps of them).
ScheduleOp ==
  /\ scheduled < MaxOps
  /\ scheduled' = scheduled + 1
  /\ mailbox' = Append(mailbox, Op)
  /\ UNCHANGED <<target, watched, timers, calculator, wire>>

-----------------------------------------------------------------------------
(* The calculator's node.                                                    *)

\* The actor system starts, then its actor.
NodeStarts ==
  /\ node = "down"
  /\ incarnation < MaxIncarnations
  /\ node' = "starting"
  /\ UNCHANGED <<target, watched, mailbox, timers, incarnation, quarantined, wire>>

ActorStarts ==
  /\ node = "starting"
  /\ node' = "up"
  /\ incarnation' = incarnation + 1
  /\ UNCHANGED <<target, watched, mailbox, timers, quarantined, wire>>

NodeCrashes ==
  /\ node = "up"
  /\ node' = "down"
  /\ operations' = 0
  /\ UNCHANGED <<target, watched, mailbox, timers, incarnation, quarantined,
                 identifies, identities, results>>

\* Identify reaches the node and is answered with what runs at the path.
AnswerIdentify ==
  /\ identifies > 0
  /\ node # "down"
  /\ node = "up" => incarnation \notin quarantined
  /\ identifies' = identifies - 1
  /\ LET r == IF node = "up" THEN incarnation ELSE NoRef
     IN  identities' = [identities EXCEPT ![r] = More(@)]
  /\ UNCHANGED <<target, watched, mailbox, timers, calculator, operations, results>>

\* CalculatorActor.receive: an operation is answered to its sender.
Calculate ==
  /\ operations > 0
  /\ Reachable(incarnation)
  /\ operations' = operations - 1
  /\ results' = More(results)
  /\ UNCHANGED <<target, watched, mailbox, timers, calculator, identifies, identities>>

-----------------------------------------------------------------------------
(* The network and the death watch.                                          *)

DeliverIdentity(r) ==
  /\ identities[r] > 0
  /\ r \notin quarantined
  /\ identities' = [identities EXCEPT ![r] = @ - 1]
  /\ mailbox' = Append(mailbox, Identity(r))
  /\ UNCHANGED <<target, watched, timers, calculator, identifies, operations, results>>

DeliverResult ==
  /\ results > 0
  /\ results' = results - 1
  /\ mailbox' = Append(mailbox, Result)
  /\ UNCHANGED <<target, watched, timers, calculator, identifies, identities, operations>>

Lose ==
  /\ \/ /\ identifies > 0 /\ identifies' = identifies - 1
        /\ UNCHANGED <<identities, operations, results>>
     \/ /\ \E r \in Ref : identities[r] > 0 /\ identities' = [identities EXCEPT ![r] = @ - 1]
        /\ UNCHANGED <<identifies, operations, results>>
     \/ /\ operations > 0 /\ operations' = operations - 1
        /\ UNCHANGED <<identifies, identities, results>>
     \/ /\ results > 0 /\ results' = results - 1
        /\ UNCHANGED <<identifies, identities, operations>>
  /\ UNCHANGED <<target, watched, mailbox, timers, calculator>>

\* A watched actor is gone, or its node is taken to be unreachable and quarantined.
\* Terminated is sent once per watch.
DeathWatch(i) ==
  /\ i \in watched
  /\ watched' = watched \ {i}
  /\ mailbox' = Append(mailbox, Terminated(i))
  /\ quarantined' = quarantined \cup {i}
  /\ UNCHANGED <<target, timers, node, incarnation, wire>>

-----------------------------------------------------------------------------
Calculator == NodeStarts \/ ActorStarts \/ NodeCrashes \/ AnswerIdentify \/ Calculate

Network == \/ \E r \in Ref : DeliverIdentity(r)
           \/ \E i \in Incarnation : DeathWatch(i)
           \/ DeliverResult
           \/ Lose

\* A step that schedules no operation.
Other(A) == A /\ UNCHANGED scheduled

Next == ScheduleOp \/ Other(LookupStep \/ TimerFires \/ Calculator \/ Network)

Spec == Init /\ [][Next]_vars

\* The actor runs, timers fire, the failure detector finds the dead, and of messages
\* sent over and over to a node that stays reachable some arrive.
Fairness ==
  /\ WF_vars(Other(LookupStep))
  /\ WF_vars(Other(TimerFires))
  /\ SF_vars(Other(AnswerIdentify))
  /\ \A r \in Ref : SF_vars(Other(DeliverIdentity(r)))
  /\ \A i \in Incarnation : WF_vars(~Alive(i) /\ Other(DeathWatch(i)))
  /\ \A i \in Incarnation : WF_vars(i \in quarantined /\ Other(DeathWatch(i)))

FairSpec == Spec /\ Fairness

-----------------------------------------------------------------------------
(* Properties.                                                               *)

\* Timeouts that are scheduled or wait in the mailbox: each, handled while
\* identifying, becomes another one.
TimeoutsIn(box) == {n \in DOMAIN box : box[n] = ReceiveTimeout}
Chains == timers + Cardinality(TimeoutsIn(mailbox))

\* The actor is never stuck: while it looks, another attempt is always under way.
NeverStuck == Identifying => Chains > 0

\* The only Terminated that comes is that of the actor it is active with, so there is
\* no DeathPactException and no Terminated dies in identifying's "case _".
OnlyTargetDies == \A n \in DOMAIN mailbox :
  mailbox[n].kind = "terminated" => mailbox[n].ref = target

\* While active it will hear of the calculator's end: it watches it, and nothing else,
\* until the Terminated is in the mailbox.
WatchedTillDead == watched = {target} \ ({NoRef} \cup {mailbox[n].ref : n \in
  {k \in DOMAIN mailbox : mailbox[k].kind = "terminated"}})

\* So the death watch and the behaviour agree, whatever answers came late.
WatchesTarget == OnlyTargetDies /\ WatchedTillDead

\* While active no chain of timeouts starts or goes on.
ChainsEnd == [][Active /\ Active' => Chains' <= Chains]_vars

\* With a calculator that stays, the actor ends up active with it ...
FindsCalculator == \A i \in Incarnation :
  <>[]Reachable(i) => []<>(target = i)

\* ... and a connection that lasts outlives all timers of the search for it.
TimersDieOut == <>[]Active => <>[](Chains = 0)
=============================================================================
