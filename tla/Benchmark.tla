------------------------------ MODULE Benchmark -----------------------------
(***************************************************************************)
(* The remoting benchmark of akka-scala-example: a Sender finds the        *)
(* Receiver of another node, warms it up with one burst, then sends        *)
(* totalMessages payloads in bursts.  After each burst an Echo message     *)
(* (Start, Continue, Done) goes to the Receiver and back, and only then    *)
(* the next burst follows; at the end both systems are shut down.          *)
(*                                                                         *)
(* Messages from one actor to another arrive in order, and may be lost on  *)
(* the way.  The Sender's receive timeout is a timer: it may fire as long  *)
(* as the Sender has not begun to handle the next message, whatever stands *)
(* in the mailbox by then, so that a ReceiveTimeout can be handled after   *)
(* the ActorIdentity that ends the search.                                 *)
(* The only times the code compares are those of a burst and of the start  *)
(* of a measurement.  A time is represented by the number of payloads sent *)
(* when the clock was read, which is what the reported numbers are about.  *)
(***************************************************************************)
EXTENDS Naturals, Sequences, FiniteSets, SequencesExt

CONSTANTS Totals,         \* the totalMessages that args(1) may ask for
          Bursts,         \* the burstSize that args(2) may ask for
          MaxLost,        \* messages the network loses (bound of the model)
          MaxSearches     \* Identifys and ActorIdentitys in transit (bound of the model)

ASSUME BenchmarkAssumption == /\ Totals \subseteq Nat
                              /\ Bursts \subseteq Nat
                              /\ MaxLost \in Nat
                              /\ MaxSearches \in Nat \ {0}

VARIABLES
  totalMessages, burstSize,  \* the parameters of the Sender
  sender,     \* the Sender: "identifying", "active", "stopped" (its system is shut down)
  receiver,   \* the Receiver: "absent", "running", "stopped"
  mailbox,    \* the Sender's mailbox
  timer,      \* the Sender's receive timeout is armed
  wire,       \* messages on their way to the Sender, in order
  outbox,     \* messages on their way to the Receiver, in order
  startTime,  \* Sender.startTime
  watching,   \* the Sender watches the Receiver
  lost,       \* messages lost
  sent,       \* payloads sent since the system came up
  received    \* payloads received

args == <<totalMessages, burstSize>>

vars == <<args, sender, receiver, mailbox, timer, wire, outbox, startTime, watching, lost, sent, received>>

\* What the Sender has got, and behind it what it will get if it is not lost.
inbox == mailbox \o wire

Msg(kind) == [kind |-> kind]
Identity(found) == [kind |-> "identity", found |-> found]
Continue(remaining, t0, n) ==
  [kind |-> "continue", remaining |-> remaining, startTime |-> t0, n |-> n]

Echo == {"start", "continue", "done"}

Count(s, kinds) == Cardinality({i \in DOMAIN s : s[i].kind \in kinds})

IsMessage(m) == \/ /\ m.kind = "continue"
                   /\ m.remaining \in 1 .. totalMessages
                   /\ m.startTime \in Nat
                   /\ m.n \in 0 .. totalMessages
                \/ m = Identity(TRUE) \/ m = Identity(FALSE)
                \/ m.kind \in {"identify", "timeout", "warmup", "start", "done", "payload",
                               "shutdown", "terminated"}

TypeOK ==
  /\ totalMessages \in Totals
  /\ burstSize \in Bursts
  /\ sender \in {"identifying", "active", "stopped"}
  /\ receiver \in {"absent", "running", "stopped"}
  /\ \A m \in ToSet(inbox) : IsMessage(m)
  /\ timer \in BOOLEAN
  /\ \A m \in ToSet(outbox) : IsMessage(m)
  /\ startTime \in Nat
  /\ watching \in BOOLEAN
  /\ lost \in 0 .. MaxLost
  /\ sent \in Nat
  /\ received \in 0 .. sent

\* The constructor has called sendIdentifyRequest.
Init ==
  /\ totalMessages \in Totals
  /\ burstSize \in Bursts
  /\ sender = "identifying"
  /\ receiver = "absent"
  /\ mailbox = <<>>
  /\ timer = TRUE
  /\ wire = <<>>
  /\ outbox = <<Msg("identify")>>
  /\ startTime = 0
  /\ watching = FALSE
  /\ lost = 0
  /\ sent = 0
  /\ received = 0

-----------------------------------------------------------------------------
(* The Sender.                                                               *)

\* A message of this kind is at the head of the mailbox in this state.
Gets(state, kind) == sender = state /\ mailbox # <<>> /\ Head(mailbox).kind = kind

\* Handling a message stops the timer; while the search goes on it is armed again
\* behind the last message of the mailbox.
Handled == mailbox' = Tail(mailbox) /\ timer' = (sender = "identifying" /\ Tail(mailbox) = <<>>)

\* sendBatch(actor, remaining), then the message m: what the Receiver is sent.
BatchSize(remaining) == IF remaining < burstSize THEN remaining ELSE burstSize

\* Mistake: the echo overtakes the batch.
SendEchoFirst(remaining, m) ==
  /\ outbox' = outbox \o <<m>> \o [i \in 1 .. BatchSize(remaining) |-> Msg("payload")]
  /\ sent' = sent + BatchSize(remaining)

SendBatchThen(remaining, m) ==
  /\ outbox' = outbox \o [i \in 1 .. BatchSize(remaining) |-> Msg("payload")] \o <<m>>
  /\ sent' = sent + BatchSize(remaining)

\* Mistake: the Receiver is not watched.
FoundUnwatched ==
  /\ Gets("identifying", "identity")
  /\ Head(mailbox).found
  /\ sender' = "active"
  /\ timer' = FALSE
  /\ mailbox' = Append(Tail(mailbox), Msg("warmup"))
  /\ UNCHANGED <<receiver, wire, outbox, startTime, watching, lost, sent, received>>

\* identifying: ActorIdentity(path, Some(actor)); self ! Warmup
Found ==
  /\ Gets("identifying", "identity")
  /\ Head(mailbox).found
  /\ sender' = "active"
  /\ watching' = TRUE
  /\ timer' = FALSE
  /\ mailbox' = Append(Tail(mailbox), Msg("warmup"))
  /\ UNCHANGED <<receiver, wire, outbox, startTime, lost, sent, received>>

\* identifying: ActorIdentity(path, None), printed only
NotAvailable ==
  /\ Gets("identifying", "identity")
  /\ ~Head(mailbox).found
  /\ Handled
  /\ UNCHANGED <<sender, receiver, outbox, startTime, watching, lost, sent, received>>

\* identifying: ReceiveTimeout
LookAgain ==
  /\ Gets("identifying", "timeout")
  /\ Handled
  /\ outbox' = Append(outbox, Msg("identify"))
  /\ UNCHANGED <<sender, receiver, startTime, watching, lost, sent, received>>

\* active: Warmup
Warmup ==
  /\ Gets("active", "warmup")
  /\ Handled
  /\ SendBatchThen(burstSize, Msg("start"))
  /\ UNCHANGED <<sender, receiver, startTime, watching, lost, received>>

\* Mistake: Continue even when nothing remains.
NextEchoAlways(remaining, t0, n) == Continue(remaining, t0, n)
\* What follows a batch that leaves so many messages.
NextEcho(remaining, t0, n) ==
  IF remaining = 0 THEN Msg("done") ELSE Continue(remaining, t0, n)

\* active: Start
Start ==
  /\ Gets("active", "start")
  /\ Handled
  /\ startTime' = sent
  /\ SendBatchThen(totalMessages,
                   NextEcho(totalMessages - BatchSize(totalMessages), sent, burstSize))
  /\ UNCHANGED <<sender, receiver, watching, lost, received>>

\* Mistake: the new measurement keeps the old count.
ContinueWithOldCount ==
  /\ Gets("active", "continue")
  /\ Handled
  /\ LET c == Head(mailbox)
         left == c.remaining - BatchSize(c.remaining)
     IN  \/ SendBatchThen(c.remaining, NextEcho(left, sent, c.n + burstSize))
         \/ SendBatchThen(c.remaining, NextEcho(left, c.startTime, c.n + burstSize))
  /\ UNCHANGED <<sender, receiver, startTime, watching, lost, received>>

\* active: Continue; after 500 ms a line is printed and a new measurement begins.
ContinueBurst ==
  /\ Gets("active", "continue")
  /\ Handled
  /\ LET c == Head(mailbox)
         left == c.remaining - BatchSize(c.remaining)
     IN  \/ SendBatchThen(c.remaining, NextEcho(left, sent, burstSize))
         \/ SendBatchThen(c.remaining, NextEcho(left, c.startTime, c.n + burstSize))
  /\ UNCHANGED <<sender, receiver, startTime, watching, lost, received>>

\* active: Done; the result is printed and the Receiver told to shut down.
Done ==
  /\ Gets("active", "done")
  /\ Handled
  /\ outbox' = Append(outbox, Msg("shutdown"))
  /\ UNCHANGED <<sender, receiver, startTime, watching, lost, sent, received>>

\* active: Terminated(actor) shuts the system down.
ReceiverTerminated ==
  /\ Gets("active", "terminated")
  /\ Handled
  /\ sender' = "stopped"
  /\ UNCHANGED <<receiver, outbox, startTime, watching, lost, sent, received>>

\* Mistake: a ReceiveTimeout of the search that comes late starts the benchmark again.
UnhandledButWarmup ==
  /\ \/ Gets("active", "identity") /\ mailbox' = Tail(mailbox)
     \/ Gets("active", "timeout") /\ mailbox' = Append(Tail(mailbox), Msg("warmup"))
  /\ UNCHANGED <<sender, receiver, timer, outbox, startTime, watching, lost, sent, received>>

\* active: a late ActorIdentity or ReceiveTimeout is unhandled.
Unhandled ==
  /\ Gets("active", "identity") \/ Gets("active", "timeout")
  /\ Handled
  /\ UNCHANGED <<sender, receiver, outbox, startTime, watching, lost, sent, received>>

SenderStep == /\ \/ Found \/ NotAvailable \/ LookAgain
                 \/ Warmup \/ Start \/ ContinueBurst \/ Done
                 \/ ReceiverTerminated \/ Unhandled
              /\ UNCHANGED <<args, wire>>

\* setReceiveTimeout(3.seconds): the timer fires, whatever the mailbox holds by then.
ReceiveTimeout ==
  /\ timer
  /\ Count(outbox, {"identify"}) + Count(inbox, {"identity"}) < MaxSearches
  /\ timer' = FALSE
  /\ mailbox' = Append(mailbox, Msg("timeout"))
  /\ UNCHANGED <<args, sender, receiver, wire, outbox, startTime, watching, lost, sent, received>>

\* The first message on its way to the Sender reaches its mailbox.
Deliver ==
  /\ sender # "stopped"
  /\ wire # <<>>
  /\ wire' = Tail(wire)
  /\ mailbox' = Append(mailbox, Head(wire))
  /\ UNCHANGED <<args, sender, receiver, timer, outbox, startTime, watching, lost, sent, received>>

-----------------------------------------------------------------------------
(* The Receiver and its node.                                                *)

ReceiverStarts ==
  /\ receiver = "absent"
  /\ receiver' = "running"
  /\ UNCHANGED <<args, sender, mailbox, timer, wire, outbox, startTime, watching, lost, sent, received>>

\* Identify is answered by the node, by what is at the path or by nothing there.
AnswerIdentify ==
  /\ outbox # <<>> /\ Head(outbox).kind = "identify"
  /\ outbox' = Tail(outbox)
  /\ receiver # "stopped"
  /\ wire' = Append(wire, Identity(receiver = "running"))
  /\ UNCHANGED <<sender, receiver, startTime, watching, lost, sent, received>>

\* case m: Echo => sender() ! m
EchoBack ==
  /\ receiver = "running"
  /\ outbox # <<>> /\ Head(outbox).kind \in Echo
  /\ outbox' = Tail(outbox)
  /\ wire' = Append(wire, Head(outbox))
  /\ UNCHANGED <<sender, receiver, startTime, watching, lost, sent, received>>

\* case Shutdown => context.system.shutdown()
ShutDown ==
  /\ receiver = "running"
  /\ outbox # <<>> /\ Head(outbox).kind = "shutdown"
  /\ outbox' = Tail(outbox)
  /\ receiver' = "stopped"
  /\ UNCHANGED <<sender, wire, startTime, watching, lost, sent, received>>

\* case _ =>
Payload ==
  /\ receiver = "running"
  /\ outbox # <<>> /\ Head(outbox).kind = "payload"
  /\ outbox' = Tail(outbox)
  /\ received' = received + 1
  /\ UNCHANGED <<sender, receiver, wire, startTime, watching, lost, sent>>

\* The Receiver's node crashes.
ReceiverCrashes ==
  /\ receiver = "running"
  /\ receiver' = "stopped"
  /\ UNCHANGED <<args, sender, mailbox, timer, wire, outbox, startTime, watching, lost, sent, received>>

\* The death watch tells the Sender that the Receiver's system is gone.
DeathWatch ==
  /\ watching
  /\ receiver = "stopped"
  /\ watching' = FALSE
  /\ mailbox' = Append(mailbox, Msg("terminated"))
  /\ UNCHANGED <<args, sender, receiver, timer, wire, outbox, startTime, lost, sent, received>>

\* A message is lost on its way to the Receiver or back.
Lose ==
  /\ lost < MaxLost
  /\ lost' = lost + 1
  /\ \/ \E i \in DOMAIN outbox : outbox' = RemoveAt(outbox, i) /\ UNCHANGED wire
     \/ \E i \in DOMAIN wire : wire' = RemoveAt(wire, i) /\ UNCHANGED outbox
  /\ UNCHANGED <<args, sender, receiver, mailbox, timer, startTime, watching, sent, received>>

ReceiverStep == /\ AnswerIdentify \/ EchoBack \/ ShutDown \/ Payload
                /\ UNCHANGED <<args, mailbox, timer>>

Next == \/ SenderStep \/ ReceiveTimeout \/ Deliver
        \/ ReceiverStarts \/ ReceiverCrashes \/ ReceiverStep \/ DeathWatch \/ Lose

Spec == Init /\ [][Next]_vars

\* Both actors run, timeouts fire, what is not lost arrives, the death watch works.
FairSpec == Spec /\ WF_vars(SenderStep) /\ WF_vars(ReceiveTimeout) /\ WF_vars(Deliver)
                 /\ WF_vars(ReceiverStarts) /\ WF_vars(ReceiverStep)
                 /\ WF_vars(DeathWatch)

-----------------------------------------------------------------------------
(* Properties.                                                               *)

InTransit == ToSet(inbox) \cup ToSet(outbox)

\* There is one burst under way at most: of Warmup, the echoes and Shutdown a single
\* message is in transit, exactly one if none was lost, and none comes twice.
OneToken ==
  LET tokens == Count(inbox \o outbox, {"warmup", "shutdown"} \cup Echo) IN
  /\ tokens <= 1
  /\ sender = "active" /\ receiver = "running" /\ lost = 0 => tokens = 1

\* A Continue carries the true numbers: n payloads were sent since its startTime and the
\* rest of totalMessages is still to come; and when the Receiver is told to shut down,
\* exactly one warm-up burst and totalMessages payloads have been sent.
HonestCount ==
  /\ \A m \in InTransit : m.kind = "continue" =>
       /\ m.n = sent - m.startTime
       /\ m.remaining = totalMessages - (sent - startTime)
  /\ Count(outbox, {"shutdown"}) > 0 => sent = burstSize + totalMessages

\* When an echo is back, all payloads sent before it have arrived, but for lost ones:
\* the printed throughput is of messages that were delivered.
EchoMeansDelivered == \A m \in ToSet(inbox) : m.kind \in Echo => received + lost >= sent

\* With payloads to a burst and without losses the benchmark ends and both systems are
\* shut down; a Receiver that crashes first stops an active Sender too (one that has not
\* found it yet looks on).  With a burstSize of 0 echoes would go back and forth for ever.
ShutsDown == [](lost = 0) /\ (burstSize > 0 \/ totalMessages = 0)
             => <>[](receiver = "stopped" /\ sender # "active")
=============================================================================
