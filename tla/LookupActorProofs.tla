--------------------------- MODULE LookupActorProofs --------------------------
(***************************************************************************)
(* Theorems about the search of LookupActor, for any number of lives of    *)
(* the calculator, any number of operations and any wire: while the actor  *)
(* looks, a retry is under way; while it is active, it watches the         *)
(* calculator it is active with and no other, and starts no retry.         *)
(***************************************************************************)
EXTENDS LookupActor, FiniteSetTheorems, TLAPS

\* The Terminated messages of the mailbox.
Deaths(box) == {n \in DOMAIN box : box[n].kind = "terminated"}

\* What of TypeOK the search depends on.
Types ==
  /\ target \in Ref
  /\ watched \in SUBSET Incarnation
  /\ mailbox \in Seq(Message)
  /\ timers \in Nat

\* The search goes on by a timer or by a timeout in the mailbox.
GoesOn == Identifying => timers > 0 \/ TimeoutsIn(mailbox) # {}

\* One Terminated at most is in the mailbox: that of the target, which is then no longer
\* watched; and no other actor is.
Deathwatch ==
  /\ \A m, n \in Deaths(mailbox) : m = n
  /\ \A n \in Deaths(mailbox) : mailbox[n].ref = target
  /\ watched = IF Deaths(mailbox) = {} /\ Active THEN {target} ELSE {}

IInv == Types /\ GoesOn /\ Deathwatch

-----------------------------------------------------------------------------
(* Mailboxes.                                                                *)

\* A message appended is the last; the others stay where they are.
LEMMA Posted ==
  ASSUME NEW box \in Seq(Message), NEW m \in Message
  PROVE  /\ Append(box, m) \in Seq(Message)
         /\ DOMAIN Append(box, m) = DOMAIN box \cup {Len(box) + 1}
         /\ Len(box) + 1 \notin DOMAIN box
         /\ \A n \in DOMAIN box : Append(box, m)[n] = box[n]
         /\ Append(box, m)[Len(box) + 1] = m
OBVIOUS

\* With the first message taken, each other one moves on by one place.
LEMMA Taken ==
  ASSUME NEW box \in Seq(Message), box # <<>>
  PROVE  /\ Tail(box) \in Seq(Message) /\ Head(box) \in Message
         /\ 1 \in DOMAIN box /\ box[1] = Head(box)
         /\ \A n \in DOMAIN Tail(box) : n + 1 \in DOMAIN box /\ Tail(box)[n] = box[n + 1]
         /\ \A n \in DOMAIN box : n # 1 => n - 1 \in DOMAIN Tail(box) /\ Tail(box)[n - 1] = box[n]
         /\ DOMAIN box \subseteq Nat /\ DOMAIN Tail(box) \subseteq Nat
OBVIOUS

\* The messages are told apart by their kind.
LEMMA Kinds ==
  ASSUME NEW m \in Message
  PROVE  /\ m.kind \in {"identity", "terminated", "timeout", "op", "result"}
         /\ m.kind = "timeout" <=> m = ReceiveTimeout
         /\ m.kind = "terminated" => m.ref \in Incarnation
         /\ m.kind = "identity" => m.ref \in Ref
BY DEF Message, ReceiveTimeout, Op, Result, Identity, Terminated, Ref, Incarnation

\* Posting a message that is not a timeout, or one that is.
LEMMA PostedTimeouts ==
  ASSUME NEW box \in Seq(Message), NEW m \in Message
  PROVE  /\ m # ReceiveTimeout => TimeoutsIn(Append(box, m)) = TimeoutsIn(box)
         /\ m = ReceiveTimeout => TimeoutsIn(Append(box, m)) = TimeoutsIn(box) \cup {Len(box) + 1}
BY Posted DEF TimeoutsIn

LEMMA PostedDeaths ==
  ASSUME NEW box \in Seq(Message), NEW m \in Message
  PROVE  /\ m.kind # "terminated" => Deaths(Append(box, m)) = Deaths(box)
         /\ m.kind = "terminated" => Deaths(Append(box, m)) = Deaths(box) \cup {Len(box) + 1}
BY Posted DEF Deaths

-----------------------------------------------------------------------------
(* The steps, by what they do to the mailbox.                                *)

\* A message other than a Terminated is posted.
LEMMA PostIInv ==
  ASSUME IInv, NEW m \in Message, m.kind # "terminated",
         mailbox' = Append(mailbox, m), UNCHANGED <<target, watched>>,
         timers' = timers \/ (timers' = timers - 1 /\ timers > 0 /\ m = ReceiveTimeout)
  PROVE  IInv'
<1>1. Types'
  BY Posted DEF IInv, Types
<1>2. GoesOn'
  <2>1. CASE timers' = timers
    BY <2>1, PostedTimeouts DEF IInv, Types, GoesOn, Identifying
  <2>2. CASE m = ReceiveTimeout
    BY <2>2, PostedTimeouts DEF IInv, Types, GoesOn
  <2> QED
    BY <2>1, <2>2
<1>3. Deathwatch'
  <2>1. Deaths(mailbox') = Deaths(mailbox)
    BY PostedDeaths DEF IInv, Types
  <2>2. \A n \in Deaths(mailbox) : mailbox'[n] = mailbox[n]
    BY Posted DEF IInv, Types, Deaths
  <2> QED
    BY <2>1, <2>2 DEF IInv, Deathwatch, Active
<1> QED
  BY <1>1, <1>2, <1>3 DEF IInv

\* The first message is taken and is no Terminated: the deaths stay what they are.
LEMMA TakeDeaths ==
  ASSUME IInv, mailbox # <<>>, mailbox' = Tail(mailbox), Head(mailbox).kind # "terminated"
  PROVE  /\ \A m, n \in Deaths(mailbox') : m = n
         /\ \A n \in Deaths(mailbox') : mailbox'[n].ref = target
         /\ Deaths(mailbox') = {} <=> Deaths(mailbox) = {}
<1> DEFINE box == mailbox
<1>1. /\ 1 \in DOMAIN box /\ box[1] = Head(box)
      /\ \A n \in DOMAIN Tail(box) : n + 1 \in DOMAIN box /\ Tail(box)[n] = box[n + 1]
      /\ \A n \in DOMAIN box : n # 1 => n - 1 \in DOMAIN Tail(box) /\ Tail(box)[n - 1] = box[n]
      /\ DOMAIN box \subseteq Nat /\ DOMAIN Tail(box) \subseteq Nat
  BY Taken DEF IInv, Types
<1>2. \A n \in Deaths(mailbox') : n \in Nat /\ n + 1 \in Deaths(mailbox) /\ mailbox'[n] = mailbox[n + 1]
  BY <1>1 DEF Deaths
<1>3. \A n \in Deaths(mailbox) : n \in Nat /\ n - 1 \in Deaths(mailbox')
  BY <1>1 DEF Deaths
<1>4. \A m, n \in Deaths(mailbox') : m = n
  <2>1. \A m, n \in Deaths(mailbox') : m + 1 = n + 1
    BY <1>2 DEF IInv, Deathwatch
  <2> QED
    BY <2>1, <1>2
<1>5. \A n \in Deaths(mailbox') : mailbox'[n].ref = target
  BY <1>2 DEF IInv, Deathwatch
<1>6. Deaths(mailbox') = {} <=> Deaths(mailbox) = {}
  BY <1>2, <1>3
<1> QED
  BY <1>4, <1>5, <1>6

\* A Terminated is taken: no other is left.
LEMMA TakeDeath ==
  ASSUME IInv, mailbox # <<>>, mailbox' = Tail(mailbox), Head(mailbox).kind = "terminated"
  PROVE  Deaths(mailbox') = {} /\ Deaths(mailbox) # {} /\ target \in Incarnation
<1>1. /\ Head(mailbox) \in Message /\ 1 \in DOMAIN mailbox /\ mailbox[1] = Head(mailbox)
      /\ \A n \in DOMAIN Tail(mailbox) :
           n + 1 \in DOMAIN mailbox /\ Tail(mailbox)[n] = mailbox[n + 1]
      /\ DOMAIN Tail(mailbox) = 1 .. Len(mailbox) - 1
  BY Taken DEF IInv, Types
<1>2. 1 \in Deaths(mailbox)
  BY <1>1 DEF Deaths
<1>3. ASSUME NEW n \in Deaths(mailbox') PROVE FALSE
  <2>1. n \in 1 .. Len(mailbox) - 1 /\ n + 1 \in Deaths(mailbox)
    BY <1>1, <1>3 DEF Deaths
  <2>2. n + 1 = 1
    BY <1>2, <2>1 DEF IInv, Deathwatch
  <2> QED
    BY <2>1, <2>2
<1>4. target \in Incarnation
  BY <1>1, <1>2, Kinds DEF IInv, Deathwatch
<1> QED
  BY <1>2, <1>3, <1>4

\* The first message is taken and is no timeout: the timeouts stay.
LEMMA TakeTimeouts ==
  ASSUME IInv, mailbox # <<>>, mailbox' = Tail(mailbox), Head(mailbox) # ReceiveTimeout
  PROVE  TimeoutsIn(mailbox') = {} <=> TimeoutsIn(mailbox) = {}
<1>1. /\ 1 \in DOMAIN mailbox /\ mailbox[1] = Head(mailbox)
      /\ \A n \in DOMAIN Tail(mailbox) :
           n + 1 \in DOMAIN mailbox /\ Tail(mailbox)[n] = mailbox[n + 1]
      /\ \A n \in DOMAIN mailbox : n # 1 =>
           n - 1 \in DOMAIN Tail(mailbox) /\ Tail(mailbox)[n - 1] = mailbox[n]
  BY Taken DEF IInv, Types
<1>2. \A n \in TimeoutsIn(mailbox') : n + 1 \in TimeoutsIn(mailbox)
  BY <1>1 DEF TimeoutsIn
<1>3. \A n \in TimeoutsIn(mailbox) : n - 1 \in TimeoutsIn(mailbox')
  BY <1>1 DEF TimeoutsIn
<1> QED
  BY <1>2, <1>3

-----------------------------------------------------------------------------
LEMMA InitIInv == Init => IInv
<1> SUFFICES ASSUME Init PROVE IInv
  OBVIOUS
<1>1. Deaths(mailbox) = {}
  BY DEF Init, Deaths
<1>2. Types
  BY DEF Init, Types, Ref
<1> QED
  BY <1>1, <1>2 DEF Init, IInv, GoesOn, Deathwatch, Identifying, Active

\* The actor handles a message.
LEMMA LookupStepIInv ==
  ASSUME IInv, LookupStep
  PROVE  IInv'
<1> USE DEF Receive
<1>1. Types /\ GoesOn /\ Deathwatch
  BY DEF IInv
<1>2. mailbox # <<>> /\ mailbox' = Tail(mailbox)
  BY DEF LookupStep, Found, NotAvailable, LookAgain, NotReady, Forward, Lost, Ignore
<1>3. Tail(mailbox) \in Seq(Message) /\ Head(mailbox) \in Message
  BY <1>1, <1>2, Taken DEF Types
<1>4. CASE Found
  <2>1. Head(mailbox).ref \in Incarnation /\ Head(mailbox).kind = "identity"
    BY <1>3, <1>4, Kinds DEF Found, Ref
  <2>2. target = NoRef /\ Deaths(mailbox) = {}
    <3>1. target = NoRef
      BY <1>4 DEF Found, Identifying
    <3>2. \A n \in Deaths(mailbox) : mailbox[n].ref \in Incarnation
      BY <1>1, Kinds DEF Types, Deaths
    <3> QED
      BY <1>1, <3>1, <3>2 DEF Deathwatch, NoRef, Incarnation
  <2>3. Deaths(mailbox') = {}
    BY <1>2, <2>1, <2>2, TakeDeaths
  <2>4. Types'
    BY <1>1, <1>2, <1>3, <1>4, <2>1 DEF Types, Found, Ref
  <2>5. GoesOn'
    BY <1>4, <2>1 DEF GoesOn, Found, Identifying, NoRef, Incarnation
  <2>6. Deathwatch'
    BY <1>1, <1>4, <2>1, <2>2, <2>3 DEF Deathwatch, Found, Active, NoRef, Incarnation
  <2> QED
    BY <2>4, <2>5, <2>6 DEF IInv
<1>5. CASE NotAvailable \/ LookAgain \/ (NotReady /\ Head(mailbox).kind # "terminated")
           \/ Forward \/ Ignore
  <2>1. Head(mailbox).kind # "terminated" /\ target' = target /\ watched' = watched
    BY <1>5 DEF NotAvailable, LookAgain, NotReady, Forward, Ignore
  <2>2. Deathwatch'
    BY <1>1, <1>2, <2>1, TakeDeaths DEF Deathwatch, Active
  <2>3. timers' = timers \/ (timers' = timers + 1 /\ Identifying)
    BY <1>5 DEF NotAvailable, LookAgain, NotReady, Forward, Ignore, SendIdentifyRequest
  <2>4. Types'
    BY <1>1, <1>2, <1>3, <2>1, <2>3 DEF Types
  <2>5. GoesOn'
    <3>1. CASE LookAgain
      BY <1>1, <3>1 DEF LookAgain, SendIdentifyRequest, GoesOn, Types
    <3>2. CASE NotAvailable \/ NotReady
      <4>1. Head(mailbox).kind # "timeout" /\ timers' = timers
        BY <3>2 DEF NotAvailable, NotReady
      <4>2. Head(mailbox) # ReceiveTimeout
        BY <1>3, <4>1, Kinds
      <4> QED
        BY <1>1, <1>2, <2>1, <4>1, <4>2, TakeTimeouts DEF GoesOn, Identifying
    <3>3. CASE Forward \/ Ignore
      BY <2>1, <3>3 DEF Forward, Ignore, GoesOn, Active, Identifying
    <3> QED
      BY <1>5, <3>1, <3>2, <3>3
  <2> QED
    BY <2>2, <2>4, <2>5 DEF IInv
<1>6. CASE NotReady /\ Head(mailbox).kind = "terminated"
  <2>1. target = NoRef /\ target \in Incarnation
    BY <1>2, <1>6, TakeDeath DEF NotReady, Identifying
  <2> QED
    BY <2>1 DEF NoRef, Incarnation
<1>7. CASE Lost
  <2>1. Deaths(mailbox') = {} /\ Deaths(mailbox) # {}
    BY <1>2, <1>7, TakeDeath DEF Lost
  <2>2. target' = NoRef /\ watched' = watched /\ timers' = timers + 1
    BY <1>7 DEF Lost, SendIdentifyRequest
  <2>3. Types'
    BY <1>1, <1>2, <1>3, <2>2 DEF Types, Ref
  <2>4. GoesOn'
    BY <1>1, <2>2 DEF GoesOn, Types
  <2>5. Deathwatch'
    BY <1>1, <2>1, <2>2 DEF Deathwatch, Active
  <2> QED
    BY <2>3, <2>4, <2>5 DEF IInv
<1> QED
  BY <1>4, <1>5, <1>6, <1>7 DEF LookupStep

\* The Terminated of a watched actor comes: it is the target, and the first to come.
LEMMA DeathWatchIInv ==
  ASSUME IInv, NEW i \in Incarnation, DeathWatch(i)
  PROVE  IInv'
<1>1. Types /\ GoesOn /\ Deathwatch
  BY DEF IInv
<1>2. /\ mailbox' = Append(mailbox, Terminated(i)) /\ i \in watched
      /\ watched' = watched \ {i} /\ target' = target /\ timers' = timers
  BY DEF DeathWatch
<1>3. /\ Terminated(i) \in Message /\ Terminated(i).kind = "terminated"
      /\ Terminated(i).ref = i /\ Terminated(i) # ReceiveTimeout
  BY DEF Message, Terminated, ReceiveTimeout
<1>4. i = target /\ Deaths(mailbox) = {} /\ watched' = {} /\ Active
  BY <1>1, <1>2 DEF Deathwatch
<1>5. Deaths(mailbox') = {Len(mailbox) + 1} /\ mailbox'[Len(mailbox) + 1].ref = i
  BY <1>1, <1>2, <1>3, <1>4, Posted, PostedDeaths DEF Types
<1>6. Types'
  BY <1>1, <1>2, <1>3, Posted DEF Types
<1>7. GoesOn'
  BY <1>2, <1>4 DEF GoesOn, Identifying, Active
<1>8. Deathwatch'
  BY <1>2, <1>4, <1>5 DEF Deathwatch
<1> QED
  BY <1>6, <1>7, <1>8 DEF IInv

LEMMA StepIInv == IInv /\ [Next]_vars => IInv'
<1> SUFFICES ASSUME IInv, [Next]_vars PROVE IInv'
  OBVIOUS
<1>1. CASE UNCHANGED <<target, watched, mailbox, timers>>
  BY <1>1 DEF IInv, Types, GoesOn, Deathwatch, Identifying, Active
<1>2. CASE ScheduleOp
  <2>1. Op \in Message /\ Op.kind # "terminated"
    BY DEF Op, Message
  <2> QED
    BY <1>2, <2>1, PostIInv DEF ScheduleOp
<1>3. CASE LookupStep
  BY <1>3, LookupStepIInv
<1>4. CASE TimerFires
  <2>1. ReceiveTimeout \in Message /\ ReceiveTimeout.kind # "terminated"
    BY DEF ReceiveTimeout, Message
  <2> QED
    BY <1>4, <2>1, PostIInv DEF TimerFires
<1>5. CASE Calculator
  BY <1>1, <1>5 DEF Calculator, NodeStarts, ActorStarts, NodeCrashes, AnswerIdentify, Calculate
<1>6. ASSUME NEW r \in Ref, DeliverIdentity(r) PROVE IInv'
  <2>1. Identity(r) \in Message /\ Identity(r).kind # "terminated"
    BY DEF Identity, Message
  <2> QED
    BY <1>6, <2>1, PostIInv DEF DeliverIdentity
<1>7. ASSUME NEW i \in Incarnation, DeathWatch(i) PROVE IInv'
  BY <1>7, DeathWatchIInv
<1>8. CASE DeliverResult
  <2>1. Result \in Message /\ Result.kind # "terminated"
    BY DEF Result, Message
  <2> QED
    BY <1>8, <2>1, PostIInv DEF DeliverResult
<1>9. CASE Lose
  BY <1>1, <1>9 DEF Lose
<1>10. CASE UNCHANGED vars
  BY <1>1, <1>10 DEF vars
<1> QED
  BY <1>2, <1>3, <1>4, <1>5, <1>6, <1>7, <1>8, <1>9, <1>10 DEF Next, Other, Network

LEMMA Inductive == Spec => []IInv
BY InitIInv, StepIInv, PTL DEF Spec

-----------------------------------------------------------------------------
\* The timeouts of a mailbox are finitely many.
LEMMA TimeoutsFinite ==
  ASSUME NEW box \in Seq(Message)
  PROVE  /\ IsFiniteSet(TimeoutsIn(box))
         /\ Cardinality(TimeoutsIn(box)) \in Nat
         /\ TimeoutsIn(box) # {} => Cardinality(TimeoutsIn(box)) > 0
<1>1. TimeoutsIn(box) \in SUBSET (1 .. Len(box)) /\ Len(box) \in Nat
  BY DEF TimeoutsIn
<1>2. IsFiniteSet(1 .. Len(box))
  BY <1>1, FS_Interval
<1>3. IsFiniteSet(TimeoutsIn(box))
  BY <1>1, <1>2, FS_Subset
<1>4. Cardinality(TimeoutsIn(box)) \in Nat
  BY <1>3, FS_CardinalityType
<1>5. TimeoutsIn(box) # {} => Cardinality(TimeoutsIn(box)) # 0
  BY <1>3, FS_EmptySet
<1> QED
  BY <1>3, <1>4, <1>5

\* While the actor looks for the calculator, another attempt is always under way,
\* whatever is lost and however often the calculator dies.
THEOREM NeverStuckHolds == Spec => []NeverStuck
<1>1. IInv => NeverStuck
  BY TimeoutsFinite DEF IInv, Types, GoesOn, NeverStuck, Chains
<1> QED
  BY <1>1, Inductive, PTL

\* Death watch and behaviour agree: the one Terminated that can come is that of the actor
\* it is active with, and until it comes that actor is watched, and no other.
THEOREM WatchesTargetHolds == Spec => []WatchesTarget
<1>1. ASSUME IInv PROVE OnlyTargetDies
  BY <1>1 DEF IInv, Deathwatch, OnlyTargetDies, Deaths
<1>2. ASSUME IInv PROVE WatchedTillDead
  <2>1. {k \in DOMAIN mailbox : mailbox[k].kind = "terminated"} = Deaths(mailbox)
    BY DEF Deaths
  <2>2. CASE Deaths(mailbox) = {}
    <3>1. WatchedTillDead <=> watched = {target} \ {NoRef}
      BY <2>1, <2>2 DEF WatchedTillDead
    <3> QED
      BY <1>2, <2>2, <3>1 DEF IInv, Deathwatch, Active
  <2>3. CASE Deaths(mailbox) # {}
    <3>1. {mailbox[n].ref : n \in Deaths(mailbox)} = {target}
      BY <1>2, <2>3 DEF IInv, Deathwatch
    <3> QED
      BY <1>2, <2>1, <2>3, <3>1 DEF IInv, Deathwatch, WatchedTillDead
  <2> QED
    BY <2>2, <2>3
<1>3. IInv => WatchesTarget
  BY <1>1, <1>2 DEF WatchesTarget
<1> QED
  BY <1>3, Inductive, PTL
\* Taking a message off the mailbox leaves no more timeouts than there were.
LEMMA TakenTimeouts ==
  ASSUME NEW box \in Seq(Message), box # <<>>
  PROVE  Cardinality(TimeoutsIn(Tail(box))) <= Cardinality(TimeoutsIn(box))
<1> DEFINE S == TimeoutsIn(Tail(box))
           T == TimeoutsIn(box)
           f == [n \in S |-> n + 1]
<1>1. \A n \in S : n \in Nat /\ n + 1 \in T
  BY Taken DEF TimeoutsIn
<1>2. f \in [S -> T]
  BY <1>1
<1>3. \A m, n \in S : f[m] = f[n] => m = n
  BY <1>1
<1>4. f \in Injection(S, T)
  BY <1>2, <1>3 DEF Injection, IsInjective
<1>5. IsFiniteSet(T)
  BY TimeoutsFinite
<1> HIDE DEF S, T, f
<1>6. Cardinality(S) <= Cardinality(T)
  BY <1>4, <1>5, FS_Injection
<1> QED
  BY <1>6 DEF S, T

\* Posting another message does not change their number, posting one adds one.
LEMMA PostedCount ==
  ASSUME NEW box \in Seq(Message), NEW m \in Message
  PROVE  Cardinality(TimeoutsIn(Append(box, m))) =
           Cardinality(TimeoutsIn(box)) + (IF m = ReceiveTimeout THEN 1 ELSE 0)
<1>1. IsFiniteSet(TimeoutsIn(box)) /\ Cardinality(TimeoutsIn(box)) \in Nat
  BY TimeoutsFinite
<1>2. Len(box) + 1 \notin TimeoutsIn(box)
  BY Posted DEF TimeoutsIn
<1>3. CASE m = ReceiveTimeout
  <2>1. TimeoutsIn(Append(box, m)) = TimeoutsIn(box) \cup {Len(box) + 1}
    BY <1>3, PostedTimeouts
  <2>2. Cardinality(TimeoutsIn(box) \cup {Len(box) + 1}) = Cardinality(TimeoutsIn(box)) + 1
    BY <1>1, <1>2, FS_AddElement
  <2> QED
    BY <1>3, <2>1, <2>2
<1>4. CASE m # ReceiveTimeout
  BY <1>1, <1>4, PostedTimeouts
<1> QED
  BY <1>3, <1>4

\* While the actor is active no chain of timeouts starts, and none goes on.
THEOREM ChainsEndHolds == Spec => ChainsEnd
<1> DEFINE Ends == Active /\ Active' => Chains' <= Chains
<1>1. ASSUME IInv, [Next]_vars PROVE [Ends]_vars
  <2> SUFFICES ASSUME Active, Active' PROVE Chains' <= Chains \/ UNCHANGED vars
    OBVIOUS
  <2>1. mailbox \in Seq(Message) /\ timers \in Nat /\ Cardinality(TimeoutsIn(mailbox)) \in Nat
    BY <1>1, TimeoutsFinite DEF IInv, Types
  <2>2. CASE UNCHANGED <<mailbox, timers>>
    BY <2>1, <2>2 DEF Chains
  <2>3. CASE UNCHANGED vars
    BY <2>3
  <2>4. ASSUME NEW m \in Message, m # ReceiveTimeout,
               mailbox' = Append(mailbox, m), timers' = timers
        PROVE  Chains' <= Chains
    BY <2>1, <2>4, PostedCount DEF Chains
  <2>5. CASE ScheduleOp
    BY <2>4, <2>5 DEF ScheduleOp, Op, Message, ReceiveTimeout
  <2>6. CASE LookupStep
    <3>1. mailbox # <<>> /\ mailbox' = Tail(mailbox) /\ timers' = timers
      BY <2>6 DEF LookupStep, Found, NotAvailable, LookAgain, NotReady, Forward, Lost, Ignore,
         Receive, Active, Identifying
    <3> QED
      <4>1. Cardinality(TimeoutsIn(Tail(mailbox))) \in Nat
        BY <2>1, <3>1, Taken, TimeoutsFinite
      <4> QED
        BY <2>1, <3>1, <4>1, TakenTimeouts DEF Chains
  <2>7. CASE TimerFires
    <3>1. ReceiveTimeout \in Message
      BY DEF ReceiveTimeout, Message
    <3> QED
      BY <2>1, <2>7, <3>1, PostedCount DEF TimerFires, Chains
  <2>8. CASE Calculator
    BY <2>2, <2>8 DEF Calculator, NodeStarts, ActorStarts, NodeCrashes, AnswerIdentify, Calculate
  <2>9. ASSUME NEW r \in Ref, DeliverIdentity(r) PROVE Chains' <= Chains
    BY <2>4, <2>9 DEF DeliverIdentity, Identity, Message, ReceiveTimeout
  <2>10. ASSUME NEW i \in Incarnation, DeathWatch(i) PROVE Chains' <= Chains
    BY <2>4, <2>10 DEF DeathWatch, Terminated, Message, ReceiveTimeout
  <2>11. CASE DeliverResult
    BY <2>4, <2>11 DEF DeliverResult, Result, Message, ReceiveTimeout
  <2>12. CASE Lose
    BY <2>2, <2>12 DEF Lose
  <2> QED
    BY <1>1, <2>3, <2>5, <2>6, <2>7, <2>8, <2>9, <2>10, <2>11, <2>12 DEF Next, Other, Network
<1> QED
  BY <1>1, Inductive, PTL DEF Spec, ChainsEnd
-----------------------------------------------------------------------------
\* The types of the node and of the wire; a node only starts if it has a life left.
OutsideTypes ==
  /\ node \in {"down", "starting", "up"}
  /\ incarnation \in Ref
  /\ node = "starting" => incarnation < MaxIncarnations
  /\ quarantined \in SUBSET Incarnation
  /\ identifies \in InFlight
  /\ identities \in [Ref -> InFlight]
  /\ operations \in InFlight
  /\ results \in InFlight
  /\ scheduled \in 0 .. MaxOps

\* Sending and receiving keep a number of messages within its bound.
LEMMA InFlightBound ==
  ASSUME NEW n \in InFlight
  PROVE  More(n) \in InFlight /\ (n > 0 => n - 1 \in InFlight)
BY LookupAssumption DEF InFlight, More

LEMMA OutsideTypesStep ==
  ASSUME IInv, OutsideTypes, [Next]_vars
  PROVE  OutsideTypes'
<1> USE LookupAssumption
<1>1. CASE UNCHANGED vars
  BY <1>1 DEF OutsideTypes, vars
<1>2. CASE ScheduleOp
  BY <1>2 DEF OutsideTypes, ScheduleOp, calculator, wire
<1>3. CASE LookupStep /\ UNCHANGED scheduled
  <2>1. UNCHANGED <<node, incarnation, quarantined, identities, results, scheduled>>
    BY <1>3 DEF LookupStep, Found, NotAvailable, LookAgain, NotReady, Forward, Lost, Ignore,
       Receive, SendIdentifyRequest, calculator, wire
  <2>2. identifies' \in {identifies, More(identifies)} /\ operations' \in {operations, More(operations)}
    BY <1>3 DEF LookupStep, Found, NotAvailable, LookAgain, NotReady, Forward, Lost, Ignore,
       Receive, SendIdentifyRequest, calculator, wire
  <2> QED
    BY <2>1, <2>2, InFlightBound DEF OutsideTypes
<1>4. CASE TimerFires /\ UNCHANGED scheduled
  BY <1>4 DEF OutsideTypes, TimerFires, calculator, wire
<1>5. CASE Calculator /\ UNCHANGED scheduled
  <2>1. CASE NodeStarts
    BY <1>5, <2>1 DEF OutsideTypes, NodeStarts, wire
  <2>2. CASE ActorStarts
    BY <1>5, <2>2 DEF OutsideTypes, ActorStarts, wire, Ref, Incarnation, NoRef
  <2>3. CASE NodeCrashes
    BY <1>5, <2>3 DEF OutsideTypes, NodeCrashes, InFlight
  <2>4. CASE AnswerIdentify
    <3> DEFINE r == IF node = "up" THEN incarnation ELSE NoRef
    <3>1. r \in Ref
      BY DEF OutsideTypes, Ref
    <3>2. identities' = [identities EXCEPT ![r] = More(identities[r])]
      BY <2>4 DEF AnswerIdentify
    <3>3. UNCHANGED <<node, incarnation, quarantined, operations, results, scheduled>>
          /\ identifies > 0 /\ identifies' = identifies - 1
      BY <1>5, <2>4 DEF AnswerIdentify, calculator
    <3> HIDE DEF r
    <3>4. identities' \in [Ref -> InFlight]
      BY <3>1, <3>2, InFlightBound DEF OutsideTypes
    <3> QED
      BY <3>3, <3>4, InFlightBound DEF OutsideTypes
  <2>5. CASE Calculate
    BY <1>5, <2>5, InFlightBound DEF OutsideTypes, Calculate, calculator
  <2> QED
    BY <1>5, <2>1, <2>2, <2>3, <2>4, <2>5 DEF Calculator
<1>6. ASSUME NEW r \in Ref, DeliverIdentity(r), UNCHANGED scheduled PROVE OutsideTypes'
  BY <1>6, InFlightBound DEF OutsideTypes, DeliverIdentity, calculator
<1>7. ASSUME NEW i \in Incarnation, DeathWatch(i), UNCHANGED scheduled PROVE OutsideTypes'
  BY <1>7 DEF OutsideTypes, DeathWatch, wire
<1>8. CASE DeliverResult /\ UNCHANGED scheduled
  BY <1>8, InFlightBound DEF OutsideTypes, DeliverResult, calculator
<1>9. CASE Lose /\ UNCHANGED scheduled
  BY <1>9, InFlightBound DEF OutsideTypes, Lose, calculator
<1> QED
  BY <1>1, <1>2, <1>3, <1>4, <1>5, <1>6, <1>7, <1>8, <1>9 DEF Next, Other, Network

\* The search, the node and the wire keep their types.
THEOREM TypeCorrect == Spec => []TypeOK
<1>1. Init => OutsideTypes
  BY LookupAssumption DEF Init, OutsideTypes, InFlight, Ref
<1>2. IInv /\ OutsideTypes => TypeOK
  BY DEF IInv, Types, OutsideTypes, TypeOK
<1>3. IInv /\ OutsideTypes /\ [Next]_vars => OutsideTypes'
  BY OutsideTypesStep
<1> QED
  BY <1>1, <1>2, <1>3, Inductive, PTL DEF Spec
=============================================================================
