-------------------------- MODULE RpcClientProofs ---------------------------
(***************************************************************************)
(* For every set of threads: the client singleton is published once, every *)
(* thread that gets a client gets that one, and only its builder waits.    *)
(***************************************************************************)
EXTENDS RpcClient, TLAPS

\* From binding the port on, a thread is the builder of the one client.
Building == {"register", "assign", "wait", "waiting"}

\* What keeps the singleton single is not getInstance but the port: whoever is past
\* createSystem holds it, nothing else is ever assigned, and all that threads carry
\* away was read from the instance after it was assigned.
IInv ==
  /\ TypeOK
  /\ \A t \in Threads : pc[t] \in Building => port = t
  /\ \A t \in Threads : pc[t] \in {"register", "assign"} => instance = None
  /\ \A t \in Threads : pc[t] \in {"wait", "waiting"} => instance = t
  /\ instance # None => instance = port
  /\ factory # None => factory = port
  /\ \A t \in Threads : result[t] # None => result[t] = port
  /\ \A t \in Threads : pc[t] \in {"setFactory", "done"} => result[t] # None
  /\ waitSet \subseteq {<<port, port>>}

\* The invariant holds at the start, when nothing is constructed.
LEMMA InitIInv == Init => IInv
  BY NoneAssumption DEF Init, IInv, TypeOK, PC, MaybeClient, Building

\* Each step of a thread on its way through getClient keeps it.
LEMMA ThreadStepIInv ==
  ASSUME IInv, NEW t \in Threads, ThreadStep(t)
  PROVE  IInv'
<1> USE NoneAssumption DEF IInv, TypeOK, PC, MaybeClient, Building, Goto
<1>1. CASE GetClient(t)     BY <1>1 DEF GetClient
<1>2. CASE SetFactory(t)    BY <1>2 DEF SetFactory
<1>3. CASE GetInstance(t)   BY <1>3 DEF GetInstance
<1>4. CASE StartThread(t)   BY <1>4 DEF StartThread
<1>5. CASE CreateSystem(t)  BY <1>5 DEF CreateSystem
<1>6. CASE Register(t)      BY <1>6 DEF Register
<1>7. CASE Assign(t)        BY <1>7 DEF Assign
<1>8. CASE Wait(t)          BY <1>8 DEF Wait
<1>9. CASE Woken(t)         BY <1>9 DEF Woken
<1>10. QED
  BY <1>1, <1>2, <1>3, <1>4, <1>5, <1>6, <1>7, <1>8, <1>9 DEF ThreadStep

\* The cluster and the JVM only shrink the wait set and move a callback on.
LEMMA SurroundingsIInv ==
  ASSUME IInv,
         SpuriousWakeup \/ \E o \in Threads : MemberUp(o) \/ ThreadExit(o)
  PROVE  IInv'
<1> USE NoneAssumption DEF IInv, TypeOK, PC, MaybeClient, Building
<1>1. CASE SpuriousWakeup   BY <1>1 DEF SpuriousWakeup
<1>2. ASSUME NEW o \in Threads, MemberUp(o) PROVE IInv'
  BY <1>2 DEF MemberUp, WaitersOn
<1>3. ASSUME NEW o \in Threads, ThreadExit(o) PROVE IInv'
  BY <1>3 DEF ThreadExit, WaitersOn
<1>4. QED BY <1>1, <1>2, <1>3

\* So every step keeps it.
LEMMA NextIInv == IInv /\ [Next]_vars => IInv'
<1>1. ASSUME IInv, UNCHANGED vars PROVE IInv'
  BY <1>1 DEF vars, IInv, TypeOK, PC, MaybeClient, Building
<1>2. QED BY <1>1, ThreadStepIInv, SurroundingsIInv DEF Next

\* The inductive invariant is an invariant of getClient under any interleaving.
THEOREM Invariance == Spec => []IInv
  BY InitIInv, NextIInv, PTL DEF Spec

\* Every variable keeps its type, for any set of threads.
THEOREM TypeCorrect == Spec => []TypeOK
<1>1. IInv => TypeOK BY DEF IInv
<1>2. QED BY <1>1, Invariance, PTL

\* All threads get the same client, the one whose actor system has the port.
THEOREM SameClientHolds == Spec => []SameClient
<1>1. IInv => SameClient BY DEF IInv, SameClient
<1>2. QED BY <1>1, Invariance, PTL

\* Only the builder waits, so the callback's notify wakes whoever there is to wake.
THEOREM NotifySufficesHolds == Spec => []NotifySuffices
<1>1. IInv => NotifySuffices BY DEF IInv, NotifySuffices
<1>2. QED BY <1>1, Invariance, PTL

\* So there is one client, and one notification reaches all that wait for it.
THEOREM OneClientHolds == Spec => []OneClient
<1>1. IInv => OneClient BY DEF IInv, OneClient, SameClient, NotifySuffices
<1>2. QED BY <1>1, Invariance, PTL

\* The published client is never replaced, in the class or in the factory.
THEOREM PublishedOnceHolds == Spec => PublishedOnce
<1> DEFINE Kept == /\ instance # None => instance' = instance
                   /\ factory # None => factory' = factory
<1>1. ASSUME IInv, IInv', [Next]_vars PROVE [Kept]_vars
  <2>1. CASE UNCHANGED vars BY <2>1
  <2>2. ASSUME NEW t \in Threads, ThreadStep(t) PROVE Kept
    <3>1. CASE Assign(t)
      BY <3>1, <1>1 DEF Assign, Goto, IInv
    <3>2. CASE SetFactory(t)
      BY <3>2, <1>1 DEF SetFactory, Goto, IInv
    <3>3. QED
      BY <3>1, <3>2, <2>2 DEF ThreadStep, GetClient, GetInstance, StartThread,
         CreateSystem, Register, Wait, Woken
  <2>3. ASSUME SpuriousWakeup \/ \E o \in Threads : MemberUp(o) \/ ThreadExit(o)
        PROVE Kept
    BY <2>3 DEF SpuriousWakeup, MemberUp, ThreadExit
  <2>4. QED BY <1>1, <2>1, <2>2, <2>3 DEF Next
<1>2. QED BY <1>1, Invariance, PTL DEF Spec, PublishedOnce
=============================================================================
