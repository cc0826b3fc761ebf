------------------------------ MODULE RpcClient -----------------------------
(***************************************************************************)
(* How threads get the one AkkaRpcClient of a JVM (Simples/akka-rpc):      *)
(* AkkaRpcClientFactory.getClient, the static AkkaRpcClient.getInstance    *)
(* and the constructor, which starts an actor system on port 2552.         *)
(*                                                                         *)
(* AkkaRpcClient extends Thread.  The constructor starts that thread,      *)
(* whose run() is empty; the JVM does notifyAll on a Thread object when    *)
(* its thread ends.  getInstance then waits, with no condition, on the     *)
(* same object until the member-up callback of the cluster notifies it.    *)
(*                                                                         *)
(* The client that thread t constructs is named t.  A block synchronized   *)
(* on a client is one step: another thread inside a block of the same      *)
(* monitor could only delay it.                                            *)
(***************************************************************************)
CONSTANTS Threads,    \* threads that call getClient, once each
          None        \* null

ASSUME NoneAssumption == None \notin Threads

VARIABLES
  pc,          \* where each thread is
  result,      \* what getInstance or getClient returned to a thread
  factory,     \* AkkaRpcClientFactory.instance
  instance,    \* AkkaRpcClient.instance
  port,        \* the client whose actor system is bound to port 2552
  alive,       \* the clients whose own thread runs
  waitSet,     \* <<t, o>>: t waits on the monitor of client o
  callback     \* per client, its member-up callback: "none", "registered", "npe", "notified"

vars == <<pc, result, factory, instance, port, alive, waitSet, callback>>

MaybeClient == Threads \cup {None}

PC == {"getClient", "getInstance", "constructor", "createSystem", "register", "assign",
       "wait", "waiting", "setFactory", "done", "failed"}

TypeOK ==
  /\ pc \in [Threads -> PC]
  /\ result \in [Threads -> MaybeClient]
  /\ factory \in MaybeClient
  /\ instance \in MaybeClient
  /\ port \in MaybeClient
  /\ alive \in SUBSET Threads
  /\ waitSet \in SUBSET (Threads \X Threads)
  /\ callback \in [Threads -> {"none", "registered", "npe", "notified"}]

Init ==
  /\ pc = [t \in Threads |-> "getClient"]
  /\ result = [t \in Threads |-> None]
  /\ factory = None
  /\ instance = None
  /\ port = None
  /\ alive = {}
  /\ waitSet = {}
  /\ callback = [t \in Threads |-> "none"]

Goto(t, from, to) == pc[t] = from /\ pc' = [pc EXCEPT ![t] = to]

-----------------------------------------------------------------------------
(* AkkaRpcClientFactory.getClient.                                           *)

GetClient(t) ==
  /\ IF factory = None
     THEN Goto(t, "getClient", "getInstance") /\ UNCHANGED result
     ELSE Goto(t, "getClient", "done") /\ result' = [result EXCEPT ![t] = factory]
  /\ UNCHANGED <<factory, instance, port, alive, waitSet, callback>>

\* instance = AkkaRpcClient.getInstance(); return instance
SetFactory(t) ==
  /\ Goto(t, "setFactory", "done")
  /\ factory' = result[t]
  /\ UNCHANGED <<result, instance, port, alive, waitSet, callback>>

-----------------------------------------------------------------------------
(* AkkaRpcClient.getInstance and the constructor.                            *)

GetInstance(t) ==
  /\ IF instance = None
     THEN Goto(t, "getInstance", "constructor") /\ UNCHANGED result
     ELSE Goto(t, "getInstance", "setFactory") /\ result' = [result EXCEPT ![t] = instance]
  /\ UNCHANGED <<factory, instance, port, alive, waitSet, callback>>

\* this.start()
StartThread(t) ==
  /\ Goto(t, "constructor", "createSystem")
  /\ alive' = alive \cup {t}
  /\ UNCHANGED <<result, factory, instance, port, waitSet, callback>>

\* Mistake: port 0 of application.conf is left in force, so any number of systems start.
CreateSystemOnAnyPort(t) ==
  /\ Goto(t, "createSystem", "register")
  /\ port' = t
  /\ UNCHANGED <<result, factory, instance, alive, waitSet, callback>>

\* The actor system binds port 2552, with the router and the client actor in it;
\* if it cannot (another client, or another process, has the port) it throws.
CreateSystem(t) ==
  /\ \/ port = None /\ Goto(t, "createSystem", "register") /\ port' = t
     \/ Goto(t, "createSystem", "failed") /\ UNCHANGED port
  /\ UNCHANGED <<result, factory, instance, alive, waitSet, callback>>

Register(t) ==
  /\ Goto(t, "register", "assign")
  /\ callback' = [callback EXCEPT ![t] = "registered"]
  /\ UNCHANGED <<result, factory, instance, port, alive, waitSet>>

\* instance = new AkkaRpcClient()
Assign(t) ==
  /\ Goto(t, "assign", "wait")
  /\ instance' = t
  /\ UNCHANGED <<result, factory, port, alive, waitSet, callback>>

\* synchronized (instance) { instance.wait() }
Wait(t) ==
  /\ Goto(t, "wait", "waiting")
  /\ waitSet' = waitSet \cup {<<t, instance>>}
  /\ UNCHANGED <<result, factory, instance, port, alive, callback>>

\* No longer in the wait set: return instance.
Woken(t) ==
  /\ \A o \in Threads : <<t, o>> \notin waitSet
  /\ Goto(t, "waiting", "setFactory")
  /\ result' = [result EXCEPT ![t] = instance]
  /\ UNCHANGED <<factory, instance, port, alive, waitSet, callback>>

-----------------------------------------------------------------------------
(* What the cluster and the JVM do.                                          *)

WaitersOn(o) == {w \in waitSet : w[2] = o}

\* Mistake: the callback synchronizes on and notifies itself, the Runnable.
MemberUpNotifiesItself(o) ==
  /\ callback[o] = "registered"
  /\ callback' = [callback EXCEPT ![o] = "notified"]
  /\ UNCHANGED <<pc, result, factory, instance, port, alive, waitSet>>

\* The member of o is Up and its callback runs, once.  With instance still null it
\* ends in a NullPointerException, which the cluster only logs; otherwise it wakes
\* one thread that waits on the instance, if one does.
MemberUp(o) ==
  /\ callback[o] = "registered"
  /\ IF instance = None
     THEN callback' = [callback EXCEPT ![o] = "npe"] /\ UNCHANGED waitSet
     ELSE /\ callback' = [callback EXCEPT ![o] = "notified"]
          /\ IF WaitersOn(instance) = {}
             THEN UNCHANGED waitSet
             ELSE \E w \in WaitersOn(instance) : waitSet' = waitSet \ {w}
  /\ UNCHANGED <<pc, result, factory, instance, port, alive>>

\* run() is over: the JVM ends the thread of o and notifies all that wait on o.
ThreadExit(o) ==
  /\ o \in alive
  /\ alive' = alive \ {o}
  /\ waitSet' = waitSet \ WaitersOn(o)
  /\ UNCHANGED <<pc, result, factory, instance, port, callback>>

\* Java lets a wait end for no reason.
SpuriousWakeup ==
  /\ \E w \in waitSet : waitSet' = waitSet \ {w}
  /\ UNCHANGED <<pc, result, factory, instance, port, alive, callback>>

-----------------------------------------------------------------------------
ThreadStep(t) == \/ GetClient(t) \/ SetFactory(t) \/ GetInstance(t)
                 \/ StartThread(t) \/ CreateSystem(t) \/ Register(t) \/ Assign(t)
                 \/ Wait(t) \/ Woken(t)

Next == \/ \E t \in Threads : ThreadStep(t) \/ MemberUp(t) \/ ThreadExit(t)
        \/ SpuriousWakeup

Spec == Init /\ [][Next]_vars

\* Threads run, the empty run() ends, and a registered member does become Up.
FairSpec == Spec /\ \A t \in Threads : /\ WF_vars(ThreadStep(t))
                                       /\ WF_vars(MemberUp(t))
                                       /\ WF_vars(ThreadExit(t))

-----------------------------------------------------------------------------
(* Properties.                                                               *)

\* Although getInstance is an unsynchronized check-then-act, every thread that gets a
\* client gets the same one, and it is the one whose actor system runs: a second
\* construction always fails on the bound port before it can overwrite the instance.
SameClient == \A t \in Threads :
  pc[t] \in {"setFactory", "done"} => result[t] # None /\ result[t] = port

\* The published instance is never replaced, and so neither is the factory's.
PublishedOnce == [][/\ instance # None => instance' = instance
                    /\ factory # None => factory' = factory]_vars

\* notify, which wakes one thread, is enough: only the thread that built the client
\* ever waits on it, and it waits on that very client.
NotifySuffices == waitSet \subseteq {<<port, port>>}

\* Both together: there is one client, and one notification reaches all that wait.
OneClient == SameClient /\ NotifySuffices

\* A thread that waits while the callback of its client is still to come is woken.
UpWakesWaiter == \A t \in Threads :
  pc[t] = "waiting" /\ callback[t] = "registered" ~> pc[t] = "done"

\* What StringSupportTest asks of the factory: the call of getClient ends.
GetClientEnds == \A t \in Threads : <>(pc[t] \in {"done", "failed"})
=============================================================================
