------------------------------ MODULE RpcCall -------------------------------
(***************************************************************************)
(* The path of a call in the akka-rpc project (Simples/akka-rpc, and its   *)
(* copy akka-scala-example/src/main/java/yuan/example/akka/rpcj):          *)
(*                                                                         *)
(*   caller thread in RpcBeanProxy.invoke                                  *)
(*     -> mailbox of the one RpcClientActor (an ask, 5 s)                  *)
(*     -> cluster router -> network -> mailbox of an RpcServerActor        *)
(*        (an ask inside the first one, 5 s again)                         *)
(*     -> reply to the inner ask -> reply to the outer ask -> caller.      *)
(*                                                                         *)
(* RpcClientActor blocks on its ask, so it serves one call at a time.  An  *)
(* exception in an actor's onReceive (a timeout, an unknown bean or        *)
(* method, a null result) restarts the actor: the mailbox is kept, the     *)
(* failing message is not processed again and its sender hears nothing.    *)
(*                                                                         *)
(* Time is counted in ticks.  A wait may end as soon as its ticks are used *)
(* up and, as with real timers, any time later.                            *)
(***************************************************************************)
EXTENDS Naturals, Sequences, Functions

CONSTANTS Callers,    \* threads that call methods of the proxies
          Servers,    \* cluster nodes of role RpcServer, one RpcServerActor each
          MaxCalls,   \* calls a thread makes (bound of the model)
          Timeout,    \* the 5 seconds of both asks, in ticks
          NoCall      \* no call

\* A call is named by its thread and its number there.
Call == Callers \X (1 .. MaxCalls)

ASSUME RpcAssumption == /\ MaxCalls \in Nat
                        /\ Timeout \in Nat
                        /\ NoCall \notin Call

VARIABLES
  issued,      \* per caller, how many calls it has made
  outcome,     \* per call, what invoke did: "none" yet, "ok" (returned), "failed" (threw)
  callerLeft,  \* per caller, ticks left of the wait of its current call
  promise,     \* per call, the call whose result was told to its outer ask
  clientBox,   \* mailbox of the RpcClientActor
  current,     \* the call the RpcClientActor is blocked on
  clientLeft,  \* ticks left of the RpcClientActor's wait
  requests,    \* requests on their way to a server
  serverBox,   \* mailbox of the RpcServerActor of each node
  replies,     \* replies on their way back, each addressed to one inner ask
  runs         \* per call, how often the bean method has been invoked

vars == <<issued, outcome, callerLeft, promise, clientBox, current, clientLeft,
          requests, serverBox, replies, runs>>

callerVars == <<issued, outcome, callerLeft>>
clientVars == <<clientBox, current, clientLeft>>

\* A reply: the inner ask it is addressed to and the call whose result it carries.
Reply == [ask : Call, result : Call]

\* The call a caller is in, or was in last.
Latest(c) == <<c, issued[c]>>

Waiting(c) == issued[c] > 0 /\ outcome[Latest(c)] = "none"

TypeOK ==
  /\ issued \in [Callers -> 0 .. MaxCalls]
  /\ outcome \in [Call -> {"none", "ok", "failed"}]
  /\ callerLeft \in [Callers -> 0 .. Timeout]
  /\ promise \in [Call -> Call \cup {NoCall}]
  /\ clientBox \in Seq(Call)
  /\ current \in Call \cup {NoCall}
  /\ clientLeft \in 0 .. Timeout
  /\ requests \in SUBSET (Call \X Servers)
  /\ serverBox \in [Servers -> Seq(Call)]
  /\ replies \in SUBSET Reply
  /\ runs \in [Call -> Nat]

Init ==
  /\ issued = [c \in Callers |-> 0]
  /\ outcome = [k \in Call |-> "none"]
  /\ callerLeft = [c \in Callers |-> 0]
  /\ promise = [k \in Call |-> NoCall]
  /\ clientBox = <<>>
  /\ current = NoCall
  /\ clientLeft = 0
  /\ requests = {}
  /\ serverBox = [s \in Servers |-> <<>>]
  /\ replies = {}
  /\ runs = [k \in Call |-> 0]

-----------------------------------------------------------------------------
(* The caller: RpcBeanProxy.invoke.                                          *)

\* invoke asks the client actor and blocks.
Invoke(c) ==
  /\ ~Waiting(c)
  /\ issued[c] < MaxCalls
  /\ issued' = [issued EXCEPT ![c] = @ + 1]
  /\ clientBox' = Append(clientBox, <<c, issued[c] + 1>>)
  /\ callerLeft' = [callerLeft EXCEPT ![c] = Timeout]
  /\ UNCHANGED <<outcome, promise, current, clientLeft, requests, serverBox, replies, runs>>

\* The outer ask was answered: invoke returns.
Return(c) ==
  /\ Waiting(c)
  /\ promise[Latest(c)] # NoCall
  /\ outcome' = [outcome EXCEPT ![Latest(c)] = "ok"]
  /\ callerLeft' = [callerLeft EXCEPT ![c] = 0]
  /\ UNCHANGED <<issued, promise, clientVars, requests, serverBox, replies, runs>>

\* Mistake: Duration.Inf instead of 5 seconds.
NeverGivesUp(c) == FALSE

\* Await.result, or the ask itself, times out: invoke throws.
GiveUp(c) ==
  /\ Waiting(c)
  /\ callerLeft[c] = 0
  /\ promise[Latest(c)] = NoCall
  /\ outcome' = [outcome EXCEPT ![Latest(c)] = "failed"]
  /\ UNCHANGED <<issued, callerLeft, promise, clientVars, requests, serverBox, replies, runs>>

-----------------------------------------------------------------------------
(* The client actor: RpcClientActor.onReceive, blocking.                     *)

\* Mistake: a wait shorter than the caller's.
ClientTakeImpatient ==
  /\ current = NoCall
  /\ clientBox # <<>>
  /\ current' = Head(clientBox)
  /\ clientBox' = Tail(clientBox)
  /\ clientLeft' = 0
  /\ \/ \E s \in Servers : requests' = requests \cup {<<Head(clientBox), s>>}
     \/ UNCHANGED requests
  /\ UNCHANGED <<callerVars, promise, serverBox, replies, runs>>

\* It takes a call and asks the router, which picks a server or, knowing none,
\* drops the message.  It does not look whether the caller still waits.
ClientTake ==
  /\ current = NoCall
  /\ clientBox # <<>>
  /\ current' = Head(clientBox)
  /\ clientBox' = Tail(clientBox)
  /\ clientLeft' = Timeout
  /\ \/ \E s \in Servers : requests' = requests \cup {<<Head(clientBox), s>>}
     \/ UNCHANGED requests
  /\ UNCHANGED <<callerVars, promise, serverBox, replies, runs>>

\* A reply is told on to the sender: the outer ask takes it while its caller waits.
Forward(r) ==
  promise' = IF outcome[current] = "none" THEN [promise EXCEPT ![current] = r.result]
                                          ELSE promise

\* Mistake: the actor matches replies in its own mailbox, not by the ask.
ClientReplyToAnyAsk ==
  /\ current # NoCall
  /\ \E r \in replies : replies' = replies \ {r} /\ Forward(r)
  /\ current' = NoCall
  /\ clientLeft' = 0
  /\ UNCHANGED <<callerVars, clientBox, requests, serverBox, runs>>

\* The reply to the ask it is blocked on arrives.
ClientReply ==
  /\ \E r \in replies : /\ r.ask = current
                        /\ replies' = replies \ {r}
                        /\ Forward(r)
  /\ current' = NoCall
  /\ clientLeft' = 0
  /\ UNCHANGED <<callerVars, clientBox, requests, serverBox, runs>>

\* Mistakes: preRestart sends the failed message to the actor again; the restart
\* drops the mailbox; the ask has no timeout.
ClientTimeoutRetries ==
  /\ current # NoCall
  /\ clientLeft = 0
  /\ current' = NoCall
  /\ clientBox' = Append(clientBox, current)
  /\ UNCHANGED <<callerVars, promise, clientLeft, requests, serverBox, replies, runs>>

ClientTimeoutDropsMailbox ==
  /\ current # NoCall
  /\ clientLeft = 0
  /\ current' = NoCall
  /\ clientBox' = <<>>
  /\ UNCHANGED <<callerVars, promise, clientLeft, requests, serverBox, replies, runs>>

ClientNeverTimesOut == FALSE

\* The wait times out: the exception leaves onReceive and the actor is restarted.
ClientTimeout ==
  /\ current # NoCall
  /\ clientLeft = 0
  /\ current' = NoCall
  /\ UNCHANGED <<callerVars, promise, clientBox, clientLeft, requests, serverBox, replies, runs>>

-----------------------------------------------------------------------------
(* The server actor: RpcServerActor.onReceive.                               *)

\* Its three ends, each for the call at the head of the mailbox of s:
\* no such bean or method, so an exception before the method is invoked;
Unresolved(s) == UNCHANGED <<replies, runs>>

\* the method throws, or returns null, which an actor may not send;
InvokedInVain(s) == /\ runs' = [runs EXCEPT ![Head(serverBox[s])] = @ + 1]
                    /\ UNCHANGED replies

\* the method returns a value, told to the sender.
Answered(s) == LET k == Head(serverBox[s]) IN
               /\ runs' = [runs EXCEPT ![k] = @ + 1]
               /\ replies' = replies \cup {[ask |-> k, result |-> k]}

Serve(s) ==
  /\ serverBox[s] # <<>>
  /\ serverBox' = [serverBox EXCEPT ![s] = Tail(@)]
  /\ Unresolved(s) \/ InvokedInVain(s) \/ Answered(s)
  /\ UNCHANGED <<callerVars, promise, clientVars, requests>>

-----------------------------------------------------------------------------
(* The surroundings: remoting, crashing nodes, the clock.                    *)

Deliver(m) ==
  /\ m \in requests
  /\ requests' = requests \ {m}
  /\ serverBox' = [serverBox EXCEPT ![m[2]] = Append(@, m[1])]
  /\ UNCHANGED <<callerVars, promise, clientVars, replies, runs>>

LoseRequest ==
  /\ \E m \in requests : requests' = requests \ {m}
  /\ UNCHANGED <<callerVars, promise, clientVars, serverBox, replies, runs>>

\* Lost on the way, or addressed to an ask that timed out and is gone.
LoseReply ==
  /\ \E r \in replies : replies' = replies \ {r}
  /\ UNCHANGED <<callerVars, promise, clientVars, requests, serverBox, runs>>

\* A node crashes and comes back with an empty mailbox.
ServerCrash(s) ==
  /\ serverBox[s] # <<>>
  /\ serverBox' = [serverBox EXCEPT ![s] = <<>>]
  /\ UNCHANGED <<callerVars, promise, clientVars, requests, replies, runs>>

Elapse(left) == IF left > 0 THEN left - 1 ELSE 0

Tick ==
  /\ clientLeft > 0 \/ \E c \in Callers : callerLeft[c] > 0
  /\ clientLeft' = Elapse(clientLeft)
  /\ callerLeft' = [c \in Callers |-> Elapse(callerLeft[c])]
  /\ UNCHANGED <<issued, outcome, promise, clientBox, current, requests, serverBox, replies, runs>>

-----------------------------------------------------------------------------
CallerStep == \E c \in Callers : Invoke(c) \/ Return(c) \/ GiveUp(c)
ClientStep == ClientTake \/ ClientReply \/ ClientTimeout
ServerStep == \E s \in Servers : Serve(s) \/ ServerCrash(s)
NetworkStep == (\E m \in requests : Deliver(m)) \/ LoseRequest \/ LoseReply

Next == CallerStep \/ ClientStep \/ ServerStep \/ NetworkStep \/ Tick

Spec == Init /\ [][Next]_vars

\* Time passes, a thread whose wait is over runs on, and the dispatcher runs the
\* client actor while it has something to do.  No message need ever arrive.
Fairness == /\ WF_vars(Tick)
            /\ \A c \in Callers : WF_vars(Return(c) \/ GiveUp(c))
            /\ WF_vars(ClientStep)

FairSpec == Spec /\ Fairness

-----------------------------------------------------------------------------
(* Properties.                                                               *)

\* No bean method is invoked twice for one call of a proxy: nothing on the path
\* (timeouts, restarts of either actor, late and lost messages) sends it again.
AtMostOnce == \A k \in Call : runs[k] <= 1

\* What invoke returns is the result of its own call, and of a call that did run:
\* a reply that comes after its ask timed out never answers a later call.
RightAnswer == \A k \in Call :
  /\ promise[k] # NoCall => promise[k] = k /\ runs[k] = 1
  /\ outcome[k] = "ok" => promise[k] = k

\* The client actor never gives up before the caller it works for: the two asks
\* have the same timeout and the inner one starts later, so while a caller still
\* waits for the call being served its own wait is the shorter one.
OuterEndsFirst == \A c \in Callers :
  current = Latest(c) /\ Waiting(c) => callerLeft[c] <= clientLeft

\* A caller is behind the blocked client actor only while a call is being served
\* or is queued: a waiting caller's call is where the client actor will find it,
\* is being served, was answered, or its time is up.
NotForgotten == \A c \in Callers :
  Waiting(c) => \/ Latest(c) \in Range(clientBox)
                \/ Latest(c) = current
                \/ promise[Latest(c)] # NoCall
                \/ callerLeft[c] = 0

\* invoke always comes back, whatever is lost and whichever server is down.
EveryCallEnds == \A c \in Callers : Waiting(c) ~> ~Waiting(c)

\* Calls whose callers gave up do not clog the client actor for ever.
ClientDrains == <>[](clientBox = <<>> /\ current = NoCall)

\* The call path does what RpcService says.
Service == INSTANCE RpcService WITH
  status <- [k \in Call |-> IF k[2] > issued[k[1]] THEN "new"
                            ELSE IF outcome[k] = "none" THEN "pending"
                            ELSE outcome[k]],
  runs <- {k \in Call : runs[k] > 0}

ImplementsService == Service!Spec
=============================================================================
