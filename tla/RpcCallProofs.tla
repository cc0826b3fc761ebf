--------------------------- MODULE RpcCallProofs ----------------------------
(***************************************************************************)
(* For any number of callers, servers and calls and any timeout: the path  *)
(* of a call keeps its safety properties and implements RpcService.        *)
(***************************************************************************)
EXTENDS RpcCall, TLAPS

-----------------------------------------------------------------------------
(* Mailboxes as sets: what Append and Tail do to their ranges.               *)

\* A message put at the end of a mailbox is added to what the mailbox holds, and a new one
\* leaves a mailbox without duplicates without duplicates.
LEMMA AppendRange ==
  ASSUME NEW S, NEW q \in Seq(S), NEW e \in S
  PROVE  /\ Append(q, e) \in Seq(S)
         /\ Range(Append(q, e)) = Range(q) \cup {e}
         /\ IsInjective(q) /\ e \notin Range(q) => IsInjective(Append(q, e))
<1> DEFINE r == Append(q, e)
<1>1. /\ r \in Seq(S)
      /\ Len(r) = Len(q) + 1
      /\ DOMAIN r = 1 .. (Len(q) + 1)
      /\ DOMAIN q = 1 .. Len(q)
      /\ \A i \in 1 .. Len(q) : r[i] = q[i]
      /\ r[Len(q) + 1] = e
      /\ Len(q) \in Nat
  OBVIOUS
<1> HIDE DEF r
<1>2. Range(r) = Range(q) \cup {e}
  BY <1>1 DEF Range
<1>3. ASSUME IsInjective(q), e \notin Range(q) PROVE IsInjective(r)
  BY <1>1, <1>3 DEF Range, IsInjective
<1>4. QED BY <1>1, <1>2, <1>3 DEF r

\* Taking the head off a mailbox leaves the rest, and the head is gone if there were no
\* duplicates.
LEMMA TailRange ==
  ASSUME NEW S, NEW q \in Seq(S), q # <<>>
  PROVE  /\ Head(q) \in Range(q)
         /\ Head(q) \in S
         /\ Tail(q) \in Seq(S)
         /\ Range(Tail(q)) \subseteq Range(q)
         /\ Range(q) = Range(Tail(q)) \cup {Head(q)}
         /\ IsInjective(q) => IsInjective(Tail(q)) /\ Head(q) \notin Range(Tail(q))
<1> DEFINE r == Tail(q)  h == Head(q)
<1>1. /\ r \in Seq(S)
      /\ Len(q) \in Nat \ {0}
      /\ DOMAIN q = 1 .. Len(q)
      /\ DOMAIN r = 1 .. (Len(q) - 1)
      /\ \A i \in 1 .. (Len(q) - 1) : r[i] = q[i + 1]
      /\ h = q[1]
  OBVIOUS
<1>2. h \in S OBVIOUS
<1> HIDE DEF r, h
<1>3. h \in Range(q) BY <1>1 DEF Range
<1>4. Range(r) \subseteq Range(q)
  BY <1>1 DEF Range
<1>5. Range(q) \subseteq Range(r) \cup {h}
  <2> SUFFICES ASSUME NEW i \in 1 .. Len(q), i # 1 PROVE q[i] \in Range(r)
    BY <1>1 DEF Range
  <2>1. i - 1 \in 1 .. (Len(q) - 1) /\ r[i - 1] = q[i] BY <1>1
  <2>2. QED BY <2>1, <1>1 DEF Range
<1>6. ASSUME IsInjective(q) PROVE IsInjective(r) /\ h \notin Range(r)
  <2>1. ASSUME NEW i \in 1 .. (Len(q) - 1), NEW j \in 1 .. (Len(q) - 1), r[i] = r[j]
        PROVE  i = j
    <3>1. i + 1 \in 1 .. Len(q) /\ j + 1 \in 1 .. Len(q) /\ q[i + 1] = q[j + 1]
      BY <1>1, <2>1
    <3>2. i + 1 = j + 1 BY <3>1, <1>1, <1>6 DEF IsInjective
    <3>3. QED BY <3>2
  <2>2. ASSUME NEW i \in 1 .. (Len(q) - 1) PROVE r[i] # h
    <3>1. i + 1 \in 1 .. Len(q) /\ 1 \in 1 .. Len(q) /\ i + 1 # 1 BY <1>1
    <3>2. q[i + 1] # q[1] BY <3>1, <1>1, <1>6 DEF IsInjective
    <3>3. QED BY <3>2, <1>1
  <2>3. QED BY <2>1, <2>2, <1>1 DEF Range, IsInjective
<1>7. QED BY <1>1, <1>2, <1>3, <1>4, <1>5, <1>6 DEF r, h

\* What a mailbox holds is of the type of its messages.
LEMMA RangeInSet == ASSUME NEW S, NEW q \in Seq(S) PROVE Range(q) \subseteq S
<1>1. \A i \in DOMAIN q : q[i] \in S OBVIOUS
<1>2. QED BY <1>1 DEF Range

\* An empty mailbox holds nothing.
LEMMA EmptyRange == Range(<<>>) = {} /\ IsInjective(<<>>)
  BY DEF Range, IsInjective

-----------------------------------------------------------------------------
(* The inductive invariant: a call that was made and has not run yet is in   *)
(* one place only (queued at the client, on its way to one server, or queued *)
(* at one server), once; nothing is known of a call that was not made.       *)

NotMade(k) == k[2] > issued[k[1]]

Unmade == \A k \in Call : NotMade(k) =>
  /\ k \notin Range(clientBox)
  /\ k # current
  /\ \A s \in Servers : <<k, s>> \notin requests /\ k \notin Range(serverBox[s])
  /\ runs[k] = 0
  /\ outcome[k] = "none"

Queued == /\ IsInjective(clientBox)
          /\ \A k \in Range(clientBox) :
               /\ k # current
               /\ \A s \in Servers : <<k, s>> \notin requests /\ k \notin Range(serverBox[s])
               /\ runs[k] = 0

OnTheWay == \A k \in Call, s \in Servers : <<k, s>> \in requests =>
  /\ runs[k] = 0
  /\ \A z \in Servers : k \notin Range(serverBox[z])
  /\ \A z \in Servers : <<k, z>> \in requests => z = s

AtServer == \A s \in Servers :
  /\ IsInjective(serverBox[s])
  /\ \A k \in Range(serverBox[s]) :
       /\ runs[k] = 0
       /\ \A z \in Servers : k \in Range(serverBox[z]) => z = s

Replied == \A r \in replies : r.ask = r.result /\ runs[r.ask] = 1

IInv == /\ TypeOK
        /\ Unmade
        /\ Queued
        /\ OnTheWay
        /\ AtServer
        /\ Replied
        /\ AtMostOnce
        /\ RightAnswer
        /\ OuterEndsFirst
        /\ NotForgotten

\* What is true of the types of calls, used everywhere.
LEMMA CallFacts ==
  /\ NoCall \notin Call
  /\ \A k \in Call : k[1] \in Callers /\ k[2] \in 1 .. MaxCalls /\ k = <<k[1], k[2]>>
  /\ \A c \in Callers, n \in 1 .. MaxCalls : <<c, n>> \in Call
  /\ MaxCalls \in Nat /\ Timeout \in Nat
  BY RpcAssumption DEF Call

\* The call a caller waits for is one it has made.
LEMMA LatestFacts ==
  ASSUME TypeOK, NEW c \in Callers, Waiting(c)
  PROVE  /\ Latest(c) \in Call
         /\ ~NotMade(Latest(c))
  BY CallFacts DEF TypeOK, Waiting, Latest, NotMade

\* Nothing queued at the client is NoCall.
LEMMA QueuedCalls == ASSUME TypeOK PROVE Range(clientBox) \subseteq Call
  BY RangeInSet DEF TypeOK

\* The invariant holds at the start: no call is made, nothing is queued.
LEMMA InitIInv == Init => IInv
<1> SUFFICES ASSUME Init PROVE IInv OBVIOUS
<1> USE RpcAssumption, CallFacts, EmptyRange DEF Init
<1>1. TypeOK BY DEF TypeOK
<1>2. Unmade BY DEF Unmade
<1>3. Queued BY DEF Queued
<1>4. OnTheWay /\ AtServer /\ Replied BY DEF OnTheWay, AtServer, Replied
<1>5. AtMostOnce /\ RightAnswer BY DEF AtMostOnce, RightAnswer
<1>6. OuterEndsFirst /\ NotForgotten BY DEF OuterEndsFirst, NotForgotten, Waiting
<1>7. QED BY <1>1, <1>2, <1>3, <1>4, <1>5, <1>6 DEF IInv

-----------------------------------------------------------------------------
(* The caller's steps.                                                       *)

\* A new call enters the mailbox of the client actor, once.
LEMMA InvokeIInv == ASSUME IInv, NEW c \in Callers, Invoke(c) PROVE IInv'
<1> DEFINE k == <<c, issued[c] + 1>>
<1>1. /\ issued \in [Callers -> 0 .. MaxCalls]
      /\ issued[c] + 1 \in 1 .. MaxCalls
      /\ issued' = [issued EXCEPT ![c] = issued[c] + 1]
      /\ clientBox' = Append(clientBox, k)
      /\ k[1] = c /\ k[2] = issued[c] + 1
  BY CallFacts DEF IInv, TypeOK, Invoke
<1>a. k \in Call
  BY <1>1, CallFacts
<1>b. NotMade(k)
  BY <1>1 DEF NotMade
<1>2. /\ clientBox' \in Seq(Call)
      /\ Range(clientBox') = Range(clientBox) \cup {k}
      /\ k \notin Range(clientBox) => IsInjective(clientBox')
  <2>1. clientBox \in Seq(Call) /\ IsInjective(clientBox) BY DEF IInv, TypeOK, Queued
  <2> HIDE DEF k
  <2>2. QED BY <2>1, <1>1, <1>a, AppendRange
<1>3. k \notin Range(clientBox) /\ k # current /\ runs[k] = 0 /\ outcome[k] = "none"
  BY <1>a, <1>b DEF IInv, Unmade
<1>4. \A s \in Servers : <<k, s>> \notin requests /\ k \notin Range(serverBox[s])
  BY <1>a, <1>b DEF IInv, Unmade
<1>5. \A m \in Call : NotMade(m)' => NotMade(m) /\ m # k
  BY <1>1, CallFacts DEF NotMade
<1>6. UNCHANGED <<outcome, promise, current, clientLeft, requests, serverBox, replies, runs>>
      /\ callerLeft' = [callerLeft EXCEPT ![c] = Timeout]
  BY DEF Invoke
<1> HIDE DEF k
<1>7. TypeOK'
  <2>1. issued' \in [Callers -> 0 .. MaxCalls] BY <1>1, CallFacts
  <2>2. callerLeft' \in [Callers -> 0 .. Timeout] BY <1>6, CallFacts DEF IInv, TypeOK
  <2>3. QED BY <1>2, <1>6, <2>1, <2>2 DEF IInv, TypeOK
<1>8. Unmade'
  BY <1>2, <1>5, <1>6 DEF IInv, Unmade
<1>9. Queued'
  BY <1>2, <1>3, <1>4, <1>6 DEF IInv, Queued
<1>10. OnTheWay' /\ AtServer' /\ Replied' /\ AtMostOnce' /\ RightAnswer'
  BY <1>6 DEF IInv, OnTheWay, AtServer, Replied, AtMostOnce, RightAnswer
<1>11. Latest(c)' = k /\ Waiting(c)'
  BY <1>1, <1>3, <1>6 DEF Latest, Waiting, k
<1>12. \A d \in Callers : d # c =>
         Latest(d)' = Latest(d) /\ Waiting(d)' = Waiting(d) /\ callerLeft'[d] = callerLeft[d]
  BY <1>1, <1>6 DEF Latest, Waiting, IInv, TypeOK
<1>13. OuterEndsFirst'
  BY <1>3, <1>6, <1>11, <1>12 DEF IInv, OuterEndsFirst
<1>14. NotForgotten'
  BY <1>2, <1>6, <1>11, <1>12 DEF IInv, NotForgotten
<1>15. QED
  BY <1>7, <1>8, <1>9, <1>10, <1>13, <1>14 DEF IInv

\* Return and GiveUp end the wait of c and change nothing else.
LEMMA EndOfWaitIInv ==
  ASSUME IInv, NEW c \in Callers, Return(c) \/ GiveUp(c)
  PROVE  IInv'
<1> DEFINE k == Latest(c)
<1>1. k \in Call /\ ~NotMade(k) /\ Waiting(c)
  BY LatestFacts DEF IInv, Return, GiveUp
<1>2. UNCHANGED <<issued, promise, clientBox, current, clientLeft, requests, serverBox,
                  replies, runs>>
  BY DEF Return, GiveUp, clientVars
<1> HIDE DEF k
<1>3. /\ outcome' \in [Call -> {"none", "ok", "failed"}]
      /\ outcome'[k] # "none"
      /\ outcome'[k] = "ok" => promise[k] # NoCall
      /\ \A m \in Call : m # k => outcome'[m] = outcome[m]
  BY <1>1 DEF IInv, TypeOK, Return, GiveUp, k
<1>4. \/ callerLeft' = [callerLeft EXCEPT ![c] = 0]
      \/ callerLeft' = callerLeft
  BY DEF Return, GiveUp
<1>5. TypeOK'
  <2>1. callerLeft \in [Callers -> 0 .. Timeout] /\ 0 \in 0 .. Timeout
    BY CallFacts DEF IInv, TypeOK
  <2>2. callerLeft' \in [Callers -> 0 .. Timeout] BY <2>1, <1>4
  <2>3. QED BY <2>2, <1>2, <1>3 DEF IInv, TypeOK
<1>6. Unmade' /\ Queued' /\ OnTheWay' /\ AtServer' /\ Replied' /\ AtMostOnce'
  BY <1>1, <1>2, <1>3
     DEF IInv, TypeOK, Unmade, NotMade, Queued, OnTheWay, AtServer, Replied, AtMostOnce
<1>7. RightAnswer'
  BY <1>1, <1>2, <1>3 DEF IInv, TypeOK, RightAnswer
<1>8. \A d \in Callers : /\ Latest(d)' = Latest(d)
                         /\ Waiting(d)' => Waiting(d) /\ d # c
                         /\ d # c => callerLeft'[d] = callerLeft[d]
  <2> SUFFICES ASSUME NEW d \in Callers
               PROVE /\ Latest(d)' = Latest(d)
                     /\ Waiting(d)' => Waiting(d) /\ d # c
                     /\ d # c => callerLeft'[d] = callerLeft[d]
    OBVIOUS
  <2>1. Latest(d)' = Latest(d) BY <1>2 DEF Latest
  <2>2. d # c => callerLeft'[d] = callerLeft[d] BY <1>4 DEF IInv, TypeOK
  <2>3. ASSUME Waiting(d)' PROVE Waiting(d) /\ d # c
    <3>1. issued[d] > 0 /\ outcome'[Latest(d)] = "none"
      BY <1>2, <2>1, <2>3 DEF Waiting
    <3>2. Latest(d) \in Call
      BY <3>1, CallFacts DEF Latest, IInv, TypeOK
    <3>3. Latest(d) # k
      BY <3>1, <1>1, <1>3 DEF IInv, TypeOK
    <3>4. QED BY <3>1, <3>2, <3>3, <1>3 DEF IInv, TypeOK, Waiting, k
  <2>4. QED BY <2>1, <2>2, <2>3
<1>9. OuterEndsFirst' /\ NotForgotten'
  BY <1>2, <1>8 DEF IInv, OuterEndsFirst, NotForgotten
<1>10. QED BY <1>5, <1>6, <1>7, <1>9 DEF IInv

-----------------------------------------------------------------------------
(* The client actor's steps.                                                 *)

\* While the callers stand still, what the timing properties see of them does too.
LEMMA CallersStill ==
  ASSUME UNCHANGED <<issued, outcome>>, NEW c \in Callers
  PROVE  Latest(c)' = Latest(c) /\ Waiting(c)' = Waiting(c)
  BY DEF Latest, Waiting

\* The client actor takes a call with a full wait, at least as long as its caller's, and
\* sends its one request.
LEMMA ClientTakeIInv == ASSUME IInv, ClientTake PROVE IInv'
<1> DEFINE k == Head(clientBox)
<1>1. /\ k \in Range(clientBox) /\ k \in Call
      /\ clientBox' \in Seq(Call)
      /\ Range(clientBox) = Range(clientBox') \cup {k}
      /\ IsInjective(clientBox') /\ k \notin Range(clientBox')
  <2>1. clientBox \in Seq(Call) /\ clientBox # <<>> /\ IsInjective(clientBox)
    BY DEF IInv, TypeOK, Queued, ClientTake
  <2>2. clientBox' = Tail(clientBox) BY DEF ClientTake
  <2>3. QED BY <2>1, <2>2, TailRange
<1>2. /\ current = NoCall /\ current' = k /\ clientLeft' = Timeout
      /\ UNCHANGED <<issued, outcome, callerLeft, promise, serverBox, replies, runs>>
      /\ \/ \E s \in Servers : requests' = requests \cup {<<k, s>>}
         \/ requests' = requests
  BY DEF ClientTake, callerVars
<1> HIDE DEF k
<1>3. ~NotMade(k) /\ runs[k] = 0
      /\ \A s \in Servers : <<k, s>> \notin requests /\ k \notin Range(serverBox[s])
  BY <1>1 DEF IInv, Unmade, Queued
<1>4. \A m \in Call, s \in Servers : <<m, s>> \in requests' =>
        \/ <<m, s>> \in requests
        \/ m = k /\ requests' = requests \cup {<<k, s>>}
  BY <1>2
<1>5. TypeOK'
  BY <1>1, <1>2, CallFacts DEF IInv, TypeOK
<1>6. Unmade'
  BY <1>1, <1>2, <1>3, <1>4 DEF IInv, Unmade, NotMade
<1>7. Queued'
  BY <1>1, <1>2, <1>4 DEF IInv, Queued, TypeOK
<1>8. OnTheWay'
  <2> SUFFICES ASSUME NEW m \in Call, NEW s \in Servers, <<m, s>> \in requests'
               PROVE  /\ runs[m] = 0
                      /\ \A z \in Servers : m \notin Range(serverBox[z])
                      /\ \A z \in Servers : <<m, z>> \in requests' => z = s
    BY <1>2 DEF OnTheWay
  <2>1. CASE m = k
    BY <2>1, <1>2, <1>3
  <2>2. CASE m # k
    <3>1. \A z \in Servers : <<m, z>> \in requests' => <<m, z>> \in requests
      BY <2>2, <1>4
    <3>2. QED BY <3>1 DEF IInv, OnTheWay
  <2>3. QED BY <2>1, <2>2
<1>9. AtServer' /\ Replied' /\ AtMostOnce' /\ RightAnswer'
  BY <1>2 DEF IInv, AtServer, Replied, AtMostOnce, RightAnswer
<1>10. OuterEndsFirst'
  BY <1>2, CallersStill, CallFacts DEF IInv, TypeOK, OuterEndsFirst
<1>11. NotForgotten'
  <2>1. ASSUME NEW c \in Callers, Waiting(c)
        PROVE  Latest(c) \in Call
    BY <2>1, LatestFacts DEF IInv
  <2>2. QED BY <2>1, <1>1, <1>2, CallersStill, CallFacts DEF IInv, NotForgotten
<1>12. QED BY <1>5, <1>6, <1>7, <1>8, <1>9, <1>10, <1>11 DEF IInv

\* The reply that ends the inner ask is that of the call in service, which has run.
LEMMA ClientReplyIInv == ASSUME IInv, ClientReply PROVE IInv'
<1>1. PICK r \in replies : /\ r.ask = current
                           /\ replies' = replies \ {r}
                           /\ Forward(r)
  BY DEF ClientReply
<1>2. /\ current' = NoCall /\ clientLeft' = 0
      /\ UNCHANGED <<issued, outcome, callerLeft, clientBox, requests, serverBox, runs>>
  BY DEF ClientReply, callerVars
<1>3. r.ask = current /\ r.result = current /\ current \in Call /\ runs[current] = 1
  BY <1>1 DEF IInv, TypeOK, Reply, Replied
<1>4. /\ promise' \in [Call -> Call \cup {NoCall}]
      /\ \A k \in Call : k # current => promise'[k] = promise[k]
      /\ promise'[current] \in {current, promise[current]}
      /\ outcome[current] = "none" => promise'[current] = current
  BY <1>1, <1>3 DEF IInv, TypeOK, Forward
<1>5. TypeOK'
  <2>1. replies' \subseteq replies /\ current' \in Call \cup {NoCall} /\ clientLeft' \in 0 .. Timeout
    BY <1>1, <1>2, CallFacts
  <2>2. QED BY <1>2, <1>4, <2>1 DEF IInv, TypeOK
<1>6. Unmade' /\ Queued'
  BY <1>2, CallFacts, QueuedCalls DEF IInv, Unmade, NotMade, Queued
<1>a. OnTheWay' /\ AtServer' /\ Replied' /\ AtMostOnce'
  BY <1>1, <1>2 DEF IInv, OnTheWay, AtServer, Replied, AtMostOnce
<1>7. RightAnswer'
  BY <1>2, <1>3, <1>4 DEF IInv, RightAnswer
<1>8. OuterEndsFirst'
  BY <1>2, CallersStill, LatestFacts, CallFacts DEF IInv, OuterEndsFirst
<1>9. NotForgotten'
  <2> SUFFICES ASSUME NEW c \in Callers, Waiting(c)
               PROVE  \/ Latest(c) \in Range(clientBox)
                      \/ promise'[Latest(c)] # NoCall
                      \/ callerLeft[c] = 0
    BY <1>2, CallersStill DEF NotForgotten
  <2>1. Latest(c) \in Call /\ outcome[Latest(c)] = "none"
    BY LatestFacts DEF IInv, Waiting
  <2>2. CASE Latest(c) = current
    BY <2>1, <2>2, <1>3, <1>4, CallFacts
  <2>3. CASE Latest(c) # current
    BY <2>1, <2>3, <1>4 DEF IInv, NotForgotten
  <2>4. QED BY <2>2, <2>3
<1>10. QED BY <1>5, <1>6, <1>a, <1>7, <1>8, <1>9 DEF IInv

\* Here OuterEndsFirst is what saves NotForgotten: the caller's time is up as well.
LEMMA ClientTimeoutIInv == ASSUME IInv, ClientTimeout PROVE IInv'
<1>1. /\ current' = NoCall /\ clientLeft = 0 /\ current \in Call
      /\ UNCHANGED <<issued, outcome, callerLeft, promise, clientBox, clientLeft, requests,
                     serverBox, replies, runs>>
  BY DEF ClientTimeout, callerVars, IInv, TypeOK
<1>a. TypeOK'
  BY <1>1 DEF IInv, TypeOK
<1>b. Unmade' /\ Queued'
  BY <1>1, CallFacts, QueuedCalls DEF IInv, Unmade, NotMade, Queued
<1>2. OnTheWay' /\ AtServer' /\ Replied' /\ AtMostOnce' /\ RightAnswer'
  BY <1>1 DEF IInv, OnTheWay, AtServer, Replied, AtMostOnce, RightAnswer
<1>3. OuterEndsFirst'
  BY <1>1, CallersStill, LatestFacts, CallFacts DEF IInv, OuterEndsFirst
<1>4. NotForgotten'
  <2> SUFFICES ASSUME NEW c \in Callers, Waiting(c), Latest(c) = current
               PROVE  callerLeft[c] = 0
    BY <1>1, CallersStill DEF IInv, NotForgotten
  <2>1. callerLeft[c] <= 0 /\ callerLeft[c] \in 0 .. Timeout
    BY <1>1 DEF IInv, OuterEndsFirst, TypeOK
  <2>2. QED BY <2>1, CallFacts
<1>5. QED BY <1>a, <1>b, <1>2, <1>3, <1>4 DEF IInv

-----------------------------------------------------------------------------
(* The server's and the network's steps leave callers and client alone.      *)

\* What happens at the servers and on the network leaves callers and client actor alone.
LEMMA FarSide ==
  ASSUME IInv, UNCHANGED <<callerVars, promise, clientVars>>
  PROVE  OuterEndsFirst' /\ NotForgotten'
<1>1. UNCHANGED <<issued, outcome, callerLeft, promise, clientBox, current, clientLeft>>
  BY DEF callerVars, clientVars
<1>2. QED BY <1>1, CallersStill DEF IInv, OuterEndsFirst, NotForgotten

\* A server runs a method only for a call at the head of its mailbox, which is there once.
LEMMA ServeIInv == ASSUME IInv, NEW s \in Servers, Serve(s) PROVE IInv'
<1> DEFINE k == Head(serverBox[s])
<1>1. /\ k \in Range(serverBox[s]) /\ k \in Call
      /\ Tail(serverBox[s]) \in Seq(Call)
      /\ Range(serverBox[s]) = Range(Tail(serverBox[s])) \cup {k}
      /\ IsInjective(Tail(serverBox[s])) /\ k \notin Range(Tail(serverBox[s]))
  <2>1. serverBox[s] \in Seq(Call) /\ serverBox[s] # <<>> /\ IsInjective(serverBox[s])
    BY DEF IInv, TypeOK, AtServer, Serve
  <2>2. QED BY <2>1, TailRange
<1>2. /\ UNCHANGED <<issued, outcome, callerLeft, promise, clientBox, current, clientLeft,
                     requests>>
      /\ serverBox' = [serverBox EXCEPT ![s] = Tail(serverBox[s])]
      /\ runs' = [runs EXCEPT ![k] = runs[k] + 1] \/ runs' = runs
      /\ \/ replies' = replies
         \/ /\ replies' = replies \cup {[ask |-> k, result |-> k]}
            /\ runs' = [runs EXCEPT ![k] = runs[k] + 1]
  BY DEF Serve, Unresolved, InvokedInVain, Answered, callerVars, clientVars
<1> HIDE DEF k
<1>3. /\ runs[k] = 0 /\ ~NotMade(k) /\ k \notin Range(clientBox)
      /\ \A z \in Servers : <<k, z>> \notin requests /\ (k \in Range(serverBox[z]) => z = s)
  BY <1>1 DEF IInv, Unmade, Queued, OnTheWay, AtServer
<1>4. /\ runs' \in [Call -> Nat]
      /\ runs'[k] \in {0, 1}
      /\ \A m \in Call : m # k => runs'[m] = runs[m]
  <2>1. runs \in [Call -> Nat] /\ k \in Call /\ runs[k] = 0
    BY <1>1, <1>3 DEF IInv, TypeOK
  <2>2. CASE runs' = [runs EXCEPT ![k] = runs[k] + 1]
    BY <2>1, <2>2
  <2>3. CASE runs' = runs
    BY <2>1, <2>3
  <2>4. QED BY <1>2, <2>2, <2>3
<1>5. /\ serverBox' \in [Servers -> Seq(Call)]
      /\ \A z \in Servers : /\ Range(serverBox'[z]) = Range(serverBox[z]) \ {k}
                            /\ IsInjective(serverBox'[z])
  BY <1>1, <1>2, <1>3 DEF IInv, TypeOK, AtServer
<1>6. TypeOK'
  BY <1>1, <1>2, <1>4, <1>5 DEF IInv, TypeOK, Reply
<1>7. Unmade'
  BY <1>2, <1>3, <1>4, <1>5 DEF IInv, Unmade, NotMade
<1>8. Queued'
  BY <1>2, <1>3, <1>4, <1>5, QueuedCalls DEF IInv, Queued
<1>9. OnTheWay'
  BY <1>2, <1>3, <1>4, <1>5 DEF IInv, OnTheWay
<1>10. AtServer'
  <2> SUFFICES ASSUME NEW z \in Servers
               PROVE  /\ IsInjective(serverBox'[z])
                      /\ \A m \in Range(serverBox'[z]) :
                           /\ runs'[m] = 0
                           /\ \A y \in Servers : m \in Range(serverBox'[y]) => y = z
    BY DEF AtServer
  <2>1. Range(serverBox[z]) \subseteq Call BY RangeInSet DEF IInv, TypeOK
  <2>2. ASSUME NEW m \in Range(serverBox'[z])
        PROVE  runs'[m] = 0 /\ \A y \in Servers : m \in Range(serverBox'[y]) => y = z
    <3>1. m \in Range(serverBox[z]) /\ m # k /\ m \in Call
      BY <2>1, <1>5
    <3>2. runs[m] = 0 /\ \A y \in Servers : m \in Range(serverBox[y]) => y = z
      BY <3>1 DEF IInv, AtServer
    <3>3. runs'[m] = 0
      BY <3>1, <3>2, <1>4
    <3>4. QED BY <3>2, <3>3, <1>5
  <2>3. QED BY <2>2, <1>5
<1>11. Replied'
  BY <1>1, <1>2, <1>3, <1>4 DEF IInv, TypeOK, Reply, Replied
<1>a. \A n \in {0, 1} : n <= 1 OBVIOUS
<1>b. AtMostOnce'
  BY <1>4, <1>a DEF IInv, AtMostOnce
<1>12. RightAnswer'
  BY <1>2, <1>3, <1>4 DEF IInv, RightAnswer
<1>13. OuterEndsFirst' /\ NotForgotten'
  BY FarSide DEF Serve
<1>14. QED
  BY <1>6, <1>7, <1>8, <1>9, <1>10, <1>11, <1>b, <1>12, <1>13 DEF IInv

\* A crash only takes calls away.
LEMMA ServerCrashIInv == ASSUME IInv, NEW s \in Servers, ServerCrash(s) PROVE IInv'
<1>1. /\ UNCHANGED <<issued, outcome, callerLeft, promise, clientBox, current, clientLeft,
                     requests, replies, runs>>
      /\ serverBox' = [serverBox EXCEPT ![s] = <<>>]
  BY DEF ServerCrash, callerVars, clientVars
<1>2. <<>> \in Seq(Call) OBVIOUS
<1>3. TypeOK'
  BY <1>1, <1>2 DEF IInv, TypeOK
<1>4. \A z \in Servers : /\ Range(serverBox'[z]) \subseteq Range(serverBox[z])
                         /\ IsInjective(serverBox'[z])
  BY <1>1, EmptyRange DEF IInv, TypeOK, AtServer
<1>5. Unmade' /\ Queued'
  BY <1>1, <1>4 DEF IInv, Unmade, NotMade, Queued
<1>6. OnTheWay' /\ AtServer'
  BY <1>1, <1>4 DEF IInv, OnTheWay, AtServer
<1>7. Replied' /\ AtMostOnce' /\ RightAnswer'
  BY <1>1 DEF IInv, Replied, AtMostOnce, RightAnswer
<1>8. OuterEndsFirst' /\ NotForgotten'
  BY FarSide DEF ServerCrash
<1>9. QED BY <1>3, <1>5, <1>6, <1>7, <1>8 DEF IInv

\* A delivered request moves from the network to one mailbox.
LEMMA DeliverIInv == ASSUME IInv, NEW m \in requests, Deliver(m) PROVE IInv'
<1>1. PICK k \in Call, s \in Servers : m = <<k, s>>
  BY DEF IInv, TypeOK
<1>2. /\ UNCHANGED <<issued, outcome, callerLeft, promise, clientBox, current, clientLeft,
                     replies, runs>>
      /\ requests' = requests \ {<<k, s>>}
      /\ serverBox' = [serverBox EXCEPT ![s] = Append(serverBox[s], k)]
  BY <1>1 DEF Deliver, callerVars, clientVars
<1>3. /\ <<k, s>> \in requests /\ runs[k] = 0 /\ ~NotMade(k) /\ k \notin Range(clientBox)
      /\ \A z \in Servers : /\ k \notin Range(serverBox[z])
                            /\ <<k, z>> \in requests => z = s
  BY <1>1 DEF IInv, Unmade, Queued, OnTheWay
<1>4. /\ Append(serverBox[s], k) \in Seq(Call)
      /\ Range(Append(serverBox[s], k)) = Range(serverBox[s]) \cup {k}
      /\ IsInjective(Append(serverBox[s], k))
  BY <1>3, AppendRange DEF IInv, TypeOK, AtServer
<1>5. /\ serverBox' \in [Servers -> Seq(Call)]
      /\ \A z \in Servers :
           /\ IsInjective(serverBox'[z])
           /\ Range(serverBox'[z]) = IF z = s THEN Range(serverBox[z]) \cup {k}
                                              ELSE Range(serverBox[z])
  BY <1>2, <1>4 DEF IInv, TypeOK, AtServer
<1>6. TypeOK'
  BY <1>2, <1>5 DEF IInv, TypeOK
<1>7. Unmade' /\ Queued'
  <2>1. Unmade'
    BY <1>2, <1>3, <1>5 DEF IInv, Unmade, NotMade
  <2>2. Queued'
    BY <1>2, <1>3, <1>5 DEF IInv, Queued
  <2>3. QED BY <2>1, <2>2
<1>a. \A z \in Servers : \A x \in Range(serverBox'[z]) :
        x \in Range(serverBox[z]) \/ (x = k /\ z = s)
  BY <1>5
<1>8. OnTheWay'
  <2> SUFFICES ASSUME NEW x \in Call, NEW z \in Servers, <<x, z>> \in requests'
               PROVE  /\ runs[x] = 0
                      /\ \A y \in Servers : x \notin Range(serverBox'[y])
                      /\ \A y \in Servers : <<x, y>> \in requests' => y = z
    BY <1>2 DEF OnTheWay
  <2>1. <<x, z>> \in requests /\ <<x, z>> # <<k, s>> BY <1>2
  <2>2. x # k BY <2>1, <1>3
  <2>3. QED BY <2>1, <2>2, <1>2, <1>a DEF IInv, OnTheWay
<1>9. AtServer'
  <2> SUFFICES ASSUME NEW z \in Servers, NEW x \in Range(serverBox'[z])
               PROVE  /\ runs[x] = 0
                      /\ \A y \in Servers : x \in Range(serverBox'[y]) => y = z
    BY <1>2, <1>5 DEF AtServer
  <2>1. CASE x = k
    BY <2>1, <1>3, <1>a
  <2>2. CASE x # k
    BY <2>2, <1>a DEF IInv, AtServer
  <2>3. QED BY <2>1, <2>2
<1>10. Replied' /\ AtMostOnce' /\ RightAnswer'
  BY <1>2 DEF IInv, Replied, AtMostOnce, RightAnswer
<1>11. OuterEndsFirst' /\ NotForgotten'
  BY FarSide DEF Deliver
<1>12. QED BY <1>6, <1>7, <1>8, <1>9, <1>10, <1>11 DEF IInv

\* Losing a request or a reply only takes it away.
LEMMA LossIInv == ASSUME IInv, LoseRequest \/ LoseReply PROVE IInv'
<1>1. /\ UNCHANGED <<issued, outcome, callerLeft, promise, clientBox, current, clientLeft,
                     serverBox, runs>>
      /\ requests' \subseteq requests
      /\ replies' \subseteq replies
  BY DEF LoseRequest, LoseReply, callerVars, clientVars
<1>2. TypeOK' BY <1>1 DEF IInv, TypeOK
<1>3. Unmade' /\ Queued' BY <1>1 DEF IInv, Unmade, NotMade, Queued
<1>4. OnTheWay' /\ AtServer' BY <1>1 DEF IInv, OnTheWay, AtServer
<1>5. Replied' /\ AtMostOnce' /\ RightAnswer'
  BY <1>1 DEF IInv, Replied, AtMostOnce, RightAnswer
<1>6. OuterEndsFirst' /\ NotForgotten' BY FarSide DEF LoseRequest, LoseReply
<1>7. QED BY <1>2, <1>3, <1>4, <1>5, <1>6 DEF IInv

-----------------------------------------------------------------------------
(* The clock: both waits lose the same tick, so their order stays.           *)

\* A tick shortens both waits alike, so the caller's stays the shorter one.
LEMMA TickIInv == ASSUME IInv, Tick PROVE IInv'
<1>1. /\ UNCHANGED <<issued, outcome, promise, clientBox, current, requests, serverBox,
                     replies, runs>>
      /\ clientLeft' = Elapse(clientLeft)
      /\ callerLeft' = [c \in Callers |-> Elapse(callerLeft[c])]
  BY DEF Tick
<1>2. \A n \in 0 .. Timeout : Elapse(n) \in 0 .. Timeout /\ Elapse(n) <= n
  BY CallFacts DEF Elapse
<1>3. \A a, b \in 0 .. Timeout : a <= b => Elapse(a) <= Elapse(b)
  BY CallFacts DEF Elapse
<1>4. TypeOK'
  BY <1>1, <1>2 DEF IInv, TypeOK
<1>5. Unmade' /\ Queued' BY <1>1 DEF IInv, Unmade, NotMade, Queued
<1>6. OnTheWay' /\ AtServer' BY <1>1 DEF IInv, OnTheWay, AtServer
<1>7. Replied' /\ AtMostOnce' /\ RightAnswer'
  BY <1>1 DEF IInv, Replied, AtMostOnce, RightAnswer
<1>8. OuterEndsFirst'
  BY <1>1, <1>3, CallersStill DEF IInv, TypeOK, OuterEndsFirst
<1>9. NotForgotten'
  BY <1>1, CallersStill, CallFacts DEF IInv, TypeOK, NotForgotten, Elapse
<1>10. QED BY <1>4, <1>5, <1>6, <1>7, <1>8, <1>9 DEF IInv

-----------------------------------------------------------------------------
\* Every step of the call path keeps the invariant.
LEMMA NextIInv == IInv /\ [Next]_vars => IInv'
<1> SUFFICES ASSUME IInv, [Next]_vars PROVE IInv' OBVIOUS
<1>1. CASE CallerStep
  BY <1>1, InvokeIInv, EndOfWaitIInv DEF CallerStep
<1>2. CASE ClientStep
  BY <1>2, ClientTakeIInv, ClientReplyIInv, ClientTimeoutIInv DEF ClientStep
<1>3. CASE ServerStep
  BY <1>3, ServeIInv, ServerCrashIInv DEF ServerStep
<1>4. CASE NetworkStep
  BY <1>4, DeliverIInv, LossIInv DEF NetworkStep
<1>5. CASE Tick
  BY <1>5, TickIInv
<1>6. CASE UNCHANGED vars
  <2>1. TypeOK' /\ Unmade' /\ Queued' /\ OnTheWay' /\ AtServer'
    BY <1>6 DEF vars, IInv, TypeOK, Unmade, NotMade, Queued, OnTheWay, AtServer
  <2>2. Replied' /\ AtMostOnce' /\ RightAnswer'
    BY <1>6 DEF vars, IInv, Replied, AtMostOnce, RightAnswer
  <2>3. OuterEndsFirst' /\ NotForgotten'
    BY <1>6, FarSide DEF vars, callerVars, clientVars
  <2>4. QED BY <2>1, <2>2, <2>3 DEF IInv
<1>7. QED
  BY <1>1, <1>2, <1>3, <1>4, <1>5, <1>6 DEF Next

\* The inductive invariant holds in every state of the call path.
THEOREM Invariance == Spec => []IInv
  BY InitIInv, NextIInv, PTL DEF Spec

\* Every variable keeps its type, and the named safety properties hold.
THEOREM TypeCorrect == Spec => []TypeOK
<1>1. IInv => TypeOK BY DEF IInv
<1>2. QED BY <1>1, Invariance, PTL

\* No bean method runs twice for one call.
THEOREM AtMostOnceHolds == Spec => []AtMostOnce
<1>1. IInv => AtMostOnce BY DEF IInv
<1>2. QED BY <1>1, Invariance, PTL

\* A returned result is that of the very call, which ran.
THEOREM RightAnswerHolds == Spec => []RightAnswer
<1>1. IInv => RightAnswer BY DEF IInv
<1>2. QED BY <1>1, Invariance, PTL

\* The inner ask never ends before the outer one.
THEOREM OuterEndsFirstHolds == Spec => []OuterEndsFirst
<1>1. IInv => OuterEndsFirst BY DEF IInv
<1>2. QED BY <1>1, Invariance, PTL

\* The call of a waiting caller is queued, in service or answered until its time is up.
THEOREM NotForgottenHolds == Spec => []NotForgotten
<1>1. IInv => NotForgotten BY DEF IInv
<1>2. QED BY <1>1, Invariance, PTL

-----------------------------------------------------------------------------
(* The call path implements RpcService.                                      *)

\* How RpcCall's state is read as RpcService's.
AbsStatus == [k \in Call |-> IF k[2] > issued[k[1]] THEN "new"
                             ELSE IF outcome[k] = "none" THEN "pending"
                             ELSE outcome[k]]
AbsRuns == {k \in Call : runs[k] > 0}

\* At the start no call of RpcService is made and none has run.
LEMMA ServiceInit == Init => Service!Init
<1> SUFFICES ASSUME Init PROVE AbsStatus = [k \in Call |-> "new"] /\ AbsRuns = {}
  BY DEF Service!Init, AbsStatus, AbsRuns
<1>1. \A k \in Call : k[2] > issued[k[1]]
  BY CallFacts DEF Init
<1>2. QED BY <1>1 DEF Init, AbsStatus, AbsRuns

\* A step that changes neither what was made, nor how it ended, nor what ran.
LEMMA ServiceStutter ==
  ASSUME UNCHANGED <<issued, outcome, runs>>
  PROVE  AbsStatus' = AbsStatus /\ AbsRuns' = AbsRuns
  BY DEF AbsStatus, AbsRuns

\* Invoke submits.
LEMMA ServiceInvoke ==
  ASSUME IInv, NEW c \in Callers, Invoke(c)
  PROVE  \E k \in Call : Service!Submit(k)
<1> DEFINE k == <<c, issued[c] + 1>>
<1>1. /\ issued \in [Callers -> 0 .. MaxCalls]
      /\ issued[c] + 1 \in 1 .. MaxCalls
      /\ issued' = [issued EXCEPT ![c] = issued[c] + 1]
      /\ UNCHANGED <<outcome, runs>>
  BY CallFacts DEF IInv, TypeOK, Invoke
<1>2. k \in Call /\ k[1] = c /\ k[2] = issued[c] + 1
  BY <1>1, CallFacts
<1>3. NotMade(k) /\ outcome[k] = "none"
  BY <1>1, <1>2 DEF NotMade, IInv, Unmade
<1>4. \A m \in Call : m # k => (m[2] > issued'[m[1]] <=> m[2] > issued[m[1]])
  BY <1>1, CallFacts
<1>5. ~(k[2] > issued'[k[1]])
  BY <1>1, <1>2
<1> HIDE DEF k
<1>6. AbsStatus[k] = "new" /\ AbsStatus' = [AbsStatus EXCEPT ![k] = "pending"]
  BY <1>1, <1>2, <1>3, <1>4, <1>5 DEF AbsStatus, NotMade
<1>7. AbsRuns' = AbsRuns
  BY <1>1 DEF AbsRuns
<1>8. Service!Submit(k)
  BY <1>6, <1>7 DEF Service!Submit, AbsStatus, AbsRuns
<1>9. QED BY <1>2, <1>8 DEF Service!Submit

\* Return answers a call that ran, GiveUp fails it.
LEMMA ServiceEnd ==
  ASSUME IInv, NEW c \in Callers, Return(c) \/ GiveUp(c)
  PROVE  \E k \in Call : Service!Answer(k) \/ Service!Fail(k)
<1> DEFINE k == Latest(c)
<1>1. k \in Call /\ ~NotMade(k) /\ outcome[k] = "none"
  BY LatestFacts DEF IInv, Return, GiveUp, Waiting
<1>2. UNCHANGED <<issued, runs>>
  BY DEF Return, GiveUp
<1>3. \/ outcome' = [outcome EXCEPT ![k] = "ok"] /\ promise[k] # NoCall
      \/ outcome' = [outcome EXCEPT ![k] = "failed"]
  BY DEF Return, GiveUp
<1> HIDE DEF k
<1>4. AbsStatus[k] = "pending" /\ AbsRuns' = AbsRuns
  BY <1>1, <1>2 DEF AbsStatus, AbsRuns, NotMade
<1>5. CASE outcome' = [outcome EXCEPT ![k] = "ok"] /\ promise[k] # NoCall
  <2>1. k \in AbsRuns BY <1>1, <1>5 DEF AbsRuns, IInv, RightAnswer
  <2>2. AbsStatus' = [AbsStatus EXCEPT ![k] = "ok"]
    BY <1>1, <1>2, <1>5 DEF AbsStatus, NotMade, IInv, TypeOK
  <2>3. Service!Answer(k)
    BY <1>4, <2>1, <2>2 DEF Service!Answer, AbsStatus, AbsRuns
  <2>4. QED BY <1>1, <2>3 DEF Service!Answer
<1>6. CASE outcome' = [outcome EXCEPT ![k] = "failed"]
  <2>1. AbsStatus' = [AbsStatus EXCEPT ![k] = "failed"]
    BY <1>1, <1>2, <1>6 DEF AbsStatus, NotMade, IInv, TypeOK
  <2>2. Service!Fail(k)
    BY <1>4, <2>1 DEF Service!Fail, AbsStatus, AbsRuns
  <2>3. QED BY <1>1, <2>2 DEF Service!Fail
<1>7. QED BY <1>3, <1>5, <1>6

\* Serve runs a method that has not run for this call, or nothing.
LEMMA ServiceServe ==
  ASSUME IInv, NEW s \in Servers, Serve(s)
  PROVE  (\E k \in Call : Service!Run(k)) \/ UNCHANGED <<AbsStatus, AbsRuns>>
<1> DEFINE k == Head(serverBox[s])
<1>1. k \in Call /\ ~NotMade(k) /\ runs[k] = 0
  <2>1. serverBox[s] \in Seq(Call) /\ serverBox[s] # <<>>
    BY DEF IInv, TypeOK, Serve
  <2>2. k \in Range(serverBox[s]) /\ k \in Call BY <2>1, TailRange
  <2>3. QED BY <2>2 DEF IInv, Unmade, AtServer
<1>2. /\ UNCHANGED <<issued, outcome>>
      /\ runs' = [runs EXCEPT ![k] = runs[k] + 1] \/ runs' = runs
  BY DEF Serve, Unresolved, InvokedInVain, Answered, callerVars
<1> HIDE DEF k
<1>3. CASE runs' = runs
  BY <1>2, <1>3, ServiceStutter
<1>4. CASE runs' = [runs EXCEPT ![k] = runs[k] + 1]
  <2>1. AbsStatus' = AbsStatus BY <1>2 DEF AbsStatus
  <2>2. AbsStatus[k] # "new" BY <1>1 DEF AbsStatus, NotMade, IInv, TypeOK
  <2>3. k \notin AbsRuns BY <1>1 DEF AbsRuns
  <2>4. runs'[k] > 0 /\ \A m \in Call : m # k => runs'[m] = runs[m]
    BY <1>1, <1>4 DEF IInv, TypeOK
  <2>5. AbsRuns' = AbsRuns \cup {k}
    BY <1>1, <2>4 DEF AbsRuns
  <2>6. Service!Run(k)
    BY <2>1, <2>2, <2>3, <2>5 DEF Service!Run, AbsStatus, AbsRuns
  <2>7. QED BY <1>1, <2>6 DEF Service!Run
<1>5. QED BY <1>2, <1>3, <1>4

\* Every step of the call path is a step of RpcService or changes nothing it sees.
LEMMA ServiceNext == IInv /\ [Next]_vars => [Service!Next]_(Service!vars)
<1> SUFFICES ASSUME IInv, [Next]_vars
             PROVE  Service!Next \/ UNCHANGED <<AbsStatus, AbsRuns>>
  BY DEF Service!vars, AbsStatus, AbsRuns
<1>1. CASE CallerStep
  BY <1>1, ServiceInvoke, ServiceEnd DEF CallerStep, Service!Next
<1>2. CASE ServerStep
  <2>1. ASSUME NEW s \in Servers, ServerCrash(s) PROVE UNCHANGED <<issued, outcome, runs>>
    BY <2>1 DEF ServerCrash, callerVars
  <2>2. QED BY <1>2, <2>1, ServiceServe, ServiceStutter DEF ServerStep, Service!Next
<1>3. CASE ClientStep \/ NetworkStep \/ Tick \/ UNCHANGED vars
  <2>1. UNCHANGED <<issued, outcome, runs>>
    BY <1>3 DEF ClientStep, ClientTake, ClientReply, ClientTimeout, NetworkStep, Deliver,
       LoseRequest, LoseReply, Tick, vars, callerVars
  <2>2. QED BY <2>1, ServiceStutter
<1>4. QED BY <1>1, <1>2, <1>3 DEF Next

\* RpcCall implements RpcService: calls end once, an answered call ran, a method runs at
\* most once and only for a call that was made (the liveness of RpcService is TLC's).
THEOREM ImplementsServiceSafely == Spec => Service!SafeSpec
<1>1. Init => Service!Init BY ServiceInit
<1>2. IInv /\ [Next]_vars => [Service!Next]_(Service!vars) BY ServiceNext
<1>3. QED BY <1>1, <1>2, Invariance, PTL DEF Spec, Service!SafeSpec
=============================================================================
