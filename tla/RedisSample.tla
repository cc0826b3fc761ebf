----------------------------- MODULE RedisSample ----------------------------
(***************************************************************************)
(* The Redis sample of finagle-redis-sample: the program stores a value    *)
(* and reads it back, starts a loop that polls a list and one that pushes  *)
(* to it, both over one pipelined connection, and waits for the join of    *)
(* the two.  A loop goes on until one of its requests fails; the           *)
(* connection may break, which fails every request on it, those that Redis *)
(* has carried out too.                                                    *)
(***************************************************************************)
EXTENDS Naturals, Sequences, FiniteSets, SequencesExt

CONSTANTS MaxPush,   \* pushes of the program (bound)
          MaxOther,  \* pushes of other clients (bound)
          MaxBreaks  \* of the connection (bound)

RedisAssumption == MaxPush \in Nat /\ MaxOther \in Nat /\ MaxBreaks \in Nat

VARIABLES
  main,     \* "set", "get", then "sampled", "waiting" and "ended"
  sample,   \* what the first sample printed: "nothing", "value", "none" or "error"
  listener, \* the loops: "new", "asked", "pausing" or "failed"
  pusher,
  line,     \* requests on the connection: sent, and carried out but not answered
  answers,
  key,      \* key:1 has the value
  queue,    \* queue:1 at Redis: values are numbered as they are pushed
  pushed,   \* values pushed to it, by anyone
  ours,     \* rPush requests sent
  others,   \* pushes of other clients
  printed,  \* values the listener printed
  breaks

vars == <<main, sample, listener, pusher, line, answers, key, queue, pushed, ours, others,
          printed, breaks>>
redis == <<key, queue, pushed>>
loops == <<listener, pusher, ours, printed>>

None == 0
R(who, what, v) == [who |-> who, what |-> what, v |-> v]
Request == {R("main", "set", None), R("main", "get", None),
            R("listener", "lPop", None), R("pusher", "rPush", None)}
Loop == {"new", "asked", "pausing", "failed"}

TypeOK ==
  /\ main \in {"set", "get", "sampled", "waiting", "ended"}
  /\ sample \in {"nothing", "value", "none", "error"}
  /\ listener \in Loop /\ pusher \in Loop
  /\ line \in Seq(Request) /\ Len(line) + Len(answers) <= 2
  /\ key \in BOOLEAN
  /\ pushed \in 0 .. MaxPush + MaxOther /\ ours \in 0 .. MaxPush
  /\ others \in 0 .. MaxOther /\ breaks \in 0 .. MaxBreaks
  /\ queue \in Seq(1 .. pushed) /\ printed \in Seq(1 .. pushed)

Init ==
  /\ main = "set" /\ sample = "nothing"
  /\ listener = "new" /\ pusher = "new"
  /\ line = <<R("main", "set", None)>> /\ answers = <<>>
  /\ key = FALSE /\ queue = <<>> /\ pushed = 0
  /\ ours = 0 /\ others = 0 /\ printed = <<>> /\ breaks = 0

Send(r) == line' = Append(line, r)

(* Redis carries out the requests of the connection in their order. *)
Answer(v) == line' = Tail(line) /\ answers' = Append(answers, R(Head(line).who, Head(line).what, v))
Serves(what) == line # <<>> /\ Head(line).what = what
Serve ==
  /\ \/ Serves("set") /\ Answer(None) /\ key' = TRUE /\ UNCHANGED <<queue, pushed>>
     \/ Serves("get") /\ Answer(IF key THEN 1 ELSE None) /\ UNCHANGED redis
     \/ /\ Serves("lPop")
        /\ Answer(IF queue = <<>> THEN None ELSE Head(queue))
        /\ queue' = IF queue = <<>> THEN queue ELSE Tail(queue)
        /\ UNCHANGED <<key, pushed>>
     \/ /\ Serves("rPush")
        /\ Answer(None)
        /\ pushed' = pushed + 1 /\ queue' = Append(queue, pushed + 1)
        /\ UNCHANGED key
  /\ UNCHANGED <<main, sample, loops, breaks, others>>

(* "any other Redis client" *)
OtherPush ==
  /\ others < MaxOther /\ others' = others + 1
  /\ pushed' = pushed + 1 /\ queue' = Append(queue, pushed + 1)
  /\ UNCHANGED <<main, sample, loops, line, answers, key, breaks>>

(* The connection breaks: every request on it fails, and with it the future. *)
Failing(who) == \E s \in {line, answers} : \E i \in DOMAIN s : s[i].who = who
Break ==
  /\ breaks < MaxBreaks /\ breaks' = breaks + 1
  /\ line \o answers # <<>>
  /\ line' = <<>> /\ answers' = <<>>
  /\ listener' = IF Failing("listener") THEN "failed" ELSE listener
  /\ pusher' = IF Failing("pusher") THEN "failed" ELSE pusher
  /\ IF Failing("main") THEN sample' = "error" /\ main' = "sampled" ELSE UNCHANGED <<sample, main>>
  /\ UNCHANGED <<redis, ours, printed, others>>

Answered(what) ==
  answers # <<>> /\ Head(answers).what = what /\ answers' = Tail(answers)

(* simpleSet flatMap simpleGet, and Await.ready, which does not mind a failure. *)
SetDone ==
  /\ Answered("set")
  /\ main' = "get" /\ Send(R("main", "get", None))
  /\ UNCHANGED <<sample, loops, redis, breaks, others>>

GetDone ==
  /\ Answered("get")
  /\ sample' = IF Head(answers).v = None THEN "none" ELSE "value"
  /\ main' = "sampled"
  /\ UNCHANGED <<line, loops, redis, breaks, others>>

(* queueListener, then pushSampleDataToQueue, then the join. *)
StartListener ==
  /\ main = "sampled" /\ listener = "new"
  /\ listener' = "asked" /\ Send(R("listener", "lPop", None))
  /\ UNCHANGED <<main, sample, pusher, ours, printed, answers, redis, breaks, others>>

StartPusher ==
  /\ main = "sampled" /\ listener # "new"
  /\ main' = "waiting"
  /\ ours < MaxPush /\ ours' = ours + 1
  /\ pusher' = "asked" /\ Send(R("pusher", "rPush", None))
  /\ UNCHANGED <<sample, listener, printed, answers, redis, breaks, others>>

(* mutant: the loop asks again and does not print *)
PoppedUnprinted ==
  /\ Answered("lPop")
  /\ IF Head(answers).v = None
     THEN listener' = "pausing" /\ UNCHANGED line
     ELSE listener' = "asked" /\ Send(R("listener", "lPop", None))
  /\ UNCHANGED <<main, sample, pusher, ours, printed, redis, breaks, others>>

(* A value is printed and the next asked for; nothing, and the loop pauses. *)
Popped ==
  /\ Answered("lPop")
  /\ IF Head(answers).v = None
     THEN listener' = "pausing" /\ UNCHANGED <<printed, line>>
     ELSE /\ printed' = Append(printed, Head(answers).v)
          /\ listener' = "asked" /\ Send(R("listener", "lPop", None))
  /\ UNCHANGED <<main, sample, pusher, ours, redis, breaks, others>>

PollAgain ==
  /\ listener = "pausing"
  /\ listener' = "asked" /\ Send(R("listener", "lPop", None))
  /\ UNCHANGED <<main, sample, pusher, ours, printed, answers, redis, breaks, others>>

Pushed ==
  /\ Answered("rPush")
  /\ pusher' = "pausing"
  /\ UNCHANGED <<main, sample, listener, ours, printed, line, redis, breaks, others>>

PushAgain ==
  /\ pusher = "pausing"
  /\ ours < MaxPush /\ ours' = ours + 1
  /\ pusher' = "asked" /\ Send(R("pusher", "rPush", None))
  /\ UNCHANGED <<main, sample, listener, printed, answers, redis, breaks, others>>

(* Future.join fails with the first of its futures; Await.ready returns. *)
JoinFails ==
  /\ main = "waiting" /\ "failed" \in {listener, pusher}
  /\ main' = "ended"
  /\ UNCHANGED <<sample, loops, line, answers, redis, breaks, others>>

Answers == SetDone \/ GetDone \/ Popped \/ Pushed
Next ==
  \/ Serve
  \/ OtherPush
  \/ Break
  \/ Answers
  \/ StartListener
  \/ StartPusher
  \/ PollAgain
  \/ PushAgain
  \/ JoinFails

Spec == Init /\ [][Next]_vars

(* Redis answers, the client's threads and its timer run. *)
Fairness ==
  /\ WF_vars(Serve) /\ WF_vars(Answers) /\ WF_vars(StartListener) /\ WF_vars(StartPusher)
  /\ WF_vars(PollAgain) /\ WF_vars(PushAgain) /\ WF_vars(JoinFails)

FairSpec == Spec /\ Fairness
-----------------------------------------------------------------------------
(* Values are printed in the order they were pushed, whoever pushed them.   *)
InOrder ==
  \A i, j \in DOMAIN printed : i < j => printed[i] < printed[j]

(* Without a broken connection every value pushed is printed, on its way to *)
(* the listener, or still in the list: no poll loses one.                   *)
OnTheWay == {answers[i].v : i \in {k \in DOMAIN answers : answers[k].what = "lPop"}} \ {None}
NoneLost == breaks = 0 => 1 .. pushed = ToSet(printed) \cup OnTheWay \cup ToSet(queue)

(* "it will loop until the values are pushed": a value in the list is popped *)
(* some day, unless the listener's own future failed.                       *)
AllPopped ==
  \A v \in 1 .. MaxPush + MaxOther : v \in ToSet(queue) ~> v \notin ToSet(queue) \/ listener = "failed"

(* "the GET command should be attemped once the SET command is complete":   *)
(* it never finds no value.                                                 *)
ReadsItsWrite == sample # "none"
=============================================================================
