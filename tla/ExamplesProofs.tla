---------------------------- MODULE ExamplesProofs ---------------------------
(***************************************************************************)
(* Theorems about the four example programs of MCExamples, for any number  *)
(* of operations, crashes, values, pushes, broken connections, workers,    *)
(* words, messages and elements.  A behaviour runs one program while the   *)
(* others have ended, so each invariant holds at the start of its program, *)
(* after its end, and is kept by its own steps.                            *)
(***************************************************************************)
EXTENDS MCExamples, FiniteSetTheorems, TLAPS

-----------------------------------------------------------------------------
(* Creation.                                                                 *)

CTypes ==
  /\ scheduled \in 0 .. MaxOps /\ crashes \in Nat
  /\ mailbox \subseteq [kind : {"op", "result", "terminated"}, op : C!Op]
  /\ wire \subseteq [kind : {"op", "create", "result", "stop", "terminated"}, op : C!Op]
  /\ children \subseteq C!Op /\ alive \subseteq C!Op /\ gone \subseteq C!Op

(* Nobody is told that calculator k ended.                                  *)
Untold(k) == C!M("terminated", k) \notin wire \cup mailbox

(* The course of operation k: it has no calculator and no trace of one until *)
(* it is received, none on the worker until its create command arrives, and *)
(* from then on a calculator that runs is a child, of a worker that has not *)
(* crashed, and its end untold; it is only stopped after its result.        *)
Course(k) ==
  /\ k > scheduled \/ C!M("op", k) \in mailbox => k \notin children \cup gone /\ Untold(k)
  /\ k > scheduled => C!M("op", k) \notin mailbox
  /\ C!M("create", k) \in wire => k \in children \ gone /\ k \notin alive /\ Untold(k)
  /\ k \in alive => k \in children \ gone /\ Untold(k)
  /\ C!M("stop", k) \in wire => k \in answered

CInv == CTypes /\ \A k \in C!Op : Course(k)

(* Nothing has been scheduled at the start, so no operation has a trace.    *)
LEMMA CreationStarts == C!Init => CInv
BY ExamplesAssumption DEF C!Init, CInv, CTypes, Course, Untold, C!Op, C!CreationAssumption

(* Once the example has ended, no operation has a trace either.             *)
LEMMA CreationOver == COver => CInv
BY ExamplesAssumption DEF COver, CInv, CTypes, Course, Untold, C!Op, C!CreationAssumption

(* Messages of another kind or for another operation are other messages.    *)
LEMMA Messages ==
  ASSUME NEW a, NEW b, NEW k, NEW l
  PROVE  C!M(a, k) = C!M(b, l) <=> a = b /\ k = l
BY DEF C!M

(* The next operation enters the mailbox without a trace of its own.        *)
LEMMA ScheduleCInv ==
  ASSUME CInv, C!Schedule PROVE CInv'
<1> DEFINE n == scheduled + 1
<1>1. n \in C!Op /\ scheduled' = n /\ n \in 0 .. MaxOps /\ mailbox' = mailbox \cup {C!M("op", n)}
      /\ scheduled \in Nat
  BY ExamplesAssumption DEF CInv, CTypes, C!Schedule, C!Op, C!CreationAssumption
<1>2. UNCHANGED <<children, alive, wire, answered, crashes, gone, lost>>
  BY DEF C!Schedule
<1>3. C!M("op", n) \in [kind : {"op", "result", "terminated"}, op : C!Op]
  BY <1>1 DEF C!M
<1>4. CTypes'
  BY <1>1, <1>2, <1>3 DEF CInv, CTypes
<1> HIDE DEF n
<1>5. ASSUME NEW k \in C!Op PROVE Course(k)'
  <2>1. Course(k) /\ k \in Nat
    BY DEF CInv, C!Op
  <2>2. /\ C!M("op", k) \in mailbox' => C!M("op", k) \in mailbox \/ k = n
        /\ Untold(k)' <=> Untold(k)
    BY <1>1, <1>2, Messages DEF Untold
  <2>3. (k > n => k > scheduled) /\ (k = n => k > scheduled /\ ~(k > n))
    BY <1>1, <2>1 DEF n
  <2> QED
    BY <1>1, <1>2, <2>1, <2>2, <2>3 DEF Course
<1> QED
  BY <1>4, <1>5 DEF CInv

(* A step that is not about operation l, or only brings its result on.      *)
LEMMA OtherCourse ==
  ASSUME NEW l, Course(l), scheduled' = scheduled, gone' = gone, answered \subseteq answered',
         l \in children' <=> l \in children, l \in alive' <=> l \in alive,
         C!M("op", l) \in mailbox' => C!M("op", l) \in mailbox,
         C!M("terminated", l) \in mailbox' \cup wire' => C!M("terminated", l) \in mailbox \cup wire,
         C!M("create", l) \in wire' => C!M("create", l) \in wire,
         C!M("stop", l) \in wire' => C!M("stop", l) \in wire \/ l \in answered'
  PROVE  Course(l)'
BY DEF Course, Untold

(* What an action takes, and what it puts in.                               *)
LEMMA Moves ==
  ASSUME NEW box, NEW m, NEW more, NEW box2, m \in box, box2 = (box \ {m}) \cup more
  PROVE  \A n : n \in box2 <=> (n \in box /\ n # m) \/ n \in more
OBVIOUS

(* A received operation makes a child, and sends its create command.        *)
LEMMA ReceiveOpCInv ==
  ASSUME CInv, NEW k \in C!Op, C!ReceiveOp(k) PROVE CInv'
<1>1. /\ C!M("op", k) \in mailbox /\ mailbox' = mailbox \ {C!M("op", k)}
      /\ children' = children \cup {k}
      /\ wire' = wire \cup {C!M("create", k), C!M("op", k)}
      /\ UNCHANGED <<scheduled, alive, answered, crashes, gone, lost>>
  BY DEF C!ReceiveOp, C!Take
<1>2. CTypes'
  BY <1>1 DEF CInv, CTypes, C!M
<1>3. ASSUME NEW l \in C!Op PROVE Course(l)'
  <2>1. Course(l)
    BY DEF CInv
  <2>2. /\ C!M("op", l) \in mailbox' <=> C!M("op", l) \in mailbox /\ l # k
        /\ C!M("create", l) \in wire' <=> C!M("create", l) \in wire \/ l = k
        /\ C!M("stop", l) \in wire' <=> C!M("stop", l) \in wire
        /\ Untold(l)' <=> Untold(l)
    BY <1>1, Messages DEF Untold
  <2>3. CASE l # k
    BY <1>1, <2>1, <2>2, <2>3 DEF Course
  <2>4. CASE l = k
    <3>1. ~(k > scheduled) /\ k \notin children \cup gone /\ k \notin alive /\ Untold(k)
      BY <1>1, <2>1, <2>4 DEF Course
    <3> QED
      BY <1>1, <2>1, <2>2, <2>4, <3>1 DEF Course
  <2> QED
    BY <2>3, <2>4
<1> QED
  BY <1>2, <1>3 DEF CInv

(* A result is printed in the step that sends its calculator the stop.      *)
LEMMA ReceiveResultCInv ==
  ASSUME CInv, NEW k \in C!Op, C!ReceiveResult(k) PROVE CInv'
<1>1. /\ mailbox' = mailbox \ {C!M("result", k)}
      /\ wire' = wire \cup {C!M("stop", k)} /\ answered' = answered \cup {k}
      /\ UNCHANGED <<scheduled, children, alive, crashes, gone, lost>>
  BY DEF C!ReceiveResult, C!Take
<1>2. CTypes'
  BY <1>1 DEF CInv, CTypes, C!M
<1>3. ASSUME NEW l \in C!Op PROVE Course(l)'
  <2>1. Course(l)
    BY DEF CInv
  <2>2. /\ C!M("create", l) \in wire' <=> C!M("create", l) \in wire
        /\ C!M("stop", l) \in wire' <=> C!M("stop", l) \in wire \/ l = k
        /\ C!M("terminated", l) \in wire' <=> C!M("terminated", l) \in wire
    BY <1>1, Messages
  <2> QED
    BY <1>1, <2>1, <2>2, OtherCourse
<1> QED
  BY <1>2, <1>3 DEF CInv

(* A child that is dropped at the news of its end no longer runs.           *)
LEMMA ReceiveTerminatedCInv ==
  ASSUME CInv, NEW k \in C!Op, C!ReceiveTerminated(k) PROVE CInv'
<1>1. /\ C!M("terminated", k) \in mailbox /\ mailbox' = mailbox \ {C!M("terminated", k)}
      /\ children' = children \ {k}
      /\ UNCHANGED <<scheduled, alive, wire, answered, crashes, gone, lost>>
  BY DEF C!ReceiveTerminated, C!Take
<1>2. CTypes'
  BY <1>1 DEF CInv, CTypes
<1>3. ASSUME NEW l \in C!Op PROVE Course(l)'
  <2>1. Course(l)
    BY DEF CInv
  <2>2. CASE l # k
    BY <1>1, <2>1, <2>2, OtherCourse
  <2>3. CASE l = k
    <3>1. ~Untold(k)
      BY <1>1 DEF Untold
    <3> QED
      BY <1>1, <2>1, <2>3, <3>1 DEF Course
  <2> QED
    BY <2>2, <2>3
<1> QED
  BY <1>2, <1>3 DEF CInv

(* The worker starts a calculator that is a child and whose end is untold.  *)
LEMMA WorkerCreatesCInv ==
  ASSUME CInv, NEW k \in C!Op, C!WorkerCreates(k) PROVE CInv'
<1>1. /\ C!M("create", k) \in wire /\ wire' = (wire \ {C!M("create", k)}) \cup {}
      /\ alive' = alive \cup {k}
      /\ UNCHANGED <<scheduled, mailbox, children, answered, crashes, gone, lost>>
  BY DEF C!WorkerCreates, C!Deliver
<1>2. CTypes'
  BY <1>1 DEF CInv, CTypes
<1>3. ASSUME NEW l \in C!Op PROVE Course(l)'
  <2>1. Course(l)
    BY DEF CInv
  <2>2. CASE l # k
    BY <1>1, <2>1, <2>2, OtherCourse
  <2>3. CASE l = k
    BY <1>1, <2>1, <2>3, Messages DEF Course, Untold
  <2> QED
    BY <2>2, <2>3
<1> QED
  BY <1>2, <1>3 DEF CInv

(* A calculation puts its result on the wire and moves nothing else.        *)
LEMMA CalculatesCInv ==
  ASSUME CInv, NEW k \in C!Op, C!Calculates(k) PROVE CInv'
<1>1. /\ wire' = (wire \ {C!M("op", k)}) \cup (IF k \in alive THEN {C!M("result", k)} ELSE {})
      /\ UNCHANGED <<scheduled, mailbox, children, alive, answered, crashes, gone, lost>>
  BY DEF C!Calculates, C!Deliver
<1>2. CTypes'
  BY <1>1 DEF CInv, CTypes, C!M
<1>3. ASSUME NEW l \in C!Op PROVE Course(l)'
  <2>1. Course(l)
    BY DEF CInv
  <2>2. /\ C!M("create", l) \in wire' => C!M("create", l) \in wire
        /\ C!M("stop", l) \in wire' => C!M("stop", l) \in wire
        /\ C!M("terminated", l) \in wire' => C!M("terminated", l) \in wire
    BY <1>1, Messages
  <2> QED
    BY <1>1, <2>1, <2>2, OtherCourse
<1> QED
  BY <1>2, <1>3 DEF CInv

(* A calculator that is told to stop runs no longer when its end is told.   *)
LEMMA WorkerStopsCInv ==
  ASSUME CInv, NEW k \in C!Op, C!WorkerStops(k) PROVE CInv'
<1>1. /\ wire' = (wire \ {C!M("stop", k)}) \cup (IF k \in alive THEN {C!M("terminated", k)} ELSE {})
      /\ alive' = alive \ {k}
      /\ UNCHANGED <<scheduled, mailbox, children, answered, crashes, gone, lost>>
  BY DEF C!WorkerStops, C!Deliver
<1>2. CTypes'
  BY <1>1 DEF CInv, CTypes, C!M
<1>3. ASSUME NEW l \in C!Op PROVE Course(l)'
  <2>1. Course(l)
    BY DEF CInv
  <2>2. /\ C!M("create", l) \in wire' => C!M("create", l) \in wire
        /\ C!M("stop", l) \in wire' => C!M("stop", l) \in wire
        /\ C!M("terminated", l) \in wire' =>
             C!M("terminated", l) \in wire \/ (l = k /\ k \in alive)
    BY <1>1, Messages
  <2>3. CASE l # k \/ k \notin alive
    BY <1>1, <2>1, <2>2, <2>3, OtherCourse
  <2>4. CASE l = k /\ k \in alive
    <3>1. /\ k \in children \ gone /\ C!M("create", k) \notin wire
          /\ C!M("op", k) \notin mailbox /\ ~(k > scheduled)
      BY <2>1, <2>4 DEF Course
    <3> QED
      BY <1>1, <2>1, <2>2, <2>4, <3>1 DEF Course
  <2> QED
    BY <2>3, <2>4
<1> QED
  BY <1>2, <1>3 DEF CInv

(* A message that arrives moves from the wire to the mailbox.               *)
LEMMA ArrivesCInv ==
  ASSUME CInv, NEW k \in C!Op, NEW kind \in {"result", "terminated"}, C!Arrives(k, kind)
  PROVE  CInv'
<1>1. /\ C!M(kind, k) \in wire /\ wire' = (wire \ {C!M(kind, k)}) \cup {}
      /\ mailbox' = mailbox \cup {C!M(kind, k)}
      /\ UNCHANGED <<scheduled, children, alive, answered, crashes, gone, lost>>
  BY DEF C!Arrives, C!Deliver
<1>2. CTypes'
  BY <1>1 DEF CInv, CTypes, C!M
<1>3. ASSUME NEW l \in C!Op PROVE Course(l)'
  <2>1. Course(l)
    BY DEF CInv
  <2>2. /\ C!M("op", l) \in mailbox' => C!M("op", l) \in mailbox
        /\ C!M("terminated", l) \in mailbox' =>
             C!M("terminated", l) \in mailbox \cup wire
    BY <1>1, Messages
  <2> QED
    BY <1>1, <2>1, <2>2, OtherCourse
<1> QED
  BY <1>2, <1>3 DEF CInv

(* A lost message leaves fewer traces.                                      *)
LEMMA LoseCInv ==
  ASSUME CInv, NEW m \in wire, C!Lose(m) PROVE CInv'
<1>1. /\ wire' = (wire \ {m}) \cup {}
      /\ UNCHANGED <<scheduled, mailbox, children, alive, answered, crashes, gone>>
  BY DEF C!Lose, C!Deliver
<1>2. CTypes'
  BY <1>1 DEF CInv, CTypes
<1>3. ASSUME NEW l \in C!Op PROVE Course(l)'
  BY <1>1, OtherCourse DEF CInv
<1> QED
  BY <1>2, <1>3 DEF CInv

(* A crash leaves no calculator alive, and every child's worker gone.       *)
LEMMA CrashCInv ==
  ASSUME CInv, C!Crash PROVE CInv'
<1>1. /\ alive' = {} /\ wire' = {} /\ gone' = gone \cup children /\ crashes' = crashes + 1
      /\ UNCHANGED <<scheduled, mailbox, children, answered, lost>>
  BY DEF C!Crash
<1> QED
  BY <1>1 DEF CInv, CTypes, Course, Untold

(* The children dropped with the lost address no longer run.                *)
LEMMA AddressTerminatedCInv ==
  ASSUME CInv, C!AddressTerminated PROVE CInv'
<1>1. /\ children' = children \ gone
      /\ UNCHANGED <<scheduled, mailbox, alive, wire, answered, crashes, gone, lost>>
  BY DEF C!AddressTerminated
<1> QED
  BY <1>1 DEF CInv, CTypes, Course, Untold

(* Every step of the example keeps its invariant.                           *)
LEMMA CreationStep ==
  ASSUME CInv, [C!Next]_(C!vars) PROVE CInv'
<1>1. CASE UNCHANGED C!vars
  BY <1>1 DEF C!vars, CInv, CTypes, Course, Untold
<1>2. ASSUME NEW k \in C!Op, C!Works(k) PROVE CInv'
  BY <1>2, ReceiveOpCInv, ReceiveResultCInv, ReceiveTerminatedCInv, WorkerCreatesCInv,
     CalculatesCInv, WorkerStopsCInv, ArrivesCInv DEF C!Works
<1> QED
  BY <1>1, <1>2, ScheduleCInv, LoseCInv, CrashCInv, AddressTerminatedCInv DEF C!Next

(* A calculator that leaves the worker was stopped after its result was     *)
(* printed, or the worker crashed.                                         *)
LEMMA OnlyStopped ==
  ASSUME CInv, [C!Next]_(C!vars), NEW k \in alive, k \notin alive'
  PROVE  k \in answered \/ crashes' > crashes
<1>1. ~UNCHANGED C!vars /\ k \in C!Op
  BY DEF C!vars, CInv, CTypes
<1>2. CASE C!Crash
  BY <1>2 DEF C!Crash, CInv, CTypes
<1>3. ASSUME NEW l \in C!Op, C!Works(l) PROVE k \in answered
  <2>1. C!WorkerStops(l) /\ l = k
    BY <1>3 DEF C!Works, C!ReceiveOp, C!ReceiveResult, C!ReceiveTerminated, C!WorkerCreates,
       C!Calculates, C!WorkerStops, C!Arrives
  <2> QED
    BY <1>1, <2>1 DEF C!WorkerStops, C!Deliver, CInv, Course
<1> QED
  BY <1>1, <1>2, <1>3 DEF C!Next, C!Schedule, C!Lose, C!AddressTerminated

-----------------------------------------------------------------------------
(* RedisSample: what is sent over the connection.                            *)

Whose == [set |-> "main", get |-> "main", lPop |-> "listener", rPush |-> "pusher"]
Command == {"set", "get", "lPop", "rPush"}
Sent == [who : {"main", "listener", "pusher"}, what : Command, v : Nat]

(* A request of one kind waits in s, none twice, each of its own sender.    *)
Has(s, what) == \E i \in DOMAIN s : s[i].what = what
Once(s) ==
  /\ s \in Seq(Sent)
  /\ \A i \in DOMAIN s : s[i].who = Whose[s[i].what]
  /\ \A i, j \in DOMAIN s : s[i].what = s[j].what => i = j

(* An answer in s brings value n to the listener.                           *)
Brings(s, n) == n # 0 /\ \E i \in DOMAIN s : s[i].what = "lPop" /\ s[i].v = n

(* A sequence with one more message: where each message is.                 *)
LEMMA Appended ==
  ASSUME NEW s \in Seq(Sent), NEW r \in Sent
  PROVE  LET t == Append(s, r)
         IN  /\ t \in Seq(Sent) /\ t # <<>> /\ Len(t) = Len(s) + 1
             /\ DOMAIN t = DOMAIN s \cup {Len(s) + 1} /\ Len(s) + 1 \notin DOMAIN s
             /\ t[Len(s) + 1] = r /\ \A i \in DOMAIN s : t[i] = s[i]
OBVIOUS

(* What an appended message of a new kind adds to a line.                   *)
LEMMA HasAppend ==
  ASSUME NEW s, Once(s), NEW r \in Sent, r.who = Whose[r.what], ~Has(s, r.what)
  PROVE  /\ Once(Append(s, r))
         /\ \A x : Has(Append(s, r), x) <=> Has(s, x) \/ x = r.what
         /\ \A n : Brings(Append(s, r), n) <=> Brings(s, n) \/ (n # 0 /\ r.what = "lPop" /\ r.v = n)
<1> DEFINE t == Append(s, r)
           k == Len(s) + 1
<1>1. /\ t \in Seq(Sent) /\ DOMAIN t = DOMAIN s \cup {k} /\ k \notin DOMAIN s
      /\ t[k] = r /\ \A i \in DOMAIN s : t[i] = s[i]
  BY Appended DEF Once
<1> HIDE DEF t, k
<1>2. Once(t)
  BY <1>1 DEF Once, Has
<1>3. \A x : Has(t, x) <=> Has(s, x) \/ x = r.what
  BY <1>1 DEF Has
<1>4. \A n : Brings(t, n) <=> Brings(s, n) \/ (n # 0 /\ r.what = "lPop" /\ r.v = n)
  BY <1>1 DEF Brings
<1> QED
  BY <1>2, <1>3, <1>4 DEF t

(* A sequence without its first message: where each message is.             *)
LEMMA Rest ==
  ASSUME NEW s \in Seq(Sent), s # <<>>
  PROVE  /\ Head(s) = s[1] /\ Head(s) \in Sent /\ 1 \in DOMAIN s
         /\ Tail(s) \in Seq(Sent)
         /\ \A i \in DOMAIN Tail(s) : i + 1 \in DOMAIN s /\ i + 1 # 1 /\ Tail(s)[i] = s[i + 1]
         /\ \A i \in DOMAIN s : i # 1 => i - 1 \in DOMAIN Tail(s) /\ Tail(s)[i - 1] = s[i]
         /\ \A i, j \in DOMAIN Tail(s) : i + 1 = j + 1 => i = j
OBVIOUS

(* What a line is without its first message.                                *)
LEMMA HasTail ==
  ASSUME NEW s, Once(s), s # <<>>
  PROVE  LET h == Head(s)
             t == Tail(s)
         IN  /\ h \in Sent /\ h.who = Whose[h.what] /\ Has(s, h.what)
             /\ h.what = "lPop" /\ h.v # 0 => Brings(s, h.v)
             /\ Once(t)
             /\ \A x : Has(t, x) <=> Has(s, x) /\ x # h.what
             /\ \A n : Brings(t, n) <=> Brings(s, n) /\ h.what # "lPop"
<1> DEFINE t == Tail(s)
<1>1. /\ Head(s) = s[1] /\ Head(s) \in Sent /\ 1 \in DOMAIN s
      /\ t \in Seq(Sent)
      /\ \A i \in DOMAIN t : i + 1 \in DOMAIN s /\ i + 1 # 1 /\ t[i] = s[i + 1]
      /\ \A i \in DOMAIN s : i # 1 => i - 1 \in DOMAIN t /\ t[i - 1] = s[i]
      /\ \A i, j \in DOMAIN t : i + 1 = j + 1 => i = j
  BY Rest DEF Once
<1> HIDE DEF t
<1>2. \A i \in DOMAIN s : s[i].what = s[1].what => i = 1
  BY <1>1 DEF Once
<1>3. Once(t)
  BY <1>1 DEF Once
<1>4. ASSUME NEW x PROVE Has(t, x) <=> Has(s, x) /\ x # s[1].what
  <2>1. ASSUME NEW i \in DOMAIN t, t[i].what = x PROVE Has(s, x) /\ x # s[1].what
    BY <1>1, <1>2, <2>1 DEF Has
  <2>2. ASSUME NEW i \in DOMAIN s, s[i].what = x, x # s[1].what PROVE Has(t, x)
    BY <1>1, <2>2 DEF Has
  <2> QED
    BY <2>1, <2>2 DEF Has
<1>5. ASSUME NEW n PROVE Brings(t, n) <=> Brings(s, n) /\ s[1].what # "lPop"
  <2>1. ASSUME NEW i \in DOMAIN t, t[i].what = "lPop", t[i].v = n
        PROVE  s[1].what # "lPop" /\ s[i + 1].what = "lPop" /\ s[i + 1].v = n /\ i + 1 \in DOMAIN s
    BY <1>1, <1>2, <2>1
  <2>2. ASSUME NEW i \in DOMAIN s, s[i].what = "lPop", s[i].v = n, s[1].what # "lPop"
        PROVE  i - 1 \in DOMAIN t /\ t[i - 1].what = "lPop" /\ t[i - 1].v = n
    BY <1>1, <2>2
  <2> QED
    BY <2>1, <2>2 DEF Brings
<1>6. Has(s, s[1].what) /\ (s[1].what = "lPop" /\ s[1].v # 0 => Brings(s, s[1].v))
      /\ s[1].who = Whose[s[1].what]
  BY <1>1 DEF Has, Brings, Once
<1> QED
  BY <1>1, <1>3, <1>4, <1>5, <1>6 DEF t

-----------------------------------------------------------------------------
(* RedisSample: its invariant.                                               *)

Asked(what) == Has(line, what) \/ Has(answers, what)

(* The connection carries one request of each kind at most, sent or         *)
(* answered, and each is one that the program or a loop waits for.          *)
Pipeline ==
  /\ Once(line) /\ Once(answers) /\ line \in Seq(R!Request)
  /\ \A x \in Command : ~(Has(line, x) /\ Has(answers, x))
  /\ Asked("set") <=> main = "set"
  /\ Asked("get") <=> main = "get"
  /\ Asked("lPop") <=> listener = "asked"
  /\ Asked("rPush") <=> pusher = "asked"

Finds(s) == \A i \in DOMAIN s : s[i].what = "get" => s[i].v # 0

(* The first sample comes before the loops, and its GET after its SET.      *)
Phases ==
  /\ main \in {"set", "get", "sampled", "waiting", "ended"}
  /\ listener \in R!Loop /\ pusher \in R!Loop
  /\ main \in {"set", "get"} => listener = "new"
  /\ main \in {"set", "get", "sampled"} => pusher = "new"
  /\ sample \in {"nothing", "value", "error"} /\ key \in BOOLEAN
  /\ main = "get" \/ Has(answers, "set") => key
  /\ Finds(answers)

Amounts ==
  /\ pushed \in Nat /\ ours \in 0 .. MaxPush /\ others \in 0 .. MaxOther
  /\ breaks \in 0 .. MaxBreaks
  /\ pushed <= ours + others
  /\ Has(line, "rPush") => pushed + 1 <= ours + others

(* The list holds the values pushed last, in their order; of those taken    *)
(* from it the listener has printed some, in their order, the one on its    *)
(* way comes after these, and with no connection broken none is missing.    *)
Taken == pushed - Len(queue)
Kept ==
  /\ queue \in Seq(Nat) /\ printed \in Seq(Nat) /\ Taken \in Nat
  /\ \A i \in DOMAIN queue : queue[i] = Taken + i
  /\ \A p \in DOMAIN printed : printed[p] \in 1 .. Taken
  /\ R!InOrder
  /\ \A n : Brings(answers, n) => n \in 1 .. Taken /\ \A p \in DOMAIN printed : printed[p] < n
  /\ breaks = 0 => \A n \in 1 .. Taken : Brings(answers, n) \/ \E p \in DOMAIN printed : printed[p] = n

RInv == Pipeline /\ Phases /\ Amounts /\ Kept

(* A request of one kind, as R makes it.                                    *)
LEMMA RequestSent ==
  ASSUME NEW x \in Command, NEW v \in Nat
  PROVE  LET r == R!R(Whose[x], x, v)
         IN  /\ r \in Sent /\ r.who = Whose[x] /\ r.what = x /\ r.v = v
             /\ v = 0 => r \in R!Request
BY DEF Command, Whose, R!R, Sent, R!Request, R!None

(* A new request of a kind that is not under way.                           *)
LEMMA SendKeeps ==
  ASSUME Pipeline, NEW x \in Command, ~Asked(x), R!Send(R!R(Whose[x], x, R!None))
  PROVE  /\ Once(line') /\ line' \in Seq(R!Request)
         /\ \A y : Has(line', y) <=> Has(line, y) \/ y = x
<1> DEFINE r == R!R(Whose[x], x, 0)
<1>1. r \in Sent /\ r.who = Whose[x] /\ r.what = x /\ r \in R!Request
  BY RequestSent
<1>2. line' = Append(line, r)
  BY DEF R!Send, R!None
<1> HIDE DEF r
<1>3. Once(line) /\ ~Has(line, x) /\ line \in Seq(R!Request)
  BY DEF Pipeline, Asked
<1>4. line' \in Seq(R!Request)
  BY <1>1, <1>2, <1>3
<1> QED
  BY <1>1, <1>2, <1>3, <1>4, HasAppend

(* The answer that has been handled.                                        *)
LEMMA AnsweredKeeps ==
  ASSUME Pipeline, NEW x \in Command, R!Answered(x)
  PROVE  /\ Once(answers') /\ Head(answers).v \in Nat
         /\ x = "lPop" /\ Head(answers).v # 0 => Brings(answers, Head(answers).v)
         /\ \A y : Has(answers', y) <=> Has(answers, y) /\ y # x
         /\ \A n : Brings(answers', n) <=> Brings(answers, n) /\ x # "lPop"
         /\ Finds(answers) => Finds(answers') /\ (x = "get" => Head(answers).v # 0)
         /\ Has(answers, x) /\ ~Has(line, x) /\ Asked(x)
<1>1. answers # <<>> /\ Head(answers).what = x /\ answers' = Tail(answers) /\ Once(answers)
  BY DEF R!Answered, Pipeline
<1>2. /\ Head(answers) \in Sent /\ Has(answers, x)
      /\ x = "lPop" /\ Head(answers).v # 0 => Brings(answers, Head(answers).v)
      /\ Once(answers')
      /\ \A y : Has(answers', y) <=> Has(answers, y) /\ y # x
      /\ \A n : Brings(answers', n) <=> Brings(answers, n) /\ x # "lPop"
  BY <1>1, HasTail
<1>3. Head(answers).v \in Nat
  BY <1>2 DEF Sent
<1>4. /\ Head(answers) = answers[1] /\ 1 \in DOMAIN answers
      /\ \A i \in DOMAIN answers' : i + 1 \in DOMAIN answers /\ answers'[i] = answers[i + 1]
  BY <1>1, Rest DEF Once
<1>5. Finds(answers) => Finds(answers') /\ (x = "get" => Head(answers).v # 0)
  BY <1>1, <1>4 DEF Finds
<1>6. ~Has(line, x) /\ Asked(x)
  BY <1>2 DEF Pipeline, Asked
<1> QED
  BY <1>2, <1>3, <1>5, <1>6

(* A request that Redis carries out, with answer v.                         *)
LEMMA AnswerKeeps ==
  ASSUME Pipeline, NEW x \in Command, NEW v \in Nat, R!Serves(x), R!Answer(v)
  PROVE  /\ Once(line') /\ Once(answers') /\ line' \in Seq(R!Request)
         /\ \A y : Has(line', y) <=> Has(line, y) /\ y # x
         /\ \A y : Has(answers', y) <=> Has(answers, y) \/ y = x
         /\ \A n : Brings(answers', n) <=> Brings(answers, n) \/ (n # 0 /\ x = "lPop" /\ n = v)
         /\ Finds(answers) /\ (x = "get" => v # 0) => Finds(answers')
         /\ Has(line, x) /\ ~Has(answers, x)
<1> DEFINE r == R!R(Whose[x], x, v)
<1>1. /\ line # <<>> /\ line' = Tail(line) /\ Head(line).what = x
      /\ answers' = Append(answers, R!R(Head(line).who, Head(line).what, v))
  BY DEF R!Serves, R!Answer
<1>2. Once(line) /\ Once(answers) /\ line \in Seq(R!Request)
  BY DEF Pipeline
<1>3. /\ Head(line).who = Whose[x] /\ Has(line, x) /\ Once(line')
      /\ \A y : Has(line', y) <=> Has(line, y) /\ y # x
  BY <1>1, <1>2, HasTail
<1>4. ~Has(answers, x)
  BY <1>3 DEF Pipeline
<1>5. r \in Sent /\ r.who = Whose[x] /\ r.what = x /\ r.v = v
  BY RequestSent
<1>6. answers' = Append(answers, r)
  BY <1>1, <1>3
<1>7. line' \in Seq(R!Request)
  BY <1>1, <1>2
<1> HIDE DEF r
<1>8. /\ Once(answers')
      /\ \A y : Has(answers', y) <=> Has(answers, y) \/ y = x
      /\ \A n : Brings(answers', n) <=> Brings(answers, n) \/ (n # 0 /\ x = "lPop" /\ n = v)
  BY <1>2, <1>4, <1>5, <1>6, HasAppend
<1>9. Finds(answers) /\ (x = "get" => v # 0) => Finds(answers')
  <2>1. /\ DOMAIN answers' = DOMAIN answers \cup {Len(answers) + 1}
        /\ answers'[Len(answers) + 1] = r
        /\ \A i \in DOMAIN answers : answers'[i] = answers[i]
    BY <1>2, <1>5, <1>6, Appended DEF Once
  <2> QED
    BY <1>5, <2>1 DEF Finds
<1> QED
  BY <1>3, <1>4, <1>7, <1>8, <1>9

(* The account of the values holds while nothing it is about moves.         *)
LEMMA KeptStays ==
  ASSUME Kept, queue' = queue, pushed' = pushed, printed' = printed, breaks' = breaks,
         \A n : Brings(answers', n) <=> Brings(answers, n)
  PROVE  Kept'
BY DEF Kept, Taken, R!InOrder

(* A push, ours or another client's, takes nothing from the list.           *)
LEMMA KeptPush ==
  ASSUME Kept, pushed \in Nat, queue' = Append(queue, pushed + 1), pushed' = pushed + 1,
         printed' = printed, breaks' = breaks, \A n : Brings(answers', n) <=> Brings(answers, n)
  PROVE  Kept'
<1>1. /\ queue' \in Seq(Nat) /\ Len(queue') = Len(queue) + 1 /\ Len(queue) \in Nat
      /\ DOMAIN queue' = 1 .. Len(queue) + 1
      /\ queue'[Len(queue) + 1] = pushed + 1
      /\ \A i \in DOMAIN queue : queue'[i] = queue[i]
      /\ DOMAIN queue = 1 .. Len(queue)
  BY DEF Kept
<1>2. Taken' = Taken /\ Taken \in Nat /\ pushed + 1 = Taken + (Len(queue) + 1)
  BY <1>1 DEF Kept, Taken
<1>3. ASSUME NEW i \in DOMAIN queue' PROVE queue'[i] = Taken' + i
  <2>1. CASE i \in DOMAIN queue
    BY <1>1, <1>2, <2>1 DEF Kept
  <2>2. CASE i = Len(queue) + 1
    BY <1>1, <1>2, <2>2
  <2> QED
    BY <1>1, <2>1, <2>2
<1> QED
  BY <1>1, <1>2, <1>3 DEF Kept, R!InOrder

(* Redis carries out the oldest request, one command at a time.             *)
LEMMA ServeRInv ==
  ASSUME RInv, R!Serve PROVE RInv'
<1>1. Pipeline /\ Phases /\ Amounts /\ Kept
  BY DEF RInv
<1>2. UNCHANGED <<main, sample, listener, pusher, ours, printed, breaks, others>>
  BY DEF R!Serve, R!loops
<1>3. ASSUME NEW x \in Command, NEW v \in Nat, R!Serves(x), R!Answer(v),
             x = "get" => v # 0, x = "set" => key', key \in BOOLEAN => key' \in BOOLEAN, key => key'
      PROVE  Pipeline' /\ Phases'
  <2>1. /\ Once(line') /\ Once(answers') /\ line' \in Seq(R!Request)
        /\ \A y : Has(line', y) <=> Has(line, y) /\ y # x
        /\ \A y : Has(answers', y) <=> Has(answers, y) \/ y = x
        /\ Finds(answers) /\ (x = "get" => v # 0) => Finds(answers')
        /\ Has(line, x) /\ ~Has(answers, x)
    BY <1>1, <1>3, AnswerKeeps
  <2>2. \A y : Asked(y)' <=> Asked(y)
    BY <2>1 DEF Asked
  <2>3. Pipeline'
    BY <1>1, <1>2, <2>1, <2>2 DEF Pipeline
  <2>4. Phases'
    BY <1>1, <1>2, <1>3, <2>1 DEF Phases
  <2> QED
    BY <2>3, <2>4
<1> USE DEF Command
<1>4. CASE R!Serves("set") /\ R!Answer(R!None) /\ key' = TRUE /\ UNCHANGED <<queue, pushed>>
  <2>1. /\ \A y : Has(line', y) <=> Has(line, y) /\ y # "set"
        /\ \A n : Brings(answers', n) <=> Brings(answers, n)
    BY <1>1, <1>4, AnswerKeeps DEF R!None
  <2>2. Pipeline' /\ Phases'
    BY <1>3, <1>4 DEF R!None
  <2>3. Amounts'
    BY <1>1, <1>2, <1>4, <2>1 DEF Amounts
  <2> QED
    BY <1>1, <1>2, <1>4, <2>1, <2>2, <2>3, KeptStays DEF RInv
<1>5. CASE R!Serves("get") /\ R!Answer(IF key THEN 1 ELSE R!None) /\ UNCHANGED R!redis
  <2>1. UNCHANGED <<key, queue, pushed>>
    BY <1>5 DEF R!redis
  <2>2. Has(line, "get")
    BY <1>1, <1>5, AnswerKeeps DEF R!None
  <2>3. key = TRUE
    BY <1>1, <2>2 DEF Pipeline, Phases, Asked
  <2>4. R!Answer(1)
    BY <1>5, <2>3
  <2>5. /\ \A y : Has(line', y) <=> Has(line, y) /\ y # "get"
        /\ \A n : Brings(answers', n) <=> Brings(answers, n)
    BY <1>1, <1>5, <2>4, AnswerKeeps
  <2>6. Pipeline' /\ Phases'
    BY <1>3, <1>5, <2>1, <2>4
  <2>7. Amounts'
    BY <1>1, <1>2, <2>1, <2>5 DEF Amounts
  <2> QED
    BY <1>1, <1>2, <2>1, <2>5, <2>6, <2>7, KeptStays DEF RInv
<1>6. CASE /\ R!Serves("lPop")
           /\ R!Answer(IF queue = <<>> THEN R!None ELSE Head(queue))
           /\ queue' = IF queue = <<>> THEN queue ELSE Tail(queue)
           /\ UNCHANGED <<key, pushed>>
  <2> DEFINE v == IF queue = <<>> THEN 0 ELSE Head(queue)
  <2>1. /\ queue \in Seq(Nat) /\ Len(queue) \in Nat /\ Taken \in Nat /\ pushed \in Nat
        /\ v \in Nat /\ R!Answer(v)
    BY <1>1, <1>6 DEF Kept, R!None, Amounts
  <2> HIDE DEF v
  <2>2. /\ \A y : Has(line', y) <=> Has(line, y) /\ y # "lPop"
        /\ \A n : Brings(answers', n) <=> Brings(answers, n) \/ (n # 0 /\ n = v)
        /\ Has(line, "lPop") /\ ~Has(answers, "lPop")
    BY <1>1, <1>6, <2>1, AnswerKeeps
  <2>3. Pipeline' /\ Phases'
    BY <1>3, <1>6, <2>1
  <2>4. Amounts'
    BY <1>1, <1>2, <1>6, <2>2 DEF Amounts
  <2>5. \A n : ~Brings(answers, n)
    BY <2>2 DEF Brings, Has
  <2>6. Kept'
    <3>1. CASE queue = <<>>
      BY <1>1, <1>2, <1>6, <2>2, <3>1, KeptStays DEF v
    <3>2. CASE queue # <<>>
      <4>1. /\ v = queue[1] /\ 1 \in DOMAIN queue /\ queue' \in Seq(Nat)
            /\ Len(queue') = Len(queue) - 1
            /\ \A i \in DOMAIN queue' : i \in Nat /\ i + 1 \in DOMAIN queue /\ queue'[i] = queue[i + 1]
        BY <1>6, <2>1, <3>2 DEF v
      <4>2. Taken' = Taken + 1 /\ v = Taken + 1
        <5>1. queue[1] = Taken + 1
          BY <1>1, <4>1 DEF Kept
        <5>2. pushed' = pushed /\ Len(queue') = Len(queue) - 1
          BY <1>6, <4>1
        <5>3. pushed - (Len(queue) - 1) = (pushed - Len(queue)) + 1
          BY <2>1
        <5>4. Taken' = Taken + 1
          BY <5>2, <5>3 DEF Taken
        <5> QED
          BY <4>1, <5>1, <5>4
      <4>3. ASSUME NEW i \in DOMAIN queue' PROVE queue'[i] = Taken' + i
        <5>1. i + 1 \in DOMAIN queue /\ i \in Nat /\ queue'[i] = queue[i + 1]
          BY <4>1
        <5>2. queue[i + 1] = Taken + (i + 1)
          BY <1>1, <5>1 DEF Kept
        <5> QED
          BY <2>1, <4>2, <5>1, <5>2
      <4>4. \A n : Brings(answers', n) <=> n = Taken + 1
        BY <2>1, <2>2, <2>5, <4>2
      <4>5. \A n \in 1 .. Taken' : n = Taken + 1 \/ n \in 1 .. Taken
        BY <2>1, <4>2
      <4>6. \A p \in DOMAIN printed : printed[p] \in 1 .. Taken' /\ printed[p] < Taken + 1
        BY <1>1, <2>1, <4>2 DEF Kept
      <4>7. breaks = 0 => \A n \in 1 .. Taken : \E p \in DOMAIN printed : printed[p] = n
        BY <1>1, <2>5 DEF Kept
      <4>8. Taken' \in Nat /\ R!InOrder' /\ Taken + 1 \in 1 .. Taken'
        BY <1>1, <1>2, <2>1, <4>2 DEF Kept, R!InOrder
      <4> QED
        BY <1>1, <1>2, <4>1, <4>3, <4>4, <4>5, <4>6, <4>7, <4>8 DEF Kept
    <3> QED
      BY <3>1, <3>2
  <2> QED
    BY <2>3, <2>4, <2>6 DEF RInv
<1>7. CASE /\ R!Serves("rPush")
           /\ R!Answer(R!None)
           /\ pushed' = pushed + 1 /\ queue' = Append(queue, pushed + 1)
           /\ UNCHANGED key
  <2>1. /\ \A y : Has(line', y) <=> Has(line, y) /\ y # "rPush"
        /\ \A n : Brings(answers', n) <=> Brings(answers, n)
        /\ Has(line, "rPush")
    BY <1>1, <1>7, AnswerKeeps DEF R!None
  <2>2. Pipeline' /\ Phases'
    BY <1>3, <1>7 DEF R!None
  <2>3. Amounts'
    BY <1>1, <1>2, <1>7, <2>1 DEF Amounts
  <2>4. pushed \in Nat
    BY <1>1 DEF Amounts
  <2> QED
    BY <1>1, <1>2, <1>7, <2>1, <2>2, <2>3, <2>4, KeptPush DEF RInv
<1> QED
  BY <1>4, <1>5, <1>6, <1>7 DEF R!Serve

(* Another client's push reaches the list beside the two loops.             *)
LEMMA OtherPushRInv ==
  ASSUME RInv, R!OtherPush PROVE RInv'
<1>1. Pipeline /\ Phases /\ Amounts /\ Kept /\ pushed \in Nat
  BY DEF RInv, Amounts
<1>2. /\ others < MaxOther /\ others' = others + 1
      /\ pushed' = pushed + 1 /\ queue' = Append(queue, pushed + 1)
      /\ UNCHANGED <<main, sample, listener, pusher, ours, printed, line, answers, key, breaks>>
  BY DEF R!OtherPush, R!loops
<1>3. Pipeline' /\ Phases'
  BY <1>1, <1>2 DEF Pipeline, Phases, Asked
<1>4. Amounts'
  BY <1>1, <1>2, ExamplesAssumption DEF Amounts, R!RedisAssumption
<1> QED
  BY <1>1, <1>2, <1>3, <1>4, KeptPush DEF RInv

(* A broken connection fails the requests it carries, and nobody else's.    *)
LEMMA WhoFails ==
  ASSUME Pipeline
  PROVE  /\ R!Failing("main") <=> main \in {"set", "get"}
         /\ R!Failing("listener") <=> listener = "asked"
         /\ R!Failing("pusher") <=> pusher = "asked"
<1>1. ASSUME NEW s, Once(s)
      PROVE  \A i \in DOMAIN s : s[i].what \in Command /\ s[i].who = Whose[s[i].what]
  <2>1. ASSUME NEW i \in DOMAIN s PROVE s[i] \in Sent
    BY <1>1 DEF Once
  <2> QED
    BY <1>1, <2>1 DEF Once, Sent
<1>2. ASSUME NEW s, Once(s)
      PROVE  /\ (\E i \in DOMAIN s : s[i].who = "main") <=> Has(s, "set") \/ Has(s, "get")
             /\ (\E i \in DOMAIN s : s[i].who = "listener") <=> Has(s, "lPop")
             /\ (\E i \in DOMAIN s : s[i].who = "pusher") <=> Has(s, "rPush")
  <2>1. ASSUME NEW i \in DOMAIN s
        PROVE  /\ s[i].who = "main" <=> s[i].what \in {"set", "get"}
               /\ s[i].who = "listener" <=> s[i].what = "lPop"
               /\ s[i].who = "pusher" <=> s[i].what = "rPush"
    BY <1>1, <1>2 DEF Command, Whose
  <2> QED
    BY <2>1 DEF Has
<1>3. Once(line) /\ Once(answers)
  BY DEF Pipeline
<1>4. ASSUME NEW who
      PROVE  R!Failing(who) <=> \/ \E i \in DOMAIN line : line[i].who = who
                                \/ \E i \in DOMAIN answers : answers[i].who = who
  BY DEF R!Failing
<1>5. /\ R!Failing("main") <=> Asked("set") \/ Asked("get")
      /\ R!Failing("listener") <=> Asked("lPop")
      /\ R!Failing("pusher") <=> Asked("rPush")
  BY <1>2, <1>3, <1>4 DEF Asked
<1> QED
  BY <1>5 DEF Pipeline

(* A broken connection fails every request under way, and drops answers.    *)
LEMMA BreakRInv ==
  ASSUME RInv, R!Break PROVE RInv'
<1>1. Pipeline /\ Phases /\ Amounts /\ Kept
  BY DEF RInv
<1>2. /\ breaks < MaxBreaks /\ breaks' = breaks + 1
      /\ line' = <<>> /\ answers' = <<>>
      /\ listener' = (IF listener = "asked" THEN "failed" ELSE listener)
      /\ pusher' = (IF pusher = "asked" THEN "failed" ELSE pusher)
      /\ IF main \in {"set", "get"} THEN sample' = "error" /\ main' = "sampled"
         ELSE UNCHANGED <<sample, main>>
      /\ UNCHANGED <<key, queue, pushed, ours, printed, others>>
  BY <1>1, WhoFails DEF R!Break, R!redis
<1>3. /\ Once(line') /\ Once(answers') /\ line' \in Seq(R!Request)
      /\ \A x : ~Has(line', x) /\ ~Has(answers', x)
      /\ \A n : ~Brings(answers', n)
      /\ Finds(answers')
  BY <1>2 DEF Once, Has, Brings, Finds
<1>4. Pipeline'
  <2>1. \A x : ~Asked(x)'
    BY <1>3 DEF Asked
  <2>2. main' \notin {"set", "get"} /\ listener' # "asked" /\ pusher' # "asked"
    BY <1>2
  <2> QED
    BY <1>3, <2>1, <2>2 DEF Pipeline
<1>5. Phases'
  BY <1>1, <1>2, <1>3 DEF Phases, R!Loop
<1>6. Amounts'
  BY <1>1, <1>2, <1>3, ExamplesAssumption DEF Amounts, R!RedisAssumption
<1>7. Kept'
  <2>1. breaks' # 0
    BY <1>1, <1>2 DEF Amounts
  <2> QED
    BY <1>1, <1>2, <1>3, <2>1 DEF Kept, Taken, R!InOrder
<1> QED
  BY <1>4, <1>5, <1>6, <1>7 DEF RInv

(* The answer to the set is followed by the get, on the same connection.    *)
LEMMA SetDoneRInv ==
  ASSUME RInv, R!SetDone PROVE RInv'
<1>1. Pipeline /\ Phases /\ Amounts /\ Kept
  BY DEF RInv
<1>2. /\ R!Answered("set") /\ main' = "get" /\ R!Send(R!R(Whose["get"], "get", R!None))
      /\ UNCHANGED <<sample, listener, pusher, ours, printed, key, queue, pushed, breaks, others>>
  BY DEF R!SetDone, R!loops, R!redis, Whose
<1>3. /\ Once(answers')
      /\ \A y : Has(answers', y) <=> Has(answers, y) /\ y # "set"
      /\ \A n : Brings(answers', n) <=> Brings(answers, n)
      /\ Finds(answers')
      /\ Has(answers, "set") /\ ~Has(line, "set") /\ Asked("set")
  BY <1>1, <1>2, AnsweredKeeps DEF Command, Phases
<1>4. ~Asked("get") /\ main = "set"
  BY <1>1, <1>3 DEF Pipeline
<1>5. /\ Once(line') /\ line' \in Seq(R!Request)
      /\ \A y : Has(line', y) <=> Has(line, y) \/ y = "get"
  BY <1>1, <1>2, <1>4, SendKeeps DEF Command
<1>6. \A y : Asked(y)' <=> (Asked(y) /\ y # "set") \/ y = "get"
  BY <1>3, <1>5 DEF Asked
<1>7. Pipeline'
  BY <1>1, <1>2, <1>3, <1>4, <1>5, <1>6 DEF Pipeline, Asked
<1>8. Phases'
  BY <1>1, <1>2, <1>3, <1>4 DEF Phases
<1>9. Amounts'
  BY <1>1, <1>2, <1>5 DEF Amounts
<1> QED
  BY <1>1, <1>2, <1>3, <1>7, <1>8, <1>9, KeptStays DEF RInv

(* The get is answered after the set, so it finds the sample value.         *)
LEMMA GetDoneRInv ==
  ASSUME RInv, R!GetDone PROVE RInv'
<1>1. Pipeline /\ Phases /\ Amounts /\ Kept
  BY DEF RInv
<1>2. /\ R!Answered("get") /\ main' = "sampled"
      /\ sample' = IF Head(answers).v = 0 THEN "none" ELSE "value"
      /\ UNCHANGED <<line, listener, pusher, ours, printed, key, queue, pushed, breaks, others>>
  BY DEF R!GetDone, R!loops, R!redis, R!None
<1>3. /\ Once(answers') /\ Head(answers).v # 0
      /\ \A y : Has(answers', y) <=> Has(answers, y) /\ y # "get"
      /\ \A n : Brings(answers', n) <=> Brings(answers, n)
      /\ Finds(answers')
      /\ ~Has(line, "get") /\ Asked("get")
  BY <1>1, <1>2, AnsweredKeeps DEF Command, Phases
<1>4. \A y : Asked(y)' <=> Asked(y) /\ y # "get"
  BY <1>2, <1>3 DEF Asked
<1>5. Pipeline'
  BY <1>1, <1>2, <1>3, <1>4 DEF Pipeline
<1>6. Phases'
  BY <1>1, <1>2, <1>3 DEF Phases, Pipeline
<1>7. Amounts'
  BY <1>1, <1>2 DEF Amounts
<1> QED
  BY <1>1, <1>2, <1>3, <1>5, <1>6, <1>7, KeptStays DEF RInv

(* The listener asks: for the first time, after its pause or after a value. *)
LEMMA ListenerAsks ==
  ASSUME RInv, listener # "asked", main \notin {"set", "get"},
         listener' = "asked", R!Send(R!R("listener", "lPop", R!None)),
         UNCHANGED <<main, sample, pusher, ours, printed, answers, key, queue, pushed, breaks, others>>
  PROVE  RInv'
<1>1. Pipeline /\ Phases /\ Amounts /\ Kept
  BY DEF RInv
<1>2. /\ Once(line') /\ line' \in Seq(R!Request)
      /\ \A y : Has(line', y) <=> Has(line, y) \/ y = "lPop"
  BY <1>1, SendKeeps DEF Command, Whose, Pipeline
<1>3. ~Has(line, "lPop") /\ ~Has(answers, "lPop")
  BY <1>1 DEF Pipeline, Asked
<1>4. \A y : Asked(y)' <=> Asked(y) \/ y = "lPop"
  BY <1>2 DEF Asked
<1>5. Pipeline'
  BY <1>1, <1>2, <1>3, <1>4 DEF Pipeline
<1>6. Phases'
  BY <1>1 DEF Phases, R!Loop
<1>7. Amounts'
  BY <1>1, <1>2 DEF Amounts
<1> QED
  BY <1>1, <1>5, <1>6, <1>7, KeptStays DEF RInv

(* The listener starts after the sample, read or failed.                    *)
LEMMA StartListenerRInv ==
  ASSUME RInv, R!StartListener PROVE RInv'
BY ListenerAsks DEF R!StartListener, R!redis

(* The listener polls again after its pause.                                *)
LEMMA PollAgainRInv ==
  ASSUME RInv, R!PollAgain PROVE RInv'
<1>1. listener = "pausing" /\ main \notin {"set", "get"}
  BY DEF R!PollAgain, RInv, Phases
<1> QED
  BY <1>1, ListenerAsks DEF R!PollAgain, R!redis

(* The pusher pushes: for the first time or after its pause.                *)
LEMMA PusherAsks ==
  ASSUME RInv, pusher # "asked", main \notin {"set", "get"}, main' \in {"waiting", "ended"},
         ours < MaxPush, ours' = ours + 1,
         pusher' = "asked", R!Send(R!R("pusher", "rPush", R!None)),
         UNCHANGED <<sample, listener, printed, answers, key, queue, pushed, breaks, others>>
  PROVE  RInv'
<1>1. Pipeline /\ Phases /\ Amounts /\ Kept
  BY DEF RInv
<1>2. /\ Once(line') /\ line' \in Seq(R!Request)
      /\ \A y : Has(line', y) <=> Has(line, y) \/ y = "rPush"
  BY <1>1, SendKeeps DEF Command, Whose, Pipeline
<1>3. ~Has(line, "rPush") /\ ~Has(answers, "rPush")
  BY <1>1 DEF Pipeline, Asked
<1>4. \A y : Asked(y)' <=> Asked(y) \/ y = "rPush"
  BY <1>2 DEF Asked
<1>5. Pipeline'
  BY <1>1, <1>2, <1>3, <1>4 DEF Pipeline
<1>6. Phases'
  BY <1>1 DEF Phases, R!Loop
<1>7. Amounts'
  BY <1>1, ExamplesAssumption DEF Amounts, R!RedisAssumption
<1> QED
  BY <1>1, <1>5, <1>6, <1>7, KeptStays DEF RInv

(* The pusher starts after the listener.                                    *)
LEMMA StartPusherRInv ==
  ASSUME RInv, R!StartPusher PROVE RInv'
<1>1. pusher # "asked"
  BY DEF R!StartPusher, RInv, Phases
<1> QED
  BY <1>1, PusherAsks DEF R!StartPusher, R!redis

(* The pusher pushes again after its pause.                                 *)
LEMMA PushAgainRInv ==
  ASSUME RInv, R!PushAgain PROVE RInv'
<1>1. main' = main /\ main \in {"waiting", "ended"} /\ pusher # "asked"
  BY DEF R!PushAgain, RInv, Phases
<1> QED
  BY <1>1, PusherAsks DEF R!PushAgain, R!redis

(* The answered push sends the pusher to its pause.                         *)
LEMMA PushedRInv ==
  ASSUME RInv, R!Pushed PROVE RInv'
<1>1. Pipeline /\ Phases /\ Amounts /\ Kept
  BY DEF RInv
<1>2. /\ R!Answered("rPush") /\ pusher' = "pausing"
      /\ UNCHANGED <<main, sample, listener, ours, printed, line, key, queue, pushed, breaks, others>>
  BY DEF R!Pushed, R!redis
<1>3. /\ Once(answers')
      /\ \A y : Has(answers', y) <=> Has(answers, y) /\ y # "rPush"
      /\ \A n : Brings(answers', n) <=> Brings(answers, n)
      /\ Finds(answers')
      /\ ~Has(line, "rPush") /\ Asked("rPush")
  BY <1>1, <1>2, AnsweredKeeps DEF Command, Phases
<1>4. \A y : Asked(y)' <=> Asked(y) /\ y # "rPush"
  BY <1>2, <1>3 DEF Asked
<1>5. Pipeline'
  BY <1>1, <1>2, <1>3, <1>4 DEF Pipeline
<1>6. Phases'
  BY <1>1, <1>2, <1>3 DEF Phases, Pipeline, R!Loop
<1>7. Amounts'
  BY <1>1, <1>2 DEF Amounts
<1> QED
  BY <1>1, <1>2, <1>3, <1>5, <1>6, <1>7, KeptStays DEF RInv

(* The value an answer brings is printed after all that were.               *)
LEMMA KeptPrinted ==
  ASSUME Kept, NEW n, Brings(answers, n), printed' = Append(printed, n),
         queue' = queue, pushed' = pushed, breaks' = breaks,
         \A m : ~Brings(answers', m), \A m : Brings(answers, m) => m = n
  PROVE  Kept'
<1>1. n \in 1 .. Taken /\ \A p \in DOMAIN printed : printed[p] < n /\ printed[p] \in 1 .. Taken
  BY DEF Kept
<1>2. printed \in Seq(Nat) /\ n \in Nat /\ Len(printed) \in Nat /\ Taken' = Taken /\ Taken \in Nat
  BY <1>1 DEF Kept, Taken
<1>3. /\ printed' \in Seq(Nat) /\ printed'[Len(printed) + 1] = n
      /\ DOMAIN printed' = DOMAIN printed \cup {Len(printed) + 1}
      /\ \A p \in DOMAIN printed : printed'[p] = printed[p] /\ p \in Nat /\ p < Len(printed) + 1
  BY <1>2
<1>4. \A p \in DOMAIN printed' : printed'[p] \in 1 .. Taken'
  BY <1>1, <1>2, <1>3
<1>5. R!InOrder'
  BY <1>1, <1>2, <1>3 DEF Kept, R!InOrder
<1>6. breaks' = 0 => \A m \in 1 .. Taken' : \E p \in DOMAIN printed' : printed'[p] = m
  BY <1>2, <1>3 DEF Kept
<1> QED
  BY <1>2, <1>3, <1>4, <1>5, <1>6 DEF Kept

(* A popped value is printed, an empty list sends the listener to its pause.*)
LEMMA PoppedRInv ==
  ASSUME RInv, R!Popped PROVE RInv'
<1>1. Pipeline /\ Phases /\ Amounts /\ Kept
  BY DEF RInv
<1>2. /\ R!Answered("lPop")
      /\ UNCHANGED <<main, sample, pusher, ours, key, queue, pushed, breaks, others>>
  BY DEF R!Popped, R!redis
<1> DEFINE n == Head(answers).v
<1>3. /\ Once(answers')
      /\ \A y : Has(answers', y) <=> Has(answers, y) /\ y # "lPop"
      /\ \A m : ~Brings(answers', m)
      /\ Finds(answers')
      /\ ~Has(line, "lPop") /\ Asked("lPop")
      /\ n # 0 => Brings(answers, n)
  BY <1>1, <1>2, AnsweredKeeps DEF Command, Phases
<1>4. \A m : Brings(answers, m) => m = n /\ n # 0
  <2>1. /\ answers # <<>> /\ Head(answers) = answers[1] /\ 1 \in DOMAIN answers
        /\ answers[1].what = "lPop"
    BY <1>1, <1>2, Rest DEF R!Answered, Pipeline, Once
  <2> QED
    BY <1>1, <2>1 DEF Brings, Pipeline, Once
<1>5. listener = "asked" /\ main \notin {"set", "get"}
  BY <1>1, <1>3 DEF Pipeline, Phases
<1>6. CASE n = 0
  <2>1. listener' = "pausing" /\ UNCHANGED <<printed, line>>
    BY <1>6 DEF R!Popped, R!None
  <2>2. \A y : Asked(y)' <=> Asked(y) /\ y # "lPop"
    BY <1>3, <2>1 DEF Asked
  <2>3. Pipeline'
    BY <1>1, <1>2, <1>3, <2>1, <2>2 DEF Pipeline
  <2>4. Phases'
    BY <1>1, <1>2, <1>3, <1>5, <2>1 DEF Phases, R!Loop
  <2>5. Amounts'
    BY <1>1, <1>2, <2>1 DEF Amounts
  <2>6. Kept'
    BY <1>1, <1>2, <1>3, <1>4, <1>6, <2>1, KeptStays
  <2> QED
    BY <2>3, <2>4, <2>5, <2>6 DEF RInv
<1>7. CASE n # 0
  <2>1. /\ printed' = Append(printed, n) /\ listener' = "asked"
        /\ R!Send(R!R("listener", "lPop", R!None))
    BY <1>7 DEF R!Popped, R!None
  <2>2. /\ line' = Append(line, R!R("listener", "lPop", 0))
        /\ R!R("listener", "lPop", 0) \in Sent /\ R!R("listener", "lPop", 0) \in R!Request
        /\ R!R("listener", "lPop", 0).who = Whose["lPop"]
        /\ R!R("listener", "lPop", 0).what = "lPop"
    BY <2>1 DEF R!Send, R!None, R!R, Sent, Command, Whose, R!Request
  <2>3. /\ Once(line') /\ line' \in Seq(R!Request)
        /\ \A y : Has(line', y) <=> Has(line, y) \/ y = "lPop"
    <3>1. Once(line) /\ line \in Seq(R!Request)
      BY <1>1 DEF Pipeline
    <3> DEFINE r == R!R("listener", "lPop", 0)
    <3> HIDE DEF r
    <3>2. line' = Append(line, r) /\ r \in Sent /\ r \in R!Request /\ r.who = Whose[r.what] /\ r.what = "lPop"
      BY <2>2 DEF r
    <3>3. line' \in Seq(R!Request)
      BY <3>1, <3>2
    <3> QED
      BY <1>3, <3>1, <3>2, <3>3, HasAppend
  <2>4. \A y : Asked(y)' <=> Asked(y)
    BY <1>3, <2>3 DEF Asked
  <2>5. Pipeline'
    BY <1>1, <1>2, <1>3, <1>5, <2>1, <2>3, <2>4 DEF Pipeline
  <2>6. Phases'
    BY <1>1, <1>2, <1>3, <1>5, <2>1 DEF Phases, R!Loop
  <2>7. Amounts'
    BY <1>1, <1>2, <2>3 DEF Amounts
  <2>8. Kept'
    BY <1>1, <1>2, <1>3, <1>4, <1>7, <2>1, KeptPrinted
  <2> QED
    BY <2>5, <2>6, <2>7, <2>8 DEF RInv
<1> QED
  BY <1>6, <1>7

(* The wait of main ends with the first loop that fails.                    *)
LEMMA JoinFailsRInv ==
  ASSUME RInv, R!JoinFails PROVE RInv'
<1>1. Pipeline /\ Phases /\ Amounts /\ Kept
  BY DEF RInv
<1>2. /\ main = "waiting" /\ main' = "ended"
      /\ UNCHANGED <<sample, listener, pusher, ours, printed, line, answers, key, queue, pushed,
                     breaks, others>>
  BY DEF R!JoinFails, R!loops, R!redis
<1>3. Pipeline' /\ Phases' /\ Amounts'
  BY <1>1, <1>2 DEF Pipeline, Phases, Amounts, Asked
<1> QED
  BY <1>1, <1>2, <1>3, KeptStays DEF RInv

(* Every step of the sample keeps its invariant.                            *)
LEMMA RedisStep ==
  ASSUME RInv, [R!Next]_(R!vars) PROVE RInv'
<1>1. CASE UNCHANGED R!vars
  BY <1>1 DEF R!vars, RInv, Pipeline, Phases, Amounts, Kept, Asked, Taken, R!InOrder
<1>2. CASE R!Answers
  BY <1>2, SetDoneRInv, GetDoneRInv, PoppedRInv, PushedRInv DEF R!Answers
<1> QED
  BY <1>1, <1>2, ServeRInv, OtherPushRInv, BreakRInv, StartListenerRInv, StartPusherRInv,
     PollAgainRInv, PushAgainRInv, JoinFailsRInv DEF R!Next

(* Nothing is under way at the start.                                       *)
LEMMA RedisStarts == R!Init => RInv
<1> SUFFICES ASSUME R!Init PROVE RInv
  OBVIOUS
<1> DEFINE r == R!R("main", "set", 0)
<1>1. /\ r \in Sent /\ r \in R!Request /\ r.who = Whose[r.what] /\ r.what = "set"
  BY RequestSent DEF R!R, Sent, Command, Whose, R!Request, R!None
<1>2. /\ line = <<r>> /\ answers = <<>> /\ main = "set" /\ sample = "nothing"
      /\ listener = "new" /\ pusher = "new" /\ key = FALSE /\ queue = <<>> /\ pushed = 0
      /\ ours = 0 /\ others = 0 /\ printed = <<>> /\ breaks = 0
  BY DEF R!Init, R!None
<1> HIDE DEF r
<1>3. /\ line \in Seq(Sent) /\ line \in Seq(R!Request) /\ DOMAIN line = {1} /\ line[1] = r
  BY <1>1, <1>2
<1>4. /\ Once(line) /\ \A x : Has(line, x) <=> x = "set"
  BY <1>1, <1>3 DEF Once, Has
<1>5. Once(answers) /\ (\A x : ~Has(answers, x)) /\ (\A n : ~Brings(answers, n)) /\ Finds(answers)
  BY <1>2 DEF Once, Has, Brings, Finds
<1>6. Pipeline
  BY <1>2, <1>3, <1>4, <1>5 DEF Pipeline, Asked
<1>7. Phases
  BY <1>2, <1>5 DEF Phases, R!Loop
<1>8. Amounts
  BY <1>2, <1>4, ExamplesAssumption DEF Amounts, R!RedisAssumption
<1>9. Kept
  BY <1>2, <1>5 DEF Kept, Taken, R!InOrder
<1> QED
  BY <1>6, <1>7, <1>8, <1>9 DEF RInv

(* Nothing is under way once the sample has ended.                          *)
LEMMA RedisOver == ROver => RInv
<1> SUFFICES ASSUME ROver PROVE RInv
  OBVIOUS
<1> DEFINE q == [k \in 1 .. MaxOther |-> k]
<1>1. /\ line = <<>> /\ answers = <<>> /\ main = "ended" /\ sample = "error"
      /\ listener = "failed" /\ pusher = "failed" /\ key = FALSE /\ queue = q /\ pushed = MaxOther
      /\ ours = 0 /\ others = MaxOther /\ printed = <<>> /\ breaks = MaxBreaks
  BY DEF ROver
<1>2. MaxOther \in Nat /\ MaxPush \in Nat /\ MaxBreaks \in Nat
  BY ExamplesAssumption DEF R!RedisAssumption
<1>3. q \in Seq(Nat) /\ Len(q) = MaxOther /\ \A k \in DOMAIN q : q[k] = 0 + k
  BY <1>2
<1> HIDE DEF q
<1>4. /\ Once(line) /\ Once(answers) /\ line \in Seq(R!Request)
      /\ (\A x : ~Has(answers, x)) /\ (\A x : ~Has(line, x))
      /\ (\A n : ~Brings(answers, n)) /\ Finds(answers)
  BY <1>1 DEF Once, Has, Brings, Finds
<1>5. Pipeline
  BY <1>1, <1>4 DEF Pipeline, Asked
<1>6. Phases
  BY <1>1, <1>4 DEF Phases, R!Loop
<1>7. Amounts
  BY <1>1, <1>2, <1>4 DEF Amounts
<1>8. Kept
  <2>1. Taken = 0
    BY <1>1, <1>2, <1>3 DEF Taken
  <2> QED
    BY <1>1, <1>3, <1>4, <2>1 DEF Kept, R!InOrder
<1> QED
  BY <1>5, <1>6, <1>7, <1>8 DEF RInv
(* What is under way at once fits in two messages.                          *)
LEMMA Short ==
  ASSUME NEW s, Once(s), NEW a, NEW b, \A x : Has(s, x) => x \in {a, b}
  PROVE  /\ Len(s) \in Nat /\ Len(s) <= 2
         /\ ~Has(s, a) \/ ~Has(s, b) => Len(s) <= 1
         /\ ~Has(s, a) /\ ~Has(s, b) => Len(s) = 0
<1>1. Len(s) \in Nat /\ DOMAIN s = 1 .. Len(s)
  BY DEF Once
<1>2. \A i \in DOMAIN s : s[i].what \in {a, b} /\ Has(s, s[i].what)
  BY DEF Has
<1>3. \A i, j \in DOMAIN s : i # j => s[i].what # s[j].what
  BY DEF Once
<1>4. ASSUME Len(s) > 2 PROVE FALSE
  <2>1. 1 \in DOMAIN s /\ 2 \in DOMAIN s /\ 3 \in DOMAIN s
    BY <1>1, <1>4
  <2> QED
    BY <1>2, <1>3, <2>1
<1>5. ASSUME Len(s) > 1 PROVE Has(s, a) /\ Has(s, b)
  <2>1. 1 \in DOMAIN s /\ 2 \in DOMAIN s
    BY <1>1, <1>5
  <2> QED
    BY <1>2, <1>3, <2>1
<1>6. ASSUME Len(s) # 0 PROVE Has(s, a) \/ Has(s, b)
  <2>1. 1 \in DOMAIN s
    BY <1>1, <1>6
  <2> QED
    BY <1>2, <2>1
<1> QED
  BY <1>1, <1>4, <1>5, <1>6

(* At most one request of each loop is under way, or one of main.           *)
LEMMA FewUnderWay ==
  ASSUME RInv PROVE Len(line) + Len(answers) <= 2
<1>1. Pipeline /\ Phases
  BY DEF RInv
<1>2. Once(line) /\ Once(answers)
  BY <1>1 DEF Pipeline
<1>3. /\ \A x : Has(line, x) => x \in Command
      /\ \A x : Has(answers, x) => x \in Command
  <2>1. ASSUME NEW s, Once(s), NEW i \in DOMAIN s PROVE s[i].what \in Command
    <3>1. s[i] \in Sent
      BY <2>1 DEF Once
    <3> QED
      BY <3>1 DEF Sent
  <2> QED
    BY <1>2, <2>1 DEF Has
<1>4. ASSUME NEW a \in Command, NEW b \in Command, \A x \in Command : Asked(x) => x \in {a, b}
      PROVE  Len(line) + Len(answers) <= 2
  <2>1. /\ \A x : Has(line, x) => x \in {a, b}
        /\ \A x : Has(answers, x) => x \in {a, b}
    BY <1>3, <1>4 DEF Asked
  <2>2. /\ Len(line) \in Nat /\ Len(line) <= 2
        /\ ~Has(line, a) \/ ~Has(line, b) => Len(line) <= 1
        /\ ~Has(line, a) /\ ~Has(line, b) => Len(line) = 0
    BY <1>2, <2>1, Short
  <2>3. /\ Len(answers) \in Nat /\ Len(answers) <= 2
        /\ ~Has(answers, a) \/ ~Has(answers, b) => Len(answers) <= 1
        /\ ~Has(answers, a) /\ ~Has(answers, b) => Len(answers) = 0
    BY <1>2, <2>1, Short
  <2>4. ~(Has(line, a) /\ Has(answers, a)) /\ ~(Has(line, b) /\ Has(answers, b))
    BY <1>1 DEF Pipeline
  <2> QED
    BY <2>2, <2>3, <2>4
<1>5. CASE main \in {"set", "get"}
  <2>1. \A x \in Command : Asked(x) => x \in {main, main}
    BY <1>1, <1>5 DEF Pipeline, Phases, Command
  <2> QED
    BY <1>4, <1>5, <2>1 DEF Command
<1>6. CASE main \notin {"set", "get"}
  <2>1. \A x \in Command : Asked(x) => x \in {"lPop", "rPush"}
    BY <1>1, <1>6 DEF Pipeline, Command
  <2> QED
    BY <1>4, <2>1 DEF Command
<1> QED
  BY <1>5, <1>6

(* The invariant gives the types of the sample.                             *)
LEMMA RedisTypes ==
  ASSUME RInv PROVE R!TypeOK
<1>1. Pipeline /\ Phases /\ Amounts /\ Kept
  BY DEF RInv
<1>2. MaxOther \in Nat /\ MaxPush \in Nat /\ MaxBreaks \in Nat
  BY ExamplesAssumption DEF R!RedisAssumption
<1>3. pushed \in 0 .. MaxPush + MaxOther
  BY <1>1, <1>2 DEF Amounts
<1>4. queue \in Seq(1 .. pushed)
  <2>1. queue \in Seq(Nat) /\ Taken \in Nat /\ Len(queue) \in Nat /\ pushed \in Nat
        /\ DOMAIN queue = 1 .. Len(queue)
    BY <1>1 DEF Kept, Amounts
  <2>2. pushed = Taken + Len(queue)
    BY <2>1 DEF Taken
  <2>3. ASSUME NEW i \in DOMAIN queue PROVE queue[i] \in 1 .. pushed
    <3>1. queue[i] = Taken + i /\ i \in 1 .. Len(queue)
      BY <1>1, <2>1 DEF Kept
    <3> QED
      BY <2>1, <2>2, <3>1
  <2> QED
    BY <2>1, <2>3
<1>5. printed \in Seq(1 .. pushed)
  <2>1. printed \in Seq(Nat) /\ Taken \in Nat /\ pushed \in Nat /\ Len(queue) \in Nat
    BY <1>1 DEF Kept, Amounts
  <2>2. Taken <= pushed
    BY <2>1 DEF Taken
  <2>3. \A p \in DOMAIN printed : printed[p] \in 1 .. pushed
    BY <1>1, <2>1, <2>2 DEF Kept
  <2> QED
    BY <2>1, <2>3
<1>6. Len(line) + Len(answers) <= 2 /\ line \in Seq(R!Request)
  BY <1>1, FewUnderWay DEF Pipeline
<1> QED
  BY <1>1, <1>3, <1>4, <1>5, <1>6 DEF R!TypeOK, Phases, Amounts

(* No value pushed is missing from the printed, the answers and the list.   *)
LEMMA RedisKeeps ==
  ASSUME RInv PROVE R!NoneLost
<1> SUFFICES ASSUME breaks = 0
             PROVE  1 .. pushed = R!ToSet(printed) \cup R!OnTheWay \cup R!ToSet(queue)
  BY DEF R!NoneLost
<1>1. Pipeline /\ Phases /\ Amounts /\ Kept
  BY DEF RInv
<1>2. /\ pushed \in Nat /\ Taken \in Nat /\ Len(queue) \in Nat /\ pushed = Taken + Len(queue)
      /\ DOMAIN queue = 1 .. Len(queue) /\ \A i \in DOMAIN queue : queue[i] = Taken + i
  <2>1. /\ pushed \in Nat /\ Taken \in Nat /\ Len(queue) \in Nat
        /\ DOMAIN queue = 1 .. Len(queue) /\ \A i \in DOMAIN queue : queue[i] = Taken + i
    BY <1>1 DEF Kept, Amounts
  <2> QED
    BY <2>1 DEF Taken
<1>3. \A n : n \in R!ToSet(queue) <=> \E i \in DOMAIN queue : queue[i] = n
  BY DEF R!ToSet
<1>4. \A n : n \in R!ToSet(printed) <=> \E p \in DOMAIN printed : printed[p] = n
  BY DEF R!ToSet
<1>5. \A n : n \in R!OnTheWay <=> Brings(answers, n)
  BY DEF R!OnTheWay, Brings, R!None
<1>6. \A n : n \in R!ToSet(queue) <=> n \in (Taken + 1) .. pushed
  <2>1. ASSUME NEW n \in (Taken + 1) .. pushed PROVE n \in R!ToSet(queue)
    <3>1. n - Taken \in 1 .. Len(queue) /\ Taken + (n - Taken) = n
      BY <1>2, <2>1
    <3> QED
      BY <1>2, <1>3, <3>1
  <2>2. ASSUME NEW n, n \in R!ToSet(queue) PROVE n \in (Taken + 1) .. pushed
    <3>1. PICK i \in 1 .. Len(queue) : n = Taken + i
      BY <1>2, <1>3, <2>2
    <3> QED
      BY <1>2, <3>1
  <2> QED
    BY <2>1, <2>2
<1>7. \A n : n \in R!ToSet(printed) \cup R!OnTheWay <=> n \in 1 .. Taken
  BY <1>1, <1>4, <1>5 DEF Kept
<1>8. \A n : n \in 1 .. pushed <=> n \in 1 .. Taken \/ n \in (Taken + 1) .. pushed
  BY <1>2
<1> QED
  BY <1>6, <1>7, <1>8

(* The invariant gives all that the run checks of the sample.               *)
LEMMA RedisServed == RInv => QueueServed
<1>1. RInv => R!InOrder /\ R!ReadsItsWrite
  BY DEF RInv, Kept, Phases, R!ReadsItsWrite
<1> QED
  BY <1>1, RedisTypes, RedisKeeps DEF QueueServed

-----------------------------------------------------------------------------
(* Products and mailboxes.                                                   *)

(* A product grows with its first factor.                                   *)
LEMMA Grows ==
  ASSUME NEW a \in Nat, NEW b \in Nat, NEW c \in Nat, a <= b
  PROVE  a * c <= b * c
OBVIOUS

(* A mailbox with one more message.                                         *)
LEMMA Posted ==
  ASSUME NEW S, NEW s \in Seq(S), NEW d \in S, NEW n, n = Len(s)
  PROVE  LET t == Append(s, d)
         IN  /\ n \in Nat /\ DOMAIN s = 1 .. n /\ DOMAIN t = (1 .. n) \cup {n + 1}
             /\ n + 1 \notin 1 .. n /\ t \in Seq(S)
             /\ t[n + 1] = d /\ \A j \in 1 .. n : t[j] = s[j]
OBVIOUS

(* A mailbox without the message just taken.                                *)
LEMMA Received ==
  ASSUME NEW S, NEW s \in Seq(S), s # <<>>, NEW n, n = Len(s)
  PROVE  LET t == Tail(s)
         IN  /\ n \in Nat /\ n >= 1 /\ DOMAIN s = 1 .. n /\ Head(s) = s[1] /\ DOMAIN t = 1 .. n - 1
             /\ t \in Seq(S) /\ \A j \in 1 .. n - 1 : t[j] = s[j + 1]
OBVIOUS

-----------------------------------------------------------------------------
(* WordCount: its parts.                                                     *)

WInput == numWorker \in 1 .. NumWorkers /\ dataArray \in Seq(Words) /\ Len(dataArray) \in 1 .. MaxLength

(* The words before part i, and those of part i, by their positions.        *)
Before(i) == (i - 1) * W!jobPerWork
Of(i) == Before(i) + 1 .. W!EndIndex(i)

(* The division of the words: parts of equal size, with something left over.*)
LEMMA PartSize ==
  ASSUME WInput
  PROVE  /\ numWorker \in Nat /\ numWorker >= 1 /\ W!sumSize \in Nat /\ W!sumSize >= 1
         /\ W!jobPerWork \in Nat /\ numWorker * W!jobPerWork <= W!sumSize
<1>1. numWorker \in Nat /\ numWorker >= 1 /\ W!sumSize \in Nat /\ W!sumSize >= 1
  BY ExamplesAssumption DEF WInput, W!WordCountAssumption, W!sumSize
<1> DEFINE n == W!sumSize
           d == numWorker
<1> HIDE DEF n, d
<1>2. ASSUME n \in Nat, d \in Nat, d >= 1 PROVE n \div d \in Nat /\ d * (n \div d) <= n
  BY <1>2
<1> USE DEF n, d
<1> QED
  BY <1>1, <1>2 DEF W!jobPerWork

(* A part starts before it ends, inside the words that are counted.         *)
LEMMA PartEnds ==
  ASSUME WInput, NEW i \in W!Part
  PROVE  /\ i \in Nat /\ i >= 1 /\ i <= numWorker
         /\ Before(i) \in Nat /\ W!EndIndex(i) \in Nat
         /\ Before(i) <= W!EndIndex(i) /\ W!EndIndex(i) <= W!sumSize - 1
<1> DEFINE n == numWorker
           j == W!jobPerWork
           z == W!sumSize
<1>1. n \in Nat /\ n >= 1 /\ z \in Nat /\ z >= 1 /\ j \in Nat /\ n * j <= z
  BY PartSize
<1>2. i \in Nat /\ i >= 1 /\ i <= n
  BY <1>1 DEF W!Part
<1>3. Before(i) = (i - 1) * j /\ W!EndIndex(i) = IF i = n THEN z - 1 ELSE i * j
  BY DEF Before, W!EndIndex
<1> HIDE DEF n, j, z
<1>4. (i - 1) * j \in Nat /\ i * j \in Nat /\ i * j = (i - 1) * j + j
  BY <1>1, <1>2
<1>5. i * j <= n * j
  BY <1>1, <1>2, Grows
<1>6. CASE j = 0
  <2>1. (i - 1) * j = 0 /\ i * j = 0
    BY <1>2, <1>6
  <2> QED
    BY <1>1, <1>2, <1>3, <2>1 DEF n, z
<1>7. CASE j >= 1 /\ i = n
  BY <1>1, <1>2, <1>3, <1>4, <1>5, <1>7 DEF n, z
<1>8. CASE j >= 1 /\ i # n
  <2>1. (i + 1) * j <= n * j /\ (i + 1) * j = i * j + j
    BY <1>1, <1>2, <1>8, Grows
  <2> QED
    BY <1>1, <1>2, <1>3, <1>4, <1>8, <2>1 DEF n, z
<1> QED
  BY <1>1, <1>6, <1>7, <1>8

(* A part ends before the next ones start: no word is counted twice.        *)
LEMMA PartsApart ==
  ASSUME WInput, NEW i \in W!Part, NEW k \in W!Part, i < k
  PROVE  W!EndIndex(i) <= Before(k)
<1> DEFINE j == W!jobPerWork
<1>1. /\ i \in Nat /\ k \in Nat /\ i >= 1 /\ k - 1 \in Nat /\ i <= k - 1 /\ j \in Nat
      /\ i # numWorker
  BY PartSize, PartEnds
<1>2. W!EndIndex(i) = i * j /\ Before(k) = (k - 1) * j
  BY <1>1 DEF Before, W!EndIndex
<1> HIDE DEF j
<1> QED
  BY <1>1, <1>2, Grows

(* Every counted word lies in a part: the last part takes what is left.     *)
LEMMA PartsCover ==
  ASSUME WInput, NEW p \in 1 .. W!sumSize - 1
  PROVE  \E i \in W!Part : p \in Of(i)
<1> DEFINE n == numWorker
           j == W!jobPerWork
           z == W!sumSize
<1>1. n \in Nat /\ n >= 1 /\ z \in Nat /\ z >= 1 /\ j \in Nat /\ n * j <= z /\ p \in Nat /\ p >= 1 /\ p <= z - 1
  BY PartSize
<1>2. \A i : Before(i) = (i - 1) * j /\ W!EndIndex(i) = IF i = n THEN z - 1 ELSE i * j
  BY DEF Before, W!EndIndex
<1>3. CASE p > (n - 1) * j
  <2>1. n \in W!Part /\ (n - 1) * j \in Nat
    BY <1>1 DEF W!Part
  <2>2. W!EndIndex(n) = z - 1 /\ Before(n) = (n - 1) * j
    BY <1>2
  <2> HIDE DEF n, j, z
  <2>3. p \in Of(n)
    BY <1>1, <1>3, <2>1, <2>2 DEF Of
  <2> QED
    BY <2>1, <2>3
<1>4. CASE p <= (n - 1) * j
  <2> DEFINE q == (p - 1) \div j
             i == q + 1
  <2> HIDE DEF n, j, z
  <2>1. j >= 1
    <3>1. j = 0 => (n - 1) * j = 0
      BY <1>1
    <3> QED
      BY <1>1, <1>4, <3>1
  <2>2. q \in Nat /\ q * j <= p - 1 /\ p - 1 < (q + 1) * j
    BY <1>1, <2>1
  <2> HIDE DEF q
  <2>3. i \in Nat /\ i >= 1 /\ i <= n - 1 /\ i - 1 = q
    <3>1. ASSUME n - 1 <= q PROVE FALSE
      <4>1. (n - 1) * j <= q * j
        BY <1>1, <2>2, <3>1, Grows
      <4>2. (n - 1) * j \in Nat /\ q * j \in Nat
        BY <1>1, <2>2
      <4> QED
        BY <1>1, <1>4, <2>2, <4>1, <4>2
    <3> QED
      BY <1>1, <2>2, <3>1
  <2> HIDE DEF i
  <2>4. i \in W!Part /\ i # n
    BY <1>1, <2>3 DEF W!Part, n
  <2>5. W!EndIndex(i) = i * j /\ Before(i) = (i - 1) * j
    BY <1>2, <2>4
  <2>6. i * j \in Nat /\ (i - 1) * j \in Nat
    BY <1>1, <2>2, <2>3
  <2>7. p \in Of(i)
    <3>1. (i - 1) * j <= p - 1 /\ p - 1 < i * j
      BY <2>2, <2>3 DEF i
    <3> QED
      BY <1>1, <2>5, <2>6, <3>1 DEF Of
  <2> QED
    BY <2>4, <2>7
<1> QED
  BY <1>1, <1>3, <1>4

(* The positions of word w among those of some parts.                       *)
WordsOf(parts) == {k \in 1 .. W!sumSize - 1 : \E i \in parts : k \in Of(i)}
Places(S, w) == {k \in S : dataArray[k] = w}

(* The words that are counted are the text without its last word.           *)
LEMMA CountedIs ==
  ASSUME WInput
  PROVE  /\ W!Counted \in Seq(Words) /\ DOMAIN W!Counted = 1 .. W!sumSize - 1
         /\ \A k \in 1 .. W!sumSize - 1 : W!Counted[k] = dataArray[k]
<1>1. dataArray \in Seq(Words) /\ W!sumSize = Len(dataArray) /\ W!sumSize \in Nat /\ W!sumSize >= 1
  BY PartSize DEF WInput, W!sumSize
<1>2. W!Counted = SubSeq(dataArray, 1, W!sumSize - 1)
  BY <1>1 DEF W!Counted, W!Front
<1> QED
  BY <1>1, <1>2

(* The tally of some parts counts the places of each word in them.          *)
LEMMA TallyInIs ==
  ASSUME WInput, NEW parts \in SUBSET W!Part
  PROVE  /\ W!TallyIn(parts) = [w \in Words |-> Cardinality(Places(WordsOf(parts), w))]
         /\ \A w : IsFiniteSet(Places(WordsOf(parts), w))
         /\ W!TallyIn(parts) \in W!Tally
<1>1. DOMAIN W!Counted = 1 .. W!sumSize - 1 /\ W!sumSize \in Nat
  BY CountedIs, PartSize
<1>2. \A i \in parts : Before(i) \in Nat /\ W!EndIndex(i) \in Nat
  BY PartEnds
<1>3. ASSUME NEW i \in parts, NEW k \in 1 .. W!sumSize - 1
      PROVE  (i - 1) * W!jobPerWork < k /\ k <= W!EndIndex(i) <=> k \in Of(i)
  <2>1. Before(i) \in Nat /\ W!EndIndex(i) \in Nat /\ k \in Nat /\ Before(i) = (i - 1) * W!jobPerWork
    BY <1>1, <1>2 DEF Before
  <2>2. k \in Of(i) <=> Before(i) < k /\ k <= W!EndIndex(i)
    BY <2>1 DEF Of
  <2> QED
    BY <2>1, <2>2
<1> DEFINE words ==
      {k \in DOMAIN W!Counted : \E i \in parts : (i - 1) * W!jobPerWork < k /\ k <= W!EndIndex(i)}
<1>4. words = WordsOf(parts)
  BY <1>1, <1>3 DEF WordsOf
<1>5. W!TallyIn(parts) = [w \in Words |-> Cardinality(Places(WordsOf(parts), w))]
  <2>1. W!TallyIn(parts) = [w \in Words |-> Cardinality({k \in words : dataArray[k] = w})]
    BY DEF W!TallyIn, W!Cardinality, Cardinality
  <2> HIDE DEF words
  <2>2. \A w : {k \in words : dataArray[k] = w} = Places(WordsOf(parts), w)
    BY <1>4 DEF Places
  <2> QED
    BY <2>1, <2>2
<1>6. ASSUME NEW w PROVE IsFiniteSet(Places(WordsOf(parts), w))
  <2>1. IsFiniteSet(1 .. W!sumSize - 1)
    BY <1>1, FS_Interval
  <2>2. Places(WordsOf(parts), w) \in SUBSET (1 .. W!sumSize - 1)
    BY DEF Places, WordsOf
  <2> QED
    BY <2>1, <2>2, FS_Subset
<1>7. \A w \in Words : Cardinality(Places(WordsOf(parts), w)) \in Nat
  BY <1>6, FS_CardinalityType
<1> QED
  BY <1>5, <1>6, <1>7 DEF W!Tally

(* No part, no word.                                                        *)
LEMMA TallyNone ==
  ASSUME WInput PROVE W!TallyIn({}) = W!NoTally
<1>1. \A w : Places(WordsOf({}), w) = {}
  BY DEF Places, WordsOf
<1>2. Cardinality({}) = 0
  BY FS_EmptySet
<1>3. W!TallyIn({}) = [w \in Words |-> Cardinality(Places(WordsOf({}), w))]
  BY TallyInIs
<1> QED
  BY <1>1, <1>2, <1>3 DEF W!NoTally

(* A slice of a sequence, by its places.                                    *)
LEMMA Cut ==
  ASSUME NEW S, NEW s \in Seq(S), NEW a \in Nat, NEW b \in Nat, a <= b, b <= Len(s)
  PROVE  LET t == SubSeq(s, a + 1, b)
         IN  t \in Seq(S) /\ DOMAIN t = 1 .. b - a /\ \A k \in DOMAIN t : t[k] = s[a + k]
OBVIOUS

(* What the slice of a part holds.                                          *)
LEMMA SliceIs ==
  ASSUME WInput, NEW i \in W!Part
  PROVE  /\ W!Slice(i) \in Seq(Words)
         /\ DOMAIN W!Slice(i) = 1 .. W!EndIndex(i) - Before(i)
         /\ \A k \in DOMAIN W!Slice(i) : W!Slice(i)[k] = dataArray[Before(i) + k]
<1>1. /\ Before(i) \in Nat /\ W!EndIndex(i) \in Nat /\ Before(i) <= W!EndIndex(i)
      /\ W!EndIndex(i) <= Len(dataArray) /\ dataArray \in Seq(Words)
  BY PartEnds, PartSize DEF WInput, W!sumSize
<1>2. W!Slice(i) = SubSeq(dataArray, Before(i) + 1, W!EndIndex(i))
  BY DEF W!Slice, Before
<1> QED
  BY <1>1, <1>2, Cut

(* The tally of a slice counts the places of each word in its part.         *)
LEMMA TallySlice ==
  ASSUME WInput, NEW i \in W!Part
  PROVE  /\ W!TallyOf(W!Slice(i)) = [w \in Words |-> Cardinality(Places(Of(i), w))]
         /\ \A w : IsFiniteSet(Places(Of(i), w))
         /\ W!TallyOf(W!Slice(i)) \in W!Tally
<1> DEFINE s == W!Slice(i)
           b == Before(i)
           e == W!EndIndex(i)
           From(w) == {k \in DOMAIN s : s[k] = w}
<1>1. /\ b \in Nat /\ e \in Nat /\ DOMAIN s = 1 .. e - b /\ \A k \in DOMAIN s : s[k] = dataArray[b + k]
      /\ Of(i) = b + 1 .. e
  BY PartEnds, SliceIs DEF Of
<1> HIDE DEF s, b, e
<1>2. ASSUME NEW w
      PROVE  IsFiniteSet(Places(Of(i), w)) /\ Cardinality(From(w)) = Cardinality(Places(Of(i), w))
  <2> DEFINE f == [k \in From(w) |-> b + k]
  <2>1. IsFiniteSet(DOMAIN s) /\ From(w) \in SUBSET DOMAIN s
    BY <1>1, FS_Interval
  <2>2. IsFiniteSet(From(w))
    BY <2>1, FS_Subset
  <2>3. \A k \in From(w) : b + k \in Places(Of(i), w)
    BY <1>1 DEF Places
  <2>4. \A p \in Places(Of(i), w) : p - b \in From(w) /\ b + (p - b) = p
    <3> TAKE p \in Places(Of(i), w)
    <3>1. p \in b + 1 .. e /\ dataArray[p] = w
      BY <1>1 DEF Places
    <3>2. p - b \in 1 .. e - b /\ b + (p - b) = p
      BY <1>1, <3>1
    <3> QED
      BY <1>1, <3>1, <3>2
  <2>5. \A k, l \in From(w) : b + k = b + l => k = l
    BY <1>1
  <2> HIDE DEF From
  <2>6. f \in Bijection(From(w), Places(Of(i), w))
    <3>1. f \in [From(w) -> Places(Of(i), w)]
      BY <2>3
    <3>2. IsInjective(f)
      BY <2>5 DEF IsInjective
    <3>3. \A p \in Places(Of(i), w) : \E k \in From(w) : f[k] = p
      BY <2>4
    <3> QED
      BY <3>1, <3>2, <3>3 DEF Bijection, Injection, Surjection
  <2>7. ExistsBijection(From(w), Places(Of(i), w))
    BY <2>6 DEF ExistsBijection
  <2> QED
    BY <2>2, <2>7, FS_Bijection
<1>3. W!TallyOf(s) = [w \in Words |-> Cardinality(From(w))]
  BY DEF W!TallyOf, W!Cardinality, Cardinality
<1>4. \A w \in Words : Cardinality(Places(Of(i), w)) \in Nat
  BY <1>2, FS_CardinalityType
<1> HIDE DEF From
<1>5. W!TallyOf(s) = [w \in Words |-> Cardinality(Places(Of(i), w))]
  BY <1>2, <1>3
<1> QED
  BY <1>2, <1>4, <1>5 DEF W!Tally, s

(* One more part adds its slice's tally: the parts share no place.          *)
LEMMA TallyMore ==
  ASSUME WInput, NEW parts \in SUBSET W!Part, NEW i \in W!Part, i \notin parts
  PROVE  W!TallyIn(parts \cup {i}) = W!Plus(W!TallyIn(parts), W!TallyOf(W!Slice(i)))
<1> DEFINE A(w) == Places(WordsOf(parts), w)
           B(w) == Places(Of(i), w)
<1>1. \A k \in Of(i) : k \in 1 .. W!sumSize - 1
  BY PartEnds, PartSize DEF Of
<1>2. ASSUME NEW k \in Of(i), NEW j \in parts, k \in Of(j) PROVE FALSE
  <2>1. /\ i \in Nat /\ j \in Nat /\ i # j /\ k \in Int
        /\ Before(i) \in Nat /\ W!EndIndex(i) \in Nat /\ Before(j) \in Nat /\ W!EndIndex(j) \in Nat
    BY <1>1, PartEnds, PartSize
  <2>2. Before(i) < k /\ k <= W!EndIndex(i) /\ Before(j) < k /\ k <= W!EndIndex(j)
    BY <1>2, <2>1 DEF Of
  <2>3. CASE i < j
    BY <2>1, <2>2, <2>3, PartsApart
  <2>4. CASE j < i
    BY <2>1, <2>2, <2>4, PartsApart
  <2> QED
    BY <2>1, <2>3, <2>4
<1>3. WordsOf(parts \cup {i}) = WordsOf(parts) \cup Of(i) /\ WordsOf(parts) \cap Of(i) = {}
  BY <1>1, <1>2 DEF WordsOf
<1>4. ASSUME NEW w \in Words
      PROVE  Cardinality(Places(WordsOf(parts \cup {i}), w)) = Cardinality(A(w)) + Cardinality(B(w))
  <2>1. Places(WordsOf(parts \cup {i}), w) = A(w) \cup B(w) /\ A(w) \cap B(w) = {}
    BY <1>3 DEF Places
  <2>2. IsFiniteSet(A(w)) /\ IsFiniteSet(B(w))
    BY TallyInIs, TallySlice
  <2> HIDE DEF A, B
  <2>3. Cardinality(A(w) \cup B(w)) = Cardinality(A(w)) + Cardinality(B(w)) - Cardinality(A(w) \cap B(w))
    BY <2>2, FS_Union
  <2>4. Cardinality(A(w)) \in Nat /\ Cardinality(B(w)) \in Nat /\ Cardinality(A(w) \cap B(w)) = 0
    BY <2>1, <2>2, FS_CardinalityType, FS_EmptySet
  <2> QED
    BY <2>1, <2>3, <2>4
<1>5. /\ W!TallyIn(parts) = [w \in Words |-> Cardinality(A(w))]
      /\ W!TallyOf(W!Slice(i)) = [w \in Words |-> Cardinality(B(w))]
      /\ W!TallyIn(parts \cup {i}) = [w \in Words |-> Cardinality(Places(WordsOf(parts \cup {i}), w))]
  BY TallyInIs, TallySlice
<1> HIDE DEF A, B
<1> QED
  BY <1>4, <1>5 DEF W!Plus

(* The tally of all parts is that of the counted words: the parts cover them.*)
LEMMA TallyAll ==
  ASSUME WInput PROVE W!TallyIn(W!Part) = W!TallyOf(W!Counted)
<1>1. WordsOf(W!Part) = 1 .. W!sumSize - 1
  BY PartsCover DEF WordsOf
<1>2. /\ DOMAIN W!Counted = 1 .. W!sumSize - 1
      /\ \A k \in 1 .. W!sumSize - 1 : W!Counted[k] = dataArray[k]
  BY CountedIs
<1>3. \A w : {k \in DOMAIN W!Counted : W!Counted[k] = w} = Places(WordsOf(W!Part), w)
  BY <1>1, <1>2 DEF Places
<1>4. W!TallyIn(W!Part) = [w \in Words |-> Cardinality(Places(WordsOf(W!Part), w))]
  BY TallyInIs
<1>5. W!TallyOf(W!Counted) = [w \in Words |-> Cardinality({k \in DOMAIN W!Counted : W!Counted[k] = w})]
  BY DEF W!TallyOf, W!Cardinality, Cardinality
<1> QED
  BY <1>3, <1>4, <1>5

-----------------------------------------------------------------------------
(* WordCount: its invariant.                                                 *)

Message == {W!Map} \cup {W!Reduce(tally) : tally \in W!Tally}

(* Before the text is mapped, and after: m are the parts that were merged   *)
(* and o[j] is the part whose tally the j-th message of box brings.         *)
Unmapped ==
  /\ masterBox = <<W!Map>> /\ \A i \in W!Part : taskBox[i] = <<>>
  /\ receivedMsg = 0 /\ totalRes = W!NoTally
Settled(m, o, box, tasks, n, total) ==
  /\ m \in SUBSET W!Part
  /\ o \in [DOMAIN box -> W!Part \ m]
  /\ \A j, k \in DOMAIN box : o[j] = o[k] => j = k
  /\ \A i \in W!Part :
       tasks[i] = IF i \in m \/ (\E j \in DOMAIN box : o[j] = i) THEN <<>> ELSE <<W!Slice(i)>>
  /\ \A j \in DOMAIN box : box[j] = W!Reduce(W!TallyOf(W!Slice(o[j])))
  /\ n = Cardinality(m) /\ total = W!TallyIn(m)

(* The result is there when the last part is in, and not before.            *)
Finish ==
  /\ wcMaster \in {"running", "stopped"} /\ wcSystem \in {"up", "down"}
  /\ wcMaster = "stopped" <=> receivedMsg = numWorker
  /\ finalRes = IF wcMaster = "stopped" THEN <<totalRes>> ELSE <<>>

Boxes == masterBox \in Seq(Message) /\ taskBox \in [W!Part -> Seq(Seq(Words))]

WInv == WInput /\ Boxes /\ Finish /\ W!WordsConserved

ASettlement == \E m, o : Settled(m, o, masterBox, taskBox, receivedMsg, totalRes)

(* A settlement of the parts is what WordsConserved asks for.               *)
LEMMA SettledConserves == ASettlement => W!WordsConserved
<1> SUFFICES ASSUME NEW m, NEW o, Settled(m, o, masterBox, taskBox, receivedMsg, totalRes)
             PROVE  W!WordsConserved
  BY DEF ASettlement
<1>1. o \in W!Injection(DOMAIN masterBox, W!Part \ m)
  BY DEF Settled, W!Injection, W!IsInjective
<1>2. \A i : i \in W!Range(o) <=> \E j \in DOMAIN masterBox : o[j] = i
  BY DEF Settled, W!Range
<1>3. m \in SUBSET W!Part
  BY DEF Settled
<1>4. receivedMsg = W!Cardinality(m) /\ totalRes = W!TallyIn(m)
  BY DEF Settled, W!Cardinality, Cardinality
<1>5. \A i \in W!Part : taskBox[i] = IF i \in m \cup W!Range(o) THEN <<>> ELSE <<W!Slice(i)>>
  BY <1>2 DEF Settled
<1>6. \A j \in DOMAIN masterBox : masterBox[j] = W!Reduce(W!TallyOf(W!Slice(o[j])))
  BY DEF Settled
<1> QED
  BY <1>1, <1>3, <1>4, <1>5, <1>6 DEF W!WordsConserved

(* Once the text has been mapped, WordsConserved is a settlement.           *)
LEMMA ConservedSettles ==
  ASSUME W!WordsConserved, ~Unmapped
  PROVE  ASettlement
<1>1. PICK m \in SUBSET W!Part : \E of \in W!Injection(DOMAIN masterBox, W!Part \ m) :
        /\ \A i \in W!Part : taskBox[i] = IF i \in m \cup W!Range(of) THEN <<>> ELSE <<W!Slice(i)>>
        /\ \A j \in DOMAIN masterBox : masterBox[j] = W!Reduce(W!TallyOf(W!Slice(of[j])))
        /\ receivedMsg = W!Cardinality(m) /\ totalRes = W!TallyIn(m)
  BY DEF W!WordsConserved, Unmapped
<1>2. PICK o \in W!Injection(DOMAIN masterBox, W!Part \ m) :
        /\ \A i \in W!Part : taskBox[i] = IF i \in m \cup W!Range(o) THEN <<>> ELSE <<W!Slice(i)>>
        /\ \A j \in DOMAIN masterBox : masterBox[j] = W!Reduce(W!TallyOf(W!Slice(o[j])))
        /\ receivedMsg = W!Cardinality(m) /\ totalRes = W!TallyIn(m)
  BY <1>1
<1>3. /\ o \in [DOMAIN masterBox -> W!Part \ m]
      /\ \A j, k \in DOMAIN masterBox : o[j] = o[k] => j = k
      /\ \A i : i \in W!Range(o) <=> \E j \in DOMAIN masterBox : o[j] = i
  BY DEF W!Injection, W!IsInjective, W!Range
<1>4. receivedMsg = Cardinality(m)
  BY <1>2 DEF W!Cardinality, Cardinality
<1> QED
  BY <1>2, <1>3, <1>4 DEF Settled, ASettlement

(* The text stays, and with it its parts.                                   *)
LEMMA SameInput ==
  ASSUME UNCHANGED <<numWorker, dataArray>>
  PROVE  /\ WInput' <=> WInput
         /\ W!Part' = W!Part
         /\ \A i : W!Slice(i)' = W!Slice(i)
         /\ \A parts : W!TallyIn(parts)' = W!TallyIn(parts)
BY DEF WInput, W!Part, W!Slice, W!EndIndex, W!jobPerWork, W!sumSize, W!TallyIn, W!Counted

(* A settlement of the boxes of the next state conserves the words there.   *)
LEMMA SettledThen ==
  ASSUME UNCHANGED <<numWorker, dataArray>>, NEW m, NEW o,
         Settled(m, o, masterBox', taskBox', receivedMsg', totalRes')
  PROVE  W!WordsConserved'
<1>1. /\ W!Part' = W!Part
      /\ \A i : W!Slice(i)' = W!Slice(i)
      /\ \A parts : W!TallyIn(parts)' = W!TallyIn(parts)
  BY SameInput
<1>2. ASettlement'
  BY <1>1 DEF Settled, ASettlement
<1> QED
  BY <1>2, SettledConserves, PTL

(* As many distinct parts as there are workers are all the parts.           *)
LEMMA Parts ==
  ASSUME WInput, NEW m \in SUBSET W!Part
  PROVE  /\ IsFiniteSet(m) /\ Cardinality(m) \in 0 .. numWorker
         /\ Cardinality(m) = numWorker => m = W!Part
<1>1. numWorker \in Nat /\ numWorker >= 1
  BY PartSize
<1>2. IsFiniteSet(W!Part) /\ Cardinality(W!Part) = numWorker
  BY <1>1, FS_Interval DEF W!Part
<1>3. IsFiniteSet(m) /\ Cardinality(m) <= numWorker /\ (Cardinality(m) = numWorker => m = W!Part)
  BY <1>2, FS_Subset
<1> QED
  BY <1>1, <1>3, FS_CardinalityType

(* Before the text is mapped no part is anywhere.                           *)
LEMMA WordsStart == W!Init => WInv
<1> SUFFICES ASSUME W!Init PROVE WInv
  OBVIOUS
<1>1. WInput
  <2>1. PICK n \in 1 .. MaxLength : dataArray \in [1 .. n -> Words]
    BY DEF W!Init
  <2>2. n \in Nat /\ dataArray \in Seq(Words) /\ Len(dataArray) = n
    BY <2>1, ExamplesAssumption DEF W!WordCountAssumption
  <2> QED
    BY <2>1, <2>2 DEF WInput, W!Init
<1>2. Boxes
  <2>1. masterBox \in Seq(Message)
    BY DEF W!Init, Message
  <2> QED
    BY <2>1 DEF Boxes, W!Init, W!Part
<1>3. numWorker # 0
  BY <1>1, PartSize
<1> QED
  BY <1>1, <1>2, <1>3 DEF WInv, Finish, W!Init, W!WordsConserved, W!Part

(* The ended count has nothing in its boxes.                                *)
LEMMA WordsOver == WOver => WInv
<1> SUFFICES ASSUME WOver PROVE WInv
  OBVIOUS
<1>1. AWord \in Words
  BY ExamplesAssumption DEF AWord, W!WordCountAssumption
<1>2. numWorker = 1 /\ dataArray = <<AWord>> /\ Len(dataArray) = 1
  BY DEF WOver
<1>3. dataArray \in Seq(Words)
  BY <1>1, <1>2
<1>4. WInput
  BY <1>2, <1>3, ExamplesAssumption DEF WInput, W!WordCountAssumption
<1>5. numWorker = 1 /\ W!Part = {1} /\ W!sumSize = 1
  BY <1>2 DEF W!Part, W!sumSize
<1>6. Boxes
  <2>1. taskBox = <<<<>>>> /\ masterBox = <<>>
    BY DEF WOver
  <2>2. taskBox \in [1 .. 1 -> Seq(Seq(Words))]
    <3> DEFINE e == <<>>
    <3>1. e \in Seq(Seq(Words)) /\ taskBox = <<e>>
      BY <2>1
    <3> HIDE DEF e
    <3> QED
      BY <3>1
  <2>3. W!Part = 1 .. 1
    BY <1>5
  <2> QED
    BY <2>1, <2>2, <2>3 DEF Boxes
<1>7. W!TallyIn({1}) = W!NoTally
  <2>1. \A w : Places(WordsOf({1}), w) = {}
    BY <1>5 DEF Places, WordsOf
  <2>2. W!TallyIn({1}) = [w \in Words |-> Cardinality(Places(WordsOf({1}), w))]
    BY <1>4, <1>5, TallyInIs
  <2> QED
    BY <2>1, <2>2, FS_EmptySet DEF W!NoTally
<1>8. ASettlement
  <2> DEFINE o == [j \in {} |-> 1]
  <2>1. /\ DOMAIN masterBox = {} /\ receivedMsg = 1 /\ totalRes = W!NoTally
        /\ taskBox[1] = <<>>
    BY DEF WOver
  <2>2. Cardinality({1}) = 1
    BY FS_Singleton
  <2>3. Settled({1}, o, masterBox, taskBox, receivedMsg, totalRes)
    BY <1>5, <1>7, <2>1, <2>2 DEF Settled
  <2> QED
    BY <2>3 DEF ASettlement
<1> QED
  BY <1>4, <1>6, <1>8, SettledConserves, <1>5 DEF WInv, Finish, WOver

(* What a step of an actor leaves to show.                                  *)
LEMMA WordsKept ==
  ASSUME WInv, UNCHANGED <<numWorker, dataArray>>, Boxes', Finish', W!WordsConserved'
  PROVE  WInv'
BY SameInput DEF WInv

(* Mapping puts every part in its worker's box, and none in the master's.   *)
LEMMA HandleMapWInv ==
  ASSUME WInv, W!HandleMap PROVE WInv'
<1>1. /\ masterBox # <<>> /\ Head(masterBox) = W!Map /\ masterBox' = Tail(masterBox)
      /\ taskBox' = [i \in W!Part |-> Append(taskBox[i], W!Slice(i))]
      /\ UNCHANGED <<numWorker, dataArray, totalRes, receivedMsg, wcMaster, finalRes, wcSystem>>
  BY DEF W!HandleMap, W!input, W!Part
<1>2. WInput /\ Boxes /\ Finish /\ W!WordsConserved
  BY DEF WInv
<1>3. Unmapped
  <2> SUFFICES ASSUME ASettlement PROVE FALSE
    BY <1>2, ConservedSettles
  <2>1. PICK m, o : Settled(m, o, masterBox, taskBox, receivedMsg, totalRes)
    BY DEF ASettlement
  <2>2. 1 \in DOMAIN masterBox /\ Head(masterBox) = masterBox[1]
    BY <1>1, <1>2 DEF Boxes
  <2>3. masterBox[1].kind = "reduce"
    BY <2>1, <2>2 DEF Settled, W!Reduce
  <2> QED
    BY <1>1, <2>2, <2>3 DEF W!Map
<1>4. masterBox' = <<>> /\ taskBox' = [i \in W!Part |-> <<W!Slice(i)>>]
  <2> DEFINE q == W!Map
  <2>1. masterBox = <<q>> /\ masterBox' = Tail(masterBox)
    BY <1>1, <1>3 DEF Unmapped
  <2>2. ASSUME NEW i \in W!Part PROVE Append(taskBox[i], W!Slice(i)) = <<W!Slice(i)>>
    <3>1. taskBox[i] = <<>>
      BY <1>3 DEF Unmapped
    <3> QED
      BY <3>1
  <2> HIDE DEF q
  <2> QED
    BY <1>1, <2>1, <2>2
<1>5. Boxes'
  <2>1. \A i \in W!Part : <<W!Slice(i)>> \in Seq(Seq(Words))
    BY <1>2, SliceIs
  <2>2. W!Part' = W!Part
    BY <1>1, SameInput
  <2> QED
    BY <1>4, <2>1, <2>2 DEF Boxes
<1>6. W!WordsConserved'
  <2> DEFINE o == [j \in {} |-> 1]
  <2>1. receivedMsg' = 0 /\ totalRes' = W!TallyIn({})
    BY <1>1, <1>2, <1>3, TallyNone DEF Unmapped
  <2>2. DOMAIN masterBox' = {}
    BY <1>4
  <2>3. Settled({}, o, masterBox', taskBox', receivedMsg', totalRes')
    BY <1>4, <2>1, <2>2, FS_EmptySet DEF Settled
  <2> QED
    BY <1>1, <2>3, SettledThen
<1> QED
  BY <1>1, <1>2, <1>5, <1>6, WordsKept DEF Finish

(* A worker takes a part from its box and its tally goes to the master.     *)
LEMMA WorkWInv ==
  ASSUME WInv, NEW i \in W!Part, W!Work(i) PROVE WInv'
<1>1. /\ taskBox[i] # <<>> /\ taskBox' = [taskBox EXCEPT ![i] = Tail(@)]
      /\ masterBox' = Append(masterBox, W!Reduce(W!TallyOf(Head(taskBox[i]))))
      /\ UNCHANGED <<numWorker, dataArray, totalRes, receivedMsg, wcMaster, finalRes, wcSystem>>
  BY DEF W!Work, W!input
<1>2. WInput /\ Boxes /\ Finish /\ W!WordsConserved
  BY DEF WInv
<1>3. PICK m, o : Settled(m, o, masterBox, taskBox, receivedMsg, totalRes)
  BY <1>1, <1>2, ConservedSettles DEF Unmapped, ASettlement
<1>4. /\ taskBox[i] = <<W!Slice(i)>> /\ i \notin m /\ \A j \in DOMAIN masterBox : o[j] # i
  BY <1>1, <1>3 DEF Settled
<1> DEFINE d == W!Reduce(W!TallyOf(W!Slice(i)))
<1>5. /\ taskBox' = [taskBox EXCEPT ![i] = <<>>] /\ masterBox' = Append(masterBox, d)
  BY <1>1, <1>4
<1>6. d \in Message
  BY <1>2, TallySlice DEF Message
<1> HIDE DEF d
<1>7. PICK n : n = Len(masterBox)
  OBVIOUS
<1>8. /\ n \in Nat /\ DOMAIN masterBox = 1 .. n /\ DOMAIN masterBox' = (1 .. n) \cup {n + 1}
      /\ n + 1 \notin 1 .. n /\ masterBox' \in Seq(Message)
      /\ masterBox'[n + 1] = d /\ \A j \in 1 .. n : masterBox'[j] = masterBox[j]
  BY <1>2, <1>5, <1>6, <1>7, Posted DEF Boxes
<1>9. Boxes'
  <2>1. W!Part' = W!Part
    BY <1>1, SameInput
  <2> QED
    BY <1>2, <1>5, <1>8, <2>1 DEF Boxes
<1>10. W!WordsConserved'
  <2> DEFINE p == [j \in (1 .. n) \cup {n + 1} |-> IF j = n + 1 THEN i ELSE o[j]]
  <2>1. p[n + 1] = i /\ \A j \in 1 .. n : p[j] = o[j]
    BY <1>8
  <2>2. p \in [DOMAIN masterBox' -> W!Part \ m]
    BY <1>3, <1>4, <1>8 DEF Settled
  <2> HIDE DEF p
  <2>3. \A j, k \in DOMAIN masterBox' : p[j] = p[k] => j = k
    BY <1>3, <1>4, <1>8, <2>1 DEF Settled
  <2>4. ASSUME NEW k \in W!Part
        PROVE  taskBox'[k] = IF k \in m \/ (\E j \in DOMAIN masterBox' : p[j] = k) THEN <<>> ELSE <<W!Slice(k)>>
    <3>1. (\E j \in DOMAIN masterBox' : p[j] = k) <=> k = i \/ \E j \in DOMAIN masterBox : o[j] = k
      BY <1>8, <2>1
    <3>2. taskBox'[k] = IF k = i THEN <<>> ELSE taskBox[k]
      BY <1>2, <1>5 DEF Boxes
    <3> QED
      BY <1>3, <3>1, <3>2 DEF Settled
  <2>5. \A j \in DOMAIN masterBox' : masterBox'[j] = W!Reduce(W!TallyOf(W!Slice(p[j])))
    BY <1>3, <1>8, <2>1 DEF Settled, d
  <2>6. Settled(m, p, masterBox', taskBox', receivedMsg', totalRes')
    BY <1>1, <1>3, <2>2, <2>3, <2>4, <2>5 DEF Settled
  <2> QED
    BY <1>1, <2>6, SettledThen
<1> QED
  BY <1>1, <1>2, <1>9, <1>10, WordsKept DEF Finish

(* Reducing moves a part's tally from the master's box into the total.      *)
LEMMA HandleReduceWInv ==
  ASSUME WInv, W!HandleReduce PROVE WInv'
<1>1. /\ wcMaster = "running" /\ masterBox # <<>> /\ Head(masterBox) # W!Map /\ masterBox' = Tail(masterBox)
      /\ totalRes' = W!Plus(totalRes, Head(masterBox).partData)
      /\ receivedMsg' = receivedMsg + 1
      /\ IF receivedMsg + 1 = numWorker
         THEN finalRes' = Append(finalRes, totalRes') /\ wcMaster' = "stopped"
         ELSE UNCHANGED <<finalRes, wcMaster>>
      /\ UNCHANGED <<numWorker, dataArray, taskBox, wcSystem>>
  BY DEF W!HandleReduce, W!input, W!MergeRes
<1>2. WInput /\ Boxes /\ Finish /\ W!WordsConserved
  BY DEF WInv
<1>3. PICK m, o : Settled(m, o, masterBox, taskBox, receivedMsg, totalRes)
  <2>1. ~Unmapped
    <3> DEFINE q == W!Map
    <3>1. Head(masterBox) # q /\ (Unmapped => masterBox = <<q>>)
      BY <1>1 DEF Unmapped
    <3> HIDE DEF q
    <3> QED
      BY <3>1
  <2> QED
    BY <1>2, <2>1, ConservedSettles DEF ASettlement
<1>4. PICK n : n = Len(masterBox)
  OBVIOUS
<1>5. /\ n \in Nat /\ n >= 1 /\ DOMAIN masterBox = 1 .. n /\ Head(masterBox) = masterBox[1]
      /\ DOMAIN masterBox' = 1 .. n - 1 /\ masterBox' \in Seq(Message)
      /\ \A j \in 1 .. n - 1 : masterBox'[j] = masterBox[j + 1]
  BY <1>1, <1>2, <1>4, Received DEF Boxes
<1>6. PICK i \in W!Part : i = o[1]
  BY <1>3, <1>5 DEF Settled
<1>7. /\ m \in SUBSET W!Part /\ i \notin m /\ receivedMsg = Cardinality(m) /\ totalRes = W!TallyIn(m)
      /\ Head(masterBox).partData = W!TallyOf(W!Slice(i))
  BY <1>3, <1>5, <1>6 DEF Settled, W!Reduce
<1>8. /\ totalRes' = W!TallyIn(m \cup {i})
      /\ receivedMsg' = Cardinality(m \cup {i})
  <2>1. totalRes' = W!TallyIn(m \cup {i})
    BY <1>1, <1>2, <1>7, TallyMore
  <2>2. IsFiniteSet(m)
    BY <1>2, <1>7, Parts
  <2> QED
    BY <1>1, <1>7, <2>1, <2>2, FS_AddElement
<1>9. Boxes'
  <2>1. W!Part' = W!Part
    BY <1>1, SameInput
  <2> QED
    BY <1>1, <1>2, <1>5, <2>1 DEF Boxes
<1>10. W!WordsConserved'
  <2> DEFINE p == [j \in 1 .. n - 1 |-> o[j + 1]]
  <2>1. \A j \in 1 .. n - 1 : p[j] = o[j + 1] /\ j + 1 \in 1 .. n /\ j + 1 # 1
    BY <1>5
  <2>2. \A j \in 1 .. n : j # 1 => j - 1 \in 1 .. n - 1 /\ p[j - 1] = o[j]
    BY <1>5
  <2>3. \A j \in 1 .. n - 1 : o[j + 1] \in W!Part \ (m \cup {i})
    BY <1>3, <1>5, <1>6, <2>1 DEF Settled
  <2>4. p \in [DOMAIN masterBox' -> W!Part \ (m \cup {i})]
    BY <1>5, <2>3
  <2> HIDE DEF p
  <2>5. \A j, k \in DOMAIN masterBox' : p[j] = p[k] => j = k
    <3> TAKE j, k \in DOMAIN masterBox'
    <3>1. j + 1 \in DOMAIN masterBox /\ k + 1 \in DOMAIN masterBox /\ p[j] = o[j + 1] /\ p[k] = o[k + 1]
      BY <1>5, <2>1
    <3>2. p[j] = p[k] => j + 1 = k + 1
      BY <1>3, <3>1 DEF Settled
    <3> QED
      BY <1>5, <3>2
  <2>6. ASSUME NEW k \in W!Part
        PROVE  taskBox'[k] = IF k \in m \cup {i} \/ (\E j \in DOMAIN masterBox' : p[j] = k)
                             THEN <<>> ELSE <<W!Slice(k)>>
    <3>1. ASSUME NEW j \in DOMAIN masterBox, o[j] = k
          PROVE  k = i \/ \E l \in DOMAIN masterBox' : p[l] = k
      BY <1>5, <1>6, <2>2, <3>1
    <3>2. ASSUME k = i \/ \E l \in DOMAIN masterBox' : p[l] = k
          PROVE  \E j \in DOMAIN masterBox : o[j] = k
      <4>1. CASE k = i
        BY <1>5, <1>6, <4>1
      <4>2. ASSUME NEW l \in DOMAIN masterBox', p[l] = k
            PROVE  \E j \in DOMAIN masterBox : o[j] = k
        <5>1. l + 1 \in DOMAIN masterBox /\ o[l + 1] = k
          BY <1>5, <2>1, <4>2
        <5> QED
          BY <5>1
      <4> QED
        BY <3>2, <4>1, <4>2
    <3> QED
      BY <1>1, <1>3, <3>1, <3>2 DEF Settled
  <2>7. \A j \in DOMAIN masterBox' : masterBox'[j] = W!Reduce(W!TallyOf(W!Slice(p[j])))
    BY <1>3, <1>5, <2>1 DEF Settled
  <2>8. m \cup {i} \in SUBSET W!Part
    BY <1>7
  <2>9. Settled(m \cup {i}, p, masterBox', taskBox', receivedMsg', totalRes')
    BY <1>8, <2>4, <2>5, <2>6, <2>7, <2>8 DEF Settled
  <2> QED
    BY <1>1, <2>9, SettledThen
<1>11. Finish'
  <2>1. finalRes = <<>> /\ receivedMsg # numWorker
    BY <1>1, <1>2 DEF Finish
  <2>2. finalRes' = IF wcMaster' = "stopped" THEN <<totalRes'>> ELSE <<>>
    <3> DEFINE t == totalRes'
    <3> HIDE DEF t
    <3>1. Append(<<>>, t) = <<t>>
      OBVIOUS
    <3> QED
      BY <1>1, <2>1, <3>1 DEF t
  <2> QED
    BY <1>1, <1>2, <2>2 DEF Finish
<1> QED
  BY <1>1, <1>2, <1>9, <1>10, <1>11, WordsKept

(* Every step of the count keeps its invariant.                             *)
LEMMA WordsStep ==
  ASSUME WInv, [W!Next]_(W!vars) PROVE WInv'
<1>1. ASSUME UNCHANGED <<numWorker, dataArray, masterBox, taskBox, totalRes, receivedMsg, wcMaster, finalRes>>,
             wcSystem' \in {wcSystem, "down"}
      PROVE  WInv'
  <2>1. WInput /\ Boxes /\ Finish /\ W!WordsConserved
    BY DEF WInv
  <2>2. W!Part' = W!Part
    BY <1>1, SameInput
  <2>3. W!WordsConserved'
    <3>1. CASE Unmapped
      BY <1>1, <2>2, <3>1 DEF Unmapped, W!WordsConserved
    <3>2. CASE ~Unmapped
      <4>1. PICK m, o : Settled(m, o, masterBox, taskBox, receivedMsg, totalRes)
        BY <2>1, <3>2, ConservedSettles DEF ASettlement
      <4> QED
        BY <1>1, <4>1, SettledThen
    <3> QED
      BY <3>1, <3>2
  <2> QED
    BY <1>1, <2>1, <2>2, <2>3, WordsKept DEF Boxes, Finish
<1>2. CASE UNCHANGED W!vars
  BY <1>1, <1>2 DEF W!vars
<1>3. CASE W!Listen
  BY <1>1, <1>3 DEF W!Listen, W!input
<1>4. ASSUME NEW i \in W!Part, W!Work(i) PROVE WInv'
  BY <1>4, WorkWInv
<1> QED
  BY <1>2, <1>3, <1>4, HandleMapWInv, HandleReduceWInv DEF W!Next, W!Part

(* What is received is the number of parts that were merged; when it is all *)
(* of them, the total is the tally of the text.                             *)
LEMMA WordsCounted == WInv => CountsRight
<1> SUFFICES ASSUME WInv PROVE CountsRight
  OBVIOUS
<1>1. WInput /\ Boxes /\ Finish /\ W!WordsConserved /\ numWorker \in Nat /\ numWorker >= 1
  BY PartSize DEF WInv
<1>2. receivedMsg \in 0 .. numWorker /\ totalRes \in W!Tally
      /\ (receivedMsg = numWorker => totalRes = W!TallyOf(W!Counted))
  <2>1. CASE Unmapped
    BY <1>1, <2>1 DEF Unmapped, W!NoTally, W!Tally
  <2>2. CASE ~Unmapped
    <3>1. PICK m, o : Settled(m, o, masterBox, taskBox, receivedMsg, totalRes)
      BY <1>1, <2>2, ConservedSettles DEF ASettlement
    <3>2. m \in SUBSET W!Part /\ receivedMsg = Cardinality(m) /\ totalRes = W!TallyIn(m)
      BY <3>1 DEF Settled
    <3>3. Cardinality(m) \in 0 .. numWorker /\ (Cardinality(m) = numWorker => m = W!Part)
      BY <1>1, <3>2, Parts
    <3>4. totalRes \in W!Tally
      BY <1>1, <3>2, TallyInIs
    <3> QED
      BY <1>1, <3>2, <3>3, <3>4, TallyAll
  <2> QED
    BY <2>1, <2>2
<1>3. \A x \in W!ToSet(masterBox) : x = W!Map \/ x.partData \in W!Tally
  <2> TAKE x \in W!ToSet(masterBox)
  <2>1. x \in Message
    BY <1>1 DEF W!ToSet, Boxes
  <2> QED
    BY <2>1 DEF Message, W!Reduce
<1>4. finalRes \in Seq(W!Tally) /\ Len(finalRes) <= 1
      /\ \A k \in DOMAIN finalRes : finalRes[k] = totalRes /\ receivedMsg = numWorker
  <2> DEFINE t == totalRes
  <2>1. t \in W!Tally /\ finalRes = IF wcMaster = "stopped" THEN <<t>> ELSE <<>>
    BY <1>1, <1>2 DEF Finish
  <2> HIDE DEF t
  <2>2. CASE wcMaster = "stopped"
    <3>1. receivedMsg = numWorker
      BY <1>1, <2>2 DEF Finish
    <3> QED
      BY <2>1, <2>2, <3>1 DEF t
  <2>3. CASE wcMaster # "stopped"
    BY <2>1, <2>3
  <2> QED
    BY <2>2, <2>3
<1>5. W!TypeOK
  BY <1>1, <1>2, <1>3, <1>4 DEF W!TypeOK, WInput, Boxes, Finish, W!Part
<1>6. W!RightResult
  BY <1>2, <1>4 DEF W!RightResult
<1> QED
  BY <1>1, <1>5, <1>6 DEF CountsRight

-----------------------------------------------------------------------------
(* Pi: its messages.                                                         *)

PN == args.nrOfWorkers
PM == args.nrOfMessages
PE == args.nrOfElements
PInput == args \in [nrOfWorkers : P!Worker, nrOfMessages : 0 .. MaxMessages, nrOfElements : 0 .. MaxElements]

(* The arguments are naturals, and the last element is their product.       *)
LEMMA PArgs ==
  ASSUME PInput
  PROVE  /\ PN \in Nat /\ PN >= 1 /\ PM \in Nat /\ PE \in Nat /\ PN <= MaxWorkers /\ MaxWorkers \in Nat
         /\ PM <= MaxMessages /\ PM * PE \in Nat /\ P!Last = PM * PE
BY ExamplesAssumption DEF PInput, PN, PM, PE, P!Worker, P!PiAssumption, P!Last

(* Worker w gets message Turn(q, w) in round q, if there are so many.       *)
Turn(q, w) == q * PN + w - 1
Rounds == {d \in Nat \X (1 .. PN) : Turn(d[1], d[2]) < PM}
StartOf(d) == P!Wrap(Turn(d[1], d[2]) * PE)

(* A number is its quotient's multiple and its remainder.                   *)
LEMMA Splits ==
  ASSUME NEW i \in Nat, NEW n \in Nat, n >= 1
  PROVE  i \div n \in Nat /\ i % n \in 0 .. n - 1 /\ i = (i \div n) * n + (i % n)
OBVIOUS

(* Quotient and remainder determine each other's number.                    *)
LEMMA OneTurn ==
  ASSUME NEW n \in Nat, NEW q \in Nat, NEW v \in 0 .. n - 1, NEW p \in Nat, NEW u \in 0 .. n - 1,
         q * n + v = p * n + u
  PROVE  q = p /\ v = u
<1>1. ASSUME NEW x \in Nat, NEW y \in Nat, NEW s \in 0 .. n - 1, NEW t \in 0 .. n - 1, x < y
      PROVE  x * n + s < y * n + t
  <2>1. (x + 1) * n <= y * n /\ (x + 1) * n = x * n + n
    BY <1>1, Grows
  <2> QED
    BY <2>1
<1>2. ~(q < p) /\ ~(p < q)
  <2>1. q * n + v \in Nat /\ p * n + u \in Nat
    OBVIOUS
  <2> QED
    BY <1>1, <2>1
<1>3. q = p
  BY <1>2
<1> QED
  BY <1>3

(* The rounds of the router are the start messages, one for one.            *)
LEMMA Turns ==
  ASSUME PInput
  PROVE  /\ \A d \in Rounds : d = <<d[1], d[2]>> /\ d[1] \in Nat /\ d[2] \in 1 .. PN
                              /\ Turn(d[1], d[2]) \in 0 .. PM - 1
         /\ \A i \in 0 .. PM - 1 : <<i \div PN, (i % PN) + 1>> \in Rounds
                                   /\ Turn(i \div PN, (i % PN) + 1) = i
         /\ \A d, e \in Rounds : Turn(d[1], d[2]) = Turn(e[1], e[2]) => d = e
         /\ \A i \in 0 .. PM - 1 : \E d \in Rounds : Turn(d[1], d[2]) = i
<1>1. PN \in Nat /\ PN >= 1 /\ PM \in Nat
  BY PArgs
<1>2. \A d \in Rounds : d = <<d[1], d[2]>> /\ d[1] \in Nat /\ d[2] \in 1 .. PN /\ Turn(d[1], d[2]) < PM
  BY DEF Rounds
<1>3. ASSUME NEW q \in Nat, NEW w \in 1 .. PN
      PROVE  Turn(q, w) \in Nat /\ Turn(q, w) = q * PN + (w - 1) /\ w - 1 \in 0 .. PN - 1
  <2>1. q * PN \in Nat /\ w - 1 \in 0 .. PN - 1 /\ w \in Nat
    BY <1>1
  <2> QED
    BY <2>1 DEF Turn
<1>4. ASSUME NEW i \in 0 .. PM - 1
      PROVE  /\ <<i \div PN, (i % PN) + 1>> \in Rounds
             /\ Turn(i \div PN, (i % PN) + 1) = i
  <2>1. i \div PN \in Nat /\ i % PN \in 0 .. PN - 1 /\ i = (i \div PN) * PN + (i % PN)
    <3>1. i \in Nat
      BY <1>1
    <3> QED
      BY <1>1, <3>1
  <2> DEFINE q == i \div PN
             w == (i % PN) + 1
  <2>2. q \in Nat /\ w \in 1 .. PN /\ i = q * PN + (w - 1)
    BY <1>1, <2>1
  <2> HIDE DEF q, w
  <2>3. Turn(q, w) = i /\ i < PM
    BY <1>1, <1>3, <2>2
  <2>4. <<q, w>> \in Rounds
    BY <2>2, <2>3 DEF Rounds
  <2> QED
    BY <2>3, <2>4 DEF q, w
<1>5. ASSUME NEW d \in Rounds, NEW e \in Rounds, Turn(d[1], d[2]) = Turn(e[1], e[2])
      PROVE  d = e
  <2>1. /\ d[1] \in Nat /\ e[1] \in Nat /\ d[2] \in 1 .. PN /\ e[2] \in 1 .. PN
        /\ d = <<d[1], d[2]>> /\ e = <<e[1], e[2]>>
    BY <1>2
  <2>2. d[1] * PN + (d[2] - 1) = e[1] * PN + (e[2] - 1) /\ d[2] - 1 \in 0 .. PN - 1 /\ e[2] - 1 \in 0 .. PN - 1
    BY <1>3, <1>5, <2>1
  <2>3. d[1] = e[1] /\ d[2] - 1 = e[2] - 1
    BY <1>1, <2>1, <2>2, OneTurn
  <2> QED
    BY <2>1, <2>3
<1>6. \A d \in Rounds : Turn(d[1], d[2]) \in 0 .. PM - 1
  BY <1>1, <1>2, <1>3
<1>7. \A i \in 0 .. PM - 1 : \E d \in Rounds : Turn(d[1], d[2]) = i
  <2> TAKE i \in 0 .. PM - 1
  <2> DEFINE d == <<i \div PN, (i % PN) + 1>>
  <2>1. d \in Rounds /\ Turn(d[1], d[2]) = i
    BY <1>4
  <2> QED
    BY <2>1
<1> QED
  BY <1>2, <1>4, <1>5, <1>6, <1>7

(* There are as many rounds as messages.                                    *)
LEMMA RoundsCount ==
  ASSUME PInput PROVE IsFiniteSet(Rounds) /\ Cardinality(Rounds) = PM
<1> DEFINE f == [i \in 0 .. PM - 1 |-> <<i \div PN, (i % PN) + 1>>]
<1>1. /\ \A i \in 0 .. PM - 1 : f[i] \in Rounds /\ Turn(f[i][1], f[i][2]) = i
      /\ \A d \in Rounds : Turn(d[1], d[2]) \in 0 .. PM - 1
      /\ \A d, e \in Rounds : Turn(d[1], d[2]) = Turn(e[1], e[2]) => d = e
  BY Turns
<1>2. f \in [0 .. PM - 1 -> Rounds]
  BY <1>1
<1> HIDE DEF f
<1>3. IsInjective(f)
  <2>1. ASSUME NEW i \in 0 .. PM - 1, NEW j \in 0 .. PM - 1, f[i] = f[j] PROVE i = j
    BY <1>1, <2>1
  <2> QED
    BY <1>2, <2>1 DEF IsInjective
<1>4. \A d \in Rounds : \E i \in 0 .. PM - 1 : f[i] = d
  BY <1>1
<1>5. f \in Bijection(0 .. PM - 1, Rounds)
  BY <1>2, <1>3, <1>4 DEF Bijection, Injection, Surjection
<1>6. ExistsBijection(0 .. PM - 1, Rounds)
  BY <1>5 DEF ExistsBijection
<1>7. PM \in Nat
  BY PArgs
<1>8. IsFiniteSet(0 .. PM - 1) /\ Cardinality(0 .. PM - 1) = PM
  BY <1>7, FS_Interval
<1> QED
  BY <1>6, <1>8, FS_Bijection

(* The messages of worker w: as many as Calculate counts.                   *)
Mine(w) == {i \in 0 .. PM - 1 : i % PN = w - 1}

(* What worker w gets in all: the messages w, w + n, w + 2n, up to the last.*)
LEMMA Share ==
  ASSUME PInput, NEW w \in P!Worker
  PROVE  /\ Cardinality(Mine(w)) \in Nat
         /\ \A j \in Nat \ {0} : j <= Cardinality(Mine(w)) <=> w <= PN /\ Turn(j - 1, w) < PM
<1>1. PN \in Nat /\ PN >= 1 /\ PM \in Nat /\ w \in Nat /\ w >= 1
  BY PArgs DEF P!Worker
<1>2. CASE w > PN
  <2>1. Mine(w) = {}
    BY <1>1, <1>2, Splits DEF Mine
  <2> QED
    BY <1>1, <1>2, <2>1, FS_EmptySet
<1>3. CASE w <= PN
  <2> DEFINE K == {j \in 1 .. PM : Turn(j - 1, w) < PM}
             n == PN
             v == w - 1
  <2>1. v \in 0 .. n - 1 /\ n \in Nat /\ n >= 1
    BY <1>1, <1>3
  <2>2. PICK c \in Nat : \A j \in Nat \ {0} : j <= c <=> Turn(j - 1, w) < PM
    <3>1. CASE PM <= v
      <4>1. \A j \in Nat \ {0} : Turn(j - 1, w) >= v
        BY <1>1, <2>1 DEF Turn
      <4>2. \A j \in Nat \ {0} : ~(j <= 0) /\ ~(Turn(j - 1, w) < PM)
        <5> TAKE j \in Nat \ {0}
        <5>1. (j - 1) * PN \in Nat
          BY <1>1
        <5> QED
          BY <1>1, <3>1, <4>1, <5>1 DEF Turn
      <4> QED
        BY <4>2
    <3>2. CASE v < PM
      <4> DEFINE x == PM - 1 - v
                 q == x \div n
      <4>1. x \in Nat
        BY <1>1, <2>1, <3>2
      <4>2. q \in Nat /\ x % n \in 0 .. n - 1 /\ x = q * n + (x % n)
        BY <2>1, <4>1, Splits
      <4>3. ASSUME NEW j \in Nat \ {0} PROVE j <= q + 1 <=> Turn(j - 1, w) < PM
        <5> DEFINE k == j - 1
        <5>1. k \in Nat /\ (j <= q + 1 <=> k <= q) /\ k * n \in Nat
          BY <2>1, <4>2
        <5>2. Turn(k, w) = k * n + v /\ (Turn(k, w) < PM <=> k * n <= x)
          BY <1>1, <2>1, <5>1 DEF Turn
        <5> HIDE DEF k, q, x
        <5>3. k <= q => k * n <= q * n
          BY <2>1, <4>2, <5>1, Grows
        <5>4. ~(k <= q) => (q + 1) * n <= k * n /\ (q + 1) * n = q * n + n
          BY <2>1, <4>2, <5>1, Grows
        <5>5. q * n \in Nat
          BY <2>1, <4>2
        <5>6. k <= q <=> k * n <= x
          BY <2>1, <4>1, <4>2, <5>1, <5>3, <5>4, <5>5
        <5> QED
          BY <5>1, <5>2, <5>6 DEF k
      <4>4. q + 1 \in Nat
        BY <4>2
      <4> HIDE DEF q
      <4> QED
        BY <4>3, <4>4
    <3> QED
      BY <1>1, <2>1, <3>1, <3>2
  <2> DEFINE f == [j \in 1 .. c |-> Turn(j - 1, w)]
  <2>3. ASSUME NEW j \in 1 .. c
        PROVE  Turn(j - 1, w) \in Mine(w) /\ Turn(j - 1, w) \div n = j - 1
    <3>1. j - 1 \in Nat /\ Turn(j - 1, w) < PM /\ Turn(j - 1, w) = (j - 1) * n + v /\ (j - 1) * n + v \in Nat
      BY <1>1, <2>1, <2>2 DEF Turn
    <3> DEFINE i == (j - 1) * n + v
    <3>2. i \div n \in Nat /\ i % n \in 0 .. n - 1 /\ i = (i \div n) * n + (i % n)
      BY <2>1, <3>1, Splits
    <3>3. i = (j - 1) * n + v
      OBVIOUS
    <3> HIDE DEF i
    <3>4. i \div n = j - 1 /\ i % n = v
      <4> DEFINE p == i \div n
                 u == i % n
      <4>1. p \in Nat /\ u \in 0 .. n - 1 /\ p * n + u = (j - 1) * n + v
        BY <3>2, <3>3
      <4> HIDE DEF p, u
      <4>2. n \in Nat /\ v \in 0 .. n - 1 /\ j - 1 \in Nat
        BY <2>1, <3>1
      <4>3. p = j - 1 /\ u = v
        BY <4>1, <4>2, OneTurn
      <4> QED
        BY <4>3 DEF p, u
    <3> QED
      BY <1>1, <3>1, <3>4 DEF Mine, i
  <2>4. ASSUME NEW i \in Mine(w) PROVE (i \div n) + 1 \in 1 .. c /\ Turn(i \div n, w) = i
    <3>1. i \in Nat /\ i < PM /\ i % n = v
      BY <1>1 DEF Mine
    <3>2. i \div n \in Nat /\ i = (i \div n) * n + v
      <4>1. i \div n \in Nat /\ i = (i \div n) * n + (i % n)
        BY <2>1, <3>1
      <4> QED
        BY <3>1, <4>1
    <3> DEFINE q == i \div n
    <3> HIDE DEF q
    <3>3. q \in Nat /\ i = q * n + v
      BY <3>2 DEF q
    <3>4. Turn(q, w) = i
      BY <1>1, <3>3 DEF Turn
    <3>5. q + 1 <= c
      BY <2>2, <3>1, <3>3, <3>4
    <3> QED
      BY <2>2, <3>3, <3>4, <3>5 DEF q
  <2> HIDE DEF n, v
  <2>5. f \in [1 .. c -> Mine(w)]
    BY <2>3
  <2>6. IsInjective(f)
    <3>1. ASSUME NEW j \in 1 .. c, NEW k \in 1 .. c, Turn(j - 1, w) = Turn(k - 1, w) PROVE j = k
      BY <2>2, <2>3, <3>1
    <3> QED
      BY <3>1 DEF IsInjective
  <2>7. \A i \in Mine(w) : \E j \in 1 .. c : f[j] = i
    <3> TAKE i \in Mine(w)
    <3> DEFINE k == (i \div n) + 1
    <3>1. k \in 1 .. c /\ k - 1 = i \div n
      <4>1. i \in Nat
        BY <1>1 DEF Mine
      <4>2. i \div n \in Nat
        BY <2>1, <4>1
      <4> QED
        BY <2>4, <4>2
    <3> HIDE DEF k
    <3>2. f[k] = i
      BY <2>4, <3>1
    <3> QED
      BY <3>1, <3>2
  <2>8. ExistsBijection(1 .. c, Mine(w))
    BY <2>5, <2>6, <2>7 DEF ExistsBijection, Bijection, Injection, Surjection
  <2>9. Cardinality(Mine(w)) = c
    BY <2>8, FS_CountingElements
  <2> QED
    BY <1>3, <2>2, <2>9
<1> QED
  BY <1>1, <1>2, <1>3

-----------------------------------------------------------------------------
(* Pi: its invariant.                                                        *)

(* After q rounds box holds what is left for worker w.                      *)
Left(q, w, box) ==
  /\ \A j \in Nat \ {0} : j \in DOMAIN box <=> w <= PN /\ Turn(q + j - 1, w) < PM
  /\ \A j \in DOMAIN box : box[j] = StartOf(<<q + j - 1, w>>)

(* Worker w has answered its first c[w] messages; r and p say which message *)
(* each result on its way and each one added is of, every one of those once.*)
Dealt(c, r, p, boxes, on, sum) ==
  /\ c \in [P!Worker -> Nat]
  /\ r \in [DOMAIN on -> Rounds] /\ p \in [DOMAIN sum -> Rounds]
  /\ \A j, k \in DOMAIN on : r[j] = r[k] => j = k
  /\ \A j, k \in DOMAIN sum : p[j] = p[k] => j = k
  /\ \A j \in DOMAIN on : \A k \in DOMAIN sum : r[j] # p[k]
  /\ \A d \in Rounds : d[1] < c[d[2]] <=> \/ \E j \in DOMAIN on : r[j] = d
                                          \/ \E k \in DOMAIN sum : p[k] = d
  /\ \A j \in DOMAIN on : on[j] = StartOf(r[j])
  /\ \A k \in DOMAIN sum : sum[k] = StartOf(p[k])
  /\ \A w \in P!Worker : Left(c[w], w, boxes[w])
ADeal == \E c, r, p : Dealt(c, r, p, work, results, pi)

(* Before Calculate is received.                                            *)
Undealt ==
  /\ work = [w \in P!Worker |-> <<>>] /\ results = <<>> /\ pi = <<>> /\ approximation = <<>>
  /\ piMaster = "running"

PBoxes == work \in [P!Worker -> Seq(Int)] /\ results \in Seq(Int) /\ pi \in Seq(Int)
PFinish ==
  /\ calculate \in BOOLEAN /\ piSystem \in {"up", "down"} /\ piMaster \in {"running", "stopped"}
  /\ nrOfResults = Len(pi)
  /\ piMaster = "running" => approximation = <<>>
  /\ piMaster = "stopped" => /\ ~calculate /\ nrOfResults = PM
                             /\ approximation = <<pi>> \/ (PM = 0 /\ approximation = <<>>)

PInv == PInput /\ PBoxes /\ PFinish /\ IF calculate THEN Undealt ELSE ADeal

(* Wrapped numbers are numbers.                                             *)
LEMMA WrapInt == ASSUME NEW x \in Int PROVE P!Wrap(x) \in Int
<1>1. Half \in Nat /\ Half >= 1
  BY ExamplesAssumption DEF P!PiAssumption
<1> QED
  BY <1>1 DEF P!Wrap

(* A number an Int has room for is not wrapped.                             *)
LEMMA WrapFits == ASSUME NEW x \in 0 .. Half - 1 PROVE P!Wrap(x) = x
<1>1. Half \in Nat /\ Half >= 1 /\ x \in Nat /\ x + Half \in 0 .. 2 * Half - 1
  BY ExamplesAssumption DEF P!PiAssumption
<1>2. (x + Half) % (2 * Half) = x + Half
  BY <1>1
<1> QED
  BY <1>1, <1>2 DEF P!Wrap

(* The start of a message is a number.                                      *)
LEMMA StartInt == ASSUME PInput, NEW d \in Rounds PROVE StartOf(d) \in Int
<1>1. Turn(d[1], d[2]) \in 0 .. PM - 1 /\ PM \in Nat /\ PE \in Nat
  BY Turns, PArgs
<1>2. Turn(d[1], d[2]) * PE \in Int
  BY <1>1
<1> QED
  BY <1>2, WrapInt DEF StartOf

(* The arguments stay, and with them the rounds and their starts.           *)
LEMMA SameArgs ==
  ASSUME UNCHANGED args
  PROVE  /\ PInput' <=> PInput
         /\ Rounds' = Rounds /\ PM' = PM /\ PN' = PN /\ PE' = PE
         /\ \A d : StartOf(d)' = StartOf(d)
         /\ \A q, w : Turn(q, w)' = Turn(q, w)
BY DEF PInput, Rounds, PM, PN, PE, StartOf, Turn

(* A deal of the boxes of the next state.                                   *)
LEMMA DealtThen ==
  ASSUME UNCHANGED args, NEW c, NEW r, NEW p, Dealt(c, r, p, work', results', pi')
  PROVE  ADeal'
BY SameArgs DEF ADeal, Dealt, Left

(* Before the calculation nothing is dealt.                                 *)
LEMMA PiStarts == P!Init => PInv
<1> SUFFICES ASSUME P!Init PROVE PInv
  OBVIOUS
<1>1. PInput /\ Undealt /\ calculate = TRUE /\ nrOfResults = 0 /\ piSystem = "up"
  BY DEF P!Init, PInput, Undealt
<1>2. PBoxes
  BY <1>1 DEF PBoxes, Undealt
<1>3. PFinish
  BY <1>1 DEF PFinish, Undealt
<1> QED
  BY <1>1, <1>2, <1>3 DEF PInv

(* The ended calculation has nothing in its boxes.                          *)
LEMMA PiOver == POver => PInv
<1> SUFFICES ASSUME POver PROVE PInv
  OBVIOUS
<1>1. /\ args = [nrOfWorkers |-> 1, nrOfMessages |-> 0, nrOfElements |-> 0]
      /\ calculate = FALSE /\ work = [w \in P!Worker |-> <<>>]
      /\ results = <<>> /\ pi = <<>> /\ nrOfResults = 0
      /\ piMaster = "stopped" /\ approximation = <<>> /\ piSystem = "down"
  BY DEF POver, P!Worker
<1>2. PN = 1 /\ PM = 0 /\ PE = 0
  BY <1>1 DEF PN, PM, PE
<1>3. PInput
  BY <1>1, ExamplesAssumption DEF PInput, P!PiAssumption, P!Worker
<1>4. PBoxes
  BY <1>1 DEF PBoxes
<1>5. PFinish
  BY <1>1, <1>2 DEF PFinish
<1>6. ADeal
  <2> DEFINE c == [w \in P!Worker |-> 0]
             r == [j \in {} |-> 0]
  <2>1. Rounds = {}
    <3>1. \A d \in Rounds : Turn(d[1], d[2]) \in 0 .. PM - 1
      BY <1>3, Turns
    <3> QED
      BY <1>2, <3>1
  <2>2. \A w \in P!Worker, j \in Nat \ {0} : ~(Turn(c[w] + j - 1, w) < PM)
    BY <1>2, ExamplesAssumption DEF Turn, P!Worker, P!PiAssumption
  <2>3. DOMAIN results = {} /\ DOMAIN pi = {} /\ \A w \in P!Worker : DOMAIN work[w] = {}
    BY <1>1
  <2>4. Dealt(c, r, r, work, results, pi)
    BY <2>1, <2>2, <2>3 DEF Dealt, Left
  <2> QED
    BY <2>4 DEF ADeal
<1> QED
  BY <1>1, <1>3, <1>4, <1>5, <1>6 DEF PInv

(* The router deals the messages in turn, so each round is in one box.      *)
LEMMA CalculatePInv ==
  ASSUME PInv, P!Calculate PROVE PInv'
<1>1. /\ calculate /\ calculate' = FALSE
      /\ UNCHANGED <<args, results, pi, nrOfResults, piMaster, approximation, piSystem>>
      /\ work' = [w \in P!Worker |-> [j \in 1 .. Cardinality(Mine(w)) |->
                    P!Wrap(((j - 1) * PN + w - 1) * PE)]]
  BY DEF P!Calculate, Mine, PN, PM, PE, P!Cardinality, Cardinality
<1>2. PInput /\ PBoxes /\ PFinish /\ Undealt
  BY <1>1 DEF PInv
<1>3. PN \in Nat /\ PN >= 1 /\ PM \in Nat /\ PE \in Nat
  BY <1>2, PArgs
<1>4. ASSUME NEW w \in P!Worker
      PROVE  /\ work'[w] \in Seq(Int)
             /\ \A j \in Nat \ {0} : j \in DOMAIN work'[w] <=> w <= PN /\ Turn(j - 1, w) < PM
             /\ \A j \in DOMAIN work'[w] : work'[w][j] = StartOf(<<j - 1, w>>)
  <2> DEFINE n == Cardinality(Mine(w))
             s == [j \in 1 .. n |-> P!Wrap(((j - 1) * PN + w - 1) * PE)]
  <2>1. n \in Nat /\ \A j \in Nat \ {0} : j <= n <=> w <= PN /\ Turn(j - 1, w) < PM
    BY <1>2, Share
  <2>2. work'[w] = s
    BY <1>1
  <2> HIDE DEF n
  <2>3. \A j \in 1 .. n : P!Wrap(((j - 1) * PN + w - 1) * PE) \in Int
    <3> TAKE j \in 1 .. n
    <3>1. j \in Nat /\ w \in Int
      BY <2>1 DEF P!Worker
    <3>2. ((j - 1) * PN + w - 1) * PE \in Int
      BY <1>3, <3>1
    <3> QED
      BY <3>2, WrapInt
  <2>4. s \in Seq(Int) /\ DOMAIN s = 1 .. n
    BY <2>1, <2>3
  <2>5. \A j \in 1 .. n : s[j] = StartOf(<<j - 1, w>>)
    BY DEF StartOf, Turn
  <2> HIDE DEF s
  <2>6. \A j \in Nat \ {0} : j \in 1 .. n <=> j <= n
    BY <2>1
  <2> QED
    BY <2>1, <2>2, <2>4, <2>5, <2>6
<1>5. DOMAIN results' = {} /\ DOMAIN pi' = {}
  BY <1>1, <1>2 DEF Undealt
<1>6. PBoxes'
  <2>1. work' \in [P!Worker -> Seq(Int)]
    BY <1>1, <1>4
  <2> QED
    BY <1>1, <1>2, <2>1 DEF PBoxes
<1>7. ADeal'
  <2> DEFINE c == [w \in P!Worker |-> 0]
             r == [j \in {} |-> 0]
  <2>1. \A d \in Rounds : d[2] \in P!Worker /\ ~(d[1] < c[d[2]])
    <3> TAKE d \in Rounds
    <3>1. d[1] \in Nat /\ d[2] \in 1 .. PN
      BY <1>2, Turns
    <3>2. d[2] \in P!Worker
      BY <1>2, <3>1, PArgs DEF P!Worker
    <3> QED
      BY <3>1, <3>2
  <2>2. \A w \in P!Worker, j \in Nat : c[w] + j - 1 = j - 1 /\ c[w] \in Nat
    OBVIOUS
  <2>3. ASSUME NEW w \in P!Worker
        PROVE  Left(c[w], w, work'[w])
    <3>1. \A j \in DOMAIN work'[w] : j \in Nat
      BY <1>4
    <3> QED
      BY <1>4, <2>2, <3>1 DEF Left
  <2>4. c \in [P!Worker -> Nat] /\ r \in [DOMAIN results' -> Rounds] /\ r \in [DOMAIN pi' -> Rounds]
    BY <1>5
  <2> HIDE DEF c, r
  <2>5. Dealt(c, r, r, work', results', pi')
    BY <1>5, <2>1, <2>3, <2>4 DEF Dealt
  <2> QED
    BY <1>1, <2>5, DealtThen
<1>8. PInput' /\ PFinish'
  BY <1>1, <1>2, SameArgs DEF PFinish, Undealt
<1> QED
  BY <1>1, <1>6, <1>7, <1>8 DEF PInv

(* A worker takes its oldest start, and its result goes to the master.      *)
LEMMA PiWorkPInv ==
  ASSUME PInv, NEW w \in P!Worker, P!Work(w) PROVE PInv'
<1>1. /\ work[w] # <<>> /\ work' = [work EXCEPT ![w] = Tail(@)]
      /\ results' = Append(results, Head(work[w]))
      /\ UNCHANGED <<args, calculate, pi, nrOfResults, piMaster, approximation, piSystem>>
  BY DEF P!Work
<1>2. PInput /\ PBoxes /\ PFinish /\ ~calculate /\ ADeal
  BY <1>1 DEF PInv, Undealt
<1>3. PICK c, r, p : Dealt(c, r, p, work, results, pi)
  BY <1>2 DEF ADeal
<1>4. PICK n, l, x : n = Len(results) /\ l = Len(work[w]) /\ x = Head(work[w])
  OBVIOUS
<1>5. /\ l \in Nat /\ l >= 1 /\ DOMAIN work[w] = 1 .. l /\ x = work[w][1]
      /\ DOMAIN work'[w] = 1 .. l - 1 /\ work'[w] \in Seq(Int)
      /\ \A j \in 1 .. l - 1 : work'[w][j] = work[w][j + 1]
      /\ \A v \in P!Worker : v # w => work'[v] = work[v]
      /\ work' \in [P!Worker -> Seq(Int)] /\ x \in Int
  <2>1. work[w] \in Seq(Int)
    BY <1>2 DEF PBoxes
  <2>2. work'[w] = Tail(work[w]) /\ \A v \in P!Worker : v # w => work'[v] = work[v]
    BY <1>1, <1>2 DEF PBoxes
  <2>3. /\ l \in Nat /\ l >= 1 /\ DOMAIN work[w] = 1 .. l /\ x = work[w][1]
        /\ DOMAIN work'[w] = 1 .. l - 1 /\ work'[w] \in Seq(Int)
        /\ \A j \in 1 .. l - 1 : work'[w][j] = work[w][j + 1]
    <3>1. PICK s : s = work[w]
      OBVIOUS
    <3>2. s \in Seq(Int) /\ s # <<>> /\ l = Len(s) /\ x = Head(s) /\ work'[w] = Tail(s)
      BY <1>1, <1>4, <2>1, <2>2, <3>1
    <3>3. /\ l \in Nat /\ l >= 1 /\ DOMAIN s = 1 .. l /\ Head(s) = s[1] /\ DOMAIN Tail(s) = 1 .. l - 1
          /\ Tail(s) \in Seq(Int) /\ \A j \in 1 .. l - 1 : Tail(s)[j] = s[j + 1]
      BY <3>2, Received
    <3> QED
      BY <3>1, <3>2, <3>3
  <2> QED
    BY <1>1, <1>2, <2>1, <2>2, <2>3 DEF PBoxes
<1>6. /\ n \in Nat /\ DOMAIN results = 1 .. n /\ DOMAIN results' = (1 .. n) \cup {n + 1}
      /\ n + 1 \notin 1 .. n /\ results' \in Seq(Int)
      /\ results'[n + 1] = x /\ \A j \in 1 .. n : results'[j] = results[j]
  BY <1>1, <1>2, <1>4, <1>5, Posted DEF PBoxes
<1>7. PBoxes'
  BY <1>1, <1>2, <1>5, <1>6 DEF PBoxes
<1> DEFINE d == <<c[w], w>>
<1>8. c[w] \in Nat /\ w \in Nat /\ w >= 1
  BY <1>3, ExamplesAssumption DEF Dealt, P!Worker, P!PiAssumption
<1>9. w <= PN /\ Turn(c[w], w) < PM /\ x = StartOf(d)
  <2>1. c[w] + 1 - 1 = c[w] /\ 1 \in DOMAIN work[w]
    BY <1>5, <1>8
  <2>2. Left(c[w], w, work[w])
    BY <1>3 DEF Dealt
  <2>3. w <= PN /\ Turn(c[w] + 1 - 1, w) < PM /\ work[w][1] = StartOf(<<c[w] + 1 - 1, w>>)
    BY <2>1, <2>2 DEF Left
  <2> QED
    BY <1>5, <2>1, <2>3
<1>10. d \in Rounds
  <2>1. PN \in Nat
    BY <1>2, PArgs
  <2> QED
    BY <1>8, <1>9, <2>1 DEF Rounds
<1>11. d[1] = c[w] /\ d[2] = w /\ \A e \in Rounds : e = <<e[1], e[2]>> /\ e[1] \in Nat /\ e[2] \in 1 .. PN
  BY <1>2, Turns
<1> DEFINE b == [c EXCEPT ![w] = c[w] + 1]
<1>12. /\ b \in [P!Worker -> Nat] /\ b[w] = c[w] + 1 /\ \A v \in P!Worker : v # w => b[v] = c[v]
  BY <1>3, <1>8 DEF Dealt
<1>13. ASSUME NEW e \in Rounds PROVE e[1] < b[e[2]] <=> e[1] < c[e[2]] \/ e = d
  <2>1. e[2] \in P!Worker /\ e = <<e[1], e[2]>> /\ e[1] \in Nat
    BY <1>2, <1>11, PArgs DEF P!Worker
  <2>2. CASE e[2] = w
    BY <1>8, <1>12, <2>1, <2>2
  <2>3. CASE e[2] # w
    BY <1>11, <1>12, <2>1, <2>3
  <2> QED
    BY <2>2, <2>3
<1>14. ~(d[1] < c[d[2]])
  BY <1>8, <1>11
<1> HIDE DEF d, b
<1>15. /\ \A j \in DOMAIN results : r[j] # d
       /\ \A j \in DOMAIN pi : p[j] # d
  BY <1>3, <1>10, <1>14 DEF Dealt
<1> DEFINE s == [j \in (1 .. n) \cup {n + 1} |-> IF j = n + 1 THEN d ELSE r[j]]
<1>16. s[n + 1] = d /\ (\A j \in 1 .. n : s[j] = r[j]) /\ s \in [DOMAIN results' -> Rounds]
  BY <1>3, <1>6, <1>10 DEF Dealt
<1> HIDE DEF s
<1>17. /\ \A j, k \in DOMAIN results' : s[j] = s[k] => j = k
       /\ \A j \in DOMAIN results' : \A k \in DOMAIN pi : s[j] # p[k]
       /\ \A j \in DOMAIN results' : results'[j] = StartOf(s[j])
  <2>1. x = StartOf(d)
    BY <1>9
  <2>2. /\ \A j, k \in DOMAIN results : r[j] = r[k] => j = k
        /\ \A j \in DOMAIN results : \A k \in DOMAIN pi : r[j] # p[k]
        /\ \A j \in DOMAIN results : results[j] = StartOf(r[j])
    BY <1>3 DEF Dealt
  <2>3. \A j, k \in DOMAIN results' : s[j] = s[k] => j = k
    <3> TAKE j, k \in DOMAIN results'
    <3>1. CASE j \in 1 .. n /\ k \in 1 .. n
      BY <1>6, <1>16, <2>2, <3>1
    <3>2. CASE j = n + 1 /\ k = n + 1
      BY <3>2
    <3>3. CASE j \in 1 .. n /\ k = n + 1
      BY <1>6, <1>15, <1>16, <3>3
    <3>4. CASE j = n + 1 /\ k \in 1 .. n
      BY <1>6, <1>15, <1>16, <3>4
    <3> QED
      BY <1>6, <3>1, <3>2, <3>3, <3>4
  <2>4. ASSUME NEW j \in DOMAIN results'
        PROVE  results'[j] = StartOf(s[j]) /\ \A k \in DOMAIN pi : s[j] # p[k]
    <3>1. CASE j \in 1 .. n
      BY <1>6, <1>16, <2>2, <3>1
    <3>2. CASE j = n + 1
      BY <1>6, <1>15, <1>16, <2>1, <3>2
    <3> QED
      BY <1>6, <3>1, <3>2
  <2> QED
    BY <2>3, <2>4
<1>18. ASSUME NEW e \in Rounds
       PROVE  e[1] < b[e[2]] <=> \/ \E j \in DOMAIN results' : s[j] = e
                                 \/ \E k \in DOMAIN pi : p[k] = e
  <2>1. (\E j \in DOMAIN results' : s[j] = e) <=> (\E j \in DOMAIN results : r[j] = e) \/ e = d
    BY <1>6, <1>16
  <2> QED
    BY <1>3, <1>13, <2>1 DEF Dealt
<1>19. ASSUME NEW v \in P!Worker PROVE Left(b[v], v, work'[v])
  <2>1. Left(c[v], v, work[v])
    BY <1>3 DEF Dealt
  <2>2. CASE v # w
    BY <1>5, <1>12, <2>1, <2>2
  <2>3. CASE v = w
    <3>1. ASSUME NEW j \in Nat \ {0}
          PROVE  /\ c[w] + (j + 1) - 1 = b[w] + j - 1 /\ j + 1 \in Nat \ {0}
                 /\ j \in 1 .. l - 1 <=> j + 1 \in 1 .. l
      <4>1. c[w] + (j + 1) - 1 = (c[w] + 1) + j - 1 /\ j + 1 \in Nat \ {0}
        BY <1>8
      <4>2. j \in 1 .. l - 1 <=> j + 1 \in 1 .. l
        BY <1>5
      <4> QED
        BY <1>12, <4>1, <4>2
    <3>2. ASSUME NEW j \in Nat \ {0}
          PROVE  /\ j \in DOMAIN work'[w] <=> w <= PN /\ Turn(b[w] + j - 1, w) < PM
                 /\ j \in DOMAIN work'[w] => work'[w][j] = StartOf(<<b[w] + j - 1, w>>)
      <4>1. /\ j + 1 \in DOMAIN work[w] <=> w <= PN /\ Turn(c[w] + (j + 1) - 1, w) < PM
            /\ j + 1 \in DOMAIN work[w] => work[w][j + 1] = StartOf(<<c[w] + (j + 1) - 1, w>>)
        BY <2>1, <2>3, <3>1 DEF Left
      <4>2. /\ j \in DOMAIN work'[w] <=> j + 1 \in DOMAIN work[w]
            /\ j \in DOMAIN work'[w] => work'[w][j] = work[w][j + 1]
        BY <1>5, <3>1
      <4>3. c[w] + (j + 1) - 1 = b[w] + j - 1
        BY <3>1
      <4> QED
        BY <4>1, <4>2, <4>3
    <3>3. \A j \in DOMAIN work'[w] : j \in Nat \ {0}
      BY <1>5
    <3> QED
      BY <2>3, <3>2, <3>3 DEF Left
  <2> QED
    BY <2>2, <2>3
<1>20. Dealt(b, s, p, work', results', pi')
  BY <1>1, <1>3, <1>12, <1>16, <1>17, <1>18, <1>19 DEF Dealt
<1>21. ADeal'
  BY <1>1, <1>20, DealtThen
<1>22. PInput' /\ PFinish'
  BY <1>1, <1>2, SameArgs DEF PFinish
<1> QED
  BY <1>1, <1>2, <1>7, <1>21, <1>22 DEF PInv

(* The master adds the oldest result, and ends with the last of them.       *)
LEMMA ResultPInv ==
  ASSUME PInv, P!Result PROVE PInv'
<1>1. /\ piMaster = "running" /\ results # <<>>
      /\ results' = Tail(results) /\ pi' = Append(pi, Head(results))
      /\ nrOfResults' = nrOfResults + 1
      /\ IF nrOfResults' = PM
         THEN approximation' = Append(approximation, pi') /\ piMaster' = "stopped"
         ELSE UNCHANGED <<approximation, piMaster>>
      /\ UNCHANGED <<args, calculate, work, piSystem>>
  BY DEF P!Result, PM
<1>2. PInput /\ PBoxes /\ PFinish /\ ~calculate /\ ADeal
  BY <1>1 DEF PInv, Undealt
<1>3. PICK c, r, p : Dealt(c, r, p, work, results, pi)
  BY <1>2 DEF ADeal
<1>4. PICK n, m, x : n = Len(results) /\ m = Len(pi) /\ x = Head(results)
  OBVIOUS
<1>5. /\ n \in Nat /\ n >= 1 /\ DOMAIN results = 1 .. n /\ x = results[1]
      /\ DOMAIN results' = 1 .. n - 1 /\ results' \in Seq(Int)
      /\ \A j \in 1 .. n - 1 : results'[j] = results[j + 1]
  BY <1>1, <1>2, <1>4, Received DEF PBoxes
<1>6. x \in Int
  BY <1>2, <1>5 DEF PBoxes
<1>7. /\ m \in Nat /\ DOMAIN pi = 1 .. m /\ DOMAIN pi' = (1 .. m) \cup {m + 1}
      /\ m + 1 \notin 1 .. m /\ pi' \in Seq(Int)
      /\ pi'[m + 1] = x /\ \A j \in 1 .. m : pi'[j] = pi[j]
  BY <1>1, <1>2, <1>4, <1>6, Posted DEF PBoxes
<1>8. PBoxes'
  BY <1>1, <1>2, <1>5, <1>7 DEF PBoxes
<1>9. PICK d \in Rounds : d = r[1]
  BY <1>3, <1>5 DEF Dealt
<1>10. x = StartOf(d) /\ \A j \in DOMAIN pi : p[j] # d
  BY <1>3, <1>5, <1>9 DEF Dealt
<1> DEFINE s == [j \in 1 .. n - 1 |-> r[j + 1]]
           q == [j \in (1 .. m) \cup {m + 1} |-> IF j = m + 1 THEN d ELSE p[j]]
<1>11. /\ \A j \in 1 .. n - 1 : s[j] = r[j + 1] /\ j + 1 \in 1 .. n /\ j + 1 # 1
       /\ \A j \in 1 .. n : j # 1 => j - 1 \in 1 .. n - 1 /\ s[j - 1] = r[j]
  BY <1>5
<1>12. s \in [DOMAIN results' -> Rounds]
  BY <1>3, <1>5, <1>11 DEF Dealt
<1>13. q[m + 1] = d /\ (\A j \in 1 .. m : q[j] = p[j]) /\ q \in [DOMAIN pi' -> Rounds]
  BY <1>3, <1>7, <1>9 DEF Dealt
<1> HIDE DEF s, q
<1>14. ASSUME NEW j \in DOMAIN results', NEW k \in DOMAIN results', s[j] = s[k] PROVE j = k
  <2>1. j + 1 \in DOMAIN results /\ k + 1 \in DOMAIN results /\ r[j + 1] = r[k + 1]
    BY <1>5, <1>11, <1>14
  <2>2. j + 1 = k + 1
    BY <1>3, <2>1 DEF Dealt
  <2> QED
    BY <1>5, <2>2
<1>15. ASSUME NEW j \in DOMAIN results'
       PROVE  /\ s[j] # d /\ results'[j] = StartOf(s[j])
              /\ \A k \in DOMAIN pi : s[j] # p[k]
  <2>1. j + 1 \in DOMAIN results /\ 1 \in DOMAIN results /\ s[j] = r[j + 1] /\ j + 1 # 1
        /\ results'[j] = results[j + 1]
    BY <1>5, <1>11
  <2> QED
    BY <1>3, <1>9, <2>1 DEF Dealt
<1>16. /\ \A j, k \in DOMAIN pi' : q[j] = q[k] => j = k
       /\ \A j \in DOMAIN results' : \A k \in DOMAIN pi' : s[j] # q[k]
       /\ \A k \in DOMAIN pi' : pi'[k] = StartOf(q[k])
  BY <1>3, <1>7, <1>10, <1>13, <1>15 DEF Dealt
<1>17. ASSUME NEW e \in Rounds
       PROVE  e[1] < c[e[2]] <=> \/ \E j \in DOMAIN results' : s[j] = e
                                 \/ \E k \in DOMAIN pi' : q[k] = e
  <2>1. (\E k \in DOMAIN pi' : q[k] = e) <=> (\E k \in DOMAIN pi : p[k] = e) \/ e = d
    BY <1>7, <1>13
  <2>2. ASSUME NEW j \in DOMAIN results, r[j] = e PROVE e = d \/ \E k \in DOMAIN results' : s[k] = e
    BY <1>5, <1>9, <1>11, <2>2
  <2>3. ASSUME e = d PROVE \E j \in DOMAIN results : r[j] = e
    <3>1. 1 \in DOMAIN results
      BY <1>5
    <3> QED
      BY <1>9, <2>3, <3>1
  <2>4. ASSUME NEW k \in DOMAIN results', s[k] = e PROVE \E j \in DOMAIN results : r[j] = e
    <3>1. k + 1 \in DOMAIN results /\ s[k] = r[k + 1]
      BY <1>5, <1>11
    <3> QED
      BY <2>4, <3>1
  <2>5. e[1] < c[e[2]] <=> \/ \E j \in DOMAIN results : r[j] = e
                           \/ \E k \in DOMAIN pi : p[k] = e
    BY <1>3 DEF Dealt
  <2> QED
    BY <2>1, <2>2, <2>3, <2>4, <2>5
<1>18. Dealt(c, s, q, work', results', pi')
  <2>1. c \in [P!Worker -> Nat]
    BY <1>3 DEF Dealt
  <2>2. work' = work
    BY <1>1
  <2>3. ASSUME NEW v \in P!Worker PROVE Left(c[v], v, work[v])
    BY <1>3 DEF Dealt
  <2>4. ASSUME NEW v \in P!Worker PROVE Left(c[v], v, work'[v])
    BY <2>2, <2>3
  <2>5. \A j, k \in DOMAIN results' : s[j] = s[k] => j = k
    BY <1>14
  <2>6. /\ \A j \in DOMAIN results' : results'[j] = StartOf(s[j])
        /\ \A j \in DOMAIN results' : \A k \in DOMAIN pi' : s[j] # q[k]
    BY <1>15, <1>16
  <2>7. \A e \in Rounds : e[1] < c[e[2]] <=> \/ \E j \in DOMAIN results' : s[j] = e
                                             \/ \E k \in DOMAIN pi' : q[k] = e
    BY <1>17
  <2> QED
    BY <2>1, <2>4, <1>12, <1>13, <2>5, <2>6, <2>7, <1>16 DEF Dealt
<1>19. ADeal'
  BY <1>1, <1>18, DealtThen
<1>20. PFinish'
  <2>1. nrOfResults' = Len(pi')
    BY <1>1, <1>2, <1>7, <1>8 DEF PFinish, PBoxes
  <2>2. approximation = <<>> /\ PM' = PM
    BY <1>1, <1>2, SameArgs DEF PFinish
  <2> DEFINE t == pi'
  <2> HIDE DEF t
  <2>3. Append(<<>>, t) = <<t>>
    OBVIOUS
  <2>4. piMaster' = "stopped" => approximation' = <<pi'>>
    BY <1>1, <2>2, <2>3 DEF t
  <2> QED
    BY <1>1, <1>2, <2>1, <2>2, <2>4 DEF PFinish
<1>21. PInput'
  BY <1>1, <1>2, SameArgs
<1> QED
  BY <1>1, <1>2, <1>8, <1>19, <1>20, <1>21 DEF PInv

(* Every step of the calculation keeps its invariant.                       *)
LEMMA PiStep ==
  ASSUME PInv, [P!Next]_(P!vars) PROVE PInv'
<1>1. ASSUME UNCHANGED <<args, calculate, work, results, pi, nrOfResults, piMaster, approximation>>,
             piSystem' \in {piSystem, "down"}
      PROVE  PInv'
  <2>1. PInput /\ PBoxes /\ PFinish /\ IF calculate THEN Undealt ELSE ADeal
    BY DEF PInv
  <2>2. PInput' /\ PBoxes' /\ PFinish'
    BY <1>1, <2>1, SameArgs DEF PBoxes, PFinish
  <2>3. CASE calculate
    BY <1>1, <2>1, <2>2, <2>3 DEF PInv, Undealt
  <2>4. CASE ~calculate
    <3>1. PICK c, r, p : Dealt(c, r, p, work, results, pi)
      BY <2>1, <2>4 DEF ADeal
    <3>2. ADeal'
      BY <1>1, <3>1, DealtThen
    <3> QED
      BY <1>1, <2>2, <2>4, <3>2 DEF PInv
  <2> QED
    BY <2>3, <2>4
<1>2. CASE UNCHANGED P!vars
  BY <1>1, <1>2 DEF P!vars
<1>3. CASE P!Shutdown
  BY <1>1, <1>3 DEF P!Shutdown
<1> QED
  BY <1>2, <1>3, CalculatePInv, PiWorkPInv, ResultPInv DEF P!Next

-----------------------------------------------------------------------------
(* Pi: what its invariant says of the sum.                                   *)

(* Never more additions than messages, and with as many every round is in.  *)
LEMMA Additions ==
  ASSUME PInput, PBoxes, NEW c, NEW r, NEW p, Dealt(c, r, p, work, results, pi)
  PROVE  /\ Len(pi) <= PM
         /\ Len(pi) = PM => \A d \in Rounds : \E k \in DOMAIN pi : p[k] = d
<1> DEFINE m == Len(pi)
<1>1. m \in Nat /\ DOMAIN pi = 1 .. m
  BY DEF PBoxes
<1>2. PM \in Nat /\ IsFiniteSet(Rounds) /\ Cardinality(Rounds) = PM
  BY PArgs, RoundsCount
<1>3. p \in Injection(1 .. m, Rounds)
  BY <1>1 DEF Dealt, Injection, IsInjective
<1> HIDE DEF m
<1>4. Cardinality(1 .. m) = m
  BY <1>1, FS_Interval
<1>5. m <= PM /\ (m = PM <=> p \in Surjection(1 .. m, Rounds))
  BY <1>2, <1>3, <1>4, FS_Injection
<1>6. m = PM => \A d \in Rounds : \E k \in DOMAIN pi : p[k] = d
  BY <1>1, <1>5 DEF Surjection
<1> QED
  BY <1>5, <1>6 DEF m

(* The invariant gives the types of the calculation.                        *)
LEMMA PTyped ==
  ASSUME PInv PROVE P!TypeOK
<1>1. PInput /\ PBoxes /\ PFinish /\ IF calculate THEN Undealt ELSE ADeal
  BY DEF PInv
<1>2. PM \in Nat
  BY <1>1, PArgs
<1>3. nrOfResults <= PM
  <2>1. CASE calculate
    BY <1>1, <1>2, <2>1 DEF Undealt, PFinish
  <2>2. CASE ~calculate
    <3>1. PICK c, r, p : Dealt(c, r, p, work, results, pi)
      BY <1>1, <2>2 DEF ADeal
    <3> QED
      BY <1>1, <3>1, Additions DEF PFinish
  <2> QED
    BY <2>1, <2>2
<1>4. approximation \in Seq(Seq(Int)) /\ Len(approximation) <= 1
  <2> DEFINE t == pi
  <2>1. t \in Seq(Int) /\ (approximation = <<>> \/ approximation = <<t>>)
    BY <1>1 DEF PFinish, PBoxes
  <2> HIDE DEF t
  <2>2. <<t>> \in Seq(Seq(Int)) /\ Len(<<t>>) = 1
    BY <2>1
  <2>3. CASE approximation = <<>>
    BY <2>3
  <2>4. CASE approximation = <<t>>
    BY <2>2, <2>4
  <2> QED
    BY <2>1, <2>3, <2>4
<1> QED
  BY <1>1, <1>3, <1>4 DEF P!TypeOK, PInput, PBoxes, PFinish, PM

(* While the last denominator fits an Int, no start wraps around.           *)
LEMMA StartFits ==
  ASSUME PInput, 2 * P!Last <= Half, NEW t \in 0 .. PM - 1
  PROVE  /\ t * PE \in Nat /\ (t + 1) * PE = t * PE + PE /\ (t + 1) * PE <= P!Last
         /\ P!Last \in Nat /\ P!Last < Half
         /\ P!Wrap(t * PE) = t * PE /\ P!Wrap(t * PE + PE) = t * PE + PE
<1>1. PM \in Nat /\ PE \in Nat /\ P!Last = PM * PE /\ P!Last \in Nat
  BY PArgs
<1>2. Half \in Nat /\ Half >= 1
  BY ExamplesAssumption DEF P!PiAssumption
<1>3. t \in Nat /\ t + 1 \in Nat /\ t + 1 <= PM
  BY <1>1
<1>4. (t + 1) * PE <= PM * PE /\ t * PE \in Nat /\ (t + 1) * PE = t * PE + PE
  BY <1>1, <1>3, Grows
<1>5. P!Last < Half
  BY <1>1, <1>2
<1> DEFINE x == t * PE
<1>6. x \in Nat /\ x + PE <= P!Last
  BY <1>1, <1>4
<1> HIDE DEF x
<1>7. x \in 0 .. Half - 1 /\ x + PE \in 0 .. Half - 1
  BY <1>1, <1>2, <1>5, <1>6
<1>8. P!Wrap(x) = x /\ P!Wrap(x + PE) = x + PE
  BY <1>7, WrapFits
<1> QED
  BY <1>1, <1>4, <1>5, <1>8 DEF x

(* The starts in the boxes and the results are those of the whole series.   *)
LEMMA PNothingLost ==
  ASSUME PInv PROVE P!NothingLost
<1> SUFFICES ASSUME ~calculate, 2 * P!Last <= Half
             PROVE  P!Starts(results) \cup P!Starts(pi) \cup UNION {P!Starts(work[w]) : w \in P!Worker}
                      = {i * PE : i \in 0 .. PM - 1}
  BY DEF P!NothingLost, PE, PM
<1>1. PInput /\ PBoxes /\ ADeal
  BY DEF PInv
<1>2. PICK c, r, p : Dealt(c, r, p, work, results, pi)
  BY <1>1 DEF ADeal
<1>3. /\ \A d \in Rounds : d = <<d[1], d[2]>> /\ d[1] \in Nat /\ d[2] \in 1 .. PN
                           /\ Turn(d[1], d[2]) \in 0 .. PM - 1
      /\ \A i \in 0 .. PM - 1 : \E d \in Rounds : Turn(d[1], d[2]) = i
  BY <1>1, Turns
<1>4. \A d \in Rounds : StartOf(d) = Turn(d[1], d[2]) * PE
  BY <1>1, <1>3, StartFits DEF StartOf
<1>5. PN \in Nat /\ PN <= MaxWorkers /\ MaxWorkers \in Nat /\ c \in [P!Worker -> Nat]
  BY <1>1, <1>2, PArgs DEF Dealt
<1> DEFINE All == P!Starts(results) \cup P!Starts(pi) \cup UNION {P!Starts(work[w]) : w \in P!Worker}
<1>6. ASSUME NEW d \in Rounds PROVE StartOf(d) \in All
  <2>1. CASE d[1] < c[d[2]]
    <3>1. (\E j \in DOMAIN results : r[j] = d) \/ (\E k \in DOMAIN pi : p[k] = d)
      BY <1>2, <2>1 DEF Dealt
    <3>2. /\ \A j \in DOMAIN results : results[j] = StartOf(r[j])
          /\ \A k \in DOMAIN pi : pi[k] = StartOf(p[k])
      BY <1>2 DEF Dealt
    <3>3. StartOf(d) \in P!Starts(results) \/ StartOf(d) \in P!Starts(pi)
      BY <3>1, <3>2 DEF P!Starts
    <3> QED
      BY <3>3
  <2>2. CASE ~(d[1] < c[d[2]])
    <3> DEFINE w == d[2]
               j == d[1] - c[w] + 1
    <3>1. w \in P!Worker /\ w <= PN /\ d[1] \in Nat /\ d = <<d[1], w>> /\ Turn(d[1], w) \in 0 .. PM - 1
      BY <1>3, <1>5 DEF P!Worker
    <3>2. c[w] \in Nat
      BY <1>5, <3>1
    <3>3. j \in Nat \ {0} /\ c[w] + j - 1 = d[1]
      BY <2>2, <3>1, <3>2
    <3>4. PM \in Nat
      BY <1>1, PArgs
    <3>5. Left(c[w], w, work[w])
      BY <1>2, <3>1 DEF Dealt
    <3> HIDE DEF j, w
    <3>6. j \in DOMAIN work[w] /\ work[w][j] = StartOf(<<c[w] + j - 1, w>>)
      BY <3>1, <3>3, <3>4, <3>5 DEF Left
    <3>7. StartOf(d) \in P!Starts(work[w])
      BY <3>1, <3>3, <3>6 DEF P!Starts
    <3> QED
      BY <3>1, <3>7
  <2> QED
    BY <2>1, <2>2
<1>7. ASSUME NEW x \in All PROVE \E d \in Rounds : x = StartOf(d)
  <2>1. CASE x \in P!Starts(results)
    <3>1. PICK j \in DOMAIN results : x = results[j]
      BY <2>1 DEF P!Starts
    <3> QED
      BY <1>2, <3>1 DEF Dealt
  <2>2. CASE x \in P!Starts(pi)
    <3>1. PICK j \in DOMAIN pi : x = pi[j]
      BY <2>2 DEF P!Starts
    <3> QED
      BY <1>2, <3>1 DEF Dealt
  <2>3. ASSUME NEW w \in P!Worker, x \in P!Starts(work[w]) PROVE \E d \in Rounds : x = StartOf(d)
    <3>1. PICK j \in DOMAIN work[w] : x = work[w][j]
      BY <2>3 DEF P!Starts
    <3>2. work[w] \in Seq(Int)
      BY <1>1 DEF PBoxes
    <3>3. j \in Nat \ {0}
      BY <3>1, <3>2
    <3>4. Left(c[w], w, work[w])
      BY <1>2 DEF Dealt
    <3>5. w <= PN /\ Turn(c[w] + j - 1, w) < PM /\ x = StartOf(<<c[w] + j - 1, w>>)
      BY <3>1, <3>3, <3>4 DEF Left
    <3> DEFINE q == c[w] + j - 1
    <3>6. q \in Nat /\ w \in 1 .. PN
      BY <1>5, <3>3, <3>5 DEF P!Worker
    <3> HIDE DEF q
    <3>7. <<q, w>> \in Rounds
      BY <3>5, <3>6 DEF Rounds, q
    <3> QED
      BY <3>5, <3>7 DEF q
  <2> QED
    BY <2>1, <2>2, <2>3
<1> HIDE DEF All
<1>8. ASSUME NEW x \in All PROVE x \in {i * PE : i \in 0 .. PM - 1}
  <2>1. PICK d \in Rounds : x = StartOf(d)
    BY <1>7
  <2> QED
    BY <1>3, <1>4, <2>1
<1>9. ASSUME NEW i \in 0 .. PM - 1 PROVE i * PE \in All
  <2>1. PICK d \in Rounds : Turn(d[1], d[2]) = i
    BY <1>3
  <2> QED
    BY <1>4, <1>6, <2>1
<1>10. All = {i * PE : i \in 0 .. PM - 1}
  BY <1>8, <1>9
<1> QED
  BY <1>10 DEF All

(* The terms of a range are those of its numbers.                           *)
Term(i) == <<IF i % 2 = 0 THEN 1 ELSE -1, 2 * i + 1>>

(* Without wrapping, message t calculates the terms from t * PE on.         *)
LEMMA Ranges ==
  ASSUME PInput, 2 * P!Last <= Half, NEW t \in 0 .. PM - 1
  PROVE  P!calculatePiFor(t * PE) = {Term(i) : i \in t * PE .. (t + 1) * PE - 1}
<1> DEFINE s == t * PE
           e == (t + 1) * PE
<1>1. /\ s \in Nat /\ e = s + PE /\ e <= P!Last /\ P!Last \in Nat /\ P!Wrap(s + PE) = e
  BY StartFits
<1>2. PE \in Nat
  BY PArgs
<1> HIDE DEF s, e
<1>3. ASSUME NEW i \in s .. e - 1 PROVE <<1 - 2 * P!Rem2(i), P!Wrap(2 * i + 1)>> = Term(i)
  <2>1. i \in Nat /\ i <= P!Last - 1
    BY <1>1, <1>2
  <2>2. Half \in Nat /\ 2 * i + 1 \in 0 .. Half - 1
    BY <1>1, <2>1, ExamplesAssumption DEF P!PiAssumption
  <2>3. P!Wrap(2 * i + 1) = 2 * i + 1
    BY <2>2, WrapFits
  <2>4. i % 2 \in {0, 1} /\ P!Rem2(i) = i % 2
    BY <2>1 DEF P!Rem2
  <2>5. 1 - 2 * P!Rem2(i) = IF i % 2 = 0 THEN 1 ELSE -1
    BY <2>4
  <2> QED
    BY <2>3, <2>5 DEF Term
<1>4. P!calculatePiFor(s) = {<<1 - 2 * P!Rem2(i), P!Wrap(2 * i + 1)>> : i \in s .. e - 1}
  BY <1>1 DEF P!calculatePiFor, PE
<1>5. P!calculatePiFor(s) = {Term(i) : i \in s .. e - 1}
  BY <1>3, <1>4
<1> QED
  BY <1>5 DEF s, e

(* The invariant gives that the finished sum has every term once.           *)
LEMMA PRightSum ==
  ASSUME PInv PROVE P!RightSum
<1> SUFFICES ASSUME NEW j \in DOMAIN approximation, 2 * P!Last <= Half
             PROVE  /\ UNION {P!calculatePiFor(s) : s \in P!Starts(approximation[j])}
                         = {Term(i) : i \in 0 .. P!Last - 1}
                    /\ Len(approximation[j]) = PM
  BY DEF P!RightSum, Term, PM
<1>1. PInput /\ PBoxes /\ PFinish /\ IF calculate THEN Undealt ELSE ADeal
  BY DEF PInv
<1>2. approximation # <<>>
  OBVIOUS
<1>3. approximation = <<pi>> /\ nrOfResults = PM /\ ADeal
  BY <1>1, <1>2 DEF PFinish, Undealt
<1>4. approximation[j] = pi /\ Len(pi) = PM
  <2> DEFINE t == pi
  <2> HIDE DEF t
  <2>1. \A k \in DOMAIN <<t>> : <<t>>[k] = t
    OBVIOUS
  <2> QED
    BY <1>1, <1>3, <2>1 DEF PFinish, t
<1>5. PICK c, r, p : Dealt(c, r, p, work, results, pi)
  BY <1>3 DEF ADeal
<1>6. \A d \in Rounds : \E k \in DOMAIN pi : p[k] = d
  BY <1>1, <1>4, <1>5, Additions
<1>7. /\ \A d \in Rounds : Turn(d[1], d[2]) \in 0 .. PM - 1
      /\ \A t \in 0 .. PM - 1 : \E d \in Rounds : Turn(d[1], d[2]) = t
  BY <1>1, Turns
<1>8. \A d \in Rounds : StartOf(d) = Turn(d[1], d[2]) * PE
  BY <1>1, <1>7, StartFits DEF StartOf
<1>9. p \in [DOMAIN pi -> Rounds] /\ \A k \in DOMAIN pi : pi[k] = StartOf(p[k])
  BY <1>5 DEF Dealt
<1>10. P!Starts(pi) = {t * PE : t \in 0 .. PM - 1}
  <2>1. ASSUME NEW k \in DOMAIN pi PROVE \E t \in 0 .. PM - 1 : pi[k] = t * PE
    BY <1>7, <1>8, <1>9
  <2>2. ASSUME NEW t \in 0 .. PM - 1 PROVE \E k \in DOMAIN pi : pi[k] = t * PE
    <3>1. PICK d \in Rounds : Turn(d[1], d[2]) = t
      BY <1>7
    <3>2. PICK k \in DOMAIN pi : p[k] = d
      BY <1>6
    <3> QED
      BY <1>8, <1>9, <3>1, <3>2
  <2> QED
    BY <2>1, <2>2 DEF P!Starts
<1>11. PM \in Nat /\ PE \in Nat /\ P!Last = PM * PE /\ P!Last \in Nat
  BY <1>1, PArgs
<1> DEFINE Sum == UNION {P!calculatePiFor(s) : s \in P!Starts(pi)}
<1>12. ASSUME NEW t \in 0 .. PM - 1, NEW i \in t * PE .. (t + 1) * PE - 1
       PROVE  i \in 0 .. P!Last - 1
  <2> DEFINE s == t * PE
             e == (t + 1) * PE
  <2>1. s \in Nat /\ e \in Nat /\ e <= P!Last
    <3>1. t * PE \in Nat /\ (t + 1) * PE = t * PE + PE /\ (t + 1) * PE <= P!Last
      BY <1>1, StartFits
    <3> QED
      BY <1>11, <3>1
  <2>2. i \in s .. e - 1
    OBVIOUS
  <2> HIDE DEF s, e
  <2> QED
    BY <1>11, <2>1, <2>2
<1>13. ASSUME NEW i \in 0 .. P!Last - 1
       PROVE  \E t \in 0 .. PM - 1 : i \in t * PE .. (t + 1) * PE - 1
  <2>1. i \in Nat /\ i < PM * PE
    BY <1>11
  <2>2. PE >= 1
    BY <1>11, <2>1
  <2> DEFINE t == i \div PE
             u == i % PE
  <2>3. t \in Nat /\ u \in 0 .. PE - 1 /\ i = t * PE + u
    BY <1>11, <2>1, <2>2, Splits
  <2> HIDE DEF t, u
  <2>4. t * PE \in Nat /\ (t + 1) * PE = t * PE + PE
    BY <1>11, <2>3
  <2>5. ~(PM <= t)
    <3>1. PM <= t => PM * PE <= t * PE
      BY <1>11, <2>3, Grows
    <3>2. PM * PE \in Nat
      BY <1>11
    <3> QED
      BY <1>11, <2>1, <2>3, <2>4, <3>1, <3>2
  <2> DEFINE s == t * PE
             e == (t + 1) * PE
  <2>6. s \in Nat /\ e = s + PE /\ i = s + u
    BY <2>3, <2>4
  <2> HIDE DEF s, e
  <2>7. i \in s .. e - 1
    BY <1>11, <2>1, <2>3, <2>6
  <2>8. t \in 0 .. PM - 1
    BY <1>11, <2>3, <2>5
  <2> QED
    BY <2>7, <2>8 DEF s, e
<1>14. \A t \in 0 .. PM - 1 : P!calculatePiFor(t * PE) = {Term(i) : i \in t * PE .. (t + 1) * PE - 1}
  BY <1>1, Ranges
<1>15. ASSUME NEW x \in Sum PROVE x \in {Term(i) : i \in 0 .. P!Last - 1}
  <2>1. PICK t \in 0 .. PM - 1 : x \in P!calculatePiFor(t * PE)
    BY <1>10
  <2>2. PICK i \in t * PE .. (t + 1) * PE - 1 : x = Term(i)
    BY <1>14, <2>1
  <2> QED
    BY <1>12, <2>2
<1>16. ASSUME NEW i \in 0 .. P!Last - 1 PROVE Term(i) \in Sum
  <2>1. PICK t \in 0 .. PM - 1 : i \in t * PE .. (t + 1) * PE - 1
    BY <1>13
  <2>2. Term(i) \in P!calculatePiFor(t * PE) /\ t * PE \in P!Starts(pi)
    BY <1>10, <1>14, <2>1
  <2> QED
    BY <2>2
<1> HIDE DEF Sum
<1>17. Sum = {Term(i) : i \in 0 .. P!Last - 1}
  BY <1>15, <1>16
<1> QED
  BY <1>4, <1>17 DEF Sum

(* The three together are what the run checks.                              *)
LEMMA SeriesAdded ==
  ASSUME PInv PROVE SeriesRight
BY PTyped, PNothingLost, PRightSum DEF SeriesRight

-----------------------------------------------------------------------------
(* The theorems.                                                             *)

(* Creation: whatever is lost or delayed and however often workers crash, a *)
(* calculator that runs on the worker is a child of the creation actor, and *)
(* one goes only after its result was printed or with its worker.           *)
THEOREM ChildrenFitHolds == Spec => ChildrenFit
<1>1. Init => CInv
  BY CreationStarts, CreationOver DEF Init
<1>2. CInv /\ [Next]_vars => CInv' /\ [C!Next]_(C!vars)
  <2>1. [Next]_vars => [C!Next]_(C!vars)
    BY DEF Next, vars, cVars, C!vars
  <2> QED
    BY <2>1, CreationStep
<1>3. CInv => C!NoOrphans
  BY DEF CInv, Course, CTypes, C!NoOrphans
<1>4. CInv /\ [C!Next]_(C!vars) => \A k \in alive \ alive' : k \in answered \/ crashes' > crashes
  BY OnlyStopped
<1> QED
  BY <1>1, <1>2, <1>3, <1>4, PTL DEF Spec, ChildrenFit, C!GoesWithItsResult

(* RedisSample: over one pipelined connection values are printed in the     *)
(* order they were pushed, whoever pushed them; until the connection breaks *)
(* each is in the list, on its way or printed; and the GET finds a value.   *)
THEOREM QueueServedHolds == Spec => []QueueServed
<1>1. Init => RInv
  BY RedisStarts, RedisOver DEF Init
<1>2. RInv /\ [Next]_vars => RInv'
  <2>1. [Next]_vars => [R!Next]_(R!vars)
    BY DEF Next, vars, rVars, R!vars
  <2> QED
    BY <2>1, RedisStep
<1> QED
  BY <1>1, <1>2, RedisServed, PTL DEF Spec

(* WordCount: however the text is cut and in whatever order the parts come, *)
(* each counted word is in one place until it is in the total, the master   *)
(* sends one result, after the last part, and it is the count of the whole  *)
(* text less its last word.                                                 *)
THEOREM CountsRightHolds == Spec => []CountsRight
<1>1. Init => WInv
  BY WordsStart, WordsOver DEF Init
<1>2. WInv /\ [Next]_vars => WInv'
  <2>1. [Next]_vars => [W!Next]_(W!vars)
    BY DEF Next, vars, wVars, W!vars
  <2> QED
    BY <2>1, WordsStep
<1> QED
  BY <1>1, <1>2, WordsCounted, PTL DEF Spec

(* Pi: with any numbers of workers, messages and elements, and in whatever  *)
(* order the workers answer, no range is lost or added twice, and what the  *)
(* listener prints is the sum of the whole series, each term once, while    *)
(* the last denominator fits an Int.                                        *)
THEOREM SeriesRightHolds == Spec => []SeriesRight
<1>1. Init => PInv
  BY PiStarts, PiOver DEF Init
<1>2. PInv /\ [Next]_vars => PInv'
  <2>1. [Next]_vars => [P!Next]_(P!vars)
    BY DEF Next, vars, pVars, P!vars
  <2> QED
    BY <2>1, PiStep
<1> QED
  BY <1>1, <1>2, SeriesAdded, PTL DEF Spec
=============================================================================
