------------------------------ MODULE MCExamples -----------------------------
(***************************************************************************)
(* Four example programs that share nothing, WordCount, Pi, Creation and   *)
(* RedisSample, checked in one run: a behaviour runs one of them, while    *)
(* the others have come to an end of theirs.                               *)
(***************************************************************************)
EXTENDS Integers, Sequences, TLC

CONSTANTS Words, MaxLength, NumWorkers,
          MaxWorkers, MaxMessages, MaxElements, Half,
          MaxOps, MaxCrashes,
          MaxPush, MaxOther, MaxBreaks

VARIABLES
  numWorker, dataArray, masterBox, taskBox, totalRes, receivedMsg, wcMaster, finalRes, wcSystem,
  args, calculate, work, results, pi, nrOfResults, piMaster, approximation, piSystem,
  scheduled, mailbox, children, alive, wire, answered, crashes, gone, lost,
  main, sample, listener, pusher, line, answers, key, queue, pushed, ours, others, printed, breaks

W == INSTANCE WordCount WITH master <- wcMaster, system <- wcSystem
P == INSTANCE Pi WITH master <- piMaster, system <- piSystem
C == INSTANCE Creation WITH printed <- answered
R == INSTANCE RedisSample

wVars == <<numWorker, dataArray, masterBox, taskBox, totalRes, receivedMsg, wcMaster,
           finalRes, wcSystem>>
pVars == <<args, calculate, work, results, pi, nrOfResults, piMaster, approximation, piSystem>>
cVars == <<scheduled, mailbox, children, alive, wire, answered, crashes, gone, lost>>
rVars == <<main, sample, listener, pusher, line, answers, key, queue, pushed, ours, others,
           printed, breaks>>
vars == <<wVars, pVars, cVars, rVars>>

ASSUME ExamplesAssumption == /\ W!WordCountAssumption
                             /\ P!PiAssumption
                             /\ C!CreationAssumption
                             /\ R!RedisAssumption

-----------------------------------------------------------------------------
(* Each program after its end.                                               *)

AWord == CHOOSE w \in Words : TRUE
WOver ==
  /\ numWorker = 1 /\ dataArray = <<AWord>>
  /\ masterBox = <<>> /\ taskBox = <<<<>>>>
  /\ totalRes = W!NoTally /\ receivedMsg = 1
  /\ wcMaster = "stopped" /\ finalRes = <<W!NoTally>> /\ wcSystem = "down"

POver ==
  /\ args = [nrOfWorkers |-> 1, nrOfMessages |-> 0, nrOfElements |-> 0]
  /\ calculate = FALSE /\ work = [w \in 1 .. MaxWorkers |-> <<>>]
  /\ results = <<>> /\ pi = <<>> /\ nrOfResults = 0
  /\ piMaster = "stopped" /\ approximation = <<>> /\ piSystem = "down"

COver ==
  /\ scheduled = MaxOps /\ answered = 1 .. MaxOps /\ crashes = MaxCrashes
  /\ mailbox = {} /\ children = {} /\ alive = {} /\ wire = {} /\ gone = {} /\ lost = {}

ROver ==
  /\ main = "ended" /\ sample = "error" /\ listener = "failed" /\ pusher = "failed"
  /\ line = <<>> /\ answers = <<>> /\ key = FALSE
  /\ pushed = MaxOther /\ queue = [k \in 1 .. MaxOther |-> k] /\ printed = <<>>
  /\ ours = 0 /\ others = MaxOther /\ breaks = MaxBreaks

Init ==
  \/ W!Init /\ POver /\ COver /\ ROver
  \/ WOver /\ P!Init /\ COver /\ ROver
  \/ WOver /\ POver /\ C!Init /\ ROver
  \/ WOver /\ POver /\ COver /\ R!Init

Next ==
  \/ W!Next /\ UNCHANGED <<pVars, cVars, rVars>>
  \/ P!Next /\ UNCHANGED <<wVars, cVars, rVars>>
  \/ C!Next /\ UNCHANGED <<wVars, pVars, rVars>>
  \/ R!Next /\ UNCHANGED <<wVars, pVars, cVars>>

Spec == Init /\ [][Next]_vars

FairSpec == Spec /\ W!Fairness /\ P!Fairness /\ C!Fairness /\ R!Fairness

-----------------------------------------------------------------------------
(* WordCount: at every moment each counted word is in one place, still to be *)
(* mapped, in a task, in a part on its way, or in the total; the one result  *)
(* is the right count of the text, less its last word, whatever the workers, *)
(* the length and the order of the parts.                                   *)
CountsRight == W!TypeOK /\ W!WordsConserved /\ W!RightResult

(* Pi: the ranges at work, answered or added are those of the whole series,  *)
(* and the listener prints its sum, each term once, while the last           *)
(* denominator fits an Int.                                                 *)
SeriesRight == P!TypeOK /\ P!NothingLost /\ P!RightSum

(* Creation: every calculator on the worker is a child of the actor, and a   *)
(* child goes only after its result was printed, or with its worker, in      *)
(* whatever order results come.                                             *)
ChildrenFit == []C!NoOrphans /\ C!GoesWithItsResult

(* RedisSample: values are printed in the order they were pushed, no poll    *)
(* loses one while the connection holds, and the first sample's GET comes    *)
(* after its SET.                                                           *)
QueueServed == R!TypeOK /\ R!InOrder /\ R!NoneLost /\ R!ReadsItsWrite

(* What each program is for comes about: the count and the sum are printed   *)
(* and the programs end, an operation of which nothing is lost is answered   *)
(* and its calculator gone, a value in the list is popped unless the         *)
(* listener has failed.                                                     *)
AllServed == W!Ends /\ P!Ends /\ C!NoLeak /\ R!AllPopped
=============================================================================
