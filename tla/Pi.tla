--------------------------------- MODULE Pi ---------------------------------
(***************************************************************************)
(* The Pi example of akka-scala-example: a Master deals ranges of a series *)
(* to its workers, round robin, adds up what they answer, and with the     *)
(* last answer sends the approximation to a Listener, which shuts the      *)
(* system down.  A sum is represented by the ranges that went into it, and *)
(* Ints wrap around.                                                       *)
(***************************************************************************)
EXTENDS Integers, FiniteSets, Sequences

CONSTANTS MaxWorkers, MaxMessages, MaxElements, \* arguments of calculate (bounds)
          Half                                  \* the Ints are -Half .. Half - 1 (bound)

PiAssumption ==
  MaxWorkers \in Nat \ {0} /\ MaxMessages \in Nat /\ MaxElements \in Nat /\ Half \in Nat \ {0}

VARIABLES
  args,        \* nrOfWorkers, nrOfMessages and nrOfElements
  calculate,   \* Calculate is in the Master's mailbox
  work,        \* per worker, the starts in its mailbox
  results,     \* Results in the Master's mailbox: starts, in the order they came
  pi,          \* Master.pi: starts whose ranges are in it, in the order they were added
  nrOfResults, \* Master.nrOfResults
  master,      \* "running" or "stopped"
  approximation, \* PiApproximations sent to the listener
  system       \* "up" or "down"

vars == <<args, calculate, work, results, pi, nrOfResults, master, approximation, system>>

Worker == 1 .. MaxWorkers
Wrap(n) == ((n + Half) % (2 * Half)) - Half

Init ==
  /\ args \in [nrOfWorkers : Worker, nrOfMessages : 0 .. MaxMessages, nrOfElements : 0 .. MaxElements]
  /\ calculate = TRUE
  /\ work = [w \in Worker |-> <<>>]
  /\ results = <<>> /\ pi = <<>> /\ nrOfResults = 0
  /\ master = "running" /\ approximation = <<>> /\ system = "up"

(* mutant: one message too many *)
CalculateOneMore ==
  /\ system = "up" /\ master = "running" /\ calculate
  /\ calculate' = FALSE
  /\ work' = [w \in Worker |->
       LET mine == {i \in 0 .. args.nrOfMessages : i % args.nrOfWorkers = w - 1}
       IN [j \in 1 .. Cardinality(mine) |->
             Wrap(((j - 1) * args.nrOfWorkers + w - 1) * args.nrOfElements)]]
  /\ UNCHANGED <<args, results, pi, nrOfResults, master, approximation, system>>

(* Message i goes to worker i % nrOfWorkers. *)
Calculate ==
  /\ system = "up" /\ master = "running" /\ calculate
  /\ calculate' = FALSE
  /\ work' = [w \in Worker |->
       LET mine == {i \in 0 .. args.nrOfMessages - 1 : i % args.nrOfWorkers = w - 1}
       IN [j \in 1 .. Cardinality(mine) |->
             Wrap(((j - 1) * args.nrOfWorkers + w - 1) * args.nrOfElements)]]
  /\ UNCHANGED <<args, results, pi, nrOfResults, master, approximation, system>>

Work(w) ==
  /\ system = "up" /\ work[w] # <<>>
  /\ results' = Append(results, Head(work[w]))
  /\ work' = [work EXCEPT ![w] = Tail(@)]
  /\ UNCHANGED <<args, calculate, pi, nrOfResults, master, approximation, system>>

Result ==
  /\ system = "up" /\ master = "running" /\ results # <<>>
  /\ results' = Tail(results)
  /\ pi' = Append(pi, Head(results))
  /\ nrOfResults' = nrOfResults + 1
  /\ IF nrOfResults' = args.nrOfMessages
     THEN approximation' = Append(approximation, pi') /\ master' = "stopped"
     ELSE UNCHANGED <<approximation, master>>
  /\ UNCHANGED <<args, calculate, work, system>>

Shutdown ==
  /\ system = "up" /\ approximation # <<>>
  /\ system' = "down"
  /\ UNCHANGED <<args, calculate, work, results, pi, nrOfResults, master, approximation>>

Next == Calculate \/ (\E w \in Worker : Work(w)) \/ Result \/ Shutdown

Spec == Init /\ [][Next]_vars

(* The dispatcher runs every actor that has a message. *)
Fairness == /\ WF_vars(Calculate) /\ WF_vars(Result) /\ WF_vars(Shutdown)
            /\ \A w \in Worker : WF_vars(Work(w))

FairSpec == Spec /\ Fairness
-----------------------------------------------------------------------------
(* The remainder has the sign of the dividend. *)
Rem2(i) == IF i < 0 THEN -(i % 2) ELSE i % 2

(* calculatePiFor: the terms 4.0 * (1 - (i % 2) * 2) / (2 * i + 1) of a      *)
(* range, as signs and denominators.                                        *)
calculatePiFor(start) ==
  {<<1 - 2 * Rem2(i), Wrap(2 * i + 1)>> : i \in start .. Wrap(start + args.nrOfElements) - 1}

Last == args.nrOfMessages * args.nrOfElements

TypeOK ==
  /\ args \in [nrOfWorkers : Worker, nrOfMessages : 0 .. MaxMessages, nrOfElements : 0 .. MaxElements]
  /\ calculate \in BOOLEAN
  /\ work \in [Worker -> Seq(Int)] /\ results \in Seq(Int) /\ pi \in Seq(Int)
  /\ nrOfResults = Len(pi) /\ nrOfResults <= args.nrOfMessages
  /\ master \in {"running", "stopped"} /\ system \in {"up", "down"}
  /\ approximation \in Seq(Seq(Int)) /\ Len(approximation) <= 1

(* The ranges that are at work, answered or added are always those of the   *)
(* whole series, none twice, in whatever order the answers come.            *)
Starts(s) == {s[j] : j \in DOMAIN s}
NothingLost ==
  ~calculate /\ 2 * Last <= Half /\ args.nrOfElements > 0 =>
    Starts(results) \cup Starts(pi) \cup UNION {Starts(work[w]) : w \in Worker}
      = {i * args.nrOfElements : i \in 0 .. args.nrOfMessages - 1}

(* What the listener prints is the sum of the whole series, each term once, *)
(* while its last denominator fits an Int.                                  *)
RightSum ==
  \A j \in DOMAIN approximation : 2 * Last <= Half =>
    /\ UNION {calculatePiFor(s) : s \in Starts(approximation[j])}
         = {<<IF i % 2 = 0 THEN 1 ELSE -1, 2 * i + 1>> : i \in 0 .. Last - 1}
    /\ Len(approximation[j]) = args.nrOfMessages

(* The program ends, if it has any work: with no messages it never does.    *)
Ends == <>(system = "down" \/ args.nrOfMessages = 0)
=============================================================================
