------------------------------ MODULE WordCount -----------------------------
(***************************************************************************)
(* WcWithAkka of akka-scala-example: a Master cuts a text into one task    *)
(* per worker, a round-robin router deals them out, the workers count the  *)
(* words of their part, the Master merges the parts as they come in and,   *)
(* with the last one, sends the total to a Listener and stops; the         *)
(* Listener shuts the system down.  All actors live in one JVM, so no      *)
(* message is lost, and the parts arrive in any order.                     *)
(*                                                                         *)
(* A HashMap from words to counts is a function on Words; an absent word   *)
(* counts 0.                                                               *)
(***************************************************************************)
EXTENDS Naturals, Sequences, FiniteSets, Functions, SequencesExt

CONSTANTS Words,      \* the words a text is made of
          MaxLength,  \* the longest text (bound of the model)
          NumWorkers  \* the largest numWorker (bound of the model)

WordCountAssumption == {MaxLength, NumWorkers} \subseteq Nat \ {0} /\ Words # {}

Tally == [Words -> Nat]
NoTally == [w \in Words |-> 0]
Plus(a, b) == [w \in Words |-> a[w] + b[w]]

\* What counting the words of a text means.
TallyOf(text) == [w \in Words |-> Cardinality({i \in DOMAIN text : text[i] = w})]

VARIABLES
  numWorker,    \* the workers of this Master
  dataArray,    \* the words of its text: at least one, as split(" ") gives
  masterBox,    \* mailbox of the Master: "map", then the tallies of Reduce messages
  taskBox,      \* per worker, the parts in its mailbox
  totalRes,     \* Master.totalRes
  receivedMsg,  \* Master.receivedMsg
  master,       \* "running", "stopped"
  finalRes,     \* the totals sent to the Listener
  system        \* "up", "down"

vars == <<numWorker, dataArray, masterBox, taskBox, totalRes, receivedMsg, master,
          finalRes, system>>
input == <<numWorker, dataArray>>

Map == [kind |-> "map"]
Reduce(tally) == [kind |-> "reduce", partData |-> tally]

TypeOK ==
  /\ numWorker \in 1 .. NumWorkers
  /\ dataArray \in Seq(Words) /\ Len(dataArray) \in 1 .. MaxLength
  /\ \A m \in ToSet(masterBox) : m = Map \/ m.partData \in Tally
  /\ taskBox \in [1 .. numWorker -> Seq(Seq(Words))]
  /\ totalRes \in Tally
  /\ receivedMsg \in 0 .. numWorker
  /\ master \in {"running", "stopped"}
  /\ finalRes \in Seq(Tally)
  /\ system \in {"up", "down"}

Init ==
  /\ numWorker \in 1 .. NumWorkers
  /\ dataArray \in UNION {[1 .. n -> Words] : n \in 1 .. MaxLength}
  /\ masterBox = <<Map>>
  /\ taskBox = [i \in 1 .. numWorker |-> <<>>]
  /\ totalRes = NoTally
  /\ receivedMsg = 0
  /\ master = "running"
  /\ finalRes = <<>>
  /\ system = "up"

-----------------------------------------------------------------------------
(* The Master.                                                               *)

sumSize == Len(dataArray)
jobPerWork == sumSize \div numWorker

\* Mistake: every part ends after i*jobPerWork words, the last one too.
SliceEven(i) == SubSeq(dataArray, (i - 1) * jobPerWork + 1, i * jobPerWork)

\* dataArray.slice((i-1)*jobPerWork, endIndex), the end index excluded.
EndIndex(i) == IF i = numWorker THEN sumSize - 1 ELSE i * jobPerWork
Slice(i) == SubSeq(dataArray, (i - 1) * jobPerWork + 1, EndIndex(i))

\* case Map: part i goes to the i-th routee.
HandleMap ==
  /\ master = "running"
  /\ masterBox # <<>> /\ Head(masterBox) = Map
  /\ masterBox' = Tail(masterBox)
  /\ taskBox' = [i \in 1 .. numWorker |-> Append(taskBox[i], Slice(i))]
  /\ UNCHANGED <<input, totalRes, receivedMsg, master, finalRes, system>>

\* mergeRes(allData, partData)
MergeRes(all, part) == Plus(all, part)

\* Mistake: the count of parts is compared before it is increased.
HandleReduceLate ==
  /\ master = "running"
  /\ masterBox # <<>> /\ Head(masterBox) # Map
  /\ masterBox' = Tail(masterBox)
  /\ totalRes' = MergeRes(totalRes, Head(masterBox).partData)
  /\ receivedMsg' = receivedMsg + 1
  /\ IF receivedMsg = numWorker
     THEN finalRes' = Append(finalRes, totalRes') /\ master' = "stopped"
     ELSE UNCHANGED <<finalRes, master>>
  /\ UNCHANGED <<input, taskBox, system>>

\* case Reduce: the last part completes the result and stops the Master.
HandleReduce ==
  /\ master = "running"
  /\ masterBox # <<>> /\ Head(masterBox) # Map
  /\ masterBox' = Tail(masterBox)
  /\ totalRes' = MergeRes(totalRes, Head(masterBox).partData)
  /\ receivedMsg' = receivedMsg + 1
  /\ IF receivedMsg + 1 = numWorker
     THEN finalRes' = Append(finalRes, totalRes') /\ master' = "stopped"
     ELSE UNCHANGED <<finalRes, master>>
  /\ UNCHANGED <<input, taskBox, system>>

-----------------------------------------------------------------------------
(* Worker i and the Listener.                                                *)

\* case Task: sender ! Reduce(wordCount(splitedData))
Work(i) ==
  /\ master = "running"            \* stopping the Master stops its children
  /\ taskBox[i] # <<>>
  /\ taskBox' = [taskBox EXCEPT ![i] = Tail(@)]
  /\ masterBox' = Append(masterBox, Reduce(TallyOf(Head(taskBox[i]))))
  /\ UNCHANGED <<input, totalRes, receivedMsg, master, finalRes, system>>

\* case FinalRes: print and shut down.
Listen ==
  /\ system = "up"
  /\ finalRes # <<>>
  /\ system' = "down"
  /\ UNCHANGED <<input, masterBox, taskBox, totalRes, receivedMsg, master, finalRes>>

-----------------------------------------------------------------------------
Next == HandleMap \/ HandleReduce \/ (\E i \in 1 .. numWorker : Work(i)) \/ Listen

Spec == Init /\ [][Next]_vars

\* The dispatcher runs every actor that has a message.
Fairness == /\ WF_vars(HandleMap) /\ WF_vars(HandleReduce) /\ WF_vars(Listen)
            /\ \A i \in 1 .. NumWorkers : WF_vars(i \in DOMAIN taskBox /\ Work(i))

FairSpec == Spec /\ Fairness

-----------------------------------------------------------------------------
(* Properties.                                                               *)

\* The text without its last word.  The last part ends at sumSize - 1, which slice
\* excludes, so the program leaves this word out.
Counted == Front(dataArray)

\* The words that the parts in a set count.
Part == 1 .. numWorker
TallyIn(parts) ==
  LET words == {k \in DOMAIN Counted : \E i \in parts : (i - 1) * jobPerWork < k /\ k <= EndIndex(i)}
  IN  [w \in Words |-> Cardinality({k \in words : dataArray[k] = w})]

\* At every moment each part is in one place: still to be mapped, at its worker, counted
\* and on its way to the Master, or merged; and the total is the tally of the merged ones.
WordsConserved ==
  \/ /\ masterBox = <<Map>> /\ \A i \in Part : taskBox[i] = <<>>
     /\ receivedMsg = 0 /\ totalRes = NoTally
  \/ \E merged \in SUBSET Part : \E of \in Injection(DOMAIN masterBox, Part \ merged) :
       /\ \A i \in Part : taskBox[i] = IF i \in merged \cup Range(of) THEN <<>> ELSE <<Slice(i)>>
       /\ \A j \in DOMAIN masterBox : masterBox[j] = Reduce(TallyOf(Slice(of[j])))
       /\ receivedMsg = Cardinality(merged) /\ totalRes = TallyIn(merged)

\* The one result is the right count of the text (less its last word), whatever the
\* number of workers, the length of the text and the order of the parts.
RightResult == /\ Len(finalRes) <= 1
               /\ \A n \in DOMAIN finalRes : finalRes[n] = TallyOf(Counted)

\* The program ends.
Ends == <>(system = "down")
=============================================================================
