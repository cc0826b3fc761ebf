--------------------------- MODULE BenchmarkProofs ---------------------------
(***************************************************************************)
(* Theorems about the remoting benchmark, for any totals and burst sizes   *)
(* and any number of lost messages: one burst is under way at most, the    *)
(* reported counts are those of the messages sent, and an echo that is     *)
(* back means that what was sent before it arrived or was lost.            *)
(***************************************************************************)
EXTENDS Benchmark, FiniteSetTheorems, FunctionTheorems, SequenceTheorems, TLAPS

Message ==
  [kind : {"identify", "timeout", "warmup", "start", "done", "payload", "shutdown", "terminated"}]
    \cup [kind : {"identity"}, found : BOOLEAN]
    \cup [kind : {"continue"}, remaining : Nat, startTime : Nat, n : Nat]

Box == Seq(Message)

-----------------------------------------------------------------------------
(* Counting the messages of a mailbox.                                       *)

Positions(s, K) == {i \in DOMAIN s : s[i].kind \in K}
Is(m, K) == IF m.kind \in K THEN 1 ELSE 0

LEMMA PositionsFinite ==
  ASSUME NEW s \in Box, NEW K
  PROVE  IsFiniteSet(Positions(s, K)) /\ Count(s, K) = Cardinality(Positions(s, K))
                                      /\ Count(s, K) \in Nat
<1>1. IsFiniteSet(1 .. Len(s)) /\ DOMAIN s = 1 .. Len(s)
  BY FS_Interval DEF Box
<1>2. Positions(s, K) \in SUBSET (1 .. Len(s))
  BY <1>1 DEF Positions
<1>3. IsFiniteSet(Positions(s, K))
  BY <1>1, <1>2, FS_Subset
<1> QED
  BY <1>3, FS_CardinalityType DEF Count, Positions

LEMMA CountNone ==
  ASSUME NEW s \in Box, NEW K
  PROVE  Count(s, K) = 0 <=> \A i \in DOMAIN s : s[i].kind \notin K
<1>1. Count(s, K) = 0 <=> Positions(s, K) = {}
  BY PositionsFinite, FS_EmptySet
<1> QED
  BY <1>1 DEF Positions

(* The positions of t in s \o t are those in t, moved by the length of s.   *)
LEMMA CountConcat ==
  ASSUME NEW s \in Box, NEW t \in Box, NEW K
  PROVE  s \o t \in Box /\ Count(s \o t, K) = Count(s, K) + Count(t, K)
<1> DEFINE A == Positions(s, K)
           B == Positions(t, K)
           C == {i \in DOMAIN (s \o t) : i > Len(s) /\ (s \o t)[i].kind \in K}
           f == [j \in B |-> Len(s) + j]
<1>1. /\ s \o t \in Box
      /\ DOMAIN s = 1 .. Len(s) /\ DOMAIN t = 1 .. Len(t) /\ Len(s) \in Nat /\ Len(t) \in Nat
      /\ DOMAIN (s \o t) = 1 .. Len(s) + Len(t)
      /\ \A i \in DOMAIN s : (s \o t)[i] = s[i]
      /\ \A j \in DOMAIN t : (s \o t)[Len(s) + j] = t[j]
  BY DEF Box
<1>2. \A i \in DOMAIN (s \o t) : i > Len(s) => i - Len(s) \in DOMAIN t /\ (s \o t)[i] = t[i - Len(s)]
  BY <1>1 DEF Box
<1>3. Positions(s \o t, K) = A \cup C /\ A \cap C = {}
  BY <1>1 DEF Positions
<1>4. f \in Bijection(B, C)
  <2>1. f \in [B -> C]
    BY <1>1 DEF Positions
  <2>2. \A a, b \in B : f[a] = f[b] => a = b
    BY <1>1 DEF Positions
  <2>3. \A c \in C : \E b \in B : f[b] = c
    <3>1. ASSUME NEW c \in C PROVE c - Len(s) \in B /\ Len(s) + (c - Len(s)) = c
      BY <1>1, <1>2 DEF Positions
    <3> QED
      BY <3>1
  <2> QED
    BY <2>1, <2>2, <2>3, Fun_IsBij
<1>5. IsFiniteSet(C) /\ Cardinality(C) = Count(t, K)
  <2>1. ExistsBijection(B, C)
    BY <1>4, Fun_ExistsBij
  <2> HIDE DEF C
  <2> QED
    BY <2>1, PositionsFinite, FS_Bijection
<1>6. Cardinality(A \cup C) = Count(s, K) + Count(t, K)
  <2>1. IsFiniteSet(A) /\ Cardinality(A) = Count(s, K)
        /\ Count(s, K) \in Nat /\ Count(t, K) \in Nat
    BY PositionsFinite
  <2> HIDE DEF A, C
  <2>2. Cardinality(A \cap C) = 0
    BY <1>3, FS_EmptySet
  <2>3. Cardinality(A \cup C) = Cardinality(A) + Cardinality(C) - Cardinality(A \cap C)
    BY <1>5, <2>1, FS_Union
  <2> QED
    BY <1>5, <2>1, <2>2, <2>3
<1>7. Count(s \o t, K) = Cardinality(A \cup C)
  <2> HIDE DEF A, C
  <2>1. Count(s \o t, K) = Cardinality(Positions(s \o t, K))
    BY <1>1, PositionsFinite
  <2> QED
    BY <1>3, <2>1, Zenon
<1> QED
  BY <1>1, <1>6, <1>7

LEMMA CountOne ==
  ASSUME NEW m \in Message, NEW K
  PROVE  <<m>> \in Box /\ Count(<<m>>, K) = Is(m, K)
<1>1. <<m>> \in Box /\ DOMAIN <<m>> = {1} /\ <<m>>[1] = m
  BY DEF Box
<1>2. CASE m.kind \in K
  <2>1. Positions(<<m>>, K) = {1}
    BY <1>1, <1>2 DEF Positions
  <2>2. Cardinality({1}) = 1
    BY FS_Singleton
  <2> QED
    BY <1>1, <1>2, <2>1, <2>2, PositionsFinite DEF Is
<1>3. CASE m.kind \notin K
  <2>1. Count(<<m>>, K) = 0
    BY <1>1, <1>3, CountNone
  <2> QED
    BY <1>1, <1>3, <2>1 DEF Is
<1> QED
  BY <1>2, <1>3

(* The head of a mailbox, and the rest.                                     *)
LEMMA BoxTail ==
  ASSUME NEW s \in Box, s # <<>>
  PROVE  /\ Tail(s) \in Box /\ Head(s) \in Message
         /\ \A K : Count(s, K) = Is(Head(s), K) + Count(Tail(s), K)
         /\ ToSet(s) = {Head(s)} \cup ToSet(Tail(s))
         /\ \A i \in DOMAIN Tail(s) : i + 1 \in DOMAIN s /\ Tail(s)[i] = s[i + 1]
<1>1. Tail(s) \in Box /\ Head(s) \in Message
  BY DEF Box
<1>2. s = <<Head(s)>> \o Tail(s)
  BY DEF Box
<1>3. \A K : Count(s, K) = Is(Head(s), K) + Count(Tail(s), K)
  <2> TAKE K
  <2>1. <<Head(s)>> \in Box /\ Count(<<Head(s)>>, K) = Is(Head(s), K)
    BY <1>1, CountOne
  <2>2. Count(<<Head(s)>> \o Tail(s), K) = Count(<<Head(s)>>, K) + Count(Tail(s), K)
    BY <1>1, <2>1, CountConcat
  <2> QED
    BY <1>2, <2>1, <2>2, Zenon
<1>4. /\ \A i \in DOMAIN Tail(s) : i + 1 \in DOMAIN s /\ Tail(s)[i] = s[i + 1]
      /\ \A i \in DOMAIN s : i # 1 => i - 1 \in DOMAIN Tail(s) /\ Tail(s)[i - 1] = s[i]
      /\ 1 \in DOMAIN s /\ s[1] = Head(s)
  BY DEF Box
<1>5. ToSet(s) = {Head(s)} \cup ToSet(Tail(s))
  <2>1. \A i \in DOMAIN s : s[i] \in {Head(s)} \cup ToSet(Tail(s))
    BY <1>4 DEF ToSet
  <2>2. Head(s) \in ToSet(s) /\ \A i \in DOMAIN Tail(s) : Tail(s)[i] \in ToSet(s)
    BY <1>4 DEF ToSet
  <2> QED
    BY <2>1, <2>2 DEF ToSet
<1> QED
  BY <1>1, <1>3, <1>4, <1>5

LEMMA BoxAppend ==
  ASSUME NEW s \in Box, NEW m \in Message
  PROVE  /\ Append(s, m) \in Box
         /\ \A K : Count(Append(s, m), K) = Count(s, K) + Is(m, K)
         /\ ToSet(Append(s, m)) = ToSet(s) \cup {m}
         /\ DOMAIN Append(s, m) = DOMAIN s \cup {Len(s) + 1}
         /\ \A i \in DOMAIN s : Append(s, m)[i] = s[i] /\ i < Len(s) + 1
         /\ Append(s, m)[Len(s) + 1] = m
<1>1. Append(s, m) = s \o <<m>>
  BY DEF Box
<1>2. \A K : Count(Append(s, m), K) = Count(s, K) + Is(m, K)
  <2> TAKE K
  <2>1. Count(s \o <<m>>, K) = Count(s, K) + Is(m, K)
    BY CountOne, CountConcat
  <2> QED
    BY <1>1, <2>1, Zenon
<1>3. /\ Append(s, m) \in Box
      /\ DOMAIN Append(s, m) = DOMAIN s \cup {Len(s) + 1}
      /\ \A i \in DOMAIN s : Append(s, m)[i] = s[i] /\ i < Len(s) + 1
      /\ Append(s, m)[Len(s) + 1] = m
  BY DEF Box
<1>4. ToSet(Append(s, m)) = ToSet(s) \cup {m}
  BY <1>3 DEF ToSet
<1> QED
  BY <1>2, <1>3, <1>4

LEMMA BoxRemove ==
  ASSUME NEW s \in Box, NEW i \in DOMAIN s
  PROVE  /\ RemoveAt(s, i) \in Box
         /\ \A K : Count(s, K) = Count(RemoveAt(s, i), K) + Is(s[i], K)
         /\ ToSet(RemoveAt(s, i)) \subseteq ToSet(s)
         /\ \A j \in DOMAIN RemoveAt(s, i) :
              IF j < i THEN j \in DOMAIN s /\ RemoveAt(s, i)[j] = s[j]
                       ELSE j + 1 \in DOMAIN s /\ RemoveAt(s, i)[j] = s[j + 1]
<1> DEFINE a == SubSeq(s, 1, i - 1)
           b == SubSeq(s, i + 1, Len(s))
<1>1. a \in Box /\ b \in Box /\ s[i] \in Message /\ i \in 1 .. Len(s)
  BY DEF Box
<1>2. s = (a \o <<s[i]>>) \o b
  <2>1. SubSeq(s, 1, i) = a \o <<s[i]>>
    <3>1. \A m \in 1 .. Len(s) : \A n \in m .. Len(s) :
            SubSeq(s, m, n) = SubSeq(s, m, n - 1) \o <<s[n]>>
      BY SubSeqRecursiveSecond, Zenon DEF Box
    <3>2. 1 \in 1 .. Len(s) /\ i \in 1 .. Len(s)
      BY <1>1
    <3> QED
      BY <3>1, <3>2, Zenon
  <2>2. SubSeq(s, 1, i) \o b = SubSeq(s, 1, Len(s))
    <3>1. \A m \in 1 .. Len(s) + 1 : \A k \in m - 1 .. Len(s) : \A n \in k .. Len(s) :
            SubSeq(s, m, k) \o SubSeq(s, k + 1, n) = SubSeq(s, m, n)
      BY ConcatAdjacentSubSeq, Zenon DEF Box
    <3>2. 1 \in 1 .. Len(s) + 1 /\ i \in 1 - 1 .. Len(s) /\ Len(s) \in i .. Len(s)
      BY <1>1 DEF Box
    <3> QED
      BY <3>1, <3>2, Zenon
  <2>3. SubSeq(s, 1, Len(s)) = s
    BY SubSeqFull DEF Box
  <2> QED
    BY <2>1, <2>2, <2>3, Zenon
<1>3. RemoveAt(s, i) = a \o b
  BY DEF RemoveAt
<1>4. RemoveAt(s, i) \in Box
  BY <1>1, <1>3 DEF Box
<1>5. \A j \in DOMAIN RemoveAt(s, i) :
        IF j < i THEN j \in DOMAIN s /\ RemoveAt(s, i)[j] = s[j]
                 ELSE j + 1 \in DOMAIN s /\ RemoveAt(s, i)[j] = s[j + 1]
  <2>1. /\ Len(s) \in Nat /\ DOMAIN s = 1 .. Len(s)
        /\ Len(a) = i - 1 /\ Len(b) = Len(s) - i
        /\ \A j \in 1 .. i - 1 : a[j] = s[j]
        /\ \A j \in 1 .. Len(s) - i : b[j] = s[i + j]
    BY <1>1 DEF Box
  <2> HIDE DEF a, b
  <2>2. DOMAIN (a \o b) = 1 .. Len(s) - 1
    <3>1. a \o b \in Box /\ Len(a \o b) = Len(a) + Len(b)
      BY <1>1 DEF Box
    <3>2. DOMAIN (a \o b) = 1 .. Len(a \o b)
      BY <3>1 DEF Box
    <3>3. Len(a) + Len(b) = Len(s) - 1
      BY <1>1, <2>1
    <3> QED
      BY <3>1, <3>2, <3>3
  <2>3. \A j \in 1 .. Len(s) - 1 : (a \o b)[j] = IF j < i THEN a[j] ELSE b[j - (i - 1)]
    BY <1>1, <2>1 DEF Box
  <2>4. ASSUME NEW j \in 1 .. Len(s) - 1
        PROVE  IF j < i THEN j \in DOMAIN s /\ (a \o b)[j] = s[j]
                        ELSE j + 1 \in DOMAIN s /\ (a \o b)[j] = s[j + 1]
    <3>1. CASE j < i
      BY <1>1, <2>1, <2>3, <3>1
    <3>2. CASE ~ (j < i)
      <4>1. j - (i - 1) \in 1 .. Len(s) - i /\ i + (j - (i - 1)) = j + 1
        BY <1>1, <2>1, <3>2
      <4>2. (a \o b)[j] = b[j - (i - 1)]
        BY <2>3, <3>2
      <4>3. b[j - (i - 1)] = s[j + 1]
        BY <2>1, <4>1
      <4>4. j + 1 \in DOMAIN s
        BY <2>1
      <4> QED
        BY <3>2, <4>2, <4>3, <4>4
    <3> QED
      BY <3>1, <3>2
  <2> QED
    BY <1>3, <2>2, <2>4
<1>6. ToSet(RemoveAt(s, i)) \subseteq ToSet(s)
  BY <1>5 DEF ToSet
<1>7. \A K : Count(s, K) = Count(RemoveAt(s, i), K) + Is(s[i], K)
  <2> TAKE K
  <2> HIDE DEF a, b
  <2>1. a \o <<s[i]>> \in Box /\ Count(a \o <<s[i]>>, K) = Count(a, K) + Is(s[i], K)
    BY <1>1, CountOne, CountConcat
  <2>2. Count((a \o <<s[i]>>) \o b, K) = Count(a \o <<s[i]>>, K) + Count(b, K)
    BY <1>1, <2>1, CountConcat
  <2>3. Count(a \o b, K) = Count(a, K) + Count(b, K)
    BY <1>1, CountConcat
  <2>4. Count(s, K) = Count(a \o <<s[i]>>, K) + Count(b, K)
    BY <1>2, <2>2, Zenon
  <2>5. Count(RemoveAt(s, i), K) = Count(a, K) + Count(b, K)
    BY <1>3, <2>3, Zenon
  <2>6. Count(a, K) \in Nat /\ Count(b, K) \in Nat /\ Is(s[i], K) \in Nat
    BY <1>1, PositionsFinite DEF Is
  <2> QED
    BY <2>1, <2>4, <2>5, <2>6
<1> QED
  BY <1>4, <1>5, <1>6, <1>7

(* A batch of payloads.                                                     *)
LEMMA BoxBatch ==
  ASSUME NEW n \in Nat
  PROVE  LET batch == [k \in 1 .. n |-> Msg("payload")]
         IN  /\ batch \in Box
             /\ Count(batch, {"payload"}) = n
             /\ \A k \in DOMAIN batch : batch[k] = Msg("payload")
<1> DEFINE batch == [k \in 1 .. n |-> Msg("payload")]
<1>1. Msg("payload") \in Message /\ Msg("payload").kind = "payload"
  BY DEF Msg, Message
<1>2. batch \in Box /\ \A k \in DOMAIN batch : batch[k] = Msg("payload")
  BY <1>1 DEF Box
<1>3. Positions(batch, {"payload"}) = 1 .. n
  BY <1>1 DEF Positions
<1>4. Cardinality(1 .. n) = n
  BY FS_Interval
<1> QED
  BY <1>2, <1>3, <1>4, PositionsFinite

(* Two sequences of messages, one behind the other.                        *)
LEMMA BoxJoin ==
  ASSUME NEW s \in Box, NEW t \in Box
  PROVE  /\ s \o t \in Box
         /\ \A K : Count(s \o t, K) = Count(s, K) + Count(t, K)
         /\ ToSet(s \o t) = ToSet(s) \cup ToSet(t)
<1>1. s \o t \in Box /\ \A K : Count(s \o t, K) = Count(s, K) + Count(t, K)
  <2>1. s \o t \in Box
    BY DEF Box
  <2> QED
    BY <2>1, CountConcat
<1>2. /\ \A i \in DOMAIN s : i \in DOMAIN (s \o t) /\ (s \o t)[i] = s[i]
      /\ \A j \in DOMAIN t : Len(s) + j \in DOMAIN (s \o t) /\ (s \o t)[Len(s) + j] = t[j]
      /\ \A i \in DOMAIN (s \o t) :
           \/ i \in DOMAIN s /\ (s \o t)[i] = s[i]
           \/ i - Len(s) \in DOMAIN t /\ (s \o t)[i] = t[i - Len(s)]
  BY DEF Box
<1>3. ToSet(s) \subseteq ToSet(s \o t) /\ ToSet(t) \subseteq ToSet(s \o t)
  BY <1>2 DEF ToSet
<1>4. ToSet(s \o t) \subseteq ToSet(s) \cup ToSet(t)
  BY <1>2 DEF ToSet
<1> QED
  BY <1>1, <1>3, <1>4

-----------------------------------------------------------------------------
(* The inductive invariant.                                                  *)

TokenKinds == {"warmup", "shutdown"} \cup Echo
Tokens == Count(inbox, TokenKinds) + Count(outbox, TokenKinds)
OnTheWay == Count(outbox, {"payload"})

Types ==
  /\ totalMessages \in Totals /\ burstSize \in Bursts
  /\ totalMessages \in Nat /\ burstSize \in Nat
  /\ sender \in {"identifying", "active", "stopped"}
  /\ receiver \in {"absent", "running", "stopped"}
  /\ mailbox \in Box /\ wire \in Box /\ outbox \in Box /\ inbox \in Box
  /\ timer \in BOOLEAN
  /\ startTime \in Nat /\ watching \in BOOLEAN /\ lost \in 0 .. MaxLost
  /\ sent \in Nat /\ received \in Nat

(* What has been sent when a message that moves the benchmark on is under   *)
(* way.                                                                     *)
Fits(m) ==
  /\ m.kind = "warmup" => sent = 0
  /\ m.kind = "start" => sent = burstSize
  /\ m.kind = "continue" => /\ startTime = burstSize
                            /\ m.remaining \in 1 .. totalMessages
                            /\ m.remaining = totalMessages - (sent - startTime)
                            /\ m.startTime \in Nat /\ burstSize <= m.startTime
                            /\ m.n \in 0 .. totalMessages
                            /\ m.n = sent - m.startTime
  /\ m.kind \in {"done", "shutdown"} => sent = burstSize + totalMessages

(* One of these messages is under way at most, exactly one when nothing was *)
(* lost, and none before the Receiver is found.                             *)
OneBurst ==
  /\ \A m \in InTransit : Fits(m)
  /\ Tokens <= 1
  /\ sender = "active" /\ receiver = "running" /\ lost = 0 => Tokens = 1
  /\ sender = "identifying" => Tokens = 0 /\ sent = 0
  /\ sender = "active" => receiver # "absent"
  /\ \A m \in ToSet(inbox) : m.kind = "identity" => (m.found => receiver # "absent")

(* Payloads are under way, received or lost, and no echo is before one.     *)
Delivery ==
  /\ sent <= received + lost + OnTheWay
  /\ received + OnTheWay <= sent
  /\ \A i, j \in DOMAIN outbox : i < j /\ outbox[i].kind \in Echo => outbox[j].kind # "payload"
  /\ Count(inbox, Echo) > 0 => OnTheWay = 0

IInv == Types /\ OneBurst /\ Delivery

-----------------------------------------------------------------------------
LEMMA Kinds ==
  ASSUME NEW m \in Message
  PROVE  /\ m.kind \in {"identify", "timeout", "warmup", "start", "done", "payload", "shutdown",
                        "terminated", "identity", "continue"}
         /\ m.kind = "identity" => m \in [kind : {"identity"}, found : BOOLEAN]
         /\ m.kind = "continue" => m.remaining \in Nat /\ m.startTime \in Nat /\ m.n \in Nat
BY DEF Message

LEMMA Messages ==
  /\ \A k \in {"identify", "timeout", "warmup", "start", "done", "payload", "shutdown", "terminated"} :
       Msg(k) \in Message /\ Msg(k).kind = k
  /\ \A b \in BOOLEAN : /\ Identity(b) \in Message
                        /\ Identity(b).kind = "identity" /\ Identity(b).found = b
  /\ \A r, t, n \in Nat : /\ Continue(r, t, n) \in Message
                          /\ Continue(r, t, n).kind = "continue"
                          /\ Continue(r, t, n).remaining = r
                          /\ Continue(r, t, n).startTime = t
                          /\ Continue(r, t, n).n = n
BY DEF Message, Msg, Identity, Continue

LEMMA InitIInv == Init => IInv
<1> SUFFICES ASSUME Init PROVE IInv
  OBVIOUS
<1>1. Msg("identify") \in Message /\ Msg("identify").kind = "identify"
  BY Messages
<1>2. <<>> \in Box /\ outbox = <<Msg("identify")>> /\ outbox \in Box
  BY <1>1, CountOne DEF Init, Box
<1>9. inbox = <<>>
  BY DEF Init, inbox
<1>3. Types
  <2>1. totalMessages \in Nat /\ burstSize \in Nat /\ lost \in 0 .. MaxLost
    BY BenchmarkAssumption DEF Init
  <2>2. mailbox \in Box /\ wire \in Box /\ inbox \in Box /\ outbox \in Box
    BY <1>2, <1>9, Zenon DEF Init
  <2>3. /\ totalMessages \in Totals /\ burstSize \in Bursts
        /\ sender = "identifying" /\ receiver = "absent"
        /\ startTime = 0 /\ watching = FALSE /\ timer = TRUE /\ sent = 0 /\ received = 0
    BY DEF Init
  <2> QED
    BY <2>1, <2>2, <2>3 DEF Types
<1>4. \A K : Count(<<>>, K) = 0
  BY <1>2, CountNone
<1>5. Count(outbox, TokenKinds) = 0 /\ OnTheWay = 0
  BY <1>1, <1>2, CountOne DEF Is, TokenKinds, Echo, OnTheWay
<1>6. ToSet(outbox) = {Msg("identify")} /\ ToSet(inbox) = {}
  BY <1>2, <1>9 DEF ToSet
<1>7. OneBurst
  BY <1>1, <1>4, <1>5, <1>6, <1>9 DEF Init, OneBurst, Tokens, InTransit, Fits
<1>8. Delivery
  BY <1>2, <1>4, <1>5, <1>9 DEF Init, Delivery
<1> QED
  BY <1>3, <1>7, <1>8 DEF IInv

-----------------------------------------------------------------------------
(* What happens to the messages for the Sender, in the mailbox or on their   *)
(* way: the head of the mailbox is taken, ...                                *)
LEMMA Taken ==
  ASSUME Types, mailbox # <<>>, mailbox' = Tail(mailbox), wire' = wire
  PROVE  /\ mailbox' \in Box /\ wire' \in Box /\ inbox' \in Box /\ Head(mailbox) \in Message
         /\ \A K : /\ Count(inbox, K) = Is(Head(mailbox), K) + Count(inbox', K)
                   /\ Count(inbox, K) \in Nat /\ Count(inbox', K) \in Nat
         /\ ToSet(inbox) = {Head(mailbox)} \cup ToSet(inbox')
<1>1. mailbox \in Box /\ wire \in Box
  BY DEF Types
<1>2. /\ mailbox' \in Box /\ wire' \in Box /\ Head(mailbox) \in Message
      /\ \A K : Count(mailbox, K) = Is(Head(mailbox), K) + Count(mailbox', K)
      /\ ToSet(mailbox) = {Head(mailbox)} \cup ToSet(mailbox')
  BY <1>1, BoxTail
<1>3. /\ inbox = mailbox \o wire /\ inbox \in Box
      /\ \A K : Count(inbox, K) = Count(mailbox, K) + Count(wire, K)
      /\ ToSet(inbox) = ToSet(mailbox) \cup ToSet(wire)
  BY <1>1, BoxJoin DEF inbox
<1>4. /\ inbox' = mailbox' \o wire' /\ inbox' \in Box
      /\ \A K : Count(inbox', K) = Count(mailbox', K) + Count(wire', K)
      /\ ToSet(inbox') = ToSet(mailbox') \cup ToSet(wire')
  BY <1>2, BoxJoin DEF inbox
<1>5. ASSUME NEW K
      PROVE  /\ Count(inbox, K) = Is(Head(mailbox), K) + Count(inbox', K)
             /\ Count(inbox, K) \in Nat /\ Count(inbox', K) \in Nat
  <2>1. /\ Count(mailbox', K) \in Nat /\ Count(wire, K) \in Nat /\ Is(Head(mailbox), K) \in Nat
        /\ Count(inbox, K) \in Nat /\ Count(inbox', K) \in Nat
    BY <1>1, <1>2, <1>3, <1>4, PositionsFinite DEF Is
  <2>2. /\ Count(mailbox, K) = Is(Head(mailbox), K) + Count(mailbox', K)
        /\ Count(inbox, K) = Count(mailbox, K) + Count(wire, K)
        /\ Count(inbox', K) = Count(mailbox', K) + Count(wire, K)
    BY <1>2, <1>3, <1>4
  <2> QED
    BY <2>1, <2>2
<1> QED
  BY <1>2, <1>3, <1>4, <1>5

(* ... a message comes into the mailbox, or on its way, ...                  *)
LEMMA Posted ==
  ASSUME Types, NEW m \in Message,
         \/ mailbox' = Append(mailbox, m) /\ wire' = wire
         \/ mailbox' = mailbox /\ wire' = Append(wire, m)
  PROVE  /\ mailbox' \in Box /\ wire' \in Box /\ inbox' \in Box
         /\ \A K : /\ Count(inbox', K) = Count(inbox, K) + Is(m, K)
                   /\ Count(inbox, K) \in Nat /\ Count(inbox', K) \in Nat
         /\ ToSet(inbox') = ToSet(inbox) \cup {m}
<1>1. mailbox \in Box /\ wire \in Box
  BY DEF Types
<1>2. /\ mailbox' \in Box /\ wire' \in Box
      /\ \A K : Count(mailbox', K) + Count(wire', K) = Count(mailbox, K) + Count(wire, K) + Is(m, K)
      /\ ToSet(mailbox') \cup ToSet(wire') = ToSet(mailbox) \cup ToSet(wire) \cup {m}
  <2>1. \A K : Count(mailbox, K) \in Nat /\ Count(wire, K) \in Nat /\ Is(m, K) \in Nat
    BY <1>1, PositionsFinite DEF Is
  <2>2. CASE mailbox' = Append(mailbox, m) /\ wire' = wire
    <3>1. /\ mailbox' \in Box /\ ToSet(mailbox') = ToSet(mailbox) \cup {m}
          /\ \A K : Count(mailbox', K) = Count(mailbox, K) + Is(m, K)
      BY <1>1, <2>2, BoxAppend
    <3>2. ToSet(mailbox') \cup ToSet(wire') = ToSet(mailbox) \cup ToSet(wire) \cup {m}
      BY <2>2, <3>1
    <3>3. ASSUME NEW K
          PROVE  Count(mailbox', K) + Count(wire', K) = Count(mailbox, K) + Count(wire, K) + Is(m, K)
      BY <2>1, <2>2, <3>1
    <3> QED
      BY <1>1, <2>2, <3>1, <3>2, <3>3
  <2>3. CASE mailbox' = mailbox /\ wire' = Append(wire, m)
    <3>1. /\ wire' \in Box /\ ToSet(wire') = ToSet(wire) \cup {m}
          /\ \A K : Count(wire', K) = Count(wire, K) + Is(m, K)
      BY <1>1, <2>3, BoxAppend
    <3>2. ToSet(mailbox') \cup ToSet(wire') = ToSet(mailbox) \cup ToSet(wire) \cup {m}
      BY <2>3, <3>1
    <3>3. ASSUME NEW K
          PROVE  Count(mailbox', K) + Count(wire', K) = Count(mailbox, K) + Count(wire, K) + Is(m, K)
      BY <2>1, <2>3, <3>1
    <3> QED
      BY <1>1, <2>3, <3>1, <3>2, <3>3
  <2> QED
    BY <2>2, <2>3
<1>3. /\ inbox = mailbox \o wire /\ inbox \in Box
      /\ \A K : Count(inbox, K) = Count(mailbox, K) + Count(wire, K)
      /\ ToSet(inbox) = ToSet(mailbox) \cup ToSet(wire)
  BY <1>1, BoxJoin DEF inbox
<1>4. /\ inbox' = mailbox' \o wire' /\ inbox' \in Box
      /\ \A K : Count(inbox', K) = Count(mailbox', K) + Count(wire', K)
      /\ ToSet(inbox') = ToSet(mailbox') \cup ToSet(wire')
  BY <1>2, BoxJoin DEF inbox
<1>5. \A K : Count(inbox, K) \in Nat /\ Count(inbox', K) \in Nat
  BY <1>3, <1>4, PositionsFinite
<1>6. \A K : Count(inbox', K) = Count(inbox, K) + Is(m, K)
  BY <1>2, <1>3, <1>4
<1>7. ToSet(inbox') = ToSet(inbox) \cup {m}
  BY <1>2, <1>3, <1>4
<1> QED
  BY <1>2, <1>4, <1>5, <1>6, <1>7

(* ... or the search ends and the Sender writes to itself ...                *)
LEMMA TakenAndPosted ==
  ASSUME Types, mailbox # <<>>, NEW m \in Message, mailbox' = Append(Tail(mailbox), m), wire' = wire
  PROVE  /\ mailbox' \in Box /\ wire' \in Box /\ inbox' \in Box /\ Head(mailbox) \in Message
         /\ \A K : Count(inbox, K) + Is(m, K) = Is(Head(mailbox), K) + Count(inbox', K)
         /\ ToSet(inbox) \cup {m} = {Head(mailbox)} \cup ToSet(inbox')
         /\ Head(mailbox) \in ToSet(inbox)
         /\ ToSet(inbox') \subseteq ToSet(inbox) \cup {m}
<1>1. mailbox \in Box /\ wire \in Box
  BY DEF Types
<1>2. /\ Tail(mailbox) \in Box /\ Head(mailbox) \in Message
      /\ \A K : Count(mailbox, K) = Is(Head(mailbox), K) + Count(Tail(mailbox), K)
      /\ ToSet(mailbox) = {Head(mailbox)} \cup ToSet(Tail(mailbox))
  BY <1>1, BoxTail
<1>3. /\ mailbox' \in Box
      /\ \A K : Count(mailbox', K) = Count(Tail(mailbox), K) + Is(m, K)
      /\ ToSet(mailbox') = ToSet(Tail(mailbox)) \cup {m}
  BY <1>2, BoxAppend
<1>4. /\ inbox \in Box
      /\ \A K : Count(inbox, K) = Count(mailbox, K) + Count(wire, K)
      /\ ToSet(inbox) = ToSet(mailbox) \cup ToSet(wire)
  BY <1>1, BoxJoin DEF inbox
<1>5. /\ inbox' \in Box
      /\ \A K : Count(inbox', K) = Count(mailbox', K) + Count(wire, K)
      /\ ToSet(inbox') = ToSet(mailbox') \cup ToSet(wire)
  BY <1>1, <1>3, BoxJoin DEF inbox
<1>6. ASSUME NEW K PROVE Count(inbox, K) + Is(m, K) = Is(Head(mailbox), K) + Count(inbox', K)
  <2>1. /\ Count(Tail(mailbox), K) \in Nat /\ Count(wire, K) \in Nat
        /\ Is(Head(mailbox), K) \in Nat /\ Is(m, K) \in Nat
    BY <1>1, <1>2, PositionsFinite DEF Is
  <2>2. /\ Count(mailbox, K) = Is(Head(mailbox), K) + Count(Tail(mailbox), K)
        /\ Count(mailbox', K) = Count(Tail(mailbox), K) + Is(m, K)
        /\ Count(inbox, K) = Count(mailbox, K) + Count(wire, K)
        /\ Count(inbox', K) = Count(mailbox', K) + Count(wire, K)
    BY <1>2, <1>3, <1>4, <1>5
  <2> QED
    BY <2>1, <2>2
<1> QED
  BY <1>1, <1>2, <1>3, <1>4, <1>5, <1>6

(* ... and what arrives in the mailbox was on its way before.                *)
LEMMA Delivered ==
  ASSUME Types, wire # <<>>, wire' = Tail(wire), mailbox' = Append(mailbox, Head(wire))
  PROVE  /\ mailbox' \in Box /\ wire' \in Box /\ inbox' \in Box
         /\ \A K : Count(inbox', K) = Count(inbox, K)
         /\ ToSet(inbox') = ToSet(inbox)
<1> PICK m : m = Head(wire)
  OBVIOUS
<1>1. mailbox \in Box /\ wire \in Box
  BY DEF Types
<1>2. /\ wire' \in Box /\ m \in Message
      /\ \A K : Count(wire, K) = Is(m, K) + Count(wire', K)
      /\ ToSet(wire) = {m} \cup ToSet(wire')
  BY <1>1, BoxTail
<1>3. /\ mailbox' \in Box
      /\ \A K : Count(mailbox', K) = Count(mailbox, K) + Is(m, K)
      /\ ToSet(mailbox') = ToSet(mailbox) \cup {m}
  BY <1>1, <1>2, BoxAppend
<1>4. /\ \A K : Count(inbox, K) = Count(mailbox, K) + Count(wire, K)
      /\ ToSet(inbox) = ToSet(mailbox) \cup ToSet(wire)
  BY <1>1, BoxJoin DEF inbox
<1>5. /\ inbox' \in Box
      /\ \A K : Count(inbox', K) = Count(mailbox', K) + Count(wire', K)
      /\ ToSet(inbox') = ToSet(mailbox') \cup ToSet(wire')
  BY <1>2, <1>3, BoxJoin DEF inbox
<1>6. ASSUME NEW K PROVE Count(inbox', K) = Count(inbox, K)
  <2>1. Count(mailbox, K) \in Nat /\ Count(wire', K) \in Nat /\ Is(m, K) \in Nat
    BY <1>1, <1>2, PositionsFinite DEF Is
  <2> QED
    BY <1>2, <1>3, <1>4, <1>5, <2>1
<1>7. ToSet(inbox') = ToSet(inbox)
  BY <1>2, <1>3, <1>4, <1>5
<1> QED
  BY <1>2, <1>3, <1>5, <1>6, <1>7

LEMMA WireLost ==
  ASSUME Types, NEW i \in DOMAIN wire, wire' = RemoveAt(wire, i), mailbox' = mailbox
  PROVE  /\ mailbox' \in Box /\ wire' \in Box /\ inbox' \in Box
         /\ \A K : Count(inbox', K) \in Nat /\ Count(inbox', K) <= Count(inbox, K)
         /\ ToSet(inbox') \subseteq ToSet(inbox)
<1>1. mailbox \in Box /\ wire \in Box
  BY DEF Types
<1>2. /\ wire' \in Box
      /\ \A K : Count(wire, K) = Count(wire', K) + Is(wire[i], K)
      /\ ToSet(wire') \subseteq ToSet(wire)
  BY <1>1, BoxRemove
<1>3. /\ \A K : Count(inbox, K) = Count(mailbox, K) + Count(wire, K)
      /\ ToSet(inbox) = ToSet(mailbox) \cup ToSet(wire)
  BY <1>1, BoxJoin DEF inbox
<1>4. /\ inbox' \in Box
      /\ \A K : Count(inbox', K) = Count(mailbox, K) + Count(wire', K)
      /\ ToSet(inbox') = ToSet(mailbox) \cup ToSet(wire')
  BY <1>1, <1>2, BoxJoin DEF inbox
<1>5. ASSUME NEW K PROVE Count(inbox', K) \in Nat /\ Count(inbox', K) <= Count(inbox, K)
  <2>1. Count(mailbox, K) \in Nat /\ Count(wire', K) \in Nat /\ Is(wire[i], K) \in Nat
    BY <1>1, <1>2, PositionsFinite DEF Is
  <2> QED
    BY <1>2, <1>3, <1>4, <2>1
<1> QED
  BY <1>1, <1>2, <1>3, <1>4, <1>5

-----------------------------------------------------------------------------
(* A step that sends no payload and adds no message that moves the          *)
(* benchmark on.                                                            *)
LEMMA BurstKept ==
  ASSUME IInv, Types', UNCHANGED <<totalMessages, burstSize, sent, startTime>>,
         \A m \in InTransit' : m \in InTransit \/ m.kind \notin TokenKinds,
         \A m \in ToSet(inbox') : m.kind = "identity" =>
            (m.found => m \in ToSet(inbox) \/ receiver # "absent"),
         receiver # "absent" => receiver' # "absent",
         sender' = "identifying" => sender = "identifying",
         sender' = "active" => receiver # "absent",
         Tokens' <= Tokens,
         sender' = "active" /\ receiver' = "running" /\ lost' = 0 =>
           sender = "active" /\ receiver = "running" /\ lost = 0 /\ Tokens' = Tokens
  PROVE  OneBurst'
<1>1. Tokens \in Nat /\ Tokens' \in Nat
  <2>1. /\ Count(inbox, TokenKinds) \in Nat /\ Count(outbox, TokenKinds) \in Nat
        /\ Count(inbox', TokenKinds) \in Nat /\ Count(outbox', TokenKinds) \in Nat
    BY PositionsFinite DEF IInv, Types
  <2> QED
    BY <2>1 DEF Tokens
<1>2. ASSUME NEW m \in InTransit' PROVE Fits(m)'
  <2>1. CASE m \in InTransit
    BY <2>1 DEF Fits, IInv, OneBurst
  <2>2. CASE m.kind \notin TokenKinds
    BY <2>2 DEF Fits, TokenKinds, Echo
  <2> QED
    BY <2>1, <2>2
<1>3. Tokens' <= 1
  BY <1>1 DEF IInv, OneBurst
<1>4. sender' = "active" /\ receiver' = "running" /\ lost' = 0 => Tokens' = 1
  BY DEF IInv, OneBurst
<1>5. sender' = "identifying" => Tokens' = 0 /\ sent' = 0
  BY <1>1 DEF IInv, OneBurst
<1>6. \A m \in ToSet(inbox') : m.kind = "identity" => (m.found => receiver' # "absent")
  BY DEF IInv, OneBurst
<1> QED
  BY <1>2, <1>3, <1>4, <1>5, <1>6 DEF OneBurst

(* The Receiver's side is left alone, and no echo comes back.               *)
LEMMA DeliveryKept ==
  ASSUME IInv, UNCHANGED <<outbox, sent, received, lost>>, inbox' \in Box,
         Count(inbox', Echo) <= Count(inbox, Echo)
  PROVE  Delivery'
<1>1. Count(inbox, Echo) \in Nat /\ Count(inbox', Echo) \in Nat
  BY PositionsFinite DEF IInv, Types
<1>2. OnTheWay' = OnTheWay
  BY DEF OnTheWay
<1> QED
  BY <1>1, <1>2 DEF IInv, Delivery

-----------------------------------------------------------------------------
(* Steps of the Sender that move nothing on.                                 *)

LEMMA TakePlainIInv ==
  ASSUME IInv, mailbox # <<>>, Head(mailbox).kind \notin TokenKinds,
         mailbox' = Tail(mailbox), wire' = wire, timer' \in BOOLEAN,
         outbox' = outbox \/ outbox' = Append(outbox, Msg("identify")),
         sender' = sender \/ sender' = "stopped",
         UNCHANGED <<totalMessages, burstSize, receiver, startTime, watching, lost, sent, received>>
  PROVE  IInv'
<1>1. /\ mailbox' \in Box /\ wire' \in Box /\ inbox' \in Box /\ Head(mailbox) \in Message
      /\ \A K : /\ Count(inbox, K) = Is(Head(mailbox), K) + Count(inbox', K)
                /\ Count(inbox, K) \in Nat /\ Count(inbox', K) \in Nat
      /\ ToSet(inbox) = {Head(mailbox)} \cup ToSet(inbox')
  BY Taken DEF IInv
<1>2. Msg("identify") \in Message /\ Msg("identify").kind = "identify"
  BY Messages
<1>3. /\ Append(outbox, Msg("identify")) \in Box
      /\ \A K : Count(Append(outbox, Msg("identify")), K) = Count(outbox, K) + Is(Msg("identify"), K)
      /\ ToSet(Append(outbox, Msg("identify"))) = ToSet(outbox) \cup {Msg("identify")}
      /\ DOMAIN Append(outbox, Msg("identify")) = DOMAIN outbox \cup {Len(outbox) + 1}
      /\ \A i \in DOMAIN outbox : /\ Append(outbox, Msg("identify"))[i] = outbox[i]
                                  /\ i < Len(outbox) + 1
      /\ Append(outbox, Msg("identify"))[Len(outbox) + 1] = Msg("identify")
  BY <1>2, BoxAppend DEF IInv, Types
<1>4. inbox' \in Box /\ outbox' \in Box
  BY <1>1, <1>3 DEF IInv, Types
<1>5. Types'
  BY <1>1, <1>4 DEF IInv, Types
<1>6. /\ \A K : Count(inbox, K) \in Nat /\ Count(inbox', K) \in Nat /\ Count(outbox, K) \in Nat
      /\ Count(inbox', TokenKinds) = Count(inbox, TokenKinds)
      /\ Count(inbox', Echo) = Count(inbox, Echo)
  <2>1. \A K : Count(outbox, K) \in Nat
    BY PositionsFinite DEF IInv, Types
  <2>2. Is(Head(mailbox), TokenKinds) = 0 /\ Is(Head(mailbox), Echo) = 0
    BY DEF Is, TokenKinds
  <2> QED
    BY <1>1, <2>1, <2>2
<1>7. Count(outbox', TokenKinds) = Count(outbox, TokenKinds) /\ OnTheWay' = OnTheWay
  <2>1. Is(Msg("identify"), TokenKinds) = 0 /\ Is(Msg("identify"), {"payload"}) = 0
    BY <1>2 DEF Is, TokenKinds, Echo
  <2>2. CASE outbox' = outbox
    BY <2>2 DEF OnTheWay
  <2>3. CASE outbox' = Append(outbox, Msg("identify"))
    <3>1. \A K : Count(outbox', K) = Count(outbox, K) + Is(Msg("identify"), K)
      BY <1>3, <2>3
    <3> QED
      BY <1>6, <2>1, <3>1 DEF OnTheWay
  <2> QED
    BY <2>2, <2>3
<1>8. Tokens' = Tokens
  BY <1>6, <1>7 DEF Tokens
<1>9. OneBurst'
  <2>1. \A m \in InTransit' : m \in InTransit \/ m.kind \notin TokenKinds
    BY <1>1, <1>2, <1>3 DEF InTransit, TokenKinds, Echo
  <2>2. \A m \in ToSet(inbox') : m \in ToSet(inbox)
    BY <1>1
  <2>3. Tokens' <= Tokens
    BY <1>6, <1>8 DEF Tokens
  <2> QED
    BY <1>5, <1>8, <2>1, <2>2, <2>3, BurstKept DEF IInv, OneBurst
<1>10. Delivery'
  <2>1. \A i, j \in DOMAIN outbox' : i < j /\ outbox'[i].kind \in Echo => outbox'[j].kind # "payload"
    <3>1. CASE outbox' = outbox
      BY <3>1 DEF IInv, Delivery
    <3>2. CASE outbox' = Append(outbox, Msg("identify"))
      BY <1>2, <1>3, <3>2 DEF IInv, Delivery, Echo
    <3> QED
      BY <3>1, <3>2
  <2> QED
    BY <1>6, <1>7, <2>1 DEF IInv, Delivery
<1> QED
  BY <1>5, <1>9, <1>10 DEF IInv

LEMMA FoundIInv == IInv /\ Found /\ UNCHANGED <<totalMessages, burstSize>> => IInv'
<1> SUFFICES ASSUME IInv, Found, UNCHANGED <<totalMessages, burstSize>> PROVE IInv'
  OBVIOUS
<1> DEFINE w == Msg("warmup")
<1>1. /\ sender = "identifying" /\ mailbox # <<>> /\ Head(mailbox).kind = "identity"
      /\ Head(mailbox).found
      /\ sender' = "active" /\ watching' = TRUE /\ timer' = FALSE
      /\ mailbox' = Append(Tail(mailbox), w)
      /\ UNCHANGED <<receiver, wire, outbox, startTime, lost, sent, received>>
  BY DEF Found, Gets
<1>3. w \in Message /\ w.kind = "warmup"
  BY Messages
<1> HIDE DEF w
<1>4. /\ mailbox' \in Box /\ wire' \in Box /\ inbox' \in Box /\ Head(mailbox) \in Message
      /\ \A K : Count(inbox, K) + Is(w, K) = Is(Head(mailbox), K) + Count(inbox', K)
      /\ ToSet(inbox') \subseteq ToSet(inbox) \cup {w}
      /\ Head(mailbox) \in ToSet(inbox)
  BY <1>1, <1>3, TakenAndPosted DEF IInv
<1>5. Types'
  BY <1>1, <1>4 DEF IInv, Types
<1>6. \A K : Count(inbox, K) \in Nat /\ Count(inbox', K) \in Nat /\ Count(outbox, K) \in Nat
  BY <1>4, PositionsFinite DEF IInv, Types
<1>7. Tokens = 0 /\ sent = 0 /\ receiver # "absent"
  BY <1>1, <1>4 DEF IInv, OneBurst
<1>8. /\ Is(Head(mailbox), TokenKinds) = 0 /\ Is(w, TokenKinds) = 1
      /\ Is(Head(mailbox), Echo) = 0 /\ Is(w, Echo) = 0
  BY <1>1, <1>3 DEF Is, TokenKinds, Echo
<1>9. Tokens' = 1
  <2>1. Count(inbox, TokenKinds) + 1 = 0 + Count(inbox', TokenKinds)
    BY <1>4, <1>8
  <2> QED
    BY <1>1, <1>6, <1>7, <2>1 DEF Tokens
<1>10. ASSUME NEW m \in InTransit' PROVE Fits(m)'
  <2>1. CASE m = w
    BY <1>1, <1>3, <1>7, <2>1 DEF Fits
  <2>2. CASE m # w
    <3>1. m \in InTransit
      BY <1>1, <1>4, <2>2 DEF InTransit
    <3> QED
      BY <1>1, <3>1 DEF Fits, IInv, OneBurst
  <2> QED
    BY <2>1, <2>2
<1>11. OneBurst'
  <2>1. \A m \in ToSet(inbox') : m.kind = "identity" => (m.found => receiver' # "absent")
    BY <1>1, <1>7
  <2> QED
    BY <1>1, <1>7, <1>9, <1>10, <2>1 DEF OneBurst
<1>12. Delivery'
  <2>1. Count(inbox', Echo) = Count(inbox, Echo)
    <3>1. Count(inbox, Echo) + 0 = 0 + Count(inbox', Echo)
      BY <1>4, <1>8
    <3> QED
      BY <1>6, <3>1
  <2> QED
    BY <1>1, <1>4, <1>6, <2>1, DeliveryKept
<1> QED
  BY <1>5, <1>11, <1>12 DEF IInv

(* What the death watch or the receive timeout puts into the mailbox.       *)
LEMMA PostIInv ==
  ASSUME IInv, NEW m \in Message, m.kind \in {"timeout", "terminated"},
         mailbox' = Append(mailbox, m), watching' \in BOOLEAN, timer' \in BOOLEAN,
         UNCHANGED <<totalMessages, burstSize, sender, receiver, wire, outbox, startTime, lost, sent, received>>
  PROVE  IInv'
<1>1. /\ mailbox' \in Box /\ wire' \in Box /\ inbox' \in Box
      /\ \A K : Count(inbox', K) = Count(inbox, K) + Is(m, K)
      /\ ToSet(inbox') = ToSet(inbox) \cup {m}
  BY Posted DEF IInv
<1>2. Is(m, TokenKinds) = 0 /\ Is(m, Echo) = 0
  BY DEF Is, TokenKinds, Echo
<1>3. \A K : Count(inbox, K) \in Nat /\ Count(outbox, K) \in Nat
  BY PositionsFinite DEF IInv, Types
<1>4. Count(inbox', TokenKinds) = Count(inbox, TokenKinds) /\ Count(inbox', Echo) = Count(inbox, Echo)
  BY <1>1, <1>2, <1>3
<1>5. Types'
  BY <1>1 DEF IInv, Types
<1>6. OneBurst'
  <2>1. \A k \in InTransit' : k \in InTransit \/ k.kind \notin TokenKinds
    BY <1>1 DEF InTransit, TokenKinds, Echo
  <2>2. \A k \in ToSet(inbox') : k.kind = "identity" => k \in ToSet(inbox)
    BY <1>1
  <2>3. Tokens' = Tokens /\ Tokens' <= Tokens
    BY <1>3, <1>4 DEF Tokens
  <2> QED
    BY <1>5, <2>1, <2>2, <2>3, BurstKept DEF IInv, OneBurst
<1>7. Delivery'
  BY <1>1, <1>3, <1>4, DeliveryKept
<1> QED
  BY <1>5, <1>6, <1>7 DEF IInv

LEMMA DeliverIInv == IInv /\ Deliver => IInv'
<1> SUFFICES ASSUME IInv, Deliver PROVE IInv'
  OBVIOUS
<1>1. /\ wire # <<>> /\ wire' = Tail(wire) /\ mailbox' = Append(mailbox, Head(wire))
      /\ UNCHANGED <<totalMessages, burstSize, sender, receiver, timer, outbox, startTime, watching,
                     lost, sent, received>>
  BY DEF Deliver, args
<1>2. /\ mailbox' \in Box /\ wire' \in Box /\ inbox' \in Box
      /\ \A K : Count(inbox', K) = Count(inbox, K)
      /\ ToSet(inbox') = ToSet(inbox)
  BY <1>1, Delivered DEF IInv
<1>3. Types'
  BY <1>1, <1>2 DEF IInv, Types
<1>4. Count(inbox, TokenKinds) \in Nat /\ Count(outbox, TokenKinds) \in Nat /\ Count(inbox, Echo) \in Nat
  BY PositionsFinite DEF IInv, Types
<1>5. Tokens' = Tokens /\ Tokens' <= Tokens
  BY <1>1, <1>2, <1>4 DEF Tokens
<1>6. OneBurst'
  <2>1. \A k \in InTransit' : k \in InTransit
    BY <1>1, <1>2 DEF InTransit
  <2> QED
    BY <1>1, <1>2, <1>3, <1>5, <2>1, BurstKept DEF IInv, OneBurst
<1>7. Delivery'
  BY <1>1, <1>2, <1>4, DeliveryKept
<1> QED
  BY <1>3, <1>6, <1>7 DEF IInv

-----------------------------------------------------------------------------
(* Steps of the Sender that move the benchmark on.                           *)

(* A burst, and the echo behind it: the message that asked for it was the   *)
(* only one under way, so no other echo is.                                *)
LEMMA SendIInv ==
  ASSUME IInv, sender = "active", mailbox # <<>>, Head(mailbox).kind \in TokenKinds,
         mailbox' = Tail(mailbox), wire' = wire, timer' \in BOOLEAN, NEW remaining \in Nat, NEW m \in Message, m.kind \in Echo,
         SendBatchThen(remaining, m), startTime' \in Nat, Fits(m)',
         UNCHANGED <<totalMessages, burstSize, sender, receiver, watching, lost, received>>
  PROVE  IInv'
<1> DEFINE n == BatchSize(remaining)
           batch == [k \in 1 .. n |-> Msg("payload")]
           box == outbox \o batch
<1>1. n \in Nat
  BY DEF BatchSize, IInv, Types
<1>2. /\ batch \in Box
      /\ Count(batch, {"payload"}) = n
      /\ \A k \in DOMAIN batch : batch[k].kind = "payload"
  BY <1>1, BoxBatch, Messages
<1>3. outbox' = box \o <<m>> /\ sent' = sent + n
  BY DEF SendBatchThen
<1>4. /\ mailbox' \in Box /\ wire' \in Box /\ inbox' \in Box /\ Head(mailbox) \in Message
      /\ \A K : /\ Count(inbox, K) = Is(Head(mailbox), K) + Count(inbox', K)
                /\ Count(inbox, K) \in Nat /\ Count(inbox', K) \in Nat
      /\ ToSet(inbox) = {Head(mailbox)} \cup ToSet(inbox')
  BY Taken DEF IInv
<1>5. /\ <<m>> \in Box /\ \A K : Count(<<m>>, K) = Is(m, K)
      /\ box \in Box /\ \A K : Count(box, K) = Count(outbox, K) + Count(batch, K)
  <2>1. <<m>> \in Box /\ \A K : Count(<<m>>, K) = Is(m, K)
    BY CountOne
  <2>2. outbox \in Box
    BY DEF IInv, Types
  <2> HIDE DEF batch
  <2>3. box \in Box /\ \A K : Count(box, K) = Count(outbox, K) + Count(batch, K)
    BY <1>2, <2>2, CountConcat
  <2> QED
    BY <2>1, <2>3
<1> HIDE DEF n, batch
<1>6. /\ box \o <<m>> \in Box
      /\ \A K : Count(box \o <<m>>, K) = Count(outbox, K) + Count(batch, K) + Is(m, K)
  <2> HIDE DEF box
  <2> QED
    BY <1>5, CountConcat
<1>7. \A K : Count(outbox, K) \in Nat /\ Count(batch, K) \in Nat
  BY <1>2, PositionsFinite DEF IInv, Types
<1>8. Count(inbox', TokenKinds) = 0 /\ Count(outbox, TokenKinds) = 0
  <2>1. Is(Head(mailbox), TokenKinds) = 1
    BY DEF Is
  <2> QED
    BY <1>4, <1>7, <2>1 DEF IInv, OneBurst, Tokens
<1>9. Count(batch, TokenKinds) = 0 /\ Is(m, TokenKinds) = 1 /\ Is(m, {"payload"}) = 0
  <2>1. Count(batch, TokenKinds) = 0
    BY <1>2, CountNone DEF TokenKinds, Echo
  <2> QED
    BY <2>1 DEF Is, TokenKinds, Echo
<1>10. Tokens' = 1 /\ OnTheWay' = OnTheWay + n
  <2>1. Count(inbox', TokenKinds) = 0
    BY <1>8
  <2>2. Count(outbox', TokenKinds) = 1
    BY <1>3, <1>6, <1>8, <1>9
  <2>3. Count(outbox', {"payload"}) = Count(outbox, {"payload"}) + n
    <3>1. Count(box \o <<m>>, {"payload"})
            = Count(outbox, {"payload"}) + Count(batch, {"payload"}) + Is(m, {"payload"})
      BY <1>6
    <3>2. Count(outbox, {"payload"}) \in Nat
      BY <1>7
    <3> HIDE DEF box
    <3> QED
      BY <1>1, <1>2, <1>3, <1>9, <3>1, <3>2
  <2> QED
    BY <2>1, <2>2, <2>3 DEF Tokens, OnTheWay
<1>11. Types'
  <2>1. sent' \in Nat /\ outbox' \in Box
    BY <1>1, <1>3, <1>6 DEF IInv, Types
  <2> QED
    BY <1>4, <2>1 DEF IInv, Types
<1>12. /\ \A i \in DOMAIN inbox' : inbox'[i].kind \notin TokenKinds
       /\ \A i \in DOMAIN outbox : outbox[i].kind \notin TokenKinds
  BY <1>4, <1>8, CountNone DEF IInv, Types
<1>13. \A i \in DOMAIN outbox' :
          \/ i = Len(box) + 1 /\ outbox'[i] = m
          \/ i < Len(box) + 1 /\ outbox'[i].kind \notin TokenKinds
  <2>1. \A i \in DOMAIN box : i \in Int /\ i < Len(box) + 1 /\ box[i].kind \notin TokenKinds
    <3>1. ASSUME NEW i \in DOMAIN box
          PROVE  \/ i \in DOMAIN outbox /\ box[i] = outbox[i]
                 \/ i - Len(outbox) \in DOMAIN batch /\ box[i] = batch[i - Len(outbox)]
      <4>1. outbox \in Seq(Message) /\ batch \in Seq(Message)
        BY <1>2 DEF IInv, Types, Box
      <4> QED
        BY <4>1
    <3>2. \A i \in DOMAIN box : i \in Int /\ i < Len(box) + 1
      BY <1>5 DEF Box
    <3> QED
      BY <1>2, <1>12, <3>1, <3>2 DEF TokenKinds, Echo
  <2> HIDE DEF box
  <2>2. \A i \in DOMAIN (box \o <<m>>) :
          \/ i = Len(box) + 1 /\ (box \o <<m>>)[i] = m
          \/ i \in DOMAIN box /\ (box \o <<m>>)[i] = box[i]
    BY <1>5 DEF Box
  <2> QED
    BY <1>3, <2>1, <2>2
<1>14. OneBurst'
  <2>1. ASSUME NEW k \in InTransit' PROVE Fits(k)'
    <3>1. k = m \/ k.kind \notin TokenKinds
      BY <1>12, <1>13 DEF InTransit, ToSet
    <3> QED
      BY <3>1 DEF Fits, TokenKinds, Echo
  <2>2. \A k \in ToSet(inbox') : k.kind = "identity" => (k.found => receiver' # "absent")
    BY <1>4 DEF IInv, OneBurst
  <2> QED
    BY <1>10, <2>1, <2>2 DEF IInv, OneBurst
<1>15. Delivery'
  <2>1. Count(inbox', Echo) = 0
    BY <1>4, <1>12, CountNone DEF TokenKinds
  <2>2. \A i, j \in DOMAIN outbox' : i < j /\ outbox'[i].kind \in Echo => outbox'[j].kind # "payload"
    <3>1. \A i \in DOMAIN outbox' : i \in Int
      BY <1>11 DEF Types, Box
    <3>2. Len(box) \in Int
      BY <1>5 DEF Box
    <3> HIDE DEF box
    <3>3. \A i \in DOMAIN outbox' : outbox'[i].kind \in Echo => i = Len(box) + 1
      BY <1>13 DEF TokenKinds
    <3>4. \A j \in DOMAIN outbox' : ~ (Len(box) + 1 < j)
      BY <1>13, <3>1, <3>2
    <3> QED
      BY <3>3, <3>4
  <2>3. OnTheWay \in Nat /\ OnTheWay' = OnTheWay + n /\ sent' = sent + n
    BY <1>3, <1>7, <1>10 DEF OnTheWay
  <2>4. /\ sent \in Nat /\ received \in Nat /\ lost \in Nat
        /\ sent <= received + lost + OnTheWay /\ received + OnTheWay <= sent
    BY DEF IInv, Types, Delivery
  <2>5. sent' <= received' + lost' + OnTheWay' /\ received' + OnTheWay' <= sent'
    BY <1>1, <2>3, <2>4
  <2> QED
    BY <2>1, <2>2, <2>5 DEF Delivery
<1> QED
  BY <1>11, <1>14, <1>15 DEF IInv

(* The head of the mailbox, which the Sender handles.                       *)
LEMMA HeadFits ==
  ASSUME IInv, mailbox # <<>>
  PROVE  Head(mailbox) \in Message /\ Fits(Head(mailbox))
<1>1. Head(mailbox) \in Message /\ Head(mailbox) \in ToSet(inbox)
  <2>1. Head(mailbox) \in Message /\ Head(mailbox) \in ToSet(mailbox)
    BY BoxTail DEF IInv, Types
  <2>2. ToSet(inbox) = ToSet(mailbox) \cup ToSet(wire)
    BY BoxJoin DEF IInv, Types, inbox
  <2> QED
    BY <2>1, <2>2
<1> QED
  BY <1>1 DEF IInv, OneBurst, InTransit

LEMMA WarmupIInv == IInv /\ Warmup /\ UNCHANGED <<totalMessages, burstSize, wire>> => IInv'
<1> SUFFICES ASSUME IInv, Warmup, UNCHANGED <<totalMessages, burstSize, wire>> PROVE IInv'
  OBVIOUS
<1>1. /\ sender = "active" /\ mailbox # <<>> /\ Head(mailbox).kind = "warmup"
      /\ mailbox' = Tail(mailbox) /\ timer' \in BOOLEAN
      /\ SendBatchThen(burstSize, Msg("start"))
      /\ UNCHANGED <<sender, receiver, startTime, watching, lost, received>>
  BY DEF Warmup, Gets, Handled
<1>2. Msg("start") \in Message /\ Msg("start").kind = "start"
  BY Messages
<1>3. sent' = burstSize
  <2>1. sent = 0
    BY <1>1, HeadFits DEF Fits
  <2> QED
    BY <1>1, <2>1 DEF SendBatchThen, BatchSize, IInv, Types
<1>4. Fits(Msg("start"))'
  BY <1>2, <1>3 DEF Fits
<1>5. burstSize \in Nat /\ startTime' \in Nat
  BY <1>1 DEF IInv, Types
<1>6. Head(mailbox).kind \in TokenKinds /\ Msg("start").kind \in Echo
  BY <1>1, <1>2 DEF TokenKinds, Echo
<1> QED
  BY <1>1, <1>2, <1>4, <1>5, <1>6, SendIInv

(* What follows a burst of a measurement that began with n payloads sent.   *)
LEMMA NextEchoFits ==
  ASSUME IInv, NEW r \in Nat, NEW t \in Nat, NEW n \in Nat, NEW left, NEW m,
         left = r - BatchSize(r), m = NextEcho(left, t, n),
         startTime' = burstSize, r <= totalMessages, t <= sent,
         r = totalMessages - (sent - burstSize), n = sent + burstSize - t,
         burstSize <= t, sent' = sent + BatchSize(r),
         UNCHANGED <<totalMessages, burstSize>>
  PROVE  m \in Message /\ m.kind \in Echo /\ Fits(m)'
<1>1. /\ left \in Nat /\ BatchSize(r) \in Nat /\ BatchSize(r) <= r
      /\ left # 0 => BatchSize(r) = burstSize
      /\ totalMessages \in Nat /\ burstSize \in Nat /\ sent \in Nat
  BY DEF BatchSize, IInv, Types
<1>2. CASE left = 0
  <2>1. sent' = burstSize' + totalMessages'
    BY <1>1, <1>2
  <2>2. m \in Message /\ m.kind = "done"
    BY <1>2, Messages DEF NextEcho
  <2>3. Fits(m)'
    BY <2>1, <2>2 DEF Fits
  <2> QED
    BY <2>2, <2>3 DEF Echo
<1>3. CASE left # 0
  <2>1. /\ sent' = sent + burstSize /\ left \in 1 .. totalMessages
        /\ left = totalMessages - (sent' - startTime')
        /\ n = sent' - t /\ n \in 0 .. totalMessages
    BY <1>1, <1>3
  <2>2. m \in Message /\ m.kind = "continue" /\ m.remaining = left /\ m.startTime = t /\ m.n = n
    <3>1. m = Continue(left, t, n)
      BY <1>3 DEF NextEcho
    <3>2. /\ Continue(left, t, n) \in Message /\ Continue(left, t, n).kind = "continue"
          /\ Continue(left, t, n).remaining = left
          /\ Continue(left, t, n).startTime = t
          /\ Continue(left, t, n).n = n
      <4>1. left \in Nat
        BY <1>1
      <4> QED
        BY <4>1, Messages
    <3> QED
      BY <3>1, <3>2
  <2>3. Fits(m)'
    BY <2>1, <2>2 DEF Fits
  <2> QED
    BY <2>2, <2>3 DEF Echo
<1> QED
  BY <1>2, <1>3

LEMMA StartIInv == IInv /\ Start /\ UNCHANGED <<totalMessages, burstSize, wire>> => IInv'
<1> SUFFICES ASSUME IInv, Start, UNCHANGED <<totalMessages, burstSize, wire>> PROVE IInv'
  OBVIOUS
<1> PICK r, t, n, left, m :
      /\ r = totalMessages /\ t = sent /\ n = burstSize
      /\ left = r - BatchSize(r) /\ m = NextEcho(left, t, n)
  OBVIOUS
<1>1. /\ sender = "active" /\ mailbox # <<>> /\ Head(mailbox).kind = "start"
      /\ mailbox' = Tail(mailbox) /\ timer' \in BOOLEAN /\ startTime' = sent
      /\ SendBatchThen(r, m)
      /\ UNCHANGED <<sender, receiver, watching, lost, received>>
  BY DEF Start, Gets, Handled
<1>2. /\ sent = burstSize /\ totalMessages \in Nat /\ burstSize \in Nat
      /\ r \in Nat /\ t \in Nat /\ n \in Nat
  BY <1>1, HeadFits DEF Fits, IInv, Types
<1>3. sent' = sent + BatchSize(r)
  BY <1>1 DEF SendBatchThen
<1>4. m \in Message /\ m.kind \in Echo /\ Fits(m)'
  <2>1. /\ startTime' = burstSize /\ r <= totalMessages /\ t <= sent
        /\ r = totalMessages - (sent - burstSize)
        /\ n = sent + burstSize - t /\ burstSize <= t
    BY <1>1, <1>2
  <2> QED
    BY <1>2, <1>3, <2>1, NextEchoFits
<1>5. Head(mailbox).kind \in TokenKinds /\ startTime' \in Nat
  BY <1>1, <1>2 DEF TokenKinds, Echo
<1> QED
  BY <1>1, <1>2, <1>4, <1>5, SendIInv

LEMMA ContinueIInv == IInv /\ ContinueBurst /\ UNCHANGED <<totalMessages, burstSize, wire>> => IInv'
<1> SUFFICES ASSUME IInv, ContinueBurst, UNCHANGED <<totalMessages, burstSize, wire>> PROVE IInv'
  OBVIOUS
<1> PICK c, r, left : c = Head(mailbox) /\ r = c.remaining /\ left = r - BatchSize(r)
  OBVIOUS
<1>1. PICK t, n, m :
        /\ m = NextEcho(left, t, n)
        /\ sender = "active" /\ mailbox # <<>> /\ c.kind = "continue"
        /\ mailbox' = Tail(mailbox) /\ timer' \in BOOLEAN
        /\ \/ t = sent /\ n = burstSize
           \/ t = c.startTime /\ n = c.n + burstSize
        /\ SendBatchThen(r, m)
        /\ UNCHANGED <<sender, receiver, startTime, watching, lost, received>>
  BY DEF ContinueBurst, Gets, Handled
<1>2. /\ c \in Message /\ startTime = burstSize
      /\ r \in 1 .. totalMessages
      /\ r = totalMessages - (sent - startTime)
      /\ c.startTime \in Nat /\ burstSize <= c.startTime
      /\ c.n \in 0 .. totalMessages /\ c.n = sent - c.startTime
  BY <1>1, HeadFits DEF Fits
<1>3. sent' = sent + BatchSize(r)
  BY <1>1 DEF SendBatchThen
<1>4. /\ t \in Nat /\ n \in Nat /\ r \in Nat
      /\ startTime' = burstSize /\ r <= totalMessages /\ t <= sent
      /\ r = totalMessages - (sent - burstSize)
      /\ n = sent + burstSize - t /\ burstSize <= t
  <2>1. totalMessages \in Nat /\ burstSize \in Nat /\ sent \in Nat /\ startTime' = startTime
    BY <1>1 DEF IInv, Types
  <2>2. r \in Nat /\ r <= totalMessages /\ r = totalMessages - (sent - burstSize) /\ burstSize <= sent
    BY <1>2, <2>1
  <2>3. CASE t = sent /\ n = burstSize
    BY <1>2, <2>1, <2>2, <2>3
  <2>4. CASE t = c.startTime /\ n = c.n + burstSize
    BY <1>2, <2>1, <2>2, <2>4
  <2> QED
    BY <1>1, <2>3, <2>4
<1>5. m \in Message /\ m.kind \in Echo /\ Fits(m)'
  BY <1>1, <1>3, <1>4, NextEchoFits
<1>6. Head(mailbox).kind \in TokenKinds /\ startTime' \in Nat
  BY <1>1, <1>2 DEF TokenKinds, Echo, IInv, Types
<1> QED
  BY <1>1, <1>4, <1>5, <1>6, SendIInv

LEMMA DoneIInv == IInv /\ Done /\ UNCHANGED <<totalMessages, burstSize, wire>> => IInv'
<1> SUFFICES ASSUME IInv, Done, UNCHANGED <<totalMessages, burstSize, wire>> PROVE IInv'
  OBVIOUS
<1> DEFINE m == Msg("shutdown")
<1>1. /\ sender = "active" /\ mailbox # <<>> /\ Head(mailbox).kind = "done"
      /\ mailbox' = Tail(mailbox) /\ timer' \in BOOLEAN
      /\ outbox' = Append(outbox, m)
      /\ UNCHANGED <<sender, receiver, startTime, watching, lost, sent, received>>
  BY DEF Done, Gets, Handled
<1>2. m \in Message /\ m.kind = "shutdown" /\ sent = burstSize + totalMessages
  BY <1>1, Messages, HeadFits DEF Fits
<1> HIDE DEF m
<1>3. /\ mailbox' \in Box /\ wire' \in Box /\ inbox' \in Box
      /\ \A K : /\ Count(inbox, K) = Is(Head(mailbox), K) + Count(inbox', K)
                /\ Count(inbox, K) \in Nat /\ Count(inbox', K) \in Nat
      /\ ToSet(inbox) = {Head(mailbox)} \cup ToSet(inbox')
  BY <1>1, Taken DEF IInv
<1>4. /\ outbox' \in Box
      /\ \A K : Count(outbox', K) = Count(outbox, K) + Is(m, K)
      /\ ToSet(outbox') = ToSet(outbox) \cup {m}
      /\ DOMAIN outbox' = DOMAIN outbox \cup {Len(outbox) + 1}
      /\ \A i \in DOMAIN outbox : outbox'[i] = outbox[i] /\ i < Len(outbox) + 1
      /\ outbox'[Len(outbox) + 1] = m
  <2>1. outbox \in Box /\ m \in Message /\ outbox' = Append(outbox, m)
    BY <1>1, <1>2 DEF IInv, Types
  <2> QED
    BY <2>1, BoxAppend
<1>5. \A K : /\ Count(inbox, K) \in Nat /\ Count(inbox', K) \in Nat /\ Count(outbox, K) \in Nat
  BY <1>3, PositionsFinite DEF IInv, Types
<1>6. /\ Is(Head(mailbox), TokenKinds) = 1 /\ Is(m, TokenKinds) = 1
      /\ Is(Head(mailbox), Echo) = 1 /\ Is(m, {"payload"}) = 0
  BY <1>1, <1>2 DEF Is, TokenKinds, Echo
<1>7. Tokens' = Tokens /\ OnTheWay' = OnTheWay /\ Count(inbox', Echo) <= Count(inbox, Echo)
  <2>1. /\ Count(inbox, TokenKinds) = 1 + Count(inbox', TokenKinds)
        /\ Count(inbox, Echo) = 1 + Count(inbox', Echo)
    BY <1>1, <1>3, <1>6
  <2>2. /\ Count(outbox', TokenKinds) = Count(outbox, TokenKinds) + 1
        /\ Count(outbox', {"payload"}) = Count(outbox, {"payload"}) + 0
    BY <1>4, <1>6
  <2>3. /\ Count(inbox', TokenKinds) \in Nat /\ Count(inbox', Echo) \in Nat
        /\ Count(outbox, TokenKinds) \in Nat /\ Count(outbox, {"payload"}) \in Nat
    BY <1>1, <1>5
  <2> QED
    BY <2>1, <2>2, <2>3 DEF Tokens, OnTheWay
<1>8. Types'
  BY <1>1, <1>3, <1>4 DEF IInv, Types
<1>9. OneBurst'
  <2>1. ASSUME NEW k \in InTransit' PROVE Fits(k)'
    <3>1. k \in InTransit \/ k = m
      BY <1>1, <1>3, <1>4 DEF InTransit
    <3>2. Fits(k)
      BY <1>2, <3>1 DEF Fits, IInv, OneBurst
    <3> QED
      BY <1>1, <3>2 DEF Fits
  <2>2. \A k \in ToSet(inbox') : k.kind = "identity" => (k.found => receiver' # "absent")
    BY <1>1, <1>3 DEF IInv, OneBurst
  <2> QED
    BY <1>1, <1>7, <2>1, <2>2 DEF IInv, OneBurst
<1>10. Delivery'
  <2>1. \A i, j \in DOMAIN outbox' : i < j /\ outbox'[i].kind \in Echo => outbox'[j].kind # "payload"
    BY <1>2, <1>4 DEF IInv, Delivery, Echo
  <2>2. Count(inbox', Echo) \in Nat /\ Count(inbox, Echo) \in Nat
    BY <1>1, <1>5
  <2> QED
    BY <1>1, <1>7, <2>1, <2>2 DEF IInv, Delivery
<1> QED
  BY <1>8, <1>9, <1>10 DEF IInv

-----------------------------------------------------------------------------
(* Steps of the Receiver and its node.                                       *)

(* The message at the head of the way to the Receiver is taken: behind an   *)
(* echo no payload is left.                                                  *)
LEMMA HeadTaken ==
  ASSUME IInv, outbox # <<>>, outbox' = Tail(outbox)
  PROVE  /\ outbox' \in Box /\ Head(outbox) \in Message
         /\ Count(outbox, TokenKinds) = Is(Head(outbox), TokenKinds) + Count(outbox', TokenKinds)
         /\ OnTheWay = Is(Head(outbox), {"payload"}) + OnTheWay'
         /\ Count(outbox', TokenKinds) \in Nat /\ OnTheWay' \in Nat
         /\ ToSet(outbox) = {Head(outbox)} \cup ToSet(outbox')
         /\ \A i, j \in DOMAIN outbox' :
              i < j /\ outbox'[i].kind \in Echo => outbox'[j].kind # "payload"
         /\ Head(outbox).kind \in Echo => OnTheWay' = 0
<1>1. /\ outbox \in Box /\ outbox' \in Box /\ Head(outbox) \in Message
      /\ \A K : Count(outbox, K) = Is(Head(outbox), K) + Count(outbox', K)
      /\ ToSet(outbox) = {Head(outbox)} \cup ToSet(outbox')
      /\ \A i \in DOMAIN outbox' : i + 1 \in DOMAIN outbox /\ outbox'[i] = outbox[i + 1]
  BY BoxTail DEF IInv, Types
<1>2. /\ Count(outbox, TokenKinds) = Is(Head(outbox), TokenKinds) + Count(outbox', TokenKinds)
      /\ OnTheWay = Is(Head(outbox), {"payload"}) + OnTheWay'
  BY <1>1 DEF OnTheWay
<1>3. Count(outbox', TokenKinds) \in Nat /\ OnTheWay' \in Nat
  BY <1>1, PositionsFinite DEF OnTheWay
<1>4. \A i \in DOMAIN outbox' : i \in Nat /\ 1 < i + 1
  BY <1>1 DEF Box
<1>5. \A i, j \in DOMAIN outbox' :
        i < j /\ outbox'[i].kind \in Echo => outbox'[j].kind # "payload"
  <2>1. \A i, j \in DOMAIN outbox' : i < j => i + 1 < j + 1
    BY <1>4
  <2> QED
    BY <1>1, <2>1 DEF IInv, Delivery
<1>6. ASSUME Head(outbox).kind \in Echo PROVE OnTheWay' = 0
  <2>1. 1 \in DOMAIN outbox /\ outbox[1] = Head(outbox)
    BY <1>1 DEF Box
  <2>2. \A i \in DOMAIN outbox' : outbox'[i].kind # "payload"
    BY <1>1, <1>4, <1>6, <2>1 DEF IInv, Delivery
  <2>3. \A i \in DOMAIN outbox' : outbox'[i].kind \notin {"payload"}
    BY <2>2
  <2> QED
    BY <1>1, <2>3, CountNone DEF OnTheWay
<1> QED
  BY <1>1, <1>2, <1>3, <1>5, <1>6

(* A message goes on its way to the Sender.                                 *)
LEMMA Arrives ==
  ASSUME IInv, NEW m \in Message, wire' = Append(wire, m), mailbox' = mailbox
  PROVE  /\ mailbox' \in Box /\ wire' \in Box /\ inbox' \in Box
         /\ ToSet(inbox') = ToSet(inbox) \cup {m}
         /\ Count(inbox', TokenKinds) = Count(inbox, TokenKinds) + Is(m, TokenKinds)
         /\ Count(inbox', Echo) = Count(inbox, Echo) + Is(m, Echo)
         /\ Count(inbox, TokenKinds) \in Nat /\ Count(inbox, Echo) \in Nat
BY Posted DEF IInv

LEMMA NodeIInv ==
  ASSUME IInv, receiver' \in {"running", "stopped"}, receiver = "absent" \/ receiver' = "stopped",
         UNCHANGED <<totalMessages, burstSize, sender, mailbox, timer, wire, outbox, startTime, watching,
                     lost, sent, received>>
  PROVE  IInv'
<1>9. inbox' = inbox
  BY DEF inbox
<1>1. Types'
  BY <1>9 DEF IInv, Types
<1>2. OneBurst'
  <2>1. \A m \in InTransit' : m \in InTransit
    BY <1>9 DEF InTransit
  <2>2. \A m \in ToSet(inbox') : m \in ToSet(inbox)
    BY <1>9
  <2>3. Tokens' = Tokens /\ Tokens \in Nat
    <3>1. Count(inbox, TokenKinds) \in Nat /\ Count(outbox, TokenKinds) \in Nat
      BY PositionsFinite DEF IInv, Types
    <3> QED
      BY <1>9, <3>1 DEF Tokens
  <2>4. Tokens' <= Tokens
    BY <2>3
  <2> QED
    BY <1>1, <2>1, <2>2, <2>3, <2>4, BurstKept DEF IInv, OneBurst
<1>3. Delivery'
  BY <1>9 DEF IInv, Delivery, OnTheWay
<1> QED
  BY <1>1, <1>2, <1>3 DEF IInv

LEMMA AnswerIInv == IInv /\ AnswerIdentify /\ UNCHANGED <<totalMessages, burstSize, mailbox, timer>> => IInv'
<1> SUFFICES ASSUME IInv, AnswerIdentify, UNCHANGED <<totalMessages, burstSize, mailbox, timer>> PROVE IInv'
  OBVIOUS
<1> PICK m : m = Identity(receiver = "running")
  OBVIOUS
<1>1. /\ outbox # <<>> /\ Head(outbox).kind = "identify" /\ outbox' = Tail(outbox)
      /\ wire' = Append(wire, m)
      /\ UNCHANGED <<sender, receiver, startTime, watching, lost, sent, received>>
  BY DEF AnswerIdentify
<1>2. m \in Message /\ m.kind = "identity" /\ (m.found => receiver = "running")
  <2>1. (receiver = "running") \in BOOLEAN
    OBVIOUS
  <2> QED
    BY <2>1, Messages DEF Identity
<1>3. /\ Is(Head(outbox), TokenKinds) = 0 /\ Is(Head(outbox), {"payload"}) = 0
      /\ Is(m, TokenKinds) = 0 /\ Is(m, Echo) = 0
  BY <1>1, <1>2 DEF Is, TokenKinds, Echo
<1>4. Tokens' = Tokens /\ Tokens \in Nat /\ OnTheWay' = OnTheWay /\ Count(inbox', Echo) = Count(inbox, Echo)
  BY <1>1, <1>2, <1>3, HeadTaken, Arrives DEF Tokens
<1>5. Types'
  BY <1>1, <1>2, HeadTaken, Arrives DEF IInv, Types
<1>6. OneBurst'
  <2>1. \A k \in InTransit' : k \in InTransit \/ k.kind \notin TokenKinds
    BY <1>1, <1>2, HeadTaken, Arrives DEF InTransit, TokenKinds, Echo
  <2>2. \A k \in ToSet(inbox') : k.kind = "identity" =>
          (k.found => k \in ToSet(inbox) \/ receiver # "absent")
    BY <1>1, <1>2, Arrives
  <2>3. Tokens' <= Tokens
    BY <1>4
  <2> QED
    BY <1>1, <1>4, <1>5, <2>1, <2>2, <2>3, BurstKept DEF IInv, OneBurst
<1>7. Delivery'
  BY <1>1, <1>4, HeadTaken DEF IInv, Delivery
<1> QED
  BY <1>5, <1>6, <1>7 DEF IInv

LEMMA EchoIInv == IInv /\ EchoBack /\ UNCHANGED <<totalMessages, burstSize, mailbox, timer>> => IInv'
<1> SUFFICES ASSUME IInv, EchoBack, UNCHANGED <<totalMessages, burstSize, mailbox, timer>> PROVE IInv'
  OBVIOUS
<1> PICK m : m = Head(outbox)
  OBVIOUS
<1>1. /\ outbox # <<>> /\ m.kind \in Echo /\ outbox' = Tail(outbox)
      /\ wire' = Append(wire, m)
      /\ UNCHANGED <<sender, receiver, startTime, watching, lost, sent, received>>
  BY DEF EchoBack
<1>2. m \in Message
  BY <1>1, HeadTaken
<1>3. Is(m, TokenKinds) = 1 /\ Is(m, {"payload"}) = 0
  BY <1>1 DEF Is, TokenKinds, Echo
<1>4. Tokens' = Tokens /\ Tokens \in Nat /\ OnTheWay' = OnTheWay /\ OnTheWay' = 0
  <2>1. /\ Count(outbox, TokenKinds) = 1 + Count(outbox', TokenKinds)
        /\ Count(outbox', TokenKinds) \in Nat
        /\ OnTheWay' = OnTheWay /\ OnTheWay' = 0
    BY <1>1, <1>3, HeadTaken
  <2>2. /\ Count(inbox', TokenKinds) = Count(inbox, TokenKinds) + 1
        /\ Count(inbox, TokenKinds) \in Nat
    BY <1>1, <1>2, <1>3, Arrives
  <2> QED
    BY <2>1, <2>2 DEF Tokens
<1>5. Types'
  BY <1>1, <1>2, HeadTaken, Arrives DEF IInv, Types
<1>6. OneBurst'
  <2>1. \A k \in InTransit' : k \in InTransit
    BY <1>1, <1>2, HeadTaken, Arrives DEF InTransit
  <2>2. \A k \in ToSet(inbox') : k.kind = "identity" => k \in ToSet(inbox)
    BY <1>1, <1>2, Arrives DEF Echo
  <2>3. Tokens' <= Tokens
    BY <1>4
  <2> QED
    BY <1>1, <1>4, <1>5, <2>1, <2>2, <2>3, BurstKept DEF IInv, OneBurst
<1>7. Delivery'
  BY <1>1, <1>4, HeadTaken DEF IInv, Delivery
<1> QED
  BY <1>5, <1>6, <1>7 DEF IInv

LEMMA ShutDownIInv == IInv /\ ShutDown /\ UNCHANGED <<totalMessages, burstSize, mailbox, timer>> => IInv'
<1> SUFFICES ASSUME IInv, ShutDown, UNCHANGED <<totalMessages, burstSize, mailbox, timer>> PROVE IInv'
  OBVIOUS
<1>1. /\ outbox # <<>> /\ Head(outbox).kind = "shutdown" /\ outbox' = Tail(outbox)
      /\ receiver' = "stopped"
      /\ UNCHANGED <<sender, wire, inbox, startTime, watching, lost, sent, received>>
  BY DEF ShutDown, inbox
<1>2. Is(Head(outbox), {"payload"}) = 0 /\ Is(Head(outbox), TokenKinds) = 1
  BY <1>1 DEF Is, TokenKinds
<1>3. Tokens' <= Tokens /\ OnTheWay' = OnTheWay
  <2>1. Count(inbox, TokenKinds) \in Nat
    BY PositionsFinite DEF IInv, Types
  <2> QED
    BY <1>1, <1>2, <2>1, HeadTaken DEF Tokens
<1>4. Types'
  BY <1>1, HeadTaken DEF IInv, Types
<1>5. OneBurst'
  <2>1. \A k \in InTransit' : k \in InTransit
    BY <1>1, HeadTaken DEF InTransit
  <2> QED
    BY <1>1, <1>3, <1>4, <2>1, BurstKept DEF IInv, OneBurst
<1>6. Delivery'
  BY <1>1, <1>3, HeadTaken DEF IInv, Delivery
<1> QED
  BY <1>4, <1>5, <1>6 DEF IInv

LEMMA PayloadIInv == IInv /\ Payload /\ UNCHANGED <<totalMessages, burstSize, mailbox, timer>> => IInv'
<1> SUFFICES ASSUME IInv, Payload, UNCHANGED <<totalMessages, burstSize, mailbox, timer>> PROVE IInv'
  OBVIOUS
<1>1. /\ outbox # <<>> /\ Head(outbox).kind = "payload" /\ outbox' = Tail(outbox)
      /\ received' = received + 1
      /\ UNCHANGED <<sender, receiver, wire, inbox, startTime, watching, lost, sent>>
  BY DEF Payload, inbox
<1>2. Is(Head(outbox), {"payload"}) = 1 /\ Is(Head(outbox), TokenKinds) = 0
  BY <1>1 DEF Is, TokenKinds, Echo
<1>3. /\ Tokens' = Tokens /\ Tokens \in Nat
      /\ OnTheWay \in Nat /\ OnTheWay # 0 /\ OnTheWay' = OnTheWay - 1
  <2>1. Count(inbox, TokenKinds) \in Nat
    BY PositionsFinite DEF IInv, Types
  <2>2. /\ Count(outbox, TokenKinds) = Is(Head(outbox), TokenKinds) + Count(outbox', TokenKinds)
        /\ Count(outbox', TokenKinds) \in Nat
        /\ OnTheWay = Is(Head(outbox), {"payload"}) + OnTheWay' /\ OnTheWay' \in Nat
    BY <1>1, HeadTaken
  <2>3. Tokens' = Tokens /\ Tokens \in Nat
    BY <1>1, <1>2, <2>1, <2>2 DEF Tokens
  <2> QED
    BY <1>2, <2>2, <2>3
<1>4. Types'
  BY <1>1, HeadTaken DEF IInv, Types
<1>5. OneBurst'
  <2>1. \A k \in InTransit' : k \in InTransit
    BY <1>1, HeadTaken DEF InTransit
  <2>2. Tokens' <= Tokens
    BY <1>3
  <2> QED
    BY <1>1, <1>3, <1>4, <2>1, <2>2, BurstKept DEF IInv, OneBurst
<1>6. Delivery'
  <2>1. /\ sent <= received + lost + OnTheWay /\ received + OnTheWay <= sent
        /\ Count(inbox, Echo) > 0 => OnTheWay = 0
    BY DEF IInv, Delivery
  <2>2. OnTheWay \in Nat /\ OnTheWay # 0 /\ OnTheWay' = OnTheWay - 1
    BY <1>3
  <2>3. sent \in Nat /\ received \in Nat /\ lost \in Int
    BY DEF IInv, Types
  <2>4. /\ sent' <= received' + lost' + OnTheWay'
        /\ received' + OnTheWay' <= sent'
    BY <1>1, <2>1, <2>2, <2>3
  <2>5. ~ (Count(inbox', Echo) > 0)
    BY <1>1, <2>1, <2>2
  <2> QED
    BY <1>1, <2>4, <2>5, HeadTaken DEF Delivery
<1> QED
  BY <1>4, <1>5, <1>6 DEF IInv

-----------------------------------------------------------------------------
(* The network.                                                              *)

(* A message on its way to the Receiver is lost.                            *)
LEMMA LoseOutIInv ==
  ASSUME IInv, NEW i \in DOMAIN outbox, outbox' = RemoveAt(outbox, i), lost' = lost + 1, lost < MaxLost,
         UNCHANGED <<totalMessages, burstSize, sender, receiver, mailbox, timer, wire, inbox, startTime,
                     watching, sent, received>>
  PROVE  IInv'
<1>1. /\ outbox \in Box /\ outbox' \in Box
      /\ \A K : Count(outbox, K) = Count(outbox', K) + Is(outbox[i], K)
      /\ ToSet(outbox') \subseteq ToSet(outbox)
      /\ \A j \in DOMAIN outbox' :
           IF j < i THEN j \in DOMAIN outbox /\ outbox'[j] = outbox[j]
                    ELSE j + 1 \in DOMAIN outbox /\ outbox'[j] = outbox[j + 1]
  BY BoxRemove DEF IInv, Types
<1>2. lost' \in 0 .. MaxLost /\ lost' # 0 /\ lost \in Nat /\ sent \in Nat /\ received \in Nat
  BY BenchmarkAssumption DEF IInv, Types
<1>3. /\ Is(outbox[i], TokenKinds) \in {0, 1} /\ Is(outbox[i], {"payload"}) \in {0, 1}
      /\ Count(outbox', TokenKinds) \in Nat /\ Count(inbox, TokenKinds) \in Nat
      /\ OnTheWay' \in Nat
  BY <1>1, PositionsFinite DEF Is, OnTheWay, IInv, Types
<1>4. Tokens' <= Tokens
  <2>1. Count(outbox, TokenKinds) = Count(outbox', TokenKinds) + Is(outbox[i], TokenKinds)
    BY <1>1
  <2> QED
    BY <1>3, <2>1 DEF Tokens
<1>5. /\ OnTheWay \in Nat
      /\ OnTheWay' = OnTheWay \/ (OnTheWay # 0 /\ OnTheWay' = OnTheWay - 1)
  <2>1. OnTheWay = OnTheWay' + Is(outbox[i], {"payload"})
    BY <1>1 DEF OnTheWay
  <2> QED
    BY <1>3, <2>1
<1>6. Types'
  BY <1>1, <1>2 DEF IInv, Types
<1>7. OneBurst'
  <2>1. \A k \in InTransit' : k \in InTransit
    BY <1>1 DEF InTransit
  <2> QED
    BY <1>2, <1>4, <1>6, <2>1, BurstKept DEF IInv, OneBurst
<1>8. Delivery'
  <2>1. \A j, k \in DOMAIN outbox' : j < k /\ outbox'[j].kind \in Echo => outbox'[k].kind # "payload"
    <3> SUFFICES ASSUME NEW j \in DOMAIN outbox', NEW k \in DOMAIN outbox', j < k,
                        outbox'[j].kind \in Echo
                 PROVE  outbox'[k].kind # "payload"
      OBVIOUS
    <3>1. j \in Int /\ k \in Int /\ i \in Int
      BY <1>1 DEF Box
    <3>2. PICK a \in DOMAIN outbox : a = (IF j < i THEN j ELSE j + 1) /\ outbox'[j] = outbox[a]
      BY <1>1
    <3>3. PICK b \in DOMAIN outbox : b = (IF k < i THEN k ELSE k + 1) /\ outbox'[k] = outbox[b]
      BY <1>1
    <3>4. a < b
      BY <3>1, <3>2, <3>3
    <3> QED
      BY <3>2, <3>3, <3>4 DEF IInv, Delivery
  <2>2. /\ sent <= received + lost + OnTheWay /\ received + OnTheWay <= sent
        /\ Count(inbox, Echo) > 0 => OnTheWay = 0
    BY DEF IInv, Delivery
  <2>3. /\ sent' <= received' + lost' + OnTheWay' /\ received' + OnTheWay' <= sent'
    BY <1>2, <1>5, <2>2
  <2>4. Count(inbox', Echo) > 0 => OnTheWay' = 0
    BY <1>5, <2>2
  <2> QED
    BY <2>1, <2>3, <2>4 DEF Delivery
<1> QED
  BY <1>6, <1>7, <1>8 DEF IInv

(* An answer on its way back to the Sender is lost.                         *)
LEMMA LoseInIInv ==
  ASSUME IInv, NEW i \in DOMAIN wire, wire' = RemoveAt(wire, i), lost' = lost + 1, lost < MaxLost,
         UNCHANGED <<totalMessages, burstSize, sender, receiver, mailbox, timer, outbox, startTime, watching,
                     sent, received>>
  PROVE  IInv'
<1>1. /\ mailbox' \in Box /\ wire' \in Box /\ inbox' \in Box
      /\ \A K : Count(inbox', K) \in Nat /\ Count(inbox', K) <= Count(inbox, K)
      /\ ToSet(inbox') \subseteq ToSet(inbox)
  BY WireLost DEF IInv
<1>2. lost' \in 0 .. MaxLost /\ lost' # 0 /\ lost \in Nat /\ sent \in Nat /\ received \in Nat
  BY BenchmarkAssumption DEF IInv, Types
<1>3. /\ Count(inbox', TokenKinds) \in Nat /\ Count(inbox, TokenKinds) \in Nat
      /\ Count(inbox', Echo) \in Nat /\ Count(inbox, Echo) \in Nat
      /\ Count(outbox, TokenKinds) \in Nat /\ OnTheWay \in Nat
  BY <1>1, PositionsFinite DEF OnTheWay, IInv, Types
<1>4. Tokens' <= Tokens /\ Count(inbox', Echo) <= Count(inbox, Echo)
  <2>1. Count(inbox', TokenKinds) <= Count(inbox, TokenKinds) /\ Count(inbox', Echo) <= Count(inbox, Echo)
    BY <1>1
  <2> QED
    BY <1>3, <2>1 DEF Tokens
<1>5. Types'
  BY <1>1, <1>2 DEF IInv, Types
<1>6. OneBurst'
  <2>1. \A k \in InTransit' : k \in InTransit
    BY <1>1 DEF InTransit
  <2>2. \A k \in ToSet(inbox') : k \in ToSet(inbox)
    BY <1>1
  <2> QED
    BY <1>2, <1>4, <1>5, <2>1, <2>2, BurstKept DEF IInv, OneBurst
<1>7. Delivery'
  <2>1. /\ sent <= received + lost + OnTheWay /\ received + OnTheWay <= sent
        /\ Count(inbox, Echo) > 0 => OnTheWay = 0
    BY DEF IInv, Delivery
  <2>2. OnTheWay' = OnTheWay
    BY DEF OnTheWay
  <2>3. Count(inbox, Echo) \in Nat
    BY PositionsFinite DEF IInv, Types
  <2>4. sent' <= received' + lost' + OnTheWay' /\ received' + OnTheWay' <= sent'
    BY <1>2, <1>3, <2>1, <2>2
  <2>5. Count(inbox', Echo) > 0 => OnTheWay' = 0
    BY <1>3, <1>4, <2>1, <2>2, <2>3
  <2> QED
    BY <2>4, <2>5 DEF IInv, Delivery
<1> QED
  BY <1>5, <1>6, <1>7 DEF IInv

LEMMA LoseIInv == IInv /\ Lose => IInv'
<1> SUFFICES ASSUME IInv, Lose PROVE IInv'
  OBVIOUS
<1>1. /\ lost < MaxLost /\ lost' = lost + 1
      /\ UNCHANGED <<totalMessages, burstSize, sender, receiver, mailbox, timer, startTime, watching, sent,
                     received>>
  BY DEF Lose, args
<1>2. CASE \E i \in DOMAIN outbox : outbox' = RemoveAt(outbox, i) /\ UNCHANGED wire
  <2>1. inbox' = inbox
    BY <1>1, <1>2 DEF inbox
  <2> QED
    BY <1>1, <1>2, <2>1, LoseOutIInv
<1>3. CASE \E i \in DOMAIN wire : wire' = RemoveAt(wire, i) /\ UNCHANGED outbox
  BY <1>1, <1>3, LoseInIInv
<1> QED
  BY <1>2, <1>3 DEF Lose

-----------------------------------------------------------------------------
(* Every step keeps the invariant.                                           *)

LEMMA SenderIInv == IInv /\ SenderStep => IInv'
<1> SUFFICES ASSUME IInv, SenderStep PROVE IInv'
  OBVIOUS
<1>1. UNCHANGED <<totalMessages, burstSize, wire>>
  BY DEF SenderStep, args
<1>2. CASE Found
  BY <1>1, <1>2, FoundIInv
<1>3. CASE NotAvailable
  <2>1. Head(mailbox).kind \notin TokenKinds
    BY <1>3 DEF NotAvailable, Gets, TokenKinds, Echo
  <2> QED
    BY <1>1, <1>3, <2>1, TakePlainIInv DEF NotAvailable, Gets, Handled
<1>4. CASE LookAgain
  <2>1. Head(mailbox).kind \notin TokenKinds
    BY <1>4 DEF LookAgain, Gets, TokenKinds, Echo
  <2> QED
    BY <1>1, <1>4, <2>1, TakePlainIInv DEF LookAgain, Gets, Handled
<1>5. CASE Warmup
  BY <1>1, <1>5, WarmupIInv
<1>6. CASE Start
  BY <1>1, <1>6, StartIInv
<1>7. CASE ContinueBurst
  BY <1>1, <1>7, ContinueIInv
<1>8. CASE Done
  BY <1>1, <1>8, DoneIInv
<1>9. CASE ReceiverTerminated
  <2>1. Head(mailbox).kind \notin TokenKinds
    BY <1>9 DEF ReceiverTerminated, Gets, TokenKinds, Echo
  <2> QED
    BY <1>1, <1>9, <2>1, TakePlainIInv DEF ReceiverTerminated, Gets, Handled
<1>10. CASE Unhandled
  <2>1. Head(mailbox).kind \notin TokenKinds
    BY <1>10 DEF Unhandled, Gets, TokenKinds, Echo
  <2> QED
    BY <1>1, <1>10, <2>1, TakePlainIInv DEF Unhandled, Gets, Handled
<1> QED
  BY <1>2, <1>3, <1>4, <1>5, <1>6, <1>7, <1>8, <1>9, <1>10 DEF SenderStep

LEMMA Inductive == IInv /\ [Next]_vars => IInv'
<1> SUFFICES ASSUME IInv, [Next]_vars PROVE IInv'
  OBVIOUS
<1>1. CASE SenderStep
  BY <1>1, SenderIInv
<1>2. CASE ReceiveTimeout
  <2>1. Msg("timeout") \in Message /\ Msg("timeout").kind = "timeout"
    BY Messages
  <2>2. watching' \in BOOLEAN
    BY <1>2 DEF ReceiveTimeout, IInv, Types
  <2> QED
    BY <1>2, <2>1, <2>2, PostIInv DEF ReceiveTimeout, args
<1>9. CASE Deliver
  BY <1>9, DeliverIInv
<1>3. CASE ReceiverStarts
  BY <1>3, NodeIInv DEF ReceiverStarts, args
<1>4. CASE ReceiverCrashes
  BY <1>4, NodeIInv DEF ReceiverCrashes, args
<1>5. CASE ReceiverStep
  BY <1>5, AnswerIInv, EchoIInv, ShutDownIInv, PayloadIInv DEF ReceiverStep, args
<1>6. CASE DeathWatch
  <2>1. Msg("terminated") \in Message /\ Msg("terminated").kind = "terminated"
    BY Messages
  <2>2. timer' \in BOOLEAN
    BY <1>6 DEF DeathWatch, IInv, Types
  <2> QED
    BY <1>6, <2>1, <2>2, PostIInv DEF DeathWatch, args
<1>7. CASE Lose
  BY <1>7, LoseIInv
<1>8. CASE UNCHANGED vars
  <2>1. UNCHANGED <<totalMessages, burstSize, sender, receiver, mailbox, timer, wire, inbox, outbox,
                    startTime, watching, lost, sent, received>>
    BY <1>8 DEF vars, args, inbox
  <2>2. Types'
    BY <2>1 DEF IInv, Types
  <2>3. OneBurst'
    BY <2>1 DEF IInv, OneBurst, Fits, Tokens, InTransit
  <2>4. Delivery'
    BY <2>1 DEF IInv, Delivery, OnTheWay
  <2> QED
    BY <2>2, <2>3, <2>4 DEF IInv
<1> QED
  BY <1>1, <1>2, <1>3, <1>4, <1>5, <1>6, <1>7, <1>8, <1>9 DEF Next

LEMMA Invariant == Spec => []IInv
BY InitIInv, Inductive, PTL DEF Spec

-----------------------------------------------------------------------------
(* The theorems.                                                             *)

(* Every variable has its type: no more payloads are received than were     *)
(* sent, and the numbers of a Continue are within the benchmark.            *)
THEOREM TypeCorrect == Spec => []TypeOK
<1>1. ASSUME IInv PROVE TypeOK
  <2>1. ASSUME NEW m \in InTransit PROVE IsMessage(m)
    <3>1. m \in Message /\ Fits(m)
      BY <1>1, <2>1 DEF IInv, Types, OneBurst, InTransit, ToSet, Box
    <3>2. CASE m.kind = "continue"
      BY <3>1, <3>2 DEF Fits, IsMessage
    <3>3. CASE m.kind = "identity"
      <4>1. m \in [kind : {"identity"}, found : BOOLEAN]
        BY <3>1, <3>3, Kinds
      <4> QED
        BY <4>1 DEF IsMessage, Identity
    <3> QED
      BY <3>1, <3>2, <3>3, Kinds DEF IsMessage
  <2>2. received \in 0 .. sent
    <3>1. OnTheWay \in Nat
      BY <1>1, PositionsFinite DEF IInv, Types, OnTheWay
    <3> QED
      BY <1>1, <3>1 DEF IInv, Types, Delivery
  <2>3. \A m \in ToSet(inbox) \cup ToSet(outbox) : IsMessage(m)
    BY <2>1 DEF InTransit
  <2> QED
    BY <1>1, <2>2, <2>3 DEF IInv, Types, TypeOK
<1> QED
  BY <1>1, Invariant, PTL

(* At most one burst is under way: of the messages that move the benchmark  *)
(* on (Warmup, the echoes, Shutdown) one is in transit at most, and exactly *)
(* one between the search and the end while nothing has been lost.          *)
THEOREM OneTokenHolds == Spec => []OneToken
<1>1. ASSUME IInv PROVE OneToken
  <2>1. Count(inbox \o outbox, TokenKinds) = Tokens
    BY <1>1, CountConcat DEF IInv, Types, Tokens
  <2> QED
    BY <1>1, <2>1 DEF IInv, OneBurst, OneToken, TokenKinds
<1> QED
  BY <1>1, Invariant, PTL

(* The numbers an echo carries are true when it comes back: what was sent   *)
(* since its start and what is left; and the Receiver is told to shut down  *)
(* after one warm-up burst and totalMessages payloads, whatever was lost.   *)
THEOREM HonestCountHolds == Spec => []HonestCount
<1>1. ASSUME IInv PROVE HonestCount
  <2>1. \A m \in InTransit : m.kind = "continue" =>
          m.n = sent - m.startTime /\ m.remaining = totalMessages - (sent - startTime)
    BY <1>1 DEF IInv, OneBurst, Fits
  <2>2. ASSUME Count(outbox, {"shutdown"}) > 0 PROVE sent = burstSize + totalMessages
    <3>1. outbox \in Box /\ Count(outbox, {"shutdown"}) # 0
      BY <1>1, <2>2 DEF IInv, Types
    <3>2. PICK i \in DOMAIN outbox : outbox[i].kind \in {"shutdown"}
      BY <3>1, CountNone
    <3>3. outbox[i] \in InTransit
      BY <3>2 DEF InTransit, ToSet
    <3> QED
      BY <1>1, <3>2, <3>3 DEF IInv, OneBurst, Fits
  <2> QED
    BY <2>1, <2>2 DEF HonestCount
<1> QED
  BY <1>1, Invariant, PTL

(* An echo that is back means that the payloads sent before it have arrived *)
(* but for those lost, because messages to the Receiver keep their order.   *)
THEOREM EchoMeansDeliveredHolds == Spec => []EchoMeansDelivered
<1>1. ASSUME IInv PROVE EchoMeansDelivered
  <2>1. ASSUME NEW m \in ToSet(inbox), m.kind \in Echo PROVE received + lost >= sent
    <3>1. inbox \in Box /\ Count(inbox, Echo) \in Nat
      BY <1>1, PositionsFinite DEF IInv, Types
    <3>2. Count(inbox, Echo) # 0
      BY <2>1, <3>1, CountNone DEF ToSet
    <3>3. OnTheWay = 0
      BY <1>1, <3>1, <3>2 DEF IInv, Delivery
    <3> QED
      BY <1>1, <3>3 DEF IInv, Types, Delivery
  <2> QED
    BY <2>1 DEF EchoMeansDelivered
<1> QED
  BY <1>1, Invariant, PTL
=============================================================================
