---------------------------- MODULE ScriptsProofs ----------------------------
(***************************************************************************)
(* Proofs about the scripts of the documentation pages. First what the     *)
(* recursive functions of Strings do, by induction over the sets of the    *)
(* positions reached; then each script in turn. Only one script runs in a  *)
(* behaviour of Scripts: the invariant of each is proved from its own      *)
(* initial state, and from the one in which it has come to its end.        *)
(***************************************************************************)
EXTENDS Scripts, FiniteSetTheorems, WellFoundedInduction, TLAPS

-----------------------------------------------------------------------------
(* Induction and recursion over the naturals, for sets and for functions.   *)

(* A set of naturals that is not empty has a least element.                 *)
LEMMA Least ==
  ASSUME NEW S \in SUBSET Nat, S # {}
  PROVE  \E x \in S : \A y \in S : x <= y
<1> DEFINE R == {ss \in Nat \X Nat : ss[1] < ss[2]}
<1>1. IsWellFoundedOn(R, Nat)
  BY NatLessThanWellFounded, Zenon DEF OpToRel
<1>2. \A x, y \in Nat : <<y, x>> \in R <=> y < x
  OBVIOUS
<1> HIDE DEF R
<1>3. PICK x \in S : \A y \in S : ~(<<y, x>> \in R)
  BY <1>1, WFMin
<1>4. ASSUME NEW y \in S PROVE x <= y
  <2>1. x \in Nat /\ y \in Nat /\ ~(y < x)
    BY <1>2, <1>3
  <2> QED
    BY <2>1
<1> QED
  BY <1>4

(* And a greatest one if it is bounded.                                     *)
LEMMA Greatest ==
  ASSUME NEW N \in Nat, NEW S \in SUBSET (0 .. N), S # {}
  PROVE  \E x \in S : \A y \in S : y <= x
<1> DEFINE R == {N - x : x \in S}
<1>1. R \in SUBSET Nat /\ R # {}
  <2>1. \A x \in S : N - x \in Nat
    OBVIOUS
  <2> QED
    BY <2>1
<1>2. PICK r \in R : \A y \in R : r <= y
  BY <1>1, Least
<1>3. N - r \in S /\ \A y \in S : N - y \in R
  <2>1. PICK x \in S : r = N - x
    OBVIOUS
  <2>2. N - r = x
    BY <2>1
  <2> QED
    BY <2>1, <2>2
<1>4. ASSUME NEW y \in S PROVE y <= N - r
  <2>1. r <= N - y /\ y \in Nat /\ r \in Nat
    BY <1>1, <1>2, <1>3
  <2> QED
    BY <2>1
<1> QED
  BY <1>3, <1>4

(* Induction: a set that has 0, and with each natural the next, has all.    *)
LEMMA Counting ==
  ASSUME NEW S, 0 \in S, \A n \in S \cap Nat : n + 1 \in S
  PROVE  \A n \in Nat : n \in S
<1> SUFFICES ASSUME Nat \ S # {} PROVE FALSE
  OBVIOUS
<1>1. PICK x \in Nat \ S : \A y \in Nat \ S : x <= y
  BY Least
<1>2. x # 0 /\ x - 1 \in Nat /\ x - 1 \in S /\ (x - 1) + 1 = x
  BY <1>1
<1> QED
  BY <1>1, <1>2

(* The same up to a bound.                                                  *)
LEMMA CountingTo ==
  ASSUME NEW N \in Nat, NEW S, 0 \in S, \A n \in 1 .. N : n - 1 \in S => n \in S
  PROVE  \A n \in 0 .. N : n \in S
<1> DEFINE A == {n \in Nat : n <= N => n \in S}
<1>1. 0 \in A
  OBVIOUS
<1>2. ASSUME NEW n \in A PROVE n + 1 \in A
  <2>1. CASE n + 1 <= N
    <3>1. n + 1 \in 1 .. N /\ (n + 1) - 1 = n /\ n \in S
      BY <2>1
    <3>2. n + 1 \in S
      BY <3>1
    <3> QED
      BY <3>2
  <2> QED
    BY <2>1
<1> HIDE DEF A
<1>3. \A n \in Nat : n \in A
  BY <1>1, <1>2, Counting
<1> QED
  BY <1>3 DEF A

(* Recursion: there is a function with a given value at 0, and each value   *)
(* given by the one before.                                                 *)
Steps(N, S) == [1 .. N -> [S -> S]]
Follows(f, N, S, b, step) ==
  f \in [0 .. N -> S] /\ f[0] = b /\ \A n \in 1 .. N : f[n] = step[n][f[n - 1]]
(* A recursion over 0 .. N defines a function.                               *)
LEMMA Recursion ==
  ASSUME NEW N \in Nat, NEW S, NEW b \in S, NEW step \in Steps(N, S)
  PROVE  \E f : Follows(f, N, S, b, step)
<1> USE DEF Steps, Follows
<1> DEFINE Upto(m, g) == /\ g \in [0 .. m -> S] /\ g[0] = b
                         /\ \A k \in 1 .. m : g[k] = step[k][g[k - 1]]
           A == {m \in 0 .. N : \E g : Upto(m, g)}
<1>1. 0 \in A
  <2>1. Upto(0, [k \in 0 .. 0 |-> b]) /\ 0 \in 0 .. N
    OBVIOUS
  <2> HIDE DEF Upto
  <2> QED
    BY <2>1
<1>2. ASSUME NEW m \in 1 .. N, m - 1 \in A PROVE m \in A
  <2>1. PICK g : Upto(m - 1, g)
    BY <1>2
  <2> DEFINE h == [k \in 0 .. m |-> IF k < m THEN g[k] ELSE step[m][g[m - 1]]]
  <2>2. h \in [0 .. m -> S] /\ h[0] = b
    <3>1. g[m - 1] \in S
      BY <2>1
    <3>2. step[m][g[m - 1]] \in S
      BY <3>1
    <3> QED
      BY <2>1, <3>2
  <2>3. ASSUME NEW k \in 1 .. m PROVE h[k] = step[k][h[k - 1]]
    <3>1. k - 1 \in 0 .. m /\ k - 1 < m /\ h[k - 1] = g[k - 1]
      OBVIOUS
    <3>2. CASE k < m
      <4>1. k \in 1 .. m - 1 /\ h[k] = g[k]
        BY <3>2
      <4> HIDE DEF h
      <4> QED
        BY <2>1, <3>1, <4>1
    <3>3. CASE k = m
      <4>1. h[k] = step[m][g[m - 1]]
        BY <3>3
      <4> HIDE DEF h
      <4> QED
        BY <3>1, <3>3, <4>1
    <3> QED
      BY <3>2, <3>3
  <2> HIDE DEF h
  <2> QED
    BY <2>2, <2>3
<1> HIDE DEF A
<1>3. \A m \in 0 .. N : m \in A
  BY <1>1, <1>2, CountingTo
<1> HIDE DEF Upto
<1>4. PICK f : Upto(N, f)
  BY <1>3 DEF A
<1> QED
  BY <1>4 DEF Upto

(* Induction over sequences: the empty one, and each with one more element. *)
LEMMA Extending ==
  ASSUME NEW E, NEW P, <<>> \in P,
         \A s \in Seq(E) \cap P, e \in E : Append(s, e) \in P
  PROVE  \A s \in Seq(E) : s \in P
<1> DEFINE A == {n \in Nat : \A s \in Seq(E) : Len(s) = n => s \in P}
<1>1. 0 \in A
  <2>1. \A s \in Seq(E) : Len(s) = 0 => s = <<>>
    OBVIOUS
  <2> QED
    BY <2>1
<1>2. ASSUME NEW n \in A PROVE n + 1 \in A
  <2>1. ASSUME NEW s \in Seq(E), Len(s) = n + 1 PROVE s \in P
    <3> DEFINE t == SubSeq(s, 1, n)
    <3>1. t \in Seq(E) /\ Len(t) = n /\ s[n + 1] \in E
      BY <2>1
    <3>2. s = Append(t, s[n + 1])
      BY <2>1
    <3>3. t \in P
      BY <3>1
    <3> HIDE DEF t
    <3> QED
      BY <3>1, <3>2, <3>3
  <2> QED
    BY <2>1
<1> HIDE DEF A
<1>3. \A n \in Nat : n \in A
  BY <1>1, <1>2, Counting
<1> QED
  BY <1>3 DEF A

(* Concatenation is associative.                                            *)
LEMMA OneAfterTheOther ==
  ASSUME NEW E, NEW r \in Seq(E), NEW s \in Seq(E), NEW t \in Seq(E)
  PROVE  (r \o s) \o t = r \o (s \o t)
OBVIOUS

(* And so for four sequences.                                                *)
Chained(x, a, b, c) == ((x \o a) \o b) \o c = x \o ((a \o b) \o c)

(* It does, for sequences of any elements.                                   *)
LEMMA FourInARow ==
  ASSUME NEW E, NEW x \in Seq(E), NEW a \in Seq(E), NEW b \in Seq(E), NEW c \in Seq(E)
  PROVE  Chained(x, a, b, c)
<1>1. (x \o a) \o b = x \o (a \o b)
  BY OneAfterTheOther
<1> DEFINE y == a \o b
<1>2. y \in Seq(E)
  OBVIOUS
<1> HIDE DEF y
<1>3. (x \o y) \o c = x \o (y \o c)
  BY <1>2, OneAfterTheOther
<1> QED
  BY <1>1, <1>3 DEF Chained, y

(* Concatenation and Append associate.                                       *)
LEMMA OneAppended ==
  ASSUME NEW E, NEW s \in Seq(E), NEW t \in Seq(E), NEW e \in E
  PROVE  s \o Append(t, e) = Append(s \o t, e)
OBVIOUS

(* The elements of a typed sequence.                                         *)
LEMMA ElementsOf ==
  ASSUME NEW E, NEW s \in Seq(E)
  PROVE  \A k \in 1 .. Len(s) : s[k] \in E
OBVIOUS

(* A function on the first N numbers is a sequence.                         *)
LEMMA RowSeq ==
  ASSUME NEW N \in Nat, NEW E, NEW u \in [1 .. N -> E]
  PROVE  u \in Seq(E) /\ Len(u) = N
OBVIOUS

(* The elements of the lists of a family.                                   *)
LEMMA ListElements ==
  ASSUME NEW S, NEW E, NEW F \in [S -> Seq(E)]
  PROVE  \A x \in S : \A j \in 1 .. Len(F[x]) : F[x][j] \in E
<1> TAKE x \in S
<1>1. F[x] \in Seq(E)
  OBVIOUS
<1> QED
  BY <1>1, ElementsOf

(* Append is concatenation with a sequence of one.                          *)
LEMMA AppendIs ==
  ASSUME NEW E, NEW s \in Seq(E), NEW e \in E
  PROVE  /\ Append(s, e) \in Seq(E) /\ Append(s, e) = s \o <<e>> /\ <<e>> \in Seq(E)
         /\ Len(Append(s, e)) = Len(s) + 1 /\ Append(s, e) # <<>>
OBVIOUS

(* Sequences are equal if their elements are.                               *)
LEMMA SameElements ==
  ASSUME NEW E, NEW s \in Seq(E), NEW t \in Seq(E), Len(s) = Len(t),
         \A k \in 1 .. Len(s) : s[k] = t[k]
  PROVE  s = t
OBVIOUS


(* The beginning of a beginning, and all of a sequence.                      *)
LEMMA TwoParts ==
  ASSUME NEW E, NEW s \in Seq(E), NEW k \in 0 .. Len(s), NEW j \in 0 .. k
  PROVE  SubSeq(s, 1, k) = SubSeq(s, 1, j) \o SubSeq(s, j + 1, k)
OBVIOUS

(* A sequence up to its length is the sequence.                              *)
LEMMA AllOfIt ==
  ASSUME NEW E, NEW s \in Seq(E)
  PROVE  SubSeq(s, 1, Len(s)) = s
OBVIOUS

(* A sequence is its beginning, its middle and its end.                      *)
LEMMA ThreeParts ==
  ASSUME NEW E, NEW s \in Seq(E), NEW j \in 0 .. Len(s), NEW k \in j .. Len(s)
  PROVE  s = (SubSeq(s, 1, j) \o SubSeq(s, j + 1, k)) \o SubSeq(s, k + 1, Len(s))
<1>1. k \in 0 .. Len(s) /\ j \in 0 .. k /\ Len(s) \in 0 .. Len(s)
  OBVIOUS
<1>2. SubSeq(s, 1, Len(s)) = SubSeq(s, 1, k) \o SubSeq(s, k + 1, Len(s))
  BY <1>1, TwoParts
<1>3. SubSeq(s, 1, k) = SubSeq(s, 1, j) \o SubSeq(s, j + 1, k)
  BY <1>1, TwoParts
<1> QED
  BY <1>2, <1>3, AllOfIt

(* What a sequence becomes when two elements are put into it.                *)
Inserting(s, at, x, y) == SubSeq(s, 1, at) \o <<x, y>> \o SubSeq(s, at + 1, Len(s))

Inserted(t, F, s, at, x, y) ==
  /\ t \in Seq(F) /\ Len(t) = Len(s) + 2
  /\ \A k \in 1 .. at : t[k] = s[k]
  /\ t[at + 1] = x /\ t[at + 2] = y
  /\ \A k \in at + 3 .. Len(s) + 2 : t[k] = s[k - 2]

(* What stands where after two elements are put in.                          *)
LEMMA InsertingInserts ==
  ASSUME NEW F, NEW s \in Seq(F), NEW at \in 0 .. Len(s), NEW x \in F, NEW y \in F
  PROVE  Inserted(Inserting(s, at, x, y), F, s, at, x, y)
<1> DEFINE p == SubSeq(s, 1, at)
           r == SubSeq(s, at + 1, Len(s))
<1>1. p \in Seq(F) /\ Len(p) = at /\ \A k \in 1 .. at : p[k] = s[k]
  OBVIOUS
<1>2. r \in Seq(F) /\ Len(r) = Len(s) - at /\ \A k \in 1 .. Len(s) - at : r[k] = s[at + k]
  OBVIOUS
<1>3. ASSUME NEW u \in Seq(F), NEW v \in Seq(F)
      PROVE  LET q == u \o <<x, y>> \o v
             IN  /\ q \in Seq(F) /\ Len(q) = Len(u) + 2 + Len(v) /\ \A k \in 1 .. Len(u) : q[k] = u[k]
                 /\ q[Len(u) + 1] = x /\ q[Len(u) + 2] = y
                 /\ \A k \in Len(u) + 3 .. Len(u) + 2 + Len(v) : q[k] = v[k - Len(u) - 2]
  OBVIOUS
<1> HIDE DEF p, r
<1> DEFINE q == p \o <<x, y>> \o r
<1>4. /\ q \in Seq(F) /\ Len(q) = Len(p) + 2 + Len(r) /\ \A k \in 1 .. Len(p) : q[k] = p[k]
      /\ q[Len(p) + 1] = x /\ q[Len(p) + 2] = y
      /\ \A k \in Len(p) + 3 .. Len(p) + 2 + Len(r) : q[k] = r[k - Len(p) - 2]
  BY <1>1, <1>2, <1>3
<1> HIDE DEF q
<1>5. q \in Seq(F) /\ Len(q) = Len(s) + 2
  BY <1>1, <1>2, <1>4
<1>6. /\ \A k \in 1 .. at : q[k] = s[k]
      /\ q[at + 1] = x /\ q[at + 2] = y
  BY <1>1, <1>4
<1>7. ASSUME NEW k \in at + 3 .. Len(s) + 2 PROVE q[k] = s[k - 2]
  <2>1. k \in Len(p) + 3 .. Len(p) + 2 + Len(r) /\ k - Len(p) - 2 \in 1 .. Len(s) - at
        /\ at + (k - Len(p) - 2) = k - 2
    BY <1>1, <1>2
  <2>2. q[k] = r[k - Len(p) - 2]
    BY <1>4, <2>1
  <2> QED
    BY <1>2, <2>1, <2>2
<1> QED
  BY <1>5, <1>6, <1>7 DEF q, p, r, Inserting, Inserted

-----------------------------------------------------------------------------
(* Joining.                                                                  *)

(* The function that Joined follows.                                        *)
LEMMA JoinedUpto ==
  ASSUME NEW E, NEW ss \in Seq(Seq(E))
  PROVE  \E f \in [0 .. Len(ss) -> Seq(E)] :
           /\ f[0] = <<>> /\ \A n \in 1 .. Len(ss) : f[n] = f[n - 1] \o ss[n]
           /\ Joined(ss) = f[Len(ss)]
<1>0. PICK L \in Nat : L = Len(ss)
  OBVIOUS
<1> DEFINE step == [n \in 1 .. L |-> [x \in Seq(E) |-> x \o ss[n]]]
           upTo == CHOOSE u : u = [n \in 0 .. L |-> IF n = 0 THEN <<>> ELSE u[n - 1] \o ss[n]]
<1>1. step \in [1 .. L -> [Seq(E) -> Seq(E)]]
  BY <1>0
<1>2. \A n \in 1 .. L, x \in Seq(E) : step[n][x] = x \o ss[n]
  BY <1>0
<1>3. Joined(ss) = upTo[L]
  BY <1>0 DEF Joined
<1> HIDE DEF step
<1>4. step \in Steps(L, Seq(E)) /\ <<>> \in Seq(E)
  BY <1>1 DEF Steps
<1>5. PICK f \in [0 .. L -> Seq(E)] : f[0] = <<>> /\ \A n \in 1 .. L : f[n] = step[n][f[n - 1]]
  <2>1. PICK f : Follows(f, L, Seq(E), <<>>, step)
    BY <1>4, Recursion
  <2> QED
    BY <2>1 DEF Follows
<1>6. \A n \in 1 .. L : n - 1 \in 0 .. L /\ f[n] = f[n - 1] \o ss[n]
  <2> TAKE n \in 1 .. L
  <2>1. n - 1 \in 0 .. L
    BY <1>1
  <2> QED
    BY <1>2, <1>5, <2>1
<1>7. f = [n \in 0 .. L |-> IF n = 0 THEN <<>> ELSE f[n - 1] \o ss[n]]
  <2>1. \A n \in 0 .. L : n = 0 \/ n \in 1 .. L
    BY <1>1
  <2> QED
    BY <1>5, <1>6, <2>1
<1>8. upTo = [n \in 0 .. L |-> IF n = 0 THEN <<>> ELSE upTo[n - 1] \o ss[n]]
  BY <1>7
<1> HIDE DEF upTo
<1>9. /\ DOMAIN upTo = 0 .. L /\ upTo[0] = <<>>
      /\ \A n \in 1 .. L : upTo[n] = upTo[n - 1] \o ss[n]
  <2>1. 0 \in 0 .. L /\ \A n \in 1 .. L : n \in 0 .. L /\ n # 0
    BY <1>1
  <2> QED
    BY <1>8, <2>1
<1> DEFINE A == {n \in 0 .. L : upTo[n] = f[n]}
<1>10. 0 \in A
  BY <1>1, <1>5, <1>9
<1>11. ASSUME NEW n \in 1 .. L, n - 1 \in A PROVE n \in A
  <2>1. upTo[n] = upTo[n - 1] \o ss[n] /\ f[n] = f[n - 1] \o ss[n] /\ upTo[n - 1] = f[n - 1]
    BY <1>6, <1>9, <1>11
  <2>2. n \in 0 .. L
    BY <1>1
  <2> QED
    BY <2>1, <2>2
<1> HIDE DEF A
<1>12. \A n \in 0 .. L : n \in A
  BY <1>1, <1>10, <1>11, CountingTo
<1>13. L \in 0 .. L
  BY <1>1
<1>14. Joined(ss) = f[L]
  BY <1>3, <1>12, <1>13 DEF A
<1> QED
  BY <1>0, <1>5, <1>6, <1>14

(* Nothing joined is nothing.                                                *)
LEMMA JoinedNone == Joined(<<>>) = <<>>
<1>1. <<>> \in Seq(Seq({})) /\ Len(<<>>) = 0
  OBVIOUS
<1>2. PICK f \in [0 .. Len(<<>>) -> Seq({})] : f[0] = <<>> /\ Joined(<<>>) = f[Len(<<>>)]
  BY <1>1, JoinedUpto
<1> QED
  BY <1>1, <1>2

(* Joined sequences of E are a sequence of E.                                *)
LEMMA JoinedSeq ==
  ASSUME NEW E, NEW ss \in Seq(Seq(E))
  PROVE  Joined(ss) \in Seq(E)
<1>1. PICK f \in [0 .. Len(ss) -> Seq(E)] : Joined(ss) = f[Len(ss)]
  BY JoinedUpto
<1>2. Len(ss) \in 0 .. Len(ss)
  OBVIOUS
<1> QED
  BY <1>1, <1>2

(* One sequence more.                                                       *)
LEMMA JoinedAppend ==
  ASSUME NEW E, NEW ss \in Seq(Seq(E)), NEW s \in Seq(E)
  PROVE  Joined(Append(ss, s)) = Joined(ss) \o s
<1>0. PICK L \in Nat : L = Len(ss)
  OBVIOUS
<1> DEFINE tu == Append(ss, s)
<1>a. tu \in Seq(Seq(E))
  OBVIOUS
<1> HIDE DEF tu
<1>b. PICK tt \in Seq(Seq(E)) : tt = Append(ss, s)
  BY <1>a DEF tu
<1>1. Len(tt) = L + 1 /\ tt[L + 1] = s /\ \A n \in 1 .. L : tt[n] = ss[n]
  BY <1>0, <1>b
<1>2. PICK f \in [0 .. L -> Seq(E)] : /\ f[0] = <<>> /\ \A n \in 1 .. L : f[n] = f[n - 1] \o ss[n]
                                      /\ Joined(ss) = f[L]
  BY <1>0, JoinedUpto
<1>3. PICK g \in [0 .. Len(tt) -> Seq(E)] :
        /\ g[0] = <<>>
        /\ \A n \in 1 .. Len(tt) : g[n] = g[n - 1] \o tt[n]
        /\ Joined(tt) = g[Len(tt)]
  BY JoinedUpto
<1>4. /\ g[0] = <<>> /\ \A n \in 1 .. L + 1 : g[n] = g[n - 1] \o tt[n]
      /\ Joined(tt) = g[L + 1]
  <2>1. Len(tt) = L + 1
    BY <1>1
  <2>2. \A n \in 1 .. L + 1 : g[n] = g[n - 1] \o tt[n]
    BY <1>3, <2>1
  <2>3. g[0] = <<>> /\ Joined(tt) = g[L + 1]
    BY <1>3, <2>1
  <2> QED
    BY <2>2, <2>3, Zenon
<1> DEFINE A == {n \in 0 .. L : g[n] = f[n]}
<1>5. 0 \in A
  BY <1>0, <1>2, <1>4
<1>6. ASSUME NEW n \in 1 .. L, n - 1 \in A PROVE n \in A
  <2>1. n \in 1 .. L + 1 /\ n \in 0 .. L /\ g[n - 1] = f[n - 1]
    BY <1>0, <1>6
  <2>2. g[n] = g[n - 1] \o tt[n] /\ f[n] = f[n - 1] \o ss[n] /\ tt[n] = ss[n]
    BY <1>1, <1>2, <1>4, <2>1
  <2> QED
    BY <2>1, <2>2
<1> HIDE DEF A
<1>7. \A n \in 0 .. L : n \in A
  BY <1>0, <1>5, <1>6, CountingTo
<1>8. L + 1 \in 1 .. L + 1 /\ (L + 1) - 1 = L /\ L \in 0 .. L
  BY <1>0
<1>9. g[L] = f[L]
  BY <1>7, <1>8 DEF A
<1>10. g[L + 1] = g[L] \o s
  BY <1>1, <1>4, <1>8
<1> QED
  BY <1>0, <1>b, <1>2, <1>4, <1>9, <1>10

(* A single sequence joined is itself.                                       *)
LEMMA JoinedOne ==
  ASSUME NEW E, NEW s \in Seq(E)
  PROVE  Joined(<<s>>) = s
<1>1. <<>> \in Seq(Seq(E)) /\ Append(<<>>, s) = <<s>>
  OBVIOUS
<1>2. Joined(<<s>>) = <<>> \o s
  BY <1>1, JoinedAppend, JoinedNone
<1> QED
  BY <1>2

(* One of the sequences is taken apart.                                     *)
Apart(ss, tt, at, a, b, c) ==
  /\ at \in 1 .. Len(ss)
  /\ ss[at] = (a \o b) \o c
  /\ Len(tt) = Len(ss) + 2
  /\ \A j \in 1 .. at - 1 : tt[j] = ss[j]
  /\ tt[at] = a /\ tt[at + 1] = b /\ tt[at + 2] = c
  /\ \A j \in at + 1 .. Len(ss) : tt[j + 2] = ss[j]

(* An element cut in three reads as before when joined.                      *)
LEMMA JoinedApart ==
  ASSUME NEW E, NEW ss \in Seq(Seq(E)), NEW tt \in Seq(Seq(E)), NEW at,
         NEW a \in Seq(E), NEW b \in Seq(E), NEW c \in Seq(E), Apart(ss, tt, at, a, b, c)
  PROVE  Joined(tt) = Joined(ss)
<1>0. PICK L \in Nat : L = Len(ss)
  OBVIOUS
<1>1. /\ at \in 1 .. L /\ Len(tt) = L + 2 /\ \A j \in at + 1 .. L : tt[j + 2] = ss[j]
      /\ \A j \in 1 .. at - 1 : tt[j] = ss[j]
  BY <1>0 DEF Apart
<1>b. \A x \in Seq(E) : ((x \o a) \o b) \o c = x \o ((a \o b) \o c)
  <2>1. \A x \in Seq(E) : Chained(x, a, b, c)
    BY FourInARow, Zenon
  <2> QED
    BY <2>1, Zenon DEF Chained
<1>a. ss[at] = (a \o b) \o c /\ tt[at] = a /\ tt[at + 1] = b /\ tt[at + 2] = c
  BY DEF Apart
<1>2. PICK f \in [0 .. Len(ss) -> Seq(E)] :
        /\ f[0] = <<>>
        /\ \A n \in 1 .. Len(ss) : f[n] = f[n - 1] \o ss[n]
        /\ Joined(ss) = f[Len(ss)]
  BY JoinedUpto
<1>3. f \in [0 .. L -> Seq(E)] /\ f[0] = <<>> /\ Joined(ss) = f[L]
  BY <1>0, <1>2
<1>4. \A n \in 1 .. L : f[n] = f[n - 1] \o ss[n]
  BY <1>0, <1>2
<1>5. PICK g \in [0 .. Len(tt) -> Seq(E)] :
        /\ g[0] = <<>>
        /\ \A n \in 1 .. Len(tt) : g[n] = g[n - 1] \o tt[n]
        /\ Joined(tt) = g[Len(tt)]
  BY JoinedUpto
<1>6. g[0] = <<>> /\ Joined(tt) = g[L + 2]
  BY <1>1, <1>5
<1>7. \A n \in 1 .. L + 2 : g[n] = g[n - 1] \o tt[n]
  BY <1>1, <1>5
<1>8. ASSUME g[at - 1] = f[at - 1] PROVE g[at + 2] = f[at]
  <2>1. at \in 1 .. L + 2 /\ at + 1 \in 1 .. L + 2 /\ at + 2 \in 1 .. L + 2 /\ at - 1 \in 0 .. L
        /\ (at + 1) - 1 = at /\ (at + 2) - 1 = at + 1
    BY <1>1
  <2>2. g[at] = g[at - 1] \o a /\ g[at + 1] = g[at] \o b /\ g[at + 2] = g[at + 1] \o c
    BY <1>a, <1>7, <2>1
  <2>3. f[at] = f[at - 1] \o ((a \o b) \o c)
    BY <1>a, <1>1, <1>4
  <2> DEFINE r == f[at - 1]
  <2>4. r \in Seq(E)
    BY <1>3, <2>1
  <2> HIDE DEF r
  <2>5. ((r \o a) \o b) \o c = r \o ((a \o b) \o c)
    BY <1>b, <2>4
  <2>6. g[at - 1] = r /\ f[at - 1] = r
    BY <1>8 DEF r
  <2> QED
    BY <2>2, <2>3, <2>5, <2>6
<1> DEFINE A == {k \in 0 .. L : (k < at => g[k] = f[k]) /\ (k >= at => g[k + 2] = f[k])}
<1>9. 0 \in A
  BY <1>1, <1>3, <1>6
<1>10. ASSUME NEW k \in 1 .. L, k - 1 \in A PROVE k \in A
  <2>1. CASE k < at
    <3>1. g[k - 1] = f[k - 1] /\ k \in 1 .. L + 2 /\ k \in 1 .. at - 1 /\ k \in 0 .. L /\ ~(k >= at)
      BY <1>1, <1>10, <2>1
    <3>2. g[k] = g[k - 1] \o tt[k] /\ f[k] = f[k - 1] \o ss[k] /\ tt[k] = ss[k]
      BY <1>1, <1>4, <1>7, <3>1
    <3> QED
      BY <3>1, <3>2
  <2>2. CASE k = at
    BY <1>1, <1>8, <1>10, <2>2
  <2>3. CASE k > at
    <3>1. /\ g[(k - 1) + 2] = f[k - 1] /\ k + 2 \in 1 .. L + 2 /\ k \in at + 1 .. L /\ k \in 0 .. L
          /\ (k + 2) - 1 = (k - 1) + 2 /\ ~(k < at)
      BY <1>1, <1>10, <2>3
    <3>2. g[k + 2] = g[(k + 2) - 1] \o tt[k + 2] /\ f[k] = f[k - 1] \o ss[k] /\ tt[k + 2] = ss[k]
      BY <1>1, <1>4, <1>7, <3>1
    <3> QED
      BY <3>1, <3>2
  <2> QED
    BY <1>1, <2>1, <2>2, <2>3
<1> HIDE DEF A
<1>11. \A k \in 0 .. L : k \in A
  BY <1>9, <1>10, CountingTo
<1>12. g[L + 2] = f[L]
  <2>1. L \in 0 .. L /\ L >= at
    BY <1>1
  <2> QED
    BY <1>11, <2>1 DEF A
<1> QED
  BY <1>3, <1>6, <1>12

-----------------------------------------------------------------------------
(* Splitting.                                                                *)

(* The parts before s[n] become these with it.                              *)
Onward(parts, e, c) ==
  IF e = c THEN Append(parts, <<>>) ELSE [parts EXCEPT ![Len(parts)] = Append(@, e)]

NonEmpty(E) == {p \in Seq(Seq(E)) : Len(p) > 0}

(* One character more makes at most one part more.                           *)
LEMMA OnwardType ==
  ASSUME NEW E, NEW p \in NonEmpty(E), NEW e \in E, NEW c
  PROVE  /\ Onward(p, e, c) \in NonEmpty(E)
         /\ Len(Onward(p, e, c)) = IF e = c THEN Len(p) + 1 ELSE Len(p)
<1>1. p \in Seq(Seq(E)) /\ Len(p) \in DOMAIN p /\ p[Len(p)] \in Seq(E)
  BY DEF NonEmpty
<1>2. CASE e = c
  <2>1. <<>> \in Seq(E)
    OBVIOUS
  <2> QED
    BY <1>1, <1>2, <2>1 DEF Onward, NonEmpty
<1>3. CASE e # c
  <2>1. Append(p[Len(p)], e) \in Seq(E)
    BY <1>1
  <2> QED
    BY <1>1, <1>3, <2>1 DEF Onward, NonEmpty
<1> QED
  BY <1>2, <1>3

(* The function that SplitBy follows.                                       *)
LEMMA SplitUpto ==
  ASSUME NEW E, NEW s \in Seq(E), NEW c
  PROVE  \E f \in [0 .. Len(s) -> NonEmpty(E)] :
           /\ f[0] = <<<<>>>>
           /\ \A n \in 1 .. Len(s) : f[n] = Onward(f[n - 1], s[n], c)
           /\ SplitBy(s, c) = f[Len(s)]
<1>0. PICK L \in Nat : L = Len(s)
  OBVIOUS
<1> DEFINE step == [n \in 1 .. L |-> [p \in NonEmpty(E) |-> Onward(p, s[n], c)]]
           parts == CHOOSE u : u = [n \in 0 .. L |->
             IF n = 0 THEN <<<<>>>>
             ELSE LET before == u[n - 1]
                  IN  IF s[n] = c THEN Append(before, <<>>)
                      ELSE [before EXCEPT ![Len(before)] = Append(@, s[n])]]
<1>1. \A n \in 1 .. L : s[n] \in E
  BY <1>0
<1>2. step \in Steps(L, NonEmpty(E))
  BY <1>1, OnwardType DEF Steps
<1>3. \A n \in 1 .. L, p \in NonEmpty(E) : step[n][p] = Onward(p, s[n], c)
  OBVIOUS
<1>4. SplitBy(s, c) = parts[L]
  BY <1>0 DEF SplitBy
<1> HIDE DEF step
<1>5. <<<<>>>> \in NonEmpty(E)
  <2>1. <<>> \in Seq(E)
    OBVIOUS
  <2> QED
    BY <2>1 DEF NonEmpty
<1>6. PICK f : Follows(f, L, NonEmpty(E), <<<<>>>>, step)
  BY <1>2, <1>5, Recursion
<1>7. /\ f \in [0 .. L -> NonEmpty(E)] /\ f[0] = <<<<>>>>
      /\ \A n \in 1 .. L : f[n] = step[n][f[n - 1]]
  BY <1>6 DEF Follows
<1>8. \A n \in 1 .. L : n - 1 \in 0 .. L /\ f[n] = Onward(f[n - 1], s[n], c)
  <2> TAKE n \in 1 .. L
  <2>1. n - 1 \in 0 .. L
    OBVIOUS
  <2> QED
    BY <1>3, <1>7, <2>1
<1>9. f = [n \in 0 .. L |->
             IF n = 0 THEN <<<<>>>>
             ELSE LET before == f[n - 1]
                  IN  IF s[n] = c THEN Append(before, <<>>)
                      ELSE [before EXCEPT ![Len(before)] = Append(@, s[n])]]
  <2>1. \A n \in 0 .. L : n = 0 \/ n \in 1 .. L
    OBVIOUS
  <2> QED
    BY <1>7, <1>8, <2>1 DEF Onward
<1>10. parts = [n \in 0 .. L |->
             IF n = 0 THEN <<<<>>>>
             ELSE LET before == parts[n - 1]
                  IN  IF s[n] = c THEN Append(before, <<>>)
                      ELSE [before EXCEPT ![Len(before)] = Append(@, s[n])]]
  BY <1>9
<1> HIDE DEF parts
<1>11. /\ DOMAIN parts = 0 .. L /\ parts[0] = <<<<>>>>
       /\ \A n \in 1 .. L : parts[n] = Onward(parts[n - 1], s[n], c)
  <2>1. 0 \in 0 .. L /\ \A n \in 1 .. L : n \in 0 .. L /\ n # 0
    OBVIOUS
  <2> QED
    BY <1>10, <2>1 DEF Onward
<1> DEFINE A == {n \in 0 .. L : parts[n] = f[n]}
<1>12. 0 \in A
  <2>1. 0 \in 0 .. L /\ parts[0] = f[0]
    BY <1>7, <1>11
  <2> QED
    BY <2>1
<1>13. ASSUME NEW n \in 1 .. L, n - 1 \in A PROVE n \in A
  <2>1. /\ parts[n] = Onward(parts[n - 1], s[n], c) /\ f[n] = Onward(f[n - 1], s[n], c)
        /\ parts[n - 1] = f[n - 1]
    BY <1>8, <1>11, <1>13
  <2>2. n \in 0 .. L
    OBVIOUS
  <2> QED
    BY <2>1, <2>2
<1> HIDE DEF A
<1>14. \A n \in 0 .. L : n \in A
  BY <1>12, <1>13, CountingTo
<1>15. L \in 0 .. L
  OBVIOUS
<1>16. SplitBy(s, c) = f[L]
  BY <1>4, <1>14, <1>15 DEF A
<1> QED
  BY <1>0, <1>7, <1>8, <1>16

(* A split has at least one part.                                            *)
LEMMA SplitType ==
  ASSUME NEW E, NEW s \in Seq(E), NEW c
  PROVE  SplitBy(s, c) \in NonEmpty(E)
<1>1. PICK f \in [0 .. Len(s) -> NonEmpty(E)] : SplitBy(s, c) = f[Len(s)]
  BY SplitUpto
<1>2. Len(s) \in 0 .. Len(s)
  OBVIOUS
<1> QED
  BY <1>1, <1>2

(* The split of the empty string is one empty part.                          *)
LEMMA SplitNone == \A c : SplitBy(<<>>, c) = <<<<>>>>
<1> TAKE c
<1>1. <<>> \in Seq({}) /\ Len(<<>>) = 0
  OBVIOUS
<1>2. PICK f \in [0 .. Len(<<>>) -> NonEmpty({})] :
        /\ f[0] = <<<<>>>>
        /\ \A n \in 1 .. Len(<<>>) : f[n] = Onward(f[n - 1], <<>>[n], c)
        /\ SplitBy(<<>>, c) = f[Len(<<>>)]
  BY <1>1, SplitUpto, Zenon
<1> QED
  BY <1>1, <1>2, Zenon

(* The same as a predicate of the string, for more strings than one.        *)
StepByStep(E, s, c) ==
  \E f \in [0 .. Len(s) -> NonEmpty(E)] :
    /\ f[0] = <<<<>>>>
    /\ \A n \in 1 .. Len(s) : f[n] = Onward(f[n - 1], s[n], c)
    /\ SplitBy(s, c) = f[Len(s)]

(* Every string is split step by step.                                      *)
LEMMA SplitSteps ==
  ASSUME NEW E, NEW s \in Seq(E), NEW c
  PROVE  StepByStep(E, s, c)
<1>1. \E f \in [0 .. Len(s) -> NonEmpty(E)] :
        /\ f[0] = <<<<>>>>
        /\ \A n \in 1 .. Len(s) : f[n] = Onward(f[n - 1], s[n], c)
        /\ SplitBy(s, c) = f[Len(s)]
  BY SplitUpto
<1> QED
  BY <1>1, Zenon DEF StepByStep

(* One character more.                                                      *)
LEMMA SplitAppend ==
  ASSUME NEW E, NEW s \in Seq(E), NEW e \in E, NEW c
  PROVE  SplitBy(Append(s, e), c) = Onward(SplitBy(s, c), e, c)
<1>0. PICK L \in Nat : L = Len(s)
  OBVIOUS
<1> DEFINE tu == Append(s, e)
<1>1. tu \in Seq(E)
  OBVIOUS
<1> HIDE DEF tu
<1>2. PICK t \in Seq(E) : t = Append(s, e)
  BY <1>1 DEF tu
<1>3. Len(t) = L + 1 /\ t[L + 1] = e /\ \A n \in 1 .. L : t[n] = s[n]
  BY <1>0, <1>2
<1>e. StepByStep(E, s, c) /\ StepByStep(E, t, c)
  BY SplitSteps, Zenon
<1>4. PICK f \in [0 .. Len(s) -> NonEmpty(E)] :
        /\ f[0] = <<<<>>>>
        /\ \A n \in 1 .. Len(s) : f[n] = Onward(f[n - 1], s[n], c)
        /\ SplitBy(s, c) = f[Len(s)]
  BY <1>e, Zenon DEF StepByStep
<1>a. f[0] = <<<<>>>> /\ SplitBy(s, c) = f[L]
  BY <1>0, <1>4
<1>b. \A n \in 1 .. L : f[n] = Onward(f[n - 1], s[n], c)
  BY <1>0, <1>4
<1>5. PICK g \in [0 .. Len(t) -> NonEmpty(E)] :
        /\ g[0] = <<<<>>>>
        /\ \A n \in 1 .. Len(t) : g[n] = Onward(g[n - 1], t[n], c)
        /\ SplitBy(t, c) = g[Len(t)]
  BY <1>e, Zenon DEF StepByStep
<1>c. Len(t) = L + 1
  BY <1>3
<1>d. g[0] = <<<<>>>> /\ SplitBy(t, c) = g[L + 1]
  BY <1>5, <1>c
<1>6. \A n \in 1 .. L + 1 : g[n] = Onward(g[n - 1], t[n], c)
  BY <1>5, <1>c
<1> DEFINE A == {n \in 0 .. L : g[n] = f[n]}
<1>7. 0 \in A
  BY <1>a, <1>d
<1>8. ASSUME NEW n \in 1 .. L, n - 1 \in A PROVE n \in A
  <2>1. n \in 1 .. L + 1 /\ n \in 0 .. L /\ g[n - 1] = f[n - 1]
    BY <1>8
  <2>2. g[n] = Onward(g[n - 1], t[n], c) /\ f[n] = Onward(f[n - 1], s[n], c) /\ t[n] = s[n]
    BY <1>3, <1>b, <1>6, <2>1
  <2> QED
    BY <2>1, <2>2
<1> HIDE DEF A
<1>9. \A n \in 0 .. L : n \in A
  BY <1>7, <1>8, CountingTo
<1>10. L + 1 \in 1 .. L + 1 /\ (L + 1) - 1 = L /\ L \in 0 .. L
  OBVIOUS
<1>11. g[L] = f[L]
  BY <1>9, <1>10 DEF A
<1>12. g[L + 1] = Onward(g[L], e, c)
  BY <1>3, <1>6, <1>10
<1> QED
  BY <1>2, <1>a, <1>d, <1>11, <1>12

(* There are no more parts than characters, and one.                        *)
LEMMA SplitShort ==
  ASSUME NEW E, NEW s \in Seq(E), NEW c
  PROVE  Len(SplitBy(s, c)) <= Len(s) + 1
<1> DEFINE P == {t \in Seq(E) : Len(SplitBy(t, c)) <= Len(t) + 1}
<1>1. <<>> \in P
  <2>1. SplitBy(<<>>, c) = <<<<>>>> /\ <<>> \in Seq(E) /\ Len(<<>>) = 0 /\ Len(<<<<>>>>) = 1
    BY SplitNone
  <2>2. Len(SplitBy(<<>>, c)) = 1
    BY <2>1, Zenon
  <2>3. 1 <= Len(<<>>) + 1
    BY <2>1
  <2> QED
    BY <2>1, <2>2, <2>3, Zenon
<1>2. ASSUME NEW t \in Seq(E) \cap P, NEW e \in E PROVE Append(t, e) \in P
  <2>1. SplitBy(Append(t, e), c) = Onward(SplitBy(t, c), e, c) /\ SplitBy(t, c) \in NonEmpty(E)
    BY SplitAppend, SplitType
  <2>2. /\ Append(t, e) \in Seq(E) /\ Len(Append(t, e)) = Len(t) + 1 /\ Len(t) \in Nat
        /\ Len(SplitBy(t, c)) <= Len(t) + 1
    OBVIOUS
  <2>3. /\ Len(SplitBy(t, c)) \in Nat
        /\ Len(Onward(SplitBy(t, c), e, c)) \in {Len(SplitBy(t, c)), Len(SplitBy(t, c)) + 1}
    BY <2>1, OnwardType DEF NonEmpty
  <2> QED
    BY <2>1, <2>2, <2>3
<1> HIDE DEF P
<1>3. \A t \in Seq(E) : t \in P
  BY <1>1, <1>2, Extending
<1> QED
  BY <1>3 DEF P

(* What holds no separator goes to the last part.                           *)
Longer(parts, t) == [parts EXCEPT ![Len(parts)] = @ \o t]
(* The parts with a text at the end of the last.                             *)
LEMMA LongerType ==
  ASSUME NEW E, NEW p \in NonEmpty(E), NEW t \in Seq(E)
  PROVE  /\ Longer(p, t) \in NonEmpty(E) /\ Len(Longer(p, t)) = Len(p)
         /\ \A k \in 1 .. Len(p) : Longer(p, t)[k] = IF k = Len(p) THEN p[k] \o t ELSE p[k]
<1>1. p \in Seq(Seq(E)) /\ Len(p) \in DOMAIN p /\ p[Len(p)] \in Seq(E)
  BY DEF NonEmpty
<1>2. p[Len(p)] \o t \in Seq(E)
  BY <1>1
<1> QED
  BY <1>1, <1>2 DEF Longer, NonEmpty

(* A text without the separator goes into the last part.                     *)
LEMMA SplitLonger ==
  ASSUME NEW E, NEW c, NEW s \in Seq(E), NEW t \in Seq(E), \A k \in DOMAIN t : t[k] # c
  PROVE  SplitBy(s \o t, c) = Longer(SplitBy(s, c), t)
<1> DEFINE p == SplitBy(s, c)
           Clean(u) == \A k \in DOMAIN u : u[k] # c
           P == {u \in Seq(E) : Clean(u) => SplitBy(s \o u, c) = Longer(p, u)}
<1>0. p \in Seq(Seq(E)) /\ Len(p) \in DOMAIN p /\ p[Len(p)] \in Seq(E)
  BY SplitType DEF NonEmpty
<1>1. <<>> \in P
  <2>1. s \o <<>> = s /\ <<>> \in Seq(E)
    OBVIOUS
  <2> HIDE DEF p
  <2>2. Longer(p, <<>>) = p
    BY <1>0 DEF Longer
  <2> QED
    BY <2>1, <2>2 DEF p
<1>2. ASSUME NEW u \in Seq(E) \cap P, NEW e \in E PROVE Append(u, e) \in P
  <2> SUFFICES ASSUME Clean(Append(u, e))
               PROVE  SplitBy(s \o Append(u, e), c) = Longer(p, Append(u, e))
    <3>1. Append(u, e) \in Seq(E)
      OBVIOUS
    <3> QED
      BY <3>1
  <2>1. Clean(u) /\ e # c
    <3>1. /\ \A k \in DOMAIN u : k \in DOMAIN Append(u, e) /\ Append(u, e)[k] = u[k]
          /\ Len(u) + 1 \in DOMAIN Append(u, e) /\ Append(u, e)[Len(u) + 1] = e
      OBVIOUS
    <3> QED
      BY <3>1
  <2>2. SplitBy(s \o u, c) = Longer(p, u)
    BY <2>1
  <2>3. s \o Append(u, e) = Append(s \o u, e) /\ s \o u \in Seq(E)
    BY OneAppended
  <2>4. SplitBy(s \o Append(u, e), c) = Onward(Longer(p, u), e, c)
    BY <2>2, <2>3, SplitAppend
  <2> HIDE DEF p
  <2>5. Onward(Longer(p, u), e, c) = Longer(p, Append(u, e))
    <3>1. /\ Longer(p, u) \in Seq(Seq(E)) /\ Len(Longer(p, u)) = Len(p)
          /\ Longer(p, u)[Len(p)] = p[Len(p)] \o u
      BY <1>0 DEF Longer
    <3>2. Append(p[Len(p)] \o u, e) = p[Len(p)] \o Append(u, e)
      <4> HIDE DEF P
      <4> DEFINE last == p[Len(p)]
      <4>1. last \in Seq(E) /\ u \in Seq(E)
        BY <1>0
      <4> HIDE DEF last
      <4>2. last \o Append(u, e) = Append(last \o u, e)
        BY <4>1, OneAppended
      <4> QED
        BY <4>2 DEF last
    <3> QED
      BY <1>0, <2>1, <3>1, <3>2 DEF Onward, Longer
  <2> QED
    BY <2>4, <2>5
<1> HIDE DEF P, Clean
<1>3. \A u \in Seq(E) : u \in P
  BY <1>1, <1>2, Extending
<1>4. Clean(t)
  BY DEF Clean
<1> QED
  BY <1>3, <1>4 DEF P

(* The links are those of the headings, and have their handler after        *)
(* scrollTo.js; no scroll is queued before.                                *)
Linked ==
  /\ links = IF stage = "toc" THEN 0 ELSE Len(doc.ids)
  /\ bound <=> stage \in {"contentsFix", "loaded"}
  /\ ~bound => scrolls = <<>>

(* The scroll queued last leads where the last click does; once it is done  *)
(* the window is there.                                                    *)
LastOf(c) == HeadingTop[c.link] - c.at - 5
Heads ==
  IF scrolls = <<>> THEN clicked # <<>> => top = D!Landing(clicked[1])
  ELSE clicked # <<>> /\ clicked[1].handled /\ scrolls[Len(scrolls)] = LastOf(clicked[1])

(* The handlers from initIndexTable on run for a readable query only.       *)
Readable ==
  /\ stage \in {"index", "highlightCode", "scrollTo", "contentsFix", "loaded"} => doc.query # "unreadable"
  /\ stage = "aborted" => doc.query = "unreadable"

(* Each of them has done its part once it has run, and nothing before.      *)
HandlersDone ==
  /\ stage \in {"toc", "anchor", "search", "index", "aborted"} => \A t \in Toggler : rows[t]
  /\ IF stage \in {"scrollTo", "contentsFix", "loaded"}
     THEN doc.disabled \/ (pretty = Pre /\ (printed = 1 <=> doc.plain # {}))
     ELSE pretty = Pre \ doc.plain /\ printed = 0
  /\ heading <=> (stage = "loaded" => doc.ids # <<>>)

DInv == D!TypeOK /\ Linked /\ Heads /\ Readable /\ HandlersDone

(* The bounds of the model. *)
LEMMA PageBounds ==
  /\ MaxHeadings \in Nat /\ MaxClicks \in Nat /\ LastTop \in Nat
  /\ \A k \in D!Heading : HeadingTop[k] \in Nat
BY ScriptsAssumption DEF D!PageAssumption

(* The ids of a page are a sequence.                                         *)
LEMMA IdsSeq == doc \in D!Page => doc.ids \in Seq({"word", "other"})
<1> SUFFICES ASSUME doc \in D!Page PROVE doc.ids \in Seq({"word", "other"})
  OBVIOUS
<1>1. doc.ids \in UNION {[1 .. n -> {"word", "other"}] : n \in 0 .. MaxHeadings}
  BY DEF D!Page
<1>2. PICK n \in 0 .. MaxHeadings : doc.ids \in [1 .. n -> {"word", "other"}]
  BY <1>1
<1>3. n \in Nat
  BY <1>2, PageBounds
<1> QED
  BY <1>2, <1>3

(* A page has at most MaxHeadings of them.                                   *)
LEMMA IdsLen == doc \in D!Page => Len(doc.ids) \in 0 .. MaxHeadings
<1> SUFFICES ASSUME doc \in D!Page PROVE Len(doc.ids) \in 0 .. MaxHeadings
  OBVIOUS
<1>1. doc.ids \in UNION {[1 .. n -> {"word", "other"}] : n \in 0 .. MaxHeadings}
  BY DEF D!Page
<1>2. PICK n \in 0 .. MaxHeadings : doc.ids \in [1 .. n -> {"word", "other"}]
  BY <1>1
<1>3. n \in Nat
  BY <1>2, PageBounds
<1> QED
  BY <1>2, <1>3

(* A window scrolls within the page.                                        *)
LEMMA ClipType == \A y \in Int : D!Clip(y) \in 0 .. LastTop
BY PageBounds DEF D!Clip

(* Where the window is seen is on the page.                                  *)
LEMMA SeenType == D!TypeOK => D!Seen \subseteq 0 .. LastTop
BY DEF D!TypeOK, D!Seen

(* DocPage: the page as the browser opens it.                                *)
LEMMA PageStarts == D!Init => DInv
<1> SUFFICES ASSUME D!Init PROVE DInv
  OBVIOUS
<1>1. D!TypeOK
  <2>1. icon \in [Toggler -> {"minus", "plus"}] /\ rows \in [Toggler -> BOOLEAN]
    BY DEF D!Init
  <2>5. glows \in [D!Heading -> Nat]
    BY DEF D!Init
  <2>2. /\ stage = "toc" /\ links \in 0 .. MaxHeadings /\ clicks \in 0 .. MaxClicks
        /\ scrolls \in Seq(Int)
    BY PageBounds DEF D!Init
  <2>3. /\ doc \in D!Page /\ timers \subseteq {"anchor", "words"} /\ hideLink = "absent"
        /\ bound \in BOOLEAN /\ heading \in BOOLEAN /\ clicked = <<>>
    BY DEF D!Init
  <2>6. pretty \subseteq Pre /\ printed \in 0 .. 1
    BY DEF D!Init
  <2>4. top \in 0 .. LastTop
    <3>1. 0 \in 0 .. LastTop
      BY PageBounds
    <3>2. \A k \in DOMAIN doc.ids : D!Clip(HeadingTop[k]) \in 0 .. LastTop
      <4>1. \A k \in DOMAIN doc.ids : k \in D!Heading
        BY <2>3, IdsLen, IdsSeq, PageBounds DEF D!Heading
      <4> QED
        BY <4>1, PageBounds, ClipType
    <3> QED
      BY <3>1, <3>2 DEF D!Init
  <2> QED
    BY <2>1, <2>2, <2>3, <2>4, <2>5, <2>6 DEF D!TypeOK
<1> QED
  BY <1>1 DEF D!Init, DInv, Linked, Heads, Readable, HandlersDone

(* Where the scrolls and the last click are left alone, so is what is said  *)
(* of them.                                                                *)
LEMMA HeadsStay == Heads /\ UNCHANGED <<scrolls, top, clicked>> => Heads'
BY DEF Heads, LastOf, D!Landing, D!Clip

(* The scripts before the last ready handlers leave the reader's part alone. *)
LEMMA LoadDInv == DInv /\ D!Load => DInv'
<1> SUFFICES ASSUME DInv, D!Load PROVE DInv'
  OBVIOUS
<1>1. UNCHANGED <<doc, scrolls, top, glows, clicked, clicks>>
  BY DEF D!Load, D!RunToc, D!FixFirefoxAnchorBug, D!HighlightSearchWords, D!InitIndexTable, D!HighlightCode,
         D!ScrollTo, D!ContentsFix, D!reader
<1>2. Heads'
  BY <1>1, HeadsStay DEF DInv
<1> USE DEF D!Goes, DInv, D!TypeOK, Linked, Readable, HandlersDone
<1>3. CASE D!RunToc
  <2>1. links' = Len(doc.ids) /\ Len(doc.ids) \in 0 .. MaxHeadings
    BY <1>3, IdsLen DEF D!RunToc
  <2> QED
    BY <1>1, <1>2, <1>3, <2>1 DEF D!RunToc
<1>4. CASE D!FixFirefoxAnchorBug
  BY <1>1, <1>2, <1>4 DEF D!FixFirefoxAnchorBug
<1>5. CASE D!HighlightSearchWords
  BY <1>1, <1>2, <1>5 DEF D!HighlightSearchWords
<1>6. CASE D!InitIndexTable
  BY <1>1, <1>2, <1>6 DEF D!InitIndexTable, D!Toggle
<1>7. CASE D!HighlightCode
  <2>1. doc.plain \subseteq Pre /\ (pretty = Pre <=> doc.plain = {})
    BY <1>7 DEF D!HighlightCode, D!Page
  <2> QED
    BY <1>1, <1>2, <1>7, <2>1 DEF D!HighlightCode
<1>8. CASE D!ScrollTo
  BY <1>1, <1>2, <1>8 DEF D!ScrollTo
<1>9. CASE D!ContentsFix
  <2>1. links > 0 <=> doc.ids # <<>>
    <3>1. doc.ids \in Seq({"word", "other"}) /\ links = Len(doc.ids)
      BY <1>9, IdsSeq DEF D!ContentsFix
    <3>2. Len(doc.ids) = 0 <=> doc.ids = <<>>
      BY <3>1
    <3> QED
      BY <3>1, <3>2
  <2> QED
    BY <1>1, <1>2, <1>9, <2>1 DEF D!ContentsFix
<1> QED
  BY <1>3, <1>4, <1>5, <1>6, <1>7, <1>8, <1>9 DEF D!Load

(* DocPage: a click on a link of the contents.                               *)
LEMMA ClickLinkDInv ==
  ASSUME DInv, NEW k \in D!Heading, D!ClickLink(k)
  PROVE  DInv'
<1>1. k \in 1 .. Len(doc.ids) /\ k \in DOMAIN doc.ids /\ doc.ids[k] \in {"word", "other"}
  BY IdsLen, IdsSeq, PageBounds DEF DInv, Linked, D!TypeOK, D!ClickLink, D!Heading
<1>2. UNCHANGED <<doc, D!script, icon, rows>> /\ clicks' \in 0 .. MaxClicks
  BY PageBounds DEF D!ClickLink, D!Click, DInv, D!TypeOK
<1>3. /\ scrolls \in Seq(Int) /\ top \in 0 .. LastTop /\ glows \in [D!Heading -> Nat]
      /\ clicked \in {<<>>} \cup {<<c>> : c \in D!LinkClick} /\ HeadingTop[k] \in Nat
      /\ LastTop \in Nat
  BY PageBounds DEF DInv, D!TypeOK
<1>4. Readable' /\ HandlersDone'
  BY <1>2 DEF D!script, DInv, Readable, HandlersDone
<1>5. ASSUME /\ scrolls' \in Seq(Int) /\ top' \in 0 .. LastTop /\ glows' \in [D!Heading -> Nat]
             /\ clicked' \in {<<>>} \cup {<<c>> : c \in D!LinkClick}
      PROVE  D!TypeOK'
  BY <1>2, <1>5 DEF D!script, DInv, D!TypeOK
<1>6. ASSUME bound \/ scrolls' = <<>> PROVE Linked'
  BY <1>2, <1>6 DEF D!script, DInv, Linked
<1>7. ASSUME NEW c \in D!LinkClick, clicked' = <<c>>
      PROVE  clicked' \in {<<>>} \cup {<<d>> : d \in D!LinkClick} /\ clicked'[1] = c /\ clicked' # <<>>
  BY <1>7
<1>8. CASE bound /\ doc.ids[k] = "word"
  <2> DEFINE c == [link |-> k, at |-> top', handled |-> TRUE]
             offset == HeadingTop[k] - top'
  <2>1. top' \in 0 .. LastTop
    BY <1>8, SeenType DEF D!ClickLink, DInv
  <2>2. /\ scrolls' = scrolls \o <<offset, offset - 5>> /\ clicked' = <<c>>
        /\ glows' = [glows EXCEPT ![k] = @ + 1]
    BY <1>8 DEF D!ClickLink
  <2>3. c \in D!LinkClick
    BY <2>1 DEF D!LinkClick
  <2>4. clicked'[1] = c /\ clicked' # <<>> /\ clicked' \in {<<>>} \cup {<<d>> : d \in D!LinkClick}
    BY <2>2, <2>3, <1>7
  <2>5. offset \in Int /\ offset - 5 \in Int /\ LastOf(c) = offset - 5
    BY <1>3, <2>1 DEF LastOf
  <2> HIDE DEF offset, c
  <2>6. scrolls' \in Seq(Int) /\ scrolls' # <<>> /\ scrolls'[Len(scrolls')] = offset - 5
    BY <1>3, <2>2, <2>5
  <2>7. glows' \in [D!Heading -> Nat]
    BY <1>3, <2>2
  <2>8. Heads'
    <3>1. c.handled
      BY DEF c
    <3>2. scrolls'[Len(scrolls')] = LastOf(clicked'[1]) /\ clicked'[1].handled
      BY <2>4, <2>5, <2>6, <3>1
    <3> QED
      BY <2>4, <2>6, <3>2 DEF Heads, LastOf
  <2> QED
    BY <1>4, <1>5, <1>6, <1>8, <2>1, <2>4, <2>6, <2>7, <2>8 DEF DInv
<1>9. CASE bound /\ doc.ids[k] = "other"
  <2>1. UNCHANGED <<scrolls, top, glows, clicked>>
    BY <1>9 DEF D!ClickLink
  <2>2. Heads'
    BY <2>1, HeadsStay DEF DInv
  <2> QED
    BY <1>3, <1>4, <1>5, <1>6, <1>9, <2>1, <2>2 DEF DInv
<1>10. CASE ~bound
  <2> DEFINE c == [link |-> k, at |-> top, handled |-> FALSE]
  <2>1. top' = D!Clip(HeadingTop[k]) /\ clicked' = <<c>> /\ scrolls' = scrolls /\ glows' = glows
    BY <1>1, <1>10 DEF D!ClickLink
  <2>2. c \in D!LinkClick
    BY <1>3 DEF D!LinkClick
  <2>3. clicked'[1] = c /\ clicked' # <<>> /\ clicked' \in {<<>>} \cup {<<d>> : d \in D!LinkClick}
    BY <2>1, <2>2, <1>7
  <2>4. top' \in 0 .. LastTop
    <3>1. HeadingTop[k] \in Int
      BY <1>3
    <3> QED
      BY <2>1, <3>1, ClipType
  <2>5. D!Landing(c) = D!Clip(HeadingTop[k])
    BY DEF D!Landing
  <2> HIDE DEF c
  <2>6. scrolls' = <<>>
    BY <1>10, <2>1 DEF DInv, Linked
  <2>7. Heads'
    <3>1. top' = D!Landing(clicked'[1])
      BY <2>1, <2>3, <2>5
    <3> QED
      BY <2>6, <3>1 DEF Heads, D!Landing, D!Clip
  <2> QED
    BY <1>3, <1>4, <1>5, <1>6, <2>1, <2>3, <2>4, <2>6, <2>7 DEF DInv
<1> QED
  BY <1>1, <1>8, <1>9, <1>10 DEF DInv, D!TypeOK

(* DocPage: the end of a scroll.                                             *)
LEMMA ScrolledDInv == DInv /\ D!Scrolled => DInv'
<1> SUFFICES ASSUME DInv, D!Scrolled PROVE DInv'
  OBVIOUS
<1>1. /\ scrolls \in Seq(Int) /\ scrolls # <<>>
      /\ top' = D!Clip(Head(scrolls)) /\ scrolls' = Tail(scrolls)
      /\ UNCHANGED <<doc, D!script, icon, rows, glows, clicked, clicks>>
  BY DEF DInv, D!TypeOK, D!Scrolled
<1>2. top' \in 0 .. LastTop /\ scrolls' \in Seq(Int)
  <2>1. Head(scrolls) \in Int /\ Tail(scrolls) \in Seq(Int)
    BY <1>1
  <2> QED
    BY <1>1, <2>1, ClipType
<1>3. D!TypeOK' /\ Linked' /\ Readable' /\ HandlersDone'
  BY <1>1, <1>2 DEF D!script, DInv, D!TypeOK, Linked, Readable, HandlersDone
<1>4. clicked # <<>> /\ clicked[1].handled /\ scrolls[Len(scrolls)] = LastOf(clicked[1])
  BY <1>1 DEF DInv, Heads
<1>5. Len(scrolls') = Len(scrolls) - 1 /\ Len(scrolls) \in Nat \ {0}
  BY <1>1
<1>6. CASE scrolls' = <<>>
  <2>1. Len(scrolls) = 1
    <3>1. Len(<<>>) = 0
      OBVIOUS
    <3>2. Len(scrolls') = 0
      BY <1>6, <3>1, Zenon
    <3> QED
      BY <1>5, <3>2
  <2>2. top' = D!Clip(LastOf(clicked[1]))
    BY <1>1, <1>4, <2>1
  <2>3. top' = D!Landing(clicked[1])
    BY <1>4, <2>2 DEF D!Landing, LastOf
  <2> QED
    BY <1>1, <1>3, <1>6, <2>3 DEF DInv, Heads, D!Landing, D!Clip
<1>7. CASE scrolls' # <<>>
  <2>1. scrolls'[Len(scrolls')] = scrolls[Len(scrolls)]
    <3>1. Len(scrolls') \in Nat \ {0}
      BY <1>2, <1>7
    <3>2. \A k \in 1 .. Len(scrolls') : scrolls'[k] = scrolls[k + 1]
      BY <1>1
    <3> QED
      BY <1>5, <3>1, <3>2
  <2>2. Heads'
    BY <1>1, <1>4, <1>7, <2>1 DEF Heads, LastOf
  <2> QED
    BY <1>3, <2>2 DEF DInv
<1> QED
  BY <1>6, <1>7

(* DocPage: all steps.                                                       *)
LEMMA PageStep == DInv /\ [D!Next]_(D!vars) => DInv'
<1> SUFFICES ASSUME DInv, [D!Next]_(D!vars) PROVE DInv'
  OBVIOUS
<1>1. CASE D!Load
  BY <1>1, LoadDInv
<1>2. CASE D!AnchorTimer
  BY <1>2, HeadsStay DEF D!AnchorTimer, D!reader, DInv, D!TypeOK, Linked, Readable, HandlersDone
<1>3. CASE D!WordsTimer
  BY <1>3, HeadsStay DEF D!WordsTimer, D!reader, DInv, D!TypeOK, Linked, Readable, HandlersDone
<1>4. CASE D!HideSearchWords
  BY <1>4, HeadsStay, PageBounds DEF D!HideSearchWords, D!Click, DInv, D!TypeOK, Linked, Readable, HandlersDone
<1>5. CASE D!FadedOut
  BY <1>5, HeadsStay DEF D!FadedOut, D!reader, DInv, D!TypeOK, Linked, Readable, HandlersDone
<1>6. CASE D!Scrolled
  BY <1>6, ScrolledDInv
<1>7. ASSUME NEW t \in Toggler, D!ClickToggler(t) PROVE DInv'
  <2>1. icon' \in [Toggler -> {"minus", "plus"}] /\ rows' \in [Toggler -> BOOLEAN]
    BY <1>7 DEF D!ClickToggler, D!Toggle, DInv, D!TypeOK
  <2>2. clicks' \in 0 .. MaxClicks /\ stage = "loaded"
    BY <1>7, PageBounds DEF D!ClickToggler, D!Click, DInv, D!TypeOK
  <2>3. UNCHANGED <<doc, D!script, scrolls, top, glows, clicked>>
    BY <1>7 DEF D!ClickToggler
  <2> QED
    BY <2>1, <2>2, <2>3, HeadsStay DEF D!script, DInv, D!TypeOK, Linked, Readable, HandlersDone
<1>8. ASSUME NEW k \in D!Heading, D!ClickLink(k) PROVE DInv'
  BY <1>8, ClickLinkDInv
<1>9. ASSUME NEW k \in D!Heading, D!Glowed(k) PROVE DInv'
  <2>1. glows' \in [D!Heading -> Nat]
    BY <1>9 DEF D!Glowed, DInv, D!TypeOK
  <2>2. UNCHANGED <<doc, D!script, icon, rows, scrolls, top, clicked, clicks>>
    BY <1>9 DEF D!Glowed
  <2> QED
    BY <2>1, <2>2, HeadsStay DEF D!script, DInv, D!TypeOK, Linked, Readable, HandlersDone
<1>10. CASE UNCHANGED D!vars
  BY <1>10, HeadsStay DEF D!vars, D!script, D!reader, DInv, D!TypeOK, Linked, Readable, HandlersDone
<1> QED
  BY <1>1, <1>2, <1>3, <1>4, <1>5, <1>6, <1>7, <1>8, <1>9, <1>10 DEF D!Next

(* After the end of the page, DOver, the same holds. *)
LEMMA PageOver == DOver => DInv /\ D!IconFits
<1> SUFFICES ASSUME DOver PROVE DInv /\ D!IconFits
  OBVIOUS
<1>1. doc \in D!Page
  <2>1. <<>> \in [1 .. 0 -> {"word", "other"}] /\ 0 \in 0 .. MaxHeadings
    BY PageBounds
  <2> QED
    BY <2>1 DEF DOver, D!Page
<1>2. doc.ids = <<>> /\ Len(<<>>) = 0 /\ scrolls \in Seq(Int) /\ glows \in [D!Heading -> Nat]
  BY DEF DOver, D!Heading
<1>3. icon \in [Toggler -> {"minus", "plus"}] /\ rows \in [Toggler -> BOOLEAN] /\ D!IconFits
  BY DEF DOver, D!IconFits
<1>4. links \in 0 .. MaxHeadings /\ clicks \in 0 .. MaxClicks /\ top \in 0 .. LastTop
  BY PageBounds DEF DOver
<1>5. Linked /\ Heads /\ Readable /\ HandlersDone
  BY <1>2 DEF DOver, Linked, Heads, Readable, HandlersDone
<1>6. D!TypeOK
  <2>1. stage = "loaded" /\ hideLink = "absent" /\ timers = {} /\ pretty = Pre /\ printed = 0
        /\ bound \in BOOLEAN /\ heading \in BOOLEAN /\ clicked = <<>>
    BY DEF DOver
  <2> QED
    BY <1>1, <1>2, <1>3, <1>4, <2>1 DEF D!TypeOK
<1> QED
  BY <1>3, <1>5, <1>6 DEF DInv

(* Rows and image change together, by any toggle. *)
LEMMA IconStep == D!TypeOK /\ D!IconFits /\ [D!Next]_(D!vars) => D!IconFits'
<1> SUFFICES ASSUME D!TypeOK, D!IconFits, [D!Next]_(D!vars) PROVE D!IconFits'
  OBVIOUS
<1>1. ASSUME NEW ts, D!Toggle(ts) PROVE D!IconFits'
  BY <1>1 DEF D!Toggle, D!IconFits, D!TypeOK
<1>2. CASE D!InitIndexTable
  BY <1>1, <1>2 DEF D!InitIndexTable
<1>3. ASSUME NEW t \in Toggler, D!ClickToggler(t) PROVE D!IconFits'
  BY <1>1, <1>3 DEF D!ClickToggler
<1>4. CASE UNCHANGED <<icon, rows>>
  BY <1>4 DEF D!IconFits
<1>5. CASE D!Load
  BY <1>2, <1>4, <1>5 DEF D!Load, D!RunToc, D!FixFirefoxAnchorBug, D!HighlightSearchWords, D!HighlightCode,
                          D!ScrollTo, D!ContentsFix
<1>6. ASSUME NEW k \in D!Heading, D!ClickLink(k) \/ D!Glowed(k) PROVE D!IconFits'
  BY <1>4, <1>6 DEF D!ClickLink, D!Glowed
<1>7. CASE D!AnchorTimer \/ D!WordsTimer \/ D!HideSearchWords \/ D!FadedOut \/ D!Scrolled
  BY <1>4, <1>7 DEF D!AnchorTimer, D!WordsTimer, D!HideSearchWords, D!FadedOut, D!Scrolled
<1>8. CASE UNCHANGED D!vars
  BY <1>4, <1>8 DEF D!vars
<1> QED
  BY <1>3, <1>5, <1>6, <1>7, <1>8 DEF D!Next

-----------------------------------------------------------------------------
(* The theorems.                                                             *)

(* The invariant holds throughout.                                           *)
LEMMA PageAlways == Spec => []DInv
<1>1. Init => DInv
  BY PageStarts, PageOver DEF Init
<1>2. DInv /\ [Next]_vars => DInv'
  <2>1. [Next]_vars => [D!Next]_(D!vars)
    BY DEF Next, vars, dVars, D!vars, D!script, D!reader
  <2> QED
    BY <2>1, PageStep
<1> QED
  BY <1>1, <1>2, PTL DEF Spec

(* However fast the reader clicks, before and after scrollTo.js has bound   *)
(* the links, the window comes to rest where the last click leads, which    *)
(* depends on where the window was if the handler took it.                  *)
THEOREM LastClickWinsHolds == Spec => []LastClickWins
<1>1. DInv => LastClickWins
  BY DEF DInv, Heads, LastClickWins, D!LastClickWins
<1> QED
  BY <1>1, PageAlways, PTL

(* When the ready handlers have run, each has done its part; and they have  *)
(* not, from the one on that reads the query, if and only if it cannot.     *)
THEOREM PageEnhancedHolds == Spec => []PageEnhanced
<1>1. DInv => PageEnhanced
  BY DEF DInv, Linked, Readable, HandlersDone, PageEnhanced, D!Enhanced
<1> QED
  BY <1>1, PageAlways, PTL

(* A toggler's image tells whether its rows are open, whether or not the    *)
(* index began collapsed (initIndexTable of doctools.js).                   *)
THEOREM IconFitsHolds == Spec => []IconFits
<1>1. Init => DInv /\ D!IconFits
  BY PageStarts, PageOver DEF Init, D!Init, D!IconFits
<1>2. DInv /\ D!IconFits /\ [Next]_vars => DInv' /\ D!IconFits'
  <2>1. [Next]_vars => [D!Next]_(D!vars)
    BY DEF Next, vars, dVars, D!vars, D!script, D!reader
  <2>2. DInv => D!TypeOK
    BY DEF DInv
  <2> QED
    BY <2>1, <2>2, PageStep, IconStep
<1> QED
  BY <1>1, <1>2, PTL DEF Spec, IconFits

-----------------------------------------------------------------------------
(* Translations.                                                             *)

TrInv == Tr!TypeOK /\ Tr!RuleOfLocale

(* The rule and the locale before any catalog, at the start and in TrOver.  *)
LEMMA TranslationsStart == Tr!Init \/ TrOver => TrInv
<1> SUFFICES ASSUME Tr!Init \/ TrOver PROVE TrInv
  OBVIOUS
<1>1. TRANSLATIONS \in [Text -> Tr!Known]
  BY DEF Tr!Init, TrOver, Tr!Known
<1>2. PLURAL_EXPR = <<2, Tr!Unknown>> /\ LOCALE = Tr!Unknown /\ added \in 0 .. MaxAdded
  BY ScriptsAssumption DEF Tr!Init, TrOver, Tr!TranslationAssumption
<1> QED
  BY <1>1, <1>2 DEF TrInv, Tr!TypeOK, Tr!RuleOfLocale

(* The messages of a catalog are entries of its locale.                     *)
LEMMA MessagesMerged ==
  ASSUME Tr!TypeOK, NEW c \in Tr!Catalog
  PROVE  /\ Tr!Merged(c) \in [Text -> Tr!Known]
         /\ \A t \in Text : Tr!Merged(c)[t] = TRANSLATIONS[t] \/ Tr!Merged(c)[t].from \in Locale
<1>1. c.locale \in Locale /\ c.messages \in UNION {[S -> {0} \cup Rule] : S \in SUBSET Text}
  BY DEF Tr!Catalog
<1>2. PICK S \in SUBSET Text : c.messages \in [S -> {0} \cup Rule]
  BY <1>1
<1>3. \A t \in DOMAIN c.messages : [forms |-> c.messages[t], from |-> c.locale] \in Tr!Entry
  BY <1>1, <1>2 DEF Tr!Entry
<1> QED
  BY <1>1, <1>3 DEF Tr!Merged, Tr!TypeOK, Tr!Known

(* A catalog whose rule is refused leaves rule and locale alone; any other  *)
(* sets both.                                                              *)
LEMMA TranslationsStep == TrInv /\ [Tr!Next]_(Tr!vars) => TrInv'
<1> SUFFICES ASSUME TrInv, [Tr!Next]_(Tr!vars) PROVE TrInv'
  OBVIOUS
<1>1. ASSUME NEW c \in Tr!Catalog, Tr!addTranslations(c) PROVE TrInv'
  <2>1. TRANSLATIONS' \in [Text -> Tr!Known]
    BY <1>1, MessagesMerged DEF Tr!addTranslations, TrInv
  <2>2. added' \in 0 .. MaxAdded
    BY <1>1, ScriptsAssumption DEF Tr!addTranslations, TrInv, Tr!TypeOK, Tr!TranslationAssumption
  <2>3. c.locale \in Locale /\ c.rule \in {0} \cup Rule
    BY DEF Tr!Catalog
  <2>4. /\ PLURAL_EXPR' \in (Rule \X Locale) \cup {<<2, Tr!Unknown>>}
        /\ LOCALE' \in Locale \cup {Tr!Unknown} /\ PLURAL_EXPR'[2] = LOCALE'
    BY <1>1, <2>3 DEF Tr!addTranslations, TrInv, Tr!TypeOK, Tr!RuleOfLocale
  <2> QED
    BY <2>1, <2>2, <2>4 DEF TrInv, Tr!TypeOK, Tr!RuleOfLocale
<1>2. CASE UNCHANGED Tr!vars
  BY <1>2 DEF Tr!vars, TrInv, Tr!TypeOK, Tr!RuleOfLocale
<1> QED
  BY <1>1, <1>2 DEF Tr!Next

(* A text answers with a locale exactly if it has an entry.                 *)
LEMMA StaysStep ==
  ASSUME TrInv, NEW c \in Tr!Catalog, Tr!addTranslations(c), NEW t \in Text,
         Tr!gettext(t) \in Locale
  PROVE  Tr!gettext(t)' \in Locale
<1>1. \/ TRANSLATIONS'[t] = TRANSLATIONS[t]
      \/ TRANSLATIONS'[t].from \in Locale
  BY MessagesMerged DEF Tr!addTranslations, TrInv
<1>2. CASE TRANSLATIONS'[t] = TRANSLATIONS[t]
  BY <1>2 DEF Tr!gettext
<1>3. CASE TRANSLATIONS'[t].from \in Locale
  <2>1. Tr!Nothing.from \notin Locale /\ Tr!Method.from \notin Locale
    BY ScriptsAssumption DEF Tr!TranslationAssumption, Tr!Nothing, Tr!Method
  <2>2. TRANSLATIONS'[t] # Tr!Nothing /\ TRANSLATIONS'[t] # Tr!Method
    BY <1>3, <2>1
  <2> QED
    BY <1>3, <2>2 DEF Tr!gettext
<1> QED
  BY <1>1, <1>2, <1>3

-----------------------------------------------------------------------------
(* Translations: whatever catalogs come, in any order and number and refused *)
(* half way or not, the plural rule in force is that of the locale the       *)
(* documentation names, and a text once translated stays translated.        *)
THEOREM TranslationsFitHolds == Spec => TranslationsFit
<1>1. Init => TrInv
  BY TranslationsStart DEF Init
<1>2. TrInv /\ [Next]_vars => TrInv' /\ [Tr!Next]_(Tr!vars)
  <2>1. [Next]_vars => [Tr!Next]_(Tr!vars)
    BY DEF Next, vars, trVars, Tr!vars
  <2> QED
    BY <2>1, TranslationsStep
<1>3. TrInv => Tr!TypeOK /\ Tr!RuleOfLocale
  BY DEF TrInv
<1>4. TrInv /\ [Tr!Next]_(Tr!vars) =>
        [\A t \in Text : Tr!gettext(t) \in Locale => Tr!gettext(t)' \in Locale]_(Tr!vars)
  BY StaysStep DEF Tr!Next
<1> QED
  BY <1>1, <1>2, <1>3, <1>4, PTL DEF Spec, TranslationsFit, Tr!StaysTranslated

-----------------------------------------------------------------------------
(* CurrentUrl.                                                               *)

(* In a finite set of positions there is one for each rank from the end.    *)
LEMMA Ranks ==
  ASSUME NEW N \in Nat, NEW S \in SUBSET (1 .. N), NEW u \in 1 .. Cardinality(S)
  PROVE  \E k \in S : Cardinality({j \in S : j >= k}) = u
<1> DEFINE Behind(k) == {j \in S : j > k}
           A == {k \in 0 .. N : Cardinality(Behind(k)) >= u}
<1>1. IsFiniteSet(S) /\ \A k : IsFiniteSet(Behind(k)) /\ Cardinality(Behind(k)) \in Nat
  <2>1. IsFiniteSet(1 .. N)
    BY FS_Interval
  <2>2. IsFiniteSet(S)
    BY <2>1, FS_Subset
  <2>3. \A k : Behind(k) \subseteq S
    OBVIOUS
  <2> HIDE DEF Behind
  <2> QED
    BY <2>2, <2>3, FS_Subset, FS_CardinalityType
<1>2. Behind(0) = S /\ Behind(N) = {} /\ Cardinality({}) = 0
  <2>1. \A j \in S : j > 0 /\ ~(j > N)
    OBVIOUS
  <2> QED
    BY <2>1, FS_EmptySet
<1>3. u \in Nat \ {0} /\ u <= Cardinality(S)
  BY <1>1, FS_CardinalityType
<1>4. A \in SUBSET (0 .. N) /\ 0 \in A /\ N \notin A
  BY <1>2, <1>3
<1>5. PICK k \in A : \A j \in A : j <= k
  <2> HIDE DEF A
  <2> QED
    BY <1>4, Greatest
<1>6. k \in 0 .. N /\ k + 1 \in 1 .. N /\ k + 1 \notin A
  BY <1>4, <1>5
<1>7. Cardinality(Behind(k)) >= u /\ Cardinality(Behind(k + 1)) < u
  <2>1. k + 1 \in 0 .. N
    BY <1>6
  <2> QED
    BY <1>1, <1>3, <1>5, <1>6, <2>1
<1>8. {j \in S : j >= k + 1} = Behind(k)
  <2>1. \A j \in S : j >= k + 1 <=> j > k
    BY <1>6
  <2> QED
    BY <2>1
<1>9. k + 1 \in S
  <2>1. k + 1 \notin S => Behind(k) = Behind(k + 1)
    <3>1. k + 1 \notin S => \A j \in S : j > k <=> j > k + 1
      BY <1>6
    <3> QED
      BY <3>1
  <2> HIDE DEF Behind
  <2> QED
    BY <1>1, <1>3, <1>7, <2>1
<1>10. Behind(k) = Behind(k + 1) \cup {k + 1} /\ k + 1 \notin Behind(k + 1)
  <2>1. \A j \in S : j > k <=> j > k + 1 \/ j = k + 1
    BY <1>6
  <2>2. ~(k + 1 > k + 1)
    BY <1>6
  <2> QED
    BY <1>9, <2>1, <2>2
<1> HIDE DEF Behind
<1>11. Cardinality(Behind(k)) = Cardinality(Behind(k + 1)) + 1
  BY <1>1, <1>10, FS_AddElement
<1>12. Cardinality(Behind(k)) = u
  BY <1>1, <1>3, <1>7, <1>11
<1> QED
  BY <1>8, <1>9, <1>12

(* An instance has a Cardinality of its own, which is the same.             *)
LEMMA UCardinality == \A S : U!Cardinality(S) = Cardinality(S)
BY DEF U!Cardinality, Cardinality

Address == Seq(Char \cup {"/"})

(* The slashes of an address can be counted.                                 *)
LEMMA SlashesFinite ==
  ASSUME NEW s \in Address
  PROVE  U!Slashes(s) \in SUBSET (1 .. Len(s)) /\ IsFiniteSet(U!Slashes(s)) /\ Len(s) \in Nat
<1>1. U!Slashes(s) \in SUBSET (1 .. Len(s)) /\ Len(s) \in Nat
  BY DEF U!Slashes, Address
<1>2. IsFiniteSet(1 .. Len(s))
  BY <1>1, FS_Interval
<1> QED
  BY <1>1, <1>2, FS_Subset

(* No two slashes have the same rank.                                        *)
LEMMA RankOnce ==
  ASSUME NEW s \in Address, NEW k \in U!Slashes(s), NEW j \in U!Slashes(s),
         U!Above(s, k) = U!Above(s, j)
  PROVE  k = j
<1> DEFINE S == U!Slashes(s)
           From(x) == {y \in S : y >= x}
<1>1. S \in SUBSET (1 .. Len(s)) /\ IsFiniteSet(S) /\ Len(s) \in Nat
  BY SlashesFinite
<1>2. \A x : IsFiniteSet(From(x)) /\ Cardinality(From(x)) = U!Above(s, x)
  BY <1>1, FS_Subset, UCardinality DEF U!Above
<1>3. ASSUME NEW x \in S, NEW y \in S, x < y PROVE U!Above(s, x) # U!Above(s, y)
  <2>1. From(y) \subseteq From(x) /\ x \in From(x) /\ x \notin From(y)
    BY <1>1, <1>3
  <2> HIDE DEF From, S
  <2>2. Cardinality(From(y)) # Cardinality(From(x))
    BY <1>2, <2>1, FS_Subset
  <2> QED
    BY <1>2, <2>2
<1>4. k \in Nat /\ j \in Nat /\ k \in S /\ j \in S
  BY <1>1
<1> HIDE DEF S
<1>5. ~(k < j) /\ ~(j < k)
  BY <1>3, <1>4
<1> QED
  BY <1>4, <1>5

(* Where there are enough slashes, one has the rank.                         *)
LEMMA RankThere ==
  ASSUME NEW s \in Address, NEW r \in 1 .. Cardinality(U!Slashes(s))
  PROVE  \E k \in U!Slashes(s) : U!Above(s, k) = r
<1> DEFINE S == U!Slashes(s)
<1>1. S \in SUBSET (1 .. Len(s)) /\ IsFiniteSet(S) /\ Len(s) \in Nat
  BY SlashesFinite
<1>2. \A k : U!Above(s, k) = Cardinality({j \in S : j >= k})
  BY UCardinality DEF U!Above
<1> HIDE DEF S
<1>3. \E k \in S : Cardinality({j \in S : j >= k}) = r
  BY <1>1, Ranks DEF S
<1>4. \E k \in S : U!Above(s, k) = r
  BY <1>2, <1>3, Zenon
<1> QED
  BY <1>4 DEF S

(* The last slash is the one of rank 1.                                      *)
LEMMA LastSlashIs ==
  ASSUME NEW s \in Address, NEW k \in U!Slashes(s), U!Above(s, k) = 1
  PROVE  U!LastSlash(s) = k
<1>1. U!Slashes(s) \in SUBSET (1 .. Len(s)) /\ Len(s) \in Nat
  BY SlashesFinite
<1>2. k \in 0 .. Len(s) /\ U!Slashes(s) # {}
  BY <1>1
<1>3. U!LastSlash(s) \in U!Slashes(s) /\ U!Above(s, U!LastSlash(s)) = 1
  BY <1>2 DEF U!LastSlash
<1> QED
  BY <1>3, RankOnce

(* What the pops leave ends before a slash, of the rank of their number.    *)
LEMMA PoppedIs ==
  ASSUME path \in Address, NEW k \in U!Slashes(path), up # 0, U!Above(path, k) = up,
         up <= Cardinality(U!Slashes(path)), up \in Nat
  PROVE  U!Popped = SubSeq(path, 1, k - 1)
<1> DEFINE Good(n) == IF U!Cardinality(U!Slashes(path)) < up THEN n = 0
                      ELSE n + 1 \in U!Slashes(path) /\ U!Above(path, n + 1) = up
           n == CHOOSE m \in 0 .. Len(path) : Good(m)
<1>1. U!Slashes(path) \in SUBSET (1 .. Len(path)) /\ Len(path) \in Nat
      /\ Cardinality(U!Slashes(path)) \in Nat
  BY SlashesFinite, FS_CardinalityType
<1>2. ~(U!Cardinality(U!Slashes(path)) < up)
  BY <1>1, UCardinality
<1>3. U!Popped = SubSeq(path, 1, n)
  BY DEF U!Popped
<1>4. k - 1 \in 0 .. Len(path) /\ (k - 1) + 1 = k
  BY <1>1
<1>5. Good(k - 1)
  BY <1>2, <1>4
<1>6. n \in 0 .. Len(path) /\ Good(n)
  <2> HIDE DEF Good
  <2> QED
    BY <1>4, <1>5
<1>7. n + 1 \in U!Slashes(path) /\ U!Above(path, n + 1) = up
  BY <1>2, <1>6
<1> HIDE DEF n
<1>8. n + 1 = k
  BY <1>7, RankOnce
<1>9. n = k - 1
  BY <1>4, <1>6, <1>8
<1> QED
  BY <1>3, <1>9

(* The root is the path up to the slash of the next rank.                   *)
LEMMA RootIs ==
  ASSUME path \in Address, NEW q \in U!Slashes(path), up < Cardinality(U!Slashes(path)),
         U!Above(path, q) = up + 1
  PROVE  U!Root = SubSeq(path, 1, q)
<1> DEFINE Good(n) == IF up < U!Cardinality(U!Slashes(path))
                      THEN n \in U!Slashes(path) /\ U!Above(path, n) = up + 1
                      ELSE n = 1
           n == CHOOSE m \in 1 .. Len(path) : Good(m)
<1>1. U!Slashes(path) \in SUBSET (1 .. Len(path))
  BY SlashesFinite
<1>2. U!Root = SubSeq(path, 1, n)
  BY DEF U!Root
<1>3. q \in 1 .. Len(path) /\ Good(q)
  BY <1>1, UCardinality
<1>4. Good(n)
  <2> HIDE DEF Good
  <2> QED
    BY <1>3
<1>5. n \in U!Slashes(path) /\ U!Above(path, n) = up + 1
  BY <1>4, UCardinality
<1> HIDE DEF n
<1> QED
  BY <1>2, <1>5, RankOnce

(* What is left after the pops ends in the last directory of the root.      *)
LEMMA PoppedLastSlash ==
  ASSUME path \in Address, up \in Nat, up < Cardinality(U!Slashes(path))
  PROVE  \E q \in U!Slashes(path) : /\ U!Above(path, q) = up + 1 /\ U!LastSlash(U!Popped) = q
                                    /\ up # 0 => q < Len(path)
<1> DEFINE S == U!Slashes(path)
<1>1. /\ S \in SUBSET (1 .. Len(path)) /\ IsFiniteSet(S) /\ Len(path) \in Nat
      /\ Cardinality(S) \in Nat
  BY SlashesFinite, FS_CardinalityType
<1>2. PICK q \in S : U!Above(path, q) = up + 1
  <2>1. up + 1 \in 1 .. Cardinality(S)
    BY <1>1
  <2> QED
    BY <2>1, RankThere
<1>3. CASE up = 0
  <2>1. U!Popped = path
    BY <1>3 DEF U!Popped
  <2> QED
    BY <1>2, <1>3, <2>1, LastSlashIs
<1>4. CASE up # 0
  <2>1. PICK k \in S : U!Above(path, k) = up
    <3>1. up \in 1 .. Cardinality(S)
      BY <1>1, <1>4
    <3> QED
      BY <3>1, RankThere
  <2>2. U!Popped = SubSeq(path, 1, k - 1)
    BY <1>1, <1>4, <2>1, PoppedIs
  <2> DEFINE p == SubSeq(path, 1, k - 1)
             Behind == {j \in S : j >= k}
             Between == {j \in S : q <= j /\ j < k}
  <2>3. k \in 1 .. Len(path) /\ q \in 1 .. Len(path)
    BY <1>1, <1>2, <2>1
  <2>4. p \in Address /\ Len(p) = k - 1 /\ \A j \in 1 .. k - 1 : p[j] = path[j]
    BY <2>3 DEF Address
  <2>5. U!Slashes(p) = {j \in S : j < k}
    <3>1. \A j : j \in 1 .. k - 1 <=> j \in 1 .. Len(path) /\ j < k
      BY <2>3
    <3> QED
      BY <2>4, <3>1 DEF U!Slashes
  <2>6. IsFiniteSet(Behind) /\ Cardinality(Behind) = up
    BY <1>1, <2>1, FS_Subset, UCardinality DEF U!Above
  <2>7. IsFiniteSet({j \in S : j >= q}) /\ Cardinality({j \in S : j >= q}) = up + 1
    BY <1>1, <1>2, FS_Subset, UCardinality DEF U!Above
  <2>8. q < k
    <3>1. k <= q => {j \in S : j >= q} \subseteq Behind
      BY <1>1, <2>3
    <3> HIDE DEF Behind, S
    <3>2. k <= q => Cardinality({j \in S : j >= q}) <= Cardinality(Behind)
      BY <2>6, <3>1, FS_Subset
    <3> QED
      BY <2>3, <2>6, <2>7, <3>2
  <2>9. {j \in S : j >= q} = Behind \cup Between /\ Behind \cap Between = {}
    <3>1. \A j \in S : /\ j >= q <=> j >= k \/ (q <= j /\ j < k)
                       /\ ~(j >= k /\ j < k)
      BY <1>1, <2>3, <2>8
    <3> QED
      BY <3>1
  <2>10. Cardinality(Between) = 1
    <3>1. IsFiniteSet(Between)
      BY <1>1, FS_Subset
    <3> HIDE DEF Behind, Between, S
    <3>2. Cardinality(Behind \cup Between) = Cardinality(Behind) + Cardinality(Between)
      <4>1. Cardinality(Behind \cap Between) = 0
        BY <2>9, FS_EmptySet
      <4>2. Cardinality(Behind \cup Between)
              = Cardinality(Behind) + Cardinality(Between) - Cardinality(Behind \cap Between)
        BY <2>6, <3>1, FS_Union
      <4>3. Cardinality(Behind) \in Nat /\ Cardinality(Between) \in Nat
        BY <2>6, <3>1, FS_CardinalityType
      <4> QED
        BY <4>1, <4>2, <4>3
    <3>3. Cardinality(Between) \in Nat
      BY <3>1, FS_CardinalityType
    <3> QED
      BY <2>6, <2>7, <2>9, <3>2, <3>3
  <2>11. q \in U!Slashes(p) /\ U!Above(p, q) = 1
    <3>1. {j \in U!Slashes(p) : j >= q} = Between
      <4>1. \A j \in S : j >= q <=> q <= j
        BY <1>1, <2>3
      <4> QED
        BY <2>5, <4>1
    <3>2. U!Above(p, q) = Cardinality(Between)
      BY <3>1, UCardinality DEF U!Above
    <3> QED
      BY <2>5, <2>8, <2>10, <3>2
  <2>12. U!LastSlash(p) = q
    <3> HIDE DEF p
    <3> QED
      BY <2>4, <2>11, LastSlashIs
  <2>13. q < Len(path)
    BY <2>3, <2>8
  <2> QED
    BY <1>2, <2>2, <2>12, <2>13
<1> QED
  BY <1>3, <1>4

(* With as many pops as there are slashes, or more, nothing is left.        *)
LEMMA NothingLeft ==
  ASSUME path \in Address, path # <<>>, path[1] = "/", up \in Nat,
         up >= Cardinality(U!Slashes(path))
  PROVE  U!LastSlash(U!Popped) = 0
<1> DEFINE S == U!Slashes(path)
<1>1. /\ S \in SUBSET (1 .. Len(path)) /\ IsFiniteSet(S) /\ Len(path) \in Nat
      /\ Cardinality(S) \in Nat
  BY SlashesFinite, FS_CardinalityType
<1>2. 1 \in S
  BY DEF U!Slashes, Address
<1>3. Cardinality(S) # 0 /\ up # 0
  <2>1. Cardinality(S) # 0
    BY <1>1, <1>2, FS_EmptySet
  <2> QED
    BY <1>1, <2>1
<1>4. U!Popped = SubSeq(path, 1, 0)
  <2>1. CASE Cardinality(S) < up
    <3> DEFINE n == CHOOSE m \in 0 .. Len(path) : m = 0
    <3>1. n = 0
      BY <1>1
    <3>2. U!Popped = SubSeq(path, 1, n)
      BY <1>3, <2>1, UCardinality DEF U!Popped
    <3> QED
      BY <3>1, <3>2
  <2>2. CASE Cardinality(S) = up
    <3>1. {j \in S : j >= 1} = S
      BY <1>1
    <3>2. U!Above(path, 1) = up
      BY <2>2, <3>1, UCardinality DEF U!Above
    <3>3. U!Popped = SubSeq(path, 1, 1 - 1)
      BY <1>2, <1>3, <2>2, <3>2, PoppedIs
    <3>4. 1 - 1 = 0
      OBVIOUS
    <3> QED
      BY <3>3, <3>4, Zenon
  <2> QED
    BY <1>1, <2>1, <2>2
<1>5. SubSeq(path, 1, 0) = <<>>
  BY DEF Address
<1>6. U!Slashes(<<>>) = {} /\ Len(<<>>) = 0
  BY DEF U!Slashes
<1>7. U!LastSlash(<<>>) = 0
  BY <1>6 DEF U!LastSlash
<1> QED
  BY <1>4, <1>5, <1>7, Zenon

UInv ==
  /\ path \in Address /\ path # <<>> /\ path[1] = "/" /\ up \in Nat
  /\ \/ url = <<>>
     \/ url = <<U!Substring(path, U!LastSlash(U!Popped), Len(path) - 1)>>

(* The part between the slash and the last character, put behind what is    *)
(* before it.                                                              *)
LEMMA Rejoined ==
  ASSUME NEW s \in Address, NEW m \in 0 .. Len(s) - 1
  PROVE  /\ U!Substring(s, m, Len(s) - 1) = SubSeq(s, m + 1, Len(s) - 1)
         /\ (SubSeq(s, 1, m) \o SubSeq(s, m + 1, Len(s) - 1)) \o <<s[Len(s)]>> = s
<1>1. PICK L \in Nat : L = Len(s)
  BY DEF Address
<1>2. m \in Nat /\ L - 1 \in Nat /\ m <= L - 1 /\ s \in Seq(Char \cup {"/"})
  BY <1>1 DEF Address
<1>3. U!Substring(s, m, L - 1) = SubSeq(s, m + 1, L - 1)
  <2>1. ~(m < 0) /\ 0 <= m /\ m <= L - 1
    BY <1>2
  <2> QED
    BY <2>1 DEF U!Substring
<1>4. (SubSeq(s, 1, m) \o SubSeq(s, m + 1, L - 1)) \o <<s[L]>> = s
  <2> DEFINE Signs == Char \cup {"/"}
             a == SubSeq(s, 1, m)
             b == SubSeq(s, m + 1, L - 1)
             t == (a \o b) \o <<s[L]>>
  <2>1. /\ a \in Seq(Signs) /\ Len(a) = m /\ \A k \in 1 .. m : a[k] = s[k]
        /\ b \in Seq(Signs) /\ Len(b) = L - 1 - m
        /\ \A k \in 1 .. L - 1 - m : b[k] = s[k + m]
    BY <1>1, <1>2
  <2>2. <<s[L]>> \in Seq(Signs) /\ Len(<<s[L]>>) = 1 /\ <<s[L]>>[1] = s[L]
    BY <1>1, <1>2
  <2> HIDE DEF a, b, Signs
  <2>3. t \in Seq(Signs) /\ Len(t) = L
    <3>1. a \o b \in Seq(Signs) /\ Len(a \o b) = L - 1
      BY <1>2, <2>1, SMTT(30)
    <3>2. s[L] \in Signs
      BY <1>1, <1>2 DEF Signs
    <3> DEFINE d == a \o b
    <3> HIDE DEF d
    <3>3. d \in Seq(Signs) /\ Len(d) = L - 1
      BY <3>1 DEF d
    <3>4. /\ Append(d, s[L]) \in Seq(Signs) /\ Append(d, s[L]) = d \o <<s[L]>>
          /\ Len(Append(d, s[L])) = Len(d) + 1
      BY <3>2, <3>3, AppendIs
    <3> QED
      BY <1>1, <3>3, <3>4 DEF d
  <2>4. ASSUME NEW k \in 1 .. L PROVE t[k] = s[k]
    <3>1. CASE k <= m
      BY <1>1, <1>2, <2>1, <2>2, <3>1
    <3>2. CASE k > m /\ k < L
      <4>1. k - m \in 1 .. L - 1 - m /\ (k - m) + m = k
        BY <1>2, <3>2
      <4> QED
        BY <1>1, <1>2, <2>1, <2>2, <3>2, <4>1
    <3>3. CASE k = L
      BY <1>1, <1>2, <2>1, <2>2, <3>3
    <3>4. k <= m \/ (k > m /\ k < L) \/ k = L
      BY <1>2
    <3> QED
      BY <3>1, <3>2, <3>3, <3>4
  <2>5. s \in Seq(Signs)
    BY <1>2 DEF Signs
  <2> HIDE DEF t
  <2>6. t = s
    BY <1>1, <2>3, <2>4, <2>5, SameElements
  <2> QED
    BY <2>6 DEF t, a, b
<1> QED
  BY <1>1, <1>3, <1>4

(* CurrentUrl: what the answer is, for any number of pops.                   *)
LEMMA UrlHolds == UInv => U!UrlBelowRoot
<1> SUFFICES ASSUME UInv, url # <<>> PROVE U!UrlBelowRoot
  BY DEF U!UrlBelowRoot
<1> DEFINE L == Len(path)
           m == U!LastSlash(U!Popped)
           last == <<path[L]>>
           N == Cardinality(U!Slashes(path))
<1>1. path \in Address /\ path # <<>> /\ path[1] = "/" /\ up \in Nat /\ L \in Nat \ {0}
      /\ url[1] = U!Substring(path, m, L - 1)
  BY DEF UInv, Address
<1>2. N \in Nat
  BY <1>1, SlashesFinite, FS_CardinalityType
<1> HIDE DEF m, N
<1>3. CASE up >= N
  <2>1. m = 0
    BY <1>1, <1>3, NothingLeft DEF m, N
  <2>2. 0 \in 0 .. L - 1
    BY <1>1
  <2> DEFINE rest == SubSeq(path, 0 + 1, L - 1)
  <2>3. U!Substring(path, 0, L - 1) = rest /\ (SubSeq(path, 1, 0) \o rest) \o last = path
    BY <1>1, <2>2, Rejoined
  <2>4. path = url[1] \o last
    <3>1. SubSeq(path, 1, 0) = <<>> /\ rest \in Address
      BY <1>1 DEF Address
    <3> HIDE DEF rest
    <3>2. <<>> \o rest = rest
      BY <3>1 DEF Address
    <3>3. url[1] = rest
      BY <1>1, <2>1, <2>3
    <3>4. (<<>> \o rest) \o last = path
      BY <2>3, <3>1, Zenon
    <3> QED
      BY <3>2, <3>3, <3>4, Zenon
  <2>5. up = 0 => N = 0
    BY <1>1, <1>2, <1>3
  <2>6. up # 0
    <3>1. 1 \in U!Slashes(path) /\ IsFiniteSet(U!Slashes(path))
      BY <1>1, SlashesFinite DEF U!Slashes
    <3>2. N # 0
      BY <3>1, FS_EmptySet DEF N
    <3> QED
      BY <2>5, <3>2
  <2> QED
    BY <1>3, <2>4, <2>6, UCardinality DEF U!UrlBelowRoot, N
<1>4. CASE up < N
  <2>1. PICK q \in U!Slashes(path) : U!Above(path, q) = up + 1 /\ m = q /\ (up # 0 => q < L)
    BY <1>1, <1>4, PoppedLastSlash DEF m, N
  <2>2. q \in 1 .. L /\ path[q] = "/"
    BY DEF U!Slashes
  <2>3. U!Root = SubSeq(path, 1, q)
    BY <1>1, <1>4, <2>1, RootIs DEF N
  <2>4. CASE up = 0 /\ last = <<"/">>
    <3>1. path[L] = "/"
      BY <2>4
    <3>2. L \in U!Slashes(path) /\ U!Above(path, L) = 1
      <4>1. L \in U!Slashes(path)
        BY <1>1, <3>1 DEF U!Slashes
      <4>2. {j \in U!Slashes(path) : j >= L} = {L}
        BY <1>1, <4>1 DEF U!Slashes
      <4>3. Cardinality({L}) = 1
        BY FS_Singleton
      <4> QED
        BY <4>1, <4>2, <4>3, UCardinality DEF U!Above
    <3>3. q = L
      BY <1>1, <2>1, <2>4, <3>2, RankOnce
    <3>4. url[1] = SubSeq(path, L, L)
      <4>1. ~(L < 0) /\ ~(L <= L - 1) /\ L > L - 1 /\ (L - 1) + 1 = L
        BY <1>1
      <4> QED
        BY <1>1, <2>1, <3>3, <4>1 DEF U!Substring
    <3>5. SubSeq(path, L, L) = last
      <4> DEFINE t == SubSeq(path, L, L)
      <4>1. t \in Address /\ Len(t) = 1 /\ t[1] = path[L]
        BY <1>1 DEF Address
      <4>2. last \in Address /\ Len(last) = 1 /\ last[1] = path[L]
        BY <1>1 DEF Address
      <4> HIDE DEF t, last
      <4>3. \A k \in 1 .. Len(t) : t[k] = last[k]
        BY <4>1, <4>2
      <4> QED
        BY <4>1, <4>2, <4>3, SameElements DEF t, Address
    <3> QED
      BY <2>4, <3>4, <3>5 DEF U!UrlBelowRoot
  <2>5. CASE ~(up = 0 /\ last = <<"/">>)
    <3>1. q \in 0 .. L - 1
      <4>1. up = 0 => q # L
        BY <2>2, <2>5
      <4> QED
        BY <1>1, <2>1, <2>2, <4>1
    <3>2. url[1] = SubSeq(path, q + 1, L - 1) /\ (U!Root \o url[1]) \o last = path
      <4>1. /\ U!Substring(path, q, L - 1) = SubSeq(path, q + 1, L - 1)
            /\ (SubSeq(path, 1, q) \o SubSeq(path, q + 1, L - 1)) \o last = path
        BY <1>1, <3>1, Rejoined
      <4>2. url[1] = SubSeq(path, q + 1, L - 1)
        BY <1>1, <2>1, <4>1
      <4> QED
        BY <2>3, <4>1, <4>2
    <3>3. ASSUME up > 0, url[1] # <<>>, url[1][1] # "/" PROVE U!makeURL(url[1]) # path
      <4>1. U!makeURL(url[1]) = (U!Root \o <<"/">>) \o url[1]
        BY <1>1, <3>3 DEF U!makeURL
      <4>2. ((U!Root \o <<"/">>) \o url[1])[q + 1] = "/"
        BY <1>1, <2>2, <2>3, <3>1, <3>2 DEF Address
      <4>3. path[q + 1] = url[1][1]
        BY <1>1, <3>1, <3>2, <3>3 DEF Address
      <4> QED
        BY <3>3, <4>1, <4>2, <4>3
    <3>4. ~(up >= U!Cardinality(U!Slashes(path)))
      BY <1>1, <1>2, <1>4, UCardinality DEF N
    <3>5. path = U!Root \o url[1] \o last
      BY <3>2
    <3> QED
      BY <2>5, <3>3, <3>4, <3>5 DEF U!UrlBelowRoot
  <2> QED
    BY <2>4, <2>5
<1> QED
  BY <1>1, <1>2, <1>3, <1>4

(* CurrentUrl: the states in which it begins or has ended.                   *)
LEMMA UrlStart == U!Init \/ UOver => UInv
<1>1. U!Init => UInv
  <2> SUFFICES ASSUME U!Init PROVE UInv
    OBVIOUS
  <2>1. PICK s \in UNION {[1 .. n -> Char \cup {"/"}] : n \in 0 .. MaxPath - 1} : path = <<"/">> \o s
    BY DEF U!Init
  <2>2. PICK n \in 0 .. MaxPath - 1 : s \in [1 .. n -> Char \cup {"/"}]
    BY <2>1
  <2>3. s \in Address /\ <<"/">> \in Address
    BY <2>2, ScriptsAssumption DEF Address, U!UrlAssumption
  <2>4. path \in Address /\ path # <<>> /\ path[1] = "/"
    BY <2>1, <2>3 DEF Address
  <2> QED
    BY <2>4, ScriptsAssumption DEF UInv, U!Init, U!UrlAssumption
<1>2. UOver => UInv
  <2> SUFFICES ASSUME UOver PROVE UInv
    OBVIOUS
  <2>1. path = <<"/">> /\ path \in Address /\ path # <<>> /\ path[1] = "/" /\ Len(path) = 1 /\ up = 0
    BY DEF UOver, Address
  <2>2. U!Slashes(path) = {1} /\ U!Popped = path
    BY <2>1 DEF U!Slashes, U!Popped
  <2>3. U!Above(path, 1) = 1
    <3>1. {j \in {1} : j >= 1} = {1} /\ Cardinality({1}) = 1
      BY FS_Singleton
    <3> QED
      BY <2>2, <3>1, UCardinality DEF U!Above
  <2>4. U!LastSlash(U!Popped) = 1
    BY <2>1, <2>2, <2>3, LastSlashIs
  <2>5. U!Substring(path, 1, 0) = SubSeq(path, 1, 1)
    BY DEF U!Substring
  <2>6. SubSeq(path, 1, 1) = <<"/">>
    <3>1. SubSeq(path, 1, 1) \in Address /\ Len(SubSeq(path, 1, 1)) = 1 /\ SubSeq(path, 1, 1)[1] = "/"
      BY <2>1 DEF Address
    <3>2. \A k \in 1 .. Len(SubSeq(path, 1, 1)) : SubSeq(path, 1, 1)[k] = path[k]
      BY <2>1, <3>1
    <3>3. SubSeq(path, 1, 1) = path
      BY <2>1, <3>1, <3>2, SameElements DEF Address
    <3> QED
      BY <2>1, <3>3
  <2>7. url = <<U!Substring(path, U!LastSlash(U!Popped), Len(path) - 1)>>
    BY <2>1, <2>4, <2>5, <2>6 DEF UOver
  <2> QED
    BY <2>1, <2>7 DEF UInv
<1> QED
  BY <1>1, <1>2

(* CurrentUrl: its steps.                                                    *)
LEMMA UrlStep == UInv /\ [U!Next]_(U!vars) => UInv'
<1>1. ASSUME UInv, U!getCurrentURL PROVE UInv'
  BY <1>1 DEF UInv, U!getCurrentURL, U!Popped, Address
<1>2. ASSUME UInv, UNCHANGED U!vars PROVE UInv'
  BY <1>2 DEF UInv, U!vars, U!Popped, Address
<1> QED
  BY <1>1, <1>2 DEF U!Next

-----------------------------------------------------------------------------
(* QueryParameters.                                                          *)

(* The operators of the instance are those of the modules it extends.       *)
LEMMA QOperators ==
  /\ \A S : Q!Cardinality(S) = Cardinality(S)
  /\ \A ss : Q!Joined(ss) = Joined(ss)
  /\ \A s, c : Q!SplitBy(s, c) = SplitBy(s, c)
<1>1. \A S : Q!Cardinality(S) = Cardinality(S)
  BY DEF Q!Cardinality, Cardinality, Q!IsFiniteSet, IsFiniteSet
<1>2. \A ss : Q!Joined(ss) = Joined(ss)
  BY DEF Q!Joined, Joined
<1>3. \A s, c : Q!SplitBy(s, c) = SplitBy(s, c)
  BY DEF Q!SplitBy, SplitBy
<1> QED
  BY <1>1, <1>2, <1>3

(* The characters of a query, and those of what is encoded.                 *)
QChar == Raw \cup Plain \cup Q!Escapes \cup {"&", "="}
Clear(s, c) == \A k \in DOMAIN s : s[k] # c

(* What urlencode writes holds no separator.                                 *)
LEMMA EncodeType ==
  ASSUME NEW s \in Seq(Plain)
  PROVE  Q!UrlEncode(s) \in Seq(QChar) /\ Clear(Q!UrlEncode(s), "&") /\ Clear(Q!UrlEncode(s), "=")
<1>1. \A c \in Plain : Q!Escape(c) \in QChar /\ Q!Escape(c) # "&" /\ Q!Escape(c) # "="
  BY DEF Q!Escape, QChar, Q!Escapes
<1>2. Q!UrlEncode(s) = [k \in 1 .. Len(s) |-> Q!Escape(s[k])] /\ \A k \in 1 .. Len(s) : s[k] \in Plain
  BY DEF Q!UrlEncode
<1> DEFINE e == [k \in 1 .. Len(s) |-> Q!Escape(s[k])]
<1>3. e \in [1 .. Len(s) -> QChar] /\ \A k \in 1 .. Len(s) : e[k] # "&" /\ e[k] # "="
  BY <1>1, <1>2
<1>4. e \in Seq(QChar) /\ DOMAIN e = 1 .. Len(s)
  BY <1>3
<1> QED
  BY <1>2, <1>3, <1>4 DEF Clear

(* Decoding gives strings, and undoes encoding where there is no "+".       *)
LEMMA DecodeType ==
  ASSUME NEW s \in Seq(QChar)
  PROVE  Q!UrlDecode(s) \in Q!String
<1>1. \A c \in QChar : Q!Space(Q!Unescape(c)) \in Raw \cup Plain \cup {"&", "=", "%", " ", "undefined"}
  BY DEF Q!Space, Q!Unescape, QChar, Q!Escapes
<1>2. Q!UrlDecode(s) = [k \in 1 .. Len(s) |-> Q!Space(Q!Unescape(s[k]))] /\ \A k \in 1 .. Len(s) : s[k] \in QChar
  BY DEF Q!UrlDecode
<1> DEFINE Out == Raw \cup Plain \cup {"&", "=", "%", " ", "undefined"}
           d == [k \in 1 .. Len(s) |-> Q!Space(Q!Unescape(s[k]))]
<1>3. \A c \in QChar : Q!Space(Q!Unescape(c)) \in Out
  BY <1>1
<1> HIDE DEF Out
<1>4. d \in Seq(Out)
  BY <1>2, <1>3
<1> QED
  BY <1>2, <1>4 DEF Q!String, Out

(* urldecode undoes urlencode, unless there is a plus.                       *)
LEMMA DecodeEncode ==
  ASSUME NEW s \in Seq(Plain), Clear(s, "+")
  PROVE  Q!UrlDecode(Q!UrlEncode(s)) = s
<1>1. \A c \in Plain : Q!Unescape(Q!Escape(c)) = c
  <2>1. \A c \in Plain : c \notin Q!Escapes
    BY ScriptsAssumption DEF Q!QueryAssumption
  <2> QED
    BY <2>1 DEF Q!Escape, Q!Unescape, Q!Escapes
<1>2. \A c : c # "+" => Q!Space(c) = c
  BY DEF Q!Space
<1>3. \A k \in 1 .. Len(s) : Q!Space(Q!Unescape(Q!Escape(s[k]))) = s[k]
  BY <1>1, <1>2 DEF Clear
<1>4. DOMAIN s = 1 .. Len(s) /\ s = [k \in 1 .. Len(s) |-> s[k]]
  OBVIOUS
<1>5. Q!UrlDecode(Q!UrlEncode(s)) = [k \in 1 .. Len(s) |-> Q!Space(Q!Unescape(Q!Escape(s[k])))]
  BY <1>4 DEF Q!UrlDecode, Q!UrlEncode
<1> QED
  BY <1>3, <1>4, <1>5

-----------------------------------------------------------------------------
(* The parts of an encoded form are its pairs, and their fields the key and  *)
(* the value.                                                               *)

(* The texts of a form are sequences of plain characters.                    *)
LEMMA TextsPlain == Q!Texts \subseteq Seq(Plain)
<1>1. \A c, d \in Plain : <<c>> \in Seq(Plain) /\ <<c, d>> \in Seq(Plain)
  OBVIOUS
<1>2. ASSUME NEW t \in Q!Texts PROVE t \in Seq(Plain)
  <2>1. CASE t \in {<<c>> : c \in Plain}
    BY <1>1, <2>1
  <2>2. CASE t \in {<<c, d>> : c, d \in Plain}
    <3>1. PICK c \in Plain, d \in Plain : t = <<c, d>>
      BY <2>2
    <3> QED
      BY <1>1, <3>1
  <2> QED
    BY <2>1, <2>2 DEF Q!Texts
<1> QED
  BY <1>2

(* A text without the separator is its only part.                            *)
LEMMA OnePart ==
  ASSUME NEW E, NEW c, NEW s \in Seq(E), Clear(s, c)
  PROVE  SplitBy(s, c) = <<s>>
<1>1. <<>> \in Seq(E) /\ <<>> \o s = s
  OBVIOUS
<1>a. SplitBy(<<>> \o s, c) = Longer(SplitBy(<<>>, c), s)
  BY <1>1, SplitLonger DEF Clear
<1>2. SplitBy(<<>> \o s, c) = Longer(<<<<>>>>, s)
  BY <1>a, SplitNone
<1>3. Longer(<<<<>>>>, s) = <<s>>
  BY <1>1 DEF Longer
<1> QED
  BY <1>1, <1>2, <1>3

(* One more part, behind the separator.                                     *)
LEMMA AnotherPart ==
  ASSUME NEW E, NEW c \in E, NEW s \in Seq(E), NEW t \in Seq(E), Clear(t, c)
  PROVE  SplitBy(s \o (<<c>> \o t), c) = Append(SplitBy(s, c), t)
<1>1. s \o (<<c>> \o t) = Append(s, c) \o t /\ Append(s, c) \in Seq(E)
  <2>1. Append(s, c) \in Seq(E) /\ Append(s, c) = s \o <<c>> /\ <<c>> \in Seq(E)
    BY AppendIs
  <2>2. (s \o <<c>>) \o t = s \o (<<c>> \o t)
    BY <2>1, OneAfterTheOther
  <2> QED
    BY <2>1, <2>2, Zenon
<1>2. SplitBy(Append(s, c), c) = Append(SplitBy(s, c), <<>>)
  BY SplitAppend DEF Onward
<1>3. SplitBy(Append(s, c) \o t, c) = Longer(Append(SplitBy(s, c), <<>>), t)
  <2>1. \A k \in DOMAIN t : t[k] # c
    BY DEF Clear
  <2>2. SplitBy(Append(s, c) \o t, c) = Longer(SplitBy(Append(s, c), c), t)
    BY <1>1, <2>1, SplitLonger
  <2> QED
    BY <1>2, <2>2, Zenon
<1> DEFINE p == SplitBy(s, c)
<1>4. p \in Seq(Seq(E))
  BY SplitType DEF NonEmpty
<1> HIDE DEF p
<1>5. Longer(Append(p, <<>>), t) = Append(p, t)
  <2>1. /\ Len(Append(p, <<>>)) = Len(p) + 1 /\ Append(p, <<>>)[Len(p) + 1] = <<>> /\ <<>> \o t = t
        /\ Len(Append(p, t)) = Len(p) + 1 /\ Append(p, t)[Len(p) + 1] = t
    BY <1>4
  <2>2. \A k \in 1 .. Len(p) : Append(p, <<>>)[k] = p[k] /\ Append(p, t)[k] = p[k]
    BY <1>4
  <2> DEFINE q == Append(p, <<>>)
             r == Append(p, t)
  <2>3. q \in Seq(Seq(E)) /\ r \in Seq(Seq(E))
    BY <1>1, <1>4
  <2> HIDE DEF q, r
  <2>4. /\ Longer(q, t) \in Seq(Seq(E)) /\ Len(Longer(q, t)) = Len(p) + 1 /\ Len(r) = Len(p) + 1
        /\ \A k \in 1 .. Len(p) + 1 : Longer(q, t)[k] = IF k = Len(p) + 1 THEN q[k] \o t ELSE q[k]
    <3>1. q \in NonEmpty(E) /\ Len(q) = Len(p) + 1
      BY <1>4, <2>1, <2>3 DEF q, NonEmpty
    <3>2. Len(r) = Len(p) + 1
      BY <2>1 DEF r
    <3>3. /\ Longer(q, t) \in NonEmpty(E) /\ Len(Longer(q, t)) = Len(q)
          /\ \A k \in 1 .. Len(q) : Longer(q, t)[k] = IF k = Len(q) THEN q[k] \o t ELSE q[k]
      BY <3>1, LongerType
    <3> QED
      BY <3>1, <3>2, <3>3 DEF NonEmpty
  <2>5. \A k \in 1 .. Len(p) + 1 : k \in 1 .. Len(p) \/ k = Len(p) + 1
    BY <1>4
  <2>6. \A k \in 1 .. Len(p) + 1 : r[k] = IF k = Len(p) + 1 THEN q[k] \o t ELSE q[k]
    BY <1>4, <2>1, <2>2, <2>5 DEF q, r
  <2>7. Longer(q, t) = r
    BY <2>3, <2>4, <2>6, SameElements
  <2> QED
    BY <2>7 DEF q, r
<1> QED
  BY <1>1, <1>3, <1>5 DEF p

(* A pair, element by element.                                               *)
LEMMA OneOfTwo ==
  ASSUME NEW x, NEW y
  PROVE  Append(<<x>>, y) = <<x, y>>
<1>1. <<x>> \in Seq({x, y}) /\ <<x, y>> \in Seq({x, y}) /\ Append(<<x>>, y) \in Seq({x, y})
  OBVIOUS
<1>2. Len(Append(<<x>>, y)) = 2 /\ Len(<<x, y>>) = 2
  BY <1>1
<1>3. Append(<<x>>, y)[1] = x /\ Append(<<x>>, y)[2] = y
  BY <1>1
<1>4. \A k \in 1 .. 2 : k = 1 \/ k = 2
  OBVIOUS
<1> DEFINE s == Append(<<x>>, y)
           t == <<x, y>>
<1>5. \A k \in 1 .. Len(s) : s[k] = t[k]
  BY <1>2, <1>3, <1>4
<1>6. s \in Seq({x, y}) /\ t \in Seq({x, y}) /\ Len(s) = Len(t)
  BY <1>1, <1>2
<1> HIDE DEF s, t
<1>7. s = t
  BY <1>5, <1>6, SameElements
<1> QED
  BY <1>7 DEF s, t

(* A pair as it is written splits into its key and its value.                *)
LEMMA PairFields ==
  ASSUME NEW p \in Q!Texts \X Q!Texts
  PROVE  /\ Q!Pair(p) \in Seq(QChar) /\ Clear(Q!Pair(p), "&")
         /\ SplitBy(Q!Pair(p), "=") = <<Q!UrlEncode(p[1]), Q!UrlEncode(p[2])>>
<1> DEFINE a == Q!UrlEncode(p[1])
           b == Q!UrlEncode(p[2])
<1>1. /\ a \in Seq(QChar) /\ b \in Seq(QChar) /\ Clear(a, "&") /\ Clear(b, "&")
      /\ Clear(a, "=") /\ Clear(b, "=")
  BY EncodeType, TextsPlain
<1>2. "=" \in QChar
  BY DEF QChar
<1>3. Q!Pair(p) = (a \o <<"=">>) \o b
  BY DEF Q!Pair
<1> HIDE DEF a, b
<1>4. (a \o <<"=">>) \o b = a \o (<<"=">> \o b)
  <2>1. <<"=">> \in Seq(QChar)
    BY <1>2
  <2> QED
    BY <1>1, <2>1, OneAfterTheOther
<1>5. SplitBy(a \o (<<"=">> \o b), "=") = Append(SplitBy(a, "="), b)
  BY <1>1, <1>2, AnotherPart
<1>6. SplitBy(a, "=") = <<a>>
  BY <1>1, OnePart
<1>7. Append(<<a>>, b) = <<a, b>>
  BY OneOfTwo
<1>8. Q!Pair(p) \in Seq(QChar) /\ Clear(Q!Pair(p), "&")
  BY <1>1, <1>2, <1>3 DEF Clear
<1> QED
  BY <1>3, <1>4, <1>5, <1>6, <1>7, <1>8 DEF a, b

(* A form as it is written splits into its pairs.                            *)
LEMMA FormParts ==
  ASSUME NEW f \in Seq(Q!Texts \X Q!Texts), f # <<>>
  PROVE  /\ Q!Encoded(f) \in Seq(QChar)
         /\ SplitBy(Q!Encoded(f), "&") = [k \in 1 .. Len(f) |-> Q!Pair(f[k])]
<1>1. PICK L \in Nat : L = Len(f)
  OBVIOUS
<1>2. L > 0
  BY <1>1
<1> DEFINE piece(k) == IF k = 1 THEN Q!Pair(f[k]) ELSE <<"&">> \o Q!Pair(f[k])
           pieces(m) == [k \in 1 .. m |-> piece(k)]
           pairs(m) == [k \in 1 .. m |-> Q!Pair(f[k])]
           A == {m \in 0 .. L : /\ Joined(pieces(m)) \in Seq(QChar)
                                /\ m > 0 => SplitBy(Joined(pieces(m)), "&") = pairs(m)}
<1>3. "&" \in QChar /\ \A k \in 1 .. L : Q!Pair(f[k]) \in Seq(QChar) /\ Clear(Q!Pair(f[k]), "&")
  <2>1. \A k \in 1 .. L : f[k] \in Q!Texts \X Q!Texts
    BY <1>1
  <2> QED
    BY <2>1, PairFields DEF QChar
<1>4. \A k \in 1 .. L : piece(k) \in Seq(QChar)
  BY <1>3
<1>5. \A m \in 0 .. L : pieces(m) \in Seq(Seq(QChar))
  BY <1>4
<1>6. ASSUME NEW m \in 1 .. L
      PROVE  pieces(m) = Append(pieces(m - 1), piece(m)) /\ pairs(m) = Append(pairs(m - 1), Q!Pair(f[m]))
  <2> HIDE DEF piece
  <2>1. pieces(m) = Append(pieces(m - 1), piece(m))
    OBVIOUS
  <2>2. pairs(m) = Append(pairs(m - 1), Q!Pair(f[m]))
    OBVIOUS
  <2> QED
    BY <2>1, <2>2
<1>7. 0 \in A
  <2>1. pieces(0) = <<>> /\ <<>> \in Seq(QChar)
    OBVIOUS
  <2>2. Joined(pieces(0)) \in Seq(QChar)
    BY <2>1, JoinedNone
  <2> QED
    BY <2>2
<1>8. ASSUME NEW m \in 1 .. L, m - 1 \in A PROVE m \in A
  <2> HIDE DEF piece, pieces, pairs
  <2>1. m - 1 \in 0 .. L /\ pieces(m - 1) \in Seq(Seq(QChar)) /\ Joined(pieces(m - 1)) \in Seq(QChar)
    BY <1>5, <1>8
  <2>2. Joined(pieces(m)) = Joined(pieces(m - 1)) \o piece(m)
    BY <1>4, <1>6, <2>1, JoinedAppend
  <2>3. Joined(pieces(m)) \in Seq(QChar)
    BY <1>4, <2>1, <2>2
  <2>4. SplitBy(Joined(pieces(m)), "&") = pairs(m)
    <3>1. CASE m = 1
      <4>1. pieces(0) = <<>> /\ piece(1) = Q!Pair(f[1]) /\ Joined(pieces(0)) = <<>>
        BY JoinedNone DEF pieces, piece
      <4>a. 1 \in 1 .. L /\ Q!Pair(f[1]) \in Seq(QChar) /\ m - 1 = 0
        BY <1>3, <3>1
      <4>b. <<>> \o Q!Pair(f[1]) = Q!Pair(f[1])
        BY <4>a
      <4>2. Joined(pieces(1)) = Q!Pair(f[1]) /\ 1 \in 1 .. L
        BY <2>2, <3>1, <4>1, <4>a, <4>b
      <4>3. SplitBy(Q!Pair(f[1]), "&") = <<Q!Pair(f[1])>>
        BY <1>3, <4>2, OnePart
      <4>4. pairs(1) = <<Q!Pair(f[1])>>
        BY DEF pairs
      <4> QED
        BY <3>1, <4>2, <4>3, <4>4
    <3>2. CASE m > 1
      <4>1. piece(m) = <<"&">> \o Q!Pair(f[m])
        BY <3>2 DEF piece
      <4>2. SplitBy(Joined(pieces(m - 1)), "&") = pairs(m - 1)
        BY <1>8, <3>2
      <4>3. SplitBy(Joined(pieces(m - 1)) \o (<<"&">> \o Q!Pair(f[m])), "&")
              = Append(pairs(m - 1), Q!Pair(f[m]))
        BY <1>3, <2>1, <4>2, AnotherPart
      <4> QED
        BY <1>6, <2>2, <4>1, <4>3
    <3> QED
      BY <3>1, <3>2
  <2> QED
    BY <2>3, <2>4
<1> HIDE DEF A
<1>9. \A m \in 0 .. L : m \in A
  BY <1>7, <1>8, CountingTo
<1>10. Q!Encoded(f) = Joined(pieces(L))
  <2>1. DOMAIN f = 1 .. L
    BY <1>1
  <2> QED
    BY <2>1, QOperators DEF Q!Encoded
<1>11. L \in 0 .. L
  OBVIOUS
<1> QED
  BY <1>1, <1>2, <1>9, <1>10, <1>11 DEF A

-----------------------------------------------------------------------------
(* How often a key was given.                                               *)

(* Count is the size  of a finite set.                                       *)
LEMMA CountType ==
  ASSUME NEW keys, NEW key, NEW n \in Nat
  PROVE  /\ Q!Count(keys, key, n) \in Nat
         /\ Q!Count(keys, key, n) = Cardinality({k \in 1 .. n : keys[k] = key})
         /\ IsFiniteSet({k \in 1 .. n : keys[k] = key})
<1>1. IsFiniteSet(1 .. n) /\ {k \in 1 .. n : keys[k] = key} \subseteq 1 .. n
  BY FS_Interval
<1> QED
  BY <1>1, FS_Subset, FS_CardinalityType, QOperators DEF Q!Count

(* One key more, one more of its own.                                        *)
LEMMA CountNext ==
  ASSUME NEW keys, NEW key, NEW n \in Nat, n > 0
  PROVE  Q!Count(keys, key, n) = IF keys[n] = key THEN Q!Count(keys, key, n - 1) + 1 ELSE Q!Count(keys, key, n - 1)
<1> DEFINE S(m) == {k \in 1 .. m : keys[k] = key}
<1>1. Q!Count(keys, key, n) = Cardinality(S(n)) /\ Q!Count(keys, key, n - 1) = Cardinality(S(n - 1)) /\ IsFiniteSet(S(n - 1))
  BY CountType
<1>2. \A k : k \in 1 .. n <=> k \in 1 .. n - 1 \/ k = n
  OBVIOUS
<1>3. n \notin S(n - 1)
  OBVIOUS
<1>4. keys[n] = key => S(n) = S(n - 1) \cup {n}
  BY <1>2
<1>5. keys[n] # key => S(n) = S(n - 1)
  BY <1>2
<1> HIDE DEF S
<1>6. keys[n] = key => Cardinality(S(n)) = Cardinality(S(n - 1)) + 1
  BY <1>1, <1>3, <1>4, FS_AddElement
<1> QED
  BY <1>1, <1>5, <1>6

(* A key is counted where it occurs, and ever more after that.               *)
LEMMA CountGrows ==
  ASSUME NEW keys, NEW key, NEW n \in Nat, NEW k \in 1 .. n, keys[k] = key
  PROVE  1 <= Q!Count(keys, key, k) /\ Q!Count(keys, key, k) <= Q!Count(keys, key, n)
<1> DEFINE S(m) == {j \in 1 .. m : keys[j] = key}
<1>1. /\ Q!Count(keys, key, k) = Cardinality(S(k)) /\ Q!Count(keys, key, n) = Cardinality(S(n))
      /\ IsFiniteSet(S(k)) /\ IsFiniteSet(S(n))
  BY CountType
<1>2. S(k) \subseteq S(n) /\ k \in S(k)
  OBVIOUS
<1> HIDE DEF S
<1>3. Cardinality(S(k)) <= Cardinality(S(n))
  BY <1>1, <1>2, FS_Subset
<1>4. Cardinality(S(k)) # 0 /\ Cardinality(S(k)) \in Nat
  BY <1>1, <1>2, FS_EmptySet, FS_CardinalityType
<1> QED
  BY <1>1, <1>3, <1>4

(* A key that does not occur is counted zero times.                          *)
LEMMA CountNever ==
  ASSUME NEW keys, NEW key, NEW n \in Nat, \A k \in 1 .. n : keys[k] # key
  PROVE  Q!Count(keys, key, n) = 0
<1>1. {k \in 1 .. n : keys[k] = key} = {}
  OBVIOUS
<1> QED
  BY <1>1, CountType, FS_EmptySet

-----------------------------------------------------------------------------
(* The invariant: the parts parsed so far have given their values.          *)

QInv ==
  /\ form \in Seq(Q!Texts \X Q!Texts)
  /\ form # <<>> => query = Q!Encoded(form)
  /\ query \in Seq(QChar)
  /\ i \in Nat /\ 1 <= i /\ i <= Len(Q!Parts) + 1
  /\ DOMAIN result \subseteq Q!String
  /\ \A key \in DOMAIN result : result[key] \in Seq(Q!String) /\ result[key] # <<>>
  /\ outcome \in {"running", "returned", "TypeError", "URIError"}
  /\ outcome = "returned" => i > Len(Q!Parts)
  /\ outcome \in {"TypeError", "URIError"} =>
       i <= Len(Q!Parts) /\ ~Q!Readable(i) /\ (outcome = "URIError" <=> Q!Malformed(Q!Parts[i]))
  /\ \A k \in 1 .. i - 1 : Q!Readable(k)
  /\ Q!Holds(Q!Keys, Q!Values, i - 1)

(* A query has one part more than separators at most.                        *)
LEMMA PartsType ==
  ASSUME query \in Seq(QChar)
  PROVE  Q!Parts \in NonEmpty(QChar) /\ Len(Q!Parts) <= Len(query) + 1
<1>1. Q!Parts = SplitBy(query, "&")
  BY QOperators DEF Q!Parts
<1> QED
  BY <1>1, SplitType, SplitShort

(* One value makes a list, and one more a longer one.                        *)
LEMMA OneValue ==
  ASSUME NEW E, NEW e \in E
  PROVE  /\ <<e>> \in Seq(E) /\ <<e>> # <<>>
         /\ \A s \in Seq(E) : Append(s, e) \in Seq(E) /\ Append(s, e) # <<>>
<1>1. <<e>> \in Seq(E) /\ <<e>> # <<>>
  OBVIOUS
<1> QED
  BY <1>1, AppendIs, Zenon

(* The key and the value of a part are strings.                              *)
LEMMA KeyValueType ==
  ASSUME NEW part \in Seq(QChar)
  PROVE  Q!KeyOf(part) \in Q!String /\ Q!ValueOf(part) \in Q!String
<1> DEFINE f == Q!Fields(part)
<1>1. f \in NonEmpty(QChar)
  BY QOperators, SplitType DEF Q!Fields
<1>2. f[1] \in Seq(QChar) /\ (Len(f) # 1 => f[2] \in Seq(QChar))
  <2>1. \A p \in NonEmpty(QChar) : p[1] \in Seq(QChar) /\ (Len(p) # 1 => p[2] \in Seq(QChar))
    <3> TAKE p \in NonEmpty(QChar)
    <3>1. p \in Seq(Seq(QChar)) /\ Len(p) \in Nat /\ Len(p) > 0
      BY DEF NonEmpty
    <3>2. PICK n \in Nat : n = Len(p)
      BY <3>1
    <3>3. \A k \in 1 .. n : p[k] \in Seq(QChar)
      BY <3>1, <3>2, ElementsOf
    <3>4. 1 \in 1 .. n /\ (n # 1 => 2 \in 1 .. n)
      BY <3>1, <3>2
    <3> QED
      BY <3>2, <3>3, <3>4
  <2> HIDE DEF f
  <2> QED
    BY <1>1, <2>1
<1>3. <<"undefined">> \in Q!String
  BY DEF Q!String
<1>4. /\ Q!KeyOf(part) = Q!UrlDecode(f[1])
      /\ Q!ValueOf(part) = IF Len(f) = 1 THEN <<"undefined">> ELSE Q!UrlDecode(f[2])
  BY DEF Q!KeyOf, Q!ValueOf
<1> HIDE DEF f
<1> QED
  BY <1>2, <1>3, <1>4, DecodeType

(* What is parsed of an encoded form is what was given.                     *)
LEMMA KeyValueGiven ==
  ASSUME form \in Seq(Q!Texts \X Q!Texts), query = Q!Encoded(form), form # <<>>, Q!NoPlus
  PROVE  /\ Len(Q!Parts) = Len(form)
         /\ Q!Keys = [k \in DOMAIN form |-> form[k][1]]
         /\ Q!Values = [k \in DOMAIN form |-> form[k][2]]
<1>1. Q!Parts = [k \in 1 .. Len(form) |-> Q!Pair(form[k])]
  BY FormParts, QOperators DEF Q!Parts
<1>2. Len(Q!Parts) = Len(form) /\ DOMAIN Q!Parts = DOMAIN form /\ DOMAIN form = 1 .. Len(form)
  BY <1>1
<1>3. ASSUME NEW k \in 1 .. Len(form)
      PROVE  Q!KeyOf(Q!Parts[k]) = form[k][1] /\ Q!ValueOf(Q!Parts[k]) = form[k][2]
  <2>1. form[k] \in Q!Texts \X Q!Texts
    OBVIOUS
  <2> DEFINE a == form[k][1]
             b == form[k][2]
             f == Q!Fields(Q!Parts[k])
  <2>2. Q!Parts[k] = Q!Pair(form[k])
    BY <1>1
  <2>3. f = <<Q!UrlEncode(a), Q!UrlEncode(b)>>
    BY <2>1, <2>2, PairFields, QOperators DEF Q!Fields
  <2>4. a \in Seq(Plain) /\ b \in Seq(Plain) /\ Clear(a, "+") /\ Clear(b, "+")
    BY <2>1, TextsPlain DEF Q!NoPlus, Clear
  <2>5. Q!UrlDecode(Q!UrlEncode(a)) = a /\ Q!UrlDecode(Q!UrlEncode(b)) = b
    <3> HIDE DEF a, b
    <3> QED
      BY <2>4, DecodeEncode
  <2>6. /\ Q!KeyOf(Q!Parts[k]) = Q!UrlDecode(f[1])
        /\ Q!ValueOf(Q!Parts[k]) = IF Len(f) = 1 THEN <<"undefined">> ELSE Q!UrlDecode(f[2])
    BY DEF Q!KeyOf, Q!ValueOf
  <2>7. Len(f) = 2 /\ f[1] = Q!UrlEncode(a) /\ f[2] = Q!UrlEncode(b)
    BY <2>3
  <2> HIDE DEF f
  <2> QED
    BY <2>5, <2>6, <2>7
<1> QED
  BY <1>2, <1>3 DEF Q!Keys, Q!Values

(* QueryParameters: the states in which it begins or has ended.              *)
LEMMA QueryStart == Q!Init \/ QOver => QInv
<1>1. \A E : <<>> \in Seq(E)
  OBVIOUS
<1>2. ASSUME Q!Init PROVE QInv
  <2>1. i = 1 /\ result = <<>> /\ outcome = "running" /\ DOMAIN result = {}
    BY <1>2 DEF Q!Init
  <2>2. form \in Seq(Q!Texts \X Q!Texts) /\ (form # <<>> => query = Q!Encoded(form)) /\ query \in Seq(QChar)
    <3>1. CASE form \in UNION {[1 .. n -> Q!Texts \X Q!Texts] : n \in 1 .. MaxPairs} /\ query = Q!Encoded(form)
      <4>1. PICK n \in 1 .. MaxPairs : form \in [1 .. n -> Q!Texts \X Q!Texts]
        BY <3>1
      <4>2. form \in Seq(Q!Texts \X Q!Texts) /\ form # <<>>
        BY <4>1, ScriptsAssumption DEF Q!QueryAssumption
      <4> QED
        BY <3>1, <4>2, FormParts
    <3>2. CASE form = <<>> /\ query \in UNION {[1 .. n -> Raw] : n \in 0 .. MaxRaw}
      <4>1. PICK n \in 0 .. MaxRaw : query \in [1 .. n -> Raw]
        BY <3>2
      <4>2. query \in Seq(QChar)
        BY <4>1, ScriptsAssumption DEF Q!QueryAssumption, QChar
      <4> QED
        BY <1>1, <3>2, <4>2
    <3> QED
      BY <1>2, <3>1, <3>2 DEF Q!Init
  <2>3. Len(Q!Parts) \in Nat /\ Len(Q!Parts) > 0
    BY <2>2, PartsType DEF NonEmpty
  <2>4. Q!Holds(Q!Keys, Q!Values, 0) /\ i - 1 = 0 /\ \A k \in 1 .. 0 : Q!Readable(k)
    <3>1. 1 .. 0 = {} /\ i - 1 = 0
      BY <2>1
    <3> QED
      BY <2>1, <3>1 DEF Q!Holds
  <2> QED
    BY <2>1, <2>2, <2>3, <2>4 DEF QInv
<1>3. ASSUME QOver PROVE QInv
  <2>1. /\ form = <<>> /\ query = <<>> /\ i = 2 /\ outcome = "returned"
        /\ DOMAIN result = {<<>>} /\ result[<<>>] = <<<<"undefined">>>>
    BY <1>3 DEF QOver
  <2>2. Q!Parts = <<<<>>>> /\ Len(<<<<>>>>) = 1
    BY <2>1, QOperators, SplitNone DEF Q!Parts
  <2>3. Len(Q!Parts) = 1
    BY <2>2, Zenon
  <2>4. <<"undefined">> \in Q!String /\ <<>> \in Q!String
    BY DEF Q!String
  <2>5. <<<<"undefined">>>> \in Seq(Q!String) /\ <<<<"undefined">>>> # <<>>
    BY <2>4
  <2>6. DOMAIN result \subseteq Q!String /\ \A key \in DOMAIN result : result[key] \in Seq(Q!String) /\ result[key] # <<>>
    BY <2>1, <2>4, <2>5, Zenon
  <2>7. i \in Nat /\ 1 <= i /\ i <= Len(Q!Parts) + 1 /\ i > Len(Q!Parts) /\ i - 1 = 1
    BY <2>1, <2>3
  <2>8. Q!Fields(<<>>) = <<<<>>>> /\ Len(Q!Fields(<<>>)) = 1 /\ Q!Fields(<<>>)[1] = <<>>
    <3>1. Q!Fields(<<>>) = <<<<>>>>
      BY QOperators, SplitNone DEF Q!Fields
    <3> QED
      BY <2>2, <3>1
  <2>9. Q!KeyOf(<<>>) = <<>> /\ Q!ValueOf(<<>>) = <<"undefined">> /\ ~Q!Malformed(<<>>)
    <3>1. Q!UrlDecode(<<>>) = <<>>
      BY DEF Q!UrlDecode
    <3>2. ~Q!Malformed(<<>>)
      BY <2>8 DEF Q!Malformed
    <3> QED
      BY <2>8, <3>1, <3>2 DEF Q!KeyOf, Q!ValueOf
  <2>10. /\ DOMAIN Q!Parts = {1} /\ Q!Parts[1] = <<>>
         /\ Q!Keys = [k \in {1} |-> <<>>] /\ Q!Values = [k \in {1} |-> <<"undefined">>]
    <3>1. DOMAIN Q!Parts = {1} /\ Q!Parts[1] = <<>>
      BY <2>2
    <3> QED
      BY <2>9, <3>1 DEF Q!Keys, Q!Values
  <2>11. Q!Readable(1)
    <3>1. <<>> # <<"toString">>
      OBVIOUS
    <3> QED
      BY <2>9, <2>10, <3>1 DEF Q!Readable, Q!Inherited
  <2>12. Q!Holds(Q!Keys, Q!Values, 1)
    <3>1. 1 .. 1 = {1} /\ Q!Keys[1] = <<>> /\ Q!Values[1] = <<"undefined">>
      BY <2>10
    <3>2. Q!Count(Q!Keys, <<>>, 1) = 1
      <4>1. {k \in 1 .. 1 : Q!Keys[k] = <<>>} = {1}
        BY <3>1
      <4> QED
        BY <4>1, FS_Singleton, QOperators DEF Q!Count
    <3>3. DOMAIN result = {Q!Keys[k] : k \in 1 .. 1}
      BY <2>1, <3>1
    <3>4. Len(<<<<"undefined">>>>) = 1 /\ <<<<"undefined">>>>[1] = <<"undefined">>
      OBVIOUS
    <3>5. \A key \in DOMAIN result : Len(result[key]) = Q!Count(Q!Keys, key, 1)
      BY <2>1, <3>2, <3>4, Zenon
    <3>6. \A k \in 1 .. 1 : result[Q!Keys[k]][Q!Count(Q!Keys, Q!Keys[k], k)] = Q!Values[k]
      <4>1. \A k \in 1 .. 1 : k = 1
        OBVIOUS
      <4>2. result[Q!Keys[1]][Q!Count(Q!Keys, Q!Keys[1], 1)] = Q!Values[1]
        BY <2>1, <3>1, <3>2, <3>4, Zenon
      <4> QED
        BY <4>1, <4>2, Zenon
    <3> QED
      BY <3>3, <3>5, <3>6 DEF Q!Holds
  <2>13. Q!Holds(Q!Keys, Q!Values, i - 1) /\ \A k \in 1 .. i - 1 : Q!Readable(k)
    <3>1. \A k \in 1 .. 1 : k = 1
      OBVIOUS
    <3> QED
      BY <2>7, <2>11, <2>12, <3>1, Zenon
  <2> QED
    BY <1>1, <2>1, <2>6, <2>7, <2>13 DEF QInv
<1> QED
  BY <1>2, <1>3

(* QueryParameters: its steps.                                               *)
LEMMA QueryStep == QInv /\ [Q!Next]_(Q!vars) => QInv'
<1> SUFFICES ASSUME QInv, [Q!Next]_(Q!vars) PROVE QInv'
  OBVIOUS
<1>1. Q!Parts \in NonEmpty(QChar) /\ Len(Q!Parts) \in Nat
  BY PartsType DEF QInv, NonEmpty
<1>4. i \in Nat /\ 1 <= i /\ DOMAIN Q!Parts = 1 .. Len(Q!Parts)
  BY <1>1 DEF QInv, NonEmpty
<1>2. ASSUME Q!Push \/ Q!NewKey PROVE QInv'
  <2>1. i <= Len(Q!Parts) /\ i' = i + 1 /\ UNCHANGED <<form, query, outcome>> /\ outcome = "running"
    BY <1>2 DEF Q!Push, Q!NewKey, Q!More
  <2>0. i \in DOMAIN Q!Parts
    BY <1>1, <1>4, <2>1
  <2>2. (Q!Parts)' = Q!Parts
    BY <2>1 DEF Q!Parts
  <2>3. Q!Key \in Q!String /\ Q!Value \in Q!String
    <3>1. Q!Parts \in Seq(Seq(QChar)) /\ i \in DOMAIN Q!Parts
      BY <1>1, <2>1 DEF QInv, NonEmpty
    <3>2. Q!Parts[i] \in Seq(QChar)
      BY <3>1
    <3> QED
      BY <3>2, KeyValueType DEF Q!Key, Q!Value
  <2> DEFINE key == Q!Key
             value == Q!Value
  <2>4. \/ key \in DOMAIN result /\ result' = [result EXCEPT ![key] = Append(@, value)]
        \/ /\ key \notin DOMAIN result
           /\ result' = [k \in DOMAIN result \cup {key} |-> IF k = key THEN <<value>> ELSE result[k]]
    <3>1. CASE Q!Push
      <4>1. Q!Key \in DOMAIN result /\ result' = [result EXCEPT ![Q!Key] = Append(@, Q!Value)]
        BY <3>1 DEF Q!Push
      <4> QED
        BY <4>1, Zenon
    <3>2. CASE Q!NewKey
      <4>1. Q!Key \notin DOMAIN result
        BY <3>2 DEF Q!NewKey
      <4> QED
        BY <3>2, <4>1 DEF Q!NewKey
    <3> QED
      BY <1>2, <3>1, <3>2
  <2> HIDE DEF key, value
  <2>5. /\ DOMAIN result' = DOMAIN result \cup {key}
        /\ \A k \in DOMAIN result : k # key => result'[k] = result[k]
        /\ result'[key] = IF key \in DOMAIN result THEN Append(result[key], value) ELSE <<value>>
    BY <2>4
  <2>6. key \in Q!String /\ value \in Q!String
    BY <2>3 DEF key, value
  <2>7. /\ DOMAIN result' \subseteq Q!String
        /\ \A k \in DOMAIN result' : result'[k] \in Seq(Q!String) /\ result'[k] # <<>>
    <3>1. DOMAIN result \subseteq Q!String
          /\ \A k \in DOMAIN result : result[k] \in Seq(Q!String) /\ result[k] # <<>>
      BY DEF QInv
    <3>2. <<value>> \in Seq(Q!String) /\ <<value>> # <<>>
          /\ \A s \in Seq(Q!String) : Append(s, value) \in Seq(Q!String) /\ Append(s, value) # <<>>
      BY <2>6, OneValue
    <3> QED
      BY <2>5, <2>6, <3>1, <3>2, Zenon
  <2>8. Q!Holds(Q!Keys, Q!Values, i - 1)'
    <3>a. PICK ks : ks = Q!Keys
      OBVIOUS
    <3>b. PICK vs : vs = Q!Values
      OBVIOUS
    <3>c. Q!Keys' = ks /\ Q!Values' = vs
      BY <2>2, <3>a, <3>b DEF Q!Keys, Q!Values
    <3>1. i \in DOMAIN Q!Parts
      BY <2>0
    <3>2. Q!Holds(ks, vs, i - 1) /\ key = ks[i] /\ value = vs[i]
      BY <3>1, <3>a, <3>b DEF QInv, key, value, Q!Keys, Q!Values, Q!Key, Q!Value
    <3>3. i \in Nat /\ i - 1 \in Nat /\ i > 0 /\ i' - 1 = i
      BY <1>4, <2>1
    <3>5. \A k \in 1 .. i : k \in 1 .. i - 1 \/ k = i
      BY <3>3
    <3>6. DOMAIN result' = {ks[k] : k \in 1 .. i}
      <4>1. DOMAIN result = {ks[k] : k \in 1 .. i - 1}
        BY <3>2 DEF Q!Holds
      <4>2. {ks[k] : k \in 1 .. i} = {ks[k] : k \in 1 .. i - 1} \cup {ks[i]}
        BY <3>3, <3>5
      <4> QED
        BY <2>5, <3>2, <4>1, <4>2
    <3>7. \A k \in DOMAIN result : Len(result[k]) = Q!Count(ks, k, i - 1) /\ result[k] \in Seq(Q!String)
      BY <3>2 DEF Q!Holds, QInv
    <3>8. key \notin DOMAIN result => Q!Count(ks, key, i - 1) = 0
      <4>1. key \notin DOMAIN result => \A k \in 1 .. i - 1 : ks[k] # key
        BY <3>2 DEF Q!Holds
      <4> QED
        BY <3>3, <4>1, CountNever
    <3>9. \A k : Q!Count(ks, k, i) = IF k = key THEN Q!Count(ks, k, i - 1) + 1 ELSE Q!Count(ks, k, i - 1)
      BY <3>2, <3>3, CountNext
    <3>10. ASSUME NEW k \in DOMAIN result' PROVE Len(result'[k]) = Q!Count(ks, k, i)
      <4>1. CASE k # key
        BY <2>5, <3>7, <3>9, <4>1
      <4>2. CASE k = key /\ key \in DOMAIN result
        <5>1. Len(Append(result[key], value)) = Len(result[key]) + 1
          BY <3>7, <4>2, <2>6
        <5> QED
          BY <2>5, <3>7, <3>9, <4>2, <5>1
      <4>3. CASE k = key /\ key \notin DOMAIN result
        <5>1. Len(<<value>>) = 1
          OBVIOUS
        <5>2. Q!Count(ks, k, i) = 1
          BY <3>8, <3>9, <4>3
        <5>3. result'[k] = <<value>>
          BY <2>5, <4>3
        <5> QED
          BY <5>1, <5>2, <5>3, Zenon
      <4> QED
        BY <4>1, <4>2, <4>3
    <3>11. ASSUME NEW k \in 1 .. i PROVE result'[ks[k]][Q!Count(ks, ks[k], k)] = vs[k]
      <4>1. CASE k = i
        <5>1. Q!Count(ks, key, i) = Q!Count(ks, key, i - 1) + 1
          BY <3>9
        <5>2. CASE key \in DOMAIN result
          <6>1. Append(result[key], value)[Len(result[key]) + 1] = value
            BY <2>6, <3>7, <5>2
          <6>2. Len(result[key]) = Q!Count(ks, key, i - 1) /\ result'[key] = Append(result[key], value)
            BY <2>5, <3>7, <5>2
          <6> QED
            BY <3>2, <4>1, <5>1, <6>1, <6>2
        <5>3. CASE key \notin DOMAIN result
          <6>1. Q!Count(ks, key, i) = 1 /\ result'[key] = <<value>>
            BY <2>5, <3>8, <5>1, <5>3
          <6> QED
            BY <3>2, <4>1, <6>1
        <5> QED
          BY <5>2, <5>3
      <4>2. CASE k \in 1 .. i - 1
        <5> DEFINE own == ks[k]
        <5>1. own \in DOMAIN result /\ result[own][Q!Count(ks, own, k)] = vs[k]
          BY <3>2, <4>2 DEF Q!Holds
        <5>2. 1 <= Q!Count(ks, own, k) /\ Q!Count(ks, own, k) <= Q!Count(ks, own, i - 1) /\ Q!Count(ks, own, k) \in Nat
          <6>1. ks[k] = own /\ k \in Nat
            BY <4>2
          <6> HIDE DEF own
          <6> QED
            BY <3>3, <4>2, <6>1, CountGrows, CountType
        <5> HIDE DEF own
        <5>3. CASE own = key
          <6>1. Q!Count(ks, own, k) \in 1 .. Len(result[key]) /\ result[key] \in Seq(Q!String)
            BY <3>7, <5>1, <5>2, <5>3
          <6>2. Append(result[key], value)[Q!Count(ks, own, k)] = result[key][Q!Count(ks, own, k)]
            BY <2>6, <6>1
          <6> QED
            BY <2>5, <5>1, <5>3, <6>2 DEF own
        <5>4. CASE own # key
          BY <2>5, <5>1, <5>4 DEF own
        <5> QED
          BY <5>3, <5>4
      <4> QED
        BY <3>5, <4>1, <4>2
    <3>12. (Q!Holds(ks, vs, i - 1))'
      BY <3>3, <3>6, <3>10, <3>11 DEF Q!Holds, Q!Count
    <3> QED
      BY <3>c, <3>12 DEF Q!Holds, Q!Count
  <2>9. i' \in Nat /\ 1 <= i' /\ i' <= Len(Q!Parts) + 1 /\ i' - 1 = i
    BY <1>1, <2>1 DEF QInv
  <2>10. \A k \in 1 .. i' - 1 : (Q!Readable(k))'
    <3>1. Q!Readable(i)
      <4>1. ~Q!Malformed(Q!Parts[i])
        BY <1>2 DEF Q!Push, Q!NewKey
      <4>2. Q!Key \notin Q!Inherited
        <5>1. CASE Q!NewKey
          BY <5>1 DEF Q!NewKey
        <5>2. CASE Q!Push
          <6>1. PICK k \in 1 .. i - 1 : Q!Key = Q!Keys[k]
            BY <5>2 DEF Q!Push, QInv, Q!Holds
          <6> QED
            BY <6>1 DEF QInv, Q!Readable
        <5> QED
          BY <1>2, <5>1, <5>2
      <4>3. Q!Keys[i] = Q!Key
        BY <2>0 DEF Q!Keys, Q!Key
      <4> QED
        BY <4>1, <4>2, <4>3 DEF Q!Readable
    <3>2. \A k \in 1 .. i - 1 : Q!Readable(k)
      BY DEF QInv
    <3>3. \A k : (Q!Readable(k))' <=> Q!Readable(k)
      BY <2>2 DEF Q!Readable, Q!Keys, Q!Malformed, Q!Inherited
    <3>4. \A k \in 1 .. i : k \in 1 .. i - 1 \/ k = i
      BY <1>4
    <3> QED
      BY <2>9, <3>1, <3>2, <3>3, <3>4
  <2> QED
    BY <2>1, <2>2, <2>7, <2>8, <2>9, <2>10 DEF QInv
<1>3. ASSUME Q!PushFails \/ Q!DecodeFails \/ Q!Return \/ UNCHANGED Q!vars PROVE QInv'
  <2>1. /\ UNCHANGED <<form, query, i, result>>
        /\ outcome' \in {"running", "returned", "TypeError", "URIError"}
        /\ outcome' = "returned" => i > Len(Q!Parts)
    BY <1>3 DEF Q!PushFails, Q!DecodeFails, Q!Return, Q!vars, QInv
  <2>2. outcome' \in {"TypeError", "URIError"} =>
          /\ i <= Len(Q!Parts) /\ ~Q!Readable(i)
          /\ outcome' = "URIError" <=> Q!Malformed(Q!Parts[i])
    <3>1. CASE Q!PushFails
      <4>1. Q!Keys[i] = Q!Key
        <5>1. i \in DOMAIN Q!Parts
          BY <1>1, <1>4, <3>1 DEF Q!PushFails, Q!More
        <5> QED
          BY <5>1 DEF Q!Keys, Q!Key
      <4> QED
        BY <3>1, <4>1 DEF Q!PushFails, Q!More, Q!Readable
    <3>2. CASE Q!DecodeFails
      BY <3>2 DEF Q!DecodeFails, Q!More, Q!Readable
    <3>3. CASE Q!Return
      BY <3>3 DEF Q!Return
    <3>4. CASE UNCHANGED Q!vars
      BY <3>4 DEF Q!vars, QInv
    <3> QED
      BY <1>3, <3>1, <3>2, <3>3, <3>4
  <2>3. (Q!Parts)' = Q!Parts
    BY <2>1 DEF Q!Parts
  <2>4. (Q!Holds(Q!Keys, Q!Values, i - 1))' <=> Q!Holds(Q!Keys, Q!Values, i - 1)
    BY <2>1, <2>3 DEF Q!Holds, Q!Count, Q!Keys, Q!Values
  <2>5. \A k : (Q!Readable(k))' <=> Q!Readable(k)
    BY <2>3 DEF Q!Readable, Q!Keys, Q!Malformed, Q!Inherited
  <2> QED
    BY <2>1, <2>2, <2>3, <2>4, <2>5 DEF QInv, Q!Malformed
<1> QED
  BY <1>2, <1>3 DEF Q!Next

(* The invariant says what the properties ask for.                           *)
LEMMA QueryHolds == QInv => Q!TypeOK /\ Q!QueryAnswered /\ Q!FormComesBack
<1> SUFFICES ASSUME QInv PROVE Q!TypeOK /\ Q!QueryAnswered /\ Q!FormComesBack
  OBVIOUS
<1>1. /\ Len(Q!Parts) \in Nat /\ Len(Q!Parts) <= Len(query) + 1 /\ Len(query) \in Nat
      /\ DOMAIN Q!Parts = 1 .. Len(Q!Parts)
  BY PartsType DEF QInv, NonEmpty
<1>2. Q!TypeOK
  BY <1>1 DEF QInv, Q!TypeOK
<1>3. outcome = "returned" => Q!Holds(Q!Keys, Q!Values, Len(Q!Parts)) /\ i - 1 = Len(Q!Parts)
  <2>1. outcome = "returned" => i - 1 = Len(Q!Parts)
    BY <1>1 DEF QInv
  <2>2. Q!Holds(Q!Keys, Q!Values, i - 1)
    BY DEF QInv
  <2> QED
    BY <2>1, <2>2, Zenon
<1>4. Q!QueryAnswered
  <2>1. outcome = "returned" => \A k \in DOMAIN Q!Parts : Q!Readable(k)
    BY <1>1, <1>3 DEF QInv
  <2>2. ASSUME outcome \in {"TypeError", "URIError"}
        PROVE  /\ i \in DOMAIN Q!Parts /\ \A k \in 1 .. i : Q!Readable(k) <=> k < i
               /\ Q!Holds(Q!Keys, Q!Values, i - 1)
               /\ outcome = "URIError" <=> Q!Malformed(Q!Parts[i])
    <3>1. i \in DOMAIN Q!Parts
      BY <1>1, <2>2 DEF QInv
    <3>2. \A k \in 1 .. i : (k \in 1 .. i - 1 /\ k < i) \/ (k = i /\ ~(k < i))
      BY DEF QInv
    <3>3. \A k \in 1 .. i : Q!Readable(k) <=> k < i
      BY <2>2, <3>2 DEF QInv
    <3> QED
      BY <2>2, <3>1, <3>3 DEF QInv
  <2> QED
    BY <1>3, <2>1, <2>2 DEF Q!QueryAnswered
<1>5. Q!FormComesBack
  <2>1. ASSUME form # <<>>, Q!NoPlus, outcome = "returned"
        PROVE  Q!Holds([k \in DOMAIN form |-> form[k][1]], [k \in DOMAIN form |-> form[k][2]], Len(form))
    <3>1. /\ Len(Q!Parts) = Len(form) /\ Q!Keys = [k \in DOMAIN form |-> form[k][1]]
          /\ Q!Values = [k \in DOMAIN form |-> form[k][2]]
      BY <2>1, KeyValueGiven DEF QInv
    <3> QED
      BY <1>3, <2>1, <3>1
  <2> QED
    BY <2>1 DEF Q!FormComesBack
<1> QED
  BY <1>2, <1>4, <1>5

(* For every query and every path of every length: the parts of a query give  *)
(* all their values to their keys, an escape or an inherited name ends the   *)
(* call at the first part that has one, and the fields of a form come back;  *)
(* the relative url is the path below the root, less a character.           *)
THEOREM AddressesReadHolds == Spec => []AddressesRead
<1>1. Init => QInv /\ UInv
  BY QueryStart, UrlStart DEF Init
<1>2. QInv /\ UInv /\ [Next]_vars => QInv' /\ UInv'
  <2>1. [Next]_vars => [Q!Next]_(Q!vars)
    BY DEF Next, vars, qVars, Q!vars
  <2>2. [Next]_vars => [U!Next]_(U!vars)
    BY DEF Next, vars, uVars, U!vars
  <2> QED
    BY <2>1, <2>2, QueryStep, UrlStep
<1>3. QInv /\ UInv => AddressesRead
  BY QueryHolds, UrlHolds DEF AddressesRead
<1> QED
  BY <1>1, <1>2, <1>3, PTL DEF Spec

-----------------------------------------------------------------------------
(* HighlightText: the page.                                                  *)

(* Joined is the same by either name.                                        *)
LEMMA HOperators == \A ss : H!Joined(ss) = Joined(ss)
BY DEF H!Joined, Joined

Kinds == {"text", "element", "control", "mark", "none"}

(* What may lie where: a text has nothing below it, a mark and a control one *)
(* text, an element of the page texts and marks.                            *)
Shaped(n) ==
  /\ kind[n] # "text" => text[n] = <<>>
  /\ kind[n] \in {"text", "none"} => kids[n] = <<>>
  /\ kind[n] \in {"mark", "control"} => Len(kids[n]) = 1 /\ kind[kids[n][1]] = "text"
  /\ kind[n] = "mark" => text[kids[n][1]] \in Terms
  /\ \A k \in 1 .. Len(kids[n]) : /\ kids[n][k] # 1
                                  /\ n # 1 => kind[kids[n][k]] \in {"text", "mark"}
                                  /\ kind[kids[n][k]] # "none"

(* No node is in two lists, or in one twice.                                *)
Once ==
  \A m, n \in 1 .. Len(kind) : \A j \in 1 .. Len(kids[m]), k \in 1 .. Len(kids[n]) :
    kids[m][j] = kids[n][k] => m = n /\ j = k

(* A mark lies in an element.                                               *)
InElement(n) ==
  \E m \in 1 .. Len(kind) : kind[m] = "element" /\ \E k \in 1 .. Len(kids[m]) : kids[m][k] = n

Typed ==
  /\ kind \in Seq(Kinds) /\ Len(kind) >= 1 /\ kind[1] = "element"
  /\ kids \in [1 .. Len(kind) -> Seq(1 .. Len(kind))]
  /\ text \in [1 .. Len(kind) -> Seq(Letter)]

HPage ==
  /\ Typed
  /\ \A n \in 1 .. Len(kind) : Shaped(n)
  /\ Once
  /\ \A n \in 1 .. Len(kind) : kind[n] = "mark" => InElement(n)

-----------------------------------------------------------------------------
(* Splitting a text.                                                        *)

(* Text c, number at of node m, is cut into a, b and d; b goes into a mark.  *)
Cut(m, at, c, a, b, d) ==
  LET N == Len(kind)
  IN  /\ kind' \in Seq(Kinds) /\ Len(kind') = N + 3
      /\ \A x \in 1 .. N : kind'[x] = kind[x]
      /\ kind'[N + 1] = "text" /\ kind'[N + 2] = "mark" /\ kind'[N + 3] = "text"
      /\ text' \in [1 .. N + 3 -> Seq(Letter)]
      /\ \A x \in 1 .. N : x # c => text'[x] = text[x]
      /\ text'[c] = a /\ text'[N + 1] = d /\ text'[N + 2] = <<>> /\ text'[N + 3] = b
      /\ text[c] = (a \o b) \o d
      /\ kids' \in [1 .. N + 3 -> Seq(1 .. N + 3)]
      /\ \A x \in 1 .. N : x # m => kids'[x] = kids[x]
      /\ Inserted(kids'[m], 1 .. N + 3, kids[m], at, N + 2, N + 1)
      /\ kids'[N + 1] = <<>> /\ kids'[N + 2] = <<N + 3>> /\ kids'[N + 3] = <<>>

(* The place of a cut.                                                      *)
Place(m, at, c) ==
  /\ m \in 1 .. Len(kind) /\ kind[m] = "element"
  /\ at \in 1 .. Len(kids[m]) /\ kids[m][at] = c /\ kind[c] = "text"

(* The first occurrence of a term is one.                                   *)
LEMMA Occurrence ==
  ASSUME NEW t \in Seq(Letter), NEW s \in Seq(Letter), H!Holds(t, s)
  PROVE  H!IndexOf(t, s) \in 0 .. Len(s) /\ H!Occurs(t, s, H!IndexOf(t, s))
<1> DEFINE S == {at \in 0 .. Len(s) : H!Occurs(t, s, at)}
<1>1. S \in SUBSET Nat /\ S # {}
  BY DEF H!Holds
<1>2. PICK x \in S : \A y \in S : x <= y
  <2> HIDE DEF S
  <2> QED
    BY <1>1, Least
<1>3. \A at \in 0 .. x - 1 : ~H!Occurs(t, s, at)
  <2> SUFFICES ASSUME NEW at \in 0 .. x - 1, H!Occurs(t, s, at) PROVE FALSE
    OBVIOUS
  <2>1. x \in 0 .. Len(s) /\ at \in 0 .. Len(s) /\ at < x
    BY <1>2
  <2>2. at \in S
    BY <2>1
  <2> HIDE DEF S
  <2> QED
    BY <1>2, <2>1, <2>2
<1>4. \E at \in 0 .. Len(s) : H!Occurs(t, s, at) /\ \A b \in 0 .. at - 1 : ~H!Occurs(t, s, b)
  BY <1>2, <1>3
<1> QED
  BY <1>4 DEF H!IndexOf

(* The three pieces of a text around a term.                                 *)
LEMMA Pieces ==
  ASSUME NEW t \in Seq(Letter), NEW s \in Seq(Letter), NEW pos \in 0 .. Len(s), H!Occurs(t, s, pos)
  PROVE  /\ SubSeq(s, 1, pos) \in Seq(Letter)
         /\ SubSeq(s, pos + 1, pos + Len(t)) = t
         /\ SubSeq(s, pos + Len(t) + 1, Len(s)) \in Seq(Letter)
         /\ s = (SubSeq(s, 1, pos) \o t) \o SubSeq(s, pos + Len(t) + 1, Len(s))
<1>1. pos + Len(t) <= Len(s) /\ SubSeq(s, pos + 1, pos + Len(t)) = t
  BY DEF H!Occurs
<1>2. SubSeq(s, 1, pos) \in Seq(Letter) /\ SubSeq(s, pos + Len(t) + 1, Len(s)) \in Seq(Letter)
  BY <1>1
<1>3. s = (SubSeq(s, 1, pos) \o SubSeq(s, pos + 1, pos + Len(t))) \o SubSeq(s, pos + Len(t) + 1, Len(s))
  <2>1. pos + Len(t) \in pos .. Len(s)
    BY <1>1
  <2> QED
    BY <2>1, ThreeParts
<1> QED
  BY <1>1, <1>2, <1>3

(* A sequence, or a function on a row of numbers, with three more elements.  *)
ThreeMore(t, E, u, x, y, z) ==
  /\ t \in [1 .. Len(u) + 3 -> E] /\ t \in Seq(E) /\ Len(t) = Len(u) + 3
  /\ \A k \in 1 .. Len(u) : t[k] = u[k]
  /\ t[Len(u) + 1] = x /\ t[Len(u) + 2] = y /\ t[Len(u) + 3] = z

(* What stands where after three elements more.                              *)
LEMMA ThreeAppended ==
  ASSUME NEW E, NEW u \in Seq(E), NEW x \in E, NEW y \in E, NEW z \in E
  PROVE  ThreeMore(u \o <<x, y, z>>, E, u, x, y, z)
<1> DEFINE t == u \o <<x, y, z>>
<1>1. /\ t \in Seq(E) /\ Len(t) = Len(u) + 3
      /\ \A k \in 1 .. Len(u) : t[k] = u[k]
      /\ t[Len(u) + 1] = x /\ t[Len(u) + 2] = y /\ t[Len(u) + 3] = z
  OBVIOUS
<1> HIDE DEF t
<1>2. t \in [1 .. Len(u) + 3 -> E]
  <2>1. t \in [1 .. Len(t) -> E]
    BY <1>1
  <2> QED
    BY <1>1, <2>1
<1>3. ThreeMore(t, E, u, x, y, z)
  BY <1>1, <1>2 DEF ThreeMore
<1> QED
  BY <1>3 DEF t

(* Split cuts the text of the child under the walk.                          *)
LEMMA SplitCuts ==
  ASSUME HPage, terms \in Seq(Terms), terms # <<>>,
         NEW m, NEW at \in Nat, NEW c, Place(m, at, c),
         m = H!Top.node, at = H!Top.i + 1,
         H!Holds(Head(terms), text[c]), H!Split(c)
  PROVE  \E a, d \in Seq(Letter) : Cut(m, at, c, a, Head(terms), d)
<1> DEFINE N == Len(kind)
           t == Head(terms)
           s == text[c]
           pos == H!IndexOf(t, s)
           a == SubSeq(s, 1, pos)
           d == SubSeq(s, pos + Len(t) + 1, Len(s))
<1>1. /\ t \in Seq(Letter) /\ t \in Terms
  <2>1. Terms \subseteq Seq(Letter)
    BY ScriptsAssumption DEF H!HighlightTextAssumption
  <2> QED
    BY <2>1
<1>2. c \in 1 .. N /\ s \in Seq(Letter) /\ N \in Nat /\ m \in 1 .. N /\ kids[m] \in Seq(1 .. N) /\ at \in 1 .. Len(kids[m])
  <2>1. /\ m \in 1 .. N /\ at \in 1 .. Len(kids[m]) /\ kids[m][at] = c
        /\ kids \in [1 .. N -> Seq(1 .. N)] /\ text \in [1 .. N -> Seq(Letter)]
    BY DEF HPage, Typed, Place
  <2>2. kids[m][at] \in 1 .. N
    BY <2>1, ListElements, SMTT(30)
  <2>3. N \in Nat
    BY DEF HPage, Typed
  <2> QED
    BY <2>1, <2>2, <2>3
<1>3. /\ kind' = kind \o <<"text", "mark", "text">>
      /\ text' = [text EXCEPT ![c] = a] \o <<d, <<>>, SubSeq(s, pos + 1, pos + Len(t))>>
      /\ kids' = [kids EXCEPT ![m] = SubSeq(kids[m], 1, at) \o <<N + 2, (N + 2) - 1>> \o SubSeq(kids[m], at + 1, Len(kids[m]))]
                   \o <<<<>>, <<(N + 2) + 1>>, <<>>>>
  BY DEF H!Split
<1>4. pos \in 0 .. Len(s) /\ H!Occurs(t, s, pos)
  BY <1>1, <1>2, Occurrence
<1>5. a \in Seq(Letter) /\ d \in Seq(Letter) /\ s = (a \o t) \o d /\ SubSeq(s, pos + 1, pos + Len(t)) = t
  BY <1>1, <1>2, <1>4, Pieces
<1> HIDE DEF pos, a, d, t
<1>6. /\ kind' \in Seq(Kinds) /\ Len(kind') = N + 3
      /\ \A x \in 1 .. N : kind'[x] = kind[x]
      /\ kind'[N + 1] = "text" /\ kind'[N + 2] = "mark" /\ kind'[N + 3] = "text"
  <2>1. kind \in Seq(Kinds) /\ "text" \in Kinds /\ "mark" \in Kinds
    BY DEF HPage, Typed, Kinds
  <2>2. ThreeMore(kind', Kinds, kind, "text", "mark", "text")
    BY <1>3, <2>1, ThreeAppended
  <2> QED
    BY <2>2 DEF ThreeMore
<1>7. /\ text' \in [1 .. N + 3 -> Seq(Letter)]
      /\ \A x \in 1 .. N : x # c => text'[x] = text[x]
      /\ text'[c] = a /\ text'[N + 1] = d /\ text'[N + 2] = <<>> /\ text'[N + 3] = t
  <2> DEFINE u == [text EXCEPT ![c] = a]
  <2>1. u \in [1 .. N -> Seq(Letter)] /\ u[c] = a /\ \A x \in 1 .. N : x # c => u[x] = text[x]
    BY <1>2, <1>5 DEF HPage, Typed
  <2>2. text' = u \o <<d, <<>>, t>>
    BY <1>3, <1>5
  <2> HIDE DEF u
  <2>3. PICK E : E = Seq(Letter)
    OBVIOUS
  <2>4. <<>> \in E /\ d \in E /\ t \in E /\ u \in [1 .. N -> E]
    BY <1>1, <1>5, <2>1, <2>3
  <2>5. u \in Seq(E) /\ Len(u) = N
    <3>1. N \in Nat /\ u \in [1 .. N -> E]
      BY <1>2, <2>4
    <3> QED
      BY <3>1, RowSeq
  <2>6. ThreeMore(text', E, u, d, <<>>, t)
    BY <2>2, <2>4, <2>5, ThreeAppended
  <2> QED
    BY <1>2, <2>1, <2>3, <2>5, <2>6 DEF ThreeMore
<1> DEFINE new == SubSeq(kids[m], 1, at) \o <<N + 2, N + 1>> \o SubSeq(kids[m], at + 1, Len(kids[m]))
<1>8. Inserted(new, 1 .. N + 3, kids[m], at, N + 2, N + 1)
  <2>1. PICK w, A, B : w = kids[m] /\ A = 1 .. N /\ B = 1 .. N + 3
    OBVIOUS
  <2>2. /\ w \in Seq(A) /\ at \in 0 .. Len(w) /\ A \subseteq B
        /\ N + 2 \in B /\ N + 1 \in B
    BY <1>2, <2>1
  <2>3. PICK x, y : x = N + 2 /\ y = N + 1
    OBVIOUS
  <2> DEFINE tt == Inserting(w, at, x, y)
  <2>4. Inserted(tt, B, w, at, x, y)
    <3>1. at \in 0 .. Len(w) /\ w \in Seq(B) /\ x \in B /\ y \in B
      BY <2>2, <2>3
    <3> QED
      BY <3>1, InsertingInserts
  <2>5. new = tt
    BY <2>1, <2>3 DEF Inserting
  <2> HIDE DEF tt, new
  <2> QED
    BY <2>1, <2>3, <2>4, <2>5
<1>9. /\ kids' \in [1 .. N + 3 -> Seq(1 .. N + 3)]
      /\ \A x \in 1 .. N : x # m => kids'[x] = kids[x]
      /\ kids'[m] = new
      /\ kids'[N + 1] = <<>> /\ kids'[N + 2] = <<N + 3>> /\ kids'[N + 3] = <<>>
  <2> DEFINE u == [kids EXCEPT ![m] = new]
  <2>1. kids' = u \o <<<<>>, <<N + 3>>, <<>>>>
    <3>1. (N + 2) - 1 = N + 1 /\ (N + 2) + 1 = N + 3
      BY <1>2
    <3> QED
      BY <1>3, <3>1
  <2> HIDE DEF new
  <2>2. DOMAIN u = 1 .. N /\ u[m] = new /\ \A x \in 1 .. N : x # m => u[x] = kids[x]
    BY <1>2 DEF HPage, Typed
  <2>3. PICK E : E = Seq(1 .. N + 3)
    OBVIOUS
  <2>4. u \in [1 .. N -> E]
    <3>1. u = [x \in 1 .. N |-> u[x]]
      BY <2>2
    <3>2. ASSUME NEW x \in 1 .. N PROVE u[x] \in E
      <4>1. kids[x] \in Seq(1 .. N)
        BY <1>2 DEF HPage, Typed
      <4>3. Seq(1 .. N) \subseteq Seq(1 .. N + 3)
        BY <1>2
      <4>2. new \in Seq(1 .. N + 3)
        BY <1>8 DEF Inserted
      <4> HIDE DEF u
      <4> QED
        BY <2>2, <2>3, <4>1, <4>2, <4>3
    <3> HIDE DEF u
    <3> QED
      BY <3>1, <3>2
  <2> HIDE DEF u
  <2>5. u \in Seq(E) /\ Len(u) = N
    <3>1. N \in Nat /\ u \in [1 .. N -> E]
      BY <1>2, <2>4
    <3> QED
      BY <3>1, RowSeq
  <2>6. <<>> \in E /\ <<N + 3>> \in E
    BY <1>2, <2>3
  <2>7. ThreeMore(kids', E, u, <<>>, <<N + 3>>, <<>>)
    BY <2>1, <2>5, <2>6, ThreeAppended
  <2> QED
    BY <1>2, <2>1, <2>2, <2>3, <2>5, <2>7 DEF ThreeMore
<1> HIDE DEF new
<1>10. Cut(m, at, c, a, t, d)
  BY <1>1, <1>2, <1>5, <1>6, <1>7, <1>8, <1>9 DEF Cut
<1> QED
  BY <1>5, <1>10 DEF t

(* Where the nodes of the lists come from after a cut.                       *)
Origin(x, j, m, at) ==
  LET N == Len(kind)
  IN  \/ x \in 1 .. N /\ x # m /\ j \in 1 .. Len(kids[x]) /\ kids'[x][j] = kids[x][j]
      \/ x = m /\ j \in 1 .. at /\ kids'[x][j] = kids[m][j]
      \/ x = m /\ j \in at + 3 .. Len(kids[m]) + 2 /\ kids'[x][j] = kids[m][j - 2]
      \/ x = m /\ j = at + 1 /\ kids'[x][j] = N + 2
      \/ x = m /\ j = at + 2 /\ kids'[x][j] = N + 1
      \/ x = N + 2 /\ j = 1 /\ kids'[x][j] = N + 3

(* The types of the place at which a text is cut.                            *)
LEMMA CutPlace ==
  ASSUME HPage, NEW m, NEW at, NEW c, Place(m, at, c)
  PROVE  \E N, L \in Nat \ {0} :
           /\ N = Len(kind) /\ m \in 1 .. N /\ c \in 1 .. N /\ c # 1 /\ c # m
           /\ kids \in [1 .. N -> Seq(1 .. N)] /\ text \in [1 .. N -> Seq(Letter)]
           /\ kids[c] = <<>> /\ kind[m] = "element" /\ kind[c] = "text"
           /\ L = Len(kids[m]) /\ at \in 1 .. L /\ kids[m][at] = c
<1>1. PICK N \in Nat \ {0} : N = Len(kind)
  BY DEF HPage, Typed
<1>2. /\ kids \in [1 .. N -> Seq(1 .. N)] /\ text \in [1 .. N -> Seq(Letter)]
      /\ m \in 1 .. N /\ kind[m] = "element" /\ at \in 1 .. Len(kids[m]) /\ kids[m][at] = c
      /\ kind[c] = "text" /\ kind[1] = "element"
  BY <1>1 DEF HPage, Typed, Place
<1>3. kids[m] \in Seq(1 .. N)
  BY <1>2
<1>4. c \in 1 .. N /\ Len(kids[m]) \in Nat \ {0}
  <2>1. kids[m][at] \in 1 .. N
    BY <1>2, ListElements
  <2>2. Len(kids[m]) \in Nat
    BY <1>3
  <2> QED
    BY <1>2, <2>1, <2>2
<1>5. c # 1 /\ c # m
  BY <1>2 DEF HPage, Shaped
<1>6. kids[c] = <<>>
  BY <1>1, <1>2, <1>4 DEF HPage, Shaped
<1> QED
  BY <1>1, <1>2, <1>4, <1>5, <1>6

(* Where each child stood before the cut.                                    *)
LEMMA CutOrigins ==
  ASSUME HPage, NEW m, NEW at, NEW c, Place(m, at, c), NEW a, NEW b, NEW d, Cut(m, at, c, a, b, d)
  PROVE  \A x \in 1 .. Len(kind) + 3 : \A j \in 1 .. Len(kids'[x]) : Origin(x, j, m, at)
<1>0. PICK N, L \in Nat \ {0} :
        /\ N = Len(kind) /\ m \in 1 .. N /\ L = Len(kids[m]) /\ at \in 1 .. L
        /\ kids \in [1 .. N -> Seq(1 .. N)]
  BY CutPlace
<1>1. m \in 1 .. N /\ at \in 1 .. L
  BY <1>0
<1>a. \A q \in at + 3 .. L + 2 : q - 2 \in 1 .. L
  BY <1>1
<1>b. \A q \in 1 .. at : q \in 1 .. L
  BY <1>1
<1>c. kids' \in [1 .. N + 3 -> Seq(1 .. N + 3)]
  BY <1>0 DEF Cut
<1>2. /\ \A x \in 1 .. N : x # m => kids'[x] = kids[x]
      /\ kids'[N + 1] = <<>> /\ kids'[N + 2] = <<N + 3>> /\ kids'[N + 3] = <<>>
      /\ Len(kids'[m]) = L + 2
      /\ \A k \in 1 .. at : kids'[m][k] = kids[m][k]
      /\ kids'[m][at + 1] = N + 2 /\ kids'[m][at + 2] = N + 1
      /\ \A k \in at + 3 .. L + 2 : kids'[m][k] = kids[m][k - 2]
  BY <1>0 DEF Cut, Inserted
<1> SUFFICES ASSUME NEW x \in 1 .. N + 3, NEW j \in 1 .. Len(kids'[x]) PROVE Origin(x, j, m, at)
  BY <1>0
<1>3. CASE x \in 1 .. N /\ x # m
  <2>1. kids'[x] = kids[x]
    BY <1>2, <1>3
  <2> QED
    BY <1>0, <1>3, <2>1 DEF Origin
<1>4. CASE x = m
  <2>1. j \in 1 .. L + 2
    BY <1>2, <1>4
  <2>2. j \in 1 .. at \/ j = at + 1 \/ j = at + 2 \/ j \in at + 3 .. L + 2
    BY <1>1, <2>1
  <2> QED
    BY <1>0, <1>2, <1>4, <2>2 DEF Origin
<1>5. CASE x = N + 1 \/ x = N + 3
  <2>1. Len(kids'[x]) = 0
    BY <1>2, <1>5
  <2> QED
    BY <1>c, <2>1
<1>6. CASE x = N + 2
  <2>3. PICK v \in 1 .. N + 3 : v = N + 3
    OBVIOUS
  <2>4. kids'[x] = <<v>>
    BY <1>2, <1>6, <2>3
  <2>1. Len(kids'[x]) = 1 /\ kids'[x][1] = N + 3
    BY <2>3, <2>4
  <2>2. j = 1
    BY <1>c, <2>1
  <2> QED
    BY <1>0, <1>6, <2>1, <2>2 DEF Origin
<1>7. x \in 1 .. N \/ x = N + 1 \/ x = N + 2 \/ x = N + 3
  OBVIOUS
<1> QED
  BY <1>3, <1>4, <1>5, <1>6, <1>7

(* After a cut every node still stands in one place.                         *)
LEMMA CutOnce ==
  ASSUME HPage, NEW m, NEW at, NEW c, Place(m, at, c), NEW a, NEW b, NEW d, Cut(m, at, c, a, b, d)
  PROVE  Once'
<1>0. PICK N, L \in Nat \ {0} :
        /\ N = Len(kind) /\ m \in 1 .. N /\ L = Len(kids[m]) /\ at \in 1 .. L
        /\ kids \in [1 .. N -> Seq(1 .. N)]
  BY CutPlace
<1>1. m \in 1 .. N /\ at \in 1 .. L
  BY <1>0
<1>a. \A q \in at + 3 .. L + 2 : q - 2 \in 1 .. L
  BY <1>1
<1>b. \A q \in 1 .. at : q \in 1 .. L
  BY <1>1
<1>c. kids' \in [1 .. N + 3 -> Seq(1 .. N + 3)]
  BY <1>0 DEF Cut
<1>2. Len(kind') = N + 3
  BY <1>0 DEF Cut
<1>3. \A x \in 1 .. N + 3 : \A j \in 1 .. Len(kids'[x]) : Origin(x, j, m, at)
  BY <1>0, CutOrigins
<1>4. \A x \in 1 .. N : \A j \in 1 .. Len(kids[x]) : kids[x][j] \in 1 .. N
  BY <1>0, ListElements
<1>5. \A x, y \in 1 .. N : \A j \in 1 .. Len(kids[x]), k \in 1 .. Len(kids[y]) :
        kids[x][j] = kids[y][k] => x = y /\ j = k
  BY <1>0 DEF HPage, Once
<1> SUFFICES ASSUME NEW x \in 1 .. N + 3, NEW y \in 1 .. N + 3,
                    NEW j \in 1 .. Len(kids'[x]), NEW k \in 1 .. Len(kids'[y]), kids'[x][j] = kids'[y][k]
             PROVE  x = y /\ j = k
  BY <1>2 DEF Once
<1> DEFINE Old(z, n, v) == z \in 1 .. N /\ n \in 1 .. Len(kids[z]) /\ v = kids[z][n]
           From(z, n, v) ==
             \/ z # m /\ Old(z, n, v)
             \/ z = m /\ n \in 1 .. at /\ Old(z, n, v)
             \/ z = m /\ n \in at + 3 .. L + 2 /\ Old(z, n - 2, v)
             \/ z = m /\ n = at + 1 /\ v = N + 2
             \/ z = m /\ n = at + 2 /\ v = N + 1
             \/ z = N + 2 /\ n = 1 /\ v = N + 3
<1>6. ASSUME NEW z \in 1 .. N + 3, NEW n \in 1 .. Len(kids'[z]) PROVE From(z, n, kids'[z][n])
  <2>1. Origin(z, n, m, at)
    BY <1>3
  <2> QED
    BY <1>0, <1>a, <1>b, <2>1 DEF Origin
<1>7. PICK v : v = kids'[x][j] /\ v = kids'[y][k]
  OBVIOUS
<1>8. From(x, j, v) /\ From(y, k, v)
  BY <1>6, <1>7
<1>9. CASE v \in 1 .. N
  <2> DEFINE Was(z, n) == IF z = m /\ n > at THEN n - 2 ELSE n
  <2>1. ASSUME NEW z, NEW n \in Nat, From(z, n, v)
        PROVE  /\ z \in 1 .. N /\ Was(z, n) \in 1 .. Len(kids[z]) /\ v = kids[z][Was(z, n)]
               /\ z = m => n \in 1 .. at \/ n \in at + 3 .. L + 2
    <3>1. v # N + 1 /\ v # N + 2 /\ v # N + 3
      BY <1>9
    <3>2. \A q \in at + 3 .. L + 2 : q > at
      BY <1>1
    <3>3. \A q \in 1 .. at : ~(q > at)
      BY <1>1
    <3> QED
      BY <2>1, <3>1, <3>2, <3>3
  <2>2. j \in Nat /\ k \in Nat
    BY <1>c
  <2>8. PICK w, u : w = Was(x, j) /\ u = Was(y, k)
    OBVIOUS
  <2>3. /\ x \in 1 .. N /\ w \in 1 .. Len(kids[x]) /\ v = kids[x][w]
        /\ x = m => j \in 1 .. at \/ j \in at + 3 .. L + 2
    BY <1>8, <2>1, <2>2, <2>8
  <2>4. /\ y \in 1 .. N /\ u \in 1 .. Len(kids[y]) /\ v = kids[y][u]
        /\ y = m => k \in 1 .. at \/ k \in at + 3 .. L + 2
    BY <1>8, <2>1, <2>2, <2>8
  <2>5. x = y /\ w = u
    <3>1. kids[x][w] = kids[y][u]
      BY <2>3, <2>4
    <3>2. \A p \in 1 .. Len(kids[x]), q \in 1 .. Len(kids[y]) : kids[x][p] = kids[y][q] => x = y /\ p = q
      <4>1. x \in 1 .. N /\ y \in 1 .. N
        BY <2>3, <2>4
      <4> QED
        BY <1>5, <4>1, Zenon
    <3> QED
      BY <2>3, <2>4, <3>1, <3>2, Zenon
  <2>6. CASE x = m
    <3>1. k \in 1 .. at \/ k \in at + 3 .. L + 2
      BY <2>4, <2>5, <2>6
    <3>2. /\ \A q \in 1 .. at : q \in Int /\ ~(q > at)
          /\ \A q \in at + 3 .. L + 2 : q \in Int /\ q > at /\ q - 2 > at
      BY <1>1
    <3>3. w = (IF j > at THEN j - 2 ELSE j) /\ w = (IF k > at THEN k - 2 ELSE k)
      BY <2>5, <2>6, <2>8
    <3>4. j \in 1 .. at \/ j \in at + 3 .. L + 2
      BY <2>3, <2>6
    <3>5. at \in Int /\ j \in Int /\ k \in Int
      BY <1>1, <2>2
    <3>6. (~(j > at) /\ w = j) \/ (j > at /\ w = j - 2 /\ j - 2 > at)
      BY <3>2, <3>3, <3>4
    <3>7. (~(k > at) /\ w = k) \/ (k > at /\ w = k - 2 /\ k - 2 > at)
      BY <3>1, <3>2, <3>3
    <3> QED
      BY <2>5, <3>5, <3>6, <3>7
  <2>7. CASE x # m
    BY <2>5, <2>7, <2>8
  <2> QED
    BY <2>5, <2>6, <2>7
<1>10. CASE v \notin 1 .. N
  <2>1. \A z, n : Old(z, n, v) => v \in 1 .. N
    BY <1>4
  <2>2. N + 1 # N + 2 /\ N + 1 # N + 3 /\ N + 2 # N + 3
    OBVIOUS
  <2> HIDE DEF Old
  <2> QED
    BY <1>8, <1>10, <2>1, <2>2
<1> QED
  BY <1>9, <1>10

(* After a cut every node still has the form of its kind.                    *)
LEMMA CutShaped ==
  ASSUME HPage, NEW m, NEW at, NEW c, Place(m, at, c), NEW a, NEW b \in Terms, NEW d, Cut(m, at, c, a, b, d)
  PROVE  \A n \in 1 .. Len(kind) + 3 : Shaped(n)'
<1>0. PICK N, L \in Nat \ {0} :
        /\ N = Len(kind) /\ m \in 1 .. N /\ L = Len(kids[m]) /\ at \in 1 .. L
        /\ kids \in [1 .. N -> Seq(1 .. N)] /\ c \in 1 .. N /\ c # m /\ kind[m] = "element" /\ kind[c] = "text"
        /\ kids[m][at] = c
  BY CutPlace
<1>a. \A q \in at + 3 .. L + 2 : q - 2 \in 1 .. L
  BY <1>0
<1>b. \A q \in 1 .. at : q \in 1 .. L
  BY <1>0
<1>c. kids' \in [1 .. N + 3 -> Seq(1 .. N + 3)]
  BY <1>0 DEF Cut
<1>1. /\ m \in 1 .. N /\ at \in 1 .. L
      /\ c \in 1 .. N /\ c # m /\ kind[m] = "element" /\ kind[c] = "text"
      /\ kids[m][at] = c
  BY <1>0
<1>2. /\ \A x \in 1 .. N : kind'[x] = kind[x]
      /\ kind'[N + 1] = "text" /\ kind'[N + 2] = "mark" /\ kind'[N + 3] = "text"
      /\ \A x \in 1 .. N : x # c => text'[x] = text[x]
      /\ text'[N + 2] = <<>> /\ text'[N + 3] = b
      /\ \A x \in 1 .. N : x # m => kids'[x] = kids[x]
      /\ kids'[N + 1] = <<>> /\ kids'[N + 2] = <<N + 3>> /\ kids'[N + 3] = <<>>
  BY <1>0 DEF Cut
<1>3. \A x \in 1 .. N + 3 : \A j \in 1 .. Len(kids'[x]) : Origin(x, j, m, at)
  BY <1>0, CutOrigins
<1>4. \A x \in 1 .. N : \A j \in 1 .. Len(kids[x]) : kids[x][j] \in 1 .. N
  BY <1>0
<1>5. \A n \in 1 .. N : Shaped(n)
  BY <1>0 DEF HPage
<1> SUFFICES ASSUME NEW n \in 1 .. N + 3 PROVE Shaped(n)'
  BY <1>0
<1>6. CASE n \in 1 .. N /\ n # m
  <2>1. kids'[n] = kids[n] /\ kind'[n] = kind[n] /\ Shaped(n)
    BY <1>2, <1>5, <1>6
  <2>2. \A k \in 1 .. Len(kids[n]) : kind'[kids[n][k]] = kind[kids[n][k]] /\ kids[n][k] # c
    <3>1. \A k \in 1 .. Len(kids[n]) : kids[n][k] = kids[m][at] => n = m
      BY <1>0, <1>6 DEF HPage, Once
    <3> QED
      BY <1>1, <1>2, <1>4, <1>6, <3>1
  <2>3. kind[n] # "text" => text'[n] = text[n]
    BY <1>1, <1>2, <1>6
  <2>4. Len(kids[n]) = 1 => kind'[kids[n][1]] = kind[kids[n][1]] /\ text'[kids[n][1]] = text[kids[n][1]]
    BY <1>2, <1>4, <1>6, <2>2
  <2> QED
    BY <2>1, <2>2, <2>3, <2>4 DEF Shaped
<1>7. CASE n = m
  <2>1. kind'[n] = "element" /\ text'[n] = text[n] /\ Shaped(n)
    BY <1>1, <1>2, <1>5, <1>7
  <2>2. \A k \in 1 .. L : /\ kids[m][k] # 1 /\ kind'[kids[m][k]] = kind[kids[m][k]]
                          /\ m # 1 => kind[kids[m][k]] \in {"text", "mark"}
                          /\ kind[kids[m][k]] # "none"
    <3>1. L = Len(kids[m])
      BY <1>0
    <3>2. \A k \in 1 .. L : kids[m][k] \in 1 .. N
      BY <1>1, <1>4, <3>1
    <3> QED
      BY <1>1, <1>2, <1>7, <2>1, <3>1, <3>2 DEF Shaped
  <2>5. ASSUME NEW k \in 1 .. Len(kids'[m])
        PROVE  /\ kids'[m][k] # 1
               /\ m # 1 => kind'[kids'[m][k]] \in {"text", "mark"}
               /\ kind'[kids'[m][k]] # "none"
    <3>1. Origin(m, k, m, at)
      BY <1>1, <1>3
    <3>2. \/ k \in 1 .. at /\ kids'[m][k] = kids[m][k]
          \/ k \in at + 3 .. L + 2 /\ kids'[m][k] = kids[m][k - 2]
          \/ kids'[m][k] = N + 2
          \/ kids'[m][k] = N + 1
      BY <1>0, <1>1, <3>1 DEF Origin
    <3>3. CASE k \in 1 .. at /\ kids'[m][k] = kids[m][k]
      <4>1. k \in 1 .. L
        BY <1>b, <3>3
      <4>2. /\ kids[m][k] # 1 /\ kind'[kids[m][k]] = kind[kids[m][k]]
            /\ m # 1 => kind[kids[m][k]] \in {"text", "mark"}
            /\ kind[kids[m][k]] # "none"
        BY <2>2, <4>1
      <4> QED
        BY <3>3, <4>2
    <3>4. CASE k \in at + 3 .. L + 2 /\ kids'[m][k] = kids[m][k - 2]
      <4>1. PICK q : q = k - 2
        OBVIOUS
      <4>2. q \in 1 .. L /\ kids'[m][k] = kids[m][q]
        BY <1>a, <3>4, <4>1
      <4>3. /\ kids[m][q] # 1 /\ kind'[kids[m][q]] = kind[kids[m][q]]
            /\ m # 1 => kind[kids[m][q]] \in {"text", "mark"}
            /\ kind[kids[m][q]] # "none"
        BY <2>2, <4>2
      <4> QED
        BY <4>2, <4>3
    <3>5. CASE kids'[m][k] = N + 2
      BY <1>2, <3>5
    <3>6. CASE kids'[m][k] = N + 1
      BY <1>2, <3>6
    <3> QED
      BY <3>2, <3>3, <3>4, <3>5, <3>6
  <2>6. text[n] = <<>>
    BY <1>1, <1>7, <2>1 DEF Shaped
  <2> QED
    BY <1>7, <2>1, <2>5, <2>6 DEF Shaped
<1>8. CASE n = N + 1
  BY <1>2, <1>8 DEF Shaped
<1>9. CASE n = N + 3
  BY <1>2, <1>9 DEF Shaped
<1>10. CASE n = N + 2
  <2>3. PICK v \in 1 .. N + 3 : v = N + 3
    OBVIOUS
  <2>4. kids'[n] = <<v>>
    BY <1>2, <1>10, <2>3
  <2>1. Len(kids'[n]) = 1 /\ kids'[n][1] = N + 3 /\ N + 3 # 1
    BY <2>3, <2>4
  <2>2. \A k \in 1 .. Len(kids'[n]) : k = 1
    BY <2>1
  <2> QED
    BY <1>2, <1>10, <2>1, <2>2 DEF Shaped
<1>11. n \in 1 .. N \/ n = N + 1 \/ n = N + 2 \/ n = N + 3
  OBVIOUS
<1> QED
  BY <1>6, <1>7, <1>8, <1>9, <1>10, <1>11

(* A cut leaves a page.                                                      *)
LEMMA CutPage ==
  ASSUME HPage, NEW m, NEW at, NEW c, Place(m, at, c), NEW a, NEW b \in Terms, NEW d, Cut(m, at, c, a, b, d)
  PROVE  HPage'
<1>0. PICK N, L \in Nat \ {0} :
        /\ N = Len(kind) /\ m \in 1 .. N /\ L = Len(kids[m]) /\ at \in 1 .. L
        /\ kind[m] = "element"
  BY CutPlace
<1>1. m \in 1 .. N /\ at \in 1 .. L /\ kind[m] = "element"
  BY <1>0
<1>2. /\ kind' \in Seq(Kinds) /\ Len(kind') = N + 3
      /\ \A x \in 1 .. N : kind'[x] = kind[x]
      /\ kind'[N + 1] = "text" /\ kind'[N + 3] = "text"
      /\ text' \in [1 .. N + 3 -> Seq(Letter)]
      /\ kids' \in [1 .. N + 3 -> Seq(1 .. N + 3)]
      /\ \A x \in 1 .. N : x # m => kids'[x] = kids[x]
  BY <1>0 DEF Cut
<1>c. /\ at + 1 \in 1 .. L + 2 /\ N + 3 \in Nat /\ m \in 1 .. N + 3 /\ 1 .. N \subseteq 1 .. N + 3
      /\ \A k \in 1 .. at : k \in 1 .. L + 2
      /\ \A k \in 1 .. L : k <= at \/ (k + 2 \in at + 3 .. L + 2 /\ (k + 2) - 2 = k /\ k + 2 \in 1 .. L + 2)
      /\ \A k \in 1 .. L : k <= at => k \in 1 .. at
  BY <1>1
<1>d. \A n \in 1 .. N + 3 : n \in 1 .. N \/ n = N + 1 \/ n = N + 2 \/ n = N + 3
  OBVIOUS
<1>3. Typed'
  <2>1. kind[1] = "element" /\ 1 \in 1 .. N
    BY <1>0 DEF HPage, Typed
  <2> QED
    BY <1>2, <2>1 DEF Typed
<1>4. \A n \in 1 .. Len(kind') : Shaped(n)'
  BY <1>0, <1>2, CutShaped
<1>5. Once'
  BY CutOnce
<1>6. ASSUME NEW n \in 1 .. Len(kind'), kind'[n] = "mark" PROVE InElement(n)'
  <2>0. /\ Len(kids'[m]) = L + 2
        /\ \A k \in 1 .. at : kids'[m][k] = kids[m][k]
        /\ kids'[m][at + 1] = N + 2
        /\ \A k \in at + 3 .. L + 2 : kids'[m][k] = kids[m][k - 2]
    BY <1>0 DEF Cut, Inserted
  <2>1. CASE n \in 1 .. N
    <3>a. PICK x \in 1 .. N : kind[x] = "element" /\ \E k \in 1 .. Len(kids[x]) : kids[x][k] = n
      BY <1>0, <1>2, <1>6, <2>1 DEF HPage, InElement
    <3>1. PICK k \in 1 .. Len(kids[x]) : kind[x] = "element" /\ kids[x][k] = n
      BY <3>a
    <3>2. \E j \in 1 .. Len(kids'[x]) : kids'[x][j] = n
      <4>1. CASE x # m
        BY <1>2, <3>1, <4>1
      <4>2. CASE x = m /\ k <= at
        <5>1. k \in 1 .. at
          BY <1>0, <1>c, <3>1, <4>2
        <5> QED
          BY <1>c, <2>0, <3>1, <4>2, <5>1
      <4>3. CASE x = m /\ ~(k <= at)
        <5>1. k + 2 \in at + 3 .. L + 2 /\ (k + 2) - 2 = k /\ k + 2 \in 1 .. L + 2
          BY <1>0, <1>c, <3>1, <4>3
        <5> QED
          BY <2>0, <3>1, <4>3, <5>1
      <4> QED
        BY <4>1, <4>2, <4>3
    <3>3. kind'[x] = "element" /\ x \in 1 .. Len(kind')
      BY <1>2, <1>c, <3>1
    <3> QED
      BY <3>2, <3>3 DEF InElement
  <2>2. CASE n = N + 2
    <3>1. at + 1 \in 1 .. Len(kids'[m]) /\ kids'[m][at + 1] = n /\ kind'[m] = "element" /\ m \in 1 .. Len(kind')
      BY <1>1, <1>2, <1>c, <2>0, <2>2
    <3> QED
      BY <3>1 DEF InElement
  <2> QED
    BY <1>2, <1>6, <1>d, <2>1, <2>2
<1> QED
  BY <1>3, <1>4, <1>5, <1>6 DEF HPage

-----------------------------------------------------------------------------
(* What a page reads.                                                        *)

(* The texts of the nodes ns, one after the other.                           *)
Line(ns, f) == Joined([k \in DOMAIN ns |-> f[ns[k]]])

(* The texts of a sequence of nodes.                                         *)
LEMMA LineOfTexts ==
  ASSUME NEW F, NEW S, NEW f \in [S -> F], NEW ns \in Seq(S)
  PROVE  LET ss == [k \in DOMAIN ns |-> f[ns[k]]]
         IN  ss \in Seq(F) /\ Len(ss) = Len(ns) /\ \A k \in 1 .. Len(ns) : ss[k] = f[ns[k]]
<1>1. PICK L \in Nat : L = Len(ns) /\ DOMAIN ns = 1 .. L
  OBVIOUS
<1>2. [k \in 1 .. L |-> f[ns[k]]] \in [1 .. L -> F]
  BY <1>1
<1> QED
  BY <1>1, <1>2

(* The nodes of a line read as a sequence of letters.                        *)
LEMMA LineType ==
  ASSUME NEW E, NEW S, NEW f \in [S -> Seq(E)], NEW ns \in Seq(S)
  PROVE  Line(ns, f) \in Seq(E)
<1>1. PICK F : F = Seq(E)
  OBVIOUS
<1>2. f \in [S -> F]
  BY <1>1
<1>3. [k \in DOMAIN ns |-> f[ns[k]]] \in Seq(F)
  BY <1>2, LineOfTexts
<1> QED
  BY <1>1, <1>3, JoinedSeq DEF Line

(* A line reads the same if its nodes do.                                    *)
LEMMA LineSame ==
  ASSUME NEW ns, NEW f, NEW g, \A k \in DOMAIN ns : g[ns[k]] = f[ns[k]]
  PROVE  Line(ns, g) = Line(ns, f)
<1>1. [k \in DOMAIN ns |-> g[ns[k]]] = [k \in DOMAIN ns |-> f[ns[k]]]
  OBVIOUS
<1> QED
  BY <1>1 DEF Line

(* An empty line reads as nothing.                                           *)
LEMMA LineNone == ASSUME NEW f PROVE Line(<<>>, f) = <<>>
<1>1. [k \in DOMAIN <<>> |-> f[<<>>[k]]] = <<>>
  OBVIOUS
<1> QED
  BY <1>1, JoinedNone DEF Line

(* A line of one node reads as that node.                                    *)
LEMMA LineOne ==
  ASSUME NEW E, NEW f, NEW n, f[n] \in Seq(E)
  PROVE  Line(<<n>>, f) = f[n]
<1>1. [k \in DOMAIN <<n>> |-> f[<<n>>[k]]] = <<f[n]>>
  OBVIOUS
<1> QED
  BY <1>1, JoinedOne DEF Line

(* The list nt has three nodes for one of the list ns, and they read alike.   *)
LineCut(E, N, ns, f, nt, g, at, a, b, d) ==
  /\ N \in Nat
  /\ f \in [1 .. N -> Seq(E)] /\ g \in [1 .. N + 3 -> Seq(E)]
  /\ ns \in Seq(1 .. N) /\ at \in 1 .. Len(ns)
  /\ Inserted(nt, 1 .. N + 3, ns, at, N + 2, N + 1)
  /\ a \in Seq(E) /\ b \in Seq(E) /\ d \in Seq(E)
  /\ f[ns[at]] = (a \o b) \o d
  /\ g[ns[at]] = a /\ g[N + 2] = b /\ g[N + 1] = d
  /\ \A k \in 1 .. Len(ns) : k # at => g[ns[k]] = f[ns[k]]

(* A line in which one text is cut reads as before.                          *)
LEMMA LineApart ==
  ASSUME NEW E, NEW N, NEW ns, NEW f, NEW nt, NEW g, NEW at, NEW a, NEW b, NEW d,
         LineCut(E, N, ns, f, nt, g, at, a, b, d)
  PROVE  Line(nt, g) = Line(ns, f)
<1>0. PICK L \in Nat : L = Len(ns)
  BY DEF LineCut
<1>1. /\ N \in Nat
      /\ f \in [1 .. N -> Seq(E)] /\ g \in [1 .. N + 3 -> Seq(E)]
      /\ ns \in Seq(1 .. N) /\ at \in 1 .. L
      /\ a \in Seq(E) /\ b \in Seq(E) /\ d \in Seq(E)
  BY <1>0 DEF LineCut
<1>2. /\ f[ns[at]] = (a \o b) \o d
      /\ g[ns[at]] = a /\ g[N + 2] = b /\ g[N + 1] = d
      /\ \A k \in 1 .. L : k # at => g[ns[k]] = f[ns[k]]
  BY <1>0 DEF LineCut
<1>3. /\ nt \in Seq(1 .. N + 3) /\ Len(nt) = L + 2
      /\ \A k \in 1 .. at : nt[k] = ns[k]
      /\ nt[at + 1] = N + 2 /\ nt[at + 2] = N + 1
      /\ \A k \in at + 3 .. L + 2 : nt[k] = ns[k - 2]
  BY <1>0 DEF LineCut, Inserted
<1> DEFINE ss == [k \in DOMAIN ns |-> f[ns[k]]]
           tt == [k \in DOMAIN nt |-> g[nt[k]]]
<1>4. DOMAIN ns = 1 .. L /\ DOMAIN nt = 1 .. L + 2
  BY <1>0, <1>1, <1>3
<1>5. ss \in Seq(Seq(E)) /\ Len(ss) = L /\ \A k \in 1 .. L : ss[k] = f[ns[k]]
  <2>1. PICK F, S : F = Seq(E) /\ S = 1 .. N
    OBVIOUS
  <2>2. f \in [S -> F] /\ ns \in Seq(S)
    BY <1>1, <2>1
  <2>3. ss \in Seq(F) /\ Len(ss) = Len(ns) /\ \A k \in 1 .. Len(ns) : ss[k] = f[ns[k]]
    BY <2>2, LineOfTexts
  <2> QED
    BY <1>0, <2>1, <2>3
<1>6. tt \in Seq(Seq(E)) /\ Len(tt) = L + 2 /\ \A k \in 1 .. L + 2 : tt[k] = g[nt[k]]
  <2>1. PICK F, S : F = Seq(E) /\ S = 1 .. N + 3
    OBVIOUS
  <2>2. g \in [S -> F] /\ nt \in Seq(S)
    BY <1>1, <1>3, <2>1
  <2>3. tt \in Seq(F) /\ Len(tt) = Len(nt) /\ \A k \in 1 .. Len(nt) : tt[k] = g[nt[k]]
    BY <2>2, LineOfTexts
  <2> QED
    BY <1>3, <2>1, <2>3
<1> HIDE DEF ss, tt
<1>7. Apart(ss, tt, at, a, b, d)
  <2>1. at \in 1 .. L + 2 /\ at + 1 \in 1 .. L + 2 /\ at + 2 \in 1 .. L + 2 /\ at \in 1 .. at
    BY <1>1
  <2>2. ss[at] = (a \o b) \o d
    BY <1>1, <1>2, <1>5
  <2>3. tt[at] = a
    BY <1>2, <1>3, <1>6, <2>1
  <2>4. tt[at + 1] = b
    BY <1>2, <1>3, <1>6, <2>1
  <2>5. tt[at + 2] = d
    BY <1>2, <1>3, <1>6, <2>1
  <2>6. ASSUME NEW j \in 1 .. at - 1 PROVE tt[j] = ss[j]
    <3>1. j \in 1 .. L + 2 /\ j \in 1 .. L /\ j \in 1 .. at /\ j # at
      BY <1>1
    <3>2. nt[j] = ns[j] /\ g[ns[j]] = f[ns[j]]
      BY <1>2, <1>3, <3>1
    <3>3. tt[j] = g[nt[j]] /\ ss[j] = f[ns[j]]
      BY <1>5, <1>6, <3>1
    <3> QED
      BY <3>2, <3>3
  <2>7. ASSUME NEW j \in at + 1 .. L PROVE tt[j + 2] = ss[j]
    <3>1. j + 2 \in 1 .. L + 2 /\ j \in 1 .. L /\ j + 2 \in at + 3 .. L + 2 /\ j # at /\ (j + 2) - 2 = j
      BY <1>1
    <3>2. nt[j + 2] = ns[j]
      BY <1>3, <3>1
    <3>3. tt[j + 2] = g[nt[j + 2]] /\ ss[j] = f[ns[j]]
      BY <1>5, <1>6, <3>1
    <3> QED
      BY <1>2, <3>1, <3>2, <3>3
  <2>8. Len(tt) = Len(ss) + 2 /\ at \in 1 .. Len(ss)
    BY <1>1, <1>5, <1>6
  <2>9. \A j \in 1 .. at - 1 : tt[j] = ss[j]
    BY <2>6
  <2>10. \A j \in at + 1 .. Len(ss) : tt[j + 2] = ss[j]
    BY <1>5, <2>7
  <2> QED
    BY <2>2, <2>3, <2>4, <2>5, <2>8, <2>9, <2>10 DEF Apart
<1>8. Joined(tt) = Joined(ss)
  BY <1>1, <1>5, <1>6, <1>7, JoinedApart
<1> QED
  BY <1>8 DEF Line, ss, tt

(* A page as a function of its lists and texts.                              *)
MarkTexts(N, ks, tx) == [y \in 1 .. N |-> tx[y] \o Line(ks[y], tx)]
ChildTexts(N, ks, tx) == [y \in 1 .. N |-> tx[y] \o Line(ks[y], MarkTexts(N, ks, tx))]
PageText(N, ks, tx) == Line(ks[1], ChildTexts(N, ks, tx))

(* What a page reads, by its lines.                                          *)
LEMMA PageReads ==
  ASSUME NEW N \in Nat \ {0}, kids \in [1 .. N -> Seq(1 .. N)]
  PROVE  H!TextOfPage = PageText(N, kids, text)
<1>1. ASSUME NEW y \in 1 .. N PROVE H!TextOfMark(y) = MarkTexts(N, kids, text)[y]
  BY HOperators DEF H!TextOfMark, MarkTexts, Line
<1>2. ASSUME NEW y \in 1 .. N PROVE H!TextOfChild(y) = ChildTexts(N, kids, text)[y]
  <2>1. [k \in DOMAIN kids[y] |-> H!TextOfMark(kids[y][k])]
        = [k \in DOMAIN kids[y] |-> MarkTexts(N, kids, text)[kids[y][k]]]
    <3>1. ASSUME NEW k \in DOMAIN kids[y] PROVE kids[y][k] \in 1 .. N
      OBVIOUS
    <3> QED
      BY <1>1, <3>1
  <2> QED
    BY <2>1, HOperators DEF H!TextOfChild, ChildTexts, Line
<1>3. [k \in DOMAIN kids[1] |-> H!TextOfChild(kids[1][k])]
      = [k \in DOMAIN kids[1] |-> ChildTexts(N, kids, text)[kids[1][k]]]
  <2>1. ASSUME NEW k \in DOMAIN kids[1] PROVE kids[1][k] \in 1 .. N
    OBVIOUS
  <2> QED
    BY <1>2, <2>1
<1> QED
  BY <1>3, HOperators DEF H!TextOfPage, H!Root, PageText, Line

(* The same after a step.                                                    *)
LEMMA PageReadsNext ==
  ASSUME NEW N \in Nat \ {0}, kids' \in [1 .. N -> Seq(1 .. N)]
  PROVE  H!TextOfPage' = PageText(N, kids', text')
<1>1. ASSUME NEW y \in 1 .. N PROVE H!TextOfMark(y)' = MarkTexts(N, kids', text')[y]
  BY HOperators DEF H!TextOfMark, MarkTexts, Line
<1>2. ASSUME NEW y \in 1 .. N PROVE H!TextOfChild(y)' = ChildTexts(N, kids', text')[y]
  <2>1. [k \in DOMAIN kids'[y] |-> H!TextOfMark(kids[y][k])']
        = [k \in DOMAIN kids'[y] |-> MarkTexts(N, kids', text')[kids'[y][k]]]
    <3>1. ASSUME NEW k \in DOMAIN kids'[y] PROVE H!TextOfMark(kids[y][k])' = MarkTexts(N, kids', text')[kids'[y][k]]
      <4>1. kids'[y][k] \in 1 .. N
        OBVIOUS
      <4> QED
        BY <4>1, HOperators DEF H!TextOfMark, MarkTexts, Line
    <3> QED
      BY <3>1
  <2> QED
    BY <2>1, HOperators DEF H!TextOfChild, ChildTexts, Line
<1>3. [k \in DOMAIN kids'[1] |-> H!TextOfChild(kids[1][k])']
      = [k \in DOMAIN kids'[1] |-> ChildTexts(N, kids', text')[kids'[1][k]]]
  <2>1. ASSUME NEW k \in DOMAIN kids'[1] PROVE H!TextOfChild(kids[1][k])' = ChildTexts(N, kids', text')[kids'[1][k]]
    <3>1. PICK y \in 1 .. N : y = kids'[1][k]
      OBVIOUS
    <3>2. H!TextOfChild(kids[1][k])' = H!TextOfChild(y)'
      BY <3>1 DEF H!TextOfChild, H!TextOfMark
    <3> QED
      BY <1>2, <3>1, <3>2
  <2> QED
    BY <2>1
<1> QED
  BY <1>3, HOperators DEF H!TextOfPage, H!Root, PageText, Line

(* A cut changes nothing of what the page reads.                             *)
LEMMA CutReads ==
  ASSUME HPage, NEW m, NEW at, NEW c, Place(m, at, c), NEW a \in Seq(Letter), NEW b \in Seq(Letter),
         NEW d \in Seq(Letter), Cut(m, at, c, a, b, d)
  PROVE  H!TextOfPage' = H!TextOfPage
<1>0. PICK N, L \in Nat \ {0} :
        /\ N = Len(kind) /\ m \in 1 .. N /\ c \in 1 .. N /\ c # 1 /\ c # m
        /\ kids \in [1 .. N -> Seq(1 .. N)] /\ text \in [1 .. N -> Seq(Letter)]
        /\ kids[c] = <<>> /\ kind[m] = "element" /\ kind[c] = "text"
        /\ L = Len(kids[m]) /\ at \in 1 .. L /\ kids[m][at] = c
  BY CutPlace
<1>1. PICK E : E = Seq(Letter)
  OBVIOUS
<1>2. /\ text' \in [1 .. N + 3 -> Seq(Letter)] /\ kids' \in [1 .. N + 3 -> Seq(1 .. N + 3)]
      /\ \A x \in 1 .. N : x # c => text'[x] = text[x]
      /\ text'[c] = a /\ text'[N + 1] = d /\ text'[N + 2] = <<>> /\ text'[N + 3] = b
      /\ text[c] = (a \o b) \o d
      /\ \A x \in 1 .. N : x # m => kids'[x] = kids[x]
      /\ Inserted(kids'[m], 1 .. N + 3, kids[m], at, N + 2, N + 1)
      /\ kids'[N + 1] = <<>> /\ kids'[N + 2] = <<N + 3>> /\ kids'[N + 3] = <<>>
  BY <1>0 DEF Cut
<1>a. kids \in [1 .. N -> Seq(1 .. N)] /\ text \in [1 .. N -> Seq(Letter)]
  BY <1>0
<1>b. N + 3 \in Nat \ {0}
  OBVIOUS
<1>c. kids' \in [1 .. N + 3 -> Seq(1 .. N + 3)] /\ text' \in [1 .. N + 3 -> Seq(Letter)]
  BY <1>2
<1>d. c \in 1 .. N /\ c \in 1 .. N + 3 /\ N + 1 \in 1 .. N + 3 /\ N + 2 \in 1 .. N + 3 /\ N + 3 \in 1 .. N + 3
  BY <1>0
<1>3. \A x \in 1 .. N : \A k \in 1 .. Len(kids[x]) : kids[x][k] \in 1 .. N
  <2>1. kids \in [1 .. N -> Seq(1 .. N)]
    BY <1>a
  <2> QED
    BY <2>1, ListElements
<1>e. \A x \in 1 .. N : \A k \in DOMAIN kids[x] : k \in 1 .. Len(kids[x]) /\ kids[x][k] \in 1 .. N
  <2>1. ASSUME NEW x \in 1 .. N, NEW k \in DOMAIN kids[x] PROVE k \in 1 .. Len(kids[x])
    <3>1. kids[x] \in Seq(1 .. N)
      BY <1>a
    <3> QED
      BY <3>1
  <2> QED
    BY <1>3, <2>1
<1>4. \A x \in 1 .. N : \A k \in 1 .. Len(kids[x]) : kids[x][k] = c => x = m /\ k = at
  <2>1. \A x \in 1 .. N : \A k \in 1 .. Len(kids[x]) : kids[x][k] = kids[m][at] => x = m /\ k = at
    BY <1>0 DEF HPage, Once
  <2> QED
    BY <1>0, <2>1
<1>5. \A x \in 1 .. N : x # 1 => \A k \in 1 .. Len(kids[x]) : kids[x][k] # m
  BY <1>0 DEF HPage, Shaped
<1>6. \A k \in 1 .. Len(kids[1]) : kids[1][k] # 1
  BY <1>0 DEF HPage, Shaped
<1> DEFINE M == MarkTexts(N, kids, text)
           MM == MarkTexts(N + 3, kids', text')
           R == ChildTexts(N, kids, text)
           RR == ChildTexts(N + 3, kids', text')
<1>7. \A u \in Seq(Letter) : u \o <<>> = u /\ <<>> \o u = u
  OBVIOUS
<1>8. \A f : f \in [1 .. N -> Seq(Letter)] => \A x \in 1 .. N : text[x] \o Line(kids[x], f) \in Seq(Letter)
  <2> SUFFICES ASSUME NEW f, f \in [1 .. N -> Seq(Letter)], NEW x \in 1 .. N
               PROVE  text[x] \o Line(kids[x], f) \in Seq(Letter)
    OBVIOUS
  <2>1. Line(kids[x], f) \in Seq(Letter)
    BY <1>0, LineType
  <2>2. text[x] \in Seq(Letter)
    BY <1>0
  <2> QED
    BY <2>1, <2>2
<1>9. \A f : f \in [1 .. N + 3 -> Seq(Letter)] => \A x \in 1 .. N + 3 : text'[x] \o Line(kids'[x], f) \in Seq(Letter)
  <2> SUFFICES ASSUME NEW f, f \in [1 .. N + 3 -> Seq(Letter)], NEW x \in 1 .. N + 3
               PROVE  text'[x] \o Line(kids'[x], f) \in Seq(Letter)
    OBVIOUS
  <2>1. Line(kids'[x], f) \in Seq(Letter)
    BY <1>2, LineType
  <2>2. text'[x] \in Seq(Letter)
    BY <1>2
  <2> QED
    BY <2>1, <2>2
<1>10. M \in [1 .. N -> Seq(Letter)] /\ \A x \in 1 .. N : M[x] = text[x] \o Line(kids[x], text)
  BY <1>0, <1>8 DEF MarkTexts
<1>11. MM \in [1 .. N + 3 -> Seq(Letter)] /\ \A x \in 1 .. N + 3 : MM[x] = text'[x] \o Line(kids'[x], text')
  BY <1>2, <1>9 DEF MarkTexts
<1>12. R \in [1 .. N -> Seq(Letter)] /\ \A x \in 1 .. N : R[x] = text[x] \o Line(kids[x], M)
  BY <1>8, <1>10 DEF ChildTexts
<1>13. RR \in [1 .. N + 3 -> Seq(Letter)] /\ \A x \in 1 .. N + 3 : RR[x] = text'[x] \o Line(kids'[x], MM)
  BY <1>9, <1>11 DEF ChildTexts
<1>14. H!TextOfPage = Line(kids[1], R) /\ H!TextOfPage' = Line(kids'[1], RR)
  <2>1. H!TextOfPage = PageText(N, kids, text)
    BY <1>a, PageReads
  <2>2. PICK K \in Nat \ {0} : K = N + 3
    BY <1>b
  <2>3. kids' \in [1 .. K -> Seq(1 .. K)]
    BY <1>c, <2>2
  <2>4. H!TextOfPage' = PageText(K, kids', text')
    BY <2>3, PageReadsNext
  <2> QED
    BY <2>1, <2>2, <2>4 DEF PageText
<1> HIDE DEF M, MM, R, RR
<1>15. \A f : Line(<<>>, f) = <<>>
  BY LineNone
<1>16. /\ MM[c] = a /\ MM[N + 1] = d /\ MM[N + 3] = b /\ MM[N + 2] = b
       /\ RR[c] = a /\ RR[N + 1] = d /\ RR[N + 2] = b
  <2>0. kids'[c] = <<>> /\ kids'[N + 1] = <<>> /\ kids'[N + 3] = <<>>
    BY <1>0, <1>2
  <2>1. MM[c] = a \o <<>> /\ MM[N + 1] = d \o <<>> /\ MM[N + 3] = b \o <<>>
    <3>1. /\ MM[c] = text'[c] \o Line(kids'[c], text') /\ MM[N + 1] = text'[N + 1] \o Line(kids'[N + 1], text')
          /\ MM[N + 3] = text'[N + 3] \o Line(kids'[N + 3], text')
      BY <1>11, <1>d
    <3>2. text'[c] = a /\ text'[N + 1] = d /\ text'[N + 3] = b /\ Line(<<>>, text') = <<>>
      BY <1>2, <1>15
    <3> QED
      BY <2>0, <3>1, <3>2
  <2>2. RR[c] = a \o <<>> /\ RR[N + 1] = d \o <<>>
    <3>1. /\ RR[c] = text'[c] \o Line(kids'[c], MM) /\ RR[N + 1] = text'[N + 1] \o Line(kids'[N + 1], MM)
      BY <1>13, <1>d
    <3>2. text'[c] = a /\ text'[N + 1] = d /\ Line(<<>>, MM) = <<>>
      BY <1>2, <1>15
    <3> QED
      BY <2>0, <3>1, <3>2
  <2>3. MM[c] = a /\ MM[N + 1] = d /\ MM[N + 3] = b /\ RR[c] = a /\ RR[N + 1] = d
    BY <1>7, <2>1, <2>2
  <2>4. PICK v : v = N + 3
    OBVIOUS
  <2>5. kids'[N + 2] = <<v>> /\ text'[v] = b /\ MM[v] = b /\ b \in Seq(Letter)
    BY <1>2, <2>3, <2>4
  <2>6. Line(<<v>>, text') = text'[v]
    BY <2>5, LineOne
  <2>7. Line(<<v>>, MM) = MM[v]
    BY <2>5, LineOne
  <2>8. MM[N + 2] = <<>> \o b
    <3>1. MM[N + 2] = text'[N + 2] \o Line(kids'[N + 2], text')
      BY <1>11, <1>d
    <3>2. text'[N + 2] = <<>>
      BY <1>2
    <3> QED
      BY <2>5, <2>6, <3>1, <3>2, Zenon
  <2>9. RR[N + 2] = <<>> \o b
    <3>1. RR[N + 2] = text'[N + 2] \o Line(kids'[N + 2], MM)
      BY <1>13, <1>d
    <3>2. text'[N + 2] = <<>>
      BY <1>2
    <3> QED
      BY <2>5, <2>7, <3>1, <3>2, Zenon
  <2> QED
    BY <1>7, <2>3, <2>8, <2>9
<1>17. M[c] = text[c] /\ R[c] = text[c]
  <2>1. kids[c] = <<>> /\ text[c] \in Seq(Letter)
    BY <1>0
  <2>2. M[c] = text[c] \o <<>>
    BY <1>10, <1>15, <1>d, <2>1
  <2>3. R[c] = text[c] \o <<>>
    BY <1>12, <1>15, <1>d, <2>1
  <2> QED
    BY <1>7, <2>1, <2>2, <2>3
<1>18. ASSUME NEW x \in 1 .. N, x # m, x # c PROVE MM[x] = M[x]
  <2>1. kids'[x] = kids[x] /\ text'[x] = text[x] /\ x \in 1 .. N + 3
    <3>1. \A y \in 1 .. N : y # m => kids'[y] = kids[y]
      BY <1>2
    <3>2. \A y \in 1 .. N : y # c => text'[y] = text[y]
      BY <1>2
    <3>3. x \in 1 .. N + 3
      OBVIOUS
    <3> QED
      BY <1>18, <3>1, <3>2, <3>3, Zenon
  <2>2. \A k \in DOMAIN kids[x] : text'[kids[x][k]] = text[kids[x][k]]
    BY <1>2, <1>4, <1>e, <1>18
  <2>3. Line(kids[x], text') = Line(kids[x], text)
    BY <2>2, LineSame
  <2> QED
    BY <1>10, <1>11, <2>1, <2>3
<1>19. ASSUME NEW x \in 1 .. N, x # 1, x # c PROVE RR[x] = R[x]
  <2>1. CASE x # m
    <3>1. kids'[x] = kids[x] /\ text'[x] = text[x] /\ x \in 1 .. N + 3
      BY <1>2, <1>19, <2>1
    <3>2. \A k \in DOMAIN kids[x] : MM[kids[x][k]] = M[kids[x][k]]
      <4>1. \A k \in DOMAIN kids[x] : kids[x][k] \in 1 .. N /\ kids[x][k] # m /\ kids[x][k] # c
        BY <1>4, <1>5, <1>e, <1>19, <2>1
      <4> QED
        BY <1>18, <4>1
    <3>3. Line(kids[x], MM) = Line(kids[x], M)
      BY <3>2, LineSame
    <3> QED
      BY <1>12, <1>13, <3>1, <3>3
  <2>2. CASE x = m
    <3>1. text'[m] = text[m] /\ m \in 1 .. N + 3 /\ m # 1
      BY <1>0, <1>2, <1>19, <2>2
    <3>2. \A k \in 1 .. Len(kids[m]) : k # at => MM[kids[m][k]] = M[kids[m][k]]
      <4>1. \A k \in 1 .. Len(kids[m]) : k # at => kids[m][k] \in 1 .. N /\ kids[m][k] # m /\ kids[m][k] # c
        BY <1>0, <1>3, <1>4, <1>5, <3>1
      <4> QED
        BY <1>18, <4>1
    <3>3. LineCut(Letter, N, kids[m], M, kids'[m], MM, at, a, b, d)
      BY <1>0, <1>2, <1>10, <1>11, <1>16, <1>17, <3>2 DEF LineCut
    <3>4. Line(kids'[m], MM) = Line(kids[m], M)
      BY <3>3, LineApart
    <3> QED
      BY <1>12, <1>13, <2>2, <3>1, <3>4
  <2> QED
    BY <2>1, <2>2
<1>20. Line(kids'[1], RR) = Line(kids[1], R)
  <2>0. 1 \in 1 .. N
    OBVIOUS
  <2>1. CASE m # 1
    <3>1. kids'[1] = kids[1]
      BY <1>2, <2>0, <2>1
    <3>2. \A k \in DOMAIN kids[1] : kids[1][k] \in 1 .. N /\ kids[1][k] # 1 /\ kids[1][k] # c
      <4>1. \A k \in DOMAIN kids[1] : k \in 1 .. Len(kids[1]) /\ kids[1][k] \in 1 .. N
        BY <1>e, <2>0
      <4> QED
        BY <1>4, <1>6, <2>0, <2>1, <4>1
    <3>3. \A k \in DOMAIN kids[1] : RR[kids[1][k]] = R[kids[1][k]]
      BY <1>19, <3>2
    <3> QED
      BY <3>1, <3>3, LineSame
  <2>2. CASE m = 1
    <3>1. \A k \in 1 .. Len(kids[m]) : k # at => kids[m][k] \in 1 .. N /\ kids[m][k] # 1 /\ kids[m][k] # c
      BY <1>0, <1>3, <1>4, <1>6, <2>0, <2>2
    <3>2. \A k \in 1 .. Len(kids[m]) : k # at => RR[kids[m][k]] = R[kids[m][k]]
      BY <1>19, <3>1
    <3>3. LineCut(Letter, N, kids[m], R, kids'[m], RR, at, a, b, d)
      BY <1>0, <1>2, <1>12, <1>13, <1>16, <1>17, <3>2 DEF LineCut
    <3>4. Line(kids'[m], RR) = Line(kids[m], R)
      BY <3>3, LineApart
    <3> QED
      BY <2>2, <3>4
  <2> QED
    BY <2>1, <2>2
<1> QED
  BY <1>14, <1>20

-----------------------------------------------------------------------------
(* HighlightText: the walk.                                                  *)

(* The each loops: each on the list of a node of the page, an inner one on a *)
(* child of the outer one.                                                  *)
Fit(s, kd, ks) ==
  /\ s \in Seq(H!Loop)
  /\ \A k \in 1 .. Len(s) :
       /\ s[k].node \in 1 .. Len(kd) /\ kd[s[k].node] \in {"element", "mark"}
       /\ s[k].i <= s[k].length /\ s[k].length <= Len(ks[s[k].node])
  /\ s # <<>> => s[1].node = 1
  /\ \A k \in 1 .. Len(s) - 1 : /\ s[k].i >= 1
                                /\ s[k + 1].node = ks[s[k].node][s[k].i]

LoopsFit == Fit(stack, kind, kids)

(* A loop one turn further, and a loop inside it.                            *)
Advanced(t, s) ==
  /\ t \in Seq(H!Loop) /\ Len(t) = Len(s)
  /\ \A k \in 1 .. Len(s) : /\ t[k].node = s[k].node /\ t[k].length = s[k].length
                            /\ k < Len(s) => t[k].i = s[k].i
                            /\ k = Len(s) => t[k].i = s[k].i + 1

(* The step of an each loop, position by position.                           *)
LEMMA Advancing ==
  ASSUME NEW s \in Seq(H!Loop), s # <<>>
  PROVE  Advanced([s EXCEPT ![Len(s)].i = @ + 1], s)
<1>1. PICK L \in Nat \ {0} : L = Len(s)
  OBVIOUS
<1>2. s \in [1 .. L -> H!Loop]
  BY <1>1
<1> DEFINE t == [s EXCEPT ![L].i = @ + 1]
<1>3. [s[L] EXCEPT !.i = @ + 1] \in H!Loop
  <2>1. PICK r \in H!Loop : r = s[L]
    BY <1>2
  <2>2. [r EXCEPT !.i = @ + 1] \in H!Loop
    <3>1. PICK x, y, z \in Nat : r = [node |-> x, i |-> y, length |-> z]
      BY DEF H!Loop
    <3>2. [r EXCEPT !.i = @ + 1] = [node |-> x, i |-> y + 1, length |-> z]
      BY <3>1
    <3> QED
      BY <3>2 DEF H!Loop
  <2> QED
    BY <2>1, <2>2
<1>4. t \in [1 .. L -> H!Loop]
  BY <1>2, <1>3
<1>5. \A k \in 1 .. L : k < L => t[k] = s[k]
  BY <1>2
<1>6. t[L] = [s[L] EXCEPT !.i = @ + 1] /\ s[L] \in H!Loop
  BY <1>2
<1>7. t[L].node = s[L].node /\ t[L].length = s[L].length /\ t[L].i = s[L].i + 1
  <2>1. PICK r : r = s[L]
    OBVIOUS
  <2>2. r \in H!Loop /\ t[L] = [r EXCEPT !.i = @ + 1]
    BY <1>6, <2>1
  <2> HIDE DEF t
  <2> QED
    BY <2>1, <2>2 DEF H!Loop
<1> HIDE DEF t
<1>8. t \in Seq(H!Loop) /\ Len(t) = L
  BY <1>4
<1>9. Advanced(t, s)
  BY <1>1, <1>5, <1>7, <1>8 DEF Advanced
<1> QED
  BY <1>1, <1>9 DEF t

Pushed(t, s, n, l) ==
  /\ t \in Seq(H!Loop) /\ Len(t) = Len(s) + 1
  /\ \A k \in 1 .. Len(s) : t[k] = s[k]
  /\ t[Len(s) + 1] = [node |-> n, i |-> 0, length |-> l]

(* A loop begun inside, position by position.                                *)
LEMMA Pushing ==
  ASSUME NEW s \in Seq(H!Loop), NEW n \in Nat, NEW l \in Nat
  PROVE  Pushed(Append(s, [node |-> n, i |-> 0, length |-> l]), s, n, l)
<1>1. PICK r \in H!Loop : r = [node |-> n, i |-> 0, length |-> l]
  BY DEF H!Loop
<1>2. Append(s, r) \in Seq(H!Loop) /\ Len(Append(s, r)) = Len(s) + 1 /\ Append(s, r)[Len(s) + 1] = r
      /\ \A k \in 1 .. Len(s) : Append(s, r)[k] = s[k]
  OBVIOUS
<1> QED
  BY <1>1, <1>2 DEF Pushed

(* The page stays, or is cut in the list of the innermost loop.              *)
PageStays == UNCHANGED <<kind, kids, text>>

PageIsCut ==
  \E a, d \in Seq(Letter) :
    /\ Place(H!Top.node, H!Top.i + 1, H!Child)
    /\ Cut(H!Top.node, H!Top.i + 1, H!Child, a, Head(terms), d)

(* The innermost loop.                                                       *)
LEMMA Innermost ==
  ASSUME HPage, LoopsFit, H!HasNext
  PROVE  \E L \in Nat \ {0} :
           /\ L = Len(stack) /\ H!Top = stack[L]
           /\ stack[L].node \in 1 .. Len(kind) /\ kind[stack[L].node] \in {"element", "mark"}
           /\ stack[L].i \in Nat /\ stack[L].i + 1 \in 1 .. Len(kids[stack[L].node])
           /\ stack[L].i < stack[L].length
           /\ H!Child = kids[stack[L].node][stack[L].i + 1] /\ H!Child \in 1 .. Len(kind)
<1>1. PICK L \in Nat \ {0} : L = Len(stack)
  BY DEF LoopsFit, Fit, H!HasNext
<1>2. H!Top = stack[L] /\ stack[L].i < stack[L].length /\ H!Child = kids[stack[L].node][stack[L].i + 1]
  BY <1>1 DEF H!HasNext, H!Top, H!Child
<1>3. stack[L] \in H!Loop
  BY <1>1 DEF LoopsFit, Fit
<1>4. /\ stack[L].node \in 1 .. Len(kind) /\ kind[stack[L].node] \in {"element", "mark"}
      /\ stack[L].length <= Len(kids[stack[L].node])
  BY <1>1 DEF LoopsFit, Fit
<1>5. kids[stack[L].node] \in Seq(1 .. Len(kind))
  BY <1>4 DEF HPage, Typed
<1>6. PICK x, y, z : x = stack[L].i /\ y = stack[L].length /\ z = Len(kids[stack[L].node])
  OBVIOUS
<1>7. x \in Nat /\ y \in Nat /\ z \in Nat
  BY <1>3, <1>5, <1>6 DEF H!Loop
<1>8. x + 1 \in 1 .. z
  BY <1>2, <1>4, <1>6, <1>7, SMTT(30)
<1>9. kids[stack[L].node][x + 1] \in 1 .. Len(kind)
  <2>1. \A k \in 1 .. Len(kids[stack[L].node]) : kids[stack[L].node][k] \in 1 .. Len(kind)
    BY <1>5, ElementsOf
  <2> QED
    BY <1>6, <1>8, <2>1
<1> QED
  BY <1>1, <1>2, <1>4, <1>6, <1>7, <1>8, <1>9

(* A text that is visited stays or is cut.                                   *)
LEMMA TextVisited ==
  ASSUME HPage, LoopsFit, terms \in Seq(Terms), terms # <<>>, H!VisitText
  PROVE  PageStays \/ PageIsCut
<1>1. PICK L \in Nat \ {0} :
           /\ L = Len(stack) /\ H!Top = stack[L]
           /\ stack[L].node \in 1 .. Len(kind) /\ kind[stack[L].node] \in {"element", "mark"}
           /\ stack[L].i \in Nat /\ stack[L].i + 1 \in 1 .. Len(kids[stack[L].node])
           /\ H!Child = kids[stack[L].node][stack[L].i + 1]
  BY Innermost DEF H!VisitText
<1>2. kind[H!Child] = "text"
  BY DEF H!VisitText
<1>3. CASE ~H!Matches(H!Child)
  BY <1>3 DEF H!VisitText, PageStays
<1>4. CASE H!Matches(H!Child)
  <2>1. H!Holds(Head(terms), text[H!Child]) /\ kind[H!Top.node] # "mark" /\ H!Split(H!Child)
    BY <1>4 DEF H!VisitText, H!Matches
  <2>2. PICK m, at, c : m = H!Top.node /\ at = H!Top.i + 1 /\ c = H!Child
    OBVIOUS
  <2>3. Place(m, at, c) /\ at \in Nat
    <3>1. m = stack[L].node /\ at = stack[L].i + 1 /\ c = kids[m][at]
      BY <1>1, <2>2
    <3>2. m \in 1 .. Len(kind) /\ kind[m] = "element"
      BY <1>1, <2>1, <2>2
    <3>3. at \in 1 .. Len(kids[m]) /\ at \in Nat
      BY <1>1, <3>1
    <3>4. kind[c] = "text"
      BY <1>2, <2>2
    <3> QED
      BY <3>1, <3>2, <3>3, <3>4 DEF Place
  <2>4. \E a, d \in Seq(Letter) : Cut(m, at, c, a, Head(terms), d)
    BY <2>1, <2>2, <2>3, SplitCuts
  <2> QED
    BY <2>2, <2>3, <2>4 DEF PageIsCut
<1> QED
  BY <1>3, <1>4

(* Only the outermost loop is on the root, and only the two outermost are on *)
(* elements.                                                                *)
LEMMA Depth ==
  ASSUME HPage, LoopsFit
  PROVE  /\ \A k \in 2 .. Len(stack) : stack[k].node # 1
         /\ \A k \in 3 .. Len(stack) : kind[stack[k].node] = "mark"
<1>0. PICK N, L \in Nat : N = Len(kind) /\ L = Len(stack)
  BY DEF HPage, Typed, LoopsFit, Fit
<1>1. ASSUME NEW k \in 2 .. L
      PROVE  \E j \in 1 .. L - 1, x \in 1 .. N : \E q \in 1 .. Len(kids[x]) :
               j = k - 1 /\ x = stack[j].node /\ stack[k].node = kids[x][q]
  <2>1. PICK j \in 1 .. L - 1 : j = k - 1 /\ j + 1 = k /\ j \in 1 .. L
    OBVIOUS
  <2>2. /\ stack[j].node \in 1 .. N /\ stack[j].i <= stack[j].length
        /\ stack[j].length <= Len(kids[stack[j].node]) /\ stack[j].i >= 1
        /\ stack[j + 1].node = kids[stack[j].node][stack[j].i] /\ stack[j] \in H!Loop
    BY <1>0, <2>1 DEF LoopsFit, Fit
  <2>3. kids[stack[j].node] \in Seq(1 .. N)
    BY <1>0, <2>2 DEF HPage, Typed
  <2>4. PICK q, y, z \in Nat : q = stack[j].i /\ y = stack[j].length /\ z = Len(kids[stack[j].node])
    BY <2>2, <2>3 DEF H!Loop
  <2>5. q \in 1 .. z
    BY <2>2, <2>4
  <2> QED
    BY <2>1, <2>2, <2>4, <2>5
<1>2. ASSUME NEW k \in 2 .. L PROVE stack[k].node # 1
  <2>1. PICK x \in 1 .. N : \E q \in 1 .. Len(kids[x]) : stack[k].node = kids[x][q]
    BY <1>1
  <2>2. \A q \in 1 .. Len(kids[x]) : kids[x][q] # 1
    BY <1>0 DEF HPage, Shaped
  <2> QED
    BY <2>1, <2>2
<1>3. ASSUME NEW k \in 3 .. L PROVE kind[stack[k].node] = "mark"
  <2>1. k \in 2 .. L /\ k - 1 \in 2 .. L /\ k \in 1 .. L
    OBVIOUS
  <2>2. PICK x \in 1 .. N : x # 1 /\ \E q \in 1 .. Len(kids[x]) : stack[k].node = kids[x][q]
    BY <1>1, <1>2, <2>1
  <2>3. kind[stack[k].node] \in {"text", "mark"}
    BY <1>0, <2>2 DEF HPage, Shaped
  <2>4. kind[stack[k].node] \in {"element", "mark"}
    BY <1>0, <2>1 DEF LoopsFit, Fit
  <2> QED
    BY <2>3, <2>4
<1> QED
  BY <1>0, <1>2, <1>3

(* What a step leaves of the page.                                           *)
Kept ==
  /\ \A x \in 1 .. Len(kind) : /\ x \in 1 .. Len(kind') /\ kind'[x] = kind[x]
                               /\ Len(kids[x]) <= Len(kids'[x])
  /\ \A k \in 1 .. Len(stack) - 1 : kids'[stack[k].node][stack[k].i] = kids[stack[k].node][stack[k].i]

(* A page that stays keeps its lists.                                        *)
LEMMA StayKeeps ==
  ASSUME HPage, PageStays
  PROVE  Kept
<1>1. \A x \in 1 .. Len(kind) : Len(kids[x]) \in Nat
  BY DEF HPage, Typed
<1> QED
  BY <1>1 DEF PageStays, Kept

(* A page that is cut keeps what the loops still read.                       *)
LEMMA CutKeeps ==
  ASSUME HPage, LoopsFit, H!HasNext, PageIsCut
  PROVE  Kept
<1>1. PICK S \in Nat \ {0} : S = Len(stack) /\ H!Top = stack[S]
  BY Innermost
<1>2. PICK m, at, c : m = H!Top.node /\ at = H!Top.i + 1 /\ c = H!Child
  OBVIOUS
<1>3. Place(m, at, c) /\ \E a, d : Cut(m, at, c, a, Head(terms), d)
  BY <1>2 DEF PageIsCut
<1>4. PICK N, L \in Nat \ {0} :
        /\ N = Len(kind) /\ m \in 1 .. N /\ kids \in [1 .. N -> Seq(1 .. N)] /\ kind[m] = "element"
        /\ L = Len(kids[m])
  BY <1>3, CutPlace
<1>5. /\ Len(kind') = N + 3
      /\ \A x \in 1 .. N : kind'[x] = kind[x]
      /\ \A x \in 1 .. N : x # m => kids'[x] = kids[x]
      /\ Len(kids'[m]) = L + 2
      /\ \A k \in 1 .. at : kids'[m][k] = kids[m][k]
  BY <1>3, <1>4 DEF Cut, Inserted
<1>6. ASSUME NEW x \in 1 .. N
      PROVE  x \in 1 .. Len(kind') /\ kind'[x] = kind[x] /\ Len(kids[x]) <= Len(kids'[x])
  <2>1. x \in 1 .. N + 3
    OBVIOUS
  <2>2. CASE x # m
    <3>1. Len(kids[x]) \in Nat
      BY <1>4
    <3> QED
      BY <1>5, <2>1, <2>2, <3>1
  <2>3. CASE x = m
    BY <1>4, <1>5, <2>1, <2>3
  <2> QED
    BY <2>2, <2>3
<1>7. ASSUME NEW k \in 1 .. S - 1 PROVE kids'[stack[k].node][stack[k].i] = kids[stack[k].node][stack[k].i]
  <2>1. stack[k].node \in 1 .. N
    BY <1>1, <1>4 DEF LoopsFit, Fit
  <2>2. S \in 2 .. S /\ S \in 1 .. S
    OBVIOUS
  <2>3. stack[S].node # 1 /\ (S >= 3 => kind[stack[S].node] = "mark")
    BY <1>1, <2>2, Depth
  <2>4. S = 2 /\ k = 1
    BY <1>1, <1>2, <1>4, <2>3
  <2>5. stack[1].node = 1
    BY <1>1, <2>4 DEF LoopsFit, Fit
  <2>6. stack[k].node # m
    BY <1>1, <1>2, <2>3, <2>4, <2>5
  <2> QED
    BY <1>5, <2>1, <2>6
<1> QED
  BY <1>1, <1>4, <1>6, <1>7 DEF Kept

(* The loops fit the page after a turn.                                      *)
LEMMA LoopsAdvance ==
  ASSUME HPage, LoopsFit, H!HasNext, Kept, HPage', NEW t, Advanced(t, stack)
  PROVE  Fit(t, kind', kids')
<1>1. PICK S \in Nat \ {0} :
        /\ S = Len(stack) /\ stack[S].i \in Nat /\ stack[S].i < stack[S].length
  BY Innermost
<1>2. /\ t \in Seq(H!Loop) /\ Len(t) = S
      /\ \A k \in 1 .. S : /\ t[k].node = stack[k].node /\ t[k].length = stack[k].length
                           /\ k < S => t[k].i = stack[k].i
                           /\ k = S => t[k].i = stack[k].i + 1
  BY <1>1 DEF Advanced
<1>3. ASSUME NEW k \in 1 .. S
      PROVE  /\ t[k].node \in 1 .. Len(kind') /\ kind'[t[k].node] \in {"element", "mark"}
             /\ t[k].i <= t[k].length /\ t[k].length <= Len(kids'[t[k].node])
  <2>1. /\ stack[k].node \in 1 .. Len(kind) /\ kind[stack[k].node] \in {"element", "mark"}
        /\ stack[k].i <= stack[k].length /\ stack[k].length <= Len(kids[stack[k].node])
        /\ stack[k] \in H!Loop
    BY <1>1 DEF LoopsFit, Fit
  <2>2. /\ stack[k].node \in 1 .. Len(kind') /\ kind'[stack[k].node] = kind[stack[k].node]
        /\ Len(kids[stack[k].node]) <= Len(kids'[stack[k].node])
    BY <2>1 DEF Kept
  <2>3. Len(kids[stack[k].node]) \in Nat
    BY <2>1 DEF HPage, Typed
  <2>4. Len(kids'[stack[k].node]) \in Nat
    BY <2>2 DEF HPage, Typed
  <2>5. PICK x, y, z, w : x = stack[k].i /\ y = stack[k].length /\ z = Len(kids[stack[k].node]) /\ w = Len(kids'[stack[k].node])
    OBVIOUS
  <2>6. x \in Nat /\ y \in Nat /\ z \in Nat /\ w \in Nat
    BY <2>1, <2>3, <2>4, <2>5 DEF H!Loop
  <2>7. y <= w
    BY <2>1, <2>2, <2>5, <2>6
  <2>8. t[k].i <= y
    BY <1>1, <1>2, <2>1, <2>5, <2>6
  <2> QED
    BY <1>2, <2>1, <2>2, <2>5, <2>7, <2>8
<1>4. t # <<>> => t[1].node = 1
  BY <1>1, <1>2 DEF LoopsFit, Fit
<1>5. ASSUME NEW k \in 1 .. S - 1
      PROVE  /\ t[k].i >= 1
             /\ t[k + 1].node = kids'[t[k].node][t[k].i]
  <2>1. k \in 1 .. S /\ k + 1 \in 1 .. S /\ k < S
    OBVIOUS
  <2>2. t[k + 1].node = stack[k + 1].node /\ t[k].node = stack[k].node /\ t[k].i = stack[k].i
    BY <1>2, <2>1
  <2>3. stack[k].i >= 1 /\ stack[k + 1].node = kids[stack[k].node][stack[k].i]
    BY <1>1 DEF LoopsFit, Fit
  <2>4. kids'[stack[k].node][stack[k].i] = kids[stack[k].node][stack[k].i]
    BY <1>1 DEF Kept
  <2> QED
    BY <2>2, <2>3, <2>4
<1> QED
  BY <1>2, <1>3, <1>4, <1>5 DEF Fit

Inner(s, kd, ks, L, n, z) ==
  /\ L = Len(s) /\ s[L].i >= 1 /\ n = ks[s[L].node][s[L].i]
  /\ n \in 1 .. Len(kd) /\ kd[n] \in {"element", "mark"} /\ z = Len(ks[n])

(* They fit with one loop more inside.                                       *)
LEMMA LoopsPush ==
  ASSUME NEW s, NEW kd, NEW ks,
         Fit(s, kd, ks), NEW L \in Nat \ {0}, NEW z \in Nat, NEW n, Inner(s, kd, ks, L, n, z),
         NEW t, Pushed(t, s, n, z)
  PROVE  Fit(t, kd, ks)
<1>0. /\ L = Len(s) /\ s[L].i >= 1 /\ n = ks[s[L].node][s[L].i]
      /\ n \in 1 .. Len(kd) /\ kd[n] \in {"element", "mark"} /\ z = Len(ks[n])
  BY DEF Inner
<1>1. /\ t \in Seq(H!Loop) /\ Len(t) = L + 1
      /\ \A k \in 1 .. L : t[k] = s[k]
      /\ t[L + 1] = [node |-> n, i |-> 0, length |-> z]
  BY <1>0 DEF Pushed
<1>3. t[L + 1].node = n /\ t[L + 1].i = 0 /\ t[L + 1].length = z
  <2>1. PICK r : r = [node |-> n, i |-> 0, length |-> z]
    OBVIOUS
  <2>2. t[L + 1] = r
    BY <1>1, <2>1
  <2>3. r.node = n /\ r.i = 0 /\ r.length = z
    BY <2>1
  <2> QED
    BY <2>2, <2>3
<1>4. ASSUME NEW k \in 1 .. L + 1
      PROVE  /\ t[k].node \in 1 .. Len(kd) /\ kd[t[k].node] \in {"element", "mark"}
             /\ t[k].i <= t[k].length /\ t[k].length <= Len(ks[t[k].node])
  <2>1. CASE k \in 1 .. L
    BY <1>0, <1>1, <2>1 DEF Fit
  <2>2. CASE k = L + 1
    <3>1. z >= 0 /\ z <= z
      OBVIOUS
    <3> QED
      BY <1>0, <1>3, <2>2, <3>1
  <2> QED
    BY <2>1, <2>2
<1>5. t # <<>> => t[1].node = 1
  <2>1. 1 \in 1 .. L
    OBVIOUS
  <2>2. s # <<>>
    <3>1. Len(<<>>) = 0
      OBVIOUS
    <3> QED
      BY <1>0, <3>1
  <2> QED
    BY <1>0, <1>1, <2>1, <2>2 DEF Fit
<1>6. ASSUME NEW k \in 1 .. L PROVE t[k].i >= 1 /\ t[k + 1].node = ks[t[k].node][t[k].i]
  <2>1. CASE k = L
    BY <1>0, <1>1, <1>3, <2>1
  <2>2. CASE k # L
    <3>1. k \in 1 .. L - 1 /\ k + 1 \in 1 .. L
      BY <2>2
    <3> QED
      BY <1>0, <1>1, <3>1 DEF Fit
  <2> QED
    BY <2>1, <2>2
<1>7. Len(t) - 1 = L
  BY <1>1
<1> QED
  BY <1>0, <1>1, <1>4, <1>5, <1>6, <1>7 DEF Fit

(* They fit without the innermost.                                           *)
LEMMA LoopsLeave ==
  ASSUME NEW s, NEW kd, NEW ks, Fit(s, kd, ks), s # <<>>
  PROVE  /\ Fit(SubSeq(s, 1, Len(s) - 1), kd, ks)
         /\ Len(SubSeq(s, 1, Len(s) - 1)) = Len(s) - 1
         /\ \A k \in 1 .. Len(s) - 1 : SubSeq(s, 1, Len(s) - 1)[k] = s[k]
<1>1. PICK L \in Nat \ {0} : L = Len(s)
  BY DEF Fit
<1> DEFINE t == SubSeq(s, 1, L - 1)
<1>2. t \in Seq(H!Loop) /\ Len(t) = L - 1 /\ \A k \in 1 .. L - 1 : t[k] = s[k]
  BY <1>1 DEF Fit
<1> HIDE DEF t
<1>3. ASSUME NEW k \in 1 .. L - 1
      PROVE  /\ t[k].node \in 1 .. Len(kd) /\ kd[t[k].node] \in {"element", "mark"}
             /\ t[k].i <= t[k].length /\ t[k].length <= Len(ks[t[k].node])
             /\ t[k].i >= 1
  <2>1. k \in 1 .. L
    OBVIOUS
  <2> QED
    BY <1>1, <1>2, <2>1 DEF Fit
<1>4. ASSUME NEW k \in 1 .. (L - 1) - 1 PROVE t[k + 1].node = ks[t[k].node][t[k].i]
  <2>1. k \in 1 .. L - 1 /\ k + 1 \in 1 .. L - 1
    OBVIOUS
  <2>2. s[k + 1].node = ks[s[k].node][s[k].i]
    BY <1>1, <2>1 DEF Fit
  <2> QED
    BY <1>2, <2>1, <2>2
<1>5. t # <<>> => t[1].node = 1
  <2>1. t # <<>> => 1 \in 1 .. L - 1
    BY <1>2
  <2> QED
    BY <1>1, <1>2, <2>1 DEF Fit
<1>6. \A k \in 1 .. (L - 1) - 1 : k \in 1 .. L - 1
  OBVIOUS
<1>7. Fit(t, kd, ks)
  BY <1>2, <1>3, <1>4, <1>5, <1>6 DEF Fit
<1> QED
  BY <1>1, <1>2, <1>7 DEF t

(* The loop a walk begins with.                                              *)
Started(s, ks) == s = <<[node |-> 1, i |-> 0, length |-> Len(ks[1])]>>

(* The loop a walk starts with fits.                                         *)
LEMMA LoopsStart ==
  ASSUME NEW kd, kd[1] = "element", NEW N \in Nat \ {0}, N = Len(kd), NEW ks, ks[1] \in Seq(1 .. N),
         NEW s, Started(s, ks)
  PROVE  Fit(s, kd, ks)
<1>1. PICK z \in Nat : z = Len(ks[1])
  OBVIOUS
<1>2. PICK r : r = [node |-> 1, i |-> 0, length |-> z]
  OBVIOUS
<1>3. r \in H!Loop /\ r.node = 1 /\ r.i = 0 /\ r.length = z
  BY <1>2 DEF H!Loop
<1>4. s = <<r>>
  BY <1>1, <1>2 DEF Started
<1>5. s \in Seq(H!Loop) /\ Len(s) = 1 /\ s[1] = r
  BY <1>3, <1>4
<1>6. \A k \in 1 .. Len(s) : k = 1
  BY <1>5
<1>7. 1 \in 1 .. Len(kd) /\ \A k \in 1 .. Len(s) - 1 : FALSE
  BY <1>5
<1> QED
  BY <1>1, <1>3, <1>5, <1>6, <1>7 DEF Fit

-----------------------------------------------------------------------------
(* How a list grows under a walk over it: a loop has put at most two nodes   *)
(* into its list for each turn it made, less one if the next is no mark; and *)
(* the elements to come are as they were when the walk began.                *)
Grown(r, kd, ks, sr) ==
  kd[r.node] = "element" =>
    /\ r.node \in DOMAIN sr /\ r.length = Len(sr[r.node])
    /\ \/ Len(ks[r.node]) <= r.length + r.i
       \/ Len(ks[r.node]) <= r.length + r.i + 1 /\ kd[ks[r.node][r.i + 1]] = "mark"

Unvisited(s, kd, ks, sr) ==
  s # <<>> => \A j \in 1 .. Len(ks[1]) :
                j > s[1].i /\ kd[ks[1][j]] = "element"
                => ks[1][j] \in DOMAIN sr /\ ks[ks[1][j]] = sr[ks[1][j]]

Growth(s, kd, ks, sr) ==
  /\ \E z \in 1 .. Len(kd) : sr \in [1 .. z -> Seq(Nat)]
  /\ \A k \in 1 .. Len(s) : Grown(s[k], kd, ks, sr)
  /\ Unvisited(s, kd, ks, sr)
  /\ \A n \in DOMAIN sr : Len(ks[n]) <= 2 * Len(sr[n]) + 1

(* A loop that moves on past a node that is not cut.                         *)
LEMMA GrownAdvanced ==
  ASSUME NEW r \in H!Loop, NEW t \in H!Loop, t.node = r.node, t.length = r.length, t.i = r.i + 1,
         NEW kd, NEW ks, NEW sr, Grown(r, kd, ks, sr), Len(ks[r.node]) \in Nat
  PROVE  Grown(t, kd, ks, sr)
<1>1. PICK x, y \in Nat : x = r.i /\ y = r.length
  BY DEF H!Loop
<1>2. PICK z \in Nat : z = Len(ks[r.node])
  OBVIOUS
<1>3. z <= y + x \/ z <= y + x + 1 => z <= y + (x + 1)
  OBVIOUS
<1> QED
  BY <1>1, <1>2, <1>3 DEF Grown

(* What the walk has still before it only gets less.                         *)
LEMMA UnvisitedLater ==
  ASSUME NEW s, NEW t, NEW kd, NEW ks, NEW sr, Unvisited(s, kd, ks, sr), s # <<>>,
         s[1].i \in Nat, t[1].i \in Nat, s[1].i <= t[1].i, Len(ks[1]) \in Nat
  PROVE  Unvisited(t, kd, ks, sr)
<1>1. PICK x, y \in Nat : x = s[1].i /\ y = t[1].i /\ x <= y
  OBVIOUS
<1>2. \A j \in 1 .. Len(ks[1]) : j > y => j > x
  BY <1>1
<1> QED
  BY <1>1, <1>2 DEF Unvisited

(* The bound on the lists after a turn without a cut.                        *)
LEMMA GrowthAdvance ==
  ASSUME HPage, LoopsFit, H!HasNext, Growth(stack, kind, kids, start), NEW t, Advanced(t, stack)
  PROVE  Growth(t, kind, kids, start)
<1>1. PICK S \in Nat \ {0} :
        /\ S = Len(stack) /\ stack[S].i \in Nat /\ stack[S].i < stack[S].length
  BY Innermost
<1>2. /\ t \in Seq(H!Loop) /\ Len(t) = S
      /\ \A k \in 1 .. S : /\ t[k].node = stack[k].node /\ t[k].length = stack[k].length
                           /\ k < S => t[k].i = stack[k].i
                           /\ k = S => t[k].i = stack[k].i + 1
  BY <1>1 DEF Advanced
<1>3. \A k \in 1 .. S : /\ stack[k] \in H!Loop /\ t[k] \in H!Loop /\ stack[k].node \in 1 .. Len(kind)
                        /\ Grown(stack[k], kind, kids, start)
  <2>1. \A k \in 1 .. S : stack[k].node \in 1 .. Len(kind) /\ stack \in Seq(H!Loop)
    BY <1>1 DEF LoopsFit, Fit
  <2>2. \A k \in 1 .. S : stack[k] \in H!Loop
    BY <1>1, <2>1
  <2>3. \A k \in 1 .. S : t[k] \in H!Loop
    BY <1>2
  <2>4. \A k \in 1 .. S : Grown(stack[k], kind, kids, start)
    BY <1>1 DEF Growth
  <2> QED
    BY <2>1, <2>2, <2>3, <2>4
<1>4. \A n \in 1 .. Len(kind) : Len(kids[n]) \in Nat
  BY DEF HPage, Typed
<1>5. ASSUME NEW k \in 1 .. S PROVE Grown(t[k], kind, kids, start)
  <2>1. CASE k < S
    <3>1. t[k].node = stack[k].node /\ t[k].length = stack[k].length /\ t[k].i = stack[k].i
      BY <1>2, <2>1
    <3> QED
      BY <1>3, <3>1 DEF Grown
  <2>2. CASE k = S
    <3>1. t[k].node = stack[k].node /\ t[k].length = stack[k].length /\ t[k].i = stack[k].i + 1
      BY <1>2, <2>2
    <3>2. PICK r, u \in H!Loop : r = stack[k] /\ u = t[k]
      BY <1>3
    <3>3. Len(kids[r.node]) \in Nat /\ Grown(r, kind, kids, start)
      BY <1>3, <1>4, <3>2
    <3> QED
      BY <3>1, <3>2, <3>3, GrownAdvanced
  <2> QED
    BY <2>1, <2>2
<1>6. Unvisited(t, kind, kids, start)
  <2>1. 1 \in 1 .. S
    OBVIOUS
  <2>2. PICK r, u \in H!Loop : r = stack[1] /\ u = t[1]
    BY <1>3, <2>1
  <2>3. r.i \in Nat /\ u.i \in Nat
    BY DEF H!Loop
  <2>4. u.i = r.i \/ u.i = r.i + 1
    BY <1>2, <2>1, <2>2
  <2>5. stack[1].i \in Nat /\ t[1].i \in Nat /\ stack[1].i <= t[1].i
    BY <2>2, <2>3, <2>4
  <2>6. 1 \in 1 .. Len(kind)
    BY DEF HPage, Typed
  <2>7. stack # <<>>
    BY DEF H!HasNext
  <2>8. Unvisited(stack, kind, kids, start) /\ Len(kids[1]) \in Nat
    BY <1>4, <2>6 DEF Growth
  <2> QED
    BY <2>5, <2>7, <2>8, UnvisitedLater
<1> QED
  BY <1>2, <1>5, <1>6 DEF Growth

(* A loop inside the innermost one.                                          *)
LEMMA GrowthPush ==
  ASSUME HPage, LoopsFit, H!HasNext, Growth(stack, kind, kids, start),
         kind[H!Child] \in {"element", "mark"},
         NEW s, Advanced(s, stack), NEW t, Pushed(t, s, H!Child, Len(kids[H!Child]))
  PROVE  Growth(t, kind, kids, start)
<1>1. PICK S \in Nat \ {0} :
        /\ S = Len(stack) /\ stack[S].i \in Nat
        /\ stack[S].node \in 1 .. Len(kind) /\ stack[S].i + 1 \in 1 .. Len(kids[stack[S].node])
        /\ H!Child = kids[stack[S].node][stack[S].i + 1] /\ H!Child \in 1 .. Len(kind)
  BY Innermost
<1>2. Growth(s, kind, kids, start)
  BY GrowthAdvance
<1>3. Len(s) = S /\ s \in Seq(H!Loop)
  BY <1>1 DEF Advanced
<1>0. PICK c \in 1 .. Len(kind) : c = H!Child
  BY <1>1
<1>4. PICK z : c = H!Child /\ z = Len(kids[c])
  BY <1>0
<1>5. z \in Nat
  BY <1>4 DEF HPage, Typed
<1>6. /\ Len(t) = S + 1 /\ \A k \in 1 .. S : t[k] = s[k]
      /\ t[S + 1] = [node |-> c, i |-> 0, length |-> z]
  BY <1>3, <1>4 DEF Pushed
<1>7. t[S + 1].node = c /\ t[S + 1].i = 0 /\ t[S + 1].length = z
  <2>1. PICK r : r = [node |-> c, i |-> 0, length |-> z]
    OBVIOUS
  <2>2. t[S + 1] = r
    BY <1>6, <2>1
  <2>3. r.node = c /\ r.i = 0 /\ r.length = z
    BY <2>1
  <2> QED
    BY <2>2, <2>3
<1>8. Grown(t[S + 1], kind, kids, start)
  <2>1. CASE kind[c] # "element"
    BY <1>7, <2>1 DEF Grown
  <2>2. CASE kind[c] = "element"
    <3>1. stack[S].node = 1
      <4>0. PICK m \in 1 .. Len(kind) : m = stack[S].node
        BY <1>1
      <4>1. PICK q : m = stack[S].node /\ q \in 1 .. Len(kids[m]) /\ kids[m][q] = c
        BY <1>1, <1>4, <4>0
      <4>2. m # 1 => kind[kids[m][q]] \in {"text", "mark"}
        BY <4>1 DEF HPage, Shaped
      <4> QED
        BY <2>2, <4>1, <4>2
    <3>2. S = 1
      <4>1. S \in 2 .. S => stack[S].node # 1
        BY <1>1, Depth
      <4> QED
        BY <3>1, <4>1
    <3>3. PICK j \in Nat : j = stack[1].i + 1 /\ j > stack[1].i
      BY <1>1, <3>2
    <3>4. j \in 1 .. Len(kids[1]) /\ kids[1][j] = c
      BY <1>1, <1>4, <3>1, <3>2, <3>3
    <3>5. stack # <<>>
      BY DEF H!HasNext
    <3>6. c \in DOMAIN start /\ kids[c] = start[c]
      BY <2>2, <3>3, <3>4, <3>5 DEF Growth, Unvisited
    <3>7. z <= z + 0
      BY <1>5
    <3>8. z = Len(start[c])
      BY <1>4, <3>6
    <3> QED
      BY <1>4, <1>7, <3>6, <3>7, <3>8 DEF Grown
  <2> QED
    BY <2>1, <2>2
<1>9. \A k \in 1 .. Len(t) : Grown(t[k], kind, kids, start)
  <2>1. \A k \in 1 .. S + 1 : k \in 1 .. S \/ k = S + 1
    OBVIOUS
  <2>2. \A k \in 1 .. S : Grown(s[k], kind, kids, start)
    BY <1>2, <1>3 DEF Growth
  <2> QED
    BY <1>6, <1>8, <2>1, <2>2
<1>10. Unvisited(t, kind, kids, start)
  <2>1. Unvisited(s, kind, kids, start)
    BY <1>2 DEF Growth
  <2>2. 1 \in 1 .. S
    OBVIOUS
  <2>3. t[1] = s[1]
    BY <1>6, <2>2
  <2>4. s # <<>>
    <3>1. Len(<<>>) = 0
      OBVIOUS
    <3> QED
      BY <1>3, <3>1
  <2> QED
    BY <2>1, <2>3, <2>4 DEF Unvisited
<1> QED
  BY <1>2, <1>9, <1>10 DEF Growth

(* The bound when a loop ends.                                               *)
LEMMA GrowthLeave ==
  ASSUME NEW s, NEW kd, NEW ks, NEW sr, Growth(s, kd, ks, sr), Fit(s, kd, ks), s # <<>>,
         NEW t, Len(t) = Len(s) - 1, \A k \in 1 .. Len(s) - 1 : t[k] = s[k], t \in Seq(H!Loop)
  PROVE  Growth(t, kd, ks, sr)
<1>1. PICK L \in Nat \ {0} : L = Len(s)
  BY DEF Fit
<1>2. Len(t) = L - 1 /\ \A k \in 1 .. L - 1 : t[k] = s[k] /\ k \in 1 .. L
  BY <1>1
<1>3. \A k \in 1 .. Len(t) : Grown(t[k], kd, ks, sr)
  BY <1>1, <1>2 DEF Growth
<1>4. Unvisited(t, kd, ks, sr)
  <2>1. CASE t = <<>>
    BY <2>1 DEF Unvisited
  <2>2. CASE t # <<>>
    <3>1. 1 \in 1 .. L - 1
      BY <1>2, <2>2
    <3>2. t[1] = s[1]
      BY <1>2, <3>1
    <3> QED
      BY <3>2 DEF Growth, Unvisited
  <2> QED
    BY <2>1, <2>2
<1> QED
  BY <1>3, <1>4 DEF Growth

(* The bound when a walk starts.                                             *)
LEMMA GrowthStart ==
  ASSUME NEW kd, NEW N \in Nat \ {0}, N = Len(kd), NEW ks \in [1 .. N -> Seq(1 .. N)],
         NEW s, Started(s, ks)
  PROVE  Growth(s, kd, ks, ks)
<1>1. \A n \in 1 .. N : Len(ks[n]) \in Nat /\ Len(ks[n]) <= 2 * Len(ks[n]) + 1
  OBVIOUS
<1>2. PICK z \in Nat : z = Len(ks[1])
  BY <1>1
<1>3. PICK r : r = [node |-> 1, i |-> 0, length |-> z]
  OBVIOUS
<1>4. r.node = 1 /\ r.i = 0 /\ r.length = z
  BY <1>3
<1>5. s = <<r>>
  BY <1>2, <1>3 DEF Started
<1>6. Len(s) = 1 /\ s[1] = r
  BY <1>5
<1>7. DOMAIN ks = 1 .. N /\ 1 \in 1 .. N
  OBVIOUS
<1>8. Grown(r, kd, ks, ks)
  <2>1. z <= z + 0
    OBVIOUS
  <2> QED
    BY <1>2, <1>4, <1>7, <2>1 DEF Grown
<1>9. Unvisited(s, kd, ks, ks)
  <2>1. \A j \in 1 .. Len(ks[1]) : ks[1][j] \in 1 .. N
    OBVIOUS
  <2> QED
    BY <1>7, <2>1 DEF Unvisited
<1>10. ks \in [1 .. N -> Seq(Nat)] /\ N \in 1 .. Len(kd)
  <2>1. \A n \in 1 .. N : ks[n] \in Seq(Nat)
    <3>1. 1 .. N \subseteq Nat
      OBVIOUS
    <3> QED
      BY <3>1
  <2> QED
    BY <1>7, <2>1
<1>11. \A k \in 1 .. Len(s) : Grown(s[k], kd, ks, ks)
  <2>1. \A k \in 1 .. Len(s) : k = 1
    BY <1>6
  <2> QED
    BY <1>6, <1>8, <2>1
<1> QED
  BY <1>1, <1>7, <1>9, <1>10, <1>11 DEF Growth

(* The bound after a cut: the piece behind comes out of the turns left.      *)
LEMMA GrowthCut ==
  ASSUME HPage, LoopsFit, H!HasNext, Growth(stack, kind, kids, start), PageIsCut,
         NEW t, Advanced(t, stack)
  PROVE  Growth(t, kind', kids', start)
<1>1. PICK S \in Nat \ {0} :
        /\ S = Len(stack) /\ H!Top = stack[S]
        /\ stack[S].i \in Nat /\ stack[S].i + 1 \in 1 .. Len(kids[stack[S].node])
        /\ stack[S].i < stack[S].length
        /\ H!Child = kids[stack[S].node][stack[S].i + 1]
  BY Innermost
<1>2. PICK m, at, c : m = H!Top.node /\ at = H!Top.i + 1 /\ c = H!Child
  OBVIOUS
<1>3. Place(m, at, c) /\ \E a, d : Cut(m, at, c, a, Head(terms), d)
  BY <1>2 DEF PageIsCut
<1>4. PICK N, L \in Nat \ {0} :
        /\ N = Len(kind) /\ m \in 1 .. N /\ kids \in [1 .. N -> Seq(1 .. N)] /\ kind[m] = "element"
        /\ L = Len(kids[m]) /\ at \in 1 .. L /\ kids[m][at] = c /\ kind[c] = "text"
  BY <1>3, CutPlace
<1>a. 1 \in 1 .. N /\ \A n \in 1 .. N : Len(kids[n]) \in Nat /\ \A k \in 1 .. Len(kids[n]) : kids[n][k] \in 1 .. N
  <2>1. PICK E : E = 1 .. N
    OBVIOUS
  <2>2. \A n \in E : kids[n] \in Seq(E)
    BY <1>4, <2>1
  <2>3. \A n \in E : Len(kids[n]) \in Nat /\ \A k \in 1 .. Len(kids[n]) : kids[n][k] \in E
    BY <2>2
  <2> QED
    BY <2>1, <2>3
<1>5. /\ Len(kind') = N + 3
      /\ \A x \in 1 .. N : kind'[x] = kind[x]
      /\ kind'[N + 1] = "text" /\ kind'[N + 2] = "mark"
      /\ \A x \in 1 .. N : x # m => kids'[x] = kids[x]
      /\ Len(kids'[m]) = L + 2
      /\ \A k \in 1 .. at : kids'[m][k] = kids[m][k]
      /\ kids'[m][at + 1] = N + 2 /\ kids'[m][at + 2] = N + 1
      /\ \A k \in at + 3 .. L + 2 : kids'[m][k] = kids[m][k - 2]
  BY <1>3, <1>4 DEF Cut, Inserted
<1>6. PICK x, y \in Nat : x = stack[S].i /\ y = stack[S].length /\ at = x + 1 /\ x < y
  <2>1. stack[S] \in H!Loop
    BY <1>1 DEF LoopsFit, Fit
  <2>2. PICK r \in H!Loop : r = stack[S]
    BY <2>1
  <2>3. r.i \in Nat /\ r.length \in Nat
    BY DEF H!Loop
  <2> QED
    BY <1>1, <1>2, <2>2, <2>3
<1>7. stack[S].node = m
  BY <1>1, <1>2
<1>8. /\ t \in Seq(H!Loop) /\ Len(t) = S
      /\ \A k \in 1 .. S : /\ t[k].node = stack[k].node /\ t[k].length = stack[k].length
                           /\ k < S => t[k].i = stack[k].i
                           /\ k = S => t[k].i = stack[k].i + 1
  BY <1>1 DEF Advanced
<1>9. S \in 1 .. S /\ t[S].node = m /\ t[S].length = y /\ t[S].i = x + 1
  BY <1>6, <1>7, <1>8
<1>10. PICK z \in 1 .. N : start \in [1 .. z -> Seq(Nat)]
  BY <1>4 DEF Growth
(* The list has not grown too much before. *)
<1>11. m \in DOMAIN start /\ y = Len(start[m]) /\ L <= y + x
  <2>1. Grown(stack[S], kind, kids, start)
    BY <1>1, <1>9 DEF Growth
  <2>2. /\ m \in DOMAIN start /\ y = Len(start[m])
        /\ L <= y + x \/ kind[kids[m][x + 1]] = "mark"
    BY <1>4, <1>6, <1>7, <2>1 DEF Grown
  <2> QED
    BY <1>4, <1>6, <2>2
(* Only the root's loop may be around it. *)
<1>12. \/ S = 1 /\ m = 1
       \/ S = 2 /\ m # 1 /\ stack[1].node = 1
  <2>1. stack[1].node = 1
    BY <1>1 DEF LoopsFit, Fit
  <2>2. (S \in 2 .. S => m # 1) /\ (S \in 3 .. S => kind[m] = "mark")
    BY <1>1, <1>7, Depth
  <2>3. S = 1 \/ S = 2 \/ S \in 3 .. S
    OBVIOUS
  <2> QED
    BY <1>4, <1>7, <2>1, <2>2, <2>3
<1>13. Grown(t[S], kind', kids', start)
  <2>1. L + 2 <= y + (x + 1) + 1
    BY <1>11
  <2>2. kids'[m][(x + 1) + 1] = N + 2
    BY <1>5, <1>6
  <2> QED
    BY <1>5, <1>9, <1>11, <2>1, <2>2 DEF Grown
<1>14. ASSUME NEW k \in 1 .. S, k # S PROVE Grown(t[k], kind', kids', start)
  <2>1. k = 1 /\ S = 2 /\ m # 1 /\ stack[1].node = 1
    BY <1>12, <1>14
  <2>2. t[1].node = 1 /\ t[1].length = stack[1].length /\ t[1].i = stack[1].i
    <3>1. k < S /\ k = 1
      BY <2>1
    <3> QED
      BY <1>8, <2>1, <3>1
  <2>3. kids'[1] = kids[1] /\ kind'[1] = kind[1] /\ 1 \in 1 .. N
    <3>1. 1 \in 1 .. N
      BY <1>4
    <3> QED
      BY <1>5, <2>1, <3>1
  <2>4. Grown(stack[1], kind, kids, start)
    BY <1>1, <2>1 DEF Growth
  <2>5. stack[1] \in H!Loop /\ stack[1].length <= Len(kids[1])
    <3>1. stack \in Seq(H!Loop) /\ 1 \in 1 .. Len(stack)
      BY <1>1 DEF LoopsFit, Fit
    <3>2. stack[1] \in H!Loop
      BY <3>1
    <3>3. stack[1].length <= Len(kids[stack[1].node])
      BY <3>1 DEF LoopsFit, Fit
    <3> QED
      BY <2>1, <3>2, <3>3
  <2>6. PICK r \in H!Loop : r = stack[1]
    BY <2>5
  <2>7. PICK u, v, w \in Nat : u = r.i /\ v = r.length /\ w = Len(kids[1])
    <3>1. r.i \in Nat /\ r.length \in Nat
      BY DEF H!Loop
    <3>2. Len(kids[1]) \in Nat
      BY <2>3 DEF HPage, Typed
    <3> QED
      BY <3>1, <3>2
  <2>8. w <= v + u \/ (w <= v + u + 1 /\ u + 1 \in 1 .. w)
    <3>1. kind[1] = "element"
      BY DEF HPage, Typed
    <3>2. w <= v + u \/ w <= v + u + 1
      BY <2>1, <2>4, <2>6, <2>7, <3>1 DEF Grown
    <3>3. v <= w
      BY <2>5, <2>6, <2>7
    <3>4. w <= v + u \/ u + 1 \in 1 .. w
      BY <3>2, <3>3
    <3> QED
      BY <3>2, <3>4
  <2>9. u + 1 \in 1 .. w => kids[1][u + 1] \in 1 .. N
    BY <1>a, <2>7
  <2>10. w <= v + u \/ (w <= v + u + 1 /\ kind'[kids[1][u + 1]] = kind[kids[1][u + 1]])
    BY <1>5, <2>8, <2>9
  <2>11. t[k].node = 1 /\ t[k].length = v /\ t[k].i = u /\ stack[1].node = 1 /\ stack[1].length = v /\ stack[1].i = u
    BY <2>1, <2>2, <2>6, <2>7
  <2> QED
    BY <2>3, <2>4, <2>7, <2>10, <2>11 DEF Grown
<1>15. \A k \in 1 .. Len(t) : Grown(t[k], kind', kids', start)
  BY <1>8, <1>13, <1>14
<1>16. Unvisited(t, kind', kids', start)
  <2> SUFFICES ASSUME NEW j \in 1 .. Len(kids'[1]), j > t[1].i, kind'[kids'[1][j]] = "element"
               PROVE  kids'[1][j] \in DOMAIN start /\ kids'[kids'[1][j]] = start[kids'[1][j]]
    BY DEF Unvisited
  <2>1. \A q \in 1 .. Len(kids[1]) :
          q > stack[1].i /\ kind[kids[1][q]] = "element"
          => kids[1][q] \in DOMAIN start /\ kids[kids[1][q]] = start[kids[1][q]]
    BY DEF Growth, Unvisited, H!HasNext
  <2>2. CASE S = 1 /\ m = 1
    <3>1. PICK q \in Nat : q = j /\ q \in 1 .. L + 2 /\ q > at
      <4>1. Len(kids'[1]) = L + 2 /\ t[1].i = at
        BY <1>5, <1>6, <1>9, <2>2
      <4>2. j \in 1 .. L + 2 /\ j > at
        BY <4>1
      <4> QED
        BY <1>4, <4>2
    <3>2. q = at + 1 \/ q = at + 2 \/ q \in at + 3 .. L + 2
      <4>1. at \in Nat /\ L \in Nat /\ q <= L + 2 /\ q > at
        BY <1>4, <3>1
      <4> QED
        BY <4>1
    <3>3. "element" # "mark" /\ "element" # "text"
      OBVIOUS
    <3>4. q \in at + 3 .. L + 2 /\ kids'[1][j] = kids[1][q - 2]
      BY <1>5, <2>2, <3>1, <3>2, <3>3
    <3>5. PICK p \in 1 .. L : p = q - 2 /\ p > x
      <4>1. at \in Nat /\ at = x + 1 /\ q \in Nat /\ q >= at + 3 /\ q <= L + 2
        BY <1>4, <1>6, <3>1, <3>4
      <4>2. q - 2 \in 1 .. L /\ q - 2 > x
        BY <4>1
      <4> QED
        BY <4>2
    <3>6. kids[1][p] \in 1 .. N /\ kids[1][p] # 1
      <4>1. Shaped(1)
        BY <1>4, <1>a DEF HPage
      <4>2. p \in 1 .. Len(kids[1])
        BY <1>4, <2>2, <3>5
      <4> QED
        BY <1>a, <4>1, <4>2 DEF Shaped
    <3>7. kids'[1][j] = kids[1][p] /\ kind[kids[1][p]] = "element" /\ kids'[kids[1][p]] = kids[kids[1][p]]
      <4>1. kids'[1][j] = kids[1][p]
        BY <3>4, <3>5
      <4>2. PICK k : k = kids[1][p] /\ k \in 1 .. N /\ k # 1
        BY <3>6
      <4>3. kind[k] = "element"
        BY <1>5, <2>2, <3>4, <4>1, <4>2
      <4>4. kids'[k] = kids[k]
        BY <1>5, <2>2, <4>2
      <4> QED
        BY <4>1, <4>2, <4>3, <4>4
    <3>8. p \in 1 .. Len(kids[1]) /\ p > stack[1].i
      BY <1>4, <1>6, <2>2, <3>5
    <3> QED
      BY <2>1, <3>7, <3>8
  <2>3. CASE S = 2 /\ m # 1 /\ stack[1].node = 1
    <3>1. t[1].i = stack[1].i
      BY <1>8, <2>3
    <3>2. kids'[1] = kids[1] /\ 1 \in 1 .. N
      BY <1>4, <1>5, <2>3, SMTT(30)
    <3>3. PICK n \in 1 .. N : n = kids[1][j] /\ j \in 1 .. Len(kids[1])
      BY <1>a, <3>2
    <3>4. kind[n] = "element"
      BY <1>5, <3>2, <3>3
    <3>5. n # m
      <4>1. m = kids[1][stack[1].i] /\ stack[1].i >= 1
        BY <1>1, <1>7, <2>3 DEF LoopsFit, Fit
      <4>2. stack[1] \in H!Loop /\ stack[1].length <= Len(kids[1]) /\ stack[1].i <= stack[1].length
        <5>1. stack \in Seq(H!Loop) /\ 1 \in 1 .. Len(stack)
          BY <1>1 DEF LoopsFit, Fit
        <5>2. stack[1] \in H!Loop
          BY <5>1
        <5>3. stack[1].length <= Len(kids[stack[1].node]) /\ stack[1].i <= stack[1].length
          BY <5>1 DEF LoopsFit, Fit
        <5> QED
          BY <2>3, <5>2, <5>3
      <4>3. PICK r \in H!Loop : r = stack[1]
        BY <4>2
      <4>4. PICK u, v, w \in Nat : u = r.i /\ v = r.length /\ w = Len(kids[1])
        <5>1. r.i \in Nat /\ r.length \in Nat
          BY DEF H!Loop
        <5>2. Len(kids[1]) \in Nat
          BY <1>a
        <5> QED
          BY <5>1, <5>2
      <4>5. u \in 1 .. Len(kids[1]) /\ kids[1][u] = m /\ j > u
        BY <3>1, <4>1, <4>2, <4>3, <4>4
      <4>6. u # j
        BY <4>5
      <4>7. kids[1][u] = kids[1][j] => u = j
        BY <1>4, <3>2, <3>3, <4>5 DEF HPage, Once
      <4> QED
        BY <3>3, <4>5, <4>6, <4>7
    <3>6. kids'[n] = kids[n]
      BY <1>5, <3>5
    <3> QED
      BY <2>1, <3>1, <3>2, <3>3, <3>4, <3>6
  <2> QED
    BY <1>12, <2>2, <2>3
<1>17. ASSUME NEW n \in DOMAIN start PROVE Len(kids'[n]) <= 2 * Len(start[n]) + 1
  <2>1. CASE n = m
    <3>1. L + 2 <= 2 * y + 1
      BY <1>6, <1>11
    <3> QED
      BY <1>5, <1>11, <2>1, <3>1
  <2>2. CASE n # m
    <3>1. n \in 1 .. N
      BY <1>10
    <3>2. kids'[n] = kids[n]
      BY <1>5, <2>2, <3>1
    <3> QED
      BY <3>2 DEF Growth
  <2> QED
    BY <2>1, <2>2
<1>18. z \in 1 .. Len(kind')
  BY <1>5
<1> QED
  BY <1>10, <1>15, <1>16, <1>17, <1>18 DEF Growth

-----------------------------------------------------------------------------
(* Texts that are the only child of their element: items behind the walk are  *)
(* marked or not as they should, the others are as they were loaded.          *)
Lone == \A k \in 1 .. Len(items) : items[k].kind # "text"
Whole == DOMAIN start = 1 .. 2 * Len(items) + 1
Fresh(k) == kids[2 * k] = <<2 * k + 1>> /\ kind[2 * k + 1] = "text" /\ text[2 * k + 1] = items[k].text
Done(k) == H!Marked(2 * k) <=> items[k].kind = "element" /\ H!Holds(Head(terms), items[k].text)
Untouched == /\ kids[1] = [k \in 1 .. Len(items) |-> 2 * k]
             /\ \A k \in 1 .. Len(items) : kind[2 * k] = items[k].kind
Behind(s, k) == \/ s = <<>>
                \/ k < s[1].i
                \/ k = s[1].i /\ (Len(s) = 1 \/ s[2].i > 0)
Reached(k) == IF Behind(stack, k) THEN Done(k) ELSE Fresh(k)
Begun == Len(start[1]) = Len(items) /\ \A k \in 1 .. Len(items) : start[2 * k] = <<2 * k + 1>>

Found ==
  /\ items \in Seq(H!Item)
  /\ Len(kind) >= 2 * Len(items) + 1
  /\ Lone => Untouched
  /\ Lone /\ Len(kind) = 2 * Len(items) + 1 => \A k \in 1 .. Len(items) : Fresh(k)
  /\ Lone /\ Whole => Begun /\ \A k \in 1 .. Len(items) : Reached(k)

(* Where a walk is on such a page.                                           *)
AtItem(S, K, p) ==
  /\ S = Len(stack) /\ K = Len(items) /\ p = stack[1].i
  /\ stack[1].length = K /\ p <= K /\ stack[1].node = 1
  /\ Len(kids[1]) = K /\ \A k \in 1 .. K : kids[1][k] = 2 * k
  /\ S >= 2 => /\ p >= 1 /\ stack[2].node = 2 * p /\ stack[2].length = 1 /\ stack[2].i \in 0 .. 1
               /\ kind[2 * p] = "element" /\ items[p].kind = "element"
  /\ S >= 3 => stack[2].i = 1

(* On a page of lone texts the walk is in one of its items.                  *)
LEMMA Where ==
  ASSUME HPage, LoopsFit, Growth(stack, kind, kids, start), Found, Lone, Whole, stack # <<>>
  PROVE  \E S \in Nat \ {0}, K, p \in Nat : AtItem(S, K, p)
<1>1. PICK S \in Nat \ {0} : S = Len(stack) /\ 1 \in 1 .. S
  BY DEF LoopsFit, Fit
<1>2. PICK K \in Nat : K = Len(items)
  BY DEF Found
<1>3. stack \in Seq(H!Loop) /\ \A k \in 1 .. S : stack[k] \in H!Loop
  <2>1. stack \in Seq(H!Loop)
    BY DEF LoopsFit, Fit
  <2> QED
    BY <1>1, <2>1
<1>4. PICK p, y \in Nat : p = stack[1].i /\ y = stack[1].length
  <2>1. PICK r \in H!Loop : r = stack[1]
    BY <1>1, <1>3
  <2> QED
    BY <2>1 DEF H!Loop
<1>5. stack[1].node = 1 /\ p <= y
  BY <1>1, <1>4 DEF LoopsFit, Fit
<1>6. Untouched /\ Begun
  BY DEF Found
<1>7. Len(kids[1]) = K /\ \A k \in 1 .. K : kids[1][k] = 2 * k
  BY <1>2, <1>6 DEF Untouched
<1>8. kind[1] = "element"
  BY DEF HPage, Typed
<1>9. y = K
  <2>1. Grown(stack[1], kind, kids, start)
    BY <1>1 DEF Growth
  <2> QED
    BY <1>2, <1>4, <1>5, <1>6, <1>8, <2>1 DEF Grown, Begun
<1>10. ASSUME S >= 2
       PROVE  /\ p >= 1 /\ stack[2].node = 2 * p /\ stack[2].length = 1 /\ stack[2].i \in 0 .. 1
              /\ kind[2 * p] = "element" /\ items[p].kind = "element"
  <2>1. 1 \in 1 .. S - 1 /\ 2 \in 1 .. S
    BY <1>10
  <2>2. p >= 1 /\ stack[2].node = kids[1][p]
    <3>1. stack[1].i >= 1 /\ stack[1 + 1].node = kids[stack[1].node][stack[1].i]
      BY <1>1, <2>1 DEF LoopsFit, Fit
    <3> QED
      BY <1>4, <1>5, <3>1
  <2>3. p \in 1 .. K
    BY <1>5, <1>9, <2>2
  <2>4. stack[2].node = 2 * p
    BY <1>7, <2>2, <2>3
  <2>5. kind[2 * p] = items[p].kind /\ kind[2 * p] \in {"element", "mark"}
    BY <1>1, <1>2, <1>6, <2>1, <2>3, <2>4 DEF Untouched, LoopsFit, Fit
  <2>6. items[p].kind \in {"text", "element", "control"}
    <3>1. items[p] \in H!Item
      BY <1>2, <2>3 DEF Found
    <3> QED
      BY <3>1 DEF H!Item
  <2>7. kind[2 * p] = "element" /\ items[p].kind = "element"
    BY <2>5, <2>6
  <2>8. Grown(stack[2], kind, kids, start)
    BY <1>1, <2>1 DEF Growth
  <2>9. stack[2].length = 1
    <3>1. stack[2].length = Len(start[2 * p])
      BY <2>4, <2>7, <2>8 DEF Grown
    <3>2. Len(start[2 * p]) = 1
      <4>1. PICK q : q = 2 * p + 1
        OBVIOUS
      <4>2. start[2 * p] = <<q>>
        BY <1>2, <1>6, <2>3, <4>1 DEF Begun
      <4> QED
        BY <4>2
    <3> QED
      BY <3>1, <3>2
  <2>10. stack[2].i \in Nat /\ stack[2].i <= stack[2].length
    <3>1. PICK r \in H!Loop : r = stack[2]
      BY <1>3, <2>1
    <3>2. r.i \in Nat
      BY DEF H!Loop
    <3> QED
      BY <1>1, <2>1, <3>1, <3>2 DEF LoopsFit, Fit
  <2> QED
    BY <2>2, <2>4, <2>7, <2>9, <2>10
<1>11. ASSUME S >= 3 PROVE stack[2].i = 1
  <2>1. 2 \in 1 .. S - 1 /\ S >= 2
    BY <1>11
  <2>2. stack[2].i >= 1
    BY <1>1, <2>1 DEF LoopsFit, Fit
  <2> QED
    BY <1>10, <2>1, <2>2
<1>12. stack[1].length = K /\ p <= K
  BY <1>4, <1>5, <1>9
<1>13. AtItem(S, K, p)
  BY <1>1, <1>2, <1>4, <1>5, <1>7, <1>10, <1>11, <1>12, Zenon DEF AtItem
<1> QED
  BY <1>13

(* Steps that leave the page alone.                                          *)
LEMMA FoundStay ==
  ASSUME Found, PageStays, UNCHANGED <<items, terms, start>>,
         Lone /\ Whole => \A k \in 1 .. Len(items) : /\ Behind(stack', k) /\ ~Behind(stack, k) => Done(k)
                                                     /\ Behind(stack, k) => Behind(stack', k)
  PROVE  Found'
<1>1. \A k : (Fresh(k)' <=> Fresh(k)) /\ (Done(k)' <=> Done(k))
  BY DEF Fresh, Done, PageStays, H!Marked, H!ChildOf, H!Holds, H!Occurs
<1>2. (Lone' <=> Lone) /\ (Whole' <=> Whole) /\ (Untouched' <=> Untouched) /\ (Begun' <=> Begun)
  BY DEF Lone, Whole, Untouched, Begun, PageStays
<1>3. ASSUME Lone, Whole, NEW k \in 1 .. Len(items) PROVE Reached(k)'
  <2>1. Reached(k)
    BY <1>3 DEF Found
  <2>2. Reached(k)' <=> IF Behind(stack', k) THEN Done(k)' ELSE Fresh(k)'
    BY DEF Reached, Behind
  <2> QED
    BY <1>1, <1>3, <2>1, <2>2 DEF Reached
<1>4. items' = items /\ kind' = kind
  BY DEF PageStays
<1> QED
  BY <1>1, <1>2, <1>3, <1>4 DEF Found

(* An item as it was loaded is no marked one.                                *)
LEMMA FreshUnmarked ==
  ASSUME NEW k, Fresh(k)
  PROVE  ~H!Marked(2 * k)
BY DEF Fresh, H!Marked, H!ChildOf

-----------------------------------------------------------------------------
(* The walk, step by step, on such a page.                                   *)

(* The loop on an item has its only text before it.                          *)
LEMMA LoneText ==
  ASSUME HPage, LoopsFit, Growth(stack, kind, kids, start), Found, Lone, Whole, H!HasNext,
         NEW p, NEW K, AtItem(2, K, p), K \in Nat, p \in Nat
  PROVE  /\ p \in 1 .. K /\ ~Behind(stack, p) /\ Fresh(p) /\ stack[2].i = 0
         /\ H!Top = stack[2] /\ H!Child = 2 * p + 1 /\ kind[H!Child] = "text"
<1>1. Len(stack) = 2 /\ p = stack[1].i /\ p \in 1 .. K /\ K = Len(items)
      /\ stack[2].node = 2 * p /\ stack[2].length = 1 /\ stack[2].i \in 0 .. 1
  BY DEF AtItem
<1>2. H!Top = stack[2] /\ stack[2].i < stack[2].length
  BY <1>1 DEF H!HasNext, H!Top
<1>3. stack[2].i = 0
  BY <1>1, <1>2
<1>4. stack # <<>>
  BY DEF H!HasNext
<1>5. ~Behind(stack, p)
  BY <1>1, <1>3, <1>4 DEF Behind
<1>6. Fresh(p)
  BY <1>1, <1>5 DEF Found, Reached
<1>7. PICK q : q = 2 * p + 1
  OBVIOUS
<1>8. kids[2 * p] = <<q>> /\ kind[q] = "text"
  BY <1>6, <1>7 DEF Fresh
<1>9. H!Child = q
  BY <1>1, <1>2, <1>3, <1>8 DEF H!Child
<1> QED
  BY <1>1, <1>2, <1>3, <1>5, <1>6, <1>7, <1>8, <1>9

(* The loop on the root has an item before it, that is no text.              *)
LEMMA LoneItem ==
  ASSUME HPage, LoopsFit, Growth(stack, kind, kids, start), Found, Lone, Whole, H!HasNext,
         NEW p, NEW K, AtItem(1, K, p), K \in Nat, p \in Nat
  PROVE  /\ p + 1 \in 1 .. K /\ ~Behind(stack, p + 1) /\ Fresh(p + 1)
         /\ H!Child = 2 * (p + 1) /\ kind[H!Child] = items[p + 1].kind /\ kind[H!Child] # "text"
<1>1. Len(stack) = 1 /\ p = stack[1].i /\ K = Len(items) /\ stack[1].length = K /\ stack[1].node = 1
      /\ \A k \in 1 .. K : kids[1][k] = 2 * k
  BY DEF AtItem
<1>2. H!Top = stack[1] /\ p < K
  BY <1>1 DEF H!HasNext, H!Top
<1>3. PICK q \in 1 .. K : q = p + 1
  BY <1>2
<1>4. H!Child = 2 * q
  BY <1>1, <1>2, <1>3 DEF H!Child
<1>5. stack # <<>>
  BY DEF H!HasNext
<1>6. ~Behind(stack, q)
  <2>1. ~(q < p) /\ q # p
    BY <1>3
  <2> QED
    BY <1>1, <1>5, <2>1 DEF Behind
<1>7. Fresh(q)
  BY <1>1, <1>6 DEF Found, Reached
<1>8. kind[2 * q] = items[q].kind /\ items[q].kind # "text"
  BY <1>1 DEF Found, Untouched, Lone
<1> QED
  BY <1>3, <1>4, <1>6, <1>7, <1>8

(* Far down, in a mark: nothing counts there.                                *)
LEMMA BehindSame ==
  ASSUME NEW s, NEW t, s # <<>>, t # <<>>, t[1].i = s[1].i,
         \/ Len(s) = 1 /\ Len(t) = 1
         \/ Len(s) # 1 /\ Len(t) # 1 /\ t[2].i = s[2].i
  PROVE  \A k : Behind(t, k) <=> Behind(s, k)
BY DEF Behind

HWalk == HPage /\ LoopsFit /\ Growth(stack, kind, kids, start) /\ Found

(* A turn inside an element leaves the items behind the walk.                *)
LEMMA DeepAdvance ==
  ASSUME NEW s \in Seq(H!Loop), NEW t, Advanced(t, s), Len(s) >= 3
  PROVE  \A k : Behind(t, k) <=> Behind(s, k)
<1>1. PICK S \in Nat : S = Len(s) /\ S >= 3
  OBVIOUS
<1>2. 1 \in 1 .. S /\ 1 < S /\ 2 \in 1 .. S /\ 2 < S /\ S # 1
  BY <1>1
<1>3. Len(t) = S /\ t[1].i = s[1].i /\ t[2].i = s[2].i
  BY <1>1, <1>2 DEF Advanced
<1>4. s # <<>> /\ t # <<>>
  <2>1. Len(<<>>) = 0
    OBVIOUS
  <2> QED
    BY <1>1, <1>3, <2>1
<1> QED
  BY <1>1, <1>2, <1>3, <1>4, BehindSame

(* So does a loop begun inside an element.                                   *)
LEMMA DeepPush ==
  ASSUME NEW s \in Seq(H!Loop), NEW t, NEW n, NEW l, Pushed(t, s, n, l), Len(s) >= 2
  PROVE  \A k : Behind(t, k) <=> Behind(s, k)
<1>1. PICK S \in Nat : S = Len(s) /\ S >= 2
  OBVIOUS
<1>2. 1 \in 1 .. S /\ 2 \in 1 .. S /\ S # 1 /\ S + 1 # 1
  BY <1>1
<1>3. Len(t) = S + 1 /\ t[1] = s[1] /\ t[2] = s[2]
  BY <1>1, <1>2 DEF Pushed
<1>4. s # <<>> /\ t # <<>>
  <2>1. Len(<<>>) = 0
    OBVIOUS
  <2> QED
    BY <1>1, <1>2, <1>3, <2>1
<1> QED
  BY <1>1, <1>2, <1>3, <1>4, BehindSame

(* Step is a turn of the innermost loop.                                     *)
LEMMA StepAdvances ==
  ASSUME LoopsFit, H!HasNext
  PROVE  Advanced(H!Step, stack)
<1>1. stack \in Seq(H!Loop) /\ stack # <<>>
  BY DEF LoopsFit, Fit, H!HasNext
<1> QED
  BY <1>1, Advancing DEF H!Step

(* Found, past a control.                                                    *)
LEMMA FoundControl ==
  ASSUME HWalk, H!VisitControl
  PROVE  Found'
<1>1. H!HasNext /\ kind[H!Child] = "control" /\ stack' = H!Step /\ PageStays /\ UNCHANGED <<items, terms, start>>
  BY DEF H!VisitControl, PageStays
<1>2. Advanced(stack', stack) /\ stack # <<>> /\ stack \in Seq(H!Loop)
  BY <1>1, StepAdvances DEF HWalk, LoopsFit, Fit, H!HasNext
<1>3. ASSUME Lone, Whole, NEW k \in 1 .. Len(items)
      PROVE  /\ Behind(stack', k) /\ ~Behind(stack, k) => Done(k)
             /\ Behind(stack, k) => Behind(stack', k)
  <2>1. PICK S \in Nat \ {0}, K, p \in Nat : AtItem(S, K, p)
    BY <1>2, <1>3, Where DEF HWalk
  <2>2. CASE S = 1
    <3>1. /\ p + 1 \in 1 .. K /\ ~Behind(stack, p + 1) /\ Fresh(p + 1)
          /\ H!Child = 2 * (p + 1) /\ kind[H!Child] = items[p + 1].kind
      BY <1>1, <1>3, <2>1, <2>2, LoneItem DEF HWalk
    <3>2. Len(stack) = 1 /\ p = stack[1].i /\ K = Len(items) /\ stack'[1].i = p + 1 /\ Len(stack') = 1
      BY <1>2, <2>1, <2>2 DEF AtItem, Advanced
    <3>3. stack' # <<>>
      <4>1. Len(<<>>) = 0
        OBVIOUS
      <4> QED
        BY <3>2, <4>1
    <3>4. k \in Nat
      BY <3>2
    <3>5. Behind(stack', k) <=> k <= p + 1
      BY <3>2, <3>3, <3>4 DEF Behind
    <3>6. Behind(stack, k) <=> k <= p
      BY <1>2, <3>2, <3>4 DEF Behind
    <3>7. Done(p + 1)
      <4>1. PICK q : q = p + 1
        OBVIOUS
      <4>2. items[q].kind # "element" /\ Fresh(q)
        BY <1>1, <3>1, <4>1
      <4>3. Done(q)
        BY <4>2, FreshUnmarked DEF Done
      <4> QED
        BY <4>1, <4>3
    <3>8. k <= p + 1 /\ ~(k <= p) => k = p + 1
      BY <3>4
    <3>9. k <= p => k <= p + 1
      BY <3>4
    <3> QED
      BY <3>5, <3>6, <3>7, <3>8, <3>9
  <2>3. CASE S = 2
    <3>1. kind[H!Child] = "text"
      BY <1>1, <1>3, <2>1, <2>3, LoneText DEF HWalk
    <3> QED
      BY <1>1, <3>1
  <2>4. CASE S >= 3
    <3>1. Len(stack) >= 3
      BY <2>1, <2>4 DEF AtItem
    <3> QED
      BY <1>2, <3>1, DeepAdvance
  <2> QED
    BY <2>2, <2>3, <2>4
<1> QED
  BY <1>1, <1>3, FoundStay DEF HWalk

(* Found, into an element.                                                   *)
LEMMA FoundElement ==
  ASSUME HWalk, H!VisitElement
  PROVE  Found'
<1>1. /\ H!HasNext /\ kind[H!Child] \in {"element", "mark"} /\ PageStays /\ UNCHANGED <<items, terms, start>>
      /\ stack' = Append(H!Step, [node |-> H!Child, i |-> 0, length |-> Len(kids[H!Child])])
  BY DEF H!VisitElement, PageStays
<1>2. Advanced(H!Step, stack) /\ stack # <<>> /\ stack \in Seq(H!Loop)
  BY <1>1, StepAdvances DEF HWalk, LoopsFit, Fit, H!HasNext
<1>3. PICK s : s = H!Step
  OBVIOUS
<1>4. PICK n, l : n = H!Child /\ l = Len(kids[H!Child])
  OBVIOUS
<1>5. s \in Seq(H!Loop) /\ n \in Nat /\ l \in Nat
  <2>1. H!Child \in 1 .. Len(kind)
    BY <1>1, Innermost DEF HWalk
  <2>2. H!Child \in Nat /\ Len(kids[H!Child]) \in Nat
    BY <2>1 DEF HWalk, HPage, Typed
  <2> QED
    BY <1>2, <1>3, <1>4, <2>2 DEF Advanced
<1>6. Pushed(stack', s, n, l)
  <2>1. stack' = Append(s, [node |-> n, i |-> 0, length |-> l])
    BY <1>1, <1>3, <1>4
  <2> QED
    BY <1>5, <2>1, Pushing
<1>7. ASSUME Lone, Whole, NEW k \in 1 .. Len(items)
      PROVE  Behind(stack', k) <=> Behind(stack, k)
  <2>1. PICK S \in Nat \ {0}, K, p \in Nat : AtItem(S, K, p)
    BY <1>2, <1>7, Where DEF HWalk
  <2>2. CASE S = 1
    <3>1. Len(stack) = 1 /\ p = stack[1].i /\ K = Len(items) /\ s[1].i = p + 1 /\ Len(s) = 1
      BY <1>2, <1>3, <2>1, <2>2 DEF AtItem, Advanced
    <3>2. Len(stack') = 2 /\ stack'[1] = s[1] /\ stack'[2] = [node |-> n, i |-> 0, length |-> l]
      BY <1>6, <3>1 DEF Pushed
    <3>3. stack'[2].i = 0
      <4>1. PICK r : r = [node |-> n, i |-> 0, length |-> l]
        OBVIOUS
      <4>2. stack'[2] = r /\ r.i = 0
        BY <3>2, <4>1
      <4> QED
        BY <4>2
    <3>4. stack' # <<>>
      <4>1. Len(<<>>) = 0 /\ 0 # 2
        OBVIOUS
      <4>2. Len(stack') = 2
        BY <3>2
      <4> QED
        BY <4>1, <4>2
    <3>5. k \in Nat
      BY <3>1
    <3>6. Behind(stack', k) <=> k < p + 1
      <4>1. stack'[1].i = p + 1 /\ ~(Len(stack') = 1) /\ ~(stack'[2].i > 0)
        BY <3>1, <3>2, <3>3
      <4> QED
        BY <3>4, <4>1, Zenon DEF Behind
    <3>7. Behind(stack, k) <=> k <= p
      BY <1>2, <3>1, <3>5 DEF Behind
    <3> QED
      BY <3>5, <3>6, <3>7
  <2>3. CASE S = 2
    <3>1. kind[H!Child] = "text"
      BY <1>1, <1>7, <2>1, <2>3, LoneText DEF HWalk
    <3> QED
      BY <1>1, <3>1
  <2>4. CASE S >= 3
    <3>1. Len(stack) >= 3
      BY <2>1, <2>4 DEF AtItem
    <3>2. Len(s) >= 2
      BY <1>2, <1>3, <3>1 DEF Advanced
    <3> QED
      BY <1>2, <1>3, <1>5, <1>6, <3>1, <3>2, DeepAdvance, DeepPush
  <2> QED
    BY <2>2, <2>3, <2>4
<1> QED
  BY <1>1, <1>7, FoundStay DEF HWalk

(* Found, out of an element.                                                 *)
LEMMA FoundLeave ==
  ASSUME HWalk, H!LeaveElement
  PROVE  Found'
<1>1. /\ stack # <<>> /\ ~H!HasNext /\ PageStays /\ UNCHANGED <<items, terms, start>>
      /\ stack' = SubSeq(stack, 1, Len(stack) - 1)
  BY DEF H!LeaveElement, PageStays
<1>2. PICK L \in Nat \ {0} : L = Len(stack) /\ stack \in Seq(H!Loop)
  BY <1>1 DEF HWalk, LoopsFit, Fit
<1>3. Len(stack') = L - 1 /\ \A k \in 1 .. L - 1 : stack'[k] = stack[k]
  BY <1>1, <1>2, LoopsLeave DEF HWalk, LoopsFit
<1>4. H!Top = stack[L] /\ ~(stack[L].i < stack[L].length)
  BY <1>1, <1>2 DEF H!HasNext, H!Top
<1>5. ASSUME Lone, Whole, NEW k \in 1 .. Len(items)
      PROVE  Behind(stack', k) <=> Behind(stack, k)
  <2>1. PICK S \in Nat \ {0}, K, p \in Nat : AtItem(S, K, p)
    BY <1>1, <1>5, Where DEF HWalk
  <2>2. /\ S = L /\ K = Len(items) /\ p = stack[1].i /\ stack[1].length = K /\ p <= K
        /\ S >= 2 => stack[2].length = 1 /\ stack[2].i \in 0 .. 1
        /\ S >= 3 => stack[2].i = 1
    BY <1>2, <2>1 DEF AtItem
  <2>3. k \in Nat /\ k <= K
    BY <2>2
  <2>4. CASE S = 1
    <3>1. p = K /\ L = 1
      BY <1>4, <2>2, <2>4
    <3>2. Behind(stack, k)
      <4>1. Len(stack) = 1
        BY <1>2, <3>1
      <4>2. k < stack[1].i \/ k = stack[1].i
        BY <2>2, <2>3, <3>1
      <4> QED
        BY <4>1, <4>2 DEF Behind
    <3>3. stack' = <<>>
      <4>1. stack' \in Seq(H!Loop) /\ Len(stack') = 0
        BY <1>1, <1>2, <1>3, <3>1
      <4> QED
        BY <4>1
    <3> QED
      BY <3>2, <3>3 DEF Behind
  <2>5. CASE S = 2
    <3>1. stack[2].i = 1 /\ L = 2
      BY <1>4, <2>2, <2>5
    <3>2. Len(stack') = 1 /\ stack'[1] = stack[1]
      BY <1>3, <3>1
    <3>3. stack' # <<>>
      <4>1. Len(<<>>) = 0
        OBVIOUS
      <4> QED
        BY <3>2, <4>1
    <3>4. stack[2].i > 0
      BY <3>1
    <3> QED
      BY <1>1, <3>2, <3>3, <3>4 DEF Behind
  <2>6. CASE S >= 3
    <3>1. 1 \in 1 .. L - 1 /\ 2 \in 1 .. L - 1
      BY <2>2, <2>6
    <3>2. stack'[1] = stack[1] /\ stack'[2] = stack[2] /\ stack[2].i > 0
      BY <1>3, <2>2, <2>6, <3>1
    <3>3. stack' # <<>>
      <4>1. Len(<<>>) = 0 /\ L - 1 # 0
        BY <2>2, <2>6
      <4> QED
        BY <1>3, <4>1
    <3> QED
      BY <1>1, <3>2, <3>3, Zenon DEF Behind
  <2> QED
    BY <2>4, <2>5, <2>6
<1> QED
  BY <1>1, <1>5, FoundStay DEF HWalk

(* Found, past a text without the term.                                      *)
LEMMA FoundText ==
  ASSUME HWalk, terms \in Seq(Terms), terms # <<>>, H!VisitText, PageStays
  PROVE  Found'
<1>1. H!HasNext /\ kind[H!Child] = "text" /\ stack' = H!Step /\ UNCHANGED <<items, terms, start>>
  BY DEF H!VisitText
<1>2. Advanced(stack', stack) /\ stack # <<>> /\ stack \in Seq(H!Loop)
  BY <1>1, StepAdvances DEF HWalk, LoopsFit, Fit, H!HasNext
<1>3. ASSUME Lone, Whole, NEW k \in 1 .. Len(items)
      PROVE  /\ Behind(stack', k) /\ ~Behind(stack, k) => Done(k)
             /\ Behind(stack, k) => Behind(stack', k)
  <2>1. PICK S \in Nat \ {0}, K, p \in Nat : AtItem(S, K, p)
    BY <1>2, <1>3, Where DEF HWalk
  <2>2. CASE S = 1
    <3>1. kind[H!Child] # "text"
      BY <1>1, <1>3, <2>1, <2>2, LoneItem DEF HWalk
    <3> QED
      BY <1>1, <3>1
  <2>3. CASE S = 2
    <3>1. /\ p \in 1 .. K /\ ~Behind(stack, p) /\ Fresh(p) /\ stack[2].i = 0
          /\ H!Top = stack[2] /\ H!Child = 2 * p + 1
      BY <1>1, <1>3, <2>1, <2>3, LoneText DEF HWalk
    <3>2. /\ Len(stack) = 2 /\ p = stack[1].i /\ stack[2].node = 2 * p /\ kind[2 * p] = "element"
      BY <2>1, <2>3 DEF AtItem
    <3>3. 1 \in 1 .. 2 /\ 1 < 2 /\ 2 \in 1 .. 2
      OBVIOUS
    <3>4. Len(stack') = 2 /\ stack'[1].i = p /\ stack'[2].i = 1
      BY <1>2, <3>1, <3>2, <3>3 DEF Advanced
    <3>5. Done(p)
      <4>1. ~H!Matches(H!Child)
        <5> SUFFICES ASSUME H!Matches(H!Child) PROVE FALSE
          OBVIOUS
        <5>1. H!Split(H!Child)
          BY DEF H!VisitText
        <5>2. Len(kind) \in Nat /\ kind \in Seq(Kinds) /\ "text" \in Kinds /\ "mark" \in Kinds
          BY DEF HWalk, HPage, Typed, Kinds
        <5>3. kind' = kind \o <<"text", "mark", "text">>
          BY <5>1 DEF H!Split
        <5>4. Len(kind') = Len(kind) + 3
          BY <5>2, <5>3, ThreeAppended DEF ThreeMore
        <5>5. kind' = kind
          BY DEF PageStays
        <5> QED
          BY <5>2, <5>4, <5>5
      <4>2. ~H!Holds(Head(terms), items[p].text)
        <5>1. ~H!Holds(Head(terms), text[2 * p + 1])
          BY <3>1, <3>2, <4>1 DEF H!Matches
        <5> QED
          BY <3>1, <5>1 DEF Fresh
      <4> QED
        BY <3>1, <4>2, FreshUnmarked DEF Done
    <3>6. ASSUME k # p PROVE Behind(stack', k) <=> Behind(stack, k)
      <4>1. stack' # <<>>
        <5>1. Len(<<>>) = 0 /\ 0 # 2
          OBVIOUS
        <5> QED
          BY <3>4, <5>1
      <4> QED
        BY <1>2, <3>2, <3>4, <3>6, <4>1 DEF Behind
    <3> QED
      BY <3>1, <3>5, <3>6
  <2>4. CASE S >= 3
    <3>1. Len(stack) >= 3
      BY <2>1, <2>4 DEF AtItem
    <3> QED
      BY <1>2, <3>1, DeepAdvance
  <2> QED
    BY <2>2, <2>3, <2>4
<1> QED
  BY <1>1, <1>3, FoundStay DEF HWalk

(* Found, past a text with the term.                                         *)
LEMMA FoundCut ==
  ASSUME HWalk, terms \in Seq(Terms), terms # <<>>, H!VisitText, PageIsCut
  PROVE  Found'
<1>1. H!HasNext /\ kind[H!Child] = "text" /\ stack' = H!Step /\ UNCHANGED <<items, terms, start>>
  BY DEF H!VisitText
<1>2. Advanced(stack', stack) /\ stack # <<>> /\ stack \in Seq(H!Loop)
  BY <1>1, StepAdvances DEF HWalk, LoopsFit, Fit, H!HasNext
<1>3. PICK m, at, c : m = H!Top.node /\ at = H!Top.i + 1 /\ c = H!Child
  OBVIOUS
<1>4. Place(m, at, c) /\ \E a, d : Cut(m, at, c, a, Head(terms), d)
  BY <1>3 DEF PageIsCut
<1>5. PICK N, L \in Nat \ {0} :
        /\ N = Len(kind) /\ m \in 1 .. N /\ c \in 1 .. N /\ c # m
        /\ kids \in [1 .. N -> Seq(1 .. N)] /\ kind[m] = "element" /\ kind[c] = "text"
        /\ L = Len(kids[m]) /\ at \in 1 .. L /\ kids[m][at] = c
  BY <1>4, CutPlace DEF HWalk
<1>6. /\ Len(kind') = N + 3
      /\ \A x \in 1 .. N : kind'[x] = kind[x]
      /\ \A x \in 1 .. N : x # c => text'[x] = text[x]
      /\ kind'[N + 2] = "mark"
      /\ \A x \in 1 .. N : x # m => kids'[x] = kids[x]
      /\ Len(kids'[m]) = L + 2 /\ kids'[m] \in Seq(1 .. N + 3) /\ kids'[m][at + 1] = N + 2
  BY <1>4, <1>5 DEF Cut, Inserted
<1>7. PICK K \in Nat : K = Len(items) /\ N >= 2 * K + 1
  BY <1>5 DEF HWalk, Found
<1>8. \A k \in 1 .. K : 2 * k \in 1 .. N /\ 2 * k + 1 \in 1 .. N /\ 2 * k # 1
  BY <1>7
<1>9. stack # <<>> /\ Len(stack) \in Nat
  BY <1>2
(* The cut is not in the root, if no item is a text.                         *)
<1>10. ASSUME Lone PROVE m # 1
  <2> SUFFICES ASSUME m = 1 PROVE FALSE
    OBVIOUS
  <2>1. Untouched
    BY <1>10 DEF HWalk, Found
  <2>2. PICK M : M = 1 .. K
    OBVIOUS
  <2>3. kids[1] = [k \in 1 .. K |-> 2 * k]
    BY <1>7, <2>1 DEF Untouched
  <2>4. at \in 1 .. K /\ c = 2 * at
    <3>1. Len([k \in 1 .. K |-> 2 * k]) = K
      BY <1>7
    <3>2. L = K
      BY <1>5, <2>3, <3>1
    <3> QED
      BY <1>5, <2>3, <3>2
  <2>5. kind[c] = items[at].kind /\ items[at].kind # "text"
    BY <1>7, <1>10, <2>1, <2>4 DEF Untouched, Lone
  <2> QED
    BY <1>5, <2>5
<1>11. ASSUME Lone PROVE Untouched'
  <2>1. Untouched /\ m # 1 /\ 1 \in 1 .. N
    BY <1>5, <1>10, <1>11 DEF HWalk, Found
  <2>2. kids'[1] = kids[1] /\ items' = items
    BY <1>1, <1>6, <2>1
  <2>3. \A k \in 1 .. K : kind'[2 * k] = items[k].kind
    BY <1>6, <1>7, <1>8, <2>1 DEF Untouched
  <2> QED
    BY <1>7, <2>1, <2>2, <2>3 DEF Untouched
<1>12. ASSUME Lone, Whole PROVE Begun' /\ \A k \in 1 .. K : Reached(k)'
  <2>1. PICK S \in Nat \ {0}, KK, p \in Nat : AtItem(S, KK, p)
    BY <1>2, <1>12, Where DEF HWalk
  <2>2. Begun /\ Begun'
    BY <1>1, <1>12 DEF HWalk, Found, Begun
  <2>3. S = 2
    <3>1. S # 1
      BY <1>3, <1>5, <1>10, <1>12, <2>1 DEF AtItem, H!Top
    <3>2. ~(S >= 3)
      <4> SUFFICES ASSUME S >= 3 PROVE FALSE
        OBVIOUS
      <4>1. S \in 3 .. Len(stack)
        BY <2>1 DEF AtItem
      <4>2. kind[stack[S].node] = "mark"
        BY <4>1, Depth DEF HWalk
      <4>3. m = stack[S].node
        BY <1>3, <2>1 DEF AtItem, H!Top
      <4> QED
        BY <1>5, <4>2, <4>3
    <3> QED
      BY <3>1, <3>2
  <2>4. /\ p \in 1 .. K /\ ~Behind(stack, p) /\ Fresh(p) /\ stack[2].i = 0
        /\ H!Top = stack[2] /\ c = 2 * p + 1
    <3>1. KK = K
      BY <1>7, <2>1 DEF AtItem
    <3> QED
      BY <1>1, <1>3, <1>12, <2>1, <2>3, <3>1, LoneText DEF HWalk
  <2>5. /\ Len(stack) = 2 /\ p = stack[1].i /\ stack[2].node = 2 * p /\ items[p].kind = "element"
    BY <2>1, <2>3 DEF AtItem
  <2>6. m = 2 * p
    BY <1>3, <2>4, <2>5
  <2>7. 1 \in 1 .. 2 /\ 1 < 2 /\ 2 \in 1 .. 2
    OBVIOUS
  <2>8. Len(stack') = 2 /\ stack'[1].i = p /\ stack'[2].i = 1
    BY <1>2, <2>4, <2>5, <2>7 DEF Advanced
  <2>9. stack' # <<>>
    <3>1. Len(<<>>) = 0 /\ 0 # 2
      OBVIOUS
    <3> QED
      BY <2>8, <3>1
  (* The text is behind the walk now, and in a mark as it should.             *)
  <2>10. Done(p)'
    <3>1. H!Matches(c)
      <4> SUFFICES ASSUME ~H!Matches(c) PROVE FALSE
        OBVIOUS
      <4>1. kind' = kind
        BY <1>3 DEF H!VisitText
      <4> QED
        BY <1>5, <1>6, <4>1
    <3>2. H!Holds(Head(terms), items[p].text)
      <4>1. H!Holds(Head(terms), text[2 * p + 1])
        BY <2>4, <3>1 DEF H!Matches
      <4> QED
        BY <2>4, <4>1 DEF Fresh
    <3>3. H!Holds(Head(terms), items[p].text)'
      BY <1>1, <3>2 DEF H!Holds, H!Occurs
    <3>4. at + 1 \in DOMAIN kids'[m]
      <4>1. at + 1 \in 1 .. L + 2
        BY <1>5
      <4>2. PICK E : E = 1 .. N + 3
        OBVIOUS
      <4>3. kids'[m] \in Seq(E) /\ at + 1 \in 1 .. Len(kids'[m])
        BY <1>6, <4>1, <4>2
      <4>4. DOMAIN kids'[m] = 1 .. Len(kids'[m])
        BY <4>3
      <4> QED
        BY <4>3, <4>4
    <3>5. H!Marked(2 * p)'
      BY <1>6, <2>6, <3>4 DEF H!Marked, H!ChildOf
    <3> QED
      BY <1>1, <2>5, <3>3, <3>5 DEF Done
  <2>11. ASSUME NEW k \in 1 .. K, k # p PROVE Reached(k)'
    <3>1. Reached(k)
      BY <1>7, <1>12 DEF HWalk, Found
    <3>2. Behind(stack', k) <=> Behind(stack, k)
      BY <1>2, <2>5, <2>8, <2>9, <2>11 DEF Behind
    <3>3. 2 * k \in 1 .. N /\ 2 * k + 1 \in 1 .. N /\ 2 * k # m /\ 2 * k + 1 # c
      <4>1. k \in Nat /\ p \in Nat
        BY <2>4
      <4>2. 2 * k # 2 * p
        BY <2>11, <4>1
      <4> QED
        BY <1>8, <2>4, <2>6, <4>1, <4>2
    <3>4. kids'[2 * k] = kids[2 * k] /\ kind'[2 * k + 1] = kind[2 * k + 1] /\ text'[2 * k + 1] = text[2 * k + 1]
      BY <1>6, <3>3
    <3>5. Fresh(k) => Fresh(k)'
      BY <1>1, <3>4 DEF Fresh
    <3>6. H!Marked(2 * k)' <=> H!Marked(2 * k)
      <4>1. \A x \in H!ChildOf(2 * k) : x \in 1 .. N
        <5>1. PICK E : E = 1 .. N
          OBVIOUS
        <5>2. kids[2 * k] \in Seq(E)
          BY <1>5, <3>3, <5>1
        <5>3. \A j \in DOMAIN kids[2 * k] : kids[2 * k][j] \in E
          BY <5>2
        <5> QED
          BY <5>1, <5>3 DEF H!ChildOf
      <4>2. H!ChildOf(2 * k)' = H!ChildOf(2 * k)
        BY <3>4 DEF H!ChildOf
      <4> QED
        BY <1>6, <4>1, <4>2 DEF H!Marked
    <3>7. Done(k) => Done(k)'
      BY <1>1, <3>6 DEF Done, H!Holds, H!Occurs
    <3>8. Reached(k)' <=> IF Behind(stack', k) THEN Done(k)' ELSE Fresh(k)'
      BY DEF Reached, Behind
    <3> QED
      BY <3>1, <3>2, <3>5, <3>7, <3>8 DEF Reached
  <2>12. Reached(p)'
    <3>1. Behind(stack', p)
      <4>1. stack'[2].i > 0
        BY <2>8
      <4> QED
        BY <2>8, <2>9, <4>1 DEF Behind
    <3>2. Reached(p)' <=> IF Behind(stack', p) THEN Done(p)' ELSE Fresh(p)'
      BY DEF Reached, Behind
    <3> QED
      BY <2>10, <3>1, <3>2
  <2> QED
    BY <2>2, <2>11, <2>12
<1>13. (Lone' <=> Lone) /\ (Whole' <=> Whole)
  BY <1>1 DEF Lone, Whole
<1>14. Len(kind') >= 2 * K + 1 /\ Len(kind') # 2 * K + 1 /\ Len(items') = K
  BY <1>1, <1>6, <1>7
<1>15. items' \in Seq(H!Item)
  BY <1>1 DEF HWalk, Found
<1> QED
  BY <1>11, <1>12, <1>13, <1>14, <1>15 DEF Found

(* Found, when the next term is searched for.                                *)
LEMMA FoundNext ==
  ASSUME HWalk, H!NextTerm
  PROVE  Found'
<1>1. /\ UNCHANGED <<items, kind, kids, text>> /\ start' = kids
      /\ stack' = <<[node |-> 1, i |-> 0, length |-> Len(kids[1])]>>
  BY DEF H!NextTerm, H!Root
<1>2. PICK K \in Nat, N \in Nat \ {0} : K = Len(items) /\ N = Len(kind) /\ DOMAIN kids = 1 .. N /\ items \in Seq(H!Item) /\ N >= 2 * K + 1
  BY DEF HWalk, HPage, Typed, Found
<1>3. Lone' <=> Lone
  BY <1>1 DEF Lone
<1>4. \A k : Fresh(k)' <=> Fresh(k)
  BY <1>1 DEF Fresh
<1>5. Untouched' <=> Untouched
  BY <1>1 DEF Untouched
<1>6. stack'[1].i = 0 /\ stack' # <<>>
  <2>1. PICK r : r = [node |-> 1, i |-> 0, length |-> Len(kids[1])]
    OBVIOUS
  <2>2. stack' = <<r>> /\ r.i = 0
    BY <1>1, <2>1
  <2> QED
    BY <2>2
<1>7. ASSUME Lone, Whole' PROVE Begun' /\ \A k \in 1 .. K : Reached(k)'
  <2>1. N = 2 * K + 1
    <3>1. DOMAIN start' = 1 .. 2 * K + 1
      BY <1>1, <1>2, <1>7 DEF Whole
    <3>2. 1 .. N = 1 .. 2 * K + 1
      BY <1>1, <1>2, <3>1
    <3>3. N \in 1 .. N /\ 2 * K + 1 \in 1 .. 2 * K + 1
      BY <1>2
    <3> QED
      BY <1>2, <3>2, <3>3
  <2>2. Untouched /\ \A k \in 1 .. K : Fresh(k)
    BY <1>2, <1>7, <2>1 DEF HWalk, Found
  <2>3. Begun'
    <3>1. Len(kids[1]) = K
      BY <1>2, <2>2 DEF Untouched
    <3>2. \A k \in 1 .. K : kids[2 * k] = <<2 * k + 1>>
      BY <2>2 DEF Fresh
    <3> QED
      BY <1>1, <1>2, <3>1, <3>2 DEF Begun
  <2>4. ASSUME NEW k \in 1 .. K PROVE Reached(k)'
    <3>1. ~Behind(stack', k)
      <4>1. ~(k < 0) /\ k # 0
        OBVIOUS
      <4> QED
        BY <1>6, <4>1 DEF Behind
    <3>2. Reached(k)' <=> IF Behind(stack', k) THEN Done(k)' ELSE Fresh(k)'
      BY DEF Reached, Behind
    <3> QED
      BY <1>4, <2>2, <3>1, <3>2
  <2> QED
    BY <2>3, <2>4
<1>8. items' = items /\ kind' = kind
  BY <1>1
<1> QED
  BY <1>2, <1>3, <1>4, <1>5, <1>7, <1>8 DEF HWalk, Found

-----------------------------------------------------------------------------
(* The walk: its invariant.                                                  *)
HInv ==
  /\ HPage /\ LoopsFit /\ Growth(stack, kind, kids, start) /\ Found
  /\ terms \in Seq(Terms) /\ terms # <<>>
  /\ H!TextPreserved

(* The page reads as before, cut or not.                                     *)
LEMMA ReadsAlike ==
  ASSUME HPage, PageStays \/ PageIsCut, UNCHANGED items, H!TextPreserved,
         terms \in Seq(Terms), terms # <<>>
  PROVE  H!TextPreserved'
<1>1. H!TextOfPage' = H!TextOfPage
  <2>1. CASE PageStays
    BY <2>1 DEF PageStays, H!TextOfPage, H!TextOfChild, H!TextOfMark
  <2>2. CASE PageIsCut
    <3>1. PICK a, d \in Seq(Letter) :
            /\ Place(H!Top.node, H!Top.i + 1, H!Child)
            /\ Cut(H!Top.node, H!Top.i + 1, H!Child, a, Head(terms), d)
      BY <2>2 DEF PageIsCut
    <3>2. Head(terms) \in Seq(Letter)
      <4>1. Terms \subseteq Seq(Letter)
        BY ScriptsAssumption DEF H!HighlightTextAssumption
      <4> QED
        BY <4>1
    <3>3. PICK m, at, c : m = H!Top.node /\ at = H!Top.i + 1 /\ c = H!Child
      OBVIOUS
    <3> QED
      BY <3>1, <3>2, <3>3, CutReads
  <2> QED
    BY <2>1, <2>2
<1>2. H!TextPreserved' <=> H!TextOfPage' = H!Joined([k \in DOMAIN items' |-> items'[k].text])
  BY HOperators DEF H!TextPreserved
<1> QED
  BY <1>1, <1>2 DEF H!TextPreserved

(* The page stays one, cut or not.                                           *)
LEMMA PageNext ==
  ASSUME HPage, PageStays \/ PageIsCut, terms \in Seq(Terms), terms # <<>>
  PROVE  HPage'
<1>1. CASE PageStays
  BY <1>1 DEF PageStays, HPage, Typed, Shaped, Once, InElement
<1>2. CASE PageIsCut
  <2>1. PICK a, d \in Seq(Letter) :
          /\ Place(H!Top.node, H!Top.i + 1, H!Child)
          /\ Cut(H!Top.node, H!Top.i + 1, H!Child, a, Head(terms), d)
    BY <1>2 DEF PageIsCut
  <2>2. Head(terms) \in Terms
    OBVIOUS
  <2>3. PICK m, at, c : m = H!Top.node /\ at = H!Top.i + 1 /\ c = H!Child
    OBVIOUS
  <2> QED
    BY <2>1, <2>2, <2>3, CutPage
<1> QED
  BY <1>1, <1>2

(* One step, action by action.                                               *)
LEMMA HVisitText ==
  ASSUME HInv, H!VisitText
  PROVE  HInv'
<1>1. /\ HPage /\ LoopsFit /\ Growth(stack, kind, kids, start) /\ Found /\ HWalk
      /\ terms \in Seq(Terms) /\ terms # <<>> /\ H!TextPreserved
  BY DEF HInv, HWalk
<1>2. H!HasNext /\ stack' = H!Step /\ UNCHANGED <<items, terms, start>>
  BY DEF H!VisitText
<1>3. PageStays \/ PageIsCut
  BY <1>1, TextVisited
<1>4. HPage'
  BY <1>1, <1>3, PageNext
<1>5. Advanced(stack', stack)
  BY <1>1, <1>2, StepAdvances
<1>6. Kept
  BY <1>1, <1>2, <1>3, StayKeeps, CutKeeps
<1>7. LoopsFit'
  <2>1. Fit(stack', kind', kids')
    BY <1>1, <1>2, <1>4, <1>5, <1>6, LoopsAdvance
  <2> QED
    BY <2>1 DEF LoopsFit, Fit
<1>8. Growth(stack', kind', kids', start')
  <2>1. CASE PageIsCut
    BY <1>1, <1>2, <1>5, <2>1, GrowthCut
  <2>2. CASE PageStays
    <3>1. Growth(stack', kind, kids, start)
      BY <1>1, <1>2, <1>5, GrowthAdvance
    <3> QED
      BY <1>2, <2>2, <3>1 DEF PageStays
  <2> QED
    BY <1>3, <2>1, <2>2
<1>9. Found'
  BY <1>1, <1>3, FoundText, FoundCut
<1>10. H!TextPreserved'
  BY <1>1, <1>2, <1>3, ReadsAlike
<1>11. Growth(stack, kind, kids, start)' <=> Growth(stack', kind', kids', start')
  BY DEF Growth, Grown, Unvisited
<1> QED
  BY <1>1, <1>2, <1>4, <1>7, <1>8, <1>9, <1>10, <1>11 DEF HInv

(* Steps that leave the page and the terms.                                  *)
LEMMA HStays ==
  ASSUME HInv, PageStays, UNCHANGED <<items, terms, start>>,
         Fit(stack', kind, kids), Growth(stack', kind, kids, start), Found'
  PROVE  HInv'
<1>1. HPage' /\ H!TextPreserved' /\ terms' \in Seq(Terms) /\ terms' # <<>>
  BY PageNext, ReadsAlike DEF HInv
<1>2. LoopsFit'
  BY DEF LoopsFit, Fit, PageStays
<1>3. Growth(stack, kind, kids, start)'
  BY DEF Growth, Grown, Unvisited, PageStays
<1> QED
  BY <1>1, <1>2, <1>3 DEF HInv

(* The invariant past a control.                                             *)
LEMMA HVisitControl ==
  ASSUME HInv, H!VisitControl
  PROVE  HInv'
<1>1. /\ HPage /\ LoopsFit /\ Growth(stack, kind, kids, start) /\ Found /\ HWalk
  BY DEF HInv, HWalk
<1>2. H!HasNext /\ stack' = H!Step /\ PageStays /\ UNCHANGED <<items, terms, start>>
  BY DEF H!VisitControl, PageStays
<1>3. Advanced(stack', stack)
  BY <1>1, <1>2, StepAdvances
<1>4. Fit(stack', kind, kids)
  <2>1. HPage'
    BY <1>1, <1>2, PageNext DEF HInv
  <2>2. Fit(stack', kind', kids')
    BY <1>1, <1>2, <1>3, <2>1, StayKeeps, LoopsAdvance
  <2> QED
    BY <1>2, <2>2 DEF PageStays
<1>5. Growth(stack', kind, kids, start)
  BY <1>1, <1>2, <1>3, GrowthAdvance
<1>6. Found'
  BY <1>1, FoundControl
<1> QED
  BY <1>2, <1>4, <1>5, <1>6, HStays

(* The invariant into an element.                                            *)
LEMMA HVisitElement ==
  ASSUME HInv, H!VisitElement
  PROVE  HInv'
<1>1. /\ HPage /\ LoopsFit /\ Growth(stack, kind, kids, start) /\ Found /\ HWalk
  BY DEF HInv, HWalk
<1>2. /\ H!HasNext /\ kind[H!Child] \in {"element", "mark"} /\ PageStays /\ UNCHANGED <<items, terms, start>>
      /\ stack' = Append(H!Step, [node |-> H!Child, i |-> 0, length |-> Len(kids[H!Child])])
  BY DEF H!VisitElement, PageStays
<1>3. PICK s, t : s = H!Step /\ t = stack'
  OBVIOUS
<1>4. Advanced(s, stack)
  BY <1>1, <1>2, <1>3, StepAdvances
<1>5. PICK L \in Nat \ {0} :
        /\ L = Len(stack) /\ stack[L].i \in Nat
        /\ H!Child = kids[stack[L].node][stack[L].i + 1] /\ H!Child \in 1 .. Len(kind)
  BY <1>1, <1>2, Innermost
<1>6. PICK n, z : n = H!Child /\ z = Len(kids[n])
  OBVIOUS
<1>7. n \in Nat /\ z \in Nat
  <2>1. n \in 1 .. Len(kind)
    BY <1>5, <1>6
  <2> QED
    BY <1>1, <1>6, <2>1 DEF HPage, Typed
<1>8. s \in Seq(H!Loop) /\ Len(s) = L /\ s[L].node = stack[L].node /\ s[L].i = stack[L].i + 1
  BY <1>4, <1>5 DEF Advanced
<1>9. Pushed(t, s, n, z)
  <2>1. t = Append(s, [node |-> n, i |-> 0, length |-> z])
    BY <1>2, <1>3, <1>6
  <2> QED
    BY <1>7, <1>8, <2>1, Pushing
<1>10. Fit(s, kind, kids)
  <2>1. s = s /\ HPage'
    BY <1>1, <1>2, PageNext DEF HInv
  <2>2. Fit(s, kind', kids')
    BY <1>1, <1>2, <1>4, <2>1, StayKeeps, LoopsAdvance
  <2> QED
    BY <1>2, <2>2 DEF PageStays
<1>11. Fit(t, kind, kids)
  <2>1. Inner(s, kind, kids, L, n, z)
    BY <1>2, <1>5, <1>6, <1>8 DEF Inner
  <2> QED
    BY <1>7, <1>9, <1>10, <2>1, LoopsPush
<1>12. Growth(t, kind, kids, start)
  <2>1. Pushed(t, s, H!Child, Len(kids[H!Child]))
    BY <1>6, <1>9
  <2> QED
    BY <1>1, <1>2, <1>4, <2>1, GrowthPush
<1>13. Found'
  BY <1>1, FoundElement
<1> QED
  BY <1>2, <1>3, <1>11, <1>12, <1>13, HStays

(* The invariant out of an element.                                          *)
LEMMA HLeaveElement ==
  ASSUME HInv, H!LeaveElement
  PROVE  HInv'
<1>1. /\ HPage /\ Fit(stack, kind, kids) /\ Growth(stack, kind, kids, start) /\ Found /\ HWalk
  BY DEF HInv, HWalk, LoopsFit
<1>2. /\ stack # <<>> /\ stack' = SubSeq(stack, 1, Len(stack) - 1) /\ PageStays
      /\ UNCHANGED <<items, terms, start>>
  BY DEF H!LeaveElement, PageStays
<1>3. PICK s, t : s = stack /\ t = SubSeq(s, 1, Len(s) - 1)
  OBVIOUS
<1>4. Fit(t, kind, kids) /\ Len(t) = Len(s) - 1 /\ \A k \in 1 .. Len(s) - 1 : t[k] = s[k]
  BY <1>1, <1>2, <1>3, LoopsLeave
<1>5. t \in Seq(H!Loop)
  BY <1>4 DEF Fit
<1>6. Growth(t, kind, kids, start)
  BY <1>1, <1>2, <1>3, <1>4, <1>5, GrowthLeave
<1>7. Found'
  BY <1>1, FoundLeave
<1> QED
  BY <1>2, <1>3, <1>4, <1>6, <1>7, HStays

(* The invariant when the next term is searched for.                         *)
LEMMA HNextTerm ==
  ASSUME HInv, H!NextTerm
  PROVE  HInv'
<1>1. /\ HPage /\ Found /\ HWalk /\ terms \in Seq(Terms)
  BY DEF HInv, HWalk
<1>2. /\ PageStays /\ UNCHANGED items /\ start' = kids /\ terms' = Tail(terms) /\ Len(terms) > 1
      /\ stack' = <<[node |-> 1, i |-> 0, length |-> Len(kids[1])]>>
  BY DEF H!NextTerm, H!Root, PageStays
<1>3. terms' \in Seq(Terms) /\ terms' # <<>>
  <2>1. terms' \in Seq(Terms) /\ Len(terms') > 0
    BY <1>1, <1>2
  <2> QED
    BY <2>1
<1>4. HPage' /\ H!TextPreserved'
  BY <1>2, PageNext, ReadsAlike DEF HInv
<1>5. PICK N \in Nat \ {0} : N = Len(kind) /\ kind[1] = "element" /\ kids \in [1 .. N -> Seq(1 .. N)]
  <2>1. PICK N \in Nat \ {0} : N = Len(kind)
    BY <1>1 DEF HPage, Typed
  <2>2. kind[1] = "element" /\ kids \in [1 .. N -> Seq(1 .. N)]
    BY <1>1, <2>1 DEF HPage, Typed
  <2> QED
    BY <2>1, <2>2
<1>6. Started(stack', kids) /\ kids[1] \in Seq(1 .. N)
  BY <1>2, <1>5 DEF Started
<1>7. LoopsFit'
  <2>1. Fit(stack', kind, kids)
    BY <1>5, <1>6, LoopsStart
  <2> QED
    BY <1>2, <2>1 DEF LoopsFit, Fit, PageStays
<1>8. Growth(stack, kind, kids, start)'
  <2>1. Growth(stack', kind, kids, kids)
    BY <1>5, <1>6, GrowthStart
  <2> QED
    BY <1>2, <2>1 DEF Growth, Grown, Unvisited, PageStays
<1>9. Found'
  BY <1>1, FoundNext
<1> QED
  BY <1>3, <1>4, <1>7, <1>8, <1>9 DEF HInv

(* The invariant of HighlightText in all its steps.                          *)
LEMMA HNext ==
  ASSUME HInv, H!Next
  PROVE  HInv'
BY HVisitText, HVisitElement, HVisitControl, HLeaveElement, HNextTerm DEF H!Next

(* It stays while other scripts run.                                         *)
LEMMA HUnchanged ==
  ASSUME HInv, UNCHANGED hVars
  PROVE  HInv'
<1>1. PageStays /\ UNCHANGED <<items, terms, start, stack>>
  BY DEF hVars, PageStays
<1>2. HPage' /\ H!TextPreserved' /\ terms' \in Seq(Terms) /\ terms' # <<>>
  BY <1>1, PageNext, ReadsAlike DEF HInv
<1>3. LoopsFit'
  BY <1>1 DEF HInv, LoopsFit, Fit, PageStays
<1>4. Growth(stack, kind, kids, start)'
  BY <1>1 DEF HInv, Growth, Grown, Unvisited, PageStays
<1>5. Found'
  <2>1. \A k : Behind(stack', k) <=> Behind(stack, k)
    BY <1>1
  <2> QED
    BY <1>1, <2>1, FoundStay DEF HInv
<1> QED
  BY <1>2, <1>3, <1>4, <1>5 DEF HInv

-----------------------------------------------------------------------------
(* The page as it was loaded.                                                *)
Single(k) ==
  /\ kind[2 * k] = items[k].kind /\ kids[2 * k + 1] = <<>>
  /\ \/ /\ items[k].kind = "text"
        /\ kids[2 * k] = <<>> /\ text[2 * k] = items[k].text
        /\ kind[2 * k + 1] = "none" /\ text[2 * k + 1] = <<>>
     \/ /\ items[k].kind \in {"element", "control"}
        /\ kids[2 * k] = <<2 * k + 1>> /\ text[2 * k] = <<>>
        /\ kind[2 * k + 1] = "text" /\ text[2 * k + 1] = items[k].text

Loaded(K) ==
  /\ K = Len(items) /\ items \in Seq(H!Item)
  /\ kind \in Seq(Kinds) /\ Len(kind) = 2 * K + 1 /\ kind[1] = "element"
  /\ kids \in [1 .. 2 * K + 1 -> Seq(1 .. 2 * K + 1)] /\ text \in [1 .. 2 * K + 1 -> Seq(Letter)]
  /\ kids[1] = [k \in 1 .. K |-> 2 * k] /\ text[1] = <<>>
  /\ \A k \in 1 .. K : Single(k)
  /\ start = kids

(* The nodes of a page as it was loaded.                                     *)
LEMMA LoadedNodes ==
  ASSUME NEW K \in Nat, Loaded(K)
  PROVE  \A n \in 1 .. 2 * K + 1 : n = 1 \/ \E k \in 1 .. K : n = 2 * k \/ n = 2 * k + 1
<1> SUFFICES ASSUME NEW n \in 1 .. 2 * K + 1, n # 1
             PROVE  \E k \in 1 .. K : n = 2 * k \/ n = 2 * k + 1
  OBVIOUS
<1>1. PICK k \in Int : n = 2 * k \/ n = 2 * k + 1
  <2>1. n = 2 * (n \div 2) \/ n = 2 * (n \div 2) + 1
    OBVIOUS
  <2>2. n \div 2 \in Int
    OBVIOUS
  <2> QED
    BY <2>1, <2>2
<1>2. k \in 1 .. K
  BY <1>1
<1> QED
  BY <1>1, <1>2

(* It is a page.                                                             *)
LEMMA LoadedPage ==
  ASSUME NEW K \in Nat, Loaded(K)
  PROVE  HPage
<1>1. PICK N \in Nat \ {0} : N = 2 * K + 1 /\ N = Len(kind)
  BY DEF Loaded
<1>2. Typed
  BY DEF Loaded, Typed
<1>3. Len(kids[1]) = K /\ \A k \in 1 .. K : kids[1][k] = 2 * k
  BY DEF Loaded
<1>4. \A k \in 1 .. K : Single(k) /\ 2 * k \in 1 .. N /\ 2 * k + 1 \in 1 .. N /\ 2 * k # 1 /\ 2 * k + 1 # 1
  BY <1>1 DEF Loaded
<1>5. kind[1] = "element" /\ text[1] = <<>>
  BY DEF Loaded
<1>6. \A n \in 1 .. N : n = 1 \/ \E k \in 1 .. K : n = 2 * k \/ n = 2 * k + 1
  BY <1>1, LoadedNodes
<1>7. Shaped(1)
  <2>1. \A k \in 1 .. K : kind[2 * k] # "none"
    BY <1>4 DEF Single
  <2>2. \A k \in 1 .. Len(kids[1]) : kids[1][k] # 1 /\ kind[kids[1][k]] # "none"
    BY <1>3, <1>4, <2>1
  <2> QED
    BY <1>5, <2>2 DEF Shaped
<1>8. ASSUME NEW k \in 1 .. K PROVE Shaped(2 * k) /\ Shaped(2 * k + 1)
  <2>1. PICK m, c : m = 2 * k /\ c = 2 * k + 1
    OBVIOUS
  <2>2. Single(k) /\ m # 1 /\ c # 1
    BY <1>4, <2>1
  <2>3. kids[c] = <<>> /\ kind[c] \in {"none", "text"} /\ kind[m] # "mark"
        /\ (kind[c] = "none" => text[c] = <<>>)
    BY <2>1, <2>2 DEF Single
  <2>4. Len(<<>>) = 0 /\ Len(<<c>>) = 1 /\ <<c>>[1] = c
    OBVIOUS
  <2>5. Shaped(c)
    BY <2>3, <2>4 DEF Shaped
  <2>6. CASE items[k].kind = "text"
    <3>1. kind[m] = "text" /\ kids[m] = <<>>
      BY <2>1, <2>2, <2>6 DEF Single
    <3> QED
      BY <2>1, <2>4, <2>5, <3>1 DEF Shaped
  <2>7. CASE items[k].kind # "text"
    <3>1. kind[m] \in {"element", "control"} /\ kids[m] = <<c>> /\ text[m] = <<>> /\ kind[c] = "text"
      BY <2>1, <2>2, <2>7 DEF Single
    <3>2. \A j \in 1 .. Len(kids[m]) : kids[m][j] = c
      BY <2>4, <3>1
    <3> QED
      BY <2>1, <2>2, <2>4, <2>5, <3>1, <3>2 DEF Shaped
  <2> QED
    BY <2>6, <2>7
<1>9. \A n \in 1 .. N : Shaped(n)
  BY <1>6, <1>7, <1>8
<1>10. \A n \in 1 .. N : kind[n] # "mark"
  BY <1>4, <1>5, <1>6 DEF Single
(* Where a list has what.                                                    *)
<1>11. ASSUME NEW n \in 1 .. N, NEW j \in 1 .. Len(kids[n])
       PROVE  \/ n = 1 /\ j \in 1 .. K /\ kids[n][j] = 2 * j
              \/ j = 1 /\ \E k \in 1 .. K : n = 2 * k /\ kids[n][j] = 2 * k + 1
  <2>1. CASE n = 1
    BY <1>3, <2>1
  <2>2. CASE n # 1
    <3>1. PICK k \in 1 .. K : n = 2 * k \/ n = 2 * k + 1
      BY <1>6, <2>2
    <3>2. PICK m, c : m = 2 * k /\ c = 2 * k + 1
      OBVIOUS
    <3>3. Len(<<>>) = 0 /\ Len(<<c>>) = 1 /\ <<c>>[1] = c /\ 1 .. 0 = {}
      OBVIOUS
    <3>4. kids[c] = <<>> /\ (kids[m] = <<>> \/ kids[m] = <<c>>)
      BY <1>4, <3>2 DEF Single
    <3>5. n = m /\ kids[m] = <<c>>
      BY <3>1, <3>2, <3>3, <3>4
    <3>6. j = 1
      BY <3>3, <3>5
    <3> QED
      BY <3>2, <3>3, <3>5, <3>6
  <2> QED
    BY <2>1, <2>2
<1>12. Once
  <2> SUFFICES ASSUME NEW m \in 1 .. N, NEW n \in 1 .. N, NEW j \in 1 .. Len(kids[m]), NEW k \in 1 .. Len(kids[n]),
                      kids[m][j] = kids[n][k]
               PROVE  m = n /\ j = k
    BY <1>1 DEF Once
  <2>1. \/ m = 1 /\ j \in 1 .. K /\ kids[m][j] = 2 * j
        \/ j = 1 /\ \E a \in 1 .. K : m = 2 * a /\ kids[m][j] = 2 * a + 1
    BY <1>11
  <2>2. \/ n = 1 /\ k \in 1 .. K /\ kids[n][k] = 2 * k
        \/ k = 1 /\ \E b \in 1 .. K : n = 2 * b /\ kids[n][k] = 2 * b + 1
    BY <1>11
  <2>3. \A a, b \in 1 .. K : 2 * a # 2 * b + 1 /\ (2 * a = 2 * b => a = b) /\ (2 * a + 1 = 2 * b + 1 => a = b)
    OBVIOUS
  <2> QED
    BY <2>1, <2>2, <2>3
<1> QED
  BY <1>1, <1>2, <1>9, <1>10, <1>12 DEF HPage

(* It reads as its items.                                                    *)
LEMMA LoadedReads ==
  ASSUME NEW K \in Nat, Loaded(K)
  PROVE  H!TextPreserved
<1>1. PICK N \in Nat \ {0} : N = 2 * K + 1
  OBVIOUS
<1>2. kids \in [1 .. N -> Seq(1 .. N)] /\ text \in [1 .. N -> Seq(Letter)]
  BY <1>1 DEF Loaded
<1>3. kids[1] = [k \in 1 .. K |-> 2 * k] /\ DOMAIN kids[1] = 1 .. K /\ DOMAIN items = 1 .. K
  BY DEF Loaded
<1>4. \A k \in 1 .. K : Single(k) /\ 2 * k \in 1 .. N /\ 2 * k + 1 \in 1 .. N
  BY <1>1 DEF Loaded
<1>5. ASSUME NEW k \in 1 .. K PROVE ChildTexts(N, kids, text)[2 * k] = items[k].text
  <2>1. PICK m \in 1 .. N, c \in 1 .. N : m = 2 * k /\ c = 2 * k + 1
    BY <1>4
  <2>2. PICK M : M = MarkTexts(N, kids, text)
    OBVIOUS
  <2>3. ChildTexts(N, kids, text)[m] = text[m] \o Line(kids[m], M)
    BY <2>2 DEF ChildTexts
  <2>4. M[c] = text[c] \o Line(kids[c], text)
    BY <2>2 DEF MarkTexts
  <2>5. \A s \in Seq(Letter) : s \o <<>> = s /\ <<>> \o s = s
    OBVIOUS
  <2>6. text[m] \in Seq(Letter) /\ text[c] \in Seq(Letter)
    BY <1>2
  <2>7. CASE items[k].kind = "text"
    <3>1. kids[m] = <<>> /\ text[m] = items[k].text
      BY <1>4, <2>1, <2>7 DEF Single
    <3>2. Line(kids[m], M) = <<>>
      BY <3>1, LineNone
    <3> QED
      BY <2>1, <2>3, <2>5, <2>6, <3>1, <3>2
  <2>8. CASE items[k].kind # "text"
    <3>1. kids[m] = <<c>> /\ text[m] = <<>> /\ text[c] = items[k].text /\ kids[c] = <<>>
      BY <1>4, <2>1, <2>8 DEF Single
    <3>2. M[c] = text[c]
      <4>1. Line(kids[c], text) = <<>>
        BY <3>1, LineNone
      <4> QED
        BY <2>4, <2>5, <2>6, <4>1
    <3>3. Line(kids[m], M) = text[c]
      <4>1. Line(<<c>>, M) = M[c]
        BY <2>6, <3>2, LineOne
      <4> QED
        BY <3>1, <3>2, <4>1
    <3> QED
      BY <2>1, <2>3, <2>5, <2>6, <3>1, <3>3
  <2> QED
    BY <2>7, <2>8
<1>6. PageText(N, kids, text) = Joined([k \in DOMAIN items |-> items[k].text])
  <2>1. [k \in DOMAIN kids[1] |-> ChildTexts(N, kids, text)[kids[1][k]]] = [k \in DOMAIN items |-> items[k].text]
    <3>1. \A k \in 1 .. K : kids[1][k] = 2 * k
      BY <1>3
    <3> QED
      BY <1>3, <1>5, <3>1
  <2> QED
    BY <2>1 DEF PageText, Line
<1>7. H!TextOfPage = PageText(N, kids, text)
  BY <1>2, PageReads
<1> QED
  BY <1>6, <1>7, HOperators DEF H!TextPreserved

(* Nothing is found yet, and nothing is behind the walk.                     *)
LEMMA LoadedFound ==
  ASSUME NEW K \in Nat, Loaded(K), \A k \in 1 .. K : ~Behind(stack, k)
  PROVE  Found
<1>1. /\ K = Len(items) /\ items \in Seq(H!Item) /\ Len(kind) = 2 * K + 1
      /\ kids[1] = [k \in 1 .. K |-> 2 * k] /\ start = kids
      /\ \A k \in 1 .. K : Single(k)
  BY DEF Loaded
<1>2. Lone => \A k \in 1 .. K : Fresh(k)
  BY <1>1 DEF Lone, Fresh, Single
<1>3. Untouched
  BY <1>1 DEF Untouched, Single
<1>4. Lone => Begun
  <2>1. Len(kids[1]) = K
    BY <1>1
  <2> QED
    BY <1>1, <1>2, <2>1 DEF Begun, Fresh
<1>5. Lone => \A k \in 1 .. K : Reached(k)
  BY <1>2 DEF Reached
<1>6. 2 * K + 1 >= 2 * K + 1
  OBVIOUS
<1> QED
  BY <1>1, <1>2, <1>3, <1>4, <1>5, <1>6 DEF Found

(* The initial states are such pages.                                        *)
LEMMA InitLoaded ==
  ASSUME H!Init
  PROVE  \E K \in Nat : Loaded(K)
<1>1. PICK K \in Nat : items \in [1 .. K -> H!Item]
  BY ScriptsAssumption DEF H!Init, H!HighlightTextAssumption
<1>2. Len(items) = K /\ items \in Seq(H!Item) /\ \A k \in 1 .. K : items[k] \in H!Item
  BY <1>1
<1>3. \A k \in 1 .. K : items[k].kind \in {"text", "element", "control"} /\ items[k].text \in Seq(Letter)
  <2>1. \A r \in H!Item : r.kind \in {"text", "element", "control"} /\ r.text \in TextNodes
    BY DEF H!Item
  <2>2. TextNodes \subseteq Seq(Letter)
    BY ScriptsAssumption DEF H!HighlightTextAssumption
  <2> QED
    BY <1>2, <2>1, <2>2
<1>4. PICK N \in Nat \ {0} : N = 2 * K + 1
  OBVIOUS
<1>5. kind = [n \in 1 .. N |-> IF n = 1 THEN "element"
                               ELSE IF n % 2 = 0 THEN items[n \div 2].kind
                               ELSE IF items[n \div 2].kind = "text" THEN "none" ELSE "text"]
  BY <1>2, <1>4 DEF H!Init, H!Root
<1>6. kids = [n \in 1 .. N |-> IF n = 1 THEN [k \in 1 .. K |-> 2 * k]
                               ELSE IF kind[n] \in {"text", "none"} THEN <<>> ELSE <<n + 1>>]
  BY <1>2, <1>4 DEF H!Init, H!Root
<1>7. text = [n \in 1 .. N |-> IF n # 1 /\ kind[n] = "text" THEN items[n \div 2].text ELSE <<>>]
  BY <1>2, <1>4 DEF H!Init, H!Root
<1>8. start = kids
  BY DEF H!Init
<1>9. 1 \in 1 .. N
  OBVIOUS
<1>10. \A k \in 1 .. K : /\ 2 * k \in 1 .. N /\ 2 * k + 1 \in 1 .. N /\ 2 * k # 1 /\ 2 * k + 1 # 1
                         /\ (2 * k) % 2 = 0 /\ (2 * k) \div 2 = k
                         /\ (2 * k + 1) % 2 # 0 /\ (2 * k + 1) \div 2 = k
  BY <1>4
<1>11. ASSUME NEW k \in 1 .. K PROVE Single(k)
  <2>1. PICK m, c : m = 2 * k /\ c = 2 * k + 1 /\ c = m + 1
    OBVIOUS
  <2>2. /\ m \in 1 .. N /\ c \in 1 .. N /\ m # 1 /\ c # 1
        /\ m % 2 = 0 /\ m \div 2 = k /\ c % 2 # 0 /\ c \div 2 = k
    BY <1>10, <2>1
  <2>3. kind[m] = items[k].kind /\ kind[c] = IF items[k].kind = "text" THEN "none" ELSE "text"
    BY <1>5, <2>2
  <2>4. kids[c] = <<>> /\ kids[m] = IF kind[m] \in {"text", "none"} THEN <<>> ELSE <<c>>
    BY <1>6, <2>1, <2>2, <2>3
  <2>5. /\ text[m] = IF kind[m] = "text" THEN items[k].text ELSE <<>>
        /\ text[c] = IF kind[c] = "text" THEN items[k].text ELSE <<>>
    BY <1>7, <2>2
  <2> QED
    BY <1>3, <2>1, <2>3, <2>4, <2>5 DEF Single
<1>12. \A n \in 1 .. N : n = 1 \/ \E k \in 1 .. K : n = 2 * k \/ n = 2 * k + 1
  <2> SUFFICES ASSUME NEW n \in 1 .. N, n # 1
               PROVE  \E k \in 1 .. K : n = 2 * k \/ n = 2 * k + 1
    OBVIOUS
  <2>1. PICK k \in Int : n = 2 * k \/ n = 2 * k + 1
    <3>1. n = 2 * (n \div 2) \/ n = 2 * (n \div 2) + 1
      OBVIOUS
    <3>2. n \div 2 \in Int
      OBVIOUS
    <3> QED
      BY <3>1, <3>2
  <2>2. k \in 1 .. K
    BY <1>4, <2>1
  <2> QED
    BY <2>1, <2>2
<1>13. kind \in Seq(Kinds) /\ Len(kind) = N /\ kind[1] = "element"
  <2>1. \A n \in 1 .. N : kind[n] \in Kinds
    <3>1. kind[1] \in Kinds
      BY <1>5, <1>9 DEF Kinds
    <3>2. \A k \in 1 .. K : kind[2 * k] \in Kinds /\ kind[2 * k + 1] \in Kinds
      BY <1>11 DEF Single, Kinds
    <3> QED
      BY <1>12, <3>1, <3>2
  <2>2. kind \in [1 .. N -> Kinds]
    BY <1>5, <2>1
  <2> QED
    BY <1>5, <1>9, <2>2
<1>14. kids \in [1 .. N -> Seq(1 .. N)] /\ kids[1] = [k \in 1 .. K |-> 2 * k]
  <2>1. kids[1] = [k \in 1 .. K |-> 2 * k]
    BY <1>6, <1>9
  <2>2. PICK E, F : E = 1 .. N /\ F = Seq(E)
    OBVIOUS
  <2>3. kids[1] \in F
    <3>1. \A k \in 1 .. K : 2 * k \in E
      BY <1>10, <2>2
    <3>2. [k \in 1 .. K |-> 2 * k] \in [1 .. K -> E]
      BY <3>1
    <3> QED
      BY <2>1, <2>2, <3>2
  <2>4. \A k \in 1 .. K : kids[2 * k] \in F /\ kids[2 * k + 1] \in F
    <3> TAKE k \in 1 .. K
    <3>1. PICK c \in E : c = 2 * k + 1
      BY <1>10, <2>2
    <3>2. kids[c] = <<>> /\ (kids[2 * k] = <<>> \/ kids[2 * k] = <<c>>)
      BY <1>11, <3>1 DEF Single
    <3>3. <<>> \in F /\ <<c>> \in F
      BY <2>2
    <3> QED
      BY <3>1, <3>2, <3>3
  <2>5. \A n \in 1 .. N : kids[n] \in F
    BY <1>12, <2>3, <2>4
  <2>6. kids \in [1 .. N -> F]
    BY <1>6, <2>5
  <2> QED
    BY <2>1, <2>2, <2>6
<1>15. text \in [1 .. N -> Seq(Letter)] /\ text[1] = <<>>
  <2>1. PICK F : F = Seq(Letter)
    OBVIOUS
  <2>2. text[1] = <<>> /\ <<>> \in F
    BY <1>7, <1>9, <2>1
  <2>3. \A k \in 1 .. K : text[2 * k] \in F /\ text[2 * k + 1] \in F
    BY <1>3, <1>11, <2>1, <2>2 DEF Single
  <2>4. \A n \in 1 .. N : text[n] \in F
    BY <1>12, <2>2, <2>3
  <2>5. text \in [1 .. N -> F]
    BY <1>7, <2>4
  <2> QED
    BY <2>1, <2>2, <2>5
<1> QED
  BY <1>2, <1>4, <1>8, <1>11, <1>13, <1>14, <1>15 DEF Loaded

(* HighlightText: the states in which it begins or has ended.                *)
LEMMA HInit ==
  ASSUME Init
  PROVE  HInv
<1>1. CASE H!Init
  <2>1. PICK K \in Nat : Loaded(K)
    BY <1>1, InitLoaded
  <2>2. Started(stack, kids)
    BY <1>1 DEF H!Init, H!Root, Started
  <2>3. HPage /\ H!TextPreserved
    BY <2>1, LoadedPage, LoadedReads
  <2>4. PICK N \in Nat \ {0} : N = Len(kind) /\ kind[1] = "element" /\ kids \in [1 .. N -> Seq(1 .. N)] /\ start = kids
    <3>2. 2 * K + 1 \in Nat \ {0}
      OBVIOUS
    <3> QED
      BY <2>1, <3>2 DEF Loaded
  <2>5. kids[1] \in Seq(1 .. N)
    BY <2>4
  <2>6. LoopsFit
    BY <2>2, <2>4, <2>5, LoopsStart DEF LoopsFit
  <2>7. Growth(stack, kind, kids, start)
    <3>1. Growth(stack, kind, kids, kids)
      BY <2>2, <2>4, GrowthStart
    <3> QED
      BY <2>4, <3>1
  <2>8. Found
    <3>1. stack # <<>> /\ stack[1].i = 0
      <4>1. PICK r : r = [node |-> 1, i |-> 0, length |-> Len(kids[1])]
        OBVIOUS
      <4>2. stack = <<r>> /\ r.i = 0
        BY <2>2, <4>1 DEF Started
      <4> QED
        BY <4>2
    <3>2. ASSUME NEW k \in 1 .. K PROVE ~Behind(stack, k)
      <4>1. ~(k < 0) /\ k # 0
        OBVIOUS
      <4> QED
        BY <3>1, <4>1 DEF Behind
    <3> QED
      BY <2>1, <3>2, LoadedFound
  <2>9. terms \in Seq(Terms) /\ terms # <<>>
    <3>1. PICK n \in 1 .. MaxTerms : terms \in [1 .. n -> Terms]
      BY <1>1 DEF H!Init
    <3>2. n \in Nat /\ n >= 1
      BY ScriptsAssumption DEF H!HighlightTextAssumption
    <3>3. terms \in Seq(Terms) /\ Len(terms) = n
      BY <3>1, <3>2
    <3> QED
      BY <3>2, <3>3
  <2> QED
    BY <2>3, <2>6, <2>7, <2>8, <2>9 DEF HInv
<1>2. CASE HOver
  <2>1. /\ items = <<>> /\ kind = <<"element">> /\ kids = <<<<>>>> /\ text = <<<<>>>>
        /\ terms = <<ATerm>> /\ stack = <<>> /\ start = <<<<>>>>
    BY <1>2 DEF HOver
  <2>2. Loaded(0)
    <3>1. items \in Seq(H!Item) /\ Len(items) = 0 /\ 1 .. 0 = {} /\ 2 * 0 + 1 = 1
      BY <2>1
    <3>2. kind \in Seq(Kinds) /\ Len(kind) = 1 /\ kind[1] = "element"
      BY <2>1 DEF Kinds
    <3>3. PICK F, E : F = Seq(1 .. 1) /\ E = Seq(Letter)
      OBVIOUS
    <3>4. <<>> \in F /\ <<>> \in E
      BY <3>3
    <3>5. kids \in [1 .. 1 -> F] /\ text \in [1 .. 1 -> E] /\ kids[1] = <<>> /\ text[1] = <<>>
      BY <2>1, <3>4
    <3>6. <<>> = [k \in 1 .. 0 |-> 2 * k]
      BY <3>1
    <3>7. start = kids
      BY <2>1
    <3> QED
      BY <3>1, <3>2, <3>3, <3>5, <3>6, <3>7 DEF Loaded
  <2>3. HPage /\ H!TextPreserved
    BY <2>2, LoadedPage, LoadedReads
  <2>4. Found
    <3>1. \A k \in 1 .. 0 : ~Behind(stack, k)
      OBVIOUS
    <3> QED
      BY <2>2, <3>1, LoadedFound
  <2>5. LoopsFit
    <3>1. stack \in Seq(H!Loop) /\ Len(stack) = 0 /\ 1 .. 0 = {} /\ 1 .. 0 - 1 = {}
      BY <2>1
    <3> QED
      BY <2>1, <3>1 DEF LoopsFit, Fit
  <2>6. Growth(stack, kind, kids, start)
    <3>1. Len(kind) = 1 /\ Len(stack) = 0 /\ 1 .. 0 = {} /\ 1 .. 1 = {1}
      BY <2>1
    <3>2. start \in [1 .. 1 -> Seq(Nat)]
      <4>1. PICK F : F = Seq(Nat)
        OBVIOUS
      <4>2. <<>> \in F
        BY <4>1
      <4>3. start \in [1 .. 1 -> F]
        BY <2>1, <4>2
      <4> QED
        BY <4>1, <4>3
    <3>3. \A n \in DOMAIN start : Len(kids[n]) <= 2 * Len(start[n]) + 1
      <4>1. DOMAIN start = {1} /\ kids[1] = <<>> /\ start[1] = <<>> /\ Len(<<>>) = 0
        BY <2>1
      <4>2. Len(kids[1]) = 0 /\ Len(start[1]) = 0
        BY <4>1
      <4>3. 0 <= 2 * 0 + 1
        OBVIOUS
      <4> QED
        BY <4>1, <4>2, <4>3
    <3>4. \E z \in 1 .. Len(kind) : start \in [1 .. z -> Seq(Nat)]
      BY <3>1, <3>2
    <3> QED
      BY <2>1, <3>1, <3>3, <3>4 DEF Growth, Unvisited
  <2>7. terms \in Seq(Terms) /\ terms # <<>>
    <3>1. ATerm \in Terms
      BY ScriptsAssumption DEF ATerm
    <3> QED
      BY <2>1, <3>1
  <2> QED
    BY <2>3, <2>4, <2>5, <2>6, <2>7 DEF HInv
<1> QED
  BY <1>1, <1>2 DEF Init

(* What the invariant says of the walk.                                      *)
LEMMA MarksFit ==
  ASSUME HInv
  PROVE  WalkMarks
<1>1. PICK N \in Nat \ {0} : N = Len(kind)
  BY DEF HInv, HPage, Typed
<1>2. /\ kind \in Seq(Kinds) /\ kids \in [1 .. N -> Seq(1 .. N)] /\ text \in [1 .. N -> Seq(Letter)]
      /\ \A n \in 1 .. N : Shaped(n)
      /\ \A n \in 1 .. N : kind[n] = "mark" => InElement(n)
  BY <1>1 DEF HInv, HPage, Typed
<1>3. DOMAIN kind = 1 .. N /\ H!Node = 1 .. N
  BY <1>1, <1>2 DEF H!Node
<1>4. H!TypeOK
  <2>1. PICK S \in Nat : S = Len(stack) /\ stack \in Seq(H!Loop) /\ DOMAIN stack = 1 .. S
    BY DEF HInv, LoopsFit, Fit
  <2>2. \A k \in DOMAIN stack : stack[k].node \in H!Node /\ stack[k].i <= stack[k].length
    BY <1>1, <1>3, <2>1 DEF HInv, LoopsFit, Fit
  <2>3. DOMAIN start \subseteq 1 .. N
    <3>1. PICK z \in 1 .. N : start \in [1 .. z -> Seq(Nat)]
      BY <1>1 DEF HInv, Growth
    <3> QED
      BY <3>1
  <2>4. terms \in Seq(Terms)
    BY DEF HInv
  <2>5. kind \in Seq({"text", "element", "control", "mark", "none"})
    BY <1>2 DEF Kinds
  <2>6. kids \in [H!Node -> Seq(H!Node)] /\ text \in [H!Node -> Seq(Letter)]
    BY <1>2, <1>3
  <2> QED
    BY <1>3, <2>1, <2>2, <2>3, <2>4, <2>5, <2>6 DEF H!TypeOK
<1>5. H!MarksAreTerms
  <2> SUFFICES ASSUME NEW n \in 1 .. N, kind[n] = "mark"
               PROVE  /\ kind[H!Parent(n)] = "element"
                      /\ Len(kids[n]) = 1
                      /\ text[kids[n][1]] \in Terms
    BY <1>3 DEF H!MarksAreTerms
  <2>1. Len(kids[n]) = 1 /\ text[kids[n][1]] \in Terms
    BY <1>2 DEF Shaped
  <2>2. PICK m \in 1 .. N : kind[m] = "element" /\ \E k \in 1 .. Len(kids[m]) : kids[m][k] = n
    BY <1>1, <1>2 DEF InElement
  <2>3. \A x \in 1 .. N : DOMAIN kids[x] = 1 .. Len(kids[x])
    BY <1>2
  <2>4. n \in H!ChildOf(m)
    BY <2>2, <2>3 DEF H!ChildOf
  <2>5. \A x \in 1 .. N : n \in H!ChildOf(x) => x = m
    <3> SUFFICES ASSUME NEW x \in 1 .. N, n \in H!ChildOf(x) PROVE x = m
      OBVIOUS
    <3>1. PICK j \in 1 .. Len(kids[x]) : kids[x][j] = n
      BY <2>3 DEF H!ChildOf
    <3>2. PICK k \in 1 .. Len(kids[m]) : kids[m][k] = n
      BY <2>2
    <3>3. Once
      BY DEF HInv, HPage
    <3> QED
      BY <1>1, <3>1, <3>2, <3>3 DEF Once
  <2>6. H!Parent(n) = m
    BY <1>3, <2>4, <2>5 DEF H!Parent
  <2> QED
    BY <2>1, <2>2, <2>6
<1>6. H!WalkIsShort
  BY DEF HInv, Growth, H!WalkIsShort
<1>7. H!LoneTextsMarked
  <2> SUFFICES ASSUME Len(terms) = 1, Whole, stack = <<>>,
                      \A k \in DOMAIN items : items[k].kind # "text",
                      NEW k \in DOMAIN items
               PROVE  H!Marked(2 * k) <=> items[k].kind = "element" /\ H!Holds(terms[1], items[k].text)
    BY DEF H!LoneTextsMarked, Whole
  <2>1. DOMAIN items = 1 .. Len(items)
    BY DEF HInv, Found
  <2>2. Lone /\ k \in 1 .. Len(items)
    BY <2>1 DEF Lone
  <2>3. Done(k)
    BY <2>2 DEF HInv, Found, Reached, Behind
  <2>4. Head(terms) = terms[1]
    BY DEF HInv
  <2> QED
    BY <2>3, <2>4 DEF Done
<1> QED
  BY <1>4, <1>5, <1>6, <1>7 DEF HInv, WalkMarks

(* highlightText, for all pages and search words: whatever it splits while   *)
(* it walks, the page reads as before, marks hold terms and lie in no other, *)
(* the walk ends, and a text that is an only child is marked if it holds a  *)
(* term.                                                                    *)
THEOREM WalkMarksHolds == Spec => []WalkMarks
<1>1. Init => HInv
  BY HInit
<1>2. HInv /\ [Next]_vars => HInv'
  BY HNext, HUnchanged DEF Next, vars
<1>3. HInv => WalkMarks
  BY MarksFit
<1> QED
  BY <1>1, <1>2, <1>3, PTL DEF Spec

-----------------------------------------------------------------------------
(* Toc: the table.                                                           *)

(* The last li of a level.                                                   *)
IsLast(x, s, d, f) ==
  \/ /\ x = 0
     /\ \A q \in f + 1 .. Len(s) : s[q].depth # d
  \/ /\ x \in f + 1 .. Len(s) /\ s[x].depth = d
     /\ \A q \in x + 1 .. Len(s) : s[q].depth # d

(* LastLi is the last item of its level.                                     *)
LEMMA LastOne ==
  ASSUME NEW s, Len(s) \in Nat, NEW d, NEW f \in Nat
  PROVE  IsLast(T!LastLi(s, d, f), s, d, f)
<1>1. PICK L \in Nat : L = Len(s)
  OBVIOUS
<1>2. PICK at : at = {k \in f + 1 .. L : s[k].depth = d}
  OBVIOUS
<1>3. T!LastLi(s, d, f) = IF at = {} THEN 0 ELSE T!Max(at)
  BY <1>1, <1>2 DEF T!LastLi
<1>4. CASE at = {}
  <2>1. \A q \in f + 1 .. L : s[q].depth # d
    BY <1>2, <1>4
  <2> QED
    BY <1>1, <1>3, <1>4, <2>1 DEF IsLast
<1>5. CASE at # {}
  <2>1. at \in SUBSET (0 .. L)
    BY <1>2
  <2>2. PICK x \in at : \A y \in at : y <= x
    BY <1>5, <2>1, Greatest
  <2>3. at \subseteq Nat
    BY <2>1
  <2>4. \E z \in at : \A y \in at : z >= y
    BY <2>2, <2>3
  <2>5. PICK m : m = T!Max(at)
    OBVIOUS
  <2>6. m \in at /\ \A y \in at : m >= y
    BY <2>4, <2>5 DEF T!Max
  <2>7. m \in f + 1 .. L /\ s[m].depth = d
    BY <1>2, <2>6
  <2>8. \A q \in m + 1 .. L : s[q].depth # d
    <3> SUFFICES ASSUME NEW q \in m + 1 .. L, s[q].depth = d PROVE FALSE
      OBVIOUS
    <3>1. q \in f + 1 .. L
      BY <2>7
    <3>2. q \in at
      BY <1>2, <3>1
    <3>3. m >= q
      BY <2>6, <3>2
    <3> QED
      BY <2>7, <3>3
  <2> QED
    BY <1>1, <1>3, <1>5, <2>5, <2>7, <2>8 DEF IsLast
<1> QED
  BY <1>4, <1>5

(* An item lies one level below the item around it, which has a ul.          *)
Inside(s, k) ==
  s[k].depth > 1 => \E j \in 1 .. k - 1 : /\ s[j].depth = s[k].depth - 1 /\ s[j].ul
                                          /\ \A n \in j + 1 .. k - 1 : s[n].depth >= s[k].depth
Nested(s) == \A k \in 1 .. Len(s) : Inside(s, k)

(* Item f of level d is open at the end of the table.                        *)
Open(s, d, f) == /\ f \in 1 .. Len(s) /\ s[f].depth = d /\ s[f].ul
                 /\ \A q \in f + 1 .. Len(s) : s[q].depth > d

(* A ul has something in it.                                                 *)
Held(s, k) == s[k].ul => k + 1 \in 1 .. Len(s) /\ s[k + 1].depth > s[k].depth

(* The table t grown from s, its item f of level d (or the table) open.      *)
Spine(t, f, d, s) ==
  /\ t \in Seq(T!Li) /\ Nested(t)
  /\ Len(s) <= Len(t) /\ \A q \in 1 .. Len(s) : t[q] = s[q]
  /\ \A q \in Len(s) + 1 .. Len(t) : t[q].heading = 0
  /\ (d = 0 /\ f = 0) \/ Open(t, d, f)
  /\ \A q \in f + 1 .. Len(t) : t[q].depth > d
  /\ (\A k \in 1 .. Len(s) : Held(s, k)) => \A k \in 1 .. Len(t) : Held(t, k) \/ (k = Len(t) /\ k = f)
  /\ (\A e \in 1 .. d : \E g : Open(s, e, g)) => t = s

(* The end of a table at which an item of the next level can come.           *)
Ready(t, f, d) ==
  /\ t \in Seq(T!Li) /\ d \in Nat /\ f \in 0 .. Len(t) /\ Nested(t)
  /\ (d = 0 /\ f = 0) \/ Open(t, d, f)
  /\ \A q \in f + 1 .. Len(t) : t[q].depth > d

Below(e, d) == e \in T!Li /\ e.depth = d + 1

(* One more item at the end, inside the open one.                            *)
LEMMA OneMore ==
  ASSUME NEW t, NEW f, NEW d, NEW e, Ready(t, f, d), Below(e, d)
  PROVE  Nested(Append(t, e))
<1>0. PICK E : E = T!Li
  OBVIOUS
<1>a. t \in Seq(E) /\ e \in E
  BY <1>0 DEF Ready, Below
<1>c. PICK L \in Nat : L = Len(t)
  BY <1>a
<1>d. PICK u : u = Append(t, e)
  OBVIOUS
<1>1. L = Len(t) /\ u = Append(t, e)
  BY <1>c, <1>d
<1>2. Len(u) = L + 1 /\ u[L + 1] = e /\ \A q \in 1 .. L : u[q] = t[q]
  BY <1>a, <1>1
<1>b. d \in Nat /\ e.depth = d + 1 /\ Nested(t) /\ \A q \in f + 1 .. L : t[q].depth > d
  BY <1>1 DEF Ready, Below
<1>3. ASSUME NEW k \in 1 .. L PROVE Inside(u, k)
  <2>0. \A j \in 1 .. k - 1 : \A n \in j + 1 .. k - 1 : n \in 1 .. k - 1
    OBVIOUS
  <2>1. Inside(t, k)
    BY <1>1, <1>b DEF Nested
  <2>2. u[k] = t[k] /\ \A n \in 1 .. k - 1 : u[n] = t[n]
    BY <1>2
  <2>3. ASSUME NEW j \in 1 .. k - 1, \A n \in j + 1 .. k - 1 : t[n].depth >= t[k].depth
        PROVE  \A n \in j + 1 .. k - 1 : u[n].depth >= u[k].depth
    BY <2>0, <2>2, <2>3
  <2> QED
    BY <2>1, <2>2, <2>3 DEF Inside
<1>4. Inside(u, L + 1)
  <2>0. (d = 0 /\ f = 0) \/ Open(t, d, f)
    BY DEF Ready
  <2>1. CASE d = 0 /\ f = 0
    BY <1>2, <1>b, <2>1 DEF Inside
  <2>2. CASE Open(t, d, f)
    <3>1. f \in 1 .. (L + 1) - 1 /\ t[f].depth = d /\ t[f].ul /\ u[f] = t[f]
      BY <1>1, <1>2, <2>2 DEF Open
    <3>2. ASSUME NEW n \in f + 1 .. (L + 1) - 1 PROVE u[n].depth >= e.depth
      <4>1. n \in 1 .. L /\ n \in f + 1 .. L
        BY <3>1
      <4>2. t[n] \in E
        BY <1>a, <1>1, <4>1
      <4>3. PICK x \in Nat : x = t[n].depth
        BY <1>0, <4>2 DEF T!Li
      <4>4. x > d
        BY <1>b, <4>1, <4>3
      <4>5. x >= d + 1
        BY <1>b, <4>4
      <4> QED
        BY <1>2, <1>b, <4>1, <4>3, <4>5
    <3>3. d = (d + 1) - 1
      BY <1>b
    <3> QED
      BY <1>2, <1>b, <3>1, <3>2, <3>3 DEF Inside
  <2> QED
    BY <2>0, <2>1, <2>2
<1>5. \A k \in 1 .. L + 1 : k \in 1 .. L \/ k = L + 1
  OBVIOUS
<1> QED
  BY <1>1, <1>2, <1>3, <1>4, <1>5 DEF Nested

(* A spine has what one turn down needs.                                     *)
LEMMA SpineReady ==
  ASSUME NEW s, NEW t, NEW f, NEW d \in Nat, Spine(t, f, d, s)
  PROVE  Ready(t, f, d) /\ Len(t) \in Nat /\ f \in Nat /\ \A k \in 1 .. Len(t) : t[k].depth \in Nat
<1>1. t \in Seq(T!Li)
  BY DEF Spine
<1>2. PICK E : E = T!Li
  OBVIOUS
<1>3. t \in Seq(E)
  BY <1>1, <1>2
<1>4. Len(t) \in Nat /\ \A k \in 1 .. Len(t) : t[k] \in E
  BY <1>3
<1>5. \A k \in 1 .. Len(t) : t[k].depth \in Nat
  BY <1>2, <1>4 DEF T!Li
<1>6. f \in 0 .. Len(t)
  BY <1>4 DEF Spine, Open
<1> QED
  BY <1>1, <1>4, <1>5, <1>6 DEF Spine, Ready

(* The last item of the next level is open.                                  *)
LEMMA SpineOn ==
  ASSUME NEW s, NEW t, NEW f, NEW d \in Nat, Spine(t, f, d, s),
         NEW x, IsLast(x, t, d + 1, f), x # 0, t[x].ul
  PROVE  Spine(t, x, d + 1, s)
<1>1. PICK L \in Nat : L = Len(t) /\ f \in Nat /\ \A k \in 1 .. L : t[k].depth \in Nat
  BY SpineReady
<1>2. x \in f + 1 .. L /\ t[x].depth = d + 1 /\ \A q \in x + 1 .. L : t[q].depth # d + 1
  BY <1>1 DEF IsLast
<1>3. \A q \in f + 1 .. L : t[q].depth > d
  BY <1>1 DEF Spine
<1>4. ASSUME NEW q \in x + 1 .. L PROVE t[q].depth > d + 1
  <2>1. q \in 1 .. L /\ q \in f + 1 .. L
    BY <1>1, <1>2
  <2>2. PICK y \in Nat : y = t[q].depth
    BY <1>1, <2>1
  <2>3. y > d /\ y # d + 1
    BY <1>2, <1>3, <2>1, <2>2
  <2> QED
    BY <2>2, <2>3
<1>5. Open(t, d + 1, x)
  <2>1. x \in 1 .. L
    BY <1>1, <1>2
  <2> QED
    BY <1>1, <1>2, <1>4, <2>1 DEF Open
<1>6. ~(f = L)
  BY <1>1, <1>2
<1>7. (\A k \in 1 .. Len(s) : Held(s, k)) => \A k \in 1 .. L : Held(t, k)
  BY <1>1, <1>6 DEF Spine
<1>8. \A e \in 1 .. d : e \in 1 .. d + 1
  OBVIOUS
<1>9. /\ t \in Seq(T!Li) /\ Nested(t)
      /\ Len(s) <= Len(t) /\ \A q \in 1 .. Len(s) : t[q] = s[q]
      /\ \A q \in Len(s) + 1 .. Len(t) : t[q].heading = 0
  BY DEF Spine
<1>10. \A q \in x + 1 .. Len(t) : t[q].depth > d + 1
  BY <1>1, <1>4
<1>11. (\A k \in 1 .. Len(s) : Held(s, k)) => \A k \in 1 .. Len(t) : Held(t, k) \/ (k = Len(t) /\ k = x)
  <2>1. 1 .. Len(t) = 1 .. L
    BY <1>1
  <2> QED
    BY <1>7, <2>1, Zenon
<1>12. (\A e \in 1 .. d + 1 : \E g : Open(s, e, g)) => t = s
  BY <1>8 DEF Spine
<1> QED
  BY <1>5, <1>9, <1>10, <1>11, <1>12 DEF Spine

(* No item of the next level is open: one is put there.                      *)
LEMMA SpineMore ==
  ASSUME NEW s, NEW t, NEW f, NEW d \in Nat, Spine(t, f, d, s),
         NEW x, IsLast(x, t, d + 1, f), x = 0 \/ ~t[x].ul
  PROVE  Spine(Append(t, T!Padding(d + 1)), Len(t) + 1, d + 1, s)
<1>1. PICK L \in Nat : L = Len(t) /\ f \in Nat /\ f \in 0 .. L /\ \A k \in 1 .. L : t[k].depth \in Nat
  BY SpineReady DEF Ready
<1>2. PICK e : e = T!Padding(d + 1)
  OBVIOUS
<1>3. Below(e, d) /\ e.ul = TRUE /\ e.heading = 0
  <2>1. e = [depth |-> d + 1, ul |-> TRUE, heading |-> 0, href |-> NoId]
    BY <1>2 DEF T!Padding
  <2>2. d + 1 \in Nat \ {0}
    OBVIOUS
  <2> QED
    BY <2>1, <2>2 DEF Below, T!Li
<1>4. PICK u : u = Append(t, e)
  OBVIOUS
<1>5. Nested(u)
  BY <1>3, <1>4, SpineReady, OneMore
<1>6. t \in Seq(T!Li) /\ e \in T!Li
  BY <1>3 DEF Spine, Below
<1>7. u \in Seq(T!Li) /\ Len(u) = L + 1 /\ u[L + 1] = e /\ \A q \in 1 .. L : u[q] = t[q]
  <2>1. PICK E : E = T!Li
    OBVIOUS
  <2>2. t \in Seq(E) /\ e \in E
    BY <1>6, <2>1
  <2>3. u \in Seq(E) /\ Len(u) = L + 1 /\ u[L + 1] = e /\ \A q \in 1 .. L : u[q] = t[q]
    BY <1>1, <1>4, <2>2
  <2> QED
    BY <2>1, <2>3
<1>8. PICK K \in Nat : K = Len(s) /\ K <= L
  <2>1. Len(s) <= L /\ (Len(s) \in Nat)
    BY <1>1 DEF Spine
  <2> QED
    BY <2>1
<1>9. \A q \in 1 .. K : u[q] = s[q]
  <2>1. \A q \in 1 .. K : t[q] = s[q] /\ q \in 1 .. L
    BY <1>8 DEF Spine
  <2> QED
    BY <1>7, <2>1
<1>10. \A q \in K + 1 .. L + 1 : u[q].heading = 0
  <2>1. \A q \in K + 1 .. L + 1 : (q \in K + 1 .. L /\ q \in 1 .. L) \/ q = L + 1
    BY <1>8
  <2>2. \A q \in K + 1 .. L : t[q].heading = 0
    BY <1>1, <1>8 DEF Spine
  <2> QED
    BY <1>3, <1>7, <2>1, <2>2
<1>11. Open(u, d + 1, L + 1)
  <2>1. L + 1 \in 1 .. L + 1 /\ \A q \in (L + 1) + 1 .. L + 1 : FALSE
    OBVIOUS
  <2> QED
    BY <1>3, <1>7, <2>1 DEF Open, Below
<1>12. ASSUME \A k \in 1 .. K : Held(s, k), NEW k \in 1 .. L
       PROVE  Held(u, k)
  <2>1. Held(t, k) \/ (k = L /\ k = f)
    BY <1>1, <1>8, <1>12 DEF Spine
  <2>2. CASE Held(t, k)
    <3>1. k + 1 \in 1 .. L => k + 1 \in 1 .. L + 1
      OBVIOUS
    <3> QED
      BY <1>1, <1>7, <2>2, <3>1 DEF Held
  <2>3. CASE k = L /\ k = f
    <3>1. t[k].depth = d
      <4>1. ~(d = 0 /\ f = 0)
        BY <2>3
      <4> QED
        BY <2>3, <4>1 DEF Spine, Open
    <3>2. u[k] = t[k] /\ u[k + 1] = e /\ k + 1 \in 1 .. L + 1
      BY <1>7, <2>3
    <3>3. e.depth = d + 1 /\ d + 1 > d
      BY <1>3 DEF Below
    <3> QED
      BY <1>7, <3>1, <3>2, <3>3 DEF Held
  <2> QED
    BY <2>1, <2>2, <2>3
<1>13. ~\A y \in 1 .. d + 1 : \E g : Open(s, y, g)
  <2> SUFFICES ASSUME \A y \in 1 .. d + 1 : \E g : Open(s, y, g) PROVE FALSE
    OBVIOUS
  <2>1. t = s
    <3>1. \A y \in 1 .. d : y \in 1 .. d + 1
      OBVIOUS
    <3> QED
      BY <3>1 DEF Spine
  <2>2. PICK g : Open(s, d + 1, g)
    <3>1. d + 1 \in 1 .. d + 1
      OBVIOUS
    <3> QED
      BY <3>1
  <2>3. g \in 1 .. L /\ t[g].depth = d + 1 /\ t[g].ul /\ \A q \in g + 1 .. L : t[q].depth > d + 1
    BY <1>1, <2>1, <2>2 DEF Open
  <2>4. g \in f + 1 .. L
    <3>1. CASE d = 0 /\ f = 0
      BY <2>3, <3>1
    <3>2. CASE Open(t, d, f)
      <4>1. f \in 1 .. L /\ t[f].depth = d
        BY <1>1, <3>2 DEF Open
      <4>2. g # f
        BY <2>3, <4>1
      <4>3. ~(f \in g + 1 .. L)
        <5>1. ~(d > d + 1)
          OBVIOUS
        <5> QED
          BY <2>3, <4>1, <5>1
      <4> QED
        BY <2>3, <4>1, <4>2, <4>3
    <3> QED
      BY <3>1, <3>2 DEF Spine
  <2>5. x \in f + 1 .. L /\ t[x].depth = d + 1 /\ \A q \in x + 1 .. L : t[q].depth # d + 1
    BY <1>1, <2>3, <2>4 DEF IsLast
  <2>6. ~(x \in g + 1 .. L)
    <3>1. ~(d + 1 > d + 1)
      OBVIOUS
    <3> QED
      BY <2>3, <2>5, <3>1
  <2>7. ~(g \in x + 1 .. L)
    BY <2>3, <2>5
  <2>8. x = g /\ x # 0
    BY <1>1, <2>3, <2>5, <2>6, <2>7
  <2> QED
    BY <2>3, <2>8
<1>14. (\A k \in 1 .. K : Held(s, k)) => \A k \in 1 .. L + 1 : Held(u, k) \/ (k = L + 1 /\ k = L + 1)
  <2>1. \A k \in 1 .. L + 1 : k \in 1 .. L \/ k = L + 1
    OBVIOUS
  <2>2. ASSUME \A k \in 1 .. K : Held(s, k) PROVE \A k \in 1 .. L : Held(u, k)
    BY <1>12, <2>2, Zenon
  <2> QED
    BY <2>1, <2>2, Zenon
<1>15. \A q \in (L + 1) + 1 .. L + 1 : FALSE
  OBVIOUS
<1>16. K <= L + 1
  BY <1>8
<1> QED
  BY <1>1, <1>2, <1>4, <1>5, <1>7, <1>8, <1>9, <1>10, <1>11, <1>13, <1>14, <1>15, <1>16 DEF Spine

(* One turn of the loop of appendToTOC.                                      *)
LEMMA DownStep ==
  ASSUME NEW s, NEW t, NEW f, NEW d \in Nat, Spine(t, f, d, s)
  PROVE  \E u, g : T!Down([lis |-> t, from |-> f], d + 1) = [lis |-> u, from |-> g] /\ Spine(u, g, d + 1, s)
<1>1. PICK c : c = [lis |-> t, from |-> f]
  OBVIOUS
<1>2. c.lis = t /\ c.from = f
  BY <1>1
<1>3. PICK x : x = T!LastLi(t, d + 1, f)
  OBVIOUS
<1>4. IsLast(x, t, d + 1, f)
  BY <1>3, LastOne, SpineReady
<1>5. T!Down(c, d + 1) = IF x # 0 /\ t[x].ul THEN [c EXCEPT !.from = x]
                         ELSE [lis |-> Append(t, T!Padding(d + 1)), from |-> Len(t) + 1]
  BY <1>2, <1>3 DEF T!Down
<1>6. CASE x # 0 /\ t[x].ul
  <2>1. [c EXCEPT !.from = x] = [lis |-> t, from |-> x]
    BY <1>1
  <2>2. Spine(t, x, d + 1, s)
    BY <1>4, <1>6, SpineOn
  <2> QED
    BY <1>1, <1>5, <1>6, <2>1, <2>2
<1>7. CASE ~(x # 0 /\ t[x].ul)
  <2>1. Spine(Append(t, T!Padding(d + 1)), Len(t) + 1, d + 1, s)
    BY <1>4, <1>7, SpineMore
  <2> QED
    BY <1>1, <1>5, <1>7, <2>1
<1> QED
  BY <1>6, <1>7

(* The item reached is one of the table.                                     *)
LEMMA DownType ==
  ASSUME NEW c \in [lis : Seq(T!Li), from : Nat], NEW n \in Nat \ {0}
  PROVE  T!Down(c, n) \in [lis : Seq(T!Li), from : Nat]
<1>1. PICK E : E = T!Li
  OBVIOUS
<1>2. PICK t, f : t = c.lis /\ f = c.from
  OBVIOUS
<1>3. t \in Seq(E) /\ f \in Nat /\ Len(t) \in Nat
  BY <1>1, <1>2
<1>4. PICK x : x = T!LastLi(t, n, f)
  OBVIOUS
<1>5. x \in Nat
  <2>1. IsLast(x, t, n, f)
    BY <1>3, <1>4, LastOne
  <2> QED
    BY <1>3, <2>1 DEF IsLast
<1>6. PICK e : e = T!Padding(n)
  OBVIOUS
<1>7. e \in E
  <2>1. e = [depth |-> n, ul |-> TRUE, heading |-> 0, href |-> NoId]
    BY <1>6 DEF T!Padding
  <2> QED
    BY <1>1, <2>1 DEF T!Li
<1>8. T!Down(c, n) = IF x # 0 /\ t[x].ul THEN [c EXCEPT !.from = x]
                     ELSE [lis |-> Append(t, e), from |-> Len(t) + 1]
  BY <1>2, <1>4, <1>6 DEF T!Down
<1>9. [c EXCEPT !.from = x] \in [lis : Seq(E), from : Nat]
  BY <1>1, <1>5
<1>10. Append(t, e) \in Seq(E) /\ Len(t) + 1 \in Nat
  BY <1>3, <1>7
<1> QED
  BY <1>1, <1>8, <1>9, <1>10

(* The turns of the loop, one after the other.                               *)
Turning(w, s, index, k, href) ==
  /\ w[0] = [lis |-> s, from |-> 0]
  /\ \A n \in 1 .. index - 1 : w[n] = T!Down(w[n - 1], n)
  /\ T!AppendToTOC(s, index, k, href) = Append(w[index - 1].lis, T!Entry(index, k, href))

(* The turns of appendToTOC, one after the other.                            *)
LEMMA Turns ==
  ASSUME NEW s \in Seq(T!Li), NEW index \in Nat \ {0}, NEW k, NEW href
  PROVE  \E w : Turning(w, s, index, k, href)
<1>1. PICK N \in Nat : N = index - 1
  OBVIOUS
<1> DEFINE Acc == [lis : Seq(T!Li), from : Nat]
           first == [lis |-> s, from |-> 0]
           step == [n \in 1 .. N |-> [x \in Acc |-> T!Down(x, n)]]
           down == CHOOSE u : u = [n \in 0 .. N |-> IF n = 0 THEN first ELSE T!Down(u[n - 1], n)]
<1>2. T!AppendToTOC(s, index, k, href) = Append(down[N].lis, T!Entry(index, k, href))
  BY <1>1 DEF T!AppendToTOC
<1>3. first \in Acc
  OBVIOUS
<1> HIDE DEF first
<1>4. \A n \in 1 .. N, x \in Acc : T!Down(x, n) \in Acc
  <2>1. \A n \in 1 .. N : n \in Nat \ {0}
    OBVIOUS
  <2> QED
    BY <2>1, DownType
<1> HIDE DEF Acc
<1>5. step \in [1 .. N -> [Acc -> Acc]]
  BY <1>4
<1>6. \A n \in 1 .. N, x \in Acc : step[n][x] = T!Down(x, n)
  OBVIOUS
<1> HIDE DEF step
<1>7. PICK f \in [0 .. N -> Acc] : f[0] = first /\ \A n \in 1 .. N : f[n] = step[n][f[n - 1]]
  <2>1. step \in Steps(N, Acc)
    BY <1>5 DEF Steps
  <2>2. PICK f : Follows(f, N, Acc, first, step)
    BY <1>3, <2>1, Recursion
  <2> QED
    BY <2>2 DEF Follows
<1>8. \A n \in 1 .. N : f[n] = T!Down(f[n - 1], n)
  <2> TAKE n \in 1 .. N
  <2>1. n - 1 \in 0 .. N
    BY <1>1
  <2> QED
    BY <1>6, <1>7, <2>1
<1>9. f = [n \in 0 .. N |-> IF n = 0 THEN first ELSE T!Down(f[n - 1], n)]
  <2>1. \A n \in 0 .. N : n = 0 \/ n \in 1 .. N
    BY <1>1
  <2> QED
    BY <1>7, <1>8, <2>1
<1>10. down = [n \in 0 .. N |-> IF n = 0 THEN first ELSE T!Down(down[n - 1], n)]
  BY <1>9
<1> HIDE DEF down
<1>11. down[0] = first /\ \A n \in 1 .. N : down[n] = T!Down(down[n - 1], n)
  <2>1. 0 \in 0 .. N /\ \A n \in 1 .. N : n \in 0 .. N /\ n # 0
    BY <1>1
  <2> QED
    BY <1>10, <2>1
<1> QED
  BY <1>1, <1>2, <1>11 DEF first, Turning

(* The way down to the item around the new entry.                            *)
LEMMA Chain ==
  ASSUME NEW s \in Seq(T!Li), Nested(s), NEW index \in Nat \ {0}, NEW k, NEW href
  PROVE  \E t, f : /\ T!AppendToTOC(s, index, k, href) = Append(t, T!Entry(index, k, href))
                   /\ Spine(t, f, index - 1, s)
<1>1. PICK N \in Nat : N = index - 1
  OBVIOUS
<1>0. PICK w : Turning(w, s, index, k, href)
  BY Turns
<1>2. /\ w[0] = [lis |-> s, from |-> 0]
      /\ \A n \in 1 .. N : w[n] = T!Down(w[n - 1], n)
      /\ T!AppendToTOC(s, index, k, href) = Append(w[N].lis, T!Entry(index, k, href))
  BY <1>0, <1>1 DEF Turning
<1> DEFINE A == {n \in 0 .. N : \E t, f : w[n] = [lis |-> t, from |-> f] /\ Spine(t, f, n, s)}
<1>3. 0 \in A
  <2>1. PICK E : E = T!Li
    OBVIOUS
  <2>2. s \in Seq(E)
    BY <2>1
  <2>3. PICK L \in Nat : L = Len(s)
    BY <2>2
  <2>4. \A q \in 1 .. L : s[q] \in E
    BY <2>2, <2>3
  <2>5. \A q \in 0 + 1 .. L : s[q].depth > 0
    BY <2>1, <2>4 DEF T!Li
  <2>6. \A q \in L + 1 .. L : FALSE
    OBVIOUS
  <2>7. Spine(s, 0, 0, s)
    BY <2>3, <2>5, <2>6 DEF Spine
  <2> QED
    BY <1>1, <1>2, <2>7
<1>4. ASSUME NEW n \in 1 .. N, n - 1 \in A PROVE n \in A
  <2>1. PICK d \in Nat : d = n - 1 /\ n = d + 1
    BY <1>1
  <2>2. PICK t, f : w[d] = [lis |-> t, from |-> f] /\ Spine(t, f, d, s)
    BY <1>4, <2>1
  <2>3. PICK u, g : T!Down([lis |-> t, from |-> f], d + 1) = [lis |-> u, from |-> g] /\ Spine(u, g, d + 1, s)
    BY <2>2, DownStep
  <2>4. w[n] = [lis |-> u, from |-> g]
    BY <1>2, <2>1, <2>2, <2>3
  <2>5. n \in 0 .. N
    BY <1>1
  <2> QED
    BY <2>1, <2>3, <2>4, <2>5
<1>5. \A n \in 0 .. N : n \in A
  <2> HIDE DEF A
  <2> QED
    BY <1>1, <1>3, <1>4, CountingTo
<1>6. PICK t, f : w[N] = [lis |-> t, from |-> f] /\ Spine(t, f, N, s)
  <2>1. N \in 0 .. N
    OBVIOUS
  <2> QED
    BY <1>5, <2>1
<1> QED
  BY <1>1, <1>2, <1>6

(* The counters up to a level.                                               *)
Counters(h, l) == l \in Nat /\ \A m \in 1 .. l : h[m] \in Nat
One(h, m, before) == IF h[m] > 0 THEN Append(before, h[m]) ELSE before
Adding(w, h, l) ==
  /\ w \in [0 .. l -> Seq(Nat \ {0})] /\ w[0] = <<>>
  /\ \A m \in 1 .. l : w[m] = One(h, m, w[m - 1])
  /\ T!AddNumeration(h, l) = w[l]

(* What addNumeration joins, counter by counter.                             *)
LEMMA AddingUp ==
  ASSUME NEW h, NEW l, Counters(h, l)
  PROVE  \E w : Adding(w, h, l)
<1>1. PICK N \in Nat : N = l
  BY DEF Counters
<1> DEFINE S == Seq(Nat \ {0})
           step == [n \in 1 .. N |-> [x \in S |-> One(h, n, x)]]
           number == CHOOSE u : u = [n \in 0 .. N |->
                       IF n = 0 THEN <<>>
                       ELSE LET before == u[n - 1] IN IF h[n] > 0 THEN Append(before, h[n]) ELSE before]
<1>2. T!AddNumeration(h, l) = number[N]
  BY <1>1 DEF T!AddNumeration
<1>3. \A n \in 1 .. N, x \in S : One(h, n, x) \in S
  <2> TAKE n \in 1 .. N, x \in S
  <2>1. PICK c \in Nat : c = h[n]
    BY <1>1 DEF Counters
  <2>2. c > 0 => Append(x, c) \in S
    OBVIOUS
  <2> QED
    BY <2>1, <2>2 DEF One
<1>4. <<>> \in S
  OBVIOUS
<1> HIDE DEF S
<1>5. step \in [1 .. N -> [S -> S]]
  BY <1>3
<1>6. \A n \in 1 .. N, x \in S : step[n][x] = One(h, n, x)
  OBVIOUS
<1> HIDE DEF step
<1>7. PICK f \in [0 .. N -> S] : f[0] = <<>> /\ \A n \in 1 .. N : f[n] = step[n][f[n - 1]]
  <2>1. step \in Steps(N, S)
    BY <1>5 DEF Steps
  <2>2. PICK f : Follows(f, N, S, <<>>, step)
    BY <1>4, <2>1, Recursion
  <2> QED
    BY <2>2 DEF Follows
<1>8. \A n \in 1 .. N : f[n] = One(h, n, f[n - 1])
  <2> TAKE n \in 1 .. N
  <2>1. n - 1 \in 0 .. N
    BY <1>1
  <2> QED
    BY <1>6, <1>7, <2>1
<1>9. number = [n \in 0 .. N |-> IF n = 0 THEN <<>> ELSE One(h, n, number[n - 1])]
  <2>1. number = CHOOSE u : u = [n \in 0 .. N |-> IF n = 0 THEN <<>> ELSE One(h, n, u[n - 1])]
    BY Zenon DEF One
  <2> HIDE DEF number
  <2>2. f = [n \in 0 .. N |-> IF n = 0 THEN <<>> ELSE One(h, n, f[n - 1])]
    <3>1. \A n \in 0 .. N : n = 0 \/ n \in 1 .. N
      BY <1>1
    <3> QED
      BY <1>7, <1>8, <3>1
  <2> QED
    BY <2>1, <2>2
<1> HIDE DEF number
<1>10. number[0] = <<>> /\ \A n \in 1 .. N : number[n] = One(h, n, number[n - 1])
  <2>1. 0 \in 0 .. N /\ \A n \in 1 .. N : n \in 0 .. N /\ n # 0
    BY <1>1
  <2> QED
    BY <1>9, <2>1
<1> DEFINE A == {n \in 0 .. N : number[n] = f[n]}
<1>11. 0 \in A
  BY <1>1, <1>7, <1>10
<1>12. ASSUME NEW n \in 1 .. N, n - 1 \in A PROVE n \in A
  <2>1. number[n] = One(h, n, number[n - 1]) /\ f[n] = One(h, n, f[n - 1]) /\ number[n - 1] = f[n - 1]
    BY <1>8, <1>10, <1>12
  <2>2. n \in 0 .. N
    BY <1>1
  <2> QED
    BY <2>1, <2>2
<1> HIDE DEF A
<1>13. \A n \in 0 .. N : n \in A
  BY <1>1, <1>11, <1>12, CountingTo
<1>14. N \in 0 .. N
  BY <1>1
<1>15. T!AddNumeration(h, l) = f[N]
  BY <1>2, <1>13, <1>14 DEF A
<1> QED
  BY <1>1, <1>7, <1>8, <1>15 DEF Adding, S

(* A section number has counters that are not zero.                          *)
LEMMA AddedType ==
  ASSUME NEW h, NEW l, Counters(h, l)
  PROVE  T!AddNumeration(h, l) \in Seq(Nat \ {0})
<1>1. PICK w : Adding(w, h, l)
  BY AddingUp
<1>2. l \in 0 .. l
  BY DEF Counters
<1> QED
  BY <1>1, <1>2 DEF Adding

(* Above level 1 there is none.                                              *)
LEMMA AddedNone == \A h : T!AddNumeration(h, 0) = <<>>
<1> TAKE h
<1>1. Counters(h, 0)
  BY DEF Counters
<1>2. PICK w : Adding(w, h, 0)
  BY <1>1, AddingUp
<1> QED
  BY <1>2 DEF Adding

(* One counter more.                                                         *)
LEMMA AddedOne ==
  ASSUME NEW h, NEW l \in Nat, Counters(h, l + 1)
  PROVE  T!AddNumeration(h, l + 1) = One(h, l + 1, T!AddNumeration(h, l))
<1>1. Counters(h, l)
  BY DEF Counters
<1>2. PICK v : Adding(v, h, l + 1)
  BY AddingUp
<1>3. PICK w : Adding(w, h, l)
  BY <1>1, AddingUp
<1> DEFINE A == {n \in 0 .. l : v[n] = w[n]}
<1>4. 0 \in A
  BY <1>2, <1>3 DEF Adding
<1>5. ASSUME NEW n \in 1 .. l, n - 1 \in A PROVE n \in A
  <2>1. n \in 1 .. l + 1 /\ n \in 0 .. l
    OBVIOUS
  <2>2. v[n] = One(h, n, v[n - 1]) /\ w[n] = One(h, n, w[n - 1]) /\ v[n - 1] = w[n - 1]
    BY <1>2, <1>3, <1>5, <2>1 DEF Adding
  <2> QED
    BY <2>1, <2>2
<1> HIDE DEF A
<1>6. \A n \in 0 .. l : n \in A
  BY <1>4, <1>5, CountingTo
<1>7. v[l] = w[l]
  <2>1. l \in 0 .. l
    OBVIOUS
  <2> QED
    BY <1>6, <2>1 DEF A
<1>8. l + 1 \in 1 .. l + 1 /\ (l + 1) - 1 = l
  OBVIOUS
<1>9. v[l + 1] = One(h, l + 1, v[l])
  BY <1>2, <1>8 DEF Adding
<1> QED
  BY <1>2, <1>3, <1>7, <1>9 DEF Adding

(* Only the counters up to the level matter.                                 *)
LEMMA AddedSame ==
  ASSUME NEW h, NEW g, NEW l \in Nat, Counters(h, l), \A m \in 1 .. l : g[m] = h[m]
  PROVE  T!AddNumeration(g, l) = T!AddNumeration(h, l)
<1> DEFINE A == {n \in 0 .. l : T!AddNumeration(g, n) = T!AddNumeration(h, n)}
<1>1. 0 \in A
  BY AddedNone
<1>2. ASSUME NEW n \in 1 .. l, n - 1 \in A PROVE n \in A
  <2>1. PICK k \in Nat : k = n - 1 /\ n = k + 1 /\ n \in 0 .. l
    OBVIOUS
  <2>2. Counters(h, k + 1) /\ Counters(g, k + 1)
    BY <2>1 DEF Counters
  <2>3. T!AddNumeration(h, n) = One(h, n, T!AddNumeration(h, k)) /\ T!AddNumeration(g, n) = One(g, n, T!AddNumeration(g, k))
    BY <2>1, <2>2, AddedOne
  <2>4. T!AddNumeration(h, k) = T!AddNumeration(g, k)
    BY <1>2, <2>1
  <2> QED
    BY <2>1, <2>3, <2>4 DEF One
<1> HIDE DEF A
<1>3. \A n \in 0 .. l : n \in A
  BY <1>1, <1>2, CountingTo
<1>4. l \in 0 .. l
  OBVIOUS
<1> QED
  BY <1>3, <1>4 DEF A

(* Counters that are 0 leave nothing.                                        *)
LEMMA AddedOver ==
  ASSUME NEW h, NEW a \in Nat, NEW l \in Nat, a < l, Counters(h, l),
         \A m \in a + 1 .. l - 1 : h[m] = 0, h[l] > 0
  PROVE  T!AddNumeration(h, l) = Append(T!AddNumeration(h, a), h[l])
<1>0. PICK b \in Nat : b = l - 1 /\ l = b + 1 /\ a <= b
  OBVIOUS
<1>1. PICK N \in Nat : N = b - a /\ b = a + N
  BY <1>0
<1> DEFINE A == {n \in 0 .. N : T!AddNumeration(h, a + n) = T!AddNumeration(h, a)}
<1>2. 0 \in A
  <2>1. a + 0 = a
    OBVIOUS
  <2> QED
    BY <2>1
<1>3. ASSUME NEW n \in 1 .. N, n - 1 \in A PROVE n \in A
  <2>1. PICK k \in Nat : k = a + (n - 1) /\ k + 1 = a + n /\ k + 1 \in a + 1 .. l - 1 /\ k + 1 <= l
    BY <1>0, <1>1
  <2>2. Counters(h, k + 1)
    BY <2>1 DEF Counters
  <2>3. T!AddNumeration(h, k + 1) = One(h, k + 1, T!AddNumeration(h, k))
    BY <2>2, AddedOne
  <2>4. h[k + 1] = 0 /\ ~(0 > 0)
    BY <2>1
  <2>5. T!AddNumeration(h, k) = T!AddNumeration(h, a)
    BY <1>3, <2>1
  <2> QED
    BY <2>1, <2>3, <2>4, <2>5 DEF One
<1> HIDE DEF A
<1>4. \A n \in 0 .. N : n \in A
  BY <1>2, <1>3, CountingTo
<1>5. N \in 0 .. N
  OBVIOUS
<1>6. T!AddNumeration(h, b) = T!AddNumeration(h, a)
  BY <1>1, <1>4, <1>5 DEF A
<1>7. T!AddNumeration(h, b + 1) = One(h, b + 1, T!AddNumeration(h, b))
  BY <1>0, AddedOne
<1> QED
  BY <1>0, <1>6, <1>7 DEF One

(* Toc: sections and numbers, for the headings V visited before heading n,   *)
(* their ranks rk and levels lv.                                            *)
Outer(V, rk, k) == {j \in V : j < k /\ rk[j] < rk[k]}
Section(V, rk, k) == IF Outer(V, rk, k) = {} THEN 0 ELSE T!Max(Outer(V, rk, k))
Sisters(V, rk, k) == {j \in V : Section(V, rk, k) < j /\ j <= k /\ rk[j] = rk[k]}
Skipping(V, rk) ==
  \E k \in V : rk[k] > 1 /\ ~\E j \in V : /\ j < k /\ rk[j] = rk[k] - 1
                                          /\ \A x \in V : j < x /\ x < k => rk[x] >= rk[k]
Base(V, rk, num, k) == IF Section(V, rk, k) = 0 THEN <<>> ELSE num[Section(V, rk, k)]
Fits(V, rk, num, k) == num[k] = Append(Base(V, rk, num, k), Cardinality(Sisters(V, rk, k)))
Legal(V, rk, num) == \A k \in V : Fits(V, rk, num, k)
Differ(V, num) == \A k, j \in V : num[j] = num[k] => j = k

(* The headings of level m since the latest one of a lower level.            *)
Current(V, lv, m) == {j \in V : lv[j] = m /\ \A x \in V : j < x => lv[x] >= m}
Counted(V, lv, h) == \A m \in 1 .. 6 : h[m] = Cardinality(Current(V, lv, m))
Numbered(V, lv, h, num) ==
  \A j \in V : (\A x \in V : j < x => lv[x] > lv[j]) => num[j] = T!AddNumeration(h, lv[j])

Ranked(W, n, rk, lv) ==
  /\ n \in Nat \ {0} /\ n \in W /\ W \subseteq 1 .. n
  /\ \A j \in W : rk[j] \in Nat \ {0} /\ lv[j] \in 1 .. 6
  /\ \A j, k \in W : (rk[j] < rk[k]) <=> (lv[j] < lv[k])

(* Ranks are equal where levels are.                                         *)
LEMMA RankedEqual ==
  ASSUME NEW W, NEW n, NEW rk, NEW lv, Ranked(W, n, rk, lv), NEW j \in W, NEW k \in W
  PROVE  (rk[j] = rk[k]) <=> (lv[j] = lv[k])
<1>1. rk[j] \in Nat /\ rk[k] \in Nat /\ lv[j] \in Nat /\ lv[k] \in Nat
  BY DEF Ranked
<1>2. ((rk[j] < rk[k]) <=> (lv[j] < lv[k])) /\ ((rk[k] < rk[j]) <=> (lv[k] < lv[j]))
  BY DEF Ranked
<1> QED
  BY <1>1, <1>2

(* The section is the latest heading of a higher rank.                       *)
LEMMA SectionIs ==
  ASSUME NEW n \in Nat, NEW V \in SUBSET (1 .. n), NEW rk, NEW k
  PROVE  \/ Outer(V, rk, k) = {} /\ Section(V, rk, k) = 0
         \/ /\ Section(V, rk, k) \in Outer(V, rk, k)
            /\ \A j \in Outer(V, rk, k) : j <= Section(V, rk, k)
<1>1. PICK at : at = Outer(V, rk, k)
  OBVIOUS
<1>2. Section(V, rk, k) = IF at = {} THEN 0 ELSE T!Max(at)
  BY <1>1 DEF Section
<1>3. CASE at # {}
  <2>1. at \in SUBSET (0 .. n)
    <3>1. at \subseteq V
      BY <1>1 DEF Outer
    <3>2. V \subseteq 0 .. n
      OBVIOUS
    <3> QED
      BY <3>1, <3>2, Zenon
  <2>2. PICK x \in at : \A y \in at : y <= x
    BY <1>3, <2>1, Greatest
  <2>3. at \subseteq Nat
    BY <2>1
  <2>4. \E z \in at : \A y \in at : z >= y
    BY <2>2, <2>3
  <2>5. PICK m : m = T!Max(at)
    OBVIOUS
  <2>6. m \in at /\ \A y \in at : m >= y
    BY <2>4, <2>5 DEF T!Max
  <2>7. \A y \in at : y <= m
    BY <2>3, <2>6
  <2> QED
    BY <1>1, <1>2, <1>3, <2>5, <2>6, <2>7
<1> QED
  BY <1>1, <1>2, <1>3

(* A later heading changes nothing for those before it.                      *)
LEMMA EarlierSame ==
  ASSUME NEW n \in Nat \ {0}, NEW V \in SUBSET (1 .. n - 1), NEW rk, NEW k \in V
  PROVE  /\ Outer(V \cup {n}, rk, k) = Outer(V, rk, k)
         /\ Section(V \cup {n}, rk, k) = Section(V, rk, k)
         /\ Sisters(V \cup {n}, rk, k) = Sisters(V, rk, k)
<1>1. k \in Nat /\ ~(n < k) /\ ~(n <= k)
  OBVIOUS
<1>2. Outer(V \cup {n}, rk, k) = Outer(V, rk, k)
  BY <1>1 DEF Outer
<1>3. Section(V \cup {n}, rk, k) = Section(V, rk, k)
  BY <1>2 DEF Section
<1>4. Sisters(V \cup {n}, rk, k) = Sisters(V, rk, k)
  BY <1>1, <1>3 DEF Sisters
<1> QED
  BY <1>2, <1>3, <1>4

(* A level left out stays left out.                                          *)
LEMMA SkippingGrows ==
  ASSUME NEW n \in Nat \ {0}, NEW V \in SUBSET (1 .. n - 1), NEW rk, Skipping(V, rk)
  PROVE  Skipping(V \cup {n}, rk)
<1>1. PICK k \in V : rk[k] > 1 /\ ~\E j \in V : /\ j < k /\ rk[j] = rk[k] - 1
                                             /\ \A x \in V : j < x /\ x < k => rk[x] >= rk[k]
  BY DEF Skipping
<1>2. ~(n < k) /\ V \subseteq V \cup {n}
  OBVIOUS
<1>3. ASSUME NEW j \in V \cup {n}, j < k, rk[j] = rk[k] - 1,
             \A x \in V \cup {n} : j < x /\ x < k => rk[x] >= rk[k]
      PROVE  FALSE
  <2>1. j \in V
    BY <1>2, <1>3
  <2>2. \A x \in V : j < x /\ x < k => rk[x] >= rk[k]
    BY <1>3
  <2> QED
    BY <1>1, <1>3, <2>1, <2>2, Zenon
<1> QED
  BY <1>1, <1>3 DEF Skipping

(* The heading a level above, where none is left out, is that of the section. *)
LEMMA SectionAbove ==
  ASSUME NEW n \in Nat \ {0}, NEW V \in SUBSET (1 .. n), NEW rk, \A j \in V : rk[j] \in Nat \ {0},
         ~Skipping(V, rk), NEW k \in V
  PROVE  \/ Section(V, rk, k) = 0 /\ rk[k] = 1
         \/ Section(V, rk, k) \in V /\ rk[k] = rk[Section(V, rk, k)] + 1
<1>1. PICK s : s = Section(V, rk, k)
  OBVIOUS
<1>2. CASE rk[k] = 1
  <2>1. Outer(V, rk, k) = {}
    <3> SUFFICES ASSUME NEW j \in V, rk[j] < rk[k] PROVE FALSE
      BY DEF Outer
    <3>1. rk[j] \in Nat \ {0}
      OBVIOUS
    <3> QED
      BY <1>2, <3>1
  <2>2. Section(V, rk, k) = 0
    BY <2>1 DEF Section
  <2> QED
    BY <1>2, <2>2
<1>3. CASE rk[k] # 1
  <2>1. rk[k] \in Nat /\ rk[k] > 1
    BY <1>3
  <2>2. PICK j \in V : j < k /\ rk[j] = rk[k] - 1 /\ \A x \in V : j < x /\ x < k => rk[x] >= rk[k]
    BY <2>1 DEF Skipping
  <2>3. j \in Outer(V, rk, k)
    BY <2>1, <2>2 DEF Outer
  <2>4. s \in Outer(V, rk, k) /\ \A y \in Outer(V, rk, k) : y <= s
    BY <1>1, <2>3, SectionIs
  <2>5. s \in V /\ s < k /\ rk[s] < rk[k] /\ j <= s
    BY <2>3, <2>4 DEF Outer
  <2>6. ~(j < s)
    <3>1. rk[s] \in Nat
      BY <2>5
    <3> QED
      BY <2>1, <2>2, <2>5, <3>1
  <2>7. s = j
    BY <2>5, <2>6
  <2> QED
    BY <1>1, <2>1, <2>2, <2>5, <2>7
<1> QED
  BY <1>2, <1>3

(* What addNumeration has read when it visits heading n: the counters h of   *)
(* updateNumeration.                                                        *)
Visiting(V, n, rk, lv, h, g, num, new) ==
  /\ Ranked(V \cup {n}, n, rk, lv) /\ n \notin V
  /\ \A m \in 1 .. 6 : g[m] \in Nat
  /\ \A m \in 1 .. 6 : h[m] = IF m = lv[n] THEN g[m] + 1 ELSE IF m > lv[n] THEN 0 ELSE g[m]
  /\ \A k \in V : new[k] = num[k]
  /\ new[n] = T!AddNumeration(h, lv[n])
  /\ Counted(V, lv, g) /\ Numbered(V, lv, g, num)

(* The types of a visit.                                                     *)
LEMMA VisitingTypes ==
  ASSUME NEW V, NEW n, NEW rk, NEW lv, NEW h, NEW g, NEW num, NEW new,
         Visiting(V, n, rk, lv, h, g, num, new)
  PROVE  /\ n \in Nat \ {0} /\ V \in SUBSET (1 .. n - 1) /\ V \in SUBSET Nat
         /\ \A j \in V \cup {n} : lv[j] \in 1 .. 6 /\ lv[j] \in Nat /\ rk[j] \in Nat \ {0}
         /\ \A m \in 1 .. 6 : h[m] \in Nat
<1>1. n \in Nat \ {0} /\ V \subseteq 1 .. n /\ n \notin V
  BY DEF Visiting, Ranked
<1>2. V \in SUBSET (1 .. n - 1)
  BY <1>1
<1>3. \A j \in V \cup {n} : lv[j] \in 1 .. 6 /\ rk[j] \in Nat \ {0}
  BY DEF Visiting, Ranked
<1>4. ASSUME NEW m \in 1 .. 6 PROVE h[m] \in Nat
  <2>1. PICK c \in Nat : c = g[m]
    BY DEF Visiting
  <2>2. c + 1 \in Nat /\ 0 \in Nat
    OBVIOUS
  <2> QED
    BY <2>1, <2>2 DEF Visiting
<1> QED
  BY <1>1, <1>2, <1>3, <1>4

(* The counters go on counting.                                              *)
LEMMA CountedNext ==
  ASSUME NEW V, NEW n, NEW rk, NEW lv, NEW h, NEW g, NEW num, NEW new,
         Visiting(V, n, rk, lv, h, g, num, new)
  PROVE  Counted(V \cup {n}, lv, h)
<1>1. /\ n \in Nat \ {0} /\ V \in SUBSET (1 .. n - 1) /\ V \in SUBSET Nat
      /\ \A j \in V \cup {n} : lv[j] \in Nat
  BY VisitingTypes
<1>2. PICK l \in 1 .. 6 : l = lv[n]
  BY VisitingTypes
<1>3. \A j \in V : j < n /\ ~(n < j) /\ j # n
  BY <1>1
<1>4. ASSUME NEW m \in 1 .. 6 PROVE h[m] = Cardinality(Current(V \cup {n}, lv, m))
  <2>1. PICK c \in Nat : c = g[m] /\ c = Cardinality(Current(V, lv, m))
    BY DEF Visiting, Counted
  <2>2. CASE m < l
    <3>1. Current(V \cup {n}, lv, m) = Current(V, lv, m)
      <4>1. l >= m /\ l # m
        BY <2>2
      <4> QED
        BY <1>2, <1>3, <4>1 DEF Current
    <3>2. h[m] = g[m]
      BY <1>2, <2>2 DEF Visiting
    <3> QED
      BY <2>1, <3>1, <3>2
  <2>3. CASE m = l
    <3>1. Current(V \cup {n}, lv, m) = Current(V, lv, m) \cup {n}
      <4>1. l >= m
        BY <2>3
      <4>2. ~(n < n)
        BY <1>1
      <4> QED
        BY <1>2, <1>3, <2>3, <4>1, <4>2 DEF Current
    <3>2. n \notin Current(V, lv, m) /\ IsFiniteSet(Current(V, lv, m))
      <4>1. Current(V, lv, m) \subseteq V
        BY DEF Current
      <4>2. IsFiniteSet(1 .. n - 1)
        BY <1>1, FS_Interval
      <4>3. Current(V, lv, m) \subseteq 1 .. n - 1
        BY <1>1, <4>1
      <4>4. IsFiniteSet(Current(V, lv, m))
        BY <4>2, <4>3, FS_Subset
      <4> QED
        BY <1>3, <4>1, <4>4
    <3>3. Cardinality(Current(V, lv, m) \cup {n}) = c + 1
      BY <2>1, <3>2, FS_AddElement
    <3>4. h[m] = c + 1
      BY <1>2, <2>1, <2>3 DEF Visiting
    <3> QED
      BY <3>1, <3>3, <3>4
  <2>4. CASE m > l
    <3>1. Current(V \cup {n}, lv, m) = {}
      <4>1. ~(l >= m) /\ l # m
        BY <2>4
      <4> QED
        BY <1>2, <1>3, <4>1 DEF Current
    <3>2. h[m] = 0
      BY <1>2, <2>4 DEF Visiting
    <3> QED
      BY <3>1, <3>2, FS_EmptySet
  <2> QED
    BY <2>2, <2>3, <2>4
<1> QED
  BY <1>4 DEF Counted

(* Headings without a sister behind them keep the counters of their number.  *)
LEMMA NumberedNext ==
  ASSUME NEW V, NEW n, NEW rk, NEW lv, NEW h, NEW g, NEW num, NEW new,
         Visiting(V, n, rk, lv, h, g, num, new)
  PROVE  Numbered(V \cup {n}, lv, h, new)
<1>1. /\ n \in Nat \ {0} /\ V \in SUBSET (1 .. n - 1)
      /\ \A j \in V \cup {n} : lv[j] \in 1 .. 6
  BY VisitingTypes
<1>0. \A m \in 1 .. 6 : g[m] \in Nat
  BY DEF Visiting
<1>2. PICK l \in 1 .. 6 : l = lv[n]
  BY VisitingTypes
<1>3. ASSUME NEW j \in V, \A x \in V \cup {n} : j < x => lv[x] > lv[j]
      PROVE  new[j] = T!AddNumeration(h, lv[j])
  <2>1. PICK a \in 1 .. 6 : a = lv[j]
    BY <1>1
  <2>2. a < l
    <3>1. j < n
      BY <1>1
    <3> QED
      BY <1>2, <1>3, <2>1, <3>1
  <2>3. num[j] = T!AddNumeration(g, a)
    BY <1>3, <2>1 DEF Visiting, Numbered
  <2>4. \A m \in 1 .. a : m \in 1 .. 6 /\ ~(m = l) /\ ~(m > l)
    BY <2>2
  <2>5. \A m \in 1 .. a : h[m] = g[m]
    BY <1>2, <2>4 DEF Visiting
  <2>6. Counters(g, a)
    BY <1>0, <2>4 DEF Counters
  <2>7. a \in Nat
    OBVIOUS
  <2>8. T!AddNumeration(h, a) = T!AddNumeration(g, a)
    BY <2>5, <2>6, <2>7, AddedSame
  <2> QED
    BY <2>1, <2>3, <2>8 DEF Visiting
<1>4. new[n] = T!AddNumeration(h, lv[n])
  BY DEF Visiting
<1> QED
  BY <1>3, <1>4 DEF Numbered

(* The sisters of the heading visited are those its counter counts.          *)
LEMMA SistersCounted ==
  ASSUME NEW V, NEW n, NEW rk, NEW lv, NEW h, NEW g, NEW num, NEW new,
         Visiting(V, n, rk, lv, h, g, num, new)
  PROVE  h[lv[n]] = Cardinality(Sisters(V \cup {n}, rk, n)) /\ h[lv[n]] \in Nat \ {0}
<1>1. PICK W : W = V \cup {n}
  OBVIOUS
<1>2. PICK s : s = Section(W, rk, n)
  OBVIOUS
<1>3. /\ n \in Nat \ {0} /\ n \in W /\ W \in SUBSET (1 .. n)
      /\ \A j \in W : j \in Nat /\ lv[j] \in Nat /\ rk[j] \in Nat
  <2>1. n \in Nat \ {0} /\ n \in W /\ W \in SUBSET (1 .. n)
    BY <1>1 DEF Visiting, Ranked
  <2>2. \A j \in W : j \in Nat
    BY <2>1
  <2>3. \A j \in W : lv[j] \in Nat /\ rk[j] \in Nat
    BY <1>1, VisitingTypes
  <2> QED
    BY <2>1, <2>2, <2>3
<1>4. \/ Outer(W, rk, n) = {} /\ s = 0
      \/ s \in Outer(W, rk, n) /\ \A j \in Outer(W, rk, n) : j <= s
  BY <1>2, <1>3, SectionIs
<1>5. \A j \in W : (rk[j] = rk[n] <=> lv[j] = lv[n]) /\ (rk[j] < rk[n] <=> lv[j] < lv[n])
  <2>1. Ranked(W, n, rk, lv)
    BY <1>1 DEF Visiting
  <2>2. \A j \in W : rk[j] < rk[n] <=> lv[j] < lv[n]
    BY <1>3, <2>1 DEF Ranked
  <2> QED
    BY <1>3, <2>1, <2>2, RankedEqual
<1>6. s \in Nat
  <2>1. s \in Outer(W, rk, n) => s \in W
    BY DEF Outer
  <2>2. s = 0 \/ s \in W
    BY <1>4, <2>1, Zenon
  <2>3. 0 \in Nat /\ \A j \in W : j \in Nat
    BY <1>3
  <2> QED
    BY <2>2, <2>3, Zenon
<1>7. ASSUME NEW j \in Sisters(W, rk, n) PROVE j \in Current(W, lv, lv[n])
  <2>1. j \in W /\ s < j /\ j <= n /\ lv[j] = lv[n]
    BY <1>2, <1>5 DEF Sisters
  <2>2. ASSUME NEW x \in W, j < x PROVE lv[x] >= lv[n]
    <3>1. x = n \/ x < n
      BY <1>3
    <3>2. CASE x < n
      <4>1. x \notin Outer(W, rk, n)
        <5> SUFFICES ASSUME x \in Outer(W, rk, n) PROVE FALSE
          OBVIOUS
        <5>1. x <= s
          BY <1>4
        <5>2. s < j /\ j \in Nat /\ x \in Nat
          BY <1>2, <1>3 DEF Sisters
        <5> QED
          BY <1>6, <2>2, <5>1, <5>2
      <4>2. ~(rk[x] < rk[n])
        BY <3>2, <4>1 DEF Outer
      <4>3. ~(lv[x] < lv[n])
        BY <1>5, <4>2
      <4> QED
        BY <1>3, <4>3
    <3> QED
      BY <1>3, <3>1, <3>2
  <2> QED
    BY <2>1, <2>2 DEF Current
<1>8. ASSUME NEW j \in Current(W, lv, lv[n]) PROVE j \in Sisters(W, rk, n)
  <2>1. j \in W /\ lv[j] = lv[n] /\ \A x \in W : j < x => lv[x] >= lv[n]
    BY DEF Current
  <2>2. j <= n /\ rk[j] = rk[n]
    BY <1>3, <1>5, <2>1
  <2>3. s < j
    <3>1. CASE s = 0
      BY <1>3, <2>1, <3>1
    <3>2. CASE s \in Outer(W, rk, n)
      <4>1. s \in W /\ rk[s] < rk[n]
        BY <3>2 DEF Outer
      <4>2. lv[s] < lv[n]
        BY <1>5, <4>1
      <4>3. ~(lv[s] >= lv[n]) /\ s # j
        BY <1>3, <2>1, <4>1, <4>2
      <4>4. ~(j < s)
        BY <2>1, <4>1, <4>3
      <4> QED
        BY <1>3, <1>6, <2>1, <4>3, <4>4
    <3> QED
      BY <1>4, <3>1, <3>2
  <2> QED
    BY <1>2, <2>1, <2>2, <2>3 DEF Sisters
<1>9. Sisters(W, rk, n) = Current(W, lv, lv[n])
  BY <1>7, <1>8
<1>10. lv[n] \in 1 .. 6
  BY VisitingTypes
<1>11. h[lv[n]] = Cardinality(Current(W, lv, lv[n]))
  BY <1>1, <1>10, CountedNext DEF Counted
<1>12. h[lv[n]] \in Nat \ {0}
  <2>1. PICK c \in Nat : c = g[lv[n]]
    BY <1>10 DEF Visiting
  <2>2. h[lv[n]] = c + 1
    BY <1>10, <2>1 DEF Visiting
  <2> QED
    BY <2>2
<1> QED
  BY <1>1, <1>9, <1>11, <1>12

(* No counter between the section's and the heading's own is left.           *)
LEMMA NoneBetween ==
  ASSUME NEW V, NEW n, NEW rk, NEW lv, NEW h, NEW g, NEW num, NEW new,
         Visiting(V, n, rk, lv, h, g, num, new),
         NEW m \in 1 .. 6, m < lv[n],
         \A j \in V : lv[j] = m => \E x \in V : j < x /\ lv[x] < m
  PROVE  h[m] = 0
<1>1. Current(V, lv, m) = {}
  <2> SUFFICES ASSUME NEW j \in Current(V, lv, m) PROVE FALSE
    OBVIOUS
  <2>1. j \in V /\ lv[j] = m /\ \A x \in V : j < x => lv[x] >= m
    BY DEF Current
  <2>2. PICK x \in V : j < x /\ lv[x] < m
    BY <2>1
  <2>3. lv[x] \in Nat
    BY VisitingTypes
  <2> QED
    BY <2>1, <2>2, <2>3
<1>2. g[m] = 0
  BY <1>1, FS_EmptySet DEF Visiting, Counted
<1>3. lv[n] \in Nat
  BY VisitingTypes
<1>4. ~(m = lv[n]) /\ ~(m > lv[n])
  BY <1>3
<1> QED
  BY <1>2, <1>4 DEF Visiting

(* The number of the heading visited is that of its section and its place.   *)
LEMMA NumberOfVisited ==
  ASSUME NEW V, NEW n, NEW rk, NEW lv, NEW h, NEW g, NEW num, NEW new,
         Visiting(V, n, rk, lv, h, g, num, new)
  PROVE  Fits(V \cup {n}, rk, new, n)
<1>1. PICK W : W = V \cup {n}
  OBVIOUS
<1>2. PICK s : s = Section(W, rk, n)
  OBVIOUS
<1>3. n \in Nat \ {0} /\ W \in SUBSET (1 .. n) /\ V \in SUBSET (1 .. n - 1)
  BY <1>1, VisitingTypes DEF Visiting, Ranked
<1>4. \/ Outer(W, rk, n) = {} /\ s = 0
      \/ s \in Outer(W, rk, n) /\ \A j \in Outer(W, rk, n) : j <= s
  BY <1>2, <1>3, SectionIs
<1>5. PICK l \in 1 .. 6 : l = lv[n]
  BY VisitingTypes
<1>6. ASSUME NEW j \in V PROVE j \in Outer(W, rk, n) <=> lv[j] < l
  <2>1. j < n /\ j \in W /\ n \in W
    BY <1>1, <1>3
  <2>2. rk[j] < rk[n] <=> lv[j] < lv[n]
    BY <1>1, <2>1 DEF Visiting, Ranked
  <2> QED
    BY <1>5, <2>1, <2>2 DEF Outer
<1>7. h[l] = Cardinality(Sisters(W, rk, n)) /\ h[l] \in Nat /\ h[l] > 0
  <2>1. h[l] = Cardinality(Sisters(W, rk, n)) /\ h[l] \in Nat \ {0}
    BY <1>1, <1>5, SistersCounted
  <2>2. PICK c \in Nat \ {0} : c = h[l]
    BY <2>1
  <2> QED
    BY <2>1, <2>2
<1>8. Counters(h, l) /\ l \in Nat /\ new[n] = T!AddNumeration(h, l)
  <2>1. \A m \in 1 .. l : m \in 1 .. 6
    OBVIOUS
  <2>2. \A m \in 1 .. 6 : h[m] \in Nat
    BY VisitingTypes
  <2> QED
    BY <1>5, <2>1, <2>2 DEF Counters, Visiting
<1>9. CASE s = 0
  <2>1. ASSUME NEW m \in 0 + 1 .. l - 1 PROVE h[m] = 0
    <3>1. m \in 1 .. 6 /\ m < l
      OBVIOUS
    <3>2. \A j \in V : lv[j] # m
      <4> SUFFICES ASSUME NEW j \in V, lv[j] = m PROVE FALSE
        OBVIOUS
      <4>1. j \in Outer(W, rk, n)
        BY <1>6, <3>1
      <4>2. s \in W
        BY <1>4, <4>1 DEF Outer
      <4> QED
        BY <1>3, <1>9, <4>2
    <3> QED
      BY <1>5, <3>1, <3>2, NoneBetween
  <2>2. 0 \in Nat /\ 0 < l
    BY <1>5
  <2>3. T!AddNumeration(h, l) = Append(T!AddNumeration(h, 0), h[l])
    BY <1>7, <1>8, <2>1, <2>2, AddedOver
  <2>4. Base(W, rk, new, n) = <<>>
    BY <1>2, <1>9 DEF Base
  <2> QED
    BY <1>1, <1>7, <1>8, <2>3, <2>4, AddedNone DEF Fits
<1>10. CASE s \in Outer(W, rk, n) /\ \A j \in Outer(W, rk, n) : j <= s
  <2>1. s \in W /\ s < n
    BY <1>10 DEF Outer
  <2>2. s \in V /\ s \in Nat \ {0}
    BY <1>1, <1>3, <2>1
  <2>3. PICK a \in 1 .. 6 : a = lv[s]
    BY <2>2, VisitingTypes
  <2>4. a < l
    BY <1>6, <1>10, <2>2, <2>3
  <2>5. ASSUME NEW x \in V, s < x PROVE lv[x] >= l
    <3>1. x \in Nat /\ lv[x] \in Nat
      BY VisitingTypes
    <3>2. x \notin Outer(W, rk, n)
      BY <1>10, <2>2, <2>5, <3>1
    <3> QED
      BY <1>6, <3>1, <3>2
  <2>6. new[s] = T!AddNumeration(h, a)
    <3>1. new[s] = num[s]
      BY <2>2 DEF Visiting
    <3>2. \A x \in V : s < x => lv[x] > lv[s]
      <4> SUFFICES ASSUME NEW x \in V, s < x PROVE lv[x] > a
        BY <2>3
      <4>1. lv[x] >= l /\ lv[x] \in Nat
        BY <2>5, VisitingTypes
      <4> QED
        BY <2>4, <4>1
    <3>3. num[s] = T!AddNumeration(g, a)
      BY <2>2, <2>3, <3>2 DEF Visiting, Numbered
    <3>4. \A m \in 1 .. a : m \in 1 .. 6 /\ ~(m = l) /\ ~(m > l)
      BY <2>4
    <3>5. \A m \in 1 .. a : h[m] = g[m] /\ g[m] \in Nat
      BY <1>5, <3>4 DEF Visiting
    <3>6. a \in Nat
      OBVIOUS
    <3>7. T!AddNumeration(h, a) = T!AddNumeration(g, a)
      BY <3>5, <3>6, AddedSame DEF Counters
    <3> QED
      BY <3>1, <3>3, <3>7
  <2>7. ASSUME NEW m \in a + 1 .. l - 1 PROVE h[m] = 0
    <3>1. m \in 1 .. 6 /\ m < l /\ a < m
      OBVIOUS
    <3>2. ASSUME NEW j \in V, lv[j] = m PROVE \E x \in V : j < x /\ lv[x] < m
      <4>1. j \in Outer(W, rk, n)
        BY <1>6, <3>1, <3>2
      <4>2. j <= s /\ j # s /\ j \in Nat
        <5>1. j \in Nat
          BY VisitingTypes
        <5>2. j # s
          BY <2>3, <3>1, <3>2
        <5> QED
          BY <1>10, <4>1, <5>1, <5>2
      <4>3. j < s /\ lv[s] < m
        BY <2>2, <2>3, <3>1, <4>2
      <4> QED
        BY <2>2, <4>3
    <3> QED
      BY <1>5, <3>1, <3>2, NoneBetween
  <2>8. a \in Nat
    OBVIOUS
  <2>9. T!AddNumeration(h, l) = Append(T!AddNumeration(h, a), h[l])
    BY <1>7, <1>8, <2>4, <2>7, <2>8, AddedOver
  <2>10. Base(W, rk, new, n) = new[s]
    BY <1>2, <2>2 DEF Base
  <2> QED
    BY <1>1, <1>7, <1>8, <2>6, <2>9, <2>10 DEF Fits
<1> QED
  BY <1>4, <1>9, <1>10

(* Every number is.                                                          *)
LEMMA LegalNext ==
  ASSUME NEW V, NEW n, NEW rk, NEW lv, NEW h, NEW g, NEW num, NEW new,
         Visiting(V, n, rk, lv, h, g, num, new), Legal(V, rk, num)
  PROVE  Legal(V \cup {n}, rk, new)
<1>1. n \in Nat \ {0} /\ V \in SUBSET (1 .. n - 1) /\ V \in SUBSET (1 .. n)
  BY VisitingTypes DEF Visiting, Ranked
<1>2. ASSUME NEW k \in V PROVE Fits(V \cup {n}, rk, new, k)
  <2>1. Section(V \cup {n}, rk, k) = Section(V, rk, k) /\ Sisters(V \cup {n}, rk, k) = Sisters(V, rk, k)
    BY <1>1, EarlierSame
  <2>2. Section(V, rk, k) = 0 \/ Section(V, rk, k) \in V
    BY <1>1, SectionIs DEF Outer
  <2>3. Base(V \cup {n}, rk, new, k) = Base(V, rk, num, k)
    BY <2>1, <2>2 DEF Base, Visiting
  <2> QED
    BY <2>1, <2>3 DEF Visiting, Legal, Fits
<1>3. Fits(V \cup {n}, rk, new, n)
  BY NumberOfVisited
<1> QED
  BY <1>2, <1>3, Zenon DEF Legal

(* What stands where after Append.                                           *)
LEMMA Appended ==
  ASSUME NEW E, NEW a \in Seq(E), NEW x \in E
  PROVE  /\ Len(Append(a, x)) = Len(a) + 1 /\ Append(a, x)[Len(a) + 1] = x
         /\ \A k \in 1 .. Len(a) : Append(a, x)[k] = a[k]
OBVIOUS

(* Two numbers are equal only if what they are made of is.                   *)
LEMMA SameNumber ==
  ASSUME NEW a \in Seq(Nat \ {0}), NEW b \in Seq(Nat \ {0}), NEW x, NEW y, Append(a, x) = Append(b, y)
  PROVE  a = b /\ x = y
<1>1. PICK u, v : u = Append(a, x) /\ v = Append(b, y)
  OBVIOUS
<1>0. PICK E : a \in Seq(E) /\ b \in Seq(E) /\ x \in E /\ y \in E
  <2>1. PICK A : A = Nat \ {0}
    OBVIOUS
  <2>2. a \in Seq(A) /\ b \in Seq(A)
    BY <2>1
  <2>3. PICK E : A \subseteq E /\ x \in E /\ y \in E
    <3>1. PICK E : E = A \cup {x, y}
      OBVIOUS
    <3>2. A \subseteq E /\ x \in E /\ y \in E
      BY <3>1
    <3> QED
      BY <3>2, Zenon
  <2>4. a \in Seq(E) /\ b \in Seq(E)
    BY <2>2, <2>3
  <2> QED
    BY <2>3, <2>4
<1>2. PICK L \in Nat : L = Len(a)
  OBVIOUS
<1>3. PICK M \in Nat : M = Len(b)
  OBVIOUS
<1>4. Len(u) = L + 1 /\ u[L + 1] = x /\ \A k \in 1 .. L : u[k] = a[k]
  <2>1. /\ Len(Append(a, x)) = Len(a) + 1 /\ Append(a, x)[Len(a) + 1] = x
        /\ \A k \in 1 .. Len(a) : Append(a, x)[k] = a[k]
    BY <1>0, Appended
  <2> QED
    BY <1>1, <1>2, <2>1
<1>5. Len(v) = M + 1 /\ v[M + 1] = y /\ \A k \in 1 .. M : v[k] = b[k]
  BY <1>0, <1>1, <1>3, Appended
<1>6. u = v
  BY <1>1
<1>7. L = M
  BY <1>4, <1>5, <1>6
<1>8. x = y /\ \A k \in 1 .. L : a[k] = b[k]
  BY <1>4, <1>5, <1>6, <1>7
<1>9. a = b
  BY <1>2, <1>3, <1>7, <1>8, SameElements
<1> QED
  BY <1>8, <1>9

(* Something appended is not nothing.                                        *)
LEMMA NotNone ==
  ASSUME NEW a \in Seq(Nat \ {0}), NEW x
  PROVE  Append(a, x) # <<>>
<1>1. PICK L \in Nat : L = Len(a)
  OBVIOUS
<1>2. Len(Append(a, x)) = L + 1
  BY <1>1
<1>3. Len(<<>>) = 0 /\ 0 # L + 1
  OBVIOUS
<1> QED
  BY <1>2, <1>3

(* One more sister.                                                          *)
LEMMA MoreSisters ==
  ASSUME NEW n \in Nat \ {0}, NEW W \in SUBSET (1 .. n), n \in W, NEW rk, NEW j \in W, j < n,
         rk[j] = rk[n], Section(W, rk, j) = Section(W, rk, n)
  PROVE  Cardinality(Sisters(W, rk, j)) # Cardinality(Sisters(W, rk, n))
<1>1. PICK s : s = Section(W, rk, n)
  OBVIOUS
<1>2. s = 0 \/ (s \in W /\ s < n)
  BY <1>1, SectionIs DEF Outer
<1>3. n \in Sisters(W, rk, n)
  BY <1>1, <1>2 DEF Sisters
<1>4. n \notin Sisters(W, rk, j)
  <2>1. ~(n <= j)
    OBVIOUS
  <2> QED
    BY <2>1 DEF Sisters
<1>5. Sisters(W, rk, j) \subseteq Sisters(W, rk, n)
  <2>1. \A x \in W : x <= j => x <= n
    OBVIOUS
  <2> QED
    BY <2>1 DEF Sisters
<1>6. IsFiniteSet(Sisters(W, rk, n))
  <2>1. IsFiniteSet(1 .. n)
    BY FS_Interval
  <2>2. Sisters(W, rk, n) \subseteq 1 .. n
    BY DEF Sisters
  <2> QED
    BY <2>1, <2>2, FS_Subset
<1>7. Cardinality(Sisters(W, rk, n)) = Cardinality(Sisters(W, rk, j)) => Sisters(W, rk, n) = Sisters(W, rk, j)
  BY <1>5, <1>6, FS_Subset
<1> QED
  BY <1>3, <1>4, <1>7

(* Where no level is left out, no two numbers are the same.                  *)
LEMMA DifferNext ==
  ASSUME NEW V, NEW n, NEW rk, NEW lv, NEW h, NEW g, NEW num, NEW new,
         Visiting(V, n, rk, lv, h, g, num, new), Legal(V, rk, num), Differ(V, num),
         \A k \in V : num[k] \in Seq(Nat \ {0}), ~Skipping(V \cup {n}, rk)
  PROVE  Differ(V \cup {n}, new)
<1>1. PICK W : W = V \cup {n}
  OBVIOUS
<1>2. /\ n \in Nat \ {0} /\ n \in W /\ W \in SUBSET (1 .. n) /\ V \in SUBSET (1 .. n - 1)
      /\ \A j \in W : rk[j] \in Nat \ {0}
  <2>1. n \in Nat \ {0} /\ n \in W /\ W \in SUBSET (1 .. n)
    BY <1>1 DEF Visiting, Ranked
  <2>2. V \in SUBSET (1 .. n - 1) /\ \A j \in W : rk[j] \in Nat \ {0}
    BY <1>1, VisitingTypes
  <2> QED
    BY <2>1, <2>2
<1>3. \A k \in W : new[k] = Append(Base(W, rk, new, k), Cardinality(Sisters(W, rk, k)))
  <2>1. Legal(V \cup {n}, rk, new)
    BY LegalNext
  <2> QED
    BY <1>1, <2>1, Zenon DEF Legal, Fits
<1>4. ASSUME NEW k \in W
      PROVE  \/ Section(W, rk, k) = 0 /\ rk[k] = 1 /\ Base(W, rk, new, k) = <<>>
             \/ /\ Section(W, rk, k) \in V /\ rk[k] = rk[Section(W, rk, k)] + 1
                /\ Base(W, rk, new, k) = num[Section(W, rk, k)]
  <2>1. PICK s : s = Section(W, rk, k)
    OBVIOUS
  <2>2. (s = 0 /\ rk[k] = 1) \/ (s \in W /\ rk[k] = rk[s] + 1)
    <3>1. W \in SUBSET (1 .. n) /\ ~Skipping(W, rk) /\ n \in Nat \ {0} /\ \A j \in W : rk[j] \in Nat \ {0}
      BY <1>1, <1>2
    <3>2. \/ Section(W, rk, k) = 0 /\ rk[k] = 1
          \/ Section(W, rk, k) \in W /\ rk[k] = rk[Section(W, rk, k)] + 1
      BY <3>1, SectionAbove, Zenon
    <3> QED
      BY <2>1, <3>2, Zenon
  <2>3. CASE s = 0 /\ rk[k] = 1
    BY <2>1, <2>3 DEF Base
  <2>4. CASE s \in W /\ rk[k] = rk[s] + 1
    <3>1. s # 0 /\ s < k
      <4>1. s # 0
        BY <1>2, <2>4
      <4>2. s \in Outer(W, rk, k)
        BY <1>2, <2>1, <4>1, SectionIs
      <4> QED
        BY <4>1, <4>2 DEF Outer
    <3>2. s \in V
      <4>1. ~(n < k)
        BY <1>2
      <4> QED
        BY <1>1, <2>4, <3>1, <4>1
    <3>3. new[s] = num[s]
      BY <3>2 DEF Visiting
    <3> QED
      BY <2>1, <2>4, <3>1, <3>2, <3>3 DEF Base
  <2> QED
    BY <2>2, <2>3, <2>4
<1>5. ASSUME NEW j \in V, new[j] = new[n] PROVE FALSE
  <2>1. j \in W /\ j < n
    BY <1>1, <1>2
  <2>2. PICK a : a = Base(W, rk, new, j)
    OBVIOUS
  <2>3. PICK b : b = Base(W, rk, new, n)
    OBVIOUS
  <2>4. a \in Seq(Nat \ {0}) /\ b \in Seq(Nat \ {0})
    <3>1. <<>> \in Seq(Nat \ {0})
      OBVIOUS
    <3>2. \A k \in W : Base(W, rk, new, k) = <<>> \/ \E s \in V : Base(W, rk, new, k) = num[s]
      BY <1>4
    <3> QED
      BY <1>2, <2>1, <2>2, <2>3, <3>1, <3>2
  <2>5. Append(a, Cardinality(Sisters(W, rk, j))) = Append(b, Cardinality(Sisters(W, rk, n)))
    BY <1>2, <1>3, <1>5, <2>1, <2>2, <2>3
  <2>6. a = b /\ Cardinality(Sisters(W, rk, j)) = Cardinality(Sisters(W, rk, n))
    BY <2>4, <2>5, SameNumber
  <2>7. \A s \in V : num[s] # <<>>
    <3> SUFFICES ASSUME NEW s \in V PROVE num[s] # <<>>
      OBVIOUS
    <3>1. PICK p : p = Base(V, rk, num, s)
      OBVIOUS
    <3>2. num[s] = Append(p, Cardinality(Sisters(V, rk, s)))
      BY <3>1 DEF Legal, Fits
    <3>3. p \in Seq(Nat \ {0})
      <4>1. V \in SUBSET (1 .. n)
        BY <1>2
      <4>2. Section(V, rk, s) = 0 \/ Section(V, rk, s) \in V
        BY <1>2, <4>1, SectionIs DEF Outer
      <4>3. <<>> \in Seq(Nat \ {0})
        OBVIOUS
      <4> QED
        BY <3>1, <4>2, <4>3 DEF Base
    <3> QED
      BY <3>2, <3>3, NotNone
  <2>8. Section(W, rk, j) = Section(W, rk, n) /\ rk[j] = rk[n]
    <3>1. \/ Section(W, rk, j) = 0 /\ rk[j] = 1 /\ a = <<>>
          \/ Section(W, rk, j) \in V /\ rk[j] = rk[Section(W, rk, j)] + 1 /\ a = num[Section(W, rk, j)]
      BY <1>4, <2>1, <2>2
    <3>2. \/ Section(W, rk, n) = 0 /\ rk[n] = 1 /\ b = <<>>
          \/ Section(W, rk, n) \in V /\ rk[n] = rk[Section(W, rk, n)] + 1 /\ b = num[Section(W, rk, n)]
      BY <1>2, <1>4, <2>3
    <3> QED
      BY <2>6, <2>7, <3>1, <3>2 DEF Differ
  <2> QED
    BY <1>2, <2>1, <2>6, <2>8, MoreSisters
<1>6. \A k \in V : new[k] = num[k]
  BY DEF Visiting
<1>7. ASSUME NEW k \in W, NEW j \in W, new[j] = new[k] PROVE j = k
  <2>1. CASE k \in V /\ j \in V
    BY <1>6, <1>7, <2>1 DEF Differ
  <2>2. CASE k = n /\ j \in V
    BY <1>5, <1>7, <2>2
  <2>3. CASE k \in V /\ j = n
    BY <1>5, <1>7, <2>3
  <2> QED
    BY <1>1, <1>7, <2>1, <2>2, <2>3
<1> QED
  BY <1>1, <1>7 DEF Differ

(* A table by its items.                                                     *)
LEMMA Items ==
  ASSUME NEW s, s \in Seq(T!Li)
  PROVE  Len(s) \in Nat /\ \A k \in 1 .. Len(s) : s[k] \in T!Li /\ s[k].depth \in Nat \ {0}
<1>1. PICK E : E = T!Li
  OBVIOUS
<1>2. s \in Seq(E)
  BY <1>1
<1>3. Len(s) \in Nat /\ \A k \in 1 .. Len(s) : s[k] \in E
  BY <1>2
<1>4. \A k \in 1 .. Len(s) : s[k].depth \in Nat \ {0}
  BY <1>1, <1>3 DEF T!Li
<1> QED
  BY <1>1, <1>3, <1>4

(* Around an open item the item a level above is open.                       *)
LEMMA OpenUp ==
  ASSUME NEW s, s \in Seq(T!Li), Nested(s), NEW d \in Nat \ {0}, NEW g, Open(s, d + 1, g)
  PROVE  \E f : Open(s, d, f)
<1>1. PICK L \in Nat : L = Len(s) /\ \A k \in 1 .. L : s[k].depth \in Nat
  BY Items
<1>2. g \in 1 .. L /\ s[g].depth = d + 1 /\ \A q \in g + 1 .. L : s[q].depth > d + 1
  BY <1>1 DEF Open
<1>3. s[g].depth > 1
  <2>1. d + 1 > 1
    OBVIOUS
  <2> QED
    BY <1>2, <2>1
<1>4. PICK j \in 1 .. g - 1 : /\ s[j].depth = s[g].depth - 1 /\ s[j].ul
                              /\ \A x \in j + 1 .. g - 1 : s[x].depth >= s[g].depth
  BY <1>1, <1>2, <1>3 DEF Nested, Inside
<1>5. j \in 1 .. L /\ s[j].depth = d
  <2>1. (d + 1) - 1 = d
    OBVIOUS
  <2> QED
    BY <1>2, <1>4, <2>1
<1>6. ASSUME NEW q \in j + 1 .. L PROVE s[q].depth > d
  <2>1. PICK y : y = s[q].depth
    OBVIOUS
  <2>2. q \in 1 .. L
    BY <1>5
  <2>3. y \in Nat
    BY <1>1, <2>1, <2>2
  <2>4. q \in j + 1 .. g - 1 \/ q = g \/ q \in g + 1 .. L
    BY <1>2, <2>2
  <2>5. y >= d + 1
    <3>1. CASE q \in j + 1 .. g - 1
      BY <1>2, <1>4, <2>1, <3>1
    <3>2. CASE q = g
      BY <1>2, <2>1, <3>2
    <3>3. CASE q \in g + 1 .. L
      BY <1>2, <2>1, <2>3, <3>3
    <3> QED
      BY <2>4, <3>1, <3>2, <3>3
  <2> QED
    BY <2>1, <2>3, <2>5
<1> QED
  BY <1>1, <1>4, <1>5, <1>6 DEF Open

(* All lists around an open one are open.                                    *)
LEMMA AllOpen ==
  ASSUME NEW s, s \in Seq(T!Li), Nested(s), NEW d \in Nat, NEW g, Open(s, d, g)
  PROVE  \A e \in 1 .. d : \E f : Open(s, e, f)
<1>1. CASE d = 0
  BY <1>1
<1>2. CASE d # 0
  <2>1. PICK N \in Nat : N = d - 1
    BY <1>2
  <2> DEFINE A == {m \in 0 .. N : \E f : Open(s, d - m, f)}
  <2>2. 0 \in A
    <3>1. d - 0 = d
      OBVIOUS
    <3> QED
      BY <3>1
  <2>3. ASSUME NEW m \in 1 .. N, m - 1 \in A PROVE m \in A
    <3>1. PICK c \in Nat \ {0} : c = d - m /\ d - (m - 1) = c + 1 /\ m \in 0 .. N
      BY <2>1
    <3>2. PICK f : Open(s, c + 1, f)
      BY <2>3, <3>1
    <3>3. \E q : Open(s, c, q)
      BY <3>2, OpenUp
    <3> QED
      BY <3>1, <3>3
  <2>4. \A m \in 0 .. N : m \in A
    <3> HIDE DEF A
    <3> QED
      BY <2>1, <2>2, <2>3, CountingTo
  <2>5. ASSUME NEW e \in 1 .. d PROVE \E f : Open(s, e, f)
    <3>1. PICK m \in 0 .. N : m = d - e /\ d - m = e
      BY <2>1
    <3> QED
      BY <2>4, <3>1
  <2> QED
    BY <2>5
<1> QED
  BY <1>1, <1>2

(* checkContainer changes nothing but the ul of the last item.               *)
SameItems(s, ls) ==
  /\ s \in Seq(T!Li) /\ Nested(s) /\ Len(s) = Len(ls)
  /\ \A k \in 1 .. Len(ls) : /\ s[k].depth = ls[k].depth /\ s[k].heading = ls[k].heading
                             /\ s[k].href = ls[k].href /\ (ls[k].ul => s[k].ul)

(* checkContainer gives the last item a ul, and that is all.                 *)
LEMMA ContainerKeeps ==
  ASSUME NEW ls, ls \in Seq(T!Li), Nested(ls), NEW c
  PROVE  /\ SameItems(T!CheckContainer(c, ls), ls)
         /\ c = 0 /\ ls # <<>> => T!CheckContainer(c, ls)[Len(ls)].ul
         /\ \A k \in 1 .. Len(ls) : T!CheckContainer(c, ls)[k].ul => ls[k].ul \/ (k = Len(ls) /\ c = 0)
<1>1. PICK L \in Nat : L = Len(ls)
  BY Items
<1>2. PICK s : s = T!CheckContainer(c, ls)
  OBVIOUS
<1>3. CASE c = 0 /\ ls # <<>> /\ ~ls[L].ul
  <2>1. PICK E : E = T!Li
    OBVIOUS
  <2>2. ls \in Seq(E)
    BY <2>1
  <2>3. L \in 1 .. L /\ \A k \in 1 .. L : ls[k] \in E
    <3>1. L # 0
      BY <1>1, <1>3, <2>2
    <3>2. L \in 1 .. L
      BY <3>1
    <3> QED
      BY <1>1, <2>2, <3>2
  <2>4. PICK e : e = [ls[L] EXCEPT !.ul = TRUE]
    OBVIOUS
  <2>5. ls[L] \in [depth : Nat \ {0}, ul : BOOLEAN, heading : Nat,
                   href : {NoId} \cup {OwnId[t] : t \in HeadingText} \cup {GenerateId[t] : t \in HeadingText}]
    BY <2>1, <2>3 DEF T!Li
  <2>6. /\ e \in E /\ e.ul = TRUE /\ e.depth = ls[L].depth /\ e.heading = ls[L].heading
        /\ e.href = ls[L].href
    BY <2>1, <2>4, <2>5 DEF T!Li
  <2>7. s = [ls EXCEPT ![L] = e]
    BY <1>1, <1>2, <1>3, <2>4 DEF T!CheckContainer
  <2>8. s \in Seq(E) /\ Len(s) = L /\ s[L] = e /\ \A k \in 1 .. L : k # L => s[k] = ls[k]
    BY <1>1, <2>2, <2>3, <2>6, <2>7
  <2>9. \A k \in 1 .. L : /\ s[k].depth = ls[k].depth /\ s[k].heading = ls[k].heading
                          /\ s[k].href = ls[k].href /\ (ls[k].ul => s[k].ul)
    BY <2>6, <2>8
  <2>10. Nested(s)
    <3> SUFFICES ASSUME NEW k \in 1 .. L PROVE Inside(s, k)
      BY <2>8 DEF Nested
    <3>1. Inside(ls, k)
      BY <1>1 DEF Nested
    <3>2. \A j \in 1 .. k - 1 : j \in 1 .. L /\ \A x \in j + 1 .. k - 1 : x \in 1 .. L
      OBVIOUS
    <3> QED
      BY <2>9, <3>1, <3>2 DEF Inside
  <2>11. \A k \in 1 .. L : s[k].ul => ls[k].ul \/ (k = L /\ c = 0)
    BY <1>3, <2>8
  <2>12. SameItems(s, ls)
    BY <1>1, <2>1, <2>8, <2>9, <2>10 DEF SameItems
  <2> QED
    BY <1>1, <1>2, <2>6, <2>8, <2>11, <2>12
<1>4. CASE ~(c = 0 /\ ls # <<>> /\ ~ls[L].ul)
  <2>1. s = ls
    BY <1>1, <1>2, <1>4 DEF T!CheckContainer
  <2> QED
    BY <1>1, <1>2, <1>4, <2>1 DEF SameItems
<1> QED
  BY <1>3, <1>4

(* The items are those of the headings visited, in their order, with their   *)
(* ids, and others that only indent.                                        *)
Listed(V, ls, ds) ==
  /\ \A k \in 1 .. Len(ls) : ls[k].heading # 0 => ls[k].heading \in V /\ ls[k].href = ds[ls[k].heading]
  /\ \A j, k \in 1 .. Len(ls) : j < k /\ ls[j].heading # 0 /\ ls[k].heading # 0
                                  => ls[j].heading < ls[k].heading

(* Each heading has its item at its rank, and there are no others.           *)
Complete(V, rk, ls) ==
  /\ \A k \in 1 .. Len(ls) : ls[k].heading # 0 /\ ls[k].depth = rk[ls[k].heading]
  /\ \A j \in V : \E k \in 1 .. Len(ls) : ls[k].heading = j

(* What appendToTOC finds when a level is not left out: all lists are open.  *)
LEMMA ListsOpen ==
  ASSUME NEW V, NEW n, NEW rk, NEW lv, Ranked(V \cup {n}, n, rk, lv), n \notin V,
         ~Skipping(V \cup {n}, rk),
         NEW ls, ls \in Seq(T!Li), Nested(ls), NEW ds, Listed(V, ls, ds), Complete(V, rk, ls),
         NEW c, Current(V, lv, lv[n]) = {} => c = 0,
         NEW s, s = T!CheckContainer(c, ls)
  PROVE  \A d \in 1 .. rk[n] - 1 : \E g : Open(s, d, g)
<1>1. /\ n \in Nat \ {0} /\ V \in SUBSET (1 .. n - 1)
      /\ \A j \in V \cup {n} : rk[j] \in Nat \ {0} /\ lv[j] \in Nat
  <2>1. n \in Nat \ {0} /\ V \subseteq 1 .. n
    BY DEF Ranked
  <2>2. \A j \in V \cup {n} : rk[j] \in Nat \ {0} /\ lv[j] \in Nat
    BY DEF Ranked
  <2>3. V \in SUBSET (1 .. n - 1)
    BY <2>1
  <2> QED
    BY <2>1, <2>2, <2>3
<1>2. PICK r \in Nat \ {0} : r = rk[n]
  BY <1>1
<1>3. CASE r = 1
  BY <1>2, <1>3
<1>4. CASE r # 1
  <2>1. PICK d \in Nat \ {0} : r = d + 1 /\ d = r - 1
    BY <1>4
  <2>2. PICK j \in V : rk[j] = d /\ \A x \in V : j < x => rk[x] >= r
    <3>1. r > 1
      BY <1>4
    <3>2. PICK j \in V \cup {n} : /\ j < n /\ rk[j] = rk[n] - 1
                                  /\ \A x \in V \cup {n} : j < x /\ x < n => rk[x] >= rk[n]
      BY <1>2, <3>1 DEF Skipping
    <3>3. j \in V /\ \A x \in V : x < n
      BY <1>1, <3>2
    <3> QED
      BY <1>2, <2>1, <3>2, <3>3
  <2>3. PICK L \in Nat : L = Len(ls) /\ \A k \in 1 .. L : ls[k].depth \in Nat
    BY Items
  <2>4. PICK q \in 1 .. L : ls[q].heading = j
    BY <2>3 DEF Complete
  <2>5. ls[q].depth = d /\ \A k \in 1 .. L : ls[k].heading \in V /\ ls[k].depth = rk[ls[k].heading]
    <3>1. \A k \in 1 .. L : ls[k].heading # 0 /\ ls[k].depth = rk[ls[k].heading]
      BY <2>3 DEF Complete
    <3>2. \A k \in 1 .. L : ls[k].heading \in V
      BY <2>3, <3>1 DEF Listed
    <3> QED
      BY <2>2, <2>4, <3>1, <3>2
  <2>6. \A a, b \in 1 .. L : a < b => ls[a].heading < ls[b].heading
    BY <2>3 DEF Listed, Complete
  <2>7. ASSUME NEW k \in q + 1 .. L PROVE ls[k].depth > d /\ ls[k].depth >= r
    <3>1. k \in 1 .. L /\ q < k
      OBVIOUS
    <3>2. j < ls[k].heading
      BY <2>4, <2>6, <3>1
    <3>3. ls[k].depth >= r /\ ls[k].depth \in Nat
      BY <2>2, <2>3, <2>5, <3>1, <3>2
    <3> QED
      BY <2>1, <3>3
  <2>8. SameItems(s, ls) /\ (c = 0 /\ ls # <<>> => s[L].ul)
    BY <2>3, ContainerKeeps
  <2>9. s[q].ul
    <3>1. CASE q = L
      <4>1. Current(V, lv, lv[n]) = {}
        <5> SUFFICES ASSUME NEW x \in Current(V, lv, lv[n]) PROVE FALSE
          OBVIOUS
        <5>1. x \in V /\ lv[x] = lv[n] /\ \A y \in V : x < y => lv[y] >= lv[n]
          BY DEF Current
        <5>2. rk[x] = rk[n]
          BY <5>1, RankedEqual
        <5>3. x # j
          BY <1>2, <2>1, <2>2, <5>2
        <5>4. CASE x < j
          <6>1. lv[j] >= lv[n]
            BY <5>1, <5>4
          <6>2. rk[j] < rk[n]
            BY <1>2, <2>1, <2>2
          <6>3. lv[j] < lv[n]
            BY <6>2 DEF Ranked
          <6> QED
            BY <1>1, <6>1, <6>3
        <5>5. CASE j < x
          <6>1. PICK k \in 1 .. L : ls[k].heading = x
            BY <2>3, <5>1 DEF Complete
          <6>2. k < q
            BY <2>4, <3>1, <5>3, <6>1
          <6>3. x < j
            BY <2>4, <2>6, <6>1, <6>2
          <6> QED
            BY <1>1, <5>1, <5>5, <6>3
        <5> QED
          BY <1>1, <5>1, <5>3, <5>4, <5>5
      <4>2. c = 0
        BY <4>1
      <4>3. ls # <<>>
        <5>1. Len(<<>>) = 0
          OBVIOUS
        <5> QED
          BY <2>3, <2>4, <5>1
      <4> QED
        BY <2>8, <3>1, <4>2, <4>3
    <3>2. CASE q < L
      <4>1. PICK k \in 1 .. L : k = q + 1 /\ k \in q + 1 .. L /\ k - 1 = q
        BY <3>2
      <4>2. ls[k].depth >= r /\ ls[k].depth > 1 /\ ls[k].depth \in Nat
        BY <2>1, <2>3, <2>7, <4>1
      <4>3. PICK p \in 1 .. k - 1 : ls[p].ul /\ \A x \in p + 1 .. k - 1 : ls[x].depth >= ls[k].depth
        BY <2>3, <4>2 DEF Nested, Inside
      <4>4. ~(p < q)
        <5> SUFFICES ASSUME p < q PROVE FALSE
          OBVIOUS
        <5>1. q \in p + 1 .. k - 1
          BY <4>1
        <5>2. ls[q].depth >= ls[k].depth
          BY <4>3, <5>1
        <5> QED
          BY <2>1, <2>5, <4>2, <5>2
      <4>5. p = q
        BY <4>1, <4>4
      <4> QED
        BY <2>3, <2>8, <4>3, <4>5 DEF SameItems
    <3> QED
      BY <3>1, <3>2
  <2>10. Open(s, d, q)
    <3>1. \A k \in q + 1 .. L : k \in 1 .. L /\ ls[k].depth > d
      BY <2>7
    <3> QED
      BY <2>3, <2>5, <2>8, <2>9, <3>1 DEF Open, SameItems
  <2>11. \A e \in 1 .. d : \E g : Open(s, e, g)
    BY <2>8, <2>10, AllOpen DEF SameItems
  <2> QED
    BY <1>2, <2>1, <2>11
<1> QED
  BY <1>3, <1>4

(* The table u after the item of heading n has been put into s, below M      *)
(* items of which those of s are the first.                                 *)
Written(u, s, M, n, r, id) ==
  /\ u \in Seq(T!Li) /\ Nested(u) /\ M \in Nat /\ Len(s) <= M /\ Len(u) = M + 1
  /\ \A k \in 1 .. Len(s) : u[k] = s[k]
  /\ \A k \in Len(s) + 1 .. M : u[k].heading = 0
  /\ u[M + 1].depth = r /\ u[M + 1].ul = FALSE /\ u[M + 1].heading = n /\ u[M + 1].href = id
  /\ (\A k \in 1 .. Len(s) : Held(s, k)) => \A k \in 1 .. M + 1 : Held(u, k)
  /\ (\A d \in 1 .. r - 1 : \E g : Open(s, d, g)) => M = Len(s)

Hrefs == {NoId} \cup {OwnId[t] : t \in HeadingText} \cup {GenerateId[t] : t \in HeadingText}

(* What appendToTOC writes, whatever levels are left out.                    *)
LEMMA Writing ==
  ASSUME NEW s, s \in Seq(T!Li), Nested(s), NEW n \in Nat, NEW r \in Nat \ {0}, NEW id \in Hrefs
  PROVE  \E M : Written(T!AppendToTOC(s, r, n, id), s, M, n, r, id)
<1>1. PICK u : u = T!AppendToTOC(s, r, n, id)
  OBVIOUS
<1>2. PICK e : e = T!Entry(r, n, id)
  OBVIOUS
<1>3. PICK d \in Nat : d = r - 1 /\ r = d + 1
  OBVIOUS
<1>4. \E t, f : u = Append(t, e) /\ Spine(t, f, d, s)
  BY <1>1, <1>2, <1>3, Chain
<1>5. PICK t, f : u = Append(t, e) /\ Spine(t, f, d, s)
  BY <1>4
<1>6. e.depth = r /\ e.ul = FALSE /\ e.heading = n /\ e.href = id /\ e \in T!Li
  <2>1. e = [depth |-> r, ul |-> FALSE, heading |-> n, href |-> id]
    BY <1>2 DEF T!Entry
  <2> QED
    BY <2>1 DEF T!Li, Hrefs
<1>7. Ready(t, f, d) /\ t \in Seq(T!Li)
  BY <1>3, <1>5, SpineReady DEF Ready
<1>8. Nested(u)
  <2>1. Below(e, d)
    BY <1>3, <1>6 DEF Below
  <2> QED
    BY <1>5, <1>7, <2>1, OneMore
<1>9. PICK M \in Nat : M = Len(t)
  BY <1>7, Items
<1>10. u \in Seq(T!Li) /\ Len(u) = M + 1 /\ u[M + 1] = e /\ \A k \in 1 .. M : u[k] = t[k]
  <2>1. PICK E : E = T!Li
    OBVIOUS
  <2>2. t \in Seq(E) /\ e \in E
    BY <1>6, <1>7, <2>1
  <2>3. u \in Seq(E)
    BY <1>5, <2>2
  <2>4. Len(u) = M + 1 /\ u[M + 1] = e /\ \A k \in 1 .. M : u[k] = t[k]
    BY <1>5, <1>9, <2>2, Appended
  <2> QED
    BY <2>1, <2>3, <2>4
<1>11. PICK K \in Nat : K = Len(s)
  BY Items
<1>12. K <= M /\ (\A k \in 1 .. K : t[k] = s[k]) /\ \A k \in K + 1 .. M : t[k].heading = 0
  BY <1>5, <1>9, <1>11 DEF Spine
<1>13. (\A k \in 1 .. K : u[k] = s[k]) /\ \A k \in K + 1 .. M : u[k].heading = 0
  <2>1. (\A k \in 1 .. K : k \in 1 .. M) /\ \A k \in K + 1 .. M : k \in 1 .. M
    BY <1>12
  <2> QED
    BY <1>10, <1>12, <2>1
<1>14. ASSUME \A k \in 1 .. K : Held(s, k), NEW k \in 1 .. M + 1 PROVE Held(u, k)
  <2>1. CASE k = M + 1
    BY <1>6, <1>10, <2>1 DEF Held
  <2>2. CASE k # M + 1
    <3>1. k \in 1 .. M
      BY <2>2
    <3>2. Held(t, k) \/ (k = M /\ k = f)
      BY <1>5, <1>9, <1>11, <1>14, <3>1 DEF Spine
    <3>3. CASE Held(t, k)
      <4>1. k + 1 \in 1 .. M => k + 1 \in 1 .. M + 1
        OBVIOUS
      <4> QED
        BY <1>9, <1>10, <3>1, <3>3, <4>1 DEF Held
    <3>4. CASE k = M /\ k = f
      <4>1. t[k].depth = d
        <5>1. ~(d = 0 /\ f = 0)
          BY <3>1, <3>4
        <5> QED
          BY <1>7, <3>4, <5>1 DEF Ready, Open
      <4>2. u[k] = t[k] /\ u[k + 1] = e /\ k + 1 \in 1 .. M + 1 /\ d + 1 > d
        BY <1>10, <3>1, <3>4
      <4> QED
        BY <1>3, <1>6, <1>10, <4>1, <4>2 DEF Held
    <3> QED
      BY <3>2, <3>3, <3>4
  <2> QED
    BY <2>1, <2>2
<1>15. (\A k \in 1 .. K : Held(s, k)) => \A k \in 1 .. M + 1 : Held(u, k)
  BY <1>14, Zenon
<1>16. (\A y \in 1 .. r - 1 : \E g : Open(s, y, g)) => M = K
  BY <1>3, <1>5, <1>9, <1>11 DEF Spine
<1>17. u[M + 1].depth = r /\ u[M + 1].ul = FALSE /\ u[M + 1].heading = n /\ u[M + 1].href = id
  BY <1>6, <1>10
<1> QED
  BY <1>1, <1>8, <1>10, <1>11, <1>12, <1>13, <1>15, <1>16, <1>17 DEF Written

(* The items keep the order and the ids of the headings.                     *)
LEMMA ListedNext ==
  ASSUME NEW n \in Nat \ {0}, NEW V \in SUBSET (1 .. n - 1), NEW ls, NEW s, SameItems(s, ls), NEW ds, Listed(V, ls, ds),
         NEW u, NEW M, NEW r, NEW new, Written(u, s, M, n, r, new[n]), \A j \in V : new[j] = ds[j]
  PROVE  Listed(V \cup {n}, u, new)
<1>1. PICK K \in Nat : K = Len(s) /\ K = Len(ls)
  BY Items DEF SameItems
<1>2. M \in Nat /\ K <= M /\ Len(u) = M + 1
  BY <1>1 DEF Written
<1>3. \A k \in 1 .. K : u[k].heading = ls[k].heading /\ u[k].href = ls[k].href
  BY <1>1 DEF Written, SameItems
<1>4. \A k \in K + 1 .. M : u[k].heading = 0
  BY <1>1 DEF Written
<1>5. u[M + 1].heading = n /\ u[M + 1].href = new[n]
  BY DEF Written
<1>6. \A k \in 1 .. M + 1 : u[k].heading # 0 => k \in 1 .. K \/ k = M + 1
  <2>1. \A k \in 1 .. M + 1 : k \in 1 .. K \/ k \in K + 1 .. M \/ k = M + 1
    BY <1>2
  <2> QED
    BY <1>4, <2>1
<1>7. \A k \in 1 .. K : u[k].heading # 0 => u[k].heading \in V /\ u[k].href = new[u[k].heading]
  <2> SUFFICES ASSUME NEW k \in 1 .. K, u[k].heading # 0
               PROVE  u[k].heading \in V /\ u[k].href = new[u[k].heading]
    OBVIOUS
  <2>1. u[k].heading = ls[k].heading /\ u[k].href = ls[k].href
    BY <1>3
  <2>2. ls[k].heading \in V /\ ls[k].href = ds[ls[k].heading]
    BY <1>1, <2>1 DEF Listed
  <2>3. new[ls[k].heading] = ds[ls[k].heading]
    BY <2>2
  <2> QED
    BY <2>1, <2>2, <2>3, Zenon
<1>8. \A k \in 1 .. M + 1 : u[k].heading # 0 => u[k].heading \in V \cup {n} /\ u[k].href = new[u[k].heading]
  BY <1>5, <1>6, <1>7
<1>9. ASSUME NEW j \in 1 .. M + 1, NEW k \in 1 .. M + 1, j < k, u[j].heading # 0, u[k].heading # 0
      PROVE  u[j].heading < u[k].heading
  <2>1. j \in 1 .. K
    <3>1. j # M + 1
      BY <1>2, <1>9
    <3> QED
      BY <1>6, <1>9, <3>1
  <2>2. CASE k \in 1 .. K
    BY <1>1, <1>3, <1>9, <2>1, <2>2 DEF Listed
  <2>3. CASE k = M + 1
    <3>1. \A x \in V : x < n
      OBVIOUS
    <3> QED
      BY <1>5, <1>7, <1>9, <2>1, <2>3, <3>1
  <2> QED
    BY <1>6, <1>9, <2>2, <2>3
<1> QED
  BY <1>2, <1>8, <1>9 DEF Listed

(* Nor is a level left out then in the table.                                *)
LEMMA CompleteNext ==
  ASSUME NEW n \in Nat \ {0}, NEW V \in SUBSET (1 .. n - 1), NEW rk, NEW ls, NEW s, SameItems(s, ls), Complete(V, rk, ls),
         NEW u, NEW id, Written(u, s, Len(s), n, rk[n], id)
  PROVE  Complete(V \cup {n}, rk, u)
<1>1. PICK K \in Nat : K = Len(s) /\ K = Len(ls)
  BY Items DEF SameItems
<1>2. Len(u) = K + 1 /\ u[K + 1].heading = n /\ u[K + 1].depth = rk[n]
  BY <1>1 DEF Written
<1>3. \A k \in 1 .. K : u[k].heading = ls[k].heading /\ u[k].depth = ls[k].depth
  BY <1>1 DEF Written, SameItems
<1>4. \A k \in 1 .. K + 1 : k \in 1 .. K \/ k = K + 1
  OBVIOUS
<1>5. \A k \in 1 .. K + 1 : u[k].heading # 0 /\ u[k].depth = rk[u[k].heading]
  <2>1. \A k \in 1 .. K : u[k].heading # 0 /\ u[k].depth = rk[u[k].heading]
    BY <1>1, <1>3 DEF Complete
  <2> QED
    BY <1>2, <1>4, <2>1
<1>6. ASSUME NEW j \in V PROVE \E k \in 1 .. K + 1 : u[k].heading = j
  <2>1. PICK k \in 1 .. K : ls[k].heading = j
    BY <1>1 DEF Complete
  <2>2. k \in 1 .. K + 1
    OBVIOUS
  <2> QED
    BY <1>3, <2>1, <2>2
<1>7. K + 1 \in 1 .. K + 1
  OBVIOUS
<1> QED
  BY <1>2, <1>5, <1>6, <1>7 DEF Complete

(* The heading of the last item belongs to a section at the level of n, if   *)
(* it is no higher.                                                          *)
LEMMA SectionOpen ==
  ASSUME NEW V, NEW n, NEW rk, NEW lv, Ranked(V \cup {n}, n, rk, lv), n \notin V,
         NEW ls, ls \in Seq(T!Li), NEW ds, Listed(V, ls, ds), Complete(V, rk, ls),
         NEW s, SameItems(s, ls), NEW L \in Nat, L = Len(ls), L # 0, s[L].ul, ls[L].depth >= rk[n]
  PROVE  Current(V, lv, lv[n]) # {}
<1>1. PICK r \in Nat \ {0} : r = rk[n]
  BY DEF Ranked
<1>2. \A k \in 1 .. L : ls[k].depth \in Nat
  BY Items
<1>3. L \in 1 .. L /\ s[L].depth = ls[L].depth /\ Len(s) = L
  BY DEF SameItems
<1>4. PICK d \in Nat : d = ls[L].depth
  BY <1>2, <1>3
<1>5. Open(s, d, L)
  <2>1. ~\E q : q \in L + 1 .. L
    OBVIOUS
  <2> QED
    BY <1>3, <1>4, <2>1 DEF Open
<1>6. PICK g \in 1 .. L : s[g].depth = r /\ \A q \in g + 1 .. L : s[q].depth > r
  <2>1. \A e \in 1 .. d : \E g : Open(s, e, g)
    BY <1>5, AllOpen DEF SameItems
  <2>2. r \in 1 .. d
    BY <1>1, <1>4
  <2> QED
    BY <1>3, <2>1, <2>2 DEF Open
<1>7. \A k \in 1 .. L : ls[k].heading \in V /\ s[k].depth = rk[ls[k].heading]
  <2>1. \A k \in 1 .. L : ls[k].heading # 0 /\ ls[k].depth = rk[ls[k].heading] /\ s[k].depth = ls[k].depth
    BY DEF Complete, SameItems
  <2> QED
    BY <2>1 DEF Listed
<1>8. \A a, b \in 1 .. L : a < b => ls[a].heading < ls[b].heading
  BY DEF Listed, Complete
<1>9. PICK j \in V : j = ls[g].heading /\ rk[j] = rk[n]
  BY <1>1, <1>6, <1>7
<1>10. V \subseteq Nat /\ \A x \in V \cup {n} : rk[x] \in Nat /\ lv[x] \in Nat
  <2>1. V \cup {n} \subseteq 1 .. n /\ n \in Nat
    BY DEF Ranked
  <2>2. V \subseteq Nat
    BY <2>1
  <2>3. \A x \in V \cup {n} : rk[x] \in Nat \ {0} /\ lv[x] \in 1 .. 6
    BY DEF Ranked
  <2> QED
    BY <2>2, <2>3
<1>11. lv[j] = lv[n]
  BY <1>9, RankedEqual
<1>12. ASSUME NEW x \in V, j < x PROVE lv[x] >= lv[n]
  <2>1. PICK q \in 1 .. L : ls[q].heading = x
    BY DEF Complete
  <2>2. q \in g + 1 .. L
    <3>1. ~(q < g) /\ q # g
      BY <1>8, <1>9, <1>10, <1>12, <2>1
    <3> QED
      BY <3>1
  <2>3. rk[n] < rk[x]
    BY <1>1, <1>6, <1>7, <1>10, <2>1, <2>2
  <2>4. lv[n] < lv[x]
    BY <2>3 DEF Ranked
  <2>5. PICK a \in Nat, b \in Nat : a = lv[n] /\ b = lv[x]
    BY <1>10
  <2> QED
    BY <2>4, <2>5
<1>13. j \in Current(V, lv, lv[n])
  BY <1>11, <1>12 DEF Current
<1> QED
  BY <1>13

(* So checkContainer opens a list only for a heading that goes into it, and  *)
(* no list is empty.                                                         *)
LEMMA HeldNext ==
  ASSUME NEW V, NEW n, NEW rk, NEW lv, Ranked(V \cup {n}, n, rk, lv), n \notin V,
         NEW ls, ls \in Seq(T!Li), Nested(ls), NEW ds, Listed(V, ls, ds), Complete(V, rk, ls),
         NEW c, c = 0 => Current(V, lv, lv[n]) = {},
         NEW s, s = T!CheckContainer(c, ls), \A k \in 1 .. Len(ls) : Held(ls, k),
         NEW u, NEW id, Written(u, s, Len(s), n, rk[n], id)
  PROVE  \A k \in 1 .. Len(u) : Held(u, k)
<1>1. SameItems(s, ls) /\ \A k \in 1 .. Len(ls) : s[k].ul => ls[k].ul \/ (k = Len(ls) /\ c = 0)
  BY ContainerKeeps
<1>2. PICK L \in Nat : L = Len(ls) /\ L = Len(s) /\ \A k \in 1 .. L : ls[k].depth \in Nat
  BY <1>1, Items DEF SameItems
<1>3. Len(u) = L + 1 /\ u[L + 1].depth = rk[n] /\ u[L + 1].ul = FALSE
  BY <1>2 DEF Written
<1>4. \A k \in 1 .. L : u[k].depth = ls[k].depth /\ u[k].ul = s[k].ul
  BY <1>1, <1>2 DEF Written, SameItems
<1>5. rk[n] \in Nat
  BY DEF Ranked
<1>6. ASSUME NEW k \in 1 .. L + 1, u[k].ul
      PROVE  k + 1 \in 1 .. L + 1 /\ u[k + 1].depth > u[k].depth
  <2>1. k \in 1 .. L
    BY <1>3, <1>6
  <2>2. k + 1 \in 1 .. L + 1
    BY <2>1
  <2>3. CASE ls[k].ul
    <3>1. k + 1 \in 1 .. L /\ ls[k + 1].depth > ls[k].depth
      BY <1>2, <2>1, <2>3 DEF Held
    <3> QED
      BY <1>4, <2>1, <2>2, <3>1
  <2>4. CASE ~ls[k].ul
    <3>1. k = L /\ c = 0 /\ s[L].ul
      BY <1>1, <1>2, <1>4, <1>6, <2>1, <2>4
    <3>2. L # 0
      BY <2>1
    <3>3. Current(V, lv, lv[n]) = {}
      BY <3>1
    <3>4. ~(ls[L].depth >= rk[n])
      BY <1>1, <1>2, <3>1, <3>2, <3>3, SectionOpen
    <3>5. rk[n] > ls[L].depth
      BY <1>2, <1>5, <2>1, <3>1, <3>4
    <3> QED
      BY <1>3, <1>4, <2>1, <2>2, <3>1, <3>5
  <2> QED
    BY <2>3, <2>4
<1> QED
  BY <1>3, <1>6 DEF Held

Levels == [j \in DOMAIN page |-> page[j].level]
PageRanks == [j \in DOMAIN page |-> T!Index(page[j].level)]

(* Cardinality is the same by either name.                                   *)
LEMMA TCardinality == \A S : T!Cardinality(S) = Cardinality(S)
BY Zenon DEF T!Cardinality, Cardinality

(* The headings of a page.                                                   *)
LEMMA PageHeadings ==
  ASSUME page \in Pages
  PROVE  /\ Len(page) \in Nat /\ DOMAIN page = 1 .. Len(page)
         /\ \A j \in 1 .. Len(page) : page[j].level \in 1 .. 6 /\ page[j].text \in HeadingText
<1>1. PICK E : E = T!Heading
  OBVIOUS
<1>2. page \in Seq(E)
  BY <1>1, ScriptsAssumption DEF T!TocAssumption
<1>3. Len(page) \in Nat /\ DOMAIN page = 1 .. Len(page) /\ \A j \in 1 .. Len(page) : page[j] \in E
  BY <1>2
<1>4. \A e \in E : e.level \in 1 .. 6 /\ e.text \in HeadingText
  BY <1>1 DEF T!Heading, T!Level
<1> QED
  BY <1>3, <1>4

(* The levels of the page up to l, which index counts.                       *)
LevelsTo(l) == {m \in T!Level \ Excluded : m <= l /\ \E k \in DOMAIN page : page[k].level = m}

(* Index counts levels.                                                      *)
LEMMA IndexCounts ==
  \A l : /\ T!Index(l) = Cardinality(LevelsTo(l)) /\ T!Index(l) \in Nat
         /\ IsFiniteSet(LevelsTo(l)) /\ LevelsTo(l) \subseteq 1 .. 6
<1> TAKE l
<1>1. T!Index(l) = T!Cardinality(LevelsTo(l))
  BY Zenon DEF T!Index, LevelsTo
<1>2. LevelsTo(l) \subseteq 1 .. 6
  BY DEF LevelsTo, T!Level
<1>3. IsFiniteSet(1 .. 6)
  <2>1. PICK b \in Int : b = 6
    OBVIOUS
  <2>2. IsFiniteSet(1 .. b)
    BY FS_Interval
  <2> QED
    BY <2>1, <2>2
<1>4. IsFiniteSet(LevelsTo(l))
  BY <1>2, <1>3, FS_Subset
<1> QED
  BY <1>1, <1>2, <1>4, TCardinality, FS_CardinalityType

(* The index of a level on the page grows with it.                           *)
LEMMA IndexGrows ==
  ASSUME NEW l \in 1 .. 6, NEW m \in 1 .. 6, m \notin Excluded, \E k \in DOMAIN page : page[k].level = m, l < m
  PROVE  T!Index(l) < T!Index(m)
<1>1. LevelsTo(l) \subseteq LevelsTo(m)
  <2>1. \A x \in T!Level : x <= l => x <= m
    BY DEF T!Level
  <2> QED
    BY <2>1 DEF LevelsTo
<1>2. m \in LevelsTo(m) /\ m \notin LevelsTo(l)
  <2>1. m \in T!Level /\ m <= m /\ ~(m <= l)
    BY DEF T!Level
  <2> QED
    BY <2>1 DEF LevelsTo
<1>3. Cardinality(LevelsTo(l)) <= Cardinality(LevelsTo(m))
  BY <1>1, IndexCounts, FS_Subset
<1>4. Cardinality(LevelsTo(l)) # Cardinality(LevelsTo(m))
  <2>1. Cardinality(LevelsTo(m)) = Cardinality(LevelsTo(l)) => LevelsTo(m) = LevelsTo(l)
    BY <1>1, IndexCounts, FS_Subset
  <2> QED
    BY <1>2, <2>1
<1>5. PICK a \in Nat : a = T!Index(l) /\ a = Cardinality(LevelsTo(l))
  BY IndexCounts
<1>6. PICK b \in Nat : b = T!Index(m) /\ b = Cardinality(LevelsTo(m))
  BY IndexCounts
<1>7. a <= b /\ a # b
  BY <1>3, <1>4, <1>5, <1>6
<1>8. a < b
  BY <1>7
<1> QED
  BY <1>5, <1>6, <1>8

(* A heading that is listed has a rank of at least 1.                        *)
LEMMA IndexPositive ==
  ASSUME NEW m \in 1 .. 6, m \notin Excluded, \E k \in DOMAIN page : page[k].level = m
  PROVE  T!Index(m) \in Nat \ {0}
<1>1. m \in LevelsTo(m)
  <2>1. m \in T!Level /\ m <= m
    BY DEF T!Level
  <2> QED
    BY <2>1 DEF LevelsTo
<1>2. Cardinality(LevelsTo(m)) # 0
  BY <1>1, IndexCounts, FS_EmptySet
<1> QED
  BY <1>2, IndexCounts

(* PageRanks and levels of headings that are not excluded are in one order.      *)
LEMMA PageRanked ==
  ASSUME page \in Pages, NEW n \in Nat \ {0}, NEW W \in SUBSET (1 .. n), n \in W, W \subseteq DOMAIN page,
         \A j \in W : page[j].level \notin Excluded
  PROVE  Ranked(W, n, PageRanks, Levels)
<1>1. \A j \in W : Levels[j] = page[j].level /\ PageRanks[j] = T!Index(page[j].level)
  BY DEF Levels, PageRanks
<1>2. ASSUME NEW j \in W
      PROVE  /\ page[j].level \in 1 .. 6 /\ page[j].level \notin Excluded
             /\ \E k \in DOMAIN page : page[k].level = page[j].level
  BY PageHeadings
<1>3. ASSUME NEW j \in W PROVE PageRanks[j] \in Nat \ {0} /\ Levels[j] \in 1 .. 6
  BY <1>1, <1>2, IndexPositive
<1>4. ASSUME NEW j \in W, NEW k \in W PROVE (PageRanks[j] < PageRanks[k]) <=> (Levels[j] < Levels[k])
  <2>1. PICK a \in 1 .. 6 : a = page[j].level
    BY <1>2
  <2>2. PICK b \in 1 .. 6 : b = page[k].level
    BY <1>2
  <2>3. PICK x \in Nat : x = PageRanks[j] /\ x = T!Index(a)
    BY <1>1, <1>3, <2>1
  <2>4. PICK y \in Nat : y = PageRanks[k] /\ y = T!Index(b)
    BY <1>1, <1>3, <2>2
  <2>5. a < b => x < y
    BY <1>2, <2>1, <2>2, <2>3, <2>4, IndexGrows
  <2>6. b < a => y < x
    BY <1>2, <2>1, <2>2, <2>3, <2>4, IndexGrows
  <2>7. a = b => x = y
    BY <2>3, <2>4
  <2>8. (x < y) <=> (a < b)
    BY <2>5, <2>6, <2>7
  <2> QED
    BY <1>1, <2>1, <2>2, <2>3, <2>4, <2>8
<1> QED
  BY <1>3, <1>4 DEF Ranked

(* The id a heading has when it has been visited.                            *)
TId(j) == IF OwnId[page[j].text] # NoId THEN OwnId[page[j].text] ELSE GenerateId[page[j].text]
Ids == \A j \in DOMAIN page :
         ids[j] = IF j \in T!Visited /\ autoId THEN TId(j) ELSE OwnId[page[j].text]

(* The invariant. With numbers the counters count, and numbers and table     *)
(* are right. Without, or if no level is left out, no list is empty.         *)
WithNumbers ==
  /\ Counted(T!Visited, Levels, headers)
  /\ Numbered(T!Visited, Levels, headers, numbers)
  /\ Legal(T!Visited, PageRanks, numbers)
  /\ ~Skipping(T!Visited, PageRanks) => Differ(T!Visited, numbers) /\ Complete(T!Visited, PageRanks, lis)
NoneEmpty == (lis = <<>> <=> T!Visited = {}) /\ \A k \in 1 .. Len(lis) : Held(lis, k)

TInv ==
  /\ T!TypeOK /\ Ids /\ Listed(T!Visited, lis, ids) /\ Nested(lis)
  /\ numerate => WithNumbers
  /\ ~numerate \/ ~Skipping(T!Visited, PageRanks) => NoneEmpty
  /\ title # "shown" => next = Len(page) + 1
  /\ T!TitleFits

(* The headings visited.                                                     *)
LEMMA VisitedAre ==
  ASSUME T!TypeOK
  PROVE  /\ next \in Nat \ {0} /\ T!Visited \in SUBSET (1 .. next - 1) /\ T!Visited \subseteq DOMAIN page
         /\ \A k \in 1 .. next - 1 : k \in T!Visited <=> page[k].level \notin Excluded
<1>1. page \in Pages /\ next \in 1 .. Len(page) + 1
  BY DEF T!TypeOK
<1>2. PICK P \in Nat : P = Len(page) /\ DOMAIN page = 1 .. P
  BY <1>1, PageHeadings
<1>3. next \in Nat \ {0} /\ 1 .. next - 1 \subseteq 1 .. P
  BY <1>1, <1>2
<1> QED
  BY <1>2, <1>3 DEF T!Visited

(* A turn of the each loop, by its parts.                                    *)
Turn(n, l, h, id, s) ==
  /\ n = next /\ n \in Nat \ {0} /\ n \in DOMAIN page /\ l = page[n].level /\ l \in 1 .. 6
  /\ n \notin T!Visited /\ T!Visited \in SUBSET (1 .. n - 1)
  /\ h = T!UpdateNumeration(l)
  /\ id = IF autoId /\ ids[n] = NoId THEN GenerateId[page[n].text] ELSE ids[n]
  /\ s = IF numerate THEN T!CheckContainer(headers[l], lis) ELSE lis
  /\ headers' = IF numerate THEN h ELSE headers
  /\ numbers' = IF numerate THEN [numbers EXCEPT ![n] = T!AddNumeration(h, l)] ELSE numbers
  /\ ids' = [ids EXCEPT ![n] = id]
  /\ lis' = T!AppendToTOC(s, T!Index(l), n, id)
  /\ next' = n + 1
  /\ page' = page /\ numerate' = numerate /\ autoId' = autoId /\ title' = title
  /\ T!Visited' = T!Visited \cup {n}
  /\ T!Index(l) = PageRanks[n] /\ Levels[n] = l /\ PageRanks' = PageRanks /\ Levels' = Levels
  /\ Ranked(T!Visited \cup {n}, n, PageRanks, Levels)

(* A visit is a turn.                                                        *)
LEMMA TurnOf ==
  ASSUME T!TypeOK, T!Visit
  PROVE  \E n, l, h, id, s : Turn(n, l, h, id, s)
<1>1. page \in Pages /\ next \in 1 .. Len(page) + 1
  BY DEF T!TypeOK
<1>2. PICK P \in Nat : P = Len(page) /\ DOMAIN page = 1 .. P
  BY <1>1, PageHeadings
<1>3. PICK n \in Nat \ {0} : n = next /\ n \in 1 .. P
  <2>1. next <= Len(page)
    BY DEF T!Visit
  <2> QED
    BY <1>1, <1>2, <2>1
<1>4. PICK l \in 1 .. 6 : l = page[n].level
  BY <1>1, <1>2, <1>3, PageHeadings
<1>5. l \notin Excluded /\ next' = n + 1 /\ page' = page /\ numerate' = numerate /\ autoId' = autoId /\ title' = title
  BY <1>3, <1>4 DEF T!Visit, T!options
<1>6. T!Visited \in SUBSET (1 .. n - 1) /\ n \notin T!Visited
  <2>1. T!Visited \in SUBSET (1 .. n - 1)
    BY <1>3, VisitedAre
  <2> QED
    BY <2>1
<1>7. T!Visited' = T!Visited \cup {n}
  <2>1. T!Visited' = {k \in 1 .. (n + 1) - 1 : page[k].level \notin Excluded}
    BY <1>5 DEF T!Visited
  <2>2. T!Visited = {k \in 1 .. n - 1 : page[k].level \notin Excluded}
    BY <1>3 DEF T!Visited
  <2>3. \A k : k \in 1 .. (n + 1) - 1 <=> (k \in 1 .. n - 1 \/ k = n)
    BY <1>3
  <2> QED
    BY <1>4, <1>5, <2>1, <2>2, <2>3
<1>8. Ranked(T!Visited \cup {n}, n, PageRanks, Levels)
  <2>1. T!Visited \cup {n} \in SUBSET (1 .. n)
    BY <1>6
  <2>2. T!Visited \cup {n} \subseteq DOMAIN page
    BY <1>2, <1>3, VisitedAre
  <2>3. \A j \in T!Visited \cup {n} : page[j].level \notin Excluded
    BY <1>4, <1>5 DEF T!Visited
  <2> QED
    BY <1>1, <1>3, <2>1, <2>2, <2>3, PageRanked
<1>9. T!Index(l) = PageRanks[n] /\ Levels[n] = l
  BY <1>2, <1>3, <1>4 DEF PageRanks, Levels
<1>10. PageRanks' = PageRanks /\ Levels' = Levels
  <2>1. \A k : T!Index(k)' = T!Index(k)
    BY <1>5 DEF T!Index
  <2> QED
    BY <1>5, <2>1 DEF PageRanks, Levels
<1>11. PICK h : h = T!UpdateNumeration(l)
  OBVIOUS
<1>12. PICK id : id = IF autoId /\ ids[n] = NoId THEN GenerateId[page[n].text] ELSE ids[n]
  OBVIOUS
<1>13. PICK s : s = IF numerate THEN T!CheckContainer(headers[l], lis) ELSE lis
  OBVIOUS
<1>14. /\ headers' = IF numerate THEN h ELSE headers
       /\ numbers' = IF numerate THEN [numbers EXCEPT ![n] = T!AddNumeration(h, l)] ELSE numbers
       /\ ids' = [ids EXCEPT ![n] = id]
       /\ lis' = T!AppendToTOC(s, T!Index(l), n, id)
  BY <1>3, <1>4, <1>11, <1>12, <1>13 DEF T!Visit
<1>15. n \in DOMAIN page
  BY <1>2, <1>3
<1> QED
  BY <1>3, <1>4, <1>5, <1>6, <1>7, <1>8, <1>9, <1>10, <1>11, <1>12, <1>13, <1>14, <1>15 DEF Turn

(* What a turn does to the table.                                            *)
LEMMA TurnItems ==
  ASSUME TInv, NEW n, NEW l, NEW h, NEW id, NEW s, Turn(n, l, h, id, s)
  PROVE  /\ SameItems(s, lis) /\ s \in Seq(T!Li) /\ Nested(s)
         /\ id \in Hrefs /\ id = IF autoId THEN TId(n) ELSE OwnId[page[n].text]
         /\ \E M : Written(lis', s, M, n, PageRanks[n], id)
<1>1. lis \in Seq(T!Li) /\ Nested(lis) /\ n \in DOMAIN page
  BY DEF TInv, T!TypeOK, Turn
<1>2. SameItems(s, lis)
  <2>1. CASE numerate
    BY <1>1, <2>1, ContainerKeeps DEF Turn
  <2>2. CASE ~numerate
    <3>1. s = lis
      BY <2>2 DEF Turn
    <3> QED
      BY <1>1, <3>1 DEF SameItems
  <2> QED
    BY <2>1, <2>2
<1>3. page[n].text \in HeadingText
  BY <1>1, PageHeadings DEF TInv, T!TypeOK
<1>4. ids[n] = OwnId[page[n].text]
  BY <1>1 DEF TInv, Ids, Turn
<1>5. id = IF autoId THEN TId(n) ELSE OwnId[page[n].text]
  BY <1>4 DEF Turn, TId
<1>6. id \in Hrefs
  <2>1. OwnId[page[n].text] \in Hrefs /\ GenerateId[page[n].text] \in Hrefs
    BY <1>3 DEF Hrefs
  <2> QED
    BY <1>5, <2>1 DEF TId
<1>7. s \in Seq(T!Li) /\ Nested(s)
  BY <1>2 DEF SameItems
<1>8. PageRanks[n] \in Nat \ {0} /\ n \in Nat /\ lis' = T!AppendToTOC(s, PageRanks[n], n, id)
  BY DEF Turn, Ranked
<1>9. \E M : Written(lis', s, M, n, PageRanks[n], id)
  BY <1>6, <1>7, <1>8, Writing
<1> QED
  BY <1>2, <1>5, <1>6, <1>7, <1>9

(* What a turn does to the counters.                                         *)
LEMMA TurnVisiting ==
  ASSUME TInv, numerate, NEW n, NEW l, NEW h, NEW id, NEW s, Turn(n, l, h, id, s)
  PROVE  /\ Visiting(T!Visited, n, PageRanks, Levels, h, headers, numbers, numbers')
         /\ h \in [1 .. 6 -> Nat] /\ T!AddNumeration(h, l) \in Seq(Nat \ {0})
<1>1. headers \in [1 .. 6 -> Nat] /\ numbers \in [DOMAIN page -> T!Number]
  BY DEF TInv, T!TypeOK
<1>2. h = [m \in 1 .. 6 |-> IF m = l THEN headers[m] + 1 ELSE IF m > l THEN 0 ELSE headers[m]]
  BY DEF Turn, T!UpdateNumeration
<1>3. h \in [1 .. 6 -> Nat]
  BY <1>1, <1>2
<1>4. n \in DOMAIN page /\ l \in 1 .. 6 /\ l = Levels[n] /\ n \notin T!Visited
  BY DEF Turn
<1>5. numbers' = [numbers EXCEPT ![n] = T!AddNumeration(h, l)]
  BY DEF Turn
<1>6. numbers'[n] = T!AddNumeration(h, l) /\ \A k \in T!Visited : numbers'[k] = numbers[k]
  <2>1. T!Visited \subseteq DOMAIN page
    BY VisitedAre DEF TInv
  <2> QED
    BY <1>1, <1>4, <1>5, <2>1
<1>7. Ranked(T!Visited \cup {n}, n, PageRanks, Levels)
  BY DEF Turn
<1>8. Counted(T!Visited, Levels, headers) /\ Numbered(T!Visited, Levels, headers, numbers)
  BY DEF TInv, WithNumbers
<1>9. /\ \A m \in 1 .. 6 : headers[m] \in Nat
      /\ \A m \in 1 .. 6 : h[m] = IF m = Levels[n] THEN headers[m] + 1 ELSE IF m > Levels[n] THEN 0 ELSE headers[m]
  BY <1>1, <1>2, <1>4
<1>10. T!AddNumeration(h, l) \in Seq(Nat \ {0})
  <2>1. l \in Nat /\ \A m \in 1 .. l : m \in 1 .. 6
    BY <1>4
  <2>2. Counters(h, l)
    BY <1>3, <2>1 DEF Counters
  <2> QED
    BY <2>2, AddedType
<1> QED
  BY <1>3, <1>4, <1>6, <1>7, <1>8, <1>9, <1>10 DEF Visiting

(* A turn keeps the types.                                                   *)
LEMMA TurnTypes ==
  ASSUME TInv, NEW n, NEW l, NEW h, NEW id, NEW s, Turn(n, l, h, id, s)
  PROVE  T!TypeOK'
<1>1. /\ page' \in Pages /\ numerate' \in BOOLEAN /\ autoId' \in BOOLEAN
      /\ title' \in {"shown", "hidden", "kept"}
  BY DEF TInv, T!TypeOK, Turn
<1>2. next' \in 1 .. Len(page') + 1
  <2>1. PICK P \in Nat : P = Len(page) /\ DOMAIN page = 1 .. P
    BY PageHeadings DEF TInv, T!TypeOK
  <2>2. n \in 1 .. P
    BY <2>1 DEF Turn
  <2>3. n + 1 \in 1 .. P + 1
    BY <2>2
  <2> QED
    BY <2>1, <2>3 DEF Turn
<1>3. headers' \in [1 .. 6 -> Nat]
  <2>1. CASE numerate
    BY <2>1, TurnVisiting DEF Turn
  <2>2. CASE ~numerate
    BY <2>2 DEF Turn, TInv, T!TypeOK
  <2> QED
    BY <2>1, <2>2
<1>4. numbers' \in [DOMAIN page' -> T!Number]
  <2>1. numbers \in [DOMAIN page -> T!Number] /\ page' = page
    BY DEF TInv, T!TypeOK, Turn
  <2>2. CASE numerate
    <3>1. T!AddNumeration(h, l) \in T!Number
      BY <2>2, TurnVisiting DEF T!Number
    <3>2. numbers' = [numbers EXCEPT ![n] = T!AddNumeration(h, l)]
      BY <2>2 DEF Turn
    <3> QED
      BY <2>1, <3>1, <3>2
  <2>3. CASE ~numerate
    BY <2>1, <2>3 DEF Turn
  <2> QED
    BY <2>2, <2>3
<1>5. DOMAIN ids' = DOMAIN page'
  BY DEF TInv, T!TypeOK, Turn
<1>6. lis' \in Seq(T!Li)
  BY TurnItems DEF Written
<1> QED
  BY <1>1, <1>2, <1>3, <1>4, <1>5, <1>6 DEF T!TypeOK

(* A turn gives one id.                                                      *)
LEMMA TurnIds ==
  ASSUME TInv, NEW n, NEW l, NEW h, NEW id, NEW s, Turn(n, l, h, id, s)
  PROVE  Ids' /\ ids'[n] = id /\ \A j \in T!Visited : ids'[j] = ids[j]
<1>1. n \in DOMAIN page /\ n \notin T!Visited /\ ids' = [ids EXCEPT ![n] = id] /\ page' = page /\ autoId' = autoId
  BY DEF Turn
<1>2. DOMAIN ids = DOMAIN page
  BY DEF TInv, T!TypeOK
<1>3. ids'[n] = id /\ \A j \in DOMAIN page : j # n => ids'[j] = ids[j]
  BY <1>1, <1>2
<1>4. T!Visited \subseteq DOMAIN page
  BY VisitedAre DEF TInv
<1>5. id = IF autoId THEN TId(n) ELSE OwnId[page[n].text]
  BY TurnItems
<1>6. \A j \in DOMAIN page : ids[j] = IF j \in T!Visited /\ autoId THEN TId(j) ELSE OwnId[page[j].text]
  BY DEF TInv, Ids
<1>7. \A j : TId(j)' = TId(j)
  BY <1>1 DEF TId
<1>8. T!Visited' = T!Visited \cup {n}
  BY DEF Turn
<1>9. ASSUME NEW j \in DOMAIN page
      PROVE  ids'[j] = IF j \in T!Visited' /\ autoId THEN TId(j) ELSE OwnId[page[j].text]
  <2>1. CASE j = n
    BY <1>3, <1>5, <1>8, <2>1
  <2>2. CASE j # n
    BY <1>3, <1>6, <1>8, <2>2
  <2> QED
    BY <2>1, <2>2
<1>10. Ids'
  BY <1>1, <1>7, <1>9 DEF Ids
<1> QED
  BY <1>1, <1>3, <1>4, <1>10

(* With numbers, a turn keeps their part of the invariant.                   *)
LEMMA TurnNumbers ==
  ASSUME TInv, numerate, NEW n, NEW l, NEW h, NEW id, NEW s, Turn(n, l, h, id, s)
  PROVE  WithNumbers' /\ (~Skipping(T!Visited', PageRanks') => \A k \in 1 .. Len(lis') : Held(lis', k))
<1>1. PICK V : V = T!Visited /\ T!Visited' = V \cup {n}
  BY DEF Turn
<1>2. PageRanks' = PageRanks /\ Levels' = Levels /\ headers' = h
  BY DEF Turn
<1>3. Visiting(V, n, PageRanks, Levels, h, headers, numbers, numbers')
  BY <1>1, TurnVisiting
<1>4. Counted(V \cup {n}, Levels, h)
  BY <1>3, CountedNext
<1>5. Numbered(V \cup {n}, Levels, h, numbers')
  BY <1>3, NumberedNext
<1>6. Legal(V, PageRanks, numbers)
  BY <1>1 DEF TInv, WithNumbers
<1>7. Legal(V \cup {n}, PageRanks, numbers')
  BY <1>3, <1>6, LegalNext
<1>8. ASSUME ~Skipping(V \cup {n}, PageRanks)
      PROVE  /\ Differ(V \cup {n}, numbers') /\ Complete(V \cup {n}, PageRanks, lis')
             /\ \A k \in 1 .. Len(lis') : Held(lis', k)
  <2>1. n \in Nat \ {0} /\ V \in SUBSET (1 .. n - 1) /\ n \notin V
    BY <1>1 DEF Turn
  <2>2. ~Skipping(V, PageRanks)
    BY <1>8, <2>1, SkippingGrows
  <2>3. Differ(V, numbers) /\ Complete(V, PageRanks, lis)
    BY <1>1, <2>2 DEF TInv, WithNumbers
  <2>4. \A k \in V : numbers[k] \in Seq(Nat \ {0})
    <3>1. numbers \in [DOMAIN page -> T!Number] /\ V \subseteq DOMAIN page
      BY <1>1, VisitedAre DEF TInv, T!TypeOK
    <3> QED
      BY <3>1 DEF T!Number
  <2>5. Differ(V \cup {n}, numbers')
    BY <1>3, <1>6, <1>8, <2>3, <2>4, DifferNext
  <2>6. PICK c : c = headers[l] /\ s = T!CheckContainer(c, lis)
    BY DEF Turn
  <2>7. Current(V, Levels, Levels[n]) = {} <=> c = 0
    <3>1. l \in 1 .. 6 /\ l = Levels[n]
      BY DEF Turn
    <3>2. headers[l] = Cardinality(Current(V, Levels, l))
      BY <1>1, <3>1 DEF TInv, WithNumbers, Counted
    <3>3. IsFiniteSet(Current(V, Levels, l))
      <4>1. Current(V, Levels, l) \subseteq V /\ IsFiniteSet(1 .. n - 1)
        BY <2>1, FS_Interval DEF Current
      <4> QED
        BY <2>1, <4>1, FS_Subset
    <3> QED
      BY <2>6, <3>1, <3>2, <3>3, FS_EmptySet
  <2>8. lis \in Seq(T!Li) /\ Nested(lis) /\ Listed(V, lis, ids) /\ Ranked(V \cup {n}, n, PageRanks, Levels)
    BY <1>1 DEF TInv, T!TypeOK, Turn
  <2>9. \A d \in 1 .. PageRanks[n] - 1 : \E g : Open(s, d, g)
    BY <1>8, <2>1, <2>3, <2>6, <2>7, <2>8, ListsOpen
  <2>10. PICK M : Written(lis', s, M, n, PageRanks[n], id)
    BY TurnItems
  <2>11. M = Len(s)
    BY <2>9, <2>10 DEF Written
  <2>12. SameItems(s, lis)
    BY TurnItems
  <2>13. Complete(V \cup {n}, PageRanks, lis')
    BY <2>1, <2>3, <2>10, <2>11, <2>12, CompleteNext
  <2>14. \A k \in 1 .. Len(lis) : Held(lis, k)
    BY <1>1, <2>2 DEF TInv, NoneEmpty
  <2>15. \A k \in 1 .. Len(lis') : Held(lis', k)
    BY <2>1, <2>3, <2>6, <2>7, <2>8, <2>10, <2>11, <2>14, <1>8, HeldNext
  <2> QED
    BY <2>5, <2>13, <2>15
<1> QED
  BY <1>1, <1>2, <1>4, <1>5, <1>7, <1>8 DEF WithNumbers

(* The invariant after a heading that is visited.                            *)
LEMMA VisitTInv == TInv /\ T!Visit => TInv'
<1> SUFFICES ASSUME TInv, T!Visit PROVE TInv'
  OBVIOUS
<1>1. \E n, l, h, id, s : Turn(n, l, h, id, s)
  BY TurnOf DEF TInv
<1>2. PICK n, l, h, id, s : Turn(n, l, h, id, s)
  BY <1>1
<1>3. T!TypeOK'
  BY <1>2, TurnTypes
<1>4. Ids' /\ ids'[n] = id /\ \A j \in T!Visited : ids'[j] = ids[j]
  BY <1>2, TurnIds
<1>5. PICK M : Written(lis', s, M, n, PageRanks[n], id)
  BY <1>2, TurnItems
<1>6. SameItems(s, lis)
  BY <1>2, TurnItems
<1>7. PICK V : V = T!Visited /\ T!Visited' = V \cup {n}
  BY <1>2 DEF Turn
<1>8. n \in Nat \ {0} /\ V \in SUBSET (1 .. n - 1)
  BY <1>2, <1>7 DEF Turn
<1>9. Listed(V \cup {n}, lis', ids')
  <2>1. Listed(V, lis, ids) /\ \A j \in V : ids'[j] = ids[j]
    BY <1>4, <1>7 DEF TInv
  <2>2. Written(lis', s, M, n, PageRanks[n], ids'[n])
    BY <1>4, <1>5
  <2> QED
    BY <1>6, <1>8, <2>1, <2>2, ListedNext
<1>10. Nested(lis')
  BY <1>5 DEF Written
<1>11. numerate' = numerate /\ title' = title /\ n = next /\ n \in DOMAIN page
  BY <1>2 DEF Turn
<1>12. numerate' => WithNumbers'
  BY <1>2, <1>11, TurnNumbers
<1>13. ASSUME ~numerate' \/ ~Skipping(T!Visited', PageRanks') PROVE NoneEmpty'
  <2>1. ASSUME ~numerate PROVE s = lis /\ \A k \in 1 .. Len(lis) : Held(lis, k)
    BY <1>2, <2>1 DEF Turn, TInv, NoneEmpty
  <2>2. ASSUME numerate PROVE \A k \in 1 .. Len(lis') : Held(lis', k)
    BY <1>2, <1>11, <1>13, <2>2, TurnNumbers
  <2>3. \A k \in 1 .. Len(lis') : Held(lis', k)
    BY <1>5, <2>1, <2>2 DEF Written
  <2>4. lis' # <<>>
    <3>1. Len(lis') = M + 1 /\ M \in Nat
      BY <1>5 DEF Written
    <3>2. Len(<<>>) = 0 /\ 0 # M + 1
      BY <3>1
    <3> QED
      BY <3>1, <3>2
  <2>5. T!Visited' # {}
    BY <1>7
  <2> QED
    BY <2>3, <2>4, <2>5 DEF NoneEmpty
<1>14. title = "shown"
  <2>1. PICK P \in Nat : P = Len(page) /\ DOMAIN page = 1 .. P
    BY PageHeadings DEF TInv, T!TypeOK
  <2>2. next # P + 1
    BY <1>11, <2>1
  <2> QED
    BY <2>1, <2>2 DEF TInv
<1>15. T!TitleFits'
  BY <1>11, <1>14 DEF T!TitleFits
<1> QED
  BY <1>3, <1>4, <1>7, <1>9, <1>10, <1>11, <1>12, <1>13, <1>14, <1>15 DEF TInv

(* What depends on the page and the headings visited only.                   *)
LEMMA SamePage ==
  ASSUME page' = page
  PROVE  PageRanks' = PageRanks /\ Levels' = Levels /\ (\A j : TId(j)' = TId(j)) /\ \A k : T!Index(k)' = T!Index(k)
<1>1. \A k : T!Index(k)' = T!Index(k)
  BY DEF T!Index
<1>2. PageRanks' = PageRanks /\ Levels' = Levels
  BY <1>1 DEF PageRanks, Levels
<1>3. \A j : TId(j)' = TId(j)
  BY DEF TId
<1> QED
  BY <1>1, <1>2, <1>3

(* The invariant after one that is left out.                                 *)
LEMMA SkipTInv == TInv /\ T!Skip => TInv'
<1> SUFFICES ASSUME TInv, T!Skip PROVE TInv'
  OBVIOUS
<1>1. /\ page' = page /\ numerate' = numerate /\ autoId' = autoId /\ headers' = headers /\ ids' = ids
      /\ numbers' = numbers /\ lis' = lis /\ title' = title /\ next' = next + 1 /\ next <= Len(page)
  BY DEF T!Skip, T!options
<1>2. PICK P \in Nat : P = Len(page) /\ DOMAIN page = 1 .. P
  BY PageHeadings DEF TInv, T!TypeOK
<1>3. PICK n \in Nat \ {0} : n = next /\ n \in 1 .. P
  <2>1. next \in 1 .. Len(page) + 1
    BY DEF TInv, T!TypeOK
  <2> QED
    BY <1>1, <1>2, <2>1
<1>4. T!Visited' = T!Visited
  <2>1. T!Visited' = {k \in 1 .. (n + 1) - 1 : page[k].level \notin Excluded}
    BY <1>1, <1>3 DEF T!Visited
  <2>2. T!Visited = {k \in 1 .. n - 1 : page[k].level \notin Excluded}
    BY <1>3 DEF T!Visited
  <2>3. \A k : k \in 1 .. (n + 1) - 1 <=> (k \in 1 .. n - 1 \/ k = n)
    BY <1>3
  <2>4. page[n].level \in Excluded
    BY <1>3 DEF T!Skip
  <2> QED
    BY <2>1, <2>2, <2>3, <2>4
<1>5. T!TypeOK'
  <2>1. next' \in 1 .. Len(page') + 1
    BY <1>1, <1>2, <1>3
  <2> QED
    BY <1>1, <2>1 DEF TInv, T!TypeOK
<1>6. Ids'
  BY <1>1, <1>4, SamePage DEF TInv, Ids
<1>7. /\ numerate' => WithNumbers'
      /\ ~numerate' \/ ~Skipping(T!Visited', PageRanks') => NoneEmpty'
  BY <1>1, <1>4, SamePage DEF TInv, WithNumbers, NoneEmpty
<1>8. title = "shown"
  <2>1. next # Len(page) + 1
    BY <1>2, <1>3
  <2> QED
    BY <2>1 DEF TInv
<1>9. T!TitleFits'
  BY <1>1, <1>8 DEF T!TitleFits
<1>10. Listed(T!Visited', lis', ids') /\ Nested(lis')
  BY <1>1, <1>4 DEF TInv
<1> QED
  BY <1>1, <1>5, <1>6, <1>7, <1>8, <1>9, <1>10 DEF TInv

(* Skips is Skipping for the headings visited.                               *)
LEMMA SkipsAre ==
  ASSUME T!TypeOK
  PROVE  /\ \A j \in T!Visited : T!Index(page[j].level) = PageRanks[j]
         /\ T!Skips <=> Skipping(T!Visited, PageRanks)
<1>1. \A j \in T!Visited : T!Index(page[j].level) = PageRanks[j]
  BY VisitedAre DEF PageRanks
<1>2. PICK V, rk : V = T!Visited /\ rk = PageRanks
  OBVIOUS
<1>3. T!Skips <=> \E k \in V : rk[k] > 1 /\
        ~\E j \in V : /\ j < k /\ rk[j] = rk[k] - 1
                      /\ \A x \in V : j < x /\ x < k => rk[x] >= rk[k]
  BY <1>1, <1>2 DEF T!Skips
<1> QED
  BY <1>1, <1>2, <1>3 DEF Skipping

(* The table has an empty list exactly if it is empty, then.                 *)
LEMMA EmptyIs ==
  ASSUME lis \in Seq(T!Li), NoneEmpty
  PROVE  T!EmptyUl <=> T!Visited = {}
<1>1. PICK L \in Nat : L = Len(lis) /\ DOMAIN lis = 1 .. L
  OBVIOUS
<1>2. ASSUME NEW k \in 1 .. L, lis[k].ul, k = L \/ lis[k + 1].depth <= lis[k].depth
      PROVE  FALSE
  <2>1. k + 1 \in 1 .. L /\ lis[k + 1].depth > lis[k].depth
    BY <1>1, <1>2 DEF NoneEmpty, Held
  <2>2. lis[k] \in T!Li /\ lis[k + 1] \in T!Li
    BY <1>1, <1>2, <2>1
  <2>3. PICK a \in Nat, b \in Nat : a = lis[k].depth /\ b = lis[k + 1].depth
    BY <2>2 DEF T!Li
  <2>4. k # L
    BY <1>2, <2>1
  <2> QED
    BY <1>2, <2>1, <2>3, <2>4
<1>3. T!EmptyUl <=> lis = <<>>
  BY <1>1, <1>2 DEF T!EmptyUl
<1> QED
  BY <1>3 DEF NoneEmpty

(* The invariant when the page is ready.                                     *)
LEMMA FixTInv == TInv /\ T!ContentsFix => TInv'
<1> SUFFICES ASSUME TInv, T!ContentsFix PROVE TInv'
  OBVIOUS
<1>1. /\ page' = page /\ numerate' = numerate /\ autoId' = autoId /\ headers' = headers /\ ids' = ids
      /\ numbers' = numbers /\ lis' = lis /\ next' = next /\ next > Len(page)
      /\ title' = IF T!EmptyUl THEN "hidden" ELSE "kept"
  BY DEF T!ContentsFix, T!options
<1>2. T!Visited' = T!Visited
  BY <1>1 DEF T!Visited
<1>3. T!TypeOK'
  BY <1>1 DEF TInv, T!TypeOK
<1>4. Ids'
  BY <1>1, <1>2, SamePage DEF TInv, Ids
<1>5. /\ numerate' => WithNumbers'
      /\ ~numerate' \/ ~Skipping(T!Visited', PageRanks') => NoneEmpty'
  BY <1>1, <1>2, SamePage DEF TInv, WithNumbers, NoneEmpty
<1>6. next = Len(page) + 1
  <2>1. PICK P \in Nat : P = Len(page)
    BY PageHeadings DEF TInv, T!TypeOK
  <2>2. next \in 1 .. P + 1 /\ next > P
    BY <1>1, <2>1 DEF TInv, T!TypeOK
  <2> QED
    BY <2>1, <2>2
<1>7. T!TitleFits'
  <2>1. (T!Skips)' = T!Skips
    <3>1. \A k : T!Index(k)' = T!Index(k)
      BY <1>1, SamePage
    <3> QED
      BY <1>1, <1>2, <3>1 DEF T!Skips
  <2>2. ~numerate \/ ~T!Skips => (T!EmptyUl <=> T!Visited = {})
    BY EmptyIs, SkipsAre DEF TInv, T!TypeOK
  <2> QED
    BY <1>1, <1>2, <2>1, <2>2 DEF T!TitleFits
<1>8. Listed(T!Visited', lis', ids') /\ Nested(lis')
  BY <1>1, <1>2 DEF TInv
<1> QED
  BY <1>1, <1>3, <1>4, <1>5, <1>6, <1>7, <1>8 DEF TInv

(* It stays while other scripts run.                                         *)
LEMMA TUnchanged == TInv /\ UNCHANGED tVars => TInv'
<1> SUFFICES ASSUME TInv, UNCHANGED tVars PROVE TInv'
  OBVIOUS
<1>1. /\ page' = page /\ numerate' = numerate /\ autoId' = autoId /\ headers' = headers /\ ids' = ids
      /\ numbers' = numbers /\ lis' = lis /\ next' = next /\ title' = title
  BY DEF tVars
<1>2. T!Visited' = T!Visited
  BY <1>1 DEF T!Visited
<1>3. T!TypeOK' /\ T!TitleFits'
  <2>1. (T!Skips)' = T!Skips
    <3>1. \A k : T!Index(k)' = T!Index(k)
      BY <1>1, SamePage
    <3> QED
      BY <1>1, <1>2, <3>1 DEF T!Skips
  <2> QED
    BY <1>1, <1>2, <2>1 DEF TInv, T!TypeOK, T!TitleFits
<1>4. Ids'
  BY <1>1, <1>2, SamePage DEF TInv, Ids
<1>5. /\ numerate' => WithNumbers'
      /\ ~numerate' \/ ~Skipping(T!Visited', PageRanks') => NoneEmpty'
  BY <1>1, <1>2, SamePage DEF TInv, WithNumbers, NoneEmpty
<1>6. Listed(T!Visited', lis', ids') /\ Nested(lis')
  BY <1>1, <1>2 DEF TInv
<1> QED
  BY <1>1, <1>3, <1>4, <1>5, <1>6 DEF TInv

(* The invariant of Toc in all its steps.                                    *)
LEMMA TNext == TInv /\ T!Next => TInv'
BY VisitTInv, SkipTInv, FixTInv DEF T!Next

(* Nothing visited, nothing written.                                         *)
LEMMA TStart ==
  ASSUME page \in Pages, numerate \in BOOLEAN, autoId \in BOOLEAN, next = 1,
         headers = [l \in 1 .. 6 |-> 0], ids = [k \in DOMAIN page |-> OwnId[page[k].text]],
         numbers = [k \in DOMAIN page |-> <<>>], lis = <<>>,
         title = "shown" \/ (title = "hidden" /\ page = <<>>)
  PROVE  TInv
<1>1. PICK P \in Nat : P = Len(page) /\ DOMAIN page = 1 .. P
  BY PageHeadings
<1>2. T!Visited = {}
  <2>1. ~\E k : k \in 1 .. 1 - 1
    OBVIOUS
  <2> QED
    BY <2>1 DEF T!Visited
<1>3. T!TypeOK
  <2>1. next \in 1 .. Len(page) + 1
    BY <1>1
  <2>2. headers \in [1 .. 6 -> Nat]
    OBVIOUS
  <2>3. numbers \in [DOMAIN page -> T!Number]
    BY DEF T!Number
  <2>4. lis \in Seq(T!Li)
    OBVIOUS
  <2>5. DOMAIN ids = DOMAIN page
    OBVIOUS
  <2> QED
    BY <2>1, <2>2, <2>3, <2>4, <2>5 DEF T!TypeOK
<1>4. Ids
  BY <1>2 DEF Ids
<1>5. ~\E k : k \in 1 .. Len(lis)
  OBVIOUS
<1>6. Listed(T!Visited, lis, ids) /\ Nested(lis)
  BY <1>5 DEF Listed, Nested
<1>7. WithNumbers
  <2>1. Counted({}, Levels, headers)
    <3>1. \A m : Current({}, Levels, m) = {}
      BY DEF Current
    <3>2. Cardinality({}) = 0
      BY FS_EmptySet
    <3> QED
      BY <3>1, <3>2 DEF Counted
  <2>2. Numbered({}, Levels, headers, numbers) /\ Legal({}, PageRanks, numbers) /\ Differ({}, numbers)
    BY DEF Numbered, Legal, Differ
  <2>3. Complete({}, PageRanks, lis)
    BY <1>5 DEF Complete
  <2> QED
    BY <1>2, <2>1, <2>2, <2>3 DEF WithNumbers
<1>8. NoneEmpty
  BY <1>2, <1>5 DEF NoneEmpty
<1>9. title # "shown" => next = Len(page) + 1
  BY <1>1
<1>10. T!TitleFits
  BY <1>2 DEF T!TitleFits
<1> QED
  BY <1>3, <1>4, <1>6, <1>7, <1>8, <1>9, <1>10 DEF TInv

(* Toc: the states in which it begins or has ended.                          *)
LEMMA TInitial == Init => TInv
<1> SUFFICES ASSUME Init PROVE TInv
  OBVIOUS
<1>1. CASE T!Init
  <2>1. /\ page \in Pages /\ numerate \in BOOLEAN /\ autoId \in BOOLEAN /\ next = 1
        /\ headers = [l \in 1 .. 6 |-> 0] /\ ids = [k \in DOMAIN page |-> OwnId[page[k].text]]
        /\ numbers = [k \in DOMAIN page |-> <<>>] /\ lis = <<>> /\ title = "shown"
    BY <1>1 DEF T!Init
  <2> QED
    BY <2>1, TStart
<1>2. CASE TOver
  <2>1. /\ page = <<>> /\ numerate = FALSE /\ autoId = FALSE /\ next = 1
        /\ headers = [l \in 1 .. 6 |-> 0] /\ ids = <<>> /\ numbers = <<>> /\ lis = <<>> /\ title = "hidden"
    BY <1>2 DEF TOver
  <2>2. page \in Pages
    BY <2>1, ScriptsAssumption
  <2>3. ids = [k \in DOMAIN page |-> OwnId[page[k].text]] /\ numbers = [k \in DOMAIN page |-> <<>>]
    BY <2>1
  <2> QED
    BY <2>1, <2>2, <2>3, TStart
<1> QED
  BY <1>1, <1>2 DEF Init

(* The invariant says that numbers are legal,                                *)
LEMMA TNumbers == TInv => T!NumbersAreLegal
<1> SUFFICES ASSUME TInv, numerate, NEW k \in T!Visited
             PROVE  LET rank(j) == T!Index(page[j].level)
                        outer == {j \in T!Visited : j < k /\ rank(j) < rank(k)}
                        section == IF outer = {} THEN 0 ELSE T!Max(outer)
                        sisters == {j \in T!Visited : section < j /\ j <= k /\ rank(j) = rank(k)}
                    IN  /\ numbers[k] = Append(IF section = 0 THEN <<>> ELSE numbers[section], T!Cardinality(sisters))
                        /\ ~T!Skips => \A j \in T!Visited : numbers[j] = numbers[k] => j = k
  BY DEF T!NumbersAreLegal
<1> DEFINE rank(j) == T!Index(page[j].level)
           outer == {j \in T!Visited : j < k /\ rank(j) < rank(k)}
           section == IF outer = {} THEN 0 ELSE T!Max(outer)
           sisters == {j \in T!Visited : section < j /\ j <= k /\ rank(j) = rank(k)}
<1>1. \A j \in T!Visited : rank(j) = PageRanks[j]
  BY SkipsAre DEF TInv
<1>2. outer = Outer(T!Visited, PageRanks, k)
  BY <1>1 DEF Outer
<1>3. section = Section(T!Visited, PageRanks, k)
  BY <1>2 DEF Section
<1>4. sisters = Sisters(T!Visited, PageRanks, k)
  <2> HIDE DEF section
  <2> QED
    BY <1>1, <1>3 DEF Sisters
<1>5. Fits(T!Visited, PageRanks, numbers, k)
  BY DEF TInv, WithNumbers, Legal
<1>6. numbers[k] = Append(IF section = 0 THEN <<>> ELSE numbers[section], T!Cardinality(sisters))
  <2>1. T!Cardinality(sisters) = Cardinality(Sisters(T!Visited, PageRanks, k))
    BY <1>4, TCardinality
  <2> HIDE DEF section, sisters
  <2>2. (IF section = 0 THEN <<>> ELSE numbers[section]) = Base(T!Visited, PageRanks, numbers, k)
    BY <1>3 DEF Base
  <2> QED
    BY <1>5, <2>1, <2>2 DEF Fits
<1>7. ~T!Skips => \A j \in T!Visited : numbers[j] = numbers[k] => j = k
  <2>1. ~T!Skips => Differ(T!Visited, numbers)
    BY SkipsAre DEF TInv, WithNumbers
  <2> QED
    BY <2>1 DEF Differ
<1> QED
  BY <1>6, <1>7, Zenon

(* that the table nests well,                                                *)
LEMMA TNested == TInv => T!WellNested
<1> SUFFICES ASSUME TInv PROVE T!WellNested
  OBVIOUS
<1>1. DOMAIN lis = 1 .. Len(lis)
  BY DEF TInv, T!TypeOK
<1>2. \A k \in DOMAIN lis : lis[k].depth > 1 =>
        \E j \in 1 .. k - 1 : /\ lis[j].depth = lis[k].depth - 1
                              /\ lis[j].ul
                              /\ \A x \in j + 1 .. k - 1 : lis[x].depth >= lis[k].depth
  <2>1. \A k \in 1 .. Len(lis) : Inside(lis, k)
    BY DEF TInv, Nested
  <2> QED
    BY <1>1, <2>1, Zenon DEF Inside
<1>3. \A j, k \in DOMAIN lis : j < k /\ lis[j].heading # 0 /\ lis[k].heading # 0
        => lis[j].heading < lis[k].heading
  BY <1>1 DEF TInv, Listed
<1> QED
  BY <1>2, <1>3, Zenon DEF T!WellNested

(* that entries lie in those of their sections,                              *)
LEMMA TInside == TInv => T!InsideItsSection
<1> SUFFICES ASSUME TInv, numerate, ~T!Skips, NEW k \in DOMAIN lis, lis[k].depth > 1
             PROVE  LET outer == {j \in T!Visited : /\ j < lis[k].heading
                                     /\ T!Index(page[j].level) < T!Index(page[lis[k].heading].level)}
                    IN  lis[T!Parent(k)].heading \in outer /\ \A j \in outer : j <= lis[T!Parent(k)].heading
  BY DEF T!InsideItsSection
<1> DEFINE outer == {j \in T!Visited : /\ j < lis[k].heading
                       /\ T!Index(page[j].level) < T!Index(page[lis[k].heading].level)}
<1>1. PICK V, rk, L : V = T!Visited /\ rk = PageRanks /\ L = Len(lis)
  OBVIOUS
<1>2. L \in Nat /\ DOMAIN lis = 1 .. L /\ \A x \in 1 .. L : lis[x].depth \in Nat
  <2>1. lis \in Seq(T!Li)
    BY DEF TInv, T!TypeOK
  <2> QED
    BY <1>1, <2>1, Items
<1>3. k \in 1 .. L
  BY <1>2
<1>4. Complete(V, rk, lis)
  BY <1>1, SkipsAre DEF TInv, WithNumbers
<1>5. \A x \in 1 .. L : lis[x].heading \in V /\ lis[x].depth = rk[lis[x].heading]
  BY <1>1, <1>4 DEF Complete, TInv, Listed
<1>6. \A x, y \in 1 .. L : x < y => lis[x].heading < lis[y].heading
  BY <1>1, <1>4 DEF Complete, TInv, Listed
<1>7. V \subseteq Nat
  BY <1>1, VisitedAre DEF TInv
<1>8. \A j \in V : T!Index(page[j].level) = rk[j]
  BY <1>1, SkipsAre DEF TInv
<1>9. PICK p \in 1 .. k - 1 : p = T!Parent(k) /\ lis[p].depth < lis[k].depth
                              /\ \A x \in p + 1 .. k - 1 : lis[x].depth >= lis[k].depth
  <2>1. Inside(lis, k)
    BY <1>1, <1>3 DEF TInv, Nested
  <2>2. PICK j \in 1 .. k - 1 : lis[j].depth = lis[k].depth - 1 /\ \A x \in j + 1 .. k - 1 : lis[x].depth >= lis[k].depth
    BY <2>1 DEF Inside
  <2>3. lis[j].depth < lis[k].depth
    BY <1>2, <1>3, <2>2
  <2>4. \E j1 \in 1 .. k - 1 : lis[j1].depth < lis[k].depth /\ \A x \in j1 + 1 .. k - 1 : lis[x].depth >= lis[k].depth
    BY <2>2, <2>3
  <2>5. T!Parent(k) \in 1 .. k - 1 /\ lis[T!Parent(k)].depth < lis[k].depth
        /\ \A x \in T!Parent(k) + 1 .. k - 1 : lis[x].depth >= lis[k].depth
    BY <2>4, Zenon DEF T!Parent
  <2> QED
    BY <2>5
<1>10. p \in 1 .. L /\ p < k
  BY <1>2, <1>3
<1>11. PICK h \in V, g \in V : h = lis[p].heading /\ g = lis[k].heading
  BY <1>3, <1>5, <1>10
<1>12. outer = {j \in V : j < g /\ rk[j] < rk[g]}
  BY <1>1, <1>8, <1>11
<1>13. h < g /\ rk[h] < rk[g]
  BY <1>3, <1>5, <1>6, <1>9, <1>10, <1>11
<1>14. ASSUME NEW j \in V, j < g, rk[j] < rk[g] PROVE j <= h
  <2>1. PICK q \in 1 .. L : lis[q].heading = j
    BY <1>1, <1>4 DEF Complete
  <2>2. q < k
    <3>1. j \in Nat /\ g \in Nat /\ ~(g < j) /\ j # g
      BY <1>7, <1>14
    <3>2. ~(k < q) /\ k # q
      BY <1>3, <1>6, <1>11, <2>1, <3>1
    <3> QED
      BY <1>3, <2>1, <3>2
  <2>3. ~(q \in p + 1 .. k - 1)
    <3>1. PICK a \in Nat, b \in Nat : a = lis[q].depth /\ b = lis[k].depth
      BY <1>2, <1>3
    <3>2. a < b
      BY <1>3, <1>5, <1>11, <1>14, <2>1, <3>1
    <3> QED
      BY <1>9, <3>1, <3>2
  <2>4. q = p \/ q < p
    BY <1>3, <2>2, <2>3
  <2>5. j = h \/ j < h
    BY <1>6, <1>10, <1>11, <2>1, <2>4
  <2> QED
    BY <1>7, <2>5
<1>15. h \in outer /\ \A j \in outer : j <= h
  BY <1>12, <1>13, <1>14
<1> QED
  BY <1>9, <1>11, <1>15, Zenon

(* and that links lead to their headings.                                    *)
LEMMA TLinks == TInv => T!LinksLead
<1> SUFFICES ASSUME TInv, autoId, NEW k \in DOMAIN lis, lis[k].heading # 0
             PROVE  LET h == lis[k].heading
                        Id(j) == IF OwnId[page[j].text] # NoId THEN OwnId[page[j].text]
                                 ELSE GenerateId[page[j].text]
                    IN  /\ ids[h] = Id(h)
                        /\ (\A j \in DOMAIN page : j # h => Id(j) # Id(h)) =>
                             {j \in DOMAIN page : ids[j] = lis[k].href} = {h}
  BY DEF T!LinksLead
<1>1. DOMAIN lis = 1 .. Len(lis)
  BY DEF TInv, T!TypeOK
<1>2. PICK g : g = lis[k].heading /\ g \in T!Visited /\ lis[k].href = ids[g]
  BY <1>1 DEF TInv, Listed
<1>3. T!Visited \subseteq DOMAIN page
  BY VisitedAre DEF TInv
<1>4. ids[g] = TId(g)
  BY <1>2, <1>3 DEF TInv, Ids
<1>5. TId(g) # NoId
  <2>1. page[g].text \in HeadingText
    BY <1>2, <1>3, PageHeadings DEF TInv, T!TypeOK
  <2>2. GenerateId[page[g].text] # NoId
    BY <2>1, ScriptsAssumption DEF T!TocAssumption
  <2> QED
    BY <2>2 DEF TId
<1>6. ASSUME \A j \in DOMAIN page : j # g => TId(j) # TId(g)
      PROVE  {j \in DOMAIN page : ids[j] = ids[g]} = {g}
  <2>1. ASSUME NEW j \in DOMAIN page, j # g PROVE ids[j] # TId(g)
    <3>1. CASE j \in T!Visited
      <4>1. ids[j] = TId(j)
        BY <3>1 DEF TInv, Ids
      <4> QED
        BY <1>6, <2>1, <4>1
    <3>2. CASE j \notin T!Visited
      <4>1. ids[j] = OwnId[page[j].text]
        BY <3>2 DEF TInv, Ids
      <4>2. ids[j] # NoId => TId(j) = ids[j]
        BY <4>1 DEF TId
      <4> QED
        BY <1>5, <1>6, <2>1, <4>2
    <3> QED
      BY <3>1, <3>2
  <2> QED
    BY <1>2, <1>3, <1>4, <2>1
<1> QED
  BY <1>2, <1>4, <1>6 DEF TId

(* The table of contents, for all pages, levels and options: the lists nest  *)
(* in the order of the page, the entries lie in those of their sections,     *)
(* the numbers are those of the sections, links lead to their headings, and  *)
(* the title goes exactly with an empty table.                              *)
THEOREM ContentsFitHolds == Spec => []ContentsFit
<1>1. Init => TInv
  BY TInitial
<1>2. TInv /\ [Next]_vars => TInv'
  BY TNext, TUnchanged DEF Next, vars
<1>3. TInv => ContentsFit
  BY TNumbers, TNested, TInside, TLinks DEF ContentsFit, TInv
<1> QED
  BY <1>1, <1>2, <1>3, PTL DEF Spec
=============================================================================
