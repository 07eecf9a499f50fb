----------------------------- MODULE SumsProofs -----------------------------
(***************************************************************************)
(* Induction over the naturals, and what it shows of sums over sequences   *)
(* and of sequences of sequences that are joined.                          *)
(*                                                                         *)
(* The induction principle is stated for a set rather than a predicate, so *)
(* that the provers can instantiate it.  It follows from the fact that     *)
(* every nonempty set of naturals has a least element.                     *)
(***************************************************************************)
EXTENDS Sums, TLAPS, WellFoundedInduction, SequenceTheorems

(* A set that holds 0 and, with every number below N, its successor, holds *)
(* all numbers from 0 to N: the loops of append() and length() count up.   *)
LEMMA NatSetInduction ==
  ASSUME NEW N \in Nat, NEW P,
         0 \in P,
         \A n \in Nat : n < N /\ n \in P => n + 1 \in P
  PROVE  \A n \in 0..N : n \in P
<1> DEFINE T == (0..N) \ P
           R == OpToRel(<, Nat)
<1> SUFFICES ASSUME T # {} PROVE FALSE
  OBVIOUS
<1>1. IsWellFoundedOn(R, Nat)
  BY NatLessThanWellFounded
<1>2. PICK x \in T : \A y \in T : ~ (<<y, x>> \in R)
  <2>1. T \subseteq Nat
    OBVIOUS
  <2> HIDE DEF T, R
  <2> QED BY <1>1, <2>1, WFMin
<1>3. x \in 0..N /\ x \notin P
  OBVIOUS
<1>4. x - 1 \in 0..N /\ x - 1 < N /\ x = (x - 1) + 1
  <2> HIDE DEF R
  <2> QED BY <1>3
<1>5. <<x - 1, x>> \in R
  BY <1>4 DEF OpToRel
<1>6. x - 1 \in P
  <2> HIDE DEF R
  <2> QED BY <1>2, <1>4, <1>5
<1> HIDE DEF R
<1> QED
  BY <1>3, <1>4, <1>6

(* The recursive function inside SumSeq exists and has integer values. *)
LEMMA SumSeqFunction ==
  ASSUME NEW s \in Seq(Int)
  PROVE  \E f \in [0..Len(s) -> Int] :
           /\ f[0] = 0
           /\ \A i \in 1..Len(s) : f[i] = f[i - 1] + s[i]
           /\ SumSeq(s) = f[Len(s)]
<1> DEFINE Def(f, n) == f = [i \in 0..n |-> IF i = 0 THEN 0 ELSE f[i - 1] + s[i]]
           P == {n \in 0..Len(s) : \E f \in [0..n -> Int] : Def(f, n)}
<1>0. Len(s) \in Nat
  OBVIOUS
<1>1. 0 \in P
  <2> DEFINE z == [i \in 0..0 |-> 0]
  <2>1. z \in [0..0 -> Int] /\ Def(z, 0)
    OBVIOUS
  <2>2. \E f \in [0..0 -> Int] : Def(f, 0)
    <3> HIDE DEF z, Def
    <3> QED BY <2>1
  <2> QED BY <2>2
<1>2. ASSUME NEW n \in Nat, n < Len(s), n \in P
      PROVE  n + 1 \in P
  <2>1. PICK f \in [0..n -> Int] : Def(f, n)
    BY <1>2
  <2> DEFINE g == [i \in 0..(n + 1) |-> IF i = n + 1 THEN f[n] + s[n + 1] ELSE f[i]]
  <2>2. \A i \in 0..n : f[i] = IF i = 0 THEN 0 ELSE f[i - 1] + s[i]
    BY <2>1
  <2>3. g \in [0..(n + 1) -> Int]
    BY <1>2
  <2>4. \A i \in 0..(n + 1) : g[i] = IF i = 0 THEN 0 ELSE g[i - 1] + s[i]
    BY <2>2
  <2>5. Def(g, n + 1)
    BY <2>4
  <2>6. \E k \in [0..(n + 1) -> Int] : Def(k, n + 1)
    <3> HIDE DEF g, Def
    <3> QED BY <2>3, <2>5
  <2>7. n + 1 \in 0..Len(s)
    BY <1>0, <1>2
  <2> HIDE DEF Def
  <2> QED BY <2>6, <2>7
<1>3. Len(s) \in P
  <2> HIDE DEF P
  <2>2. \A n \in Nat : n < Len(s) /\ n \in P => n + 1 \in P
    BY <1>2
  <2>3. \A n \in 0..Len(s) : n \in P
    BY <1>0, <1>1, <2>2, NatSetInduction
  <2> QED BY <1>0, <2>3
<1>4. PICK f \in [0..Len(s) -> Int] : Def(f, Len(s))
  BY <1>3
<1> DEFINE h == CHOOSE k : Def(k, Len(s))
<1>5. Def(h, Len(s))
  BY <1>4
<1>6. SumSeq(s) = h[Len(s)]
  BY DEF SumSeq
<1>7. h[0] = 0 /\ \A i \in 1..Len(s) : h[i] = h[i - 1] + s[i]
  <2> HIDE DEF h
  <2>1. \A i \in 0..Len(s) : h[i] = IF i = 0 THEN 0 ELSE h[i - 1] + s[i]
    BY ONLY <1>5
  <2>2. 0 \in 0..Len(s) /\ \A i \in 1..Len(s) : i \in 0..Len(s) /\ i # 0
    BY ONLY <1>0
  <2> QED BY ONLY <2>1, <2>2
<1>8. h \in [0..Len(s) -> Int]
  <2> DEFINE Q == {n \in 0..Len(s) : h[n] \in Int}
  <2>1. 0 \in Q
    BY <1>7
  <2>2. \A n \in Nat : n < Len(s) /\ n \in Q => n + 1 \in Q
    <3> SUFFICES ASSUME NEW n \in Nat, n < Len(s), h[n] \in Int
                 PROVE  h[n + 1] \in Int /\ n + 1 \in 0..Len(s)
      OBVIOUS
    <3> HIDE DEF h
    <3>1. n + 1 \in 1..Len(s) /\ (n + 1) - 1 = n
      BY <1>0
    <3>2. h[n + 1] = h[n] + s[n + 1]
      BY <1>7, <3>1
    <3> QED BY <3>1, <3>2
  <2>3. \A n \in 0..Len(s) : n \in Q
    <3> HIDE DEF Q
    <3> QED BY <1>0, <2>1, <2>2, NatSetInduction
  <2>4. \A n \in 0..Len(s) : h[n] \in Int
    BY <2>3
  <2> HIDE DEF h
  <2> QED BY <1>5, <2>4
<1> HIDE DEF h, Def
<1> QED
  BY <1>6, <1>7, <1>8

(* That function is the only one with these values: a sum is known once    *)
(* any running total of it is.                                             *)
LEMMA SumSeqUnique ==
  ASSUME NEW s \in Seq(Int), NEW g,
         g[0] = 0,
         \A i \in 1..Len(s) : g[i] = g[i - 1] + s[i]
  PROVE  \A n \in 0..Len(s) : g[n] = SumSeq(SubSeq(s, 1, n))
<1>0. Len(s) \in Nat
  OBVIOUS
<1> SUFFICES ASSUME NEW n \in 0..Len(s)
             PROVE  g[n] = SumSeq(SubSeq(s, 1, n))
  OBVIOUS
<1> DEFINE t == SubSeq(s, 1, n)
<1>1. t \in Seq(Int) /\ Len(t) = n /\ \A i \in 1..n : t[i] = s[i]
  BY <1>0
<1> HIDE DEF t
<1>2. PICK f \in [0..Len(t) -> Int] :
           /\ f[0] = 0
           /\ \A i \in 1..Len(t) : f[i] = f[i - 1] + t[i]
           /\ SumSeq(t) = f[Len(t)]
  BY <1>1, SumSeqFunction
<1> DEFINE Q == {i \in 0..n : g[i] = f[i]}
<1>3. 0 \in Q
  BY <1>2
<1>4. \A i \in Nat : i < n /\ i \in Q => i + 1 \in Q
  <2> SUFFICES ASSUME NEW i \in Nat, i < n, g[i] = f[i]
               PROVE  i + 1 \in 0..n /\ g[i + 1] = f[i + 1]
    OBVIOUS
  <2>1. i + 1 \in 1..n /\ i + 1 \in 1..Len(s) /\ (i + 1) - 1 = i
    BY <1>0
  <2>2. g[i + 1] = g[i] + s[i + 1]
    BY <2>1
  <2>3. f[i + 1] = f[i] + t[i + 1]
    BY <1>1, <1>2, <2>1
  <2>4. t[i + 1] = s[i + 1] /\ i + 1 \in 0..n
    BY <1>1, <2>1
  <2> QED BY ONLY <2>2, <2>3, <2>4, g[i] = f[i]
<1>5. \A i \in 0..n : i \in Q
  <2> HIDE DEF Q
  <2>1. n \in Nat
    BY <1>0
  <2> QED BY <1>3, <1>4, <2>1, NatSetInduction
<1>6. g[n] = f[n]
  BY <1>5
<1> QED
  BY <1>1, <1>2, <1>6 DEF t

LEMMA SumSeqType ==
  ASSUME NEW s \in Seq(Int)
  PROVE  SumSeq(s) \in Int
BY SumSeqFunction

LEMMA SumSeqEmpty == SumSeq(<<>>) = 0
<1>1. <<>> \in Seq(Int) /\ Len(<<>>) = 0
  OBVIOUS
<1> QED BY <1>1, SumSeqFunction

(* A sum of naturals is a natural. *)
LEMMA SumSeqNat ==
  ASSUME NEW s \in Seq(Nat)
  PROVE  SumSeq(s) \in Nat
<1>0. Len(s) \in Nat /\ s \in Seq(Int)
  OBVIOUS
<1>1. PICK f \in [0..Len(s) -> Int] :
           /\ f[0] = 0
           /\ \A i \in 1..Len(s) : f[i] = f[i - 1] + s[i]
           /\ SumSeq(s) = f[Len(s)]
  BY <1>0, SumSeqFunction
<1> DEFINE Q == {i \in 0..Len(s) : f[i] >= 0}
<1>2. 0 \in Q
  BY <1>0, <1>1
<1>3. \A i \in Nat : i < Len(s) /\ i \in Q => i + 1 \in Q
  <2> SUFFICES ASSUME NEW i \in Nat, i < Len(s), f[i] >= 0
               PROVE  i + 1 \in 0..Len(s) /\ f[i + 1] >= 0
    OBVIOUS
  <2>1. i + 1 \in 1..Len(s) /\ (i + 1) - 1 = i
    BY <1>0
  <2>2. f[i + 1] = f[i] + s[i + 1] /\ f[i] \in Int /\ s[i + 1] \in Nat
    BY <1>0, <1>1, <2>1
  <2> QED BY <2>1, <2>2
<1>4. \A i \in 0..Len(s) : i \in Q
  <2> HIDE DEF Q
  <2> QED BY <1>0, <1>2, <1>3, NatSetInduction
<1> QED
  BY <1>0, <1>1, <1>4

(* The sum over two sequences in a row is the sum of their sums: the bytes *)
(* of a bucket after an append, or before and after an erase.              *)
LEMMA SumSeqConcat ==
  ASSUME NEW s \in Seq(Int), NEW t \in Seq(Int)
  PROVE  SumSeq(s \o t) = SumSeq(s) + SumSeq(t)
<1>0. Len(s) \in Nat /\ Len(t) \in Nat
  OBVIOUS
<1> DEFINE u == s \o t
<1>1. /\ u \in Seq(Int)
      /\ Len(u) = Len(s) + Len(t)
      /\ \A i \in 1..Len(s) : u[i] = s[i]
      /\ \A i \in 1..Len(t) : u[Len(s) + i] = t[i]
  OBVIOUS
<1> HIDE DEF u
<1>2. PICK f \in [0..Len(s) -> Int] :
           /\ f[0] = 0
           /\ \A i \in 1..Len(s) : f[i] = f[i - 1] + s[i]
           /\ SumSeq(s) = f[Len(s)]
  BY SumSeqFunction
<1>2a. f[Len(s)] \in Int
  <2>1. Len(s) \in 0..Len(s)
    BY <1>0
  <2> QED BY <2>1
<1>3. PICK g \in [0..Len(t) -> Int] :
           /\ g[0] = 0
           /\ \A i \in 1..Len(t) : g[i] = g[i - 1] + t[i]
           /\ SumSeq(t) = g[Len(t)]
  BY SumSeqFunction
<1> DEFINE h == [i \in 0..Len(u) |-> IF i <= Len(s) THEN f[i] ELSE f[Len(s)] + g[i - Len(s)]]
<1>4. h[0] = 0
  BY <1>0, <1>1, <1>2
<1>5. ASSUME NEW i \in 1..Len(u)
      PROVE  h[i] = h[i - 1] + u[i]
  <2>1. CASE i <= Len(s)
    <3>1. i \in 1..Len(s)
      BY <1>0, <2>1
    <3> QED BY <1>0, <1>1, <1>2, <2>1, <3>1
  <2>2. CASE i = Len(s) + 1
    <3>1. 1 \in 1..Len(t) /\ 1 - 1 = 0
      BY <1>0, <1>1, <2>2
    <3>2. u[i] = t[1] /\ g[1] = g[0] + t[1]
      BY <1>0, <1>1, <1>3, <2>2, <3>1
    <3>3. h[i] = f[Len(s)] + g[1] /\ h[i - 1] = f[Len(s)]
      BY <1>0, <1>1, <2>2
    <3>4. f[Len(s)] \in Int /\ t[1] \in Int
      BY <1>0, <1>2, <3>1
    <3> QED BY <1>3, <3>2, <3>3, <3>4
  <2>3. CASE i > Len(s) + 1
    <3> DEFINE j == i - Len(s)
    <3>1. j \in 1..Len(t) /\ j - 1 \in 0..Len(t) /\ i = Len(s) + j
      <4>1. /\ i \in Nat /\ Len(s) \in Nat /\ Len(t) \in Nat
            /\ i <= Len(s) + Len(t)
        BY <1>0, <1>1
      <4> QED
        BY ONLY <4>1, <2>3
    <3>2. u[i] = t[j] /\ g[j] = g[j - 1] + t[j]
      <4> HIDE DEF j
      <4>1. u[i] = t[j]
        BY <1>1, <3>1
      <4>2. g[j] = g[j - 1] + t[j]
        BY <1>3, <3>1
      <4> QED BY <4>1, <4>2
    <3>3. h[i] = f[Len(s)] + g[j] /\ h[i - 1] = f[Len(s)] + g[j - 1]
      <4>1. i \in 0..Len(u) /\ i - 1 \in 0..Len(u)
        BY <1>0, <1>1
      <4>2. ~(i <= Len(s)) /\ ~(i - 1 <= Len(s)) /\ (i - 1) - Len(s) = j - 1
        BY ONLY <1>0, <2>3, i \in Nat
      <4> HIDE DEF j
      <4>3. i - Len(s) = j
        BY DEF j
      <4> QED
        BY ONLY <4>1, <4>2, <4>3 DEF h
    <3> HIDE DEF h, j
    <3>4. t[j] \in Int
      BY <1>0, <3>1
    <3>5. g[j - 1] \in Int
      BY <3>1
    <3> QED BY <1>2a, <3>2, <3>3, <3>4, <3>5
  <2> QED BY <1>0, <1>1, <2>1, <2>2, <2>3
<1>6. h[Len(u)] = SumSeq(SubSeq(u, 1, Len(u)))
  <2> HIDE DEF h
  <2>1. Len(u) \in 0..Len(u)
    BY <1>0, <1>1
  <2> QED BY <1>1, <1>4, <1>5, <2>1, SumSeqUnique
<1>7. SubSeq(u, 1, Len(u)) = u
  BY <1>1
<1>8. h[Len(u)] = f[Len(s)] + g[Len(t)]
  <2> HIDE DEF h
  <2>1. Len(u) \in 0..Len(u) /\ Len(u) - Len(s) = Len(t)
    BY <1>0, <1>1
  <2> USE DEF h
  <2>2. CASE Len(t) = 0
    BY <1>0, <1>1, <1>2a, <1>3, <2>1, <2>2
  <2>3. CASE Len(t) # 0
    <3>1. ~(Len(u) <= Len(s))
      BY <1>0, <1>1, <2>3
    <3> QED BY <2>1, <3>1
  <2> QED BY <2>2, <2>3
<1> QED
  BY <1>2, <1>3, <1>6, <1>7, <1>8 DEF u

LEMMA SumSeqSingleton ==
  ASSUME NEW x \in Int
  PROVE  SumSeq(<<x>>) = x
<1> DEFINE s == <<x>>
<1>1. s \in Seq(Int) /\ Len(s) = 1 /\ s[1] = x
  OBVIOUS
<1> HIDE DEF s
<1>2. PICK f \in [0..Len(s) -> Int] :
           /\ f[0] = 0
           /\ \A i \in 1..Len(s) : f[i] = f[i - 1] + s[i]
           /\ SumSeq(s) = f[Len(s)]
  BY <1>1, SumSeqFunction
<1>3. f[1] = f[0] + x
  BY <1>1, <1>2
<1>4. SumSeq(s) = x
  BY <1>1, <1>2, <1>3
<1> QED BY <1>4 DEF s

-----------------------------------------------------------------------------
(* A prefix, and an element in front *)
LEMMA PrefixFacts ==
  ASSUME NEW S, NEW s \in Seq(S), NEW n \in 1..Len(s)
  PROVE  /\ SubSeq(s, 1, n) \in Seq(S) /\ Len(SubSeq(s, 1, n)) = n
         /\ SubSeq(s, 1, n) # <<>>
         /\ \A i \in 1..n : SubSeq(s, 1, n)[i] = s[i]
OBVIOUS

LEMMA ConsFacts ==
  ASSUME NEW S, NEW e \in S, NEW s \in Seq(S)
  PROVE  /\ <<e>> \o s \in Seq(S) /\ Len(<<e>> \o s) = Len(s) + 1
         /\ <<e>> \o s # <<>> /\ (<<e>> \o s)[1] = e
         /\ \A i \in 1..Len(s) : (<<e>> \o s)[i + 1] = s[i]
<1> DEFINE w == <<e>>
           x == w \o s
           N == Len(s)
<1>0. N \in Nat /\ w \in Seq(S) /\ Len(w) = 1 /\ w[1] = e
  OBVIOUS
<1> HIDE DEF w
<1>1. x \in Seq(S) /\ Len(x) = 1 + N
      /\ \A i \in 1..(1 + N) : x[i] = IF i <= 1 THEN w[i] ELSE s[i - 1]
  BY <1>0, ConcatProperties
<1> HIDE DEF x, N
<1>2. \A i \in 1..N : i + 1 \in 1..(1 + N) /\ ~(i + 1 <= 1) /\ (i + 1) - 1 = i
  BY <1>0
<1>3. /\ Len(x) = N + 1 /\ 1 \in 1..(1 + N)
      /\ \A i \in 1..N : x[i + 1] = s[i]
  BY <1>0, <1>1, <1>2
<1>4. x[1] = e /\ x # <<>>
  BY <1>0, <1>1, <1>3
<1> QED
  BY <1>1, <1>3, <1>4 DEF x, w, N

(* FlattenSeq joins the sequences one after the other: its recursive       *)
(* function exists.                                                        *)
LEMMA FlattenFunction ==
  ASSUME NEW T, NEW seqs \in Seq(Seq(T)), seqs # <<>>
  PROVE  \E f \in [1..Len(seqs) -> Seq(T)] :
           /\ f[1] = seqs[1]
           /\ \A i \in 2..Len(seqs) : f[i] = f[i - 1] \o seqs[i]
           /\ SX!FlattenSeq(seqs) = f[Len(seqs)]
<1> DEFINE N == Len(seqs)
           Def(f, n) == f = [i \in 1..n |-> IF i = 1 THEN seqs[i] ELSE f[i - 1] \o seqs[i]]
           P == {n \in 0..N : \E f \in [1..(n + 1) -> Seq(T)] : n < N => Def(f, n + 1)}
<1>0. N \in Nat \ {0} /\ \A i \in 1..N : seqs[i] \in Seq(T)
  OBVIOUS
<1> HIDE DEF N
<1>1. 0 \in P
  <2> DEFINE z == [i \in 1..1 |-> seqs[1]]
  <2>1. z \in [1..1 -> Seq(T)] /\ Def(z, 1)
    BY <1>0
  <2>2. \E f \in [1..1 -> Seq(T)] : Def(f, 1)
    <3> HIDE DEF z, Def
    <3> QED BY <2>1
  <2>3. 0 + 1 = 1 /\ 0 \in 0..N
    BY <1>0
  <2> HIDE DEF Def
  <2> QED BY <2>2, <2>3
<1>2. ASSUME NEW n \in Nat, n < N - 1, n \in P
      PROVE  n + 1 \in P
  <2> DEFINE m == n + 1
  <2>0. m \in 1..N /\ m + 1 \in 1..N /\ m \in Nat /\ n < N /\ m < N /\ m \in 0..N
    BY <1>0, <1>2
  <2>1. PICK f \in [1..m -> Seq(T)] : Def(f, m)
    BY <1>2, <2>0
  <2> HIDE DEF m
  <2> DEFINE s == seqs[m + 1]
             g == [i \in 1..(m + 1) |-> IF i = m + 1 THEN f[m] \o s ELSE f[i]]
  <2>2. \A i \in 1..m : f[i] = IF i = 1 THEN seqs[i] ELSE f[i - 1] \o seqs[i]
    BY <2>1
  <2>3. g \in [1..(m + 1) -> Seq(T)]
    <3>1. f[m] \in Seq(T) /\ s \in Seq(T)
      BY <1>0, <2>0
    <3>2. f[m] \o s \in Seq(T)
      BY <3>1, ConcatProperties
    <3> DEFINE e == f[m] \o s
    <3>3. g = [i \in 1..(m + 1) |-> IF i = m + 1 THEN e ELSE f[i]] /\ e \in Seq(T)
      BY <3>2
    <3> HIDE DEF e, g
    <3> QED BY <2>0, <3>3
  <2>4. \A i \in 1..(m + 1) : g[i] = IF i = 1 THEN seqs[i] ELSE g[i - 1] \o seqs[i]
    <3> SUFFICES ASSUME NEW i \in 1..(m + 1)
                 PROVE  g[i] = IF i = 1 THEN seqs[i] ELSE g[i - 1] \o seqs[i]
      OBVIOUS
    <3>1. CASE i = m + 1
      <4>1. g[i] = f[m] \o s /\ g[m] = f[m] /\ i # 1 /\ i - 1 = m
        BY <2>0, <3>1
      <4> HIDE DEF g
      <4> QED BY <3>1, <4>1
    <3>2. CASE i \in 1..m
      <4>1. g[i] = f[i] /\ (i # 1 => g[i - 1] = f[i - 1])
        BY <2>0, <3>2
      <4> HIDE DEF g
      <4> QED BY <2>2, <3>2, <4>1
    <3> QED BY <2>0, <3>1, <3>2
  <2>5. Def(g, m + 1)
    BY <2>4
  <2>6. \E k \in [1..(m + 1) -> Seq(T)] : Def(k, m + 1)
    <3> HIDE DEF g, Def
    <3> QED BY <2>3, <2>5
  <2> HIDE DEF Def
  <2>7. m \in P
    BY <2>0, <2>6
  <2> QED BY <2>7 DEF m
<1>3. N - 1 \in P
  <2> HIDE DEF P
  <2>1. N - 1 \in Nat
    BY <1>0
  <2>2. \A n \in 0..(N - 1) : n \in P
    BY <1>1, <1>2, <2>1, NatSetInduction
  <2> QED BY <2>1, <2>2
<1>4. PICK f \in [1..N -> Seq(T)] : Def(f, N)
  <2>1. (N - 1) + 1 = N /\ N - 1 < N
    BY <1>0
  <2> HIDE DEF Def
  <2> QED BY <1>3, <2>1
<1> DEFINE h == CHOOSE k : Def(k, N)
<1>5. Def(h, N)
  BY <1>4
<1>6. SX!FlattenSeq(seqs) = h[N]
  BY <1>0 DEF SX!FlattenSeq, N
<1>7. \A i \in 1..N : h[i] = IF i = 1 THEN seqs[i] ELSE h[i - 1] \o seqs[i]
  <2> HIDE DEF h
  <2> QED BY ONLY <1>5
<1>8. h \in [1..N -> Seq(T)]
  <2> DEFINE Q == {n \in 0..N : n = 0 \/ h[n] \in Seq(T)}
  <2>1. 0 \in Q
    BY <1>0
  <2>2. \A n \in Nat : n < N /\ n \in Q => n + 1 \in Q
    <3> SUFFICES ASSUME NEW n \in Nat, n < N, n = 0 \/ h[n] \in Seq(T)
                 PROVE  h[n + 1] \in Seq(T) /\ n + 1 \in 0..N
      OBVIOUS
    <3> HIDE DEF h
    <3>1. n + 1 \in 1..N /\ (n + 1) - 1 = n /\ seqs[n + 1] \in Seq(T)
      BY <1>0
    <3>2. h[n + 1] = IF n + 1 = 1 THEN seqs[n + 1] ELSE h[n] \o seqs[n + 1]
      BY <1>7, <3>1
    <3> DEFINE s == seqs[n + 1]
    <3> HIDE DEF s
    <3>3. s \in Seq(T)
      BY <3>1 DEF s
    <3>4. h[n] \in Seq(T) => h[n] \o s \in Seq(T)
      BY <3>3, ConcatProperties
    <3> QED BY <1>0, <3>1, <3>2, <3>3, <3>4 DEF s
  <2>3. \A n \in 0..N : n \in Q
    <3> HIDE DEF Q
    <3> QED BY <1>0, <2>1, <2>2, NatSetInduction
  <2>4. \A n \in 1..N : h[n] \in Seq(T)
    <3> HIDE DEF h
    <3>1. \A n \in 1..N : n \in 0..N /\ n # 0
      BY <1>0
    <3> QED BY <2>3, <3>1
  <2> HIDE DEF h
  <2> QED BY <1>5, <2>4
<1>9. h[1] = seqs[1] /\ \A i \in 2..N : h[i] = h[i - 1] \o seqs[i]
  <2> HIDE DEF h
  <2>1. 1 \in 1..N /\ \A i \in 2..N : i \in 1..N /\ i # 1
    BY <1>0
  <2> QED BY <1>7, <2>1
<1> HIDE DEF h, Def
<1> QED
  BY <1>6, <1>8, <1>9 DEF N

(* That function is the only one, so what is known of a running join is    *)
(* known of the result.                                                    *)
LEMMA FlattenUnique ==
  ASSUME NEW T, NEW seqs \in Seq(Seq(T)), seqs # <<>>, NEW g,
         g[1] = seqs[1],
         \A i \in 2..Len(seqs) : g[i] = g[i - 1] \o seqs[i],
         NEW n \in 1..Len(seqs)
  PROVE  g[n] = SX!FlattenSeq(SubSeq(seqs, 1, n))
<1> DEFINE t == SubSeq(seqs, 1, n)
<1>0. n \in Nat \ {0} /\ Len(seqs) \in Nat
  OBVIOUS
<1>1. t \in Seq(Seq(T)) /\ Len(t) = n /\ t # <<>> /\ \A i \in 1..n : t[i] = seqs[i]
  BY PrefixFacts
<1> HIDE DEF t
<1>2. PICK f \in [1..Len(t) -> Seq(T)] :
           /\ f[1] = t[1]
           /\ \A i \in 2..Len(t) : f[i] = f[i - 1] \o t[i]
           /\ SX!FlattenSeq(t) = f[Len(t)]
  BY <1>1, FlattenFunction
<1> DEFINE Q == {i \in 0..n : i = 0 \/ g[i] = f[i]}
<1>3. 0 \in Q
  BY <1>0
<1>4. \A i \in Nat : i < n /\ i \in Q => i + 1 \in Q
  <2> SUFFICES ASSUME NEW i \in Nat, i < n, i = 0 \/ g[i] = f[i]
               PROVE  i + 1 \in 0..n /\ g[i + 1] = f[i + 1]
    OBVIOUS
  <2>0. i + 1 \in 0..n
    BY <1>0
  <2>1. CASE i = 0
    BY <1>0, <1>1, <1>2, <2>1
  <2>2. CASE i # 0
    <3>1. i + 1 \in 2..n /\ i + 1 \in 2..Len(seqs) /\ (i + 1) - 1 = i /\ i + 1 \in 1..n
      BY <1>0, <2>2
    <3>2. g[i + 1] = g[i] \o seqs[i + 1]
      BY <3>1
    <3>3. f[i + 1] = f[i] \o t[i + 1]
      BY <1>1, <1>2, <3>1
    <3>4. t[i + 1] = seqs[i + 1] /\ g[i] = f[i]
      BY <1>1, <2>2, <3>1
    <3> QED BY ONLY <2>0, <3>2, <3>3, <3>4
  <2> QED BY <2>0, <2>1, <2>2
<1>5. n \in Q
  <2> HIDE DEF Q
  <2>1. \A i \in 0..n : i \in Q
    BY <1>0, <1>3, <1>4, NatSetInduction
  <2> QED BY <1>0, <2>1
<1>6. g[n] = f[n]
  BY <1>0, <1>5
<1> QED
  BY <1>1, <1>2, <1>6 DEF t

LEMMA FlattenEmpty == SX!FlattenSeq(<<>>) = <<>>
BY DEF SX!FlattenSeq

LEMMA FlattenType ==
  ASSUME NEW T, NEW seqs \in Seq(Seq(T))
  PROVE  SX!FlattenSeq(seqs) \in Seq(T)
<1>1. CASE seqs = <<>>
  <2>1. SX!FlattenSeq(seqs) = <<>>
    BY <1>1, FlattenEmpty
  <2> QED BY <2>1, EmptySeq
<1>2. CASE seqs # <<>>
  <2>1. PICK f \in [1..Len(seqs) -> Seq(T)] : SX!FlattenSeq(seqs) = f[Len(seqs)]
    BY <1>2, FlattenFunction
  <2>2. Len(seqs) \in 1..Len(seqs)
    BY <1>2
  <2> QED BY <2>1, <2>2
<1> QED
  BY <1>1, <1>2

(* A sequence is added at the end ... *)
LEMMA FlattenAppend ==
  ASSUME NEW T, NEW seqs \in Seq(Seq(T)), NEW s \in Seq(T)
  PROVE  SX!FlattenSeq(Append(seqs, s)) = SX!FlattenSeq(seqs) \o s
<1> DEFINE u == Append(seqs, s)
           N == Len(seqs)
<1>0. N \in Nat
  OBVIOUS
<1>1. u \in Seq(Seq(T)) /\ u # <<>> /\ Len(u) = N + 1 /\ u[N + 1] = s
      /\ \A i \in 1..N : u[i] = seqs[i]
  BY AppendProperties
<1>2. N # 0 => SubSeq(u, 1, N) = seqs
  <2> HAVE N # 0
  <2> DEFINE v == SubSeq(u, 1, N)
  <2> HIDE DEF u
  <2>1. v \in Seq(Seq(T)) /\ Len(v) = N /\ \A i \in 1..N : v[i] = u[i]
    BY <1>0, <1>1
  <2> HIDE DEF v
  <2>2. v = seqs
    BY <1>1, <2>1, SeqEqual
  <2> QED BY <2>2 DEF v
<1> HIDE DEF u, N
<1>3. PICK f \in [1..Len(u) -> Seq(T)] :
           /\ f[1] = u[1]
           /\ \A i \in 2..Len(u) : f[i] = f[i - 1] \o u[i]
           /\ SX!FlattenSeq(u) = f[Len(u)]
  BY <1>1, FlattenFunction
<1>4. CASE N = 0
  <2>1. seqs = <<>>
    BY <1>4 DEF N
  <2>2. SX!FlattenSeq(u) = s
    BY <1>1, <1>3, <1>4
  <2>3. SX!FlattenSeq(seqs) \o s = s
    BY <2>1, FlattenEmpty, ConcatEmptySeq
  <2> QED BY <2>2, <2>3 DEF u
<1>5. CASE N # 0
  <2>1. N \in 1..Len(u) /\ N + 1 \in 2..Len(u) /\ (N + 1) - 1 = N
    BY <1>0, <1>1, <1>5
  <2>2. f[N] = SX!FlattenSeq(SubSeq(u, 1, N))
    BY <1>1, <1>3, <2>1, FlattenUnique
  <2>3. f[N + 1] = f[N] \o s
    BY <1>1, <1>3, <2>1
  <2> QED BY <1>1, <1>2, <1>3, <1>5, <2>2, <2>3 DEF u
<1> QED
  BY <1>4, <1>5

(* ... or in front. *)
LEMMA FlattenCons ==
  ASSUME NEW T, NEW seqs \in Seq(Seq(T)), NEW s \in Seq(T)
  PROVE  SX!FlattenSeq(<<s>> \o seqs) = s \o SX!FlattenSeq(seqs)
<1> DEFINE u == <<s>> \o seqs
           N == Len(seqs)
<1>0. N \in Nat /\ \A i \in 1..N : seqs[i] \in Seq(T)
  OBVIOUS
<1>1. u \in Seq(Seq(T)) /\ u # <<>> /\ Len(u) = N + 1 /\ u[1] = s
      /\ \A i \in 1..N : u[i + 1] = seqs[i]
  BY ConsFacts
<1> HIDE DEF u
<1>2. SubSeq(u, 1, N + 1) = u
  BY <1>1, SubSeqFull
<1>3. CASE N = 0
  <2> DEFINE g == [i \in 1..1 |-> s]
  <2>1. N + 1 = 1 /\ 1 \in 1..Len(u) /\ Len(u) = 1
    BY <1>1, <1>3
  <2>3. g[1] = s
    OBVIOUS
  <2> HIDE DEF g, N
  <2>2. g[1] = u[1] /\ \A i \in 2..Len(u) : g[i] = g[i - 1] \o u[i]
    <3>1. 2..Len(u) = {}
      BY <2>1
    <3> QED BY <1>1, <2>3, <3>1
  <2>4. g[1] = SX!FlattenSeq(SubSeq(u, 1, 1))
    BY <1>1, <2>1, <2>2, FlattenUnique
  <2>5. SX!FlattenSeq(u) = s
    BY <1>2, <2>1, <2>3, <2>4
  <2>6. seqs = <<>>
    BY <1>3 DEF N
  <2>7. s \o SX!FlattenSeq(seqs) = s
    BY <2>6, FlattenEmpty, ConcatEmptySeq
  <2> QED BY <2>5, <2>7 DEF u
<1>4. CASE N # 0
  <2>1. PICK f \in [1..N -> Seq(T)] :
             /\ f[1] = seqs[1]
             /\ \A i \in 2..N : f[i] = f[i - 1] \o seqs[i]
             /\ SX!FlattenSeq(seqs) = f[N]
    <3>1. seqs # <<>>
      BY <1>4
    <3> QED BY <3>1, FlattenFunction
  <2> HIDE DEF N
  <2> DEFINE g == [i \in 1..(N + 1) |-> IF i = 1 THEN s ELSE s \o f[i - 1]]
  <2>2. g[1] = s /\ \A i \in 2..(N + 1) : g[i] = s \o f[i - 1]
    BY <1>0, <1>4
  <2> HIDE DEF g
  <2>3. ASSUME NEW i \in 2..(N + 1) PROVE g[i] = g[i - 1] \o u[i]
    <3>0. i - 1 \in 1..N /\ (i - 1) + 1 = i /\ i \in 2..(N + 1)
      BY <1>0
    <3>1. u[i] = seqs[i - 1]
      BY <1>1, <3>0
    <3>2. CASE i = 2
      <4>1. g[i] = s \o f[1] /\ g[i - 1] = s /\ u[i] = seqs[1]
        BY <2>2, <3>1, <3>2
      <4> QED BY <2>1, <4>1
    <3>3. CASE i # 2
      <4> DEFINE k == i - 1
      <4>1. k \in 2..N /\ k \in 2..(N + 1) /\ k - 1 \in 1..N /\ k \in 1..N
        BY <1>0, <3>0, <3>3
      <4>2. g[i] = s \o f[k] /\ u[i] = seqs[k]
        BY <2>2, <3>1
      <4> HIDE DEF k
      <4>3. g[k] = s \o f[k - 1] /\ f[k] = f[k - 1] \o seqs[k]
        BY <2>1, <2>2, <4>1
      <4> DEFINE a == f[k - 1]
                 b == seqs[k]
      <4>4. a \in Seq(T) /\ b \in Seq(T)
        BY <1>0, <2>1, <4>1
      <4> HIDE DEF a, b
      <4>5. (s \o a) \o b = s \o (a \o b)
        BY ONLY <4>4, s \in Seq(T)
      <4>6. g[i] = g[k] \o seqs[k]
        BY <4>2, <4>3, <4>5 DEF a, b
      <4> QED BY <4>2, <4>6 DEF k
    <3> QED BY <3>2, <3>3
  <2>4. N + 1 \in 1..Len(u)
    BY <1>0, <1>1
  <2>5. g[N + 1] = SX!FlattenSeq(SubSeq(u, 1, N + 1))
    <3>1. u \in Seq(Seq(T)) /\ u # <<>> /\ g[1] = u[1] /\ 2..Len(u) = 2..(N + 1)
      BY <1>1, <2>2
    <3>2. \A i \in 2..Len(u) : g[i] = g[i - 1] \o u[i]
      BY <2>3, <3>1
    <3> QED BY <2>4, <3>1, <3>2, FlattenUnique
  <2>6. g[N + 1] = s \o f[N]
    <3>1. N + 1 \in 2..(N + 1) /\ (N + 1) - 1 = N
      BY <1>0, <1>4
    <3> QED BY <2>2, <3>1
  <2> QED BY <1>2, <2>1, <2>5, <2>6 DEF u
<1> QED
  BY <1>3, <1>4
=============================================================================
