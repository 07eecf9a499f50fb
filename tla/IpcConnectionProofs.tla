------------------------ MODULE IpcConnectionProofs ------------------------
(***************************************************************************)
(* What holds of a connection, for every packet size, every set of         *)
(* requests and texts and however the reads cut the bytes.                 *)
(*                                                                         *)
(* The parser finds in the bytes of a command, with whatever follows, that *)
(* command and its end, and nothing in less (CommandIsFramed).  So the     *)
(* bytes on the way are always those of the requests not yet run           *)
(* (Streamed), from which the others follow.                               *)
(***************************************************************************)
EXTENDS IpcConnection, SumsProofs

(* The two names that FlattenSeq has here *)
LEMMA SameJoin ==
  ASSUME NEW seqs
  PROVE  FlattenSeq(seqs) = SX!FlattenSeq(seqs)
BY DEF FlattenSeq, SX!FlattenSeq

-----------------------------------------------------------------------------
(* Numbers *)

LEMMA WordFacts == Word16 \in Nat \ {0}
BY DEF Word16

(* store_ns() writes two bytes, from which read_ns() computes the number.  *)
LEMMA ShortFacts ==
  ASSUME NEW n \in Nat, n < Word16
  PROVE  /\ Short(n) \in Seq(Byte) /\ Len(Short(n)) = 2
         /\ Short(n)[1] \in Byte /\ Short(n)[2] \in Byte
         /\ Short(n)[1] * 256 + Short(n)[2] = n
<1> DEFINE a == n \div 256
           b == n % 256
<1>1. a \in 0..255
  BY DEF Word16
<1>2. b \in 0..255 /\ a * 256 + b = n
  OBVIOUS
<1>3. a \in Byte /\ b \in Byte
  BY <1>1, <1>2 DEF Byte
<1>4. Short(n) = <<a, b>>
  BY DEF Short
<1> HIDE DEF a, b
<1> QED BY <1>2, <1>3, <1>4

LEMMA DivisionFacts ==
  ASSUME NEW n \in Nat, NEW m \in Nat \ {0}
  PROVE  /\ n \div m \in Nat /\ n % m \in Nat /\ n % m < m
         /\ (n \div m) * m + (n % m) = n
OBVIOUS

(* store_nl() writes four, from which read_nl() computes it. *)
LEMMA LongFacts ==
  ASSUME NEW n \in Nat, IsLength(n)
  PROVE  /\ Long(n) \in Seq(Byte) /\ Len(Long(n)) = 4
         /\ (Long(n)[1] * 256 + Long(n)[2]) * Word16
              + (Long(n)[3] * 256 + Long(n)[4]) = n
<1> DEFINE q == n \div Word16
           r == n % Word16
           s == Short(q)
           t == Short(r)
<1>1. q \in Nat /\ r \in Nat /\ r < Word16 /\ q * Word16 + r = n
  BY WordFacts, DivisionFacts
<1>2. q < Word16
  BY DEF IsLength
<1>3. Long(n) = s \o t
  BY DEF Long
<1> HIDE DEF q, r
<1>4. /\ s \in Seq(Byte) /\ Len(s) = 2 /\ s[1] \in Byte /\ s[2] \in Byte
      /\ s[1] * 256 + s[2] = q
  BY <1>1, <1>2, ShortFacts
<1>5. /\ t \in Seq(Byte) /\ Len(t) = 2 /\ t[1] \in Byte /\ t[2] \in Byte
      /\ t[1] * 256 + t[2] = r
  BY <1>1, ShortFacts
<1> HIDE DEF s, t
<1>6. /\ s \o t \in Seq(Byte) /\ Len(s \o t) = 4
      /\ (s \o t)[1] = s[1] /\ (s \o t)[2] = s[2]
      /\ (s \o t)[3] = t[1] /\ (s \o t)[4] = t[2]
  <2>1. /\ s \o t \in Seq(Byte) /\ Len(s \o t) = Len(s) + Len(t)
        /\ \A i \in 1..Len(s) + Len(t) :
             (s \o t)[i] = IF i <= Len(s) THEN s[i] ELSE t[i - Len(s)]
    BY <1>4, <1>5, ConcatProperties
  <2>2. Len(s) + Len(t) = 4 /\ Len(s) = 2
    BY <1>4, <1>5
  <2> QED BY <2>1, <2>2
<1> QED BY <1>1, <1>3, <1>4, <1>5, <1>6

(* Bytes, and the numbers in them, are naturals. *)
LEMMA NumbersInBytes ==
  ASSUME NEW b \in Seq(Byte), NEW p \in Nat
  PROVE  /\ p + 2 <= Len(b) => ShortAt(b, p) \in Nat
         /\ p + 4 <= Len(b) => LongAt(b, p) \in Nat
<1>1. \A i \in 1..Len(b) : b[i] \in Nat
  <2>1. \A x \in Byte : x \in Nat
    BY DEF Byte
  <2>2. \A i \in 1..Len(b) : b[i] \in Byte
    OBVIOUS
  <2> QED BY <2>1, <2>2
<1>2. ASSUME NEW q \in Nat, q + 2 <= Len(b) PROVE ShortAt(b, q) \in Nat
  <2>1. b[q + 1] \in Nat /\ b[q + 2] \in Nat
    BY <1>1, <1>2
  <2> QED BY <2>1 DEF ShortAt
<1>3. ASSUME p + 4 <= Len(b) PROVE LongAt(b, p) \in Nat
  <2>1. ShortAt(b, p) \in Nat /\ ShortAt(b, p + 2) \in Nat
    BY <1>2, <1>3
  <2> QED BY <2>1, WordFacts DEF LongAt
<1> QED BY <1>2, <1>3

-----------------------------------------------------------------------------
(* Where the arguments end *)

LEMMA NextEndType ==
  ASSUME NEW b \in Seq(Byte), NEW e \in Nat
  PROVE  NextEnd(b, e) \in Nat
<1>1. CASE e = 0 \/ Len(b) < e + 4
  BY <1>1 DEF NextEnd
<1>2. CASE ~ (e = 0 \/ Len(b) < e + 4)
  <2>1. LongAt(b, e) \in Nat
    BY <1>2, NumbersInBytes
  <2> QED BY <2>1 DEF NextEnd
<1> QED BY <1>1, <1>2

(* The recursive function inside ArgEnd exists. *)
LEMMA ArgEndFunction ==
  ASSUME NEW b \in Seq(Byte), NEW k \in Nat
  PROVE  \E f \in [0..k -> Nat] :
           /\ f[0] = 4
           /\ \A i \in 1..k : f[i] = NextEnd(b, f[i - 1])
           /\ ArgEnd(b, k) = f[k]
<1> DEFINE Def(f, n) == f = [i \in 0..n |-> IF i = 0 THEN 4 ELSE NextEnd(b, f[i - 1])]
           P == {n \in 0..k : \E f \in [0..n -> Nat] : Def(f, n)}
<1>1. 0 \in P
  <2> DEFINE z == [i \in 0..0 |-> 4]
  <2>1. z \in [0..0 -> Nat] /\ Def(z, 0)
    OBVIOUS
  <2>2. \E f \in [0..0 -> Nat] : Def(f, 0)
    <3> HIDE DEF z, Def
    <3> QED BY <2>1
  <2> QED BY <2>2
<1>2. ASSUME NEW n \in Nat, n < k, n \in P
      PROVE  n + 1 \in P
  <2>1. PICK f \in [0..n -> Nat] : Def(f, n)
    BY <1>2
  <2>0. NextEnd(b, f[n]) \in Nat
    BY NextEndType
  <2> DEFINE g == [i \in 0..(n + 1) |-> IF i = n + 1 THEN NextEnd(b, f[n]) ELSE f[i]]
  <2>2. \A i \in 0..n : f[i] = IF i = 0 THEN 4 ELSE NextEnd(b, f[i - 1])
    BY <2>1
  <2>3. g \in [0..(n + 1) -> Nat]
    BY <1>2, <2>0
  <2>4. \A i \in 0..(n + 1) : g[i] = IF i = 0 THEN 4 ELSE NextEnd(b, g[i - 1])
    BY <2>2
  <2>5. Def(g, n + 1)
    BY <2>4
  <2>6. \E h \in [0..(n + 1) -> Nat] : Def(h, n + 1)
    <3> HIDE DEF g, Def
    <3> QED BY <2>3, <2>5
  <2>7. n + 1 \in 0..k
    BY <1>2
  <2> HIDE DEF Def
  <2> QED BY <2>6, <2>7
<1>3. k \in P
  <2> HIDE DEF P
  <2>2. \A n \in Nat : n < k /\ n \in P => n + 1 \in P
    BY <1>2
  <2>3. \A n \in 0..k : n \in P
    BY <1>1, <2>2, NatSetInduction
  <2> QED BY <2>3
<1>4. PICK f \in [0..k -> Nat] : Def(f, k)
  BY <1>3
<1> DEFINE h == CHOOSE j : Def(j, k)
<1>5. Def(h, k)
  BY <1>4
<1>6. ArgEnd(b, k) = h[k]
  BY DEF ArgEnd
<1>7. h[0] = 4 /\ \A i \in 1..k : h[i] = NextEnd(b, h[i - 1])
  <2> HIDE DEF h
  <2>1. \A i \in 0..k : h[i] = IF i = 0 THEN 4 ELSE NextEnd(b, h[i - 1])
    BY ONLY <1>5
  <2>2. 0 \in 0..k /\ \A i \in 1..k : i \in 0..k /\ i # 0
    OBVIOUS
  <2> QED BY ONLY <2>1, <2>2
<1>8. h \in [0..k -> Nat]
  <2> DEFINE Q == {n \in 0..k : h[n] \in Nat}
  <2>1. 0 \in Q
    BY <1>7
  <2>2. \A n \in Nat : n < k /\ n \in Q => n + 1 \in Q
    <3> SUFFICES ASSUME NEW n \in Nat, n < k, h[n] \in Nat
                 PROVE  h[n + 1] \in Nat /\ n + 1 \in 0..k
      OBVIOUS
    <3> HIDE DEF h
    <3>1. n + 1 \in 1..k /\ (n + 1) - 1 = n /\ n + 1 \in 0..k
      OBVIOUS
    <3>2. h[n + 1] = NextEnd(b, h[n])
      BY <1>7, <3>1
    <3> QED BY <3>1, <3>2, NextEndType
  <2>3. \A n \in 0..k : n \in Q
    <3> HIDE DEF Q
    <3> QED BY <2>1, <2>2, NatSetInduction
  <2>4. \A n \in 0..k : h[n] \in Nat
    BY <2>3
  <2> HIDE DEF h
  <2> QED BY <1>5, <2>4
<1> HIDE DEF h, Def
<1> QED
  BY <1>6, <1>7, <1>8

(* The end of one more argument is found from the end of the one before. *)
LEMMA ArgEndStep ==
  ASSUME NEW b \in Seq(Byte), NEW k \in Nat
  PROVE  /\ ArgEnd(b, 0) = 4
         /\ ArgEnd(b, k) \in Nat
         /\ ArgEnd(b, k + 1) = NextEnd(b, ArgEnd(b, k))
<1>1. PICK z \in [0..0 -> Nat] : z[0] = 4 /\ ArgEnd(b, 0) = z[0]
  BY ArgEndFunction
<1>2. PICK f \in [0..k -> Nat] :
           /\ f[0] = 4
           /\ \A i \in 1..k : f[i] = NextEnd(b, f[i - 1])
           /\ ArgEnd(b, k) = f[k]
  BY ArgEndFunction
<1>3. k + 1 \in Nat
  OBVIOUS
<1>4. PICK g \in [0..(k + 1) -> Nat] :
           /\ g[0] = 4
           /\ \A i \in 1..(k + 1) : g[i] = NextEnd(b, g[i - 1])
           /\ ArgEnd(b, k + 1) = g[k + 1]
  BY <1>3, ArgEndFunction
<1> DEFINE Q == {i \in 0..k : g[i] = f[i]}
<1>5. 0 \in Q
  BY <1>2, <1>4
<1>6. \A i \in Nat : i < k /\ i \in Q => i + 1 \in Q
  <2> SUFFICES ASSUME NEW i \in Nat, i < k, g[i] = f[i]
               PROVE  i + 1 \in 0..k /\ g[i + 1] = f[i + 1]
    OBVIOUS
  <2>1. i + 1 \in 1..k /\ i + 1 \in 1..(k + 1) /\ (i + 1) - 1 = i /\ i + 1 \in 0..k
    OBVIOUS
  <2>2. g[i + 1] = NextEnd(b, g[i]) /\ f[i + 1] = NextEnd(b, f[i])
    BY <1>2, <1>4, <2>1
  <2> QED BY <2>1, <2>2
<1>7. \A i \in 0..k : i \in Q
  <2> HIDE DEF Q
  <2> QED BY <1>5, <1>6, NatSetInduction
<1>8. g[k] = f[k]
  BY <1>7
<1>9. g[k + 1] = NextEnd(b, g[k])
  BY <1>3, <1>4
<1> QED BY <1>1, <1>2, <1>4, <1>8, <1>9

-----------------------------------------------------------------------------
(* Sequences that are joined: what the first k give is where it was when   *)
(* the others follow.                                                      *)

Joined(seqs, k) == SX!FlattenSeq(SubSeq(seqs, 1, k))

LEMMA JoinedStep ==
  ASSUME NEW T, NEW seqs \in Seq(Seq(T)), NEW k \in Nat, k <= Len(seqs)
  PROVE  /\ Joined(seqs, k) \in Seq(T)
         /\ Joined(seqs, 0) = <<>>
         /\ k < Len(seqs) => Joined(seqs, k + 1) = Joined(seqs, k) \o seqs[k + 1]
         /\ Joined(seqs, Len(seqs)) = SX!FlattenSeq(seqs)
<1> DEFINE p == SubSeq(seqs, 1, k)
<1>1. p \in Seq(Seq(T)) /\ Len(p) = k /\ \A i \in 1..k : p[i] = seqs[i]
  OBVIOUS
<1>2. Joined(seqs, k) \in Seq(T)
  BY <1>1, FlattenType DEF Joined
<1>3. Joined(seqs, 0) = <<>>
  <2>1. SubSeq(seqs, 1, 0) = <<>>
    BY SubSeqEmpty
  <2> QED BY <2>1, FlattenEmpty DEF Joined
<1>4. ASSUME k < Len(seqs)
      PROVE  Joined(seqs, k + 1) = Joined(seqs, k) \o seqs[k + 1]
  <2> DEFINE n == k + 1
             q == SubSeq(seqs, 1, n)
             x == seqs[n]
  <2>1. n \in 1..Len(seqs) /\ n - 1 = k /\ x \in Seq(T)
    BY <1>4
  <2>2. q = SubSeq(seqs, 1, n - 1) \o <<seqs[n]>>
    <3>1. 1 \in 1..Len(seqs) /\ n \in 1..Len(seqs)
      BY <2>1
    <3> HIDE DEF n
    <3> QED BY <3>1, SubSeqRecursiveSecond
  <2>3. q = p \o <<x>>
    BY <2>1, <2>2
  <2>4. q = Append(p, x)
    <3> HIDE DEF p, q, x
    <3> QED BY <1>1, <2>1, <2>3, AppendIsConcat
  <2>5. SX!FlattenSeq(Append(p, x)) = SX!FlattenSeq(p) \o x
    <3> HIDE DEF p, x
    <3> QED BY <1>1, <2>1, FlattenAppend
  <2> QED BY <2>4, <2>5 DEF Joined
<1>5. Joined(seqs, Len(seqs)) = SX!FlattenSeq(seqs)
  BY SubSeqFull DEF Joined
<1> QED BY <1>2, <1>3, <1>4, <1>5

LEMMA JoinedKeeps ==
  ASSUME NEW T, NEW seqs \in Seq(Seq(T)), NEW k \in Nat, k <= Len(seqs)
  PROVE  /\ Len(Joined(seqs, k)) <= Len(SX!FlattenSeq(seqs))
         /\ \A j \in 1..Len(Joined(seqs, k)) :
              SX!FlattenSeq(seqs)[j] = Joined(seqs, k)[j]
<1> DEFINE N == Len(seqs)
           a == Joined(seqs, k)
           L == Len(a)
           Q == {m \in 0..N : m >= k =>
                   /\ L <= Len(Joined(seqs, m))
                   /\ \A j \in 1..L : Joined(seqs, m)[j] = a[j]}
<1>0. N \in Nat /\ a \in Seq(T) /\ L \in Nat
  BY JoinedStep
<1>1. 0 \in Q
  BY <1>0
<1>2. ASSUME NEW m \in Nat, m < N, m \in Q PROVE m + 1 \in Q
  <2> DEFINE u == Joined(seqs, m)
             v == Joined(seqs, m + 1)
             x == seqs[m + 1]
  <2>1. u \in Seq(T) /\ x \in Seq(T) /\ v = u \o x
    BY <1>2, JoinedStep
  <2>2. CASE m + 1 = k
    BY <1>0, <1>2, <2>2
  <2>3. CASE m >= k
    <3>1. L <= Len(u) /\ \A j \in 1..L : u[j] = a[j]
      BY <1>2, <2>3
    <3> HIDE DEF u, v, x, a, L
    <3>2. Len(v) >= Len(u) /\ \A j \in 1..Len(u) : v[j] = u[j]
      BY <2>1
    <3>3. Len(u) \in Nat /\ Len(v) \in Nat
      BY <2>1
    <3>4. L <= Len(v) /\ \A j \in 1..L : v[j] = a[j]
      BY <1>0, <3>1, <3>2, <3>3
    <3> QED BY <1>2, <3>4 DEF v, a, L
  <2>4. CASE m + 1 < k
    BY <1>2, <2>4
  <2> QED BY <1>2, <2>2, <2>3, <2>4
<1>3. \A m \in 0..N : m \in Q
  <2>1. \A m \in Nat : m < N /\ m \in Q => m + 1 \in Q
    BY <1>2
  <2> HIDE DEF Q, N
  <2> QED BY <1>0, <1>1, <2>1, NatSetInduction
<1>4. N \in Q
  BY <1>0, <1>3
<1>5. Joined(seqs, N) = SX!FlattenSeq(seqs)
  BY JoinedStep
<1> QED BY <1>4, <1>5

-----------------------------------------------------------------------------
(* The bytes of a command *)

LEMMA CommandFacts ==
  ASSUME NEW c \in Command
  PROVE  /\ c.code \in Nat /\ c.code < Word16
         /\ c.args \in Seq(Seq(Byte))
         /\ Len(c.args) \in Nat /\ Len(c.args) < Word16
         /\ \A i \in 1..Len(c.args) :
              c.args[i] \in Seq(Byte) /\ Len(c.args[i]) \in Nat /\ IsLength(Len(c.args[i]))
         /\ c = [code |-> c.code, args |-> c.args]
<1> DEFINE S == Seq(Byte)
           C == 0..Word16 - 1
<1>1. c \in [code : C, args : Seq(S)]
  BY DEF Command
<1>2. Len(c.args) < Word16 /\ \A i \in 1..Len(c.args) : IsLength(Len(c.args[i]))
  BY DEF Command
<1>3. c.code \in C => c.code \in Nat /\ c.code < Word16
  BY WordFacts
<1> HIDE DEF S, C
<1>4. c.code \in C /\ c.args \in Seq(S) /\ c = [code |-> c.code, args |-> c.args]
  BY <1>1
<1>5. Len(c.args) \in Nat /\ \A i \in 1..Len(c.args) : c.args[i] \in S
  BY <1>4
<1>6. \A x \in S : Len(x) \in Nat
  BY DEF S
<1> QED BY <1>2, <1>3, <1>4, <1>5, <1>6 DEF S

(* An argument is its length and its bytes. *)
Frames(c) == [i \in 1..Len(c.args) |-> Long(Len(c.args[i])) \o c.args[i]]

LEMMA FramesFacts ==
  ASSUME NEW c \in Command
  PROVE  /\ Frames(c) \in Seq(Seq(Byte)) /\ Len(Frames(c)) = Len(c.args)
         /\ \A i \in 1..Len(c.args) :
              /\ Frames(c)[i] \in Seq(Byte)
              /\ Len(Frames(c)[i]) = 4 + Len(c.args[i])
              /\ (Frames(c)[i][1] * 256 + Frames(c)[i][2]) * Word16
                   + (Frames(c)[i][3] * 256 + Frames(c)[i][4]) = Len(c.args[i])
              /\ \A j \in 1..Len(c.args[i]) : Frames(c)[i][4 + j] = c.args[i][j]
<1> DEFINE n == Len(c.args)
<1>1. n \in Nat /\ \A i \in 1..n : /\ c.args[i] \in Seq(Byte)
                                   /\ Len(c.args[i]) \in Nat /\ IsLength(Len(c.args[i]))
  BY CommandFacts
<1> HIDE DEF n
<1>2. ASSUME NEW i \in 1..n
      PROVE  /\ Frames(c)[i] \in Seq(Byte)
             /\ Len(Frames(c)[i]) = 4 + Len(c.args[i])
             /\ (Frames(c)[i][1] * 256 + Frames(c)[i][2]) * Word16
                  + (Frames(c)[i][3] * 256 + Frames(c)[i][4]) = Len(c.args[i])
             /\ \A j \in 1..Len(c.args[i]) : Frames(c)[i][4 + j] = c.args[i][j]
  <2> DEFINE x == c.args[i]
             L == Len(x)
             h == Long(L)
             f == Frames(c)[i]
  <2>1. f = h \o x
    BY DEF Frames, n
  <2>2. x \in Seq(Byte) /\ L \in Nat /\ IsLength(L)
    BY <1>1
  <2>3. L = Len(x)
    OBVIOUS
  <2> HIDE DEF x, L
  <2>4. h \in Seq(Byte) /\ Len(h) = 4
        /\ (h[1] * 256 + h[2]) * Word16 + (h[3] * 256 + h[4]) = L
    BY <2>2, LongFacts
  <2> HIDE DEF h
  <2>5. /\ h \o x \in Seq(Byte) /\ Len(h \o x) = Len(h) + Len(x)
        /\ \A j \in 1..Len(h) + Len(x) :
             (h \o x)[j] = IF j <= Len(h) THEN h[j] ELSE x[j - Len(h)]
    BY <2>2, <2>4, ConcatProperties
  <2> HIDE DEF f
  <2>6. f \in Seq(Byte) /\ Len(f) = 4 + L
        /\ \A j \in 1..4 + L : f[j] = IF j <= 4 THEN h[j] ELSE x[j - 4]
    BY <2>1, <2>3, <2>4, <2>5
  <2>7. f[1] = h[1] /\ f[2] = h[2] /\ f[3] = h[3] /\ f[4] = h[4]
    BY <2>2, <2>6
  <2>8. \A j \in 1..L : f[4 + j] = x[j]
    BY <2>2, <2>6
  <2> QED BY <2>4, <2>6, <2>7, <2>8 DEF f, x, L
<1>3. Frames(c) = [i \in 1..n |-> Frames(c)[i]]
  BY DEF Frames, n
<1>4. Frames(c) \in [1..n -> Seq(Byte)]
  BY <1>2, <1>3
<1>5. Frames(c) \in Seq(Seq(Byte)) /\ Len(Frames(c)) = n
  BY <1>1, <1>4
<1> QED BY <1>2, <1>5 DEF n

(* Where the first k arguments end in the bytes of a command *)
EndIn(c, k) == 4 + Len(Joined(Frames(c), k))

(* The bytes of a command are the code, the number of arguments, and the   *)
(* arguments behind each other.                                            *)
LEMMA EncodedFacts ==
  ASSUME NEW c \in Command
  PROVE  /\ Encoded(c) \in Seq(Byte) /\ Len(Encoded(c)) >= 4
         /\ Encoded(c)[1] * 256 + Encoded(c)[2] = c.code
         /\ Encoded(c)[3] * 256 + Encoded(c)[4] = Len(c.args)
         /\ EndIn(c, 0) = 4 /\ EndIn(c, Len(c.args)) = Len(Encoded(c))
         /\ \A k \in 0..Len(c.args) : EndIn(c, k) \in Nat /\ EndIn(c, k) >= 4
         /\ \A k \in 1..Len(c.args) :
              /\ EndIn(c, k) = EndIn(c, k - 1) + 4 + Len(c.args[k])
              /\ EndIn(c, k) <= Len(Encoded(c))
              /\ \A j \in 1..(4 + Len(c.args[k])) :
                   Encoded(c)[EndIn(c, k - 1) + j] = Frames(c)[k][j]
<1> DEFINE n == Len(c.args)
           F == Frames(c)
           J == SX!FlattenSeq(F)
           s == Short(c.code)
           t == Short(n)
           h == s \o t
           e == Encoded(c)
<1>0. F \in Seq(Seq(Byte)) /\ Len(F) = n /\ n \in Nat
  BY CommandFacts, FramesFacts
<1>1. J \in Seq(Byte)
  BY <1>0, FlattenType
<1>2. /\ s \in Seq(Byte) /\ Len(s) = 2 /\ s[1] * 256 + s[2] = c.code
      /\ t \in Seq(Byte) /\ Len(t) = 2 /\ t[1] * 256 + t[2] = n
  BY CommandFacts, ShortFacts
<1>3. e = h \o J
  BY SameJoin DEF Encoded, Frames
<1> HIDE DEF s, t, e, J
<1>4. /\ h \in Seq(Byte) /\ Len(h) = 4
      /\ h[1] = s[1] /\ h[2] = s[2] /\ h[3] = t[1] /\ h[4] = t[2]
  <2>0. s \in Seq(Byte) /\ t \in Seq(Byte)
    BY <1>2
  <2>1. /\ h \in Seq(Byte) /\ Len(h) = Len(s) + Len(t)
        /\ \A i \in 1..Len(s) + Len(t) :
             h[i] = IF i <= Len(s) THEN s[i] ELSE t[i - Len(s)]
    BY ONLY <2>0, ConcatProperties
  <2> HIDE DEF h
  <2>2. Len(s) + Len(t) = 4 /\ Len(s) = 2
    BY <1>2
  <2> QED BY <2>1, <2>2
<1> HIDE DEF h
<1>5. /\ e \in Seq(Byte) /\ Len(e) = 4 + Len(J) /\ Len(J) \in Nat
      /\ \A i \in 1..4 : e[i] = h[i]
      /\ \A i \in 1..Len(J) : e[4 + i] = J[i]
  <2>1. /\ h \o J \in Seq(Byte) /\ Len(h \o J) = Len(h) + Len(J)
        /\ \A i \in 1..Len(h) + Len(J) :
             (h \o J)[i] = IF i <= Len(h) THEN h[i] ELSE J[i - Len(h)]
    BY <1>1, <1>4, ConcatProperties
  <2>2. Len(J) \in Nat
    BY <1>1
  <2> QED BY <1>3, <1>4, <2>1, <2>2
<1>6. e[1] = s[1] /\ e[2] = s[2] /\ e[3] = t[1] /\ e[4] = t[2]
  BY <1>4, <1>5
<1>7. EndIn(c, 0) = 4 /\ EndIn(c, n) = Len(e)
  <2>1. Joined(F, 0) = <<>> /\ Joined(F, n) = J
    BY <1>0, JoinedStep DEF J
  <2> QED BY <1>5, <2>1 DEF EndIn
<1>8. \A k \in 0..n : EndIn(c, k) \in Nat /\ EndIn(c, k) >= 4
  <2> SUFFICES ASSUME NEW k \in 0..n PROVE EndIn(c, k) \in Nat /\ EndIn(c, k) >= 4
    OBVIOUS
  <2>1. Joined(F, k) \in Seq(Byte)
    BY <1>0, JoinedStep
  <2> QED BY <2>1 DEF EndIn
<1>9. ASSUME NEW k \in 1..n
      PROVE  /\ EndIn(c, k) = EndIn(c, k - 1) + 4 + Len(c.args[k])
             /\ EndIn(c, k) <= Len(e)
             /\ \A j \in 1..(4 + Len(c.args[k])) : e[EndIn(c, k - 1) + j] = F[k][j]
  <2> DEFINE m == k - 1
             u == Joined(F, m)
             v == Joined(F, k)
             x == F[k]
             L == Len(c.args[k])
  <2>1. m \in Nat /\ m < n /\ m + 1 = k /\ k \in Nat /\ k <= n
    BY <1>0
  <2>2. u \in Seq(Byte) /\ v = u \o x
    <3> HIDE DEF m, n, F
    <3>1. Joined(F, m + 1) = u \o F[m + 1]
      BY <1>0, <2>1, JoinedStep
    <3>2. u \in Seq(Byte)
      BY <1>0, <2>1, JoinedStep
    <3> QED BY <2>1, <3>1, <3>2
  <2>3. Len(v) <= Len(J) /\ \A j \in 1..Len(v) : J[j] = v[j]
    BY <1>0, <2>1, JoinedKeeps DEF J
  <2>4. x \in Seq(Byte) /\ Len(x) = 4 + L /\ L \in Nat
    BY CommandFacts, FramesFacts
  <2>5. EndIn(c, k - 1) = 4 + Len(u) /\ EndIn(c, k) = 4 + Len(v)
    BY DEF EndIn
  <2> HIDE DEF u, v, x, L, m, F
  <2>6. /\ v \in Seq(Byte) /\ Len(v) = Len(u) + Len(x)
        /\ \A j \in 1..Len(u) + Len(x) :
             v[j] = IF j <= Len(u) THEN u[j] ELSE x[j - Len(u)]
    BY <2>2, <2>4, ConcatProperties
  <2>7. Len(u) \in Nat
    BY <2>2
  <2>8. ASSUME NEW j \in 1..(4 + L) PROVE e[EndIn(c, k - 1) + j] = x[j]
    <3> DEFINE i == Len(u) + j
    <3>1. i \in 1..Len(v) /\ i \in 1..Len(J) /\ i - Len(u) = j /\ ~ (i <= Len(u))
          /\ i \in 1..Len(u) + Len(x)
      BY <1>5, <2>3, <2>4, <2>6, <2>7
    <3>2. EndIn(c, k - 1) + j = 4 + i
      BY <2>5, <2>7
    <3> HIDE DEF i
    <3>3. e[4 + i] = J[i] /\ J[i] = v[i] /\ v[i] = x[j]
      BY <1>5, <2>3, <2>6, <3>1
    <3> QED BY <3>2, <3>3
  <2>9. EndIn(c, k) = EndIn(c, k - 1) + 4 + L /\ EndIn(c, k) <= Len(e)
    BY <1>5, <2>3, <2>4, <2>5, <2>6, <2>7
  <2> QED BY <2>8, <2>9 DEF L, x
<1>10. Len(e) >= 4
  BY <1>5
<1> HIDE DEF F
<1> QED BY <1>2, <1>5, <1>6, <1>7, <1>8, <1>9, <1>10 DEF e, F, n

-----------------------------------------------------------------------------
(* The parser *)

(* The bytes are those of the command, as far as both go. *)
Agrees(b, c) ==
  \A i \in 1..Len(b) : i <= Len(Encoded(c)) => b[i] = Encoded(c)[i]

LEMMA ArgEndInCommand ==
  ASSUME NEW c \in Command, NEW b \in Seq(Byte), Agrees(b, c), Len(b) >= 4
  PROVE  \A k \in 0..Len(c.args) :
           ArgEnd(b, k) = IF EndIn(c, k) <= Len(b) THEN EndIn(c, k) ELSE 0
<1> DEFINE n == Len(c.args)
           B == Len(b)
           e == Encoded(c)
           f == Frames(c)
           Q == {k \in 0..n :
                   ArgEnd(b, k) = IF EndIn(c, k) <= B THEN EndIn(c, k) ELSE 0}
<1>0. n \in Nat /\ B \in Nat /\ B >= 4
  BY CommandFacts
<1>1. /\ e \in Seq(Byte) /\ EndIn(c, 0) = 4
      /\ \A k \in 0..n : EndIn(c, k) \in Nat /\ EndIn(c, k) >= 4
      /\ \A k \in 1..n : /\ EndIn(c, k) = EndIn(c, k - 1) + 4 + Len(c.args[k])
                         /\ EndIn(c, k) <= Len(e)
                         /\ \A j \in 1..(4 + Len(c.args[k])) :
                              e[EndIn(c, k - 1) + j] = f[k][j]
  BY EncodedFacts
<1>2. \A i \in 1..B : i <= Len(e) => b[i] = e[i]
  BY DEF Agrees
<1>3. \A k \in 1..n :
        /\ Len(c.args[k]) \in Nat
        /\ (f[k][1] * 256 + f[k][2]) * Word16 + (f[k][3] * 256 + f[k][4]) = Len(c.args[k])
  BY CommandFacts, FramesFacts, SMTT(30)
<1>4. Len(e) \in Nat
  BY <1>1
<1>5. 0 \in Q
  <2>1. ArgEnd(b, 0) = 4
    BY ArgEndStep
  <2> QED BY <1>0, <1>1, <2>1
<1> HIDE DEF n, B, e, f
<1>6. ASSUME NEW m \in Nat, m < n, m \in Q PROVE m + 1 \in Q
  <2> DEFINE k == m + 1
             x == EndIn(c, m)
             y == EndIn(c, k)
             L == Len(c.args[k])
  <2>1. k \in 1..n /\ k - 1 = m /\ m \in 0..n /\ k \in 0..n
    BY <1>0, <1>6
  <2>2. ArgEnd(b, k) = NextEnd(b, ArgEnd(b, m))
    BY ArgEndStep
  <2>3. x \in Nat /\ x >= 4 /\ y \in Nat /\ L \in Nat
    BY <1>1, <1>3, <2>1
  <2>4. /\ y = x + 4 + L /\ y <= Len(e)
        /\ \A j \in 1..(4 + L) : e[x + j] = f[k][j]
    <3> HIDE DEF k
    <3> QED BY <1>1, <2>1
  <2>5. (f[k][1] * 256 + f[k][2]) * Word16 + (f[k][3] * 256 + f[k][4]) = L
    <3> HIDE DEF k
    <3> QED BY <1>3, <2>1
  <2>6. ArgEnd(b, m) = IF x <= B THEN x ELSE 0
    BY <1>6
  <2> HIDE DEF k, x, y, L
  <2>7. CASE x > B
    <3>1. ArgEnd(b, m) = 0
      BY <1>0, <2>3, <2>6, <2>7
    <3>2. ArgEnd(b, k) = 0
      BY <2>2, <3>1 DEF NextEnd
    <3>3. y > B
      BY <1>0, <2>3, <2>4, <2>7
    <3>4. ArgEnd(b, k) = IF y <= B THEN y ELSE 0
      BY <1>0, <2>3, <3>2, <3>3
    <3> QED BY <2>1, <3>4 DEF k, y
  <2>8. CASE x <= B /\ B < x + 4
    <3>1. ArgEnd(b, k) = NextEnd(b, x)
      BY <2>2, <2>6, <2>8
    <3>2. ArgEnd(b, k) = 0
      BY <2>8, <3>1 DEF NextEnd, B
    <3>3. y > B
      BY <1>0, <2>3, <2>4, <2>8
    <3>4. ArgEnd(b, k) = IF y <= B THEN y ELSE 0
      BY <1>0, <2>3, <3>2, <3>3
    <3> QED BY <2>1, <3>4 DEF k, y
  <2>9. CASE x + 4 <= B
    <3>1. ArgEnd(b, k) = NextEnd(b, x)
      <4>1. x <= B
        BY <1>0, <2>3, <2>9
      <4> QED BY <2>2, <2>6, <4>1
    <3>2. ASSUME NEW j \in 1..4 PROVE b[x + j] = f[k][j]
      <4>1. x + j \in 1..B /\ x + j <= Len(e) /\ j \in 1..(4 + L)
        BY <1>0, <1>4, <2>3, <2>4, <2>9
      <4> QED BY <1>2, <2>4, <4>1
    <3>3. b[x + 1] = f[k][1] /\ b[x + 2] = f[k][2] /\ b[x + 3] = f[k][3] /\ b[x + 4] = f[k][4]
      BY <3>2
    <3>4. LongAt(b, x) = L
      <4>1. (x + 2) + 1 = x + 3 /\ (x + 2) + 2 = x + 4
        BY <2>3
      <4>2. ShortAt(b, x) = f[k][1] * 256 + f[k][2]
        BY <3>3 DEF ShortAt
      <4>3. ShortAt(b, x + 2) = f[k][3] * 256 + f[k][4]
        BY <3>3, <4>1 DEF ShortAt
      <4> QED BY <2>5, <4>2, <4>3 DEF LongAt
    <3>5. ~ (x = 0 \/ B < x + 4)
      BY <1>0, <2>3, <2>9
    <3>6. ArgEnd(b, k) = IF B < y THEN 0 ELSE y
      BY <2>4, <3>1, <3>4, <3>5 DEF NextEnd, B
    <3>7. ArgEnd(b, k) = IF y <= B THEN y ELSE 0
      BY <1>0, <2>3, <3>6
    <3> QED BY <2>1, <3>7 DEF k, y
  <2> QED BY <1>0, <2>3, <2>7, <2>8, <2>9
<1>7. \A k \in 0..n : k \in Q
  <2>1. \A m \in Nat : m < n /\ m \in Q => m + 1 \in Q
    BY <1>6
  <2> HIDE DEF Q
  <2> QED BY <1>0, <1>5, <2>1, NatSetInduction
<1> QED BY <1>7 DEF n, B

(* ipc_cmd_is_complete() finds the end of a command when all of it is      *)
(* there, whatever follows, and nothing before that; then ipc_cmd_get()    *)
(* and ipc_cmd_get_arg() return what was sent.                             *)
LEMMA CommandIsFramed ==
  ASSUME NEW c \in Command, NEW b \in Seq(Byte), Agrees(b, c)
  PROVE  /\ CommandLength(b) = IF Len(Encoded(c)) <= Len(b) THEN Len(Encoded(c)) ELSE 0
         /\ Len(Encoded(c)) <= Len(b) => Decoded(b) = c
<1> DEFINE n == Len(c.args)
           B == Len(b)
           e == Encoded(c)
           f == Frames(c)
           E == Len(e)
<1>0. n \in Nat /\ B \in Nat
  BY CommandFacts
<1>1. /\ e \in Seq(Byte) /\ E >= 4 /\ E \in Nat
      /\ e[1] * 256 + e[2] = c.code /\ e[3] * 256 + e[4] = n
      /\ EndIn(c, 0) = 4 /\ EndIn(c, n) = E
      /\ \A k \in 0..n : EndIn(c, k) \in Nat /\ EndIn(c, k) >= 4
      /\ \A k \in 1..n : /\ EndIn(c, k) = EndIn(c, k - 1) + 4 + Len(c.args[k])
                         /\ EndIn(c, k) <= E
                         /\ \A j \in 1..(4 + Len(c.args[k])) :
                              e[EndIn(c, k - 1) + j] = f[k][j]
  BY EncodedFacts
<1>2. \A i \in 1..B : i <= E => b[i] = e[i]
  BY DEF Agrees
<1> HIDE DEF e, E, f
<1>3. CASE B < 4
  <2>1. CommandLength(b) = 0
    BY <1>3 DEF CommandLength
  <2> QED BY <1>0, <1>1, <1>3, <2>1 DEF e, E
<1>4. CASE B >= 4
  <2>1. b[1] = e[1] /\ b[2] = e[2] /\ b[3] = e[3] /\ b[4] = e[4]
    BY <1>0, <1>1, <1>2, <1>4
  <2>2. ShortAt(b, 2) = n /\ ShortAt(b, 0) = c.code
    <3>1. 2 + 1 = 3 /\ 2 + 2 = 4 /\ 0 + 1 = 1 /\ 0 + 2 = 2
      OBVIOUS
    <3> HIDE DEF n
    <3>2. ShortAt(b, 2) = b[3] * 256 + b[4] /\ ShortAt(b, 0) = b[1] * 256 + b[2]
      BY <3>1 DEF ShortAt
    <3> QED BY <1>1, <2>1, <3>2
  <2>3. \A k \in 0..n : ArgEnd(b, k) = IF EndIn(c, k) <= B THEN EndIn(c, k) ELSE 0
    BY <1>4, ArgEndInCommand
  <2>4. CommandLength(b) = IF E <= B THEN E ELSE 0
    <3>1. CommandLength(b) = ArgEnd(b, n)
      <4> HIDE DEF n
      <4> QED BY <1>0, <1>4, <2>2 DEF CommandLength
    <3>2. n \in 0..n
      BY <1>0
    <3> HIDE DEF n
    <3> QED BY <1>1, <2>3, <3>1, <3>2
  <2>5. ASSUME E <= B PROVE Decoded(b) = c
    <3> DEFINE arg(i) == SubSeq(b, ArgEnd(b, i - 1) + 5, ArgEnd(b, i))
               got == [i \in 1..n |-> arg(i)]
    <3>1. Decoded(b) = [code |-> c.code, args |-> got]
      <4> HIDE DEF n
      <4> QED BY <2>2 DEF Decoded
    <3>2. ASSUME NEW i \in 1..n PROVE arg(i) = c.args[i]
      <4> DEFINE x == EndIn(c, i - 1)
                 y == EndIn(c, i)
                 a == c.args[i]
                 L == Len(a)
                 g == SubSeq(b, x + 5, y)
      <4>1. i - 1 \in 0..n /\ i \in 0..n
        BY <1>0
      <4>2. x \in Nat /\ y \in Nat /\ x >= 4
        BY <1>1, <4>1
      <4>3. y = x + 4 + L /\ y <= E /\ \A j \in 1..(4 + L) : e[x + j] = f[i][j]
        BY <1>1
      <4>4. a \in Seq(Byte) /\ L \in Nat /\ \A j \in 1..L : f[i][4 + j] = a[j]
        BY CommandFacts, FramesFacts, SMTT(30) DEF f
      <4>5. ArgEnd(b, i - 1) = x /\ ArgEnd(b, i) = y
        <5> HIDE DEF n, B
        <5>1. x <= B /\ y <= B
          <6> HIDE DEF a, x, y, L, g, arg, got
          <6>1. B \in Nat /\ E \in Nat /\ E <= B
            BY <1>0, <1>1, <2>5
          <6> QED BY <4>2, <4>3, <4>4, <6>1
        <5> QED BY <2>3, <4>1, <5>1
      <4>6. arg(i) = g
        BY <4>5
      <4> HIDE DEF a, x, y, L, n, B
      <4>7. \A j \in (x + 5)..y : b[j] \in Byte
        <5>1. \A j \in (x + 5)..y : j \in 1..B
          BY <1>0, <1>1, <2>5, <4>2, <4>3
        <5>2. \A j \in 1..B : b[j] \in Byte
          BY DEF B
        <5> QED BY <5>1, <5>2
      <4>8. /\ g \in Seq(Byte) /\ Len(g) = L
            /\ \A j \in 1..L : g[j] = b[x + 4 + j]
        <5>1. x + 5 \in Int /\ y \in Int
          BY <4>2
        <5>2. /\ g \in Seq(Byte)
              /\ Len(g) = IF x + 5 <= y THEN y - (x + 5) + 1 ELSE 0
              /\ \A j \in 1..(y - (x + 5) + 1) : g[j] = b[(x + 5) + j - 1]
          BY ONLY <4>7, <5>1, SubSeqProperties
        <5> HIDE DEF g
        <5>3. Len(g) = L /\ y - (x + 5) + 1 = L
          BY <4>2, <4>3, <4>4, <5>2
        <5>4. \A j \in 1..L : (x + 5) + j - 1 = x + 4 + j
          BY <4>2, <4>4
        <5> QED BY <5>2, <5>3, <5>4
      <4> HIDE DEF g
      <4>9. ASSUME NEW j \in 1..L PROVE g[j] = a[j]
        <5> DEFINE p == x + 4 + j
        <5>1. p \in 1..B /\ p <= E /\ 4 + j \in 1..(4 + L) /\ x + (4 + j) = p
          BY <1>0, <1>1, <2>5, <4>2, <4>3, <4>4
        <5> HIDE DEF p
        <5>2. b[p] = e[p] /\ e[p] = f[i][4 + j] /\ f[i][4 + j] = a[j]
          BY <1>2, <4>3, <4>4, <5>1
        <5> QED BY <4>8, <5>2 DEF p
      <4>10. L = Len(a)
        BY DEF L
      <4>11. g = a
        BY <4>4, <4>8, <4>9, <4>10, SeqEqual
      <4> QED BY <4>6, <4>11 DEF a
    <3>3. got = c.args
      <4>1. c.args = [i \in 1..n |-> c.args[i]]
        <5> DEFINE s == c.args
                   S == Seq(Byte)
        <5>1. s \in Seq(S)
          BY CommandFacts
        <5> HIDE DEF s, S
        <5>2. s = [i \in 1..Len(s) |-> s[i]]
          BY <5>1
        <5> QED BY <5>2 DEF s
      <4> HIDE DEF arg, n
      <4> QED BY <3>2, <4>1
    <3>4. c = [code |-> c.code, args |-> c.args]
      BY CommandFacts
    <3> HIDE DEF got
    <3> QED BY <3>1, <3>3, <3>4
  <2> QED BY <2>4, <2>5 DEF e, E
<1> QED BY <1>0, <1>3, <1>4

-----------------------------------------------------------------------------
(* The bytes of commands behind each other *)

Wire(cmds) == SX!FlattenSeq([i \in 1..Len(cmds) |-> Encoded(cmds[i])])

LEMMA EncodedAll ==
  ASSUME NEW cmds \in Seq(Command)
  PROVE  [i \in 1..Len(cmds) |-> Encoded(cmds[i])] \in Seq(Seq(Byte))
<1>1. Len(cmds) \in Nat /\ \A i \in 1..Len(cmds) : cmds[i] \in Command
  OBVIOUS
<1>2. \A i \in 1..Len(cmds) : Encoded(cmds[i]) \in Seq(Byte)
  BY <1>1, EncodedFacts
<1> DEFINE n == Len(cmds)
           S == Seq(Byte)
           e == [i \in 1..n |-> Encoded(cmds[i])]
<1>3. e \in [1..n -> S]
  BY <1>2
<1> HIDE DEF n, S, e
<1>4. e \in Seq(S)
  BY <1>1, <1>3 DEF n
<1> QED BY <1>4 DEF n, S, e

LEMMA WireEmpty == Wire(<<>>) = <<>>
<1>1. [i \in 1..Len(<<>>) |-> Encoded(<<>>[i])] = <<>>
  OBVIOUS
<1> QED BY <1>1, FlattenEmpty DEF Wire

LEMMA WireFacts ==
  ASSUME NEW cmds \in Seq(Command), NEW c \in Command
  PROVE  /\ Wire(cmds) \in Seq(Byte)
         /\ Wire(Append(cmds, c)) = Wire(cmds) \o Encoded(c)
         /\ Wire(<<c>> \o cmds) = Encoded(c) \o Wire(cmds)
<1> DEFINE n == Len(cmds)
           x == [i \in 1..n |-> Encoded(cmds[i])]
           e == Encoded(c)
           more == Append(cmds, c)
           y == [i \in 1..Len(more) |-> Encoded(more[i])]
           cons == <<c>> \o cmds
           z == [i \in 1..Len(cons) |-> Encoded(cons[i])]
<1>1. x \in Seq(Seq(Byte)) /\ e \in Seq(Byte) /\ n \in Nat /\ Len(x) = n
      /\ \A i \in 1..n : x[i] = Encoded(cmds[i])
  BY EncodedAll, EncodedFacts
<1>2. Wire(cmds) \in Seq(Byte)
  BY <1>1, FlattenType DEF Wire
<1>3. more \in Seq(Command) /\ Len(more) = n + 1 /\ more[n + 1] = c
      /\ \A i \in 1..n : more[i] = cmds[i]
  BY AppendProperties
<1>4. cons \in Seq(Command) /\ Len(cons) = n + 1 /\ cons[1] = c
      /\ \A i \in 1..n : cons[i + 1] = cmds[i]
  BY ConsFacts
<1>5. y = Append(x, e)
  <2> HIDE DEF more
  <2>1. y \in Seq(Seq(Byte)) /\ Len(y) = n + 1
    BY <1>1, <1>3, EncodedAll
  <2>2. \A i \in 1..(n + 1) : y[i] = Encoded(more[i])
    BY <1>3
  <2> HIDE DEF x, y, e, n
  <2>3. Append(x, e) \in Seq(Seq(Byte)) /\ Len(Append(x, e)) = n + 1
        /\ Append(x, e)[n + 1] = e /\ \A i \in 1..n : Append(x, e)[i] = x[i]
    BY <1>1, AppendProperties
  <2>4. ASSUME NEW i \in 1..(n + 1) PROVE y[i] = Append(x, e)[i]
    <3>1. CASE i = n + 1
      BY <1>3, <2>2, <2>3, <3>1 DEF e
    <3>2. CASE i # n + 1
      <4>1. i \in 1..n
        BY <1>1, <3>2
      <4> QED BY <1>1, <1>3, <2>2, <2>3, <4>1
    <3> QED BY <3>1, <3>2
  <2> QED BY <2>1, <2>3, <2>4, SeqEqual
<1>6. z = <<e>> \o x
  <2> HIDE DEF cons
  <2>1. z \in Seq(Seq(Byte)) /\ Len(z) = n + 1
    <3>1. z \in Seq(Seq(Byte))
      BY <1>4, EncodedAll
    <3>2. Len(cons) \in Nat /\ Len(cons) = n + 1
      BY <1>1, <1>4
    <3>3. Len(z) = Len(cons)
      BY <3>2
    <3> QED BY <3>1, <3>2, <3>3
  <2>2. \A i \in 1..(n + 1) : z[i] = Encoded(cons[i])
    BY <1>4
  <2> HIDE DEF x, z, e, n
  <2>3. <<e>> \o x \in Seq(Seq(Byte)) /\ Len(<<e>> \o x) = n + 1
        /\ (<<e>> \o x)[1] = e /\ \A i \in 1..n : (<<e>> \o x)[i + 1] = x[i]
    BY <1>1, ConsFacts
  <2>4. ASSUME NEW i \in 1..(n + 1) PROVE z[i] = (<<e>> \o x)[i]
    <3>1. CASE i = 1
      BY <1>4, <2>2, <2>3, <3>1 DEF e
    <3>2. CASE i # 1
      <4> DEFINE k == i - 1
      <4>1. k \in 1..n /\ i = k + 1
        BY <1>1, <3>2
      <4> HIDE DEF k
      <4> QED BY <1>1, <1>4, <2>2, <2>3, <4>1
    <3> QED BY <3>1, <3>2
  <2> QED BY <2>1, <2>3, <2>4, SeqEqual
<1> HIDE DEF x, y, z, e
<1>7. Wire(more) = Wire(cmds) \o e
  <2>1. SX!FlattenSeq(y) = SX!FlattenSeq(x) \o e
    BY <1>1, <1>5, FlattenAppend
  <2>2. Wire(more) = SX!FlattenSeq(y) /\ Wire(cmds) = SX!FlattenSeq(x)
    BY DEF Wire, x, y
  <2> QED BY <2>1, <2>2
<1>8. Wire(cons) = e \o Wire(cmds)
  <2>1. SX!FlattenSeq(z) = e \o SX!FlattenSeq(x)
    BY <1>1, <1>6, FlattenCons
  <2>2. Wire(cons) = SX!FlattenSeq(z) /\ Wire(cmds) = SX!FlattenSeq(x)
    BY DEF Wire, x, z
  <2> QED BY <2>1, <2>2
<1> QED BY <1>2, <1>7, <1>8 DEF e

(* A sequence that is not empty is its head and its tail. *)
LEMMA HeadAndTail ==
  ASSUME NEW S, NEW s \in Seq(S), s # <<>>
  PROVE  Head(s) \in S /\ Tail(s) \in Seq(S) /\ s = <<Head(s)>> \o Tail(s)
<1>1. Head(s) \in S /\ Tail(s) \in Seq(S)
  OBVIOUS
<1>2. Len(s) \in Nat /\ Len(s) >= 1
  OBVIOUS
<1>3. 1 \in 1..Len(s) /\ Len(s) \in 1..Len(s)
  BY <1>2
<1>4. SubSeq(s, 1, Len(s)) = <<s[1]>> \o SubSeq(s, 2, Len(s))
  <2>1. 1 + 1 = 2
    OBVIOUS
  <2> QED BY <1>3, <2>1, SubSeqRecursiveFirst
<1>5. SubSeq(s, 1, Len(s)) = s /\ Tail(s) = SubSeq(s, 2, Len(s)) /\ Head(s) = s[1]
  BY SubSeqFull, TailIsSubSeq
<1> QED BY <1>1, <1>4, <1>5

(* Of the bytes of commands, some read and some not: when the parser finds *)
(* a command in what was read, it is the first, and the rest is the rest.  *)
LEMMA FirstCommand ==
  ASSUME NEW todo \in Seq(Command), NEW b \in Seq(Byte), NEW t \in Seq(Byte),
         b \o t = Wire(todo)
  PROVE  /\ CommandLength(b) > 0 =>
              /\ todo # <<>> /\ Decoded(b) = Head(todo)
              /\ Removed(b) \in Seq(Byte)
              /\ Removed(b) \o t = Wire(Tail(todo))
         /\ CommandLength(b) = 0 /\ t = <<>> => todo = <<>>
<1>0. Len(b) \in Nat /\ Len(t) \in Nat
  OBVIOUS
<1>1. CASE todo = <<>>
  <2>1. b \o t = <<>>
    BY <1>1, WireEmpty
  <2>2. b = <<>>
    BY <2>1
  <2>3. CommandLength(b) = 0
    BY <2>2 DEF CommandLength
  <2> QED BY <1>1, <2>3
<1>2. CASE todo # <<>>
  <2> DEFINE c == Head(todo)
             others == Tail(todo)
             e == Encoded(c)
             w == Wire(others)
             E == Len(e)
             B == Len(b)
  <2>1. c \in Command /\ others \in Seq(Command) /\ todo = <<c>> \o others
    BY <1>2, HeadAndTail
  <2> HIDE DEF c, others
  <2>2. b \o t = e \o w /\ e \in Seq(Byte) /\ w \in Seq(Byte) /\ E >= 4
    BY <2>1, WireFacts, EncodedFacts
  <2> HIDE DEF e, w
  <2>3. E \in Nat /\ Len(w) \in Nat /\ B + Len(t) = E + Len(w)
    BY <1>0, <2>2, ConcatProperties
  <2>4. \A i \in 1..(B + Len(t)) : IF i <= B THEN (b \o t)[i] = b[i] ELSE (b \o t)[i] = t[i - B]
    BY ConcatProperties
  <2>5. \A i \in 1..(E + Len(w)) : IF i <= E THEN (e \o w)[i] = e[i] ELSE (e \o w)[i] = w[i - E]
    BY <2>2, ConcatProperties
  <2>6. \A i \in 1..B : i <= E => b[i] = e[i]
    <3> HIDE DEF E, B
    <3> SUFFICES ASSUME NEW i \in 1..B, i <= E PROVE b[i] = e[i]
      OBVIOUS
    <3>1. i \in 1..(B + Len(t)) /\ i \in 1..(E + Len(w)) /\ i <= B
      BY <1>0, <2>3 DEF B
    <3> QED BY <2>2, <2>4, <2>5, <3>1
  <2>7. Agrees(b, c)
    BY <2>6 DEF Agrees, e
  <2>8. /\ CommandLength(b) = IF E <= B THEN E ELSE 0
        /\ E <= B => Decoded(b) = c
    BY <2>1, <2>7, CommandIsFramed DEF e
  <2>9. CommandLength(b) > 0 => E <= B
    <3> HIDE DEF E
    <3> QED BY <2>8
  <2>10. ASSUME E <= B
         PROVE  Removed(b) \in Seq(Byte) /\ Removed(b) \o t = w
    <3> DEFINE r == Removed(b)
    <3>1. r = SubSeq(b, E + 1, B)
      <4> HIDE DEF E
      <4> QED BY <2>8, <2>10 DEF Removed
    <3>2. \A j \in (E + 1)..B : b[j] \in Byte
      <4>1. \A j \in (E + 1)..B : j \in 1..B
        BY <2>2, <2>3
      <4>2. \A j \in 1..B : b[j] \in Byte
        OBVIOUS
      <4> QED BY <4>1, <4>2
    <3> HIDE DEF E, B, r
    <3>3. /\ r \in Seq(Byte) /\ Len(r) = B - E
          /\ \A j \in 1..(B - E) : r[j] = b[E + j]
      <4>1. E + 1 \in Int /\ B \in Int
        BY <1>0, <2>3 DEF B
      <4>2. /\ r \in Seq(Byte) /\ Len(r) = IF E + 1 <= B THEN B - (E + 1) + 1 ELSE 0
            /\ \A j \in 1..(B - (E + 1) + 1) : r[j] = b[(E + 1) + j - 1]
        BY <3>1, <3>2, <4>1, SubSeqProperties
      <4>3. B - (E + 1) + 1 = B - E
        BY <4>1, <2>3
      <4>4. Len(r) = B - E
        BY <2>3, <2>10, <4>1, <4>2
      <4>5. \A j \in 1..(B - E) : (E + 1) + j - 1 = E + j
        BY <2>3, <4>1
      <4> QED BY <4>2, <4>3, <4>4, <4>5
    <3>4. /\ r \o t \in Seq(Byte) /\ Len(r \o t) = Len(r) + Len(t)
          /\ \A i \in 1..Len(r) + Len(t) :
               (r \o t)[i] = IF i <= Len(r) THEN r[i] ELSE t[i - Len(r)]
      BY <3>3, ConcatProperties
    <3>5. Len(r \o t) = Len(w) /\ B \in Nat
      BY <1>0, <2>3, <3>3, <3>4 DEF B
    <3>6. ASSUME NEW i \in 1..Len(w) PROVE (r \o t)[i] = w[i]
      <4> DEFINE p == E + i
      <4>1. p \in 1..(E + Len(w)) /\ p \in 1..(B + Len(t)) /\ ~ (p <= E) /\ p - E = i
        BY <2>3
      <4>2. (e \o w)[p] = w[i]
        BY <2>5, <4>1
      <4>3. CASE i <= B - E
        <5>1. i \in 1..(B - E) /\ i \in 1..Len(r) + Len(t) /\ i <= Len(r) /\ p <= B
          BY <1>0, <2>3, <3>3, <3>5, <4>3
        <5>2. (b \o t)[p] = b[p]
          BY <2>4, <4>1, <5>1
        <5>3. (r \o t)[i] = b[E + i]
          BY <3>3, <3>4, <5>1
        <5> QED BY <2>2, <4>2, <5>2, <5>3
      <4>4. CASE i > B - E
        <5>1. i \in 1..Len(r) + Len(t) /\ ~ (i <= Len(r)) /\ ~ (p <= B)
              /\ p - B = i - Len(r)
          BY <1>0, <2>3, <3>3, <3>5, <4>4
        <5> HIDE DEF p
        <5>2. (b \o t)[p] = t[p - B]
          BY <2>4, <4>1, <5>1
        <5>3. (r \o t)[i] = t[p - B]
          BY <3>4, <5>1
        <5> QED BY <2>2, <4>2, <5>2, <5>3
      <4> QED BY <2>3, <3>5, <4>3, <4>4
    <3>7. r \o t = w
      BY <2>2, <3>4, <3>5, <3>6, SeqEqual
    <3> QED BY <3>3, <3>7 DEF r
  <2>11. CommandLength(b) = 0 => t # <<>>
    <3>1. ASSUME t = <<>> PROVE E <= B
      BY <1>0, <2>3, <3>1
    <3>2. E <= B => CommandLength(b) > 0
      <4> HIDE DEF B, E
      <4> QED BY <2>2, <2>3, <2>8
    <3> QED BY <3>1, <3>2
  <2> QED BY <1>2, <2>8, <2>9, <2>10, <2>11 DEF c, others, w
<1> QED BY <1>1, <1>2

-----------------------------------------------------------------------------
(* Packets *)

(* A packet is within its size and, if gcode remains, ends at a line break. *)
LEMMA PacketLengthFacts ==
  ASSUME NEW s \in Seq(Byte)
  PROVE  /\ PacketLength(s) \in Nat
         /\ PacketLength(s) <= MaxPacketSize /\ PacketLength(s) <= Len(s)
         /\ PacketLength(s) > 0 /\ PacketLength(s) # Len(s) =>
              s[PacketLength(s)] = LineBreak
<1> DEFINE N == MaxPacketSize
           B == {n \in 1..N : s[n] = LineBreak}
           T == B \cup {0}
           Q == {n \in 0..N : \E m \in T : m <= n /\ \A k \in T : k <= n => k <= m}
<1>0. N \in Nat /\ Len(s) \in Nat
  BY PacketAssumption
<1>1. CASE Len(s) <= N
  <2>1. PacketLength(s) = Len(s)
    BY <1>1 DEF PacketLength
  <2> QED BY <1>0, <1>1, <2>1
<1>2. CASE Len(s) > N
  <2>1. PacketLength(s) = CHOOSE n \in T : \A m \in B : m <= n
    BY <1>0, <1>2 DEF PacketLength
  <2>2. \A m \in T : m \in 0..N
    BY <1>0
  <2>3. 0 \in Q
    <3>1. 0 \in T /\ \A k \in T : k <= 0 => k <= 0
      OBVIOUS
    <3> QED BY <1>0, <3>1
  <2>4. ASSUME NEW n \in Nat, n < N, n \in Q PROVE n + 1 \in Q
    <3>1. PICK m \in T : m <= n /\ \A k \in T : k <= n => k <= m
      BY <2>4
    <3>2. n + 1 \in 0..N
      BY <1>0, <2>4
    <3> HIDE DEF T
    <3>3. CASE n + 1 \in T
      <4>1. n + 1 <= n + 1 /\ \A k \in T : k <= n + 1 => k <= n + 1
        OBVIOUS
      <4> QED BY <3>2, <3>3, <4>1
    <3>4. CASE n + 1 \notin T
      <4>1. \A k \in T : k <= n + 1 => k <= n
        BY <2>2, <3>4
      <4>2. m <= n + 1 /\ \A k \in T : k <= n + 1 => k <= m
        BY <2>2, <3>1, <4>1
      <4> QED BY <3>1, <3>2, <4>2
    <3> QED BY <3>3, <3>4
  <2>5. \A n \in 0..N : n \in Q
    <3>1. \A n \in Nat : n < N /\ n \in Q => n + 1 \in Q
      BY <2>4
    <3> HIDE DEF Q, N
    <3> QED BY <1>0, <2>3, <3>1, NatSetInduction
  <2>6. \E m \in T : \A k \in T : k <= m
    <3>1. N \in Q
      <4> HIDE DEF Q, N
      <4>1. N \in 0..N
        BY <1>0
      <4> QED BY <2>5, <4>1
    <3>2. PICK m \in T : m <= N /\ \A k \in T : k <= N => k <= m
      BY <3>1
    <3>3. \A k \in T : k <= N
      BY <1>0, <2>2
    <3> HIDE DEF T
    <3> QED BY <3>2, <3>3
  <2>7. PacketLength(s) \in T
    <3>1. \E m \in T : \A k \in B : k <= m
      BY <2>6
    <3> HIDE DEF T, B
    <3> QED BY <2>1, <3>1
  <2>8. PacketLength(s) > 0 => s[PacketLength(s)] = LineBreak
    BY <2>7
  <2>9. PacketLength(s) \in 0..N
    BY <2>2, <2>7
  <2> QED BY <1>0, <1>2, <2>8, <2>9
<1> QED BY <1>0, <1>1, <1>2

(* What a call takes off the gcode is what it leaves and the packet. *)
LEMMA CutFacts ==
  ASSUME NEW S, NEW s \in Seq(S), NEW n \in 0..Len(s)
  PROVE  /\ SubSeq(s, 1, n) \in Seq(S) /\ Len(SubSeq(s, 1, n)) = n
         /\ \A i \in 1..n : SubSeq(s, 1, n)[i] = s[i]
         /\ SubSeq(s, n + 1, Len(s)) \in Seq(S)
         /\ Len(SubSeq(s, n + 1, Len(s))) = Len(s) - n
         /\ SubSeq(s, 1, n) \o SubSeq(s, n + 1, Len(s)) = s
<1> DEFINE a == SubSeq(s, 1, n)
           N == Len(s)
           b == SubSeq(s, n + 1, N)
<1>0. N \in Nat /\ n \in Nat /\ n <= N /\ \A i \in 1..N : s[i] \in S
  OBVIOUS
<1>1. a \in Seq(S) /\ Len(a) = n /\ \A i \in 1..n : a[i] = s[i]
  <2>1. \A i \in 1..n : s[i] \in S
    BY <1>0
  <2>2. /\ a \in Seq(S) /\ Len(a) = IF 1 <= n THEN n - 1 + 1 ELSE 0
        /\ \A i \in 1..(n - 1 + 1) : a[i] = s[1 + i - 1]
    BY <1>0, <2>1, SubSeqProperties
  <2> HIDE DEF a
  <2>3. n - 1 + 1 = n /\ \A i \in 1..n : 1 + i - 1 = i
    BY <1>0
  <2> QED BY <1>0, <2>2, <2>3
<1>2. b \in Seq(S) /\ Len(b) = N - n
  <2>1. \A i \in (n + 1)..N : s[i] \in S
    BY <1>0
  <2>2. b \in Seq(S) /\ Len(b) = IF n + 1 <= N THEN N - (n + 1) + 1 ELSE 0
    BY <1>0, <2>1, SubSeqProperties
  <2> HIDE DEF b
  <2> QED BY <1>0, <2>2
<1>3. a \o b = s
  <2>1. 1 \in 1..N + 1 /\ n \in (1 - 1)..N /\ N \in n..N
    BY <1>0
  <2>2. a \o b = SubSeq(s, 1, N)
    BY <2>1, ConcatAdjacentSubSeq
  <2> HIDE DEF a, b
  <2> QED BY <2>2, SubSeqFull
<1> QED BY <1>1, <1>2, <1>3

(* A packet is a command: its length and its bits fit their fields. *)
LEMMA ChunkFacts ==
  ASSUME NEW s \in Seq(Byte), packetNum \in Nat, NEW n \in Nat,
         0 < n, n <= Len(s), n <= MaxPacketSize
  PROVE  /\ Chunk(s, n) \in Command
         /\ Chunk(s, n).args[1] = SubSeq(s, 1, n)
         /\ ShortAt(Chunk(s, n).args[2], 0) =
              (IF packetNum = 0 THEN FirstChunkBit ELSE 0)
                + (IF n = Len(s) THEN LastChunkBit ELSE 0)
<1> DEFINE a == SubSeq(s, 1, n)
           bits == (IF packetNum = 0 THEN FirstChunkBit ELSE 0)
                     + (IF n = Len(s) THEN LastChunkBit ELSE 0)
           d == Short(bits)
           args == <<a, d>>
           S == Seq(Byte)
<1>1. Chunk(s, n) = [code |-> IPC_CMDQ_GCODE_APPEND, args |-> args]
  BY DEF Chunk
<1>2. a \in S /\ Len(a) = n
  BY CutFacts
<1>3. bits \in Nat /\ bits < Word16
  BY DEF FirstChunkBit, LastChunkBit, Word16
<1> HIDE DEF bits
<1>4. d \in S /\ Len(d) = 2 /\ d[1] * 256 + d[2] = bits
  BY <1>3, ShortFacts
<1> HIDE DEF d
<1>5. ShortAt(d, 0) = bits
  BY <1>4 DEF ShortAt
<1>6. IsLength(n) /\ IsLength(2)
  <2> DEFINE q == n \div Word16
             r == n % Word16
             Q == MaxPacketSize \div Word16
             R == MaxPacketSize % Word16
  <2>1. q \in Nat /\ r \in Nat /\ r < Word16 /\ q * Word16 + r = n
    BY WordFacts, DivisionFacts
  <2>2. Q \in Nat /\ R \in Nat /\ R < Word16 /\ Q * Word16 + R = MaxPacketSize
    BY PacketAssumption, WordFacts, DivisionFacts
  <2>3. Q < Word16
    BY PacketAssumption DEF IsLength
  <2> HIDE DEF q, r, Q, R
  <2>4. q < Word16
    BY <2>1, <2>2, <2>3, PacketAssumption DEF Word16
  <2>5. 2 \div Word16 < Word16
    BY DEF Word16
  <2> QED BY <2>4, <2>5 DEF IsLength, q
<1> HIDE DEF a, S
<1>7. args \in Seq(S) /\ Len(args) = 2 /\ args[1] = a /\ args[2] = d
  BY <1>2, <1>4
<1> HIDE DEF args
<1>8. Chunk(s, n) \in Command
  <2> DEFINE C == 0..Word16 - 1
  <2>1. IPC_CMDQ_GCODE_APPEND \in C /\ Len(args) < Word16
    BY <1>7 DEF IPC_CMDQ_GCODE_APPEND, Word16
  <2>2. \A i \in 1..Len(args) : IsLength(Len(args[i]))
    <3>1. 1..Len(args) = {1, 2} /\ Len(args[1]) = n /\ Len(args[2]) = 2
      BY <1>2, <1>4, <1>7
    <3> QED BY <1>6, <3>1
  <2> HIDE DEF C
  <2>3. Chunk(s, n) \in [code : C, args : Seq(S)]
    BY <1>1, <1>7, <2>1
  <2> QED BY <1>1, <2>1, <2>2, <2>3 DEF Command, C, S
<1> QED BY <1>1, <1>5, <1>7, <1>8 DEF a, bits

-----------------------------------------------------------------------------
(* The invariant *)

(* The requests not yet run are those whose bytes are on the way. *)
Streamed ==
  \E todo \in Seq(Command) : sent = ran \o todo /\ buffer \o toServer = Wire(todo)

(* A client that waits has one request that is either not run yet, or has  *)
(* one reply on the way; otherwise all is run and nothing on the way.      *)
InStep ==
  ~astray =>
    /\ ~awaiting => Len(ran) = Len(sent) /\ replying = <<>> /\ toClient = <<>>
    /\ awaiting =>
         \/ Len(ran) + 1 = Len(sent) /\ replying = <<>> /\ toClient = <<>>
         \/ /\ Len(ran) = Len(sent)
            /\ Len(replying) + Len(toClient) = 1
            /\ \A i \in 1..Len(replying) : replying[i].to = Len(sent)
            /\ \A i \in 1..Len(toClient) : toClient[i].to = Len(sent)
    /\ \A i \in 1..Len(answered) :
         answered[i] = Len(sent) - (Len(answered) - i) - (IF awaiting THEN 1 ELSE 0)

ClientTyped ==
  /\ calling \in BOOLEAN /\ awaiting \in BOOLEAN /\ astray \in BOOLEAN
  /\ awaiting => calling
  /\ calls \in 0..MaxCalls /\ packetNum \in Nat
  /\ rv \in -4..0 /\ expected \in {0, 1}
  /\ text \in Seq(Byte) /\ rest \in Seq(Byte)
  /\ sent \in Seq(Command) /\ answered \in Seq(Nat)

ServerTyped ==
  /\ toServer \in Seq(Byte) /\ buffer \in Seq(Byte)
  /\ toClient \in Seq(AReply) /\ replying \in Seq(AReply)
  /\ ran \in Seq(Command)

LEMMA TypesMean == TypeOK <=> ClientTyped /\ ServerTyped
BY DEF TypeOK, ClientTyped, ServerTyped

(* The bytes of a request are behind all others. *)
LEMMA SendRequestKeeps ==
  ASSUME ClientTyped, ServerTyped, Streamed,
         NEW cmd \in Command, SendRequest(cmd), UNCHANGED <<buffer, ran>>
  PROVE  /\ toServer' \in Seq(Byte) /\ sent' \in Seq(Command)
         /\ awaiting' = TRUE /\ Len(sent') = Len(sent) + 1
         /\ Streamed'
<1>1. PICK todo \in Seq(Command) : sent = ran \o todo /\ buffer \o toServer = Wire(todo)
  BY DEF Streamed
<1> DEFINE e == Encoded(cmd)
           more == Append(todo, cmd)
<1>2. toServer' = toServer \o e /\ sent' = Append(sent, cmd) /\ awaiting' = TRUE
  BY DEF SendRequest
<1>3. e \in Seq(Byte) /\ Wire(more) = Wire(todo) \o e /\ more \in Seq(Command)
      /\ Wire(todo) \in Seq(Byte)
  <2>1. e \in Seq(Byte)
    BY EncodedFacts
  <2>2. Wire(more) = Wire(todo) \o e /\ Wire(todo) \in Seq(Byte)
    BY WireFacts
  <2>3. more \in Seq(Command)
    BY AppendProperties
  <2> QED BY <2>1, <2>2, <2>3
<1>4. toServer \in Seq(Byte) /\ buffer \in Seq(Byte) /\ sent \in Seq(Command)
      /\ ran \in Seq(Command)
  BY DEF ClientTyped, ServerTyped
<1> HIDE DEF e
<1>5. toServer \o e \in Seq(Byte)
      /\ buffer \o (toServer \o e) = (buffer \o toServer) \o e
  <2>1. toServer \in Seq(Byte) /\ buffer \in Seq(Byte) /\ e \in Seq(Byte)
    BY <1>3, <1>4
  <2>2. toServer \o e \in Seq(Byte)
    BY ONLY <2>1, ConcatProperties
  <2>3. (buffer \o toServer) \o e = buffer \o (toServer \o e)
    BY ONLY <2>1, ConcatAssociative, SMTT(30)
  <2> QED BY <2>2, <2>3
<1>6. /\ Append(sent, cmd) \in Seq(Command) /\ Len(Append(sent, cmd)) = Len(sent) + 1
  BY <1>4, AppendProperties
<1>7. Append(sent, cmd) = ran \o more
  <2> DEFINE w == <<cmd>>
  <2>1. w \in Seq(Command)
    OBVIOUS
  <2>2. Append(sent, cmd) = sent \o w /\ more = todo \o w
    BY <1>4, AppendIsConcat
  <2>3. (ran \o todo) \o w = ran \o (todo \o w)
    <3> HIDE DEF w
    <3>1. ran \in Seq(Command) /\ todo \in Seq(Command) /\ w \in Seq(Command)
      BY <1>4, <2>1
    <3> QED BY ONLY <3>1, ConcatAssociative, SMTT(30)
  <2> HIDE DEF w, more
  <2> QED BY <1>1, <2>2, <2>3
<1> HIDE DEF more
<1>8. sent' = ran' \o more /\ buffer' \o toServer' = Wire(more)
  BY <1>1, <1>2, <1>3, <1>5, <1>7
<1> QED BY <1>2, <1>3, <1>5, <1>6, <1>8 DEF Streamed

(* A request goes out while nothing else is on the way. *)
LEMMA SendRequestInStep ==
  ASSUME ClientTyped, ServerTyped, InStep, ~awaiting,
         awaiting' = TRUE, Len(sent') = Len(sent) + 1,
         answered' = answered \/ answered' = <<>>,
         UNCHANGED <<ran, replying, toClient, astray>>
  PROVE  InStep'
<1> SUFFICES ASSUME ~astray' PROVE InStep'
  BY DEF InStep
<1>1. /\ Len(ran) = Len(sent) /\ replying = <<>> /\ toClient = <<>>
      /\ \A i \in 1..Len(answered) :
           answered[i] = Len(sent) - (Len(answered) - i) - (IF awaiting THEN 1 ELSE 0)
  BY DEF InStep
<1>2. Len(ran) \in Nat /\ Len(sent) \in Nat /\ answered \in Seq(Nat)
  BY DEF ClientTyped, ServerTyped
<1>3. \A i \in 1..Len(answered') :
        answered'[i] = Len(sent') - (Len(answered') - i) - (IF awaiting' THEN 1 ELSE 0)
  <2> SUFFICES ASSUME NEW i \in 1..Len(answered')
               PROVE  answered'[i] = Len(sent') - (Len(answered') - i) - 1
    OBVIOUS
  <2>1. answered' = answered
    BY EmptySeq
  <2>2. answered[i] = Len(sent) - (Len(answered) - i)
    BY <1>1, <1>2, <2>1
  <2>3. i \in Nat /\ Len(answered) \in Nat
    BY <1>2
  <2> QED BY <1>2, <2>1, <2>2, <2>3
<1>4. Len(ran') + 1 = Len(sent') /\ replying' = <<>> /\ toClient' = <<>>
  BY <1>1
<1> QED BY <1>3, <1>4 DEF InStep

-----------------------------------------------------------------------------
(* The steps *)

Base == ClientTyped /\ ServerTyped /\ Streamed /\ InStep

LEMMA CallRequestKeeps ==
  ASSUME Base, CallRequest
  PROVE  Base'
<1> USE DEF Base
<1>1. PICK cmd \in Requests :
        SendRequest(cmd) /\ expected' = IF cmd.code = IPC_CMDQ_GET_STATE THEN 1 ELSE 0
  BY DEF CallRequest
<1>2. cmd \in Command
  BY InputAssumption
<1>3. UNCHANGED <<buffer, ran, replying, toClient, astray>>
  BY DEF CallRequest, serverVars
<1>4. /\ toServer' \in Seq(Byte) /\ sent' \in Seq(Command)
      /\ awaiting' = TRUE /\ Len(sent') = Len(sent) + 1
      /\ Streamed'
  BY <1>1, <1>2, <1>3, SendRequestKeeps
<1>5. ~awaiting /\ calling' = TRUE /\ calls' = calls + 1 /\ calls < MaxCalls
      /\ text' = <<>> /\ rest' = <<>> /\ packetNum' = 0 /\ rv' = 0 /\ answered' = <<>>
  BY DEF CallRequest, ClientTyped
<1>6. InStep'
  BY <1>3, <1>4, <1>5, SendRequestInStep
<1>7. calls' \in 0..MaxCalls
  BY <1>5, PacketAssumption DEF ClientTyped
<1>8. ClientTyped'
  BY <1>1, <1>3, <1>4, <1>5, <1>7 DEF ClientTyped
<1>9. ServerTyped'
  BY <1>3, <1>4 DEF ServerTyped
<1> QED BY <1>4, <1>6, <1>8, <1>9

LEMMA CallSendGCodeKeeps ==
  ASSUME Base, CallSendGCode
  PROVE  Base'
<1> USE DEF Base
<1>1. /\ ~calling /\ calls < MaxCalls /\ calls' = calls + 1
      /\ text' \in Texts /\ calling' = (text' # <<>>) /\ rest' = text'
      /\ packetNum' = 0 /\ rv' = 0 /\ expected' = 0 /\ answered' = <<>>
      /\ UNCHANGED <<awaiting, sent, buffer, replying, ran, toServer, toClient, astray>>
  BY DEF CallSendGCode, serverVars
<1>2. text' \in Seq(Byte)
  BY <1>1, InputAssumption
<1>3. ~awaiting /\ ~awaiting'
  BY <1>1 DEF ClientTyped
<1>4. calls' \in 0..MaxCalls
  BY <1>1, PacketAssumption DEF ClientTyped
<1>5. ClientTyped'
  BY <1>1, <1>2, <1>3, <1>4 DEF ClientTyped
<1>6. ServerTyped' /\ Streamed'
  BY <1>1 DEF ServerTyped, Streamed
<1>7. InStep'
  BY <1>1, <1>3 DEF InStep
<1> QED BY <1>5, <1>6, <1>7

LEMMA SendPacketKeeps ==
  ASSUME Base, SendPacket
  PROVE  Base'
<1> USE DEF Base
<1> DEFINE n == PacketLength(rest)
<1>1. calling /\ ~awaiting /\ rest \in Seq(Byte)
      /\ UNCHANGED <<expected, calls, text, answered, buffer, replying, ran, toClient, astray>>
  BY DEF SendPacket, serverVars, ClientTyped
<1>2. n \in Nat /\ n <= MaxPacketSize /\ n <= Len(rest)
  BY <1>1, PacketLengthFacts
<1>3. CASE /\ n > 0 /\ SendRequest(Chunk(rest, n))
           /\ rest' = SubSeq(rest, n + 1, Len(rest))
           /\ packetNum' = packetNum + 1 /\ UNCHANGED <<calling, rv>>
  <2>1. Chunk(rest, n) \in Command
    <3>1. packetNum \in Nat
      BY DEF ClientTyped
    <3> HIDE DEF n
    <3> QED BY <1>1, <1>2, <1>3, <3>1, ChunkFacts
  <2>2. /\ toServer' \in Seq(Byte) /\ sent' \in Seq(Command)
        /\ awaiting' = TRUE /\ Len(sent') = Len(sent) + 1
        /\ Streamed'
    BY <1>1, <1>3, <2>1, SendRequestKeeps
  <2>3. InStep'
    BY <1>1, <2>2, SendRequestInStep
  <2>4. rest' \in Seq(Byte)
    <3>1. n \in 0..Len(rest)
      BY <1>1, <1>2
    <3> HIDE DEF n
    <3> QED BY <1>1, <1>3, <3>1, CutFacts
  <2> HIDE DEF n
  <2>5. ClientTyped'
    BY <1>1, <1>3, <2>2, <2>4 DEF ClientTyped
  <2>6. ServerTyped'
    BY <1>1, <2>2 DEF ServerTyped
  <2> QED BY <2>2, <2>3, <2>5, <2>6
<1>4. CASE /\ n = 0 /\ rv' = -1 /\ calling' = FALSE
           /\ UNCHANGED <<awaiting, rest, packetNum, toServer, sent>>
  <2>1. ClientTyped'
    <3>1. awaiting' = FALSE /\ rv' \in -4..0
      BY <1>1, <1>4 DEF ClientTyped
    <3> HIDE DEF n
    <3> QED BY <1>1, <1>4, <3>1 DEF ClientTyped
  <2>2. ServerTyped' /\ Streamed' /\ InStep'
    BY <1>1, <1>4 DEF ServerTyped, Streamed, InStep
  <2> QED BY <2>1, <2>2
<1> QED BY <1>3, <1>4 DEF SendPacket

LEMMA ContinueFacts ==
  ASSUME ClientTyped, NEW result \in -4..0, Continue(result)
  PROVE  /\ rv' \in -4..0 /\ calling' \in BOOLEAN /\ awaiting' = FALSE
         /\ calling' = (rv' # -1 /\ rest # <<>>)
         /\ UNCHANGED <<rest, packetNum, expected, calls, text, sent>>
<1>1. rv \in -4..0
  BY DEF ClientTyped
<1> QED BY <1>1 DEF Continue

LEMMA BasicResponseType ==
  ASSUME NEW reply \in AReply
  PROVE  BasicResponse(reply) \in -4..0
<1>1. reply.answer \in Answer
  BY DEF AReply
<1>2. CASE reply.answer = "ok"
  BY <1>2 DEF BasicResponse
<1>3. CASE reply.answer = "error"
  BY <1>3 DEF BasicResponse
<1>4. CASE reply.answer = "gcode_add_failed"
  BY <1>4 DEF BasicResponse
<1>5. CASE reply.answer = "trx_cancelled"
  BY <1>5 DEF BasicResponse
<1>6. CASE reply.answer = "retry_later"
  BY <1>6 DEF BasicResponse
<1> QED BY <1>1, <1>2, <1>3, <1>4, <1>5, <1>6 DEF Answer

LEMMA ReceiveReplyKeeps ==
  ASSUME Base, ReceiveReply
  PROVE  Base'
<1> USE DEF Base
<1> DEFINE reply == Head(toClient)
           result == BasicResponse(reply)
<1>1. /\ awaiting /\ toClient # <<>> /\ toClient' = <<>>
      /\ answered' = Append(answered, reply.to)
      /\ Continue(result)
      /\ UNCHANGED <<buffer, replying, ran, toServer, astray>>
  BY DEF ReceiveReply, serverVars
<1>2. reply \in AReply /\ toClient \in Seq(AReply) /\ answered \in Seq(Nat)
  BY <1>1 DEF ServerTyped, ClientTyped
<1>3. reply.to \in Nat
  BY <1>2 DEF AReply
<1>4. result \in -4..0
  <2> HIDE DEF reply
  <2> QED BY <1>2, BasicResponseType
<1> HIDE DEF result
<1>5. /\ rv' \in -4..0 /\ calling' \in BOOLEAN /\ awaiting' = FALSE
      /\ UNCHANGED <<rest, packetNum, expected, calls, text, sent>>
  BY <1>1, <1>4, ContinueFacts
<1>6. ServerTyped' /\ Streamed'
  <2>1. toClient' \in Seq(AReply)
    BY <1>1, EmptySeq
  <2>2. UNCHANGED <<sent, ran, buffer, toServer>>
    BY <1>1, <1>5
  <2>3. ServerTyped'
    BY <1>1, <2>1 DEF ServerTyped
  <2>4. Streamed'
    BY <2>2 DEF Streamed
  <2> QED BY <2>3, <2>4
<1>7. answered' \in Seq(Nat)
  BY <1>1, <1>2, <1>3
<1>8. ClientTyped'
  BY <1>1, <1>5, <1>7 DEF ClientTyped
<1>9. InStep'
  <2> SUFFICES ASSUME ~astray' PROVE InStep'
    BY DEF InStep
  <2>1. Len(toClient) \in Nat /\ Len(toClient) >= 1 /\ reply = toClient[1]
    BY <1>1, <1>2
  <2>2. /\ Len(ran) = Len(sent) /\ Len(replying) + Len(toClient) = 1
        /\ \A i \in 1..Len(toClient) : toClient[i].to = Len(sent)
        /\ \A i \in 1..Len(answered) :
             answered[i] = Len(sent) - (Len(answered) - i) - (IF awaiting THEN 1 ELSE 0)
    BY <1>1 DEF InStep
  <2>3. reply.to = Len(sent)
    BY <2>1, <2>2
  <2>4. Len(replying) \in Nat /\ Len(sent) \in Nat /\ Len(answered) \in Nat
    BY <1>2 DEF ServerTyped, ClientTyped
  <2>5. replying = <<>>
    BY <2>1, <2>2, <2>4 DEF ServerTyped
  <2> HIDE DEF reply
  <2>6. Len(answered') = Len(answered) + 1 /\ answered'[Len(answered) + 1] = reply.to
        /\ \A i \in 1..Len(answered) : answered'[i] = answered[i]
    BY <1>1, <1>2, <1>3, AppendProperties
  <2>7. ASSUME NEW i \in 1..Len(answered')
        PROVE  answered'[i] = Len(sent') - (Len(answered') - i)
                                - (IF awaiting' THEN 1 ELSE 0)
    <3>1. CASE i = Len(answered) + 1
      BY <1>5, <2>3, <2>4, <2>6, <3>1
    <3>2. CASE i # Len(answered) + 1
      <4>1. i \in 1..Len(answered)
        BY <2>4, <2>6, <3>2
      <4>2. answered[i] = Len(sent) - (Len(answered) - i) - 1
        BY <1>1, <2>2, <4>1
      <4> QED BY <1>5, <2>4, <2>6, <4>1, <4>2
    <3> QED BY <3>1, <3>2
  <2>8. ~awaiting' /\ Len(ran') = Len(sent') /\ replying' = <<>> /\ toClient' = <<>>
    BY <1>1, <1>5, <2>2, <2>5
  <2> QED BY <2>7, <2>8 DEF InStep
<1> QED BY <1>6, <1>8, <1>9

LEMMA NoReplyKeeps ==
  ASSUME Base, NoReply
  PROVE  Base'
<1> USE DEF Base
<1>1. /\ awaiting /\ astray' = TRUE /\ Continue(-1)
      /\ UNCHANGED <<answered, buffer, replying, ran, toServer, toClient>>
  BY DEF NoReply, serverVars
<1>2. -1 \in -4..0
  OBVIOUS
<1>3. /\ rv' \in -4..0 /\ calling' \in BOOLEAN /\ awaiting' = FALSE
      /\ UNCHANGED <<rest, packetNum, expected, calls, text, sent>>
  BY <1>1, <1>2, ContinueFacts
<1>4. ServerTyped' /\ Streamed'
  BY <1>1, <1>3 DEF ServerTyped, Streamed
<1>5. ClientTyped'
  BY <1>1, <1>3 DEF ClientTyped
<1>6. InStep'
  BY <1>1 DEF InStep
<1> QED BY <1>4, <1>5, <1>6

(* A read takes some bytes off the socket and puts them behind the others. *)
LEMMA ReadDataKeeps ==
  ASSUME Base, ReadData
  PROVE  Base'
<1> USE DEF Base
<1>1. PICK n \in 1..Len(toServer) :
        /\ buffer' = buffer \o SubSeq(toServer, 1, n)
        /\ toServer' = SubSeq(toServer, n + 1, Len(toServer))
  BY DEF ReadData
<1>2. UNCHANGED <<clientVars, toClient, replying, ran, astray>>
  BY DEF ReadData
<1> DEFINE a == SubSeq(toServer, 1, n)
           b == SubSeq(toServer, n + 1, Len(toServer))
<1>3. toServer \in Seq(Byte) /\ buffer \in Seq(Byte)
  BY DEF ServerTyped
<1>4. a \in Seq(Byte) /\ b \in Seq(Byte) /\ a \o b = toServer
  <2>1. n \in 0..Len(toServer)
    BY <1>3
  <2> QED BY <1>3, <2>1, CutFacts
<1> HIDE DEF a, b
<1>5. buffer \o a \in Seq(Byte) /\ (buffer \o a) \o b = buffer \o toServer
  <2>0. buffer \in Seq(Byte) /\ a \in Seq(Byte) /\ b \in Seq(Byte)
    BY <1>3, <1>4
  <2>1. (buffer \o a) \o b = buffer \o (a \o b)
    BY ONLY <2>0, ConcatAssociative, SMTT(30)
  <2>2. buffer \o a \in Seq(Byte)
    BY ONLY <2>0, ConcatProperties
  <2> QED BY <1>4, <2>1, <2>2
<1>6. buffer' = buffer \o a /\ toServer' = b
  BY <1>1 DEF a, b
<1>7. Streamed'
  <2>1. PICK todo \in Seq(Command) : sent = ran \o todo /\ buffer \o toServer = Wire(todo)
    BY DEF Streamed
  <2>2. sent' = ran' \o todo /\ buffer' \o toServer' = Wire(todo)
    BY <1>2, <1>5, <1>6, <2>1 DEF clientVars
  <2> QED BY <2>2 DEF Streamed
<1>8. ServerTyped'
  BY <1>2, <1>4, <1>5, <1>6 DEF ServerTyped
<1>9. ClientTyped' /\ InStep'
  BY <1>2 DEF ClientTyped, InStep, clientVars
<1> QED BY <1>7, <1>8, <1>9

(* A handler replies at least once, to the command it runs. *)
LEMMA RepliesFacts ==
  ASSUME ran \in Seq(Command), NEW cmd, NEW r \in Replies(cmd)
  PROVE  /\ r \in Seq(AReply) /\ Len(r) >= 1
         /\ \A i \in 1..Len(r) : r[i].to = Len(ran) + 1
<1> DEFINE To(x) == x \in AReply /\ x.to = Len(ran) + 1
<1>1. \A answer \in Answer, args \in {0, 1} : To(Reply(answer, args))
  <2>1. Len(ran) \in Nat
    OBVIOUS
  <2> QED BY <2>1 DEF Reply, AReply
<1>2. \A answer, args : To(Reply(answer, args)) =>
        /\ <<Reply(answer, args)>> \in Seq(AReply) /\ Len(<<Reply(answer, args)>>) = 1
        /\ <<Reply(answer, args)>>[1] = Reply(answer, args)
  OBVIOUS
<1>3. {"ok", "error", "gcode_add_failed", "trx_cancelled", "retry_later"} = Answer
  BY DEF Answer
<1> DEFINE One == \E answer \in Answer, args \in {0, 1} : r = <<Reply(answer, args)>>
           Two == \E answer \in Answer, args \in {0, 1} :
                    r = <<Reply("trx_cancelled", 1)>> \o <<Reply(answer, args)>>
<1>4. One \/ Two
  <2>1. CASE cmd.code = IPC_CMDQ_GCODE_APPEND
    <3> DEFINE Tolds == {<<>>, <<Reply("trx_cancelled", 1)>>}
               Answers == {"ok"} \cup (IF LastChunk(cmd) THEN {"gcode_add_failed"} ELSE {})
               Final(answer) == <<Reply(answer, IF answer = "ok" THEN 0 ELSE 1)>>
    <3>0. r \in GCodeReplies(cmd)
      BY <2>1 DEF Replies, IPC_CMDQ_GCODE_APPEND, IPC_CMDQ_APPEND_FILE, IPC_CMDQ_GET_STATE
    <3>1. PICK told \in Tolds, answer \in Answers : r = told \o Final(answer)
      <4>1. GCodeReplies(cmd) = {told \o Final(answer) : told \in Tolds, answer \in Answers}
        BY DEF GCodeReplies
      <4> HIDE DEF Tolds, Answers, Final
      <4> QED BY <3>0, <4>1
    <3>2. answer \in Answer /\ (IF answer = "ok" THEN 0 ELSE 1) \in {0, 1}
      BY <1>3
    <3>3. CASE told = <<>>
      <4> DEFINE w == <<Reply(answer, IF answer = "ok" THEN 0 ELSE 1)>>
      <4>1. w \in Seq(AReply)
        BY <1>1, <1>2, <3>2
      <4> HIDE DEF w
      <4>2. <<>> \o w = w
        BY <4>1, ConcatEmptySeq
      <4> QED BY <3>1, <3>2, <3>3, <4>2 DEF w
    <3>4. CASE told = <<Reply("trx_cancelled", 1)>>
      BY <3>1, <3>2, <3>4
    <3> QED BY <3>3, <3>4
  <2>2. CASE cmd.code # IPC_CMDQ_GCODE_APPEND
    <3>1. r \in {<<Reply("ok", 0)>>, <<Reply("error", 1)>>, <<Reply("retry_later", 1)>>,
                 <<Reply("ok", 1)>>}
      BY <2>2 DEF Replies
    <3> QED BY <1>3, <3>1
  <2> QED BY <2>1, <2>2
<1>5. CASE One
  <2>1. PICK answer \in Answer, args \in {0, 1} : r = <<Reply(answer, args)>>
    BY <1>5
  <2>2. To(Reply(answer, args))
    BY <1>1
  <2> DEFINE x == Reply(answer, args)
  <2> HIDE DEF x
  <2>3. x \in AReply /\ x.to = Len(ran) + 1 /\ r = <<x>>
    BY <2>1, <2>2 DEF x
  <2> QED BY <2>3
<1>6. CASE Two
  <2>1. PICK answer \in Answer, args \in {0, 1} :
               r = <<Reply("trx_cancelled", 1)>> \o <<Reply(answer, args)>>
    BY <1>6
  <2>2. To(Reply("trx_cancelled", 1)) /\ To(Reply(answer, args))
    BY <1>1, <1>3
  <2> DEFINE x == Reply("trx_cancelled", 1)
             y == Reply(answer, args)
  <2> HIDE DEF x, y
  <2>3. /\ x \in AReply /\ x.to = Len(ran) + 1 /\ y \in AReply /\ y.to = Len(ran) + 1
        /\ r = <<x>> \o <<y>>
    BY <2>1, <2>2 DEF x, y
  <2> DEFINE v == <<x>>
             w == <<y>>
  <2>4. /\ v \in Seq(AReply) /\ Len(v) = 1 /\ v[1] = x
        /\ w \in Seq(AReply) /\ Len(w) = 1 /\ w[1] = y
    BY <2>3
  <2> HIDE DEF v, w
  <2>5. /\ v \o w \in Seq(AReply) /\ Len(v \o w) = Len(v) + Len(w)
        /\ \A i \in 1..Len(v) + Len(w) :
             (v \o w)[i] = IF i <= Len(v) THEN v[i] ELSE w[i - Len(v)]
    <3>1. v \in Seq(AReply) /\ w \in Seq(AReply)
      BY <2>4
    <3> QED BY ONLY <3>1, ConcatProperties
  <2>6. r = v \o w
    BY <2>3 DEF v, w
  <2> QED BY <2>3, <2>4, <2>5, <2>6
<1> QED BY <1>4, <1>5, <1>6

LEMMA RunCommandKeeps ==
  ASSUME Base, RunCommand
  PROVE  Base'
<1> USE DEF Base
<1>1. /\ replying = <<>> /\ CommandLength(buffer) > 0
      /\ replying' \in Replies(Decoded(buffer))
      /\ ran' = Append(ran, Decoded(buffer)) /\ buffer' = Removed(buffer)
      /\ astray' = (astray \/ Len(replying') > 1)
      /\ UNCHANGED <<clientVars, toServer, toClient>>
  BY DEF RunCommand
<1>2. PICK todo \in Seq(Command) : sent = ran \o todo /\ buffer \o toServer = Wire(todo)
  BY DEF Streamed
<1>3. buffer \in Seq(Byte) /\ toServer \in Seq(Byte) /\ ran \in Seq(Command)
      /\ toClient \in Seq(AReply) /\ sent \in Seq(Command)
  BY DEF ServerTyped, ClientTyped
<1> DEFINE c == Head(todo)
           others == Tail(todo)
<1>4. /\ todo # <<>> /\ Decoded(buffer) = c
      /\ Removed(buffer) \in Seq(Byte)
      /\ Removed(buffer) \o toServer = Wire(others)
  BY <1>1, <1>2, <1>3, FirstCommand
<1>5. c \in Command /\ others \in Seq(Command) /\ todo = <<c>> \o others
  BY <1>4, HeadAndTail
<1> HIDE DEF c, others
<1>6. ran' = Append(ran, c) /\ ran' \in Seq(Command) /\ Len(ran') = Len(ran) + 1
      /\ sent' = ran' \o others
  <2> DEFINE w == <<c>>
  <2>1. w \in Seq(Command)
    BY <1>5
  <2>2. Append(ran, c) = ran \o w /\ todo = w \o others
    BY <1>3, <1>5, AppendIsConcat
  <2>3. Append(ran, c) \in Seq(Command) /\ Len(Append(ran, c)) = Len(ran) + 1
    BY <1>3, <1>5, AppendProperties
  <2> HIDE DEF w
  <2>4. (ran \o w) \o others = ran \o (w \o others)
    BY ONLY <1>3, <1>5, <2>1, ConcatAssociative, SMTT(30)
  <2>5. sent' = sent
    BY <1>1 DEF clientVars
  <2> QED BY <1>1, <1>2, <1>4, <2>2, <2>3, <2>4, <2>5
<1>7. Streamed'
  <2>1. buffer' \o toServer' = Wire(others)
    BY <1>1, <1>4
  <2> QED BY <1>5, <1>6, <2>1 DEF Streamed
<1>8. /\ replying' \in Seq(AReply) /\ Len(replying') >= 1
      /\ \A i \in 1..Len(replying') : replying'[i].to = Len(ran) + 1
  BY <1>1, <1>3, RepliesFacts
<1>9. ServerTyped'
  BY <1>1, <1>3, <1>4, <1>6, <1>8 DEF ServerTyped
<1>10. ClientTyped'
  <2>1. astray' \in BOOLEAN
    BY <1>1 DEF ClientTyped
  <2> QED BY <1>1, <2>1 DEF ClientTyped, clientVars
<1>11. InStep'
  <2> SUFFICES ASSUME ~astray' PROVE InStep'
    BY DEF InStep
  <2>1. ~astray /\ ~ (Len(replying') > 1)
    BY <1>1
  <2>2. Len(replying') = 1
    <3>1. Len(replying') \in Nat
      BY <1>8, LenProperties
    <3>2. Len(replying') >= 1
      BY <1>8
    <3>3. ~ (Len(replying') > 1)
      BY <2>1
    <3> DEFINE k == Len(replying')
    <3>4. k \in Nat /\ k >= 1 /\ ~ (k > 1)
      BY <3>1, <3>2, <3>3
    <3> HIDE DEF k
    <3>5. k = 1
      BY ONLY <3>4
    <3> QED BY <3>5 DEF k
  <2>3. Len(sent) >= Len(ran) + 1 /\ Len(ran) \in Nat /\ Len(sent) \in Nat
    <3>1. Len(sent) = Len(ran) + Len(todo)
      BY <1>2, <1>3, ConcatProperties
    <3>2. Len(todo) \in Nat /\ Len(todo) # 0
      BY <1>4
    <3> QED BY <1>3, <3>1, <3>2
  <2>4. awaiting /\ Len(ran) + 1 = Len(sent) /\ toClient = <<>>
    BY <2>1, <2>3 DEF InStep, ClientTyped
  <2>5. UNCHANGED <<awaiting, sent, answered, toClient>>
    BY <1>1 DEF clientVars
  <2>6. \A i \in 1..Len(answered') :
          answered'[i] = Len(sent') - (Len(answered') - i) - (IF awaiting' THEN 1 ELSE 0)
    BY <2>1, <2>5 DEF InStep
  <2>7. /\ awaiting' /\ Len(ran') = Len(sent')
        /\ Len(replying') + Len(toClient') = 1
        /\ \A i \in 1..Len(replying') : replying'[i].to = Len(sent')
        /\ \A i \in 1..Len(toClient') : toClient'[i].to = Len(sent')
    <3>1. Len(toClient') = 0 /\ 1..0 = {}
      BY <2>4, <2>5
    <3> QED BY <1>6, <1>8, <2>2, <2>4, <2>5, <3>1
  <2> QED BY <2>6, <2>7 DEF InStep
<1> QED BY <1>7, <1>9, <1>10, <1>11

LEMMA SendReplyKeeps ==
  ASSUME Base, SendReply
  PROVE  Base'
<1> USE DEF Base
<1> DEFINE reply == Head(replying)
<1>1. /\ replying # <<>> /\ toClient' = Append(toClient, reply)
      /\ replying' = Tail(replying)
      /\ UNCHANGED <<clientVars, toServer, buffer, ran, astray>>
  BY DEF SendReply
<1>2. replying \in Seq(AReply) /\ toClient \in Seq(AReply)
  BY DEF ServerTyped
<1>3. reply \in AReply /\ Tail(replying) \in Seq(AReply)
      /\ Len(Tail(replying)) = Len(replying) - 1 /\ reply = replying[1]
      /\ Len(replying) \in Nat /\ Len(replying) >= 1
  BY <1>1, <1>2
<1> HIDE DEF reply
<1>4. /\ toClient' \in Seq(AReply) /\ Len(toClient') = Len(toClient) + 1
      /\ toClient'[Len(toClient) + 1] = reply
      /\ \A i \in 1..Len(toClient) : toClient'[i] = toClient[i]
  BY <1>1, <1>2, <1>3, AppendProperties
<1>5. ClientTyped' /\ ServerTyped' /\ Streamed'
  BY <1>1, <1>3, <1>4 DEF ClientTyped, ServerTyped, Streamed, clientVars
<1>6. InStep'
  <2> SUFFICES ASSUME ~astray' PROVE InStep'
    BY DEF InStep
  <2>1. UNCHANGED <<awaiting, sent, answered, ran, astray>>
    BY <1>1 DEF clientVars
  <2>2. /\ awaiting /\ Len(ran) = Len(sent) /\ Len(replying) + Len(toClient) = 1
        /\ \A i \in 1..Len(replying) : replying[i].to = Len(sent)
        /\ \A i \in 1..Len(answered) :
             answered[i] = Len(sent) - (Len(answered) - i) - (IF awaiting THEN 1 ELSE 0)
    BY <1>1, <2>1 DEF InStep, ClientTyped
  <2>3. Len(toClient) \in Nat
    BY <1>2
  <2>4. Len(toClient) = 0 /\ Len(replying) = 1
    BY <1>3, <2>2, <2>3
  <2>5. reply.to = Len(sent)
    BY <1>3, <2>2
  <2>6. Len(replying') = 0 /\ Len(toClient') = 1
    BY <1>1, <1>3, <1>4, <2>4
  <2>7. \A i \in 1..Len(toClient') : toClient'[i].to = Len(sent)
    BY <1>4, <2>4, <2>5, <2>6
  <2>8. \A i \in 1..Len(replying') : replying'[i].to = Len(sent)
    <3>1. 1..0 = {}
      OBVIOUS
    <3> QED BY <2>6, <3>1
  <2>9. Len(replying') + Len(toClient') = 1
    BY <2>6
  <2> QED BY <2>1, <2>2, <2>7, <2>8, <2>9 DEF InStep
<1> QED BY <1>5, <1>6

-----------------------------------------------------------------------------
(* What the packets of a call tell *)

BytesOf(P, k) == SX!FlattenSeq([i \in 1..k |-> P[i].args[1]])
BitsOf(P, i)  == ShortAt(P[i].args[2], 0)

Told(P, k, t, r) ==
  /\ t = BytesOf(P, k) \o r
  /\ \A i \in 1..k :
       /\ P[i].args[1] \in Seq(Byte)
       /\ Len(P[i].args[1]) \in 1..MaxPacketSize
       /\ (BitsOf(P, i) % 2 = FirstChunkBit) <=> (i = 1)
       /\ (BitsOf(P, i) >= LastChunkBit) <=> (i = k /\ BytesOf(P, k) = t)
       /\ (BitsOf(P, i) < LastChunkBit) => (Last(P[i].args[1]) = LineBreak)

(* A call that is to go on has gcode left; one that ended well has not.    *)
Packeted ==
  /\ packetNum <= Len(sent)
  /\ (calling /\ ~awaiting) => rest # <<>>
  /\ (~calling /\ rv # -1) => rest = <<>>
  /\ Told(Packets, packetNum, text, rest)

LEMMA PacketsTell == Packeted => TextInPackets
BY SameJoin DEF Packeted, TextInPackets, Told, BytesOf, BitsOf

LEMMA ToldNothing ==
  ASSUME NEW P, NEW t \in Seq(Byte)
  PROVE  Told(P, 0, t, t)
<1>1. [i \in 1..0 |-> P[i].args[1]] = <<>>
  OBVIOUS
<1>2. BytesOf(P, 0) = <<>>
  BY <1>1, FlattenEmpty DEF BytesOf
<1>3. <<>> \o t = t
  BY ConcatEmptySeq
<1>4. 1..0 = {}
  OBVIOUS
<1> QED BY <1>2, <1>3, <1>4 DEF Told

(* One more packet *)
LEMMA ToldMore ==
  ASSUME NEW P \in Seq(Command), NEW t \in Seq(Byte), NEW r \in Seq(Byte),
         Told(P, Len(P), t, r),
         NEW c \in Command, NEW n \in Nat, 0 < n, n <= Len(r), n <= MaxPacketSize,
         n # Len(r) => r[n] = LineBreak,
         c.args[1] = SubSeq(r, 1, n),
         ShortAt(c.args[2], 0) = (IF Len(P) = 0 THEN FirstChunkBit ELSE 0)
                                   + (IF n = Len(r) THEN LastChunkBit ELSE 0)
  PROVE  Told(Append(P, c), Len(P) + 1, t, SubSeq(r, n + 1, Len(r)))
<1> DEFINE k == Len(P)
           m == k + 1
           x == SubSeq(r, 1, n)
           y == SubSeq(r, n + 1, Len(r))
           Q == Append(P, c)
           a == [i \in 1..k |-> P[i].args[1]]
           b == [i \in 1..m |-> Q[i].args[1]]
           old == BytesOf(P, k)
           new == BytesOf(Q, m)
<1>1. x \in Seq(Byte) /\ Len(x) = n /\ y \in Seq(Byte) /\ Len(y) = Len(r) - n
      /\ x \o y = r /\ \A i \in 1..n : x[i] = r[i]
  <2>1. n \in 0..Len(r)
    OBVIOUS
  <2> QED BY ONLY <2>1, r \in Seq(Byte), CutFacts
<1>2. Q \in Seq(Command) /\ Q[m] = c /\ \A i \in 1..k : Q[i] = P[i]
  BY AppendProperties
<1>3. k \in Nat /\ Len(r) \in Nat /\ c.args[1] = x
  OBVIOUS
<1>4. /\ t = old \o r
      /\ \A i \in 1..k :
           /\ P[i].args[1] \in Seq(Byte)
           /\ Len(P[i].args[1]) \in 1..MaxPacketSize
           /\ (BitsOf(P, i) % 2 = FirstChunkBit) <=> (i = 1)
           /\ (BitsOf(P, i) >= LastChunkBit) <=> (i = k /\ old = t)
           /\ (BitsOf(P, i) < LastChunkBit) => (Last(P[i].args[1]) = LineBreak)
  BY DEF Told
<1>5. ShortAt(c.args[2], 0) = (IF k = 0 THEN FirstChunkBit ELSE 0)
                                + (IF n = Len(r) THEN LastChunkBit ELSE 0)
  OBVIOUS
<1> HIDE DEF x, y, Q, k
<1>6. a \in Seq(Seq(Byte)) /\ Len(a) = k
  <2>1. \A i \in 1..k : P[i].args[1] \in Seq(Byte)
    BY <1>4
  <2> DEFINE S == Seq(Byte)
  <2>2. a \in [1..k -> S]
    BY <2>1
  <2> HIDE DEF S, a
  <2>3. a \in Seq(S) /\ Len(a) = k
    BY <1>3, <2>2
  <2> QED BY <2>3 DEF S
<1>7. b = Append(a, x)
  <2>1. ASSUME NEW i \in 1..m PROVE Q[i].args[1] \in Seq(Byte)
    <3>1. CASE i = m
      BY <1>1, <1>2, <1>3, <3>1
    <3>2. CASE i # m
      <4>1. i \in 1..k
        BY <1>3, <3>2
      <4>2. Q[i] = P[i] /\ P[i].args[1] \in Seq(Byte)
        BY <1>2, <1>4, <4>1
      <4> QED BY <4>2
    <3> QED BY <3>1, <3>2
  <2> DEFINE S == Seq(Byte)
  <2>2. b \in [1..m -> S] /\ \A i \in 1..m : b[i] = Q[i].args[1]
    BY <2>1
  <2>3. \A i \in 1..k : a[i] = P[i].args[1]
    OBVIOUS
  <2>4. m = k + 1
    OBVIOUS
  <2> HIDE DEF S, a, b, m
  <2>5. b \in Seq(S) /\ Len(b) = m
    BY <1>3, <2>2, <2>4
  <2>6. a \in Seq(S) /\ x \in S
    BY <1>1, <1>6 DEF S
  <2>7. /\ Append(a, x) \in Seq(S) /\ Len(Append(a, x)) = m
        /\ Append(a, x)[m] = x /\ \A i \in 1..k : Append(a, x)[i] = a[i]
    BY <1>6, <2>4, <2>6, AppendProperties
  <2>8. ASSUME NEW i \in 1..m PROVE b[i] = Append(a, x)[i]
    <3>1. CASE i = m
      BY <1>2, <1>3, <2>2, <2>7, <3>1
    <3>2. CASE i # m
      <4>1. i \in 1..k
        BY <1>3, <2>4, <3>2
      <4>2. b[i] = Q[i].args[1] /\ Q[i] = P[i] /\ a[i] = P[i].args[1]
            /\ Append(a, x)[i] = a[i]
        BY <1>2, <2>2, <2>3, <2>7, <4>1
      <4> QED BY <4>2
    <3> QED BY <3>1, <3>2
  <2> QED BY <2>5, <2>7, <2>8, SeqEqual
<1>8. new = old \o x /\ old \in Seq(Byte)
  <2>1. old = SX!FlattenSeq(a) /\ new = SX!FlattenSeq(b)
    BY DEF BytesOf
  <2> HIDE DEF a, b, old, new
  <2>2. SX!FlattenSeq(Append(a, x)) = SX!FlattenSeq(a) \o x
        /\ SX!FlattenSeq(a) \in Seq(Byte)
    BY <1>1, <1>6, FlattenAppend, FlattenType
  <2> QED BY <1>7, <2>1, <2>2
<1>9. m = k + 1
  OBVIOUS
<1> HIDE DEF a, b, old, new, m
<1>10. t = new \o y
  <2>1. (old \o x) \o y = old \o (x \o y)
    <3>1. old \in Seq(Byte) /\ x \in Seq(Byte) /\ y \in Seq(Byte)
      BY <1>1, <1>8
    <3> QED BY ONLY <3>1, ConcatAssociative, SMTT(30)
  <2> QED BY <1>1, <1>4, <1>8, <2>1
<1>11. old # t
  <2>1. r # <<>>
    BY <1>3
  <2> QED BY <1>4, <1>8, <2>1, ConcatEqualIffEmpty
<1>12. new = t <=> n = Len(r)
  <2>1. new \in Seq(Byte)
    BY <1>1, <1>8, ConcatProperties
  <2>2. new = t <=> y = <<>>
    BY <1>1, <1>10, <2>1, ConcatEqualIffEmpty
  <2>3. y = <<>> <=> Len(y) = 0
    BY <1>1
  <2> QED BY <1>1, <1>3, <2>2, <2>3
<1>13. ASSUME NEW i \in 1..m
       PROVE  /\ Q[i].args[1] \in Seq(Byte)
              /\ Len(Q[i].args[1]) \in 1..MaxPacketSize
              /\ (BitsOf(Q, i) % 2 = FirstChunkBit) <=> (i = 1)
              /\ (BitsOf(Q, i) >= LastChunkBit) <=> (i = m /\ new = t)
              /\ (BitsOf(Q, i) < LastChunkBit) => (Last(Q[i].args[1]) = LineBreak)
  <2>1. CASE i = m
    <3> DEFINE bits == BitsOf(Q, i)
    <3>1. Q[i].args[1] = x
      BY <1>2, <1>3, <2>1
    <3>2. bits = (IF k = 0 THEN FirstChunkBit ELSE 0)
                   + (IF n = Len(r) THEN LastChunkBit ELSE 0)
      BY <1>2, <1>5, <2>1 DEF BitsOf
    <3> HIDE DEF bits
    <3>3. Len(x) \in 1..MaxPacketSize
      BY <1>1, PacketAssumption
    <3>4. (bits % 2 = FirstChunkBit) <=> (k = 0)
      BY <3>2, SMTT(30) DEF FirstChunkBit, LastChunkBit
    <3>5. (bits >= LastChunkBit) <=> (n = Len(r))
      BY <3>2 DEF FirstChunkBit, LastChunkBit
    <3>6. k = 0 <=> i = 1
      BY <1>3, <1>9, <2>1
    <3>7. (bits < LastChunkBit) => Last(x) = LineBreak
      <4> HAVE bits < LastChunkBit
      <4>1. n # Len(r)
        BY <3>2 DEF FirstChunkBit, LastChunkBit
      <4>2. x[n] = r[n] /\ Last(x) = x[n]
        BY <1>1 DEF Last
      <4> QED BY <4>1, <4>2
    <3> QED BY <1>1, <1>12, <2>1, <3>1, <3>3, <3>4, <3>5, <3>6, <3>7 DEF bits
  <2>2. CASE i # m
    <3>1. i \in 1..k
      BY <1>3, <1>9, <2>2
    <3>2. Q[i] = P[i]
      BY <1>2, <3>1
    <3>3. BitsOf(Q, i) = BitsOf(P, i)
      BY <3>2 DEF BitsOf
    <3>4. /\ P[i].args[1] \in Seq(Byte)
          /\ Len(P[i].args[1]) \in 1..MaxPacketSize
          /\ (BitsOf(P, i) % 2 = FirstChunkBit) <=> (i = 1)
          /\ ~ (BitsOf(P, i) >= LastChunkBit)
          /\ (BitsOf(P, i) < LastChunkBit) => (Last(P[i].args[1]) = LineBreak)
      BY <1>4, <1>11, <3>1
    <3> QED BY <2>2, <3>2, <3>3, <3>4
  <2> QED BY <2>1, <2>2
<1>14. Told(Q, m, t, y)
  BY <1>10, <1>13 DEF Told, new
<1> QED BY <1>14 DEF Q, m, y, k

(* The packets are the last of the requests: one more request, one more *)
(* packet.                                                              *)
LastGrow(S, s, c, p) ==
  /\ SubSeq(s, Len(s) - p + 1, Len(s)) \in Seq(S)
  /\ Len(SubSeq(s, Len(s) - p + 1, Len(s))) = p
  /\ SubSeq(Append(s, c), Len(s) - p + 1, Len(s) + 1)
       = Append(SubSeq(s, Len(s) - p + 1, Len(s)), c)

LEMMA LastOnes ==
  ASSUME NEW S, NEW s \in Seq(S), NEW c \in S, NEW p \in Nat, p <= Len(s)
  PROVE  LastGrow(S, s, c, p)
<1> DEFINE L == Len(s)
           M == L + 1
           m == L - p + 1
           u == Append(s, c)
           a == SubSeq(s, m, L)
           b == SubSeq(u, m, M)
<1>1. /\ L \in Nat /\ u \in Seq(S) /\ Len(u) = M /\ u[M] = c
      /\ \A i \in 1..L : u[i] = s[i]
  BY AppendProperties
<1>2. m \in Int /\ m >= 1 /\ m <= M /\ M \in Int /\ L \in Int /\ L - m + 1 = p /\ M - m + 1 = p + 1
  BY <1>1
<1> HIDE DEF u
<1>3. a \in Seq(S) /\ Len(a) = p /\ \A i \in 1..p : a[i] = s[m + i - 1]
  <2>1. \A i \in m..L : s[i] \in S
    <3>1. \A i \in m..L : i \in 1..L
      BY <1>1, <1>2
    <3> QED BY <3>1
  <2> HIDE DEF m, L
  <2>2. /\ a \in Seq(S) /\ Len(a) = IF m <= L THEN L - m + 1 ELSE 0
        /\ \A i \in 1..(L - m + 1) : a[i] = s[m + i - 1]
    BY <1>2, <2>1, SubSeqProperties
  <2> HIDE DEF a
  <2> QED BY <1>2, <2>2
<1>4. b \in Seq(S) /\ Len(b) = p + 1 /\ \A i \in 1..(p + 1) : b[i] = u[m + i - 1]
  <2>1. \A i \in m..M : u[i] \in S
    <3>1. \A i \in m..M : i \in 1..M
      BY <1>1, <1>2
    <3>2. \A i \in 1..M : u[i] \in S
      BY <1>1, ElementOfSeq
    <3> QED BY <3>1, <3>2
  <2> HIDE DEF m, M
  <2>2. /\ b \in Seq(S) /\ Len(b) = IF m <= M THEN M - m + 1 ELSE 0
        /\ \A i \in 1..(M - m + 1) : b[i] = u[m + i - 1]
    BY <1>2, <2>1, SubSeqProperties
  <2> HIDE DEF b
  <2> QED BY <1>2, <2>2
<1> HIDE DEF a, b
<1>5. /\ Append(a, c) \in Seq(S) /\ Len(Append(a, c)) = p + 1
      /\ Append(a, c)[p + 1] = c /\ \A i \in 1..p : Append(a, c)[i] = a[i]
  BY <1>3, AppendProperties
<1>6. ASSUME NEW i \in 1..(p + 1) PROVE b[i] = Append(a, c)[i]
  <2> DEFINE j == m + i - 1
  <2>0. b[i] = u[j]
    BY <1>4
  <2>1. CASE i = p + 1
    <3>1. j = M
      BY <1>1, <2>1
    <3> HIDE DEF j
    <3> QED BY <1>1, <1>5, <2>0, <2>1, <3>1
  <2>2. CASE i # p + 1
    <3>1. i \in 1..p /\ j \in 1..L
      BY <1>1, <1>2, <2>2
    <3>2. a[i] = s[j]
      BY <1>3, <3>1
    <3> HIDE DEF j
    <3> QED BY <1>1, <1>5, <2>0, <3>1, <3>2
  <2> QED BY <2>1, <2>2
<1>7. b = Append(a, c)
  BY <1>4, <1>5, <1>6, SeqEqual
<1> QED BY <1>3, <1>7 DEF a, b, u, LastGrow

(* Only a call or a packet changes what the packets tell. *)
LEMMA PacketedStays ==
  ASSUME Packeted, UNCHANGED <<sent, packetNum, text, rest>>,
         (calling' /\ ~awaiting') => rest # <<>>,
         (~calling' /\ rv' # -1) => rest = <<>>
  PROVE  Packeted'
<1>1. Packets' = Packets
  BY DEF Packets
<1>2. Told(Packets, packetNum, text, rest)'
  <2> DEFINE P == Packets
             Q == Packets'
  <2>1. Q = P /\ Told(P, packetNum, text, rest)
    BY <1>1 DEF Packeted
  <2> HIDE DEF P, Q
  <2>2. Told(Q, packetNum', text', rest')
    BY <2>1
  <2> QED BY <2>2 DEF Q, Told, BytesOf, BitsOf
<1> QED BY <1>2 DEF Packeted

LEMMA PacketedStarts ==
  ASSUME packetNum' = 0, text' = rest', rest' \in Seq(Byte), sent' \in Seq(Command),
         (calling' /\ ~awaiting') => rest' # <<>>,
         (~calling' /\ rv' # -1) => rest' = <<>>
  PROVE  Packeted'
<1>1. Told(Packets, packetNum, text, rest)'
  <2> DEFINE Q == Packets'
             t == rest'
  <2>1. t \in Seq(Byte)
    OBVIOUS
  <2> HIDE DEF Q, t
  <2>2. Told(Q, 0, t, t)
    BY <2>1, ToldNothing
  <2> QED BY <2>2 DEF Q, t, Told, BytesOf, BitsOf
<1>2. packetNum' <= Len(sent')
  BY LenProperties
<1> QED BY <1>1, <1>2 DEF Packeted

LEMMA SendPacketTells ==
  ASSUME Base, Base', Packeted, SendPacket
  PROVE  Packeted'
<1> USE DEF Base
<1> DEFINE n == PacketLength(rest)
           c == Chunk(rest, n)
<1>1. calling /\ ~awaiting /\ rest \in Seq(Byte) /\ text \in Seq(Byte)
      /\ sent \in Seq(Command) /\ packetNum \in Nat /\ text' = text
  BY DEF SendPacket, ClientTyped
<1>2. /\ n \in Nat /\ n <= MaxPacketSize /\ n <= Len(rest)
      /\ (n > 0 /\ n # Len(rest)) => rest[n] = LineBreak
  BY <1>1, PacketLengthFacts
<1>3. packetNum <= Len(sent) /\ Told(Packets, packetNum, text, rest)
  BY DEF Packeted
<1>4. CASE /\ n > 0 /\ SendRequest(c)
           /\ rest' = SubSeq(rest, n + 1, Len(rest))
           /\ packetNum' = packetNum + 1 /\ UNCHANGED <<calling, rv>>
  <2>1. /\ c \in Command
        /\ c.args[1] = SubSeq(rest, 1, n)
        /\ ShortAt(c.args[2], 0) = (IF packetNum = 0 THEN FirstChunkBit ELSE 0)
                                     + (IF n = Len(rest) THEN LastChunkBit ELSE 0)
    <3> HIDE DEF n
    <3> QED BY <1>1, <1>2, <1>4, ChunkFacts
  <2> HIDE DEF n, c
  <2>2. sent' = Append(sent, c) /\ awaiting' = TRUE
    BY <1>4 DEF SendRequest
  <2> DEFINE P == Packets
             Q == Packets'
             L == Len(sent)
  <2>3. P = SubSeq(sent, L - packetNum + 1, L)
    BY DEF Packets
  <2>4. L \in Nat /\ Len(sent') = L + 1 /\ (L + 1) - (packetNum + 1) + 1 = L - packetNum + 1
    BY <1>1, <2>1, <2>2, AppendProperties
  <2>5. Q = SubSeq(Append(sent, c), L - packetNum + 1, L + 1)
    <3>1. Q = SubSeq(sent', Len(sent') - packetNum' + 1, Len(sent'))
      BY DEF Packets
    <3> HIDE DEF L, Q
    <3> QED BY <1>4, <2>2, <2>4, <3>1
  <2>6. P \in Seq(Command) /\ Len(P) = packetNum /\ Q = Append(P, c)
    <3>1. /\ SubSeq(sent, L - packetNum + 1, L) \in Seq(Command)
          /\ Len(SubSeq(sent, L - packetNum + 1, L)) = packetNum
          /\ SubSeq(Append(sent, c), L - packetNum + 1, L + 1)
               = Append(SubSeq(sent, L - packetNum + 1, L), c)
      <4>1. sent \in Seq(Command) /\ packetNum \in Nat /\ packetNum <= Len(sent)
            /\ c \in Command
        BY <1>1, <1>3, <2>1
      <4>2. LastGrow(Command, sent, c, packetNum)
        BY <4>1, LastOnes
      <4> QED BY <4>2 DEF LastGrow, L
    <3> HIDE DEF L, P, Q
    <3> QED BY <2>3, <2>5, <3>1
  <2>7. Told(P, packetNum, text, rest)
    BY <1>3
  <2> HIDE DEF P, Q
  <2> DEFINE r == SubSeq(rest, n + 1, Len(rest))
  <2>8. Told(Append(P, c), Len(P) + 1, text, r)
    <3>1. Told(P, Len(P), text, rest)
      BY <2>6, <2>7
    <3>2. n \in Nat /\ 0 < n /\ n <= Len(rest) /\ n <= MaxPacketSize
          /\ (n # Len(rest) => rest[n] = LineBreak)
      BY <1>2, <1>4
    <3>3. ShortAt(c.args[2], 0) = (IF Len(P) = 0 THEN FirstChunkBit ELSE 0)
                                     + (IF n = Len(rest) THEN LastChunkBit ELSE 0)
      BY <2>1, <2>6
    <3> HIDE DEF r
    <3> QED BY <1>1, <2>1, <2>6, <3>1, <3>2, <3>3, ToldMore DEF r
  <2> HIDE DEF r
  <2>9. Told(Q, packetNum', text', rest')
    <3>1. rest' = r
      BY <1>4 DEF r
    <3> QED BY <1>1, <1>4, <2>6, <2>8, <3>1
  <2>10. Told(Packets, packetNum, text, rest)'
    BY <2>9 DEF Q, Told, BytesOf, BitsOf
  <2>11. packetNum' <= Len(sent')
    BY <1>1, <1>3, <1>4, <2>4
  <2> QED BY <1>1, <1>4, <2>2, <2>10, <2>11 DEF Packeted
<1>5. CASE /\ n = 0 /\ rv' = -1 /\ calling' = FALSE
           /\ UNCHANGED <<awaiting, rest, packetNum, toServer, sent>>
  BY <1>1, <1>5, PacketedStays
<1> QED BY <1>4, <1>5 DEF SendPacket

LEMMA PacketedStep ==
  ASSUME Base, Base', Packeted, [Next]_vars
  PROVE  Packeted'
<1> USE DEF Base
<1>1. rest' \in Seq(Byte) /\ sent' \in Seq(Command)
  BY DEF ClientTyped
<1>2. CASE CallRequest
  <2>1. packetNum' = 0 /\ text' = <<>> /\ rest' = <<>> /\ calling' = TRUE /\ awaiting' = TRUE
    BY <1>2 DEF CallRequest, SendRequest
  <2> QED BY <1>1, <2>1, PacketedStarts
<1>3. CASE CallSendGCode
  <2>1. packetNum' = 0 /\ rest' = text' /\ calling' = (text' # <<>>)
    BY <1>3 DEF CallSendGCode
  <2> QED BY <1>1, <2>1, PacketedStarts
<1>4. CASE SendPacket
  BY <1>4, SendPacketTells
<1>5. ASSUME NEW result, Continue(result)
      PROVE  Packeted'
  <2>1. calling' = (rv' # -1 /\ rest # <<>>) /\ awaiting' = FALSE
        /\ UNCHANGED <<rest, packetNum, text, sent>>
    BY <1>5 DEF Continue
  <2> QED BY <2>1, PacketedStays
<1>6. CASE ReceiveReply
  BY <1>5, <1>6 DEF ReceiveReply
<1>7. CASE NoReply
  BY <1>5, <1>7 DEF NoReply
<1>8. CASE ServerStep \/ UNCHANGED vars
  <2>1. UNCHANGED clientVars
    BY <1>8 DEF ServerStep, ReadData, RunCommand, SendReply, vars
  <2>2. UNCHANGED <<calling, awaiting, rv, sent, packetNum, text, rest>>
    BY <2>1 DEF clientVars
  <2>3. (calling' /\ ~awaiting') => rest # <<>>
    BY <2>2 DEF Packeted
  <2>4. (~calling' /\ rv' # -1) => rest = <<>>
    BY <2>2 DEF Packeted
  <2> QED BY <2>2, <2>3, <2>4, PacketedStays
<1> QED BY <1>2, <1>3, <1>4, <1>6, <1>7, <1>8 DEF Next, ClientStep

-----------------------------------------------------------------------------
(* The theorems *)

Inductive == Base /\ Packeted

LEMMA InitHolds == Init => Inductive
<1> SUFFICES ASSUME Init PROVE Inductive
  OBVIOUS
<1>1. ClientTyped
  <2>1. <<>> \in Seq(Byte) /\ <<>> \in Seq(Command) /\ <<>> \in Seq(Nat)
    BY EmptySeq
  <2>2. 0 \in 0..MaxCalls /\ -1 \in -4..0
    BY PacketAssumption
  <2> QED BY <2>1, <2>2 DEF Init, ClientTyped
<1>2. ServerTyped
  BY EmptySeq DEF Init, ServerTyped
<1>3. Streamed
  <2>1. <<>> \in Seq(Command) /\ <<>> \o <<>> = <<>>
    BY EmptySeq, ConcatEmptySeq
  <2>2. sent = ran \o <<>> /\ buffer \o toServer = Wire(<<>>)
    BY <2>1, WireEmpty DEF Init
  <2> QED BY <2>1, <2>2 DEF Streamed
<1>4. InStep
  <2>1. Len(<<>>) = 0 /\ 1..0 = {}
    OBVIOUS
  <2> QED BY <2>1 DEF Init, InStep
<1>5. Packeted
  <2> DEFINE P == Packets
             t == <<>>
  <2>1. t \in Seq(Byte)
    BY EmptySeq
  <2> HIDE DEF P, t
  <2>2. Told(P, 0, t, t)
    BY <2>1, ToldNothing
  <2>3. Told(P, packetNum, text, rest)
    BY <2>2 DEF Init, t
  <2>4. packetNum <= Len(sent)
    BY DEF Init
  <2> QED BY <2>3, <2>4 DEF Init, Packeted, P
<1> QED BY <1>1, <1>2, <1>3, <1>4, <1>5 DEF Inductive, Base

LEMMA StepHolds == Inductive /\ [Next]_vars => Inductive'
<1> SUFFICES ASSUME Inductive, [Next]_vars PROVE Inductive'
  OBVIOUS
<1>1. Base /\ Packeted
  BY DEF Inductive
<1>2. Base'
  <2>1. CASE UNCHANGED vars
    BY <1>1, <2>1 DEF vars, clientVars, serverVars, Base, ClientTyped, ServerTyped,
                     Streamed, InStep
  <2>2. CASE ClientStep
    BY <1>1, <2>2, CallRequestKeeps, CallSendGCodeKeeps, SendPacketKeeps,
       ReceiveReplyKeeps, NoReplyKeeps DEF ClientStep
  <2>3. CASE ServerStep
    BY <1>1, <2>3, ReadDataKeeps, RunCommandKeeps, SendReplyKeeps DEF ServerStep
  <2> QED BY <2>1, <2>2, <2>3 DEF Next
<1> QED BY <1>1, <1>2, PacketedStep DEF Inductive

LEMMA InvariantHolds == Spec => []Inductive
BY InitHolds, StepHolds, PTL DEF Spec

(* Numbers fit their fields, what is on the socket are bytes, what has     *)
(* been run are commands, and a call waits only while it runs.             *)
THEOREM TypeCorrect == Spec => []TypeOK
<1>1. Inductive => TypeOK
  BY TypesMean DEF Inductive, Base
<1> QED BY <1>1, InvariantHolds, PTL

(* However sendAndReceiveData() and readAndAppendAvailableData() cut the   *)
(* stream, ipc_cmd_get() and ipc_cmd_remove() hand the server exactly the  *)
(* requests that were sent, in their order, and nothing is left over.      *)
THEOREM StreamIsRun == Spec => []RunsWhatIsSent
<1>1. Inductive => RunsWhatIsSent
  <2> SUFFICES ASSUME Inductive PROVE RunsWhatIsSent
    OBVIOUS
  <2>1. Streamed /\ buffer \in Seq(Byte) /\ toServer \in Seq(Byte) /\ ran \in Seq(Command)
    BY DEF Inductive, Base, ServerTyped
  <2>2. PICK todo \in Seq(Command) : sent = ran \o todo /\ buffer \o toServer = Wire(todo)
    BY <2>1 DEF Streamed
  <2> DEFINE r == Len(ran)
             u == ran \o todo
             a == SubSeq(ran, 1, r)
             b == SubSeq(u, 1, r)
  <2>3. /\ u \in Seq(Command) /\ Len(u) = r + Len(todo)
        /\ \A i \in 1..(r + Len(todo)) : u[i] = IF i <= r THEN ran[i] ELSE todo[i - r]
    BY <2>1, ConcatProperties
  <2>4. r \in Nat /\ Len(todo) \in Nat
    BY <2>1
  <2>5. IsPrefix(ran, sent)
    <3> HIDE DEF u, r
    <3>1. r \in 0..Len(ran) /\ r \in 0..Len(u)
      BY <2>3, <2>4 DEF r
    <3>2. a \in Seq(Command) /\ Len(a) = r /\ \A i \in 1..r : a[i] = ran[i]
      BY <2>1, <3>1, CutFacts
    <3>3. b \in Seq(Command) /\ Len(b) = r /\ \A i \in 1..r : b[i] = u[i]
      BY <2>3, <3>1, CutFacts
    <3>4. \A i \in 1..r : u[i] = ran[i]
      BY <2>3, <2>4
    <3> HIDE DEF a, b
    <3>5. a = b
      BY <3>2, <3>3, <3>4, SeqEqual
    <3>6. Len(ran) <= Len(sent)
      BY <2>2, <2>3, <2>4 DEF u, r
    <3> QED BY <2>2, <3>5, <3>6 DEF IsPrefix, a, b, u, r
  <2>6. (toServer = <<>> /\ CommandLength(buffer) = 0) => ran = sent
    <3> HAVE toServer = <<>> /\ CommandLength(buffer) = 0
    <3>1. todo = <<>>
      BY <2>1, <2>2, FirstCommand
    <3> QED BY <2>1, <2>2, <3>1, ConcatEmptySeq
  <2> QED BY <2>5, <2>6 DEF RunsWhatIsSent
<1> QED BY <1>1, InvariantHolds, PTL

(* The packets that comm_sendGCodeData() cuts off make up the text, end at *)
(* line breaks and carry the marks of the first and the last.              *)
THEOREM TextIsSent == Spec => []TextInPackets
<1>1. Inductive => TextInPackets
  BY PacketsTell DEF Inductive
<1> QED BY <1>1, InvariantHolds, PTL

(* As long as sendAndReceiveDataWithFd() has not timed out and no handler  *)
(* has replied twice, the first reply that is read is to the request that  *)
(* was sent last.                                                          *)
THEOREM RepliesMatch == Spec => []AnswersInStep
<1>1. Inductive => AnswersInStep
  <2> SUFFICES ASSUME Inductive, ~astray PROVE AnswersInStep
    BY DEF AnswersInStep
  <2>1. InStep /\ toClient \in Seq(AReply) /\ replying \in Seq(AReply) /\ awaiting \in BOOLEAN
    BY DEF Inductive, Base, ClientTyped, ServerTyped
  <2>2. \A i \in 1..Len(answered) :
          answered[i] = Len(sent) - (Len(answered) - i) - (IF awaiting THEN 1 ELSE 0)
    BY <2>1 DEF InStep
  <2>3. \A i \in 1..Len(toClient) : awaiting /\ toClient[i].to = Len(sent)
    <3>1. CASE toClient = <<>>
      <4>1. 1..Len(toClient) = {}
        BY <3>1
      <4> QED BY <4>1
    <3>2. CASE toClient # <<>>
      BY <2>1, <3>2 DEF InStep
    <3> QED BY <3>1, <3>2
  <2> QED BY <2>2, <2>3 DEF AnswersInStep
<1> QED BY <1>1, InvariantHolds, PTL
=============================================================================
