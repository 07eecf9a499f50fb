------------------------ MODULE CommandServerProofs ------------------------
(***************************************************************************)
(* Theorems about CommandServer, for any set of clients and any bounds:    *)
(* types, texts that reach the driver in one piece, and an ok that tells   *)
(* the truth about the whole text.                                         *)
(***************************************************************************)
EXTENDS CommandServer, SequenceTheorems, TLAPS

(* A chunk of a text that goes on, and the first n of them *)
Middle(c, j, k) == TextOf(c, j, k, FALSE)

Begun(c, j, n) == [k \in 1..n |-> Middle(c, j, k)]

(* A transaction is the beginning of one text of its client. *)
IsTransaction(c, t) ==
  /\ t.active <=> t.buffer # <<>>
  /\ \E j \in Nat : t.buffer = Begun(c, j, Len(t.buffer))

(* A request is marked as its place in its text demands. *)
IsRequest(c, r) ==
  /\ r.text.client = c
  /\ r.first <=> r.text.chunk = 1
  /\ r.last = r.text.last
  /\ r.op = "append" => r.text.chunk >= 1
  /\ r.op \in {"file", "stop"} => r.text.chunk = 1 /\ r.text.last

OnServer(l) == l \in {"open", "closed"}

NoAppend(q, i, j) == \A m \in i..j : q[m].op # "append"

(* Before place n of the queue q of a client stand the first k chunks of   *)
(* text j: the last of them in the queue, or all in the buffer b of the    *)
(* transaction of an accepted connection.                                  *)
Preceded(c, q, b, l, n, j, k) ==
  \/ \E i \in 1..(n - 1) :
       /\ q[i].op = "append" /\ q[i].text = Middle(c, j, k)
       /\ NoAppend(q, i + 1, n - 1)
  \/ /\ NoAppend(q, 1, n - 1)
     /\ OnServer(l)
     /\ b = Begun(c, j, k)

(* The chunks of a text follow each other through the client, the socket   *)
(* and the transaction, on one connection.                                 *)
QueueChained(c, q, b, l) ==
  \A i \in 1..Len(q) :
    (q[i].op = "append" /\ q[i].text.chunk > 1) =>
      Preceded(c, q, b, l, i, q[i].text.job, q[i].text.chunk - 1)

Chained(c, l, q, b, j, k) ==
  /\ l = "none" => q = <<>>
  /\ QueueChained(c, q, b, l)
  /\ (k > 0 /\ l \in Connected) => Preceded(c, q, b, l, Len(q) + 1, j, k)

ClientFormed(c, l, q, t, j, k) ==
  /\ IsTransaction(c, t)
  /\ \A i \in 1..Len(q) : IsRequest(c, q[i])
  /\ Chained(c, l, q, t.buffer, j, k)

Formed ==
  \A c \in Client : ClientFormed(c, link[c], requests[c], trx[c], job[c], chunk[c])

(* The inductive invariant *)
Inductive == TypeOK /\ Formed /\ TextsInOnePiece

-----------------------------------------------------------------------------
(* Texts and transactions *)

LEMMA TextType ==
  ASSUME NEW c \in Client, NEW j \in Nat, NEW k \in Nat, NEW last \in BOOLEAN
  PROVE  /\ TextOf(c, j, k, last) \in Text
         /\ TextOf(c, j, k, last).client = c /\ TextOf(c, j, k, last).job = j
         /\ TextOf(c, j, k, last).chunk = k /\ TextOf(c, j, k, last).last = last
BY DEF TextOf, Text

LEMMA MiddleType ==
  ASSUME NEW c \in Client, NEW j \in Nat, NEW k \in Nat
  PROVE  /\ Middle(c, j, k) \in Text
         /\ Middle(c, j, k).client = c /\ Middle(c, j, k).job = j
         /\ Middle(c, j, k).chunk = k /\ Middle(c, j, k).last = FALSE
BY DEF Middle, TextOf, Text

LEMMA BegunType ==
  ASSUME NEW c \in Client, NEW j \in Nat, NEW n \in Nat
  PROVE  /\ Begun(c, j, n) \in Seq(Text) /\ Len(Begun(c, j, n)) = n
         /\ \A k \in 1..n : Begun(c, j, n)[k] = Middle(c, j, k)
<1>1. ASSUME NEW k \in 1..n PROVE Middle(c, j, k) \in Text
  <2>1. k \in Nat
    OBVIOUS
  <2> QED BY <2>1, MiddleType
<1> QED
  BY <1>1 DEF Begun

(* A chunk after the first k chunks of its text *)
LEMMA BegunAppend ==
  ASSUME NEW c \in Client, NEW j \in Nat, NEW n \in Nat, NEW text \in Text
  PROVE  /\ Append(Begun(c, j, n), text) =
              [k \in 1..(n + 1) |-> IF k = n + 1 THEN text ELSE Middle(c, j, k)]
         /\ text = Middle(c, j, n + 1) =>
              Append(Begun(c, j, n), text) = Begun(c, j, n + 1)
<1> DEFINE b == Begun(c, j, n)
           longer == Append(b, text)
           f == [k \in 1..(n + 1) |-> IF k = n + 1 THEN text ELSE Middle(c, j, k)]
<1>1. /\ b \in Seq(Text) /\ Len(b) = n
      /\ \A k \in 1..n : b[k] = Middle(c, j, k)
  BY BegunType
<1> HIDE DEF b
<1>2. /\ longer \in Seq(Text) /\ Len(longer) = n + 1 /\ longer[n + 1] = text
      /\ \A k \in 1..n : longer[k] = b[k]
  BY <1>1, AppendProperties
<1> HIDE DEF longer
<1>3. longer = [k \in 1..(n + 1) |-> longer[k]]
  BY <1>2
<1>4. \A k \in 1..(n + 1) : longer[k] = f[k]
  BY <1>1, <1>2
<1>5. longer = f
  BY <1>3, <1>4
<1>6. text = Middle(c, j, n + 1) => f = Begun(c, j, n + 1)
  BY DEF Begun
<1> QED
  BY <1>5, <1>6 DEF b, longer

LEMMA TransactionType ==
  ASSUME NEW t \in Transaction
  PROVE  /\ t.buffer \in Seq(Text) /\ t.active \in BOOLEAN /\ t.cancelled \in BOOLEAN
BY DEF Transaction

LEMMA CancelFields ==
  ASSUME NEW t \in Transaction
  PROVE  [t EXCEPT !.cancelled = TRUE] =
           [buffer |-> t.buffer, active |-> t.active, cancelled |-> TRUE]
<1> DEFINE yes == TRUE
           e == [t EXCEPT !.cancelled = yes]
<1>1. e = [t EXCEPT !.cancelled = yes]
  OBVIOUS
<1> HIDE DEF e
<1>2. e = [buffer |-> t.buffer, active |-> t.active, cancelled |-> yes]
  BY <1>1 DEF Transaction
<1> QED
  BY <1>2 DEF e

LEMMA FreshType ==
  ASSUME NEW c \in Client
  PROVE  FreshTransaction \in Transaction /\ FreshTransaction.buffer = <<>>
         /\ IsTransaction(c, FreshTransaction)
<1> DEFINE none == <<>>
<1>1. none \in Seq(Text) /\ Len(none) = 0
  OBVIOUS
<1>2. none = Begun(c, 0, 0)
  BY DEF Begun
<1>3. none = Begun(c, 0, Len(none))
  BY ONLY <1>1, <1>2
<1>4. FreshTransaction = [buffer |-> none, active |-> FALSE, cancelled |-> FALSE]
  BY DEF FreshTransaction
<1> HIDE DEF none
<1>5. FreshTransaction \in Transaction /\ FreshTransaction.buffer = none
      /\ FreshTransaction.active = FALSE
  BY <1>1, <1>4 DEF Transaction
<1>6. IsTransaction(c, FreshTransaction)
  BY <1>3, <1>5 DEF IsTransaction, none
<1> QED
  BY <1>5, <1>6 DEF none

(* What hnd_gcodeAppend() makes of a transaction, field by field *)
LEMMA CollectedFields ==
  ASSUME NEW t \in Transaction, NEW r \in Request
  PROVE  Collected(t, r) =
           [buffer |-> Append(IF r.first THEN <<>> ELSE t.buffer, r.text),
            active |-> t.active \/ r.first, cancelled |-> t.cancelled]
<1> DEFINE kept == IF r.first THEN <<>> ELSE t.buffer
           b == Append(kept, r.text)
           a == t.active \/ r.first
<1>1. Collected(t, r) = [t EXCEPT !.buffer = b, !.active = a]
  BY DEF Collected
<1> HIDE DEF b, a
<1>2. Collected(t, r) = [buffer |-> b, active |-> a, cancelled |-> t.cancelled]
  BY <1>1 DEF Transaction
<1> QED
  BY <1>2 DEF a, b

-----------------------------------------------------------------------------
(* A request is added at the end of the queue, or taken from its head. *)

LEMMA PrecededAppend ==
  ASSUME NEW c, NEW q \in Seq(Request), NEW b, NEW l, NEW r \in Request,
         NEW n \in 1..(Len(q) + 1), NEW j, NEW k,
         Preceded(c, q, b, l, n, j, k)
  PROVE  Preceded(c, Append(q, r), b, l, n, j, k)
<1> DEFINE longer == Append(q, r)
<1>0. Len(q) \in Nat /\ \A m \in 1..(n - 1) : longer[m] = q[m]
  OBVIOUS
<1> HIDE DEF longer
<1>1. CASE \E i \in 1..(n - 1) : /\ q[i].op = "append" /\ q[i].text = Middle(c, j, k)
                                 /\ NoAppend(q, i + 1, n - 1)
  <2>1. PICK i \in 1..(n - 1) : /\ q[i].op = "append" /\ q[i].text = Middle(c, j, k)
                                /\ NoAppend(q, i + 1, n - 1)
    BY <1>1
  <2>2. NoAppend(longer, i + 1, n - 1)
    BY <1>0, <2>1 DEF NoAppend
  <2>3. longer[i] = q[i]
    BY <1>0
  <2> QED
    BY <2>1, <2>2, <2>3 DEF Preceded, longer
<1>2. CASE NoAppend(q, 1, n - 1) /\ OnServer(l) /\ b = Begun(c, j, k)
  <2>1. NoAppend(longer, 1, n - 1)
    BY <1>0, <1>2 DEF NoAppend
  <2> QED
    BY <1>2, <2>1 DEF Preceded, longer
<1> QED
  BY <1>1, <1>2 DEF Preceded

(* The chunks before the end of the queue stay there when another request  *)
(* follows, and a chunk that does precedes what comes after it.            *)
LEMMA PrecededEnd ==
  ASSUME NEW c, NEW q \in Seq(Request), NEW b, NEW l, NEW r \in Request, NEW j, NEW k,
         \/ r.op # "append" /\ Preceded(c, q, b, l, Len(q) + 1, j, k)
         \/ r.op = "append" /\ r.text = Middle(c, j, k)
  PROVE  Preceded(c, Append(q, r), b, l, Len(q) + 2, j, k)
<1> DEFINE longer == Append(q, r)
           n == Len(q) + 1
<1>0. /\ Len(q) \in Nat /\ n \in Nat /\ n \in 1..n /\ Len(q) + 2 = n + 1 /\ (n + 1) - 1 = n
      /\ n - 1 \in Nat /\ n \in 1..(Len(q) + 1)
      /\ longer[n] = r
  OBVIOUS
<1> HIDE DEF longer, n
<1>1. CASE r.op = "append" /\ r.text = Middle(c, j, k)
  <2>1. NoAppend(longer, n + 1, n)
    BY <1>0 DEF NoAppend
  <2>2. \E i \in 1..n : /\ longer[i].op = "append" /\ longer[i].text = Middle(c, j, k)
                        /\ NoAppend(longer, i + 1, n)
    BY <1>0, <1>1, <2>1
  <2> QED
    BY <1>0, <2>2 DEF Preceded, longer
<1>2. CASE r.op # "append" /\ Preceded(c, q, b, l, n, j, k)
  <2>1. Preceded(c, longer, b, l, n, j, k)
    BY <1>0, <1>2, PrecededAppend DEF longer
  <2>2. CASE \E i \in 1..(n - 1) : /\ longer[i].op = "append" /\ longer[i].text = Middle(c, j, k)
                                   /\ NoAppend(longer, i + 1, n - 1)
    <3>1. PICK i \in 1..(n - 1) : /\ longer[i].op = "append" /\ longer[i].text = Middle(c, j, k)
                                  /\ NoAppend(longer, i + 1, n - 1)
      BY <2>2
    <3>2. NoAppend(longer, i + 1, n)
      BY <1>0, <1>2, <3>1 DEF NoAppend
    <3>3. i \in 1..n
      BY <1>0
    <3> QED
      BY <1>0, <3>1, <3>2, <3>3 DEF Preceded, longer
  <2>3. CASE NoAppend(longer, 1, n - 1) /\ OnServer(l) /\ b = Begun(c, j, k)
    <3>1. NoAppend(longer, 1, n)
      BY <1>0, <1>2, <2>3 DEF NoAppend
    <3> QED
      BY <1>0, <2>3, <3>1 DEF Preceded, longer
  <2> QED
    BY <2>1, <2>2, <2>3 DEF Preceded
<1> QED
  BY <1>1, <1>2 DEF n

LEMMA QueueChainedAppend ==
  ASSUME NEW c, NEW q \in Seq(Request), NEW b, NEW l, NEW r \in Request,
         QueueChained(c, q, b, l),
         (r.op = "append" /\ r.text.chunk > 1) =>
           Preceded(c, q, b, l, Len(q) + 1, r.text.job, r.text.chunk - 1)
  PROVE  QueueChained(c, Append(q, r), b, l)
<1> DEFINE longer == Append(q, r)
<1>0. /\ Len(q) \in Nat /\ Len(longer) = Len(q) + 1
      /\ \A i \in 1..Len(longer) : i \in 1..(Len(q) + 1)
      /\ longer[Len(q) + 1] = r /\ \A i \in 1..Len(q) : longer[i] = q[i]
  OBVIOUS
<1> HIDE DEF longer
<1> SUFFICES ASSUME NEW i \in 1..Len(longer),
                    longer[i].op = "append", longer[i].text.chunk > 1
             PROVE  Preceded(c, longer, b, l, i, longer[i].text.job, longer[i].text.chunk - 1)
  BY DEF QueueChained, longer
<1> DEFINE j == longer[i].text.job
           k == longer[i].text.chunk - 1
<1>1. Preceded(c, q, b, l, i, j, k)
  <2>1. CASE i \in 1..Len(q)
    BY <1>0, <2>1 DEF QueueChained
  <2>2. CASE i = Len(q) + 1
    BY <1>0, <2>2
  <2> QED
    BY <1>0, <2>1, <2>2
<1>2. i \in 1..(Len(q) + 1)
  BY <1>0
<1> HIDE DEF j, k
<1>3. Preceded(c, longer, b, l, i, j, k)
  BY <1>1, <1>2, PrecededAppend DEF longer
<1> QED
  BY <1>3 DEF j, k

(* The server runs the request at the head: b becomes b2, which holds the  *)
(* chunk if the head was one that is not the last of its text.             *)
LEMMA PrecededTail ==
  ASSUME NEW c, NEW q \in Seq(Request), q # <<>>, NEW b, NEW b2, NEW l, OnServer(l),
         NEW n \in 2..(Len(q) + 1), NEW j, NEW k,
         Preceded(c, q, b, l, n, j, k),
         q[1].op # "append" => b2 = b,
         (q[1].op = "append" /\ q[1].text = Middle(c, j, k)) => b2 = Begun(c, j, k)
  PROVE  Preceded(c, Tail(q), b2, l, n - 1, j, k)
<1> DEFINE rest == Tail(q)
           p == n - 1
<1>0. /\ Len(q) \in Nat \ {0} /\ p \in Nat \ {0} /\ 1 \in 1..p /\ p - 1 \in Nat
      /\ n - 1 = p /\ (p - 1) + 1 = p
      /\ \A m \in 1..(p - 1) : rest[m] = q[m + 1] /\ m + 1 \in 1..p
  OBVIOUS
<1> HIDE DEF rest, p
<1>1. CASE \E i \in 1..p : /\ q[i].op = "append" /\ q[i].text = Middle(c, j, k)
                           /\ NoAppend(q, i + 1, p)
  <2>1. PICK i \in 1..p : /\ q[i].op = "append" /\ q[i].text = Middle(c, j, k)
                          /\ NoAppend(q, i + 1, p)
    BY <1>1
  <2>0. NoAppend(rest, i, p - 1)
    <3> SUFFICES ASSUME NEW m \in i..(p - 1) PROVE rest[m].op # "append"
      BY DEF NoAppend
    <3>1. m \in 1..(p - 1) /\ m + 1 \in (i + 1)..p
      BY <1>0
    <3> QED BY <1>0, <2>1, <3>1 DEF NoAppend
  <2>2. CASE i = 1
    <3>1. NoAppend(rest, 1, p - 1)
      BY <2>0, <2>2
    <3>2. b2 = Begun(c, j, k)
      BY <2>1, <2>2
    <3> QED
      BY <1>0, <3>1, <3>2 DEF Preceded, rest
  <2>3. CASE i # 1
    <3>1. i - 1 \in 1..(p - 1) /\ (i - 1) + 1 = i
      BY <1>0, <2>3
    <3>2. rest[i - 1] = q[i]
      BY <1>0, <3>1
    <3>3. NoAppend(rest, (i - 1) + 1, p - 1)
      BY <2>0, <3>1
    <3> QED
      <4> DEFINE h == i - 1
      <4>1. /\ h \in 1..(p - 1) /\ rest[h].op = "append" /\ rest[h].text = Middle(c, j, k)
            /\ NoAppend(rest, h + 1, p - 1)
        BY <2>1, <3>1, <3>2, <3>3
      <4> HIDE DEF h
      <4>2. Preceded(c, rest, b2, l, p, j, k)
        BY <4>1 DEF Preceded
      <4> QED
        BY <1>0, <4>2 DEF rest
  <2> QED
    BY <2>2, <2>3
<1>2. CASE NoAppend(q, 1, p) /\ b = Begun(c, j, k)
  <2>1. q[1].op # "append"
    BY <1>0, <1>2 DEF NoAppend
  <2>2. NoAppend(rest, 1, p - 1)
    BY <1>0, <1>2 DEF NoAppend
  <2> QED
    BY <1>0, <1>2, <2>1, <2>2 DEF Preceded, rest
<1> QED
  BY <1>0, <1>1, <1>2 DEF Preceded

-----------------------------------------------------------------------------
(* What hnd_gcodeAppend() collects: all chunks of the text up to this one  *)

LEMMA RequestFields ==
  ASSUME NEW r \in Request
  PROVE  /\ r.op \in Op /\ r.text \in Text /\ r.first \in BOOLEAN /\ r.last \in BOOLEAN
         /\ r.text.client \in Client /\ r.text.job \in Nat /\ r.text.chunk \in Nat
         /\ r.text.last \in BOOLEAN
         /\ r.text = [client |-> r.text.client, job |-> r.text.job,
                      chunk |-> r.text.chunk, last |-> r.text.last]
BY DEF Request, Text

LEMMA CollectedBuffer ==
  ASSUME NEW c \in Client, NEW t \in Transaction, IsTransaction(c, t),
         NEW q \in Seq(Request), q # <<>>, IsRequest(c, q[1]), q[1].op = "append",
         NEW l, QueueChained(c, q, t.buffer, l)
  PROVE  /\ q[1].last => Collected(t, q[1]).buffer = ChunksOf(q[1])
         /\ ~q[1].last => Collected(t, q[1]).buffer = Begun(c, q[1].text.job, q[1].text.chunk)
         /\ Collected(t, q[1]).active
         /\ Collected(t, q[1]).cancelled = t.cancelled
<1> DEFINE r == q[1]
           text == r.text
           j == text.job
           n == text.chunk - 1
           kept == IF r.first THEN <<>> ELSE t.buffer
<1>1. r \in Request /\ 1 \in 1..Len(q)
  BY HeadTailProperties
<1>2. /\ text \in Text /\ j \in Nat /\ n \in Nat /\ n + 1 = text.chunk
      /\ text = [client |-> c, job |-> j, chunk |-> n + 1, last |-> r.last]
      /\ r.first \in BOOLEAN /\ r.last \in BOOLEAN
  <2>1. text \in Text /\ j \in Nat /\ text.chunk \in Nat /\ r.first \in BOOLEAN /\ r.last \in BOOLEAN
    BY <1>1, RequestFields
  <2>2. text.client = c /\ text.last = r.last /\ text.chunk >= 1
    BY DEF IsRequest
  <2>3. text = [client |-> text.client, job |-> j, chunk |-> text.chunk, last |-> text.last]
    BY <1>1, RequestFields
  <2>4. n \in Nat /\ n + 1 = text.chunk
    BY <2>1, <2>2
  <2> HIDE DEF n, j, text, r
  <2> QED
    BY <2>1, <2>2, <2>3, <2>4
<1>3. r.first <=> n = 0
  BY <1>2 DEF IsRequest
<1>4. ~r.first => t.buffer = Begun(c, j, n)
  <2> HAVE ~r.first
  <2>1. Preceded(c, q, t.buffer, l, 1, j, n)
    BY <1>1, <1>2, <1>3 DEF QueueChained
  <2> HIDE DEF r, text, j, n
  <2> QED
    BY <2>1 DEF Preceded
<1> HIDE DEF n, j
<1>5. kept = Begun(c, j, n)
  <2>1. CASE r.first
    <3>1. Begun(c, j, 0) = <<>>
      BY DEF Begun
    <3> QED BY <1>3, <2>1, <3>1
  <2> QED
    BY <1>2, <1>4, <2>1
<1>6. Collected(t, r) = [buffer |-> Append(kept, text), active |-> t.active \/ r.first,
                         cancelled |-> t.cancelled]
  BY <1>1, CollectedFields
<1>7. t.active \/ r.first
  <2> SUFFICES ASSUME ~r.first PROVE t.active
    OBVIOUS
  <2>1. Len(t.buffer) = n /\ n # 0
    BY <1>2, <1>3, <1>4, BegunType
  <2>2. t.buffer # <<>>
    BY <2>1
  <2> QED BY <2>2 DEF IsTransaction
<1> HIDE DEF kept, text, r
<1> DEFINE b == Append(Begun(c, j, n), text)
           a == t.active \/ r.first
<1>8. /\ b = [k \in 1..(n + 1) |-> IF k = n + 1 THEN text ELSE Middle(c, j, k)]
      /\ text = Middle(c, j, n + 1) => b = Begun(c, j, n + 1)
  <2>1. c \in Client /\ j \in Nat /\ n \in Nat /\ text \in Text
    BY <1>2
  <2> QED BY ONLY <2>1, BegunAppend
<1>9. Collected(t, r) = [buffer |-> b, active |-> a, cancelled |-> t.cancelled] /\ a
  BY <1>5, <1>6, <1>7
<1> HIDE DEF b, a
<1>10. /\ Collected(t, r).buffer = b /\ Collected(t, r).active
       /\ Collected(t, r).cancelled = t.cancelled
  BY <1>9
<1>11. CASE r.last = TRUE
  <2>1. ChunksOf(r) = [k \in 1..(n + 1) |-> TextOf(c, j, k, k = n + 1)]
    BY <1>2 DEF ChunksOf, text, j
  <2>2. ASSUME NEW k \in 1..(n + 1)
        PROVE  (IF k = n + 1 THEN text ELSE Middle(c, j, k)) = TextOf(c, j, k, k = n + 1)
    <3>1. CASE k = n + 1
      <4>1. TextOf(c, j, k, k = n + 1) = [client |-> c, job |-> j, chunk |-> n + 1, last |-> TRUE]
        BY <3>1 DEF TextOf
      <4> QED BY <1>2, <1>11, <3>1, <4>1
    <3>2. CASE k # n + 1
      <4>1. TextOf(c, j, k, k = n + 1) = [client |-> c, job |-> j, chunk |-> k, last |-> FALSE]
        BY <3>2 DEF TextOf
      <4> QED BY <3>2, <4>1 DEF Middle, TextOf
    <3> QED BY <3>1, <3>2
  <2>3. b = ChunksOf(r)
    BY <1>8, <2>1, <2>2
  <2> QED
    BY <1>10, <1>11, <2>3 DEF r
<1>12. CASE r.last = FALSE
  <2>2. text = Middle(c, j, n + 1)
    BY <1>2, <1>12 DEF TextOf, Middle
  <2>3. b = Begun(c, j, text.chunk)
    BY <1>2, <1>8, <2>2
  <2> QED
    BY <1>10, <1>12, <2>3 DEF r, j, text
<1> QED
  BY <1>2, <1>11, <1>12

-----------------------------------------------------------------------------
(* Texts in the driver's buffer *)

InOnePiece(g) ==
  \A i \in 1..Len(g) :
    /\ g[i].chunk > 1 => i > 1 /\ Continues(g[i - 1], g[i])
    /\ ~g[i].last => i < Len(g) /\ Continues(g[i], g[i + 1])

LEMMA InOnePieceConcat ==
  ASSUME NEW g \in Seq(Text), NEW h \in Seq(Text), InOnePiece(g), InOnePiece(h)
  PROVE  g \o h \in Seq(Text) /\ InOnePiece(g \o h)
<1> DEFINE a == g \o h
           m == Len(g)
           n == Len(h)
<1>1. /\ a \in Seq(Text) /\ m \in Nat /\ n \in Nat /\ Len(a) = m + n
      /\ \A i \in 1..m : a[i] = g[i]
      /\ \A i \in 1..n : a[m + i] = h[i]
  BY ConcatProperties
<1> HIDE DEF a
<1>2. ASSUME NEW i \in 1..Len(a)
      PROVE  /\ a[i].chunk > 1 => i > 1 /\ Continues(a[i - 1], a[i])
             /\ ~a[i].last => i < Len(a) /\ Continues(a[i], a[i + 1])
  <2>1. CASE i \in 1..m
    <3>1. /\ g[i].chunk > 1 => i > 1 /\ Continues(g[i - 1], g[i])
          /\ ~g[i].last => i < m /\ Continues(g[i], g[i + 1])
      BY <2>1 DEF InOnePiece
    <3>2. a[i] = g[i] /\ (i > 1 => a[i - 1] = g[i - 1]) /\ (i < m => a[i + 1] = g[i + 1])
      BY <1>1, <2>1
    <3>3. i < m => i < Len(a)
      BY <1>1
    <3> QED
      BY <3>1, <3>2, <3>3
  <2>2. CASE i \in (m + 1)..(m + n)
    <3> DEFINE k == i - m
    <3>1. k \in 1..n /\ i = m + k /\ (k > 1 => i > 1) /\ (k < n => i < Len(a))
      BY <1>1, <2>2
    <3>2. a[i] = h[k] /\ (k > 1 => a[i - 1] = h[k - 1]) /\ (k < n => a[i + 1] = h[k + 1])
      <4>1. k > 1 => k - 1 \in 1..n /\ i - 1 = m + (k - 1)
        BY <1>1, <3>1
      <4>2. k < n => k + 1 \in 1..n /\ i + 1 = m + (k + 1)
        BY <1>1, <3>1
      <4> HIDE DEF k, m, n
      <4> QED
        BY <1>1, <3>1, <4>1, <4>2
    <3> HIDE DEF k
    <3>3. /\ h[k].chunk > 1 => k > 1 /\ Continues(h[k - 1], h[k])
          /\ ~h[k].last => k < n /\ Continues(h[k], h[k + 1])
      BY <3>1 DEF InOnePiece
    <3> QED
      BY <3>1, <3>2, <3>3
  <2> QED
    BY <1>1, <2>1, <2>2
<1> QED
  BY <1>1, <1>2 DEF InOnePiece, a

LEMMA InOnePieceEmpty == <<>> \in Seq(Text) /\ InOnePiece(<<>>)
BY DEF InOnePiece

LEMMA InOnePieceWhole ==
  ASSUME NEW text \in Text, text.chunk = 1, text.last
  PROVE  <<text>> \in Seq(Text) /\ InOnePiece(<<text>>)
<1> DEFINE g == <<text>>
<1>1. g \in Seq(Text) /\ Len(g) = 1 /\ g[1] = text
  OBVIOUS
<1> HIDE DEF g
<1>2. InOnePiece(g)
  BY <1>1 DEF InOnePiece
<1> QED
  BY <1>1, <1>2 DEF g

LEMMA ChunksInOnePiece ==
  ASSUME NEW r \in Request, r.text.chunk >= 1
  PROVE  ChunksOf(r) \in Seq(Text) /\ Len(ChunksOf(r)) >= 1 /\ InOnePiece(ChunksOf(r))
<1> DEFINE n == r.text.chunk
           c == r.text.client
           j == r.text.job
           piece(k) == TextOf(c, j, k, k = n)
           g == ChunksOf(r)
<1>1. n \in Nat /\ n >= 1 /\ c \in Client /\ j \in Nat
  BY RequestFields
<1>2. g = [k \in 1..n |-> piece(k)]
  BY DEF ChunksOf
<1> HIDE DEF n, c, j, g
<1>3. ASSUME NEW k \in 1..n
      PROVE  /\ piece(k) \in Text /\ piece(k).client = c /\ piece(k).job = j
             /\ piece(k).chunk = k /\ (piece(k).last <=> k = n)
  <2>1. piece(k) = [client |-> c, job |-> j, chunk |-> k, last |-> k = n]
    BY DEF TextOf
  <2>2. k \in Nat
    BY <1>1
  <2>3. CASE k = n
    <3>1. piece(k) = [client |-> c, job |-> j, chunk |-> k, last |-> TRUE]
      BY <2>1, <2>3
    <3> HIDE DEF piece
    <3> QED BY <1>1, <2>2, <2>3, <3>1 DEF Text
  <2>4. CASE k # n
    <3>1. piece(k) = [client |-> c, job |-> j, chunk |-> k, last |-> FALSE]
      BY <2>1, <2>4
    <3> HIDE DEF piece
    <3> QED BY <1>1, <2>2, <2>4, <3>1 DEF Text
  <2> QED BY <2>3, <2>4
<1> HIDE DEF piece
<1>4. g \in Seq(Text) /\ Len(g) = n /\ \A k \in 1..n : g[k] = piece(k)
  BY <1>1, <1>2, <1>3
<1>5. ASSUME NEW i \in 1..Len(g)
      PROVE  /\ g[i].chunk > 1 => i > 1 /\ Continues(g[i - 1], g[i])
             /\ ~g[i].last => i < Len(g) /\ Continues(g[i], g[i + 1])
  <2>1. \A k \in 1..n : /\ g[k].client = c /\ g[k].job = j /\ g[k].chunk = k
                        /\ (g[k].last <=> k = n)
    BY <1>3, <1>4
  <2>2. i \in 1..n /\ i \in Nat /\ (i > 1 => i - 1 \in 1..n /\ i = (i - 1) + 1)
        /\ (i # n => i + 1 \in 1..n /\ i < n)
    BY <1>1, <1>4
  <2>3. g[i].chunk > 1 => i > 1 /\ Continues(g[i - 1], g[i])
    BY <2>1, <2>2 DEF Continues
  <2>4. ~g[i].last => i < Len(g) /\ Continues(g[i], g[i + 1])
    BY <1>4, <2>1, <2>2 DEF Continues
  <2> QED
    BY <2>3, <2>4
<1> QED
  BY <1>1, <1>4, <1>5 DEF InOnePiece, g

-----------------------------------------------------------------------------
(* A client's part of the invariant, through each step of its connection   *)

LEMMA SendFormed ==
  ASSUME NEW c \in Client, NEW l \in Connected, NEW q \in Seq(Request), NEW t,
         NEW j \in Nat, NEW k \in Nat, NEW j2 \in Nat, NEW k2 \in Nat,
         NEW r \in Request, IsRequest(c, r),
         ClientFormed(c, l, q, t, j, k),
         (r.op = "append" /\ r.text.chunk > 1) =>
           k > 0 /\ r.text.job = j /\ r.text.chunk - 1 = k,
         k2 > 0 => \/ r.op # "append" /\ j2 = j /\ k2 = k
                   \/ r.op = "append" /\ r.text = Middle(c, j2, k2)
  PROVE  ClientFormed(c, l, Append(q, r), t, j2, k2)
<1> DEFINE longer == Append(q, r)
           b == t.buffer
<1>0. /\ Len(q) \in Nat /\ Len(longer) = Len(q) + 1 /\ longer[Len(q) + 1] = r
      /\ \A i \in 1..Len(q) : longer[i] = q[i]
      /\ Len(longer) + 1 = Len(q) + 2
  OBVIOUS
<1>1. QueueChained(c, q, b, l) /\ (k > 0 => Preceded(c, q, b, l, Len(q) + 1, j, k))
  BY DEF ClientFormed, Chained
<1> HIDE DEF b
<1>2. QueueChained(c, longer, b, l)
  BY <1>1, QueueChainedAppend
<1>3. k2 > 0 => Preceded(c, longer, b, l, Len(q) + 2, j2, k2)
  BY <1>1, PrecededEnd
<1> HIDE DEF longer
<1>4. \A i \in 1..Len(longer) : IsRequest(c, longer[i])
  <2>1. \A i \in 1..Len(q) : IsRequest(c, q[i])
    BY DEF ClientFormed
  <2>2. \A i \in 1..Len(longer) : i \in 1..Len(q) \/ i = Len(q) + 1
    BY <1>0
  <2> QED
    BY <1>0, <2>1, <2>2
<1>5. l # "none"
  BY DEF Connected
<1>6. Chained(c, l, longer, b, j2, k2)
  BY <1>0, <1>2, <1>3, <1>5 DEF Chained
<1> QED
  BY <1>4, <1>6 DEF ClientFormed, longer, b

LEMMA RunFormed ==
  ASSUME NEW c, NEW l, OnServer(l), NEW q \in Seq(Request), q # <<>>, NEW t, NEW t2,
         NEW j, NEW k \in Nat,
         ClientFormed(c, l, q, t, j, k), IsTransaction(c, t2),
         q[1].op # "append" => t2.buffer = t.buffer,
         (q[1].op = "append" /\ ~q[1].last) =>
           t2.buffer = Begun(c, q[1].text.job, q[1].text.chunk)
  PROVE  ClientFormed(c, l, Tail(q), t2, j, k)
<1> DEFINE rest == Tail(q)
           b == t.buffer
           b2 == t2.buffer
<1>0. /\ Len(q) \in Nat \ {0} /\ rest \in Seq(Request) /\ Len(rest) = Len(q) - 1
      /\ \A i \in 1..Len(rest) : rest[i] = q[i + 1] /\ i + 1 \in 1..Len(q)
      /\ \A i \in 1..Len(rest) : i + 1 \in 2..(Len(q) + 1) /\ (i + 1) - 1 = i
      /\ Len(rest) + 1 = Len(q) /\ Len(q) + 1 \in 2..(Len(q) + 1) /\ (Len(q) + 1) - 1 = Len(q)
  OBVIOUS
<1> HIDE DEF rest, b, b2
<1>1. ASSUME NEW n \in 2..(Len(q) + 1), NEW job2, NEW chunk2,
             Preceded(c, q, b, l, n, job2, chunk2)
      PROVE  Preceded(c, rest, b2, l, n - 1, job2, chunk2)
  <2>1. q[1].op # "append" => b2 = b
    BY DEF b, b2
  <2>2. (q[1].op = "append" /\ q[1].text = Middle(c, job2, chunk2)) => b2 = Begun(c, job2, chunk2)
    <3>1. SUFFICES ASSUME q[1].op = "append", q[1].text = Middle(c, job2, chunk2)
                   PROVE  b2 = Begun(c, job2, chunk2)
      OBVIOUS
    <3>2. q[1].text.last = FALSE /\ q[1].text.job = job2 /\ q[1].text.chunk = chunk2
      BY <3>1 DEF Middle, TextOf
    <3>3. q[1].last = q[1].text.last
      BY <1>0 DEF ClientFormed, IsRequest
    <3> QED
      BY <3>1, <3>2, <3>3 DEF b2
  <2> QED
    BY <1>1, <2>1, <2>2, PrecededTail DEF rest
<1>2. QueueChained(c, q, b, l) /\ (k > 0 /\ l \in Connected => Preceded(c, q, b, l, Len(q) + 1, j, k))
  BY DEF ClientFormed, Chained, b
<1>3. QueueChained(c, rest, b2, l)
  <2> SUFFICES ASSUME NEW i \in 1..Len(rest), rest[i].op = "append", rest[i].text.chunk > 1
               PROVE  Preceded(c, rest, b2, l, i, rest[i].text.job, rest[i].text.chunk - 1)
    BY DEF QueueChained
  <2> DEFINE job2 == rest[i].text.job
             chunk2 == rest[i].text.chunk - 1
  <2>1. Preceded(c, q, b, l, i + 1, job2, chunk2)
    BY <1>0, <1>2 DEF QueueChained
  <2> HIDE DEF job2, chunk2
  <2>2. Preceded(c, rest, b2, l, (i + 1) - 1, job2, chunk2)
    BY <1>0, <1>1, <2>1
  <2> QED
    BY <1>0, <2>2 DEF job2, chunk2
<1>4. (k > 0 /\ l \in Connected) => Preceded(c, rest, b2, l, Len(rest) + 1, j, k)
  <2>1. SUFFICES ASSUME k > 0, l \in Connected
                 PROVE  Preceded(c, rest, b2, l, Len(rest) + 1, j, k)
    OBVIOUS
  <2>2. Preceded(c, rest, b2, l, (Len(q) + 1) - 1, j, k)
    BY <1>0, <1>1, <1>2, <2>1
  <2> QED
    BY <1>0, <2>2
<1>5. \A i \in 1..Len(rest) : IsRequest(c, rest[i])
  BY <1>0 DEF ClientFormed
<1>6. l # "none"
  BY DEF OnServer
<1>7. Chained(c, l, rest, b2, j, k)
  BY <1>3, <1>4, <1>6 DEF Chained
<1> QED
  BY <1>5, <1>7 DEF ClientFormed, rest, b2

LEMMA AcceptFormed ==
  ASSUME NEW c \in Client, NEW q \in Seq(Request), NEW t, NEW j, NEW k,
         ClientFormed(c, "waiting", q, t, j, k)
  PROVE  ClientFormed(c, "open", q, FreshTransaction, j, k)
<1> DEFINE b == t.buffer
           b2 == FreshTransaction.buffer
<1>1. ASSUME NEW n, NEW job2, NEW chunk2, Preceded(c, q, b, "waiting", n, job2, chunk2)
      PROVE  Preceded(c, q, b2, "open", n, job2, chunk2)
  BY <1>1 DEF Preceded, OnServer
<1> HIDE DEF b, b2
<1>2. /\ QueueChained(c, q, b, "waiting")
      /\ k > 0 => Preceded(c, q, b, "waiting", Len(q) + 1, j, k)
  BY DEF ClientFormed, Chained, Connected, b
<1>3. QueueChained(c, q, b2, "open") /\ (k > 0 => Preceded(c, q, b2, "open", Len(q) + 1, j, k))
  BY <1>1, <1>2 DEF QueueChained
<1>4. Chained(c, "open", q, b2, j, k)
  BY <1>3 DEF Chained
<1> QED
  BY <1>4, FreshType DEF ClientFormed, b2

LEMMA ConnectFormed ==
  ASSUME NEW c \in Client, NEW q \in Seq(Request), NEW t, NEW j, NEW k,
         ClientFormed(c, "none", q, t, j, k)
  PROVE  ClientFormed(c, "waiting", q, t, j, 0)
<1>1. q = <<>>
  BY DEF ClientFormed, Chained
<1>2. QueueChained(c, q, t.buffer, "waiting")
  BY <1>1 DEF QueueChained
<1>3. Chained(c, "waiting", q, t.buffer, j, 0)
  BY <1>1, <1>2 DEF Chained
<1> QED
  BY <1>3 DEF ClientFormed

LEMMA CloseFormed ==
  ASSUME NEW c \in Client, NEW q \in Seq(Request), NEW t, NEW j, NEW k,
         ClientFormed(c, "open", q, t, j, k)
  PROVE  ClientFormed(c, "closed", q, t, j, k)
<1>1. QueueChained(c, q, t.buffer, "open")
  BY DEF ClientFormed, Chained
<1>2. QueueChained(c, q, t.buffer, "closed")
  BY <1>1 DEF QueueChained, Preceded, OnServer
<1>3. Chained(c, "closed", q, t.buffer, j, k)
  BY <1>2 DEF Chained, Connected
<1> QED
  BY <1>3 DEF ClientFormed

LEMMA HangUpFormed ==
  ASSUME NEW c \in Client, NEW t, NEW j, NEW k,
         ClientFormed(c, "closed", <<>>, t, j, k)
  PROVE  ClientFormed(c, "none", <<>>, t, j, k)
<1>1. QueueChained(c, <<>>, t.buffer, "none")
  BY DEF QueueChained
<1>2. Chained(c, "none", <<>>, t.buffer, j, k)
  BY <1>1 DEF Chained, Connected
<1> QED
  BY <1>2 DEF ClientFormed

(* Cancelling a transaction leaves what it has collected. *)
LEMMA CancelFormed ==
  ASSUME NEW c \in Client, NEW l, NEW q, NEW t \in Transaction, NEW j, NEW k,
         ClientFormed(c, l, q, t, j, k)
  PROVE  /\ [t EXCEPT !.cancelled = TRUE] \in Transaction
         /\ ClientFormed(c, l, q, [t EXCEPT !.cancelled = TRUE], j, k)
<1> DEFINE yes == TRUE
           e == [t EXCEPT !.cancelled = TRUE]
<1>1. e = [buffer |-> t.buffer, active |-> t.active, cancelled |-> yes] /\ yes \in BOOLEAN
  BY CancelFields
<1> HIDE DEF e, yes
<1>2. e.buffer = t.buffer /\ e.active = t.active /\ e \in Transaction
  BY <1>1 DEF Transaction
<1>3. IsTransaction(c, t) => IsTransaction(c, e)
  BY <1>2 DEF IsTransaction
<1> QED
  BY <1>2, <1>3 DEF ClientFormed, e

-----------------------------------------------------------------------------
(* Every step keeps the inductive invariant. *)

LEMMA InitInductive == Init => Inductive
<1> SUFFICES ASSUME Init PROVE Inductive
  OBVIOUS
<1> DEFINE none == <<>>
<1>1. none \in Seq(Request) /\ none \in Seq(Text) /\ none \in Seq(Answer) /\ Len(none) = 0
  OBVIOUS
<1>2. ASSUME NEW c \in Client
      PROVE  /\ FreshTransaction \in Transaction
             /\ ClientFormed(c, "none", none, FreshTransaction, 0, 0)
  <2>1. FreshTransaction \in Transaction /\ IsTransaction(c, FreshTransaction)
    BY FreshType
  <2>2. QueueChained(c, none, FreshTransaction.buffer, "none")
    BY <1>1 DEF QueueChained
  <2>3. Chained(c, "none", none, FreshTransaction.buffer, 0, 0)
    BY <2>2 DEF Chained
  <2> QED
    BY <1>1, <2>1, <2>3 DEF ClientFormed
<1>3. "none" \in Link /\ 0 \in 0..MaxJobs /\ 0 \in 0..MaxChunks /\ 0 \in 0..MaxRequests
  BY BoundAssumption DEF Link
<1>4. /\ link = [c \in Client |-> "none"] /\ job = [c \in Client |-> 0]
      /\ chunk = [c \in Client |-> 0] /\ sent = [c \in Client |-> 0]
      /\ requests = [c \in Client |-> none] /\ trx = [c \in Client |-> FreshTransaction]
      /\ gcode = none /\ ran = [c \in Client |-> 0] /\ replies = none /\ stopped = {}
  BY DEF Init
<1> HIDE DEF none
<1>5. TypeOK
  BY <1>1, <1>2, <1>3, <1>4 DEF TypeOK
<1>6. Formed
  BY <1>2, <1>4 DEF Formed
<1>7. TextsInOnePiece
  BY <1>1, <1>4 DEF TextsInOnePiece
<1> QED
  BY <1>5, <1>6, <1>7 DEF Inductive

(* A client's text or file or other request; j and k are what becomes of   *)
(* the numbers of its text and chunk.                                      *)
LEMMA SendStep ==
  ASSUME Inductive, NEW c \in Client, NEW op \in Op, NEW text \in Text,
         text.client = c, op = "append" => text.chunk >= 1,
         op \in {"file", "stop"} => text.chunk = 1 /\ text.last,
         Send(c, op, text),
         NEW j \in 0..MaxJobs, NEW k \in 0..MaxChunks,
         job' = [job EXCEPT ![c] = j], chunk' = [chunk EXCEPT ![c] = k],
         (op = "append" /\ text.chunk > 1) =>
           chunk[c] > 0 /\ text.job = job[c] /\ text.chunk - 1 = chunk[c],
         k > 0 => \/ op # "append" /\ j = job[c] /\ k = chunk[c]
                  \/ op = "append" /\ text = Middle(c, j, k)
  PROVE  Inductive'
<1> DEFINE isFirst == text.chunk = 1
           r == [op |-> op, text |-> text, first |-> isFirst, last |-> text.last]
           q == Append(requests[c], r)
<1>1. TypeOK /\ Formed /\ TextsInOnePiece
  BY DEF Inductive
<1>2. /\ link[c] \in Connected /\ sent[c] < MaxRequests
      /\ sent' = [sent EXCEPT ![c] = @ + 1]
      /\ requests' = [requests EXCEPT ![c] = q]
      /\ UNCHANGED <<link, trx, gcode, ran, replies, stopped>>
  BY DEF Send
<1>3. text.last \in BOOLEAN /\ isFirst \in BOOLEAN /\ (isFirst <=> text.chunk = 1)
  BY DEF Text
<1> HIDE DEF isFirst
<1>4. r \in Request /\ r.op = op /\ r.text = text /\ r.first = isFirst /\ r.last = text.last
  BY <1>3 DEF Request
<1> HIDE DEF r
<1>5. IsRequest(c, r)
  BY <1>3, <1>4 DEF IsRequest
<1>6. requests[c] \in Seq(Request) /\ job[c] \in Nat /\ chunk[c] \in Nat /\ j \in Nat /\ k \in Nat
  BY <1>1, BoundAssumption DEF TypeOK
<1>7. ClientFormed(c, link[c], requests[c], trx[c], job[c], chunk[c])
  BY <1>1 DEF Formed
<1>8. ClientFormed(c, link[c], q, trx[c], j, k)
  <2> DEFINE l == link[c]
             old == requests[c]
             j1 == job[c]
             k1 == chunk[c]
             t == trx[c]
  <2>1. /\ l \in Connected /\ old \in Seq(Request) /\ j1 \in Nat /\ k1 \in Nat
        /\ j \in Nat /\ k \in Nat /\ r \in Request /\ IsRequest(c, r)
        /\ ClientFormed(c, l, old, t, j1, k1)
    BY <1>2, <1>4, <1>5, <1>6, <1>7
  <2>2. (r.op = "append" /\ r.text.chunk > 1) => k1 > 0 /\ r.text.job = j1 /\ r.text.chunk - 1 = k1
    BY <1>4
  <2>3. k > 0 => \/ r.op # "append" /\ j = j1 /\ k = k1
                 \/ r.op = "append" /\ r.text = Middle(c, j, k)
    BY <1>4
  <2> HIDE DEF l, old, j1, k1, t
  <2>4. ClientFormed(c, l, Append(old, r), t, j, k)
    BY <2>1, <2>2, <2>3, SendFormed
  <2> QED
    BY <2>4 DEF l, old, t
<1>9. q \in Seq(Request)
  BY <1>4, <1>6, AppendProperties
<1> HIDE DEF q
<1>10. TypeOK'
  <2>1. requests' \in [Client -> Seq(Request)] /\ job' \in [Client -> 0..MaxJobs]
        /\ chunk' \in [Client -> 0..MaxChunks]
    BY <1>1, <1>2, <1>9 DEF TypeOK
  <2>2. sent' \in [Client -> 0..MaxRequests]
    BY <1>1, <1>2, BoundAssumption DEF TypeOK
  <2> QED
    BY <1>1, <1>2, <2>1, <2>2 DEF TypeOK
<1>11. Formed'
  <2> SUFFICES ASSUME NEW d \in Client
               PROVE  ClientFormed(d, link'[d], requests'[d], trx'[d], job'[d], chunk'[d])
    BY DEF Formed
  <2>1. CASE d = c
    BY <1>1, <1>2, <1>8, <2>1 DEF TypeOK
  <2>2. CASE d # c
    <3>1. /\ link'[d] = link[d] /\ requests'[d] = requests[d] /\ trx'[d] = trx[d]
          /\ job'[d] = job[d] /\ chunk'[d] = chunk[d]
      BY <1>1, <1>2, <2>2 DEF TypeOK
    <3> QED
      BY <1>1, <3>1 DEF Formed
  <2> QED
    BY <2>1, <2>2
<1>12. TextsInOnePiece'
  BY <1>1, <1>2 DEF TextsInOnePiece
<1> QED
  BY <1>10, <1>11, <1>12 DEF Inductive

LEMMA ClientTypes ==
  ASSUME TypeOK, NEW c \in Client
  PROVE  /\ link[c] \in Link /\ requests[c] \in Seq(Request) /\ trx[c] \in Transaction
         /\ job[c] \in Nat /\ job[c] \in 0..MaxJobs
         /\ chunk[c] \in Nat /\ chunk[c] \in 0..MaxChunks
BY BoundAssumption DEF TypeOK

LEMMA BeginTextStep ==
  ASSUME Inductive, NEW c \in Client, BeginText(c)
  PROVE  Inductive'
<1>1. PICK last \in BOOLEAN :
        /\ Send(c, "append", TextOf(c, job[c] + 1, 1, last))
        /\ chunk' = [chunk EXCEPT ![c] = IF last THEN 0 ELSE 1]
  BY DEF BeginText
<1> DEFINE j == job[c] + 1
           k == IF last THEN 0 ELSE 1
           text == TextOf(c, j, 1, last)
<1>2. job[c] < MaxJobs /\ job' = [job EXCEPT ![c] = j]
  BY DEF BeginText
<1>3. j \in 0..MaxJobs /\ j \in Nat /\ k \in 0..MaxChunks
  BY <1>2, ClientTypes, BoundAssumption DEF Inductive
<1>4. k > 0 => text = Middle(c, j, k)
  <2>1. CASE last = TRUE
    BY <2>1
  <2>2. CASE last = FALSE
    BY <2>2 DEF Middle
  <2> QED BY <2>1, <2>2
<1>5. chunk' = [chunk EXCEPT ![c] = k] /\ Send(c, "append", text)
  BY <1>1
<1> HIDE DEF j, k
<1>6. text \in Text /\ text.client = c /\ text.chunk = 1
  <2>1. 1 \in Nat
    OBVIOUS
  <2> QED BY <1>3, <2>1, TextType
<1> HIDE DEF text
<1> DEFINE op == "append"
<1>7. op \in Op /\ op = "append" /\ op \notin {"file", "stop"}
  BY DEF Op
<1>8. Send(c, op, text)
  BY <1>5
<1>9. text.chunk >= 1 /\ ~(text.chunk > 1)
  BY <1>6
<1> HIDE DEF op
<1> QED
  BY <1>2, <1>3, <1>4, <1>5, <1>6, <1>7, <1>8, <1>9, SendStep

LEMMA ContinueTextStep ==
  ASSUME Inductive, NEW c \in Client, ContinueText(c)
  PROVE  Inductive'
<1>1. PICK last \in BOOLEAN :
        /\ Send(c, "append", TextOf(c, job[c], chunk[c] + 1, last))
        /\ chunk' = [chunk EXCEPT ![c] = IF last THEN 0 ELSE @ + 1]
  BY DEF ContinueText
<1> DEFINE j == job[c]
           n == chunk[c] + 1
           k == IF last THEN 0 ELSE n
           text == TextOf(c, j, n, last)
<1>2. chunk[c] \in 1..(MaxChunks - 1) /\ job' = [job EXCEPT ![c] = j]
  BY DEF ContinueText, Inductive, TypeOK
<1>3. /\ j \in 0..MaxJobs /\ j \in Nat /\ n \in Nat /\ n > 1 /\ n - 1 = chunk[c]
      /\ chunk[c] > 0 /\ k \in 0..MaxChunks
  BY <1>2, ClientTypes, BoundAssumption DEF Inductive
<1>4. k > 0 => text = Middle(c, j, k)
  <2>1. CASE last = TRUE
    BY <2>1
  <2>2. CASE last = FALSE
    BY <2>2 DEF Middle
  <2> QED BY <2>1, <2>2
<1>5. chunk' = [chunk EXCEPT ![c] = k] /\ Send(c, "append", text)
  BY <1>1 DEF Inductive, TypeOK
<1> HIDE DEF n, k
<1>6. text \in Text /\ text.client = c /\ text.job = j /\ text.chunk = n
  BY <1>3, TextType
<1> HIDE DEF text
<1> DEFINE op == "append"
<1>7. op \in Op /\ op = "append" /\ op \notin {"file", "stop"}
  BY DEF Op
<1>8. text.chunk >= 1 /\ text.job = job[c] /\ text.chunk - 1 = chunk[c]
  BY <1>3, <1>6
<1>9. Send(c, op, text)
  BY <1>5
<1> HIDE DEF j, op
<1> QED
  BY <1>2, <1>3, <1>4, <1>5, <1>6, <1>7, <1>8, <1>9, SendStep

LEMMA SendWholeStep ==
  ASSUME Inductive, NEW c \in Client, SendWhole(c)
  PROVE  Inductive'
<1>1. PICK op \in {"file", "stop"} : Send(c, op, TextOf(c, job[c] + 1, 1, TRUE))
  BY DEF SendWhole
<1> DEFINE j == job[c] + 1
           k == 0
           text == TextOf(c, j, 1, TRUE)
<1>2. job[c] < MaxJobs /\ job' = [job EXCEPT ![c] = j] /\ chunk' = [chunk EXCEPT ![c] = k]
  BY DEF SendWhole
<1>3. j \in 0..MaxJobs /\ j \in Nat /\ k \in 0..MaxChunks /\ ~(k > 0)
  BY <1>2, ClientTypes, BoundAssumption DEF Inductive
<1> HIDE DEF j, k
<1>4. text \in Text /\ text.client = c /\ text.chunk = 1 /\ text.last
  BY <1>3 DEF TextOf, Text
<1>5. Send(c, op, text)
  BY <1>1 DEF j
<1> HIDE DEF text
<1>6. op \in Op /\ op # "append"
  BY DEF Op
<1> QED
  BY <1>2, <1>3, <1>4, <1>5, <1>6, SendStep

LEMMA SendOtherStep ==
  ASSUME Inductive, NEW c \in Client, SendOther(c)
  PROVE  Inductive'
<1>1. PICK op \in Others : Send(c, op, TextOf(c, 0, 0, TRUE))
  BY DEF SendOther
<1> DEFINE text == TextOf(c, 0, 0, TRUE)
           j == job[c]
           k == chunk[c]
<1>2. op \in Op /\ op \notin {"append", "file", "stop"}
  BY OthersAssumption
<1>3. text \in Text /\ text.client = c
  BY DEF TextOf, Text
<1> HIDE DEF text
<1>4. /\ j \in 0..MaxJobs /\ k \in 0..MaxChunks
      /\ job' = [job EXCEPT ![c] = j] /\ chunk' = [chunk EXCEPT ![c] = k]
  BY ClientTypes DEF SendOther, Inductive, TypeOK
<1>5. Send(c, op, text)
  BY <1>1 DEF text
<1> HIDE DEF j, k
<1>6. j = job[c] /\ k = chunk[c] /\ op # "append" /\ op \notin {"file", "stop"}
  BY <1>2 DEF j, k
<1> QED
  BY <1>2, <1>3, <1>4, <1>5, <1>6, SendStep

(* A step of the connection alone: the client's part holds after it, and   *)
(* nothing has happened to the others.                                     *)
LEMMA LinkStep ==
  ASSUME Inductive, NEW c \in Client, NEW l \in Link, NEW k \in 0..MaxChunks,
         NEW t \in Transaction,
         link' = [link EXCEPT ![c] = l], chunk' = [chunk EXCEPT ![c] = k],
         trx' = [trx EXCEPT ![c] = t],
         UNCHANGED <<job, sent, requests, gcode, ran, replies, stopped>>,
         ClientFormed(c, l, requests[c], t, job[c], k)
  PROVE  Inductive'
<1>1. TypeOK /\ Formed /\ TextsInOnePiece
  BY DEF Inductive
<1>2. TypeOK'
  BY <1>1 DEF TypeOK
<1>3. Formed'
  <2> SUFFICES ASSUME NEW d \in Client
               PROVE  ClientFormed(d, link'[d], requests'[d], trx'[d], job'[d], chunk'[d])
    BY DEF Formed
  <2>1. CASE d = c
    BY <1>1, <2>1 DEF TypeOK
  <2>2. CASE d # c
    <3>1. /\ link'[d] = link[d] /\ requests'[d] = requests[d] /\ trx'[d] = trx[d]
          /\ job'[d] = job[d] /\ chunk'[d] = chunk[d]
      BY <1>1, <2>2 DEF TypeOK
    <3> QED
      BY <1>1, <3>1 DEF Formed
  <2> QED
    BY <2>1, <2>2
<1>4. TextsInOnePiece'
  BY <1>1 DEF TextsInOnePiece
<1> QED
  BY <1>2, <1>3, <1>4 DEF Inductive

LEMMA ConnectionSteps ==
  ASSUME Inductive, NEW c \in Client, Connect(c) \/ Close(c) \/ Accept(c) \/ HangUp(c)
  PROVE  Inductive'
<1> DEFINE q == requests[c]
           t == trx[c]
           j == job[c]
           k == chunk[c]
<1>1. ClientFormed(c, link[c], q, t, j, k) /\ TypeOK
  BY DEF Inductive, Formed
<1>2. q \in Seq(Request) /\ t \in Transaction /\ k \in 0..MaxChunks /\ 0 \in 0..MaxChunks
  BY <1>1, ClientTypes, BoundAssumption
<1>3. chunk = [chunk EXCEPT ![c] = k] /\ trx = [trx EXCEPT ![c] = t]
  BY <1>1 DEF TypeOK
<1>4. {"none", "waiting", "open", "closed"} \subseteq Link
  BY DEF Link
<1> HIDE DEF t, k, q, j
<1>5. CASE Connect(c)
  <2>1. ClientFormed(c, "waiting", q, t, j, 0)
    BY <1>1, <1>2, <1>5, ConnectFormed DEF Connect
  <2> QED
    BY <1>2, <1>3, <1>4, <1>5, <2>1, LinkStep DEF Connect, q, j
<1>6. CASE Close(c)
  <2>1. ClientFormed(c, "closed", q, t, j, k)
    BY <1>1, <1>2, <1>6, CloseFormed DEF Close
  <2> QED
    BY <1>2, <1>3, <1>4, <1>6, <2>1, LinkStep DEF Close, q, j
<1>7. CASE Accept(c)
  <2>1. ClientFormed(c, "open", q, FreshTransaction, j, k)
    BY <1>1, <1>2, <1>7, AcceptFormed DEF Accept
  <2> QED
    BY <1>2, <1>3, <1>4, <1>7, <2>1, FreshType, LinkStep DEF Accept, q, j
<1>8. CASE HangUp(c)
  <2>1. q = <<>> /\ link[c] = "closed"
    BY <1>8 DEF HangUp, q
  <2>2. ClientFormed(c, "none", q, t, j, k)
    BY <1>1, <2>1, HangUpFormed
  <2> QED
    BY <1>2, <1>3, <1>4, <1>8, <2>2, LinkStep DEF HangUp, q, j
<1> QED
  BY <1>5, <1>6, <1>7, <1>8

-----------------------------------------------------------------------------
(* Client::runCommands() *)

(* What a handler of a request of c may leave behind: transactions that    *)
(* keep the clients' parts of the invariant, and whole texts.              *)
Handled(c) ==
  /\ trx' \in [Client -> Transaction]
  /\ ClientFormed(c, link[c], Tail(requests[c]), trx'[c], job[c], chunk[c])
  /\ \A d \in Client \ {c} :
       ClientFormed(d, link[d], requests[d], trx'[d], job[d], chunk[d])
  /\ gcode' \in Seq(Text) /\ InOnePiece(gcode')
  /\ replies' \in Seq(Answer)
  /\ stopped' \subseteq Client \X Nat

LEMMA RunStep ==
  ASSUME Inductive, NEW c \in Client, RunCommands(c), Handled(c)
  PROVE  Inductive'
<1>1. TypeOK /\ Formed
  BY DEF Inductive
<1> DEFINE rest == Tail(requests[c])
<1>2. /\ requests[c] # <<>> /\ requests' = [requests EXCEPT ![c] = rest]
      /\ ran' = [ran EXCEPT ![c] = @ + 1] /\ UNCHANGED clientVars
  BY DEF RunCommands
<1>3. rest \in Seq(Request)
  BY <1>1, <1>2, ClientTypes
<1> HIDE DEF rest
<1>4. TypeOK'
  <2>1. requests' \in [Client -> Seq(Request)] /\ ran' \in [Client -> Nat]
    BY <1>1, <1>2, <1>3 DEF TypeOK
  <2> QED
    BY <1>1, <1>2, <2>1 DEF TypeOK, clientVars, Handled
<1>5. Formed'
  <2> SUFFICES ASSUME NEW d \in Client
               PROVE  ClientFormed(d, link'[d], requests'[d], trx'[d], job'[d], chunk'[d])
    BY DEF Formed
  <2>1. link' = link /\ job' = job /\ chunk' = chunk
    BY <1>2 DEF clientVars
  <2>2. CASE d = c
    <3>1. requests'[d] = Tail(requests[c])
      BY <1>1, <1>2, <2>2 DEF TypeOK, rest
    <3> QED
      BY <2>1, <2>2, <3>1 DEF Handled
  <2>3. CASE d # c
    <3>1. requests'[d] = requests[d]
      BY <1>1, <1>2, <2>3 DEF TypeOK
    <3> QED
      BY <2>1, <2>3, <3>1 DEF Handled
  <2> QED
    BY <2>2, <2>3
<1>6. TextsInOnePiece'
  BY DEF Handled, InOnePiece, TextsInOnePiece
<1> QED
  BY <1>4, <1>5, <1>6 DEF Inductive

(* What is known of the request that is run *)
LEMMA HeadFacts ==
  ASSUME Inductive, NEW c \in Client, RunCommands(c)
  PROVE  /\ requests[c] \in Seq(Request) /\ requests[c] # <<>>
         /\ Head(requests[c]) = requests[c][1] /\ Head(requests[c]) \in Request
         /\ IsRequest(c, Head(requests[c])) /\ OnServer(link[c])
         /\ trx[c] \in Transaction /\ IsTransaction(c, trx[c])
         /\ QueueChained(c, requests[c], trx[c].buffer, link[c])
         /\ ClientFormed(c, link[c], requests[c], trx[c], job[c], chunk[c])
         /\ job[c] \in Nat /\ chunk[c] \in Nat
<1>1. requests[c] \in Seq(Request) /\ trx[c] \in Transaction /\ job[c] \in Nat /\ chunk[c] \in Nat
  BY ClientTypes DEF Inductive
<1>2. requests[c] # <<>> /\ OnServer(link[c])
  BY DEF RunCommands, Accepted, OnServer
<1>3. ClientFormed(c, link[c], requests[c], trx[c], job[c], chunk[c])
  BY DEF Inductive, Formed
<1>4. Head(requests[c]) = requests[c][1] /\ Head(requests[c]) \in Request /\ 1 \in 1..Len(requests[c])
  BY <1>1, <1>2
<1> QED
  BY <1>1, <1>2, <1>3, <1>4 DEF ClientFormed, Chained

(* A handler that leaves the client's transaction alone *)
LEMMA KeptFormed ==
  ASSUME Inductive, NEW c \in Client, RunCommands(c), Head(requests[c]).op # "append"
  PROVE  ClientFormed(c, link[c], Tail(requests[c]), trx[c], job[c], chunk[c])
<1> DEFINE q == requests[c]
           t == trx[c]
           l == link[c]
           j == job[c]
           k == chunk[c]
<1>1. /\ q \in Seq(Request) /\ q # <<>> /\ q[1].op # "append" /\ OnServer(l)
      /\ ClientFormed(c, l, q, t, j, k) /\ IsTransaction(c, t) /\ k \in Nat
  BY HeadFacts
<1> HIDE DEF q, t, l, j, k
<1>2. ClientFormed(c, l, Tail(q), t, j, k)
  BY <1>1, RunFormed
<1> QED
  BY <1>2 DEF q, t, l, j, k

LEMMA OthersKept ==
  ASSUME Inductive, NEW c \in Client, NEW d \in Client
  PROVE  ClientFormed(d, link[d], requests[d], trx[d], job[d], chunk[d])
BY DEF Inductive, Formed

LEMMA CancelStep ==
  ASSUME Inductive, NEW c \in Client, CancelAllTransactions(c)
  PROVE  /\ trx' \in [Client -> Transaction] /\ trx'[c] = trx[c]
         /\ \A d \in Client :
              ClientFormed(d, link[d], requests[d], trx'[d], job[d], chunk[d])
         /\ stopped' \subseteq Client \X Nat
<1> DEFINE new(d) == IF d \in Accepted \ {c} THEN [trx[d] EXCEPT !.cancelled = TRUE] ELSE trx[d]
<1>1. trx' = [d \in Client |-> new(d)]
  BY DEF CancelAllTransactions
<1>2. ASSUME NEW d \in Client
      PROVE  /\ new(d) \in Transaction
             /\ ClientFormed(d, link[d], requests[d], new(d), job[d], chunk[d])
  <2> DEFINE t == trx[d]
             e == [trx[d] EXCEPT !.cancelled = TRUE]
             l == link[d]
             q == requests[d]
             j == job[d]
             k == chunk[d]
  <2>1. t \in Transaction /\ ClientFormed(d, l, q, t, j, k)
    BY ClientTypes, OthersKept DEF Inductive
  <2>2. e = [t EXCEPT !.cancelled = TRUE]
    OBVIOUS
  <2> HIDE DEF t, e, l, q, j, k
  <2>3. e \in Transaction /\ ClientFormed(d, l, q, e, j, k)
    BY <2>1, <2>2, CancelFormed
  <2>4. new(d) = e \/ new(d) = t
    BY DEF e, t
  <2> HIDE DEF new
  <2> QED
    BY <2>1, <2>3, <2>4 DEF l, q, j, k
<1>3. new(c) = trx[c]
  OBVIOUS
<1>4. stopped' \subseteq Client \X Nat
  <2> DEFINE cut == {<<d, trx[d].buffer[1].job>> : d \in {e \in Accepted \ {c} : trx[e].active}}
  <2>1. stopped' = stopped \cup cut
    BY DEF CancelAllTransactions
  <2>2. ASSUME NEW d \in Client, trx[d].active
        PROVE  trx[d].buffer[1].job \in Nat
    <3>1. trx[d] \in Transaction /\ IsTransaction(d, trx[d])
      BY ClientTypes, OthersKept DEF Inductive, ClientFormed
    <3>2. trx[d].buffer # <<>> /\ trx[d].buffer \in Seq(Text)
      BY <2>2, <3>1, TransactionType DEF IsTransaction
    <3>3. trx[d].buffer[1] \in Text
      BY <3>2
    <3> QED
      BY <3>3 DEF Text
  <2>3. cut \subseteq Client \X Nat
    BY <2>2 DEF Accepted
  <2> HIDE DEF cut
  <2> QED
    BY <2>1, <2>3 DEF Inductive, TypeOK
<1> HIDE DEF new
<1> QED
  BY <1>1, <1>2, <1>3, <1>4

LEMMA AnswerTypes ==
  ASSUME NEW a \in Answer, NEW b \in Answer
  PROVE  <<>> \in Seq(Answer) /\ <<a>> \in Seq(Answer) /\ <<a, b>> \in Seq(Answer)
OBVIOUS

LEMMA Answers ==
  {"ok", "error", "gcode_add_failed", "retry_later", "trx_cancelled"} \subseteq Answer
BY DEF Answer

LEMMA GcodeFacts ==
  ASSUME Inductive
  PROVE  gcode \in Seq(Text) /\ InOnePiece(gcode) /\ replies \in Seq(Answer)
         /\ stopped \subseteq Client \X Nat /\ trx \in [Client -> Transaction]
BY DEF Inductive, TypeOK, TextsInOnePiece, InOnePiece

(* What hnd_gcodeAppend() does, and its answer *)
LEMMA AppendRuns ==
  ASSUME Inductive, NEW c \in Client, RunCommands(c), Head(requests[c]).op = "append"
  PROVE  LET r == Head(requests[c])
             t == Collected(trx[c], r)
         IN  /\ \/ /\ ~r.last /\ trx' = [trx EXCEPT ![c] = t] /\ gcode' = gcode
                \/ /\ r.last
                   /\ trx' = [trx EXCEPT ![c] = [t EXCEPT !.buffer = <<>>, !.active = FALSE]]
                   /\ \/ gcode' = gcode \o t.buffer /\ replies'[Len(replies')] = "ok"
                      \/ gcode' = gcode /\ replies'[Len(replies')] = "gcode_add_failed"
             /\ replies' \in Seq(Answer)
             /\ stopped' = stopped
<1> DEFINE r == Head(requests[c])
           t == Collected(trx[c], r)
           told == IF t.cancelled THEN <<"trx_cancelled">> ELSE <<>>
<1>1. HndGcodeAppend(c, r)
  BY DEF RunCommands, RunCommand
<1>2. told \in Seq(Answer)
  BY Answers, AnswerTypes
<1> HIDE DEF r
<1>3. /\ \/ ~r.last /\ trx' = [trx EXCEPT ![c] = t] /\ gcode' = gcode
            /\ replies' = Append(told, "ok")
         \/ r.last /\ trx' = [trx EXCEPT ![c] = [t EXCEPT !.buffer = <<>>, !.active = FALSE]]
            /\ \/ gcode' = gcode \o t.buffer /\ replies' = Append(told, "ok")
               \/ gcode' = gcode /\ replies' = Append(told, "gcode_add_failed")
      /\ stopped' = stopped
  BY <1>1 DEF HndGcodeAppend, Reply
<1> HIDE DEF told, t
<1>4. ASSUME NEW a \in Answer, replies' = Append(told, a)
      PROVE  replies' \in Seq(Answer) /\ replies'[Len(replies')] = a
  BY <1>2, <1>4, AppendProperties
<1>5. "ok" \in Answer /\ "gcode_add_failed" \in Answer
  BY Answers
<1> QED
  BY <1>3, <1>4, <1>5 DEF r, t

LEMMA EmptiedFields ==
  ASSUME NEW t, NEW b, NEW a, NEW x, t = [buffer |-> b, active |-> a, cancelled |-> x],
         NEW c \in Client, x \in BOOLEAN
  PROVE  /\ [t EXCEPT !.buffer = <<>>, !.active = FALSE] \in Transaction
         /\ IsTransaction(c, [t EXCEPT !.buffer = <<>>, !.active = FALSE])
<1> DEFINE none == <<>>
           no == FALSE
           e == [t EXCEPT !.buffer = none, !.active = no]
<1>1. none \in Seq(Text) /\ none = Begun(c, 0, 0) /\ Len(none) = 0 /\ no \in BOOLEAN
  BY DEF Begun
<1>0. e = [t EXCEPT !.buffer = none, !.active = no]
  OBVIOUS
<1> HIDE DEF none, no, e
<1>2. e = [buffer |-> none, active |-> no, cancelled |-> x]
  BY <1>0
<1>3. e \in Transaction /\ e.buffer = none /\ e.active = no
  BY <1>1, <1>2 DEF Transaction
<1>4. IsTransaction(c, e)
  BY <1>1, <1>3 DEF IsTransaction, none, no
<1> QED
  BY <1>3, <1>4 DEF e, none, no

LEMMA AppendHandled ==
  ASSUME Inductive, NEW c \in Client, RunCommands(c), Head(requests[c]).op = "append"
  PROVE  Handled(c)
<1> DEFINE q == requests[c]
           r == q[1]
           t == trx[c]
           u == Collected(t, r)
           t2 == IF r.last THEN [u EXCEPT !.buffer = <<>>, !.active = FALSE] ELSE u
           l == link[c]
           j == job[c]
           k == chunk[c]
<1>1. /\ q \in Seq(Request) /\ q # <<>> /\ Head(q) = r /\ r \in Request /\ r.op = "append"
      /\ IsRequest(c, r) /\ OnServer(l) /\ t \in Transaction /\ IsTransaction(c, t)
      /\ QueueChained(c, q, t.buffer, l) /\ ClientFormed(c, l, q, t, j, k) /\ k \in Nat
  BY HeadFacts
<1>2. /\ \/ ~r.last /\ gcode' = gcode
         \/ r.last /\ (gcode' = gcode \o u.buffer \/ gcode' = gcode)
      /\ trx' = [trx EXCEPT ![c] = t2]
      /\ replies' \in Seq(Answer) /\ stopped' = stopped
  BY <1>1, AppendRuns
<1> HIDE DEF q, t, l, j, k
<1>3. /\ r.last => u.buffer = ChunksOf(r)
      /\ ~r.last => u.buffer = Begun(c, r.text.job, r.text.chunk)
      /\ u.active /\ u.cancelled = t.cancelled
  BY <1>1, CollectedBuffer
<1> HIDE DEF r
<1> DEFINE b == Append(IF r.first THEN <<>> ELSE t.buffer, r.text)
           a == t.active \/ r.first
<1>4. u = [buffer |-> b, active |-> a, cancelled |-> t.cancelled] /\ a \in BOOLEAN
      /\ t.cancelled \in BOOLEAN
  BY <1>1, CollectedFields, TransactionType, RequestFields
<1> HIDE DEF u, a, b
<1>5. /\ t2 \in Transaction /\ IsTransaction(c, t2)
      /\ ~r.last => t2.buffer = Begun(c, r.text.job, r.text.chunk)
  <2>1. CASE r.last
    <3> DEFINE e == [u EXCEPT !.buffer = <<>>, !.active = FALSE]
    <3>1. e \in Transaction /\ IsTransaction(c, e)
      BY <1>4, EmptiedFields
    <3>2. t2 = e
      BY <2>1
    <3> HIDE DEF t2, e
    <3> QED BY <2>1, <3>1, <3>2
  <2>2. CASE ~r.last
    <3> DEFINE n == r.text.chunk
               i == r.text.job
    <3>1. n \in Nat /\ i \in Nat /\ n >= 1
      BY <1>1, RequestFields DEF IsRequest
    <3>2. u.buffer = Begun(c, i, n)
      BY <1>3, <2>2
    <3>3. t2 = u
      BY <2>2
    <3> HIDE DEF n, i, t2
    <3>4. u.buffer \in Seq(Text) /\ Len(u.buffer) = n /\ u.buffer # <<>>
      <4>1. Begun(c, i, n) \in Seq(Text) /\ Len(Begun(c, i, n)) = n
        BY <3>1, BegunType
      <4> QED BY <3>1, <3>2, <4>1
    <3>5. u \in Transaction
      BY <1>4, <3>4 DEF Transaction
    <3>6. IsTransaction(c, u)
      BY <1>3, <3>1, <3>2, <3>4 DEF IsTransaction
    <3> QED
      BY <3>2, <3>3, <3>5, <3>6 DEF n, i
  <2> QED BY <2>1, <2>2
<1> HIDE DEF t2
<1>6. ClientFormed(c, l, Tail(q), t2, j, k)
  BY <1>1, <1>5, RunFormed DEF r
<1>7. trx' \in [Client -> Transaction] /\ trx'[c] = t2 /\ \A d \in Client \ {c} : trx'[d] = trx[d]
  BY <1>2, <1>5, GcodeFacts
<1>8. \A d \in Client \ {c} : ClientFormed(d, link[d], requests[d], trx'[d], job[d], chunk[d])
  BY <1>7, OthersKept
<1>9. gcode' \in Seq(Text) /\ InOnePiece(gcode')
  <2>1. CASE gcode' = gcode
    BY <2>1, GcodeFacts
  <2>2. CASE r.last /\ gcode' = gcode \o u.buffer
    <3>1. u.buffer = ChunksOf(r) /\ r.text.chunk >= 1
      BY <1>1, <1>3, <2>2 DEF IsRequest
    <3>2. ChunksOf(r) \in Seq(Text) /\ InOnePiece(ChunksOf(r))
      BY <1>1, <3>1, ChunksInOnePiece
    <3>3. gcode \in Seq(Text) /\ InOnePiece(gcode)
      BY GcodeFacts
    <3>4. gcode \o ChunksOf(r) \in Seq(Text) /\ InOnePiece(gcode \o ChunksOf(r))
      BY <3>2, <3>3, InOnePieceConcat
    <3> QED
      BY <2>2, <3>1, <3>4
  <2> QED
    BY <1>2, <2>1, <2>2
<1> QED
  BY <1>2, <1>6, <1>7, <1>8, <1>9, GcodeFacts DEF Handled, q, l, j, k

(* The handlers that leave the transactions alone *)
LEMMA QuietHandled ==
  ASSUME Inductive, NEW c \in Client, RunCommands(c), Head(requests[c]).op # "append",
         UNCHANGED <<trx, stopped>>, replies' \in Seq(Answer),
         gcode' \in Seq(Text), InOnePiece(gcode')
  PROVE  Handled(c)
<1>1. ClientFormed(c, link[c], Tail(requests[c]), trx[c], job[c], chunk[c])
  BY KeptFormed
<1>2. \A d \in Client : ClientFormed(d, link[d], requests[d], trx[d], job[d], chunk[d])
  BY OthersKept
<1>3. trx' = trx /\ stopped' = stopped
  OBVIOUS
<1> QED
  BY <1>1, <1>2, <1>3, GcodeFacts DEF Handled

(* A clear or a stop, which cancels the other clients' transactions *)
LEMMA CancelHandled ==
  ASSUME Inductive, NEW c \in Client, RunCommands(c), Head(requests[c]).op # "append",
         CancelAllTransactions(c), replies' = <<"ok">>,
         gcode' \in Seq(Text), InOnePiece(gcode')
  PROVE  Handled(c)
<1>1. ClientFormed(c, link[c], Tail(requests[c]), trx[c], job[c], chunk[c])
  BY KeptFormed
<1>2. /\ trx' \in [Client -> Transaction] /\ trx'[c] = trx[c]
      /\ \A d \in Client : ClientFormed(d, link[d], requests[d], trx'[d], job[d], chunk[d])
      /\ stopped' \subseteq Client \X Nat
  BY CancelStep
<1>3. replies' \in Seq(Answer)
  BY Answers, AnswerTypes
<1> QED
  BY <1>1, <1>2, <1>3 DEF Handled

LEMMA FileHandled ==
  ASSUME Inductive, NEW c \in Client, RunCommands(c), Head(requests[c]).op = "file",
         HndGcodeAppendFile(c, Head(requests[c]))
  PROVE  Handled(c)
<1> DEFINE r == Head(requests[c])
<1>1. r \in Request /\ IsRequest(c, r) /\ r.op = "file"
  BY HeadFacts
<1>2. /\ gcode' \in {gcode, Append(gcode, r.text)}
      /\ replies' \in {<<"retry_later">>, <<"error">>, <<"ok">>}
      /\ UNCHANGED <<trx, stopped>>
  BY DEF HndGcodeAppendFile, Reply
<1>3. replies' \in Seq(Answer)
  BY <1>2, Answers, AnswerTypes
<1> HIDE DEF r
<1>4. r.text \in Text /\ r.text.chunk = 1 /\ r.text.last
  BY <1>1, RequestFields DEF IsRequest
<1>5. gcode' \in Seq(Text) /\ InOnePiece(gcode')
  <2> DEFINE w == <<r.text>>
  <2>1. gcode \in Seq(Text) /\ InOnePiece(gcode)
    BY GcodeFacts
  <2>2. w \in Seq(Text) /\ InOnePiece(w)
    BY <1>4, InOnePieceWhole
  <2>3. Append(gcode, r.text) = gcode \o w
    BY <1>4, <2>1
  <2> HIDE DEF w
  <2>4. gcode \o w \in Seq(Text) /\ InOnePiece(gcode \o w)
    BY <2>1, <2>2, InOnePieceConcat
  <2> QED
    BY <1>2, <2>1, <2>3, <2>4
<1> QED
  BY <1>1, <1>2, <1>3, <1>5, QuietHandled DEF r

LEMMA StopHandled ==
  ASSUME Inductive, NEW c \in Client, RunCommands(c), Head(requests[c]).op = "stop",
         HndGcodeStopPrint(c, Head(requests[c]))
  PROVE  Handled(c)
<1> DEFINE r == Head(requests[c])
<1>1. r \in Request /\ IsRequest(c, r) /\ r.op = "stop"
  BY HeadFacts
<1>2. CancelAllTransactions(c) /\ gcode' \in {<<>>, <<r.text>>} /\ replies' = <<"ok">>
  BY DEF HndGcodeStopPrint, Reply
<1> HIDE DEF r
<1>3. r.text \in Text /\ r.text.chunk = 1 /\ r.text.last
  BY <1>1, RequestFields DEF IsRequest
<1>4. gcode' \in Seq(Text) /\ InOnePiece(gcode')
  BY <1>2, <1>3, InOnePieceWhole, InOnePieceEmpty
<1> QED
  BY <1>1, <1>2, <1>4, CancelHandled DEF r

LEMMA RunHandled ==
  ASSUME Inductive, NEW c \in Client, RunCommands(c)
  PROVE  Handled(c)
<1> DEFINE r == Head(requests[c])
<1>1. RunCommand(c, r)
  BY DEF RunCommands
<1>2. CASE r.op = "append"
  BY <1>2, AppendHandled
<1>3. CASE r.op = "file" /\ HndGcodeAppendFile(c, r)
  BY <1>3, FileHandled
<1>4. CASE r.op = "clear" /\ HndGcodeClear(c)
  <2>1. CancelAllTransactions(c) /\ gcode' = <<>> /\ replies' = <<"ok">>
    BY <1>4 DEF HndGcodeClear, Reply
  <2>2. gcode' \in Seq(Text) /\ InOnePiece(gcode')
    BY <2>1, InOnePieceEmpty
  <2> QED
    BY <1>4, <2>1, <2>2, CancelHandled
<1>5. CASE r.op = "stop" /\ HndGcodeStopPrint(c, r)
  BY <1>5, StopHandled
<1>6. CASE r.op \in {"start", "heatup", "ask"} /\ HndOther
  <2>1. UNCHANGED <<trx, gcode, stopped>> /\ replies' = <<"ok">>
    BY <1>6 DEF HndOther, Reply
  <2>2. replies' \in Seq(Answer)
    BY <2>1, Answers, AnswerTypes
  <2> QED
    BY <1>6, <2>1, <2>2, GcodeFacts, QuietHandled
<1>7. CASE r.op \in {"wrong", "wrongFile"} /\ HndMissingArgument(c, r)
  <2>1. /\ UNCHANGED <<trx, gcode, stopped>>
        /\ replies' \in {<<"error">>, <<"error", "retry_later">>, <<"error", "error">>}
    BY <1>7 DEF HndMissingArgument, Reply
  <2>2. replies' \in Seq(Answer)
    BY <2>1, Answers, AnswerTypes
  <2> QED
    BY <1>7, <2>1, <2>2, GcodeFacts, QuietHandled
<1>8. CASE r.op = "unknown" /\ NoHandler
  <2>1. UNCHANGED <<trx, gcode, stopped>> /\ replies' = <<>>
    BY <1>8 DEF NoHandler, Reply
  <2>2. replies' \in Seq(Answer)
    BY <2>1, Answers, AnswerTypes
  <2> QED
    BY <1>8, <2>1, <2>2, GcodeFacts, QuietHandled
<1> HIDE DEF r
<1> QED
  BY <1>1, <1>2, <1>3, <1>4, <1>5, <1>6, <1>7, <1>8 DEF RunCommand

LEMMA StepInductive == Inductive /\ [Next]_vars => Inductive'
<1> SUFFICES ASSUME Inductive, [Next]_vars PROVE Inductive'
  OBVIOUS
<1>1. ASSUME NEW c \in Client, ClientStep(c) PROVE Inductive'
  BY <1>1, BeginTextStep, ContinueTextStep, SendWholeStep, SendOtherStep, ConnectionSteps
     DEF ClientStep
<1>2. ASSUME NEW c \in Client, ServerStep(c) PROVE Inductive'
  <2>1. CASE RunCommands(c)
    BY <2>1, RunHandled, RunStep
  <2>2. CASE Accept(c) \/ HangUp(c)
    BY <2>2, ConnectionSteps
  <2> QED
    BY <1>2, <2>1, <2>2 DEF ServerStep
<1>3. CASE UNCHANGED vars
  BY <1>3 DEF vars, clientVars, Inductive, TypeOK, Formed, TextsInOnePiece
<1> QED
  BY <1>1, <1>2, <1>3 DEF Next

THEOREM Invariance == Spec => []Inductive
BY InitInductive, StepInductive, PTL DEF Spec

-----------------------------------------------------------------------------
(* The server's data keep their types, whatever the clients send. *)
THEOREM TypeCorrect == Spec => []TypeOK
<1>1. Inductive => TypeOK
  BY DEF Inductive
<1> QED
  BY <1>1, Invariance, PTL

(* hnd_gcodeAppend(), with Client's transactions and the socket: a text in *)
(* the driver's buffer is in one piece and complete, however the clients'  *)
(* requests interleave and wherever a client broke off or reconnected.     *)
THEOREM TextsWhole == Spec => []TextsInOnePiece
<1>1. Inductive => TextsInOnePiece
  BY DEF Inductive
<1> QED
  BY <1>1, Invariance, PTL

(* hnd_gcodeAppend() answers the last chunk of a text with ok exactly when *)
(* the driver has taken all chunks of that text, not only the last one.    *)
THEOREM OkTellsTheTruth == Spec => OkMeansAppended
<1> DEFINE Told ==
      \A c \in Client :
        (RunCommands(c) /\ Head(requests[c]).op = "append" /\ Head(requests[c]).last) =>
          (replies'[Len(replies')] = "ok"
             <=> gcode' = gcode \o ChunksOf(Head(requests[c])))
<1>1. Inductive => Told
  <2> SUFFICES ASSUME Inductive, NEW c \in Client, RunCommands(c),
                      Head(requests[c]).op = "append", Head(requests[c]).last
               PROVE  replies'[Len(replies')] = "ok"
                        <=> gcode' = gcode \o ChunksOf(Head(requests[c]))
    OBVIOUS
  <2> DEFINE q == requests[c]
             t == trx[c]
             l == link[c]
             r == Head(q)
             text == ChunksOf(r)
  <2>1. /\ q \in Seq(Request) /\ q # <<>> /\ r = q[1] /\ r \in Request /\ IsRequest(c, r)
        /\ t \in Transaction /\ IsTransaction(c, t) /\ QueueChained(c, q, t.buffer, l)
    BY HeadFacts
  <2>2. \/ gcode' = gcode \o Collected(t, r).buffer /\ replies'[Len(replies')] = "ok"
        \/ gcode' = gcode /\ replies'[Len(replies')] = "gcode_add_failed"
    BY AppendRuns
  <2>3. r.op = "append" /\ r.last
    OBVIOUS
  <2> HIDE DEF q, t, l
  <2>4. Collected(t, r).buffer = text
    BY <2>1, <2>3, CollectedBuffer
  <2>5. text \in Seq(Text) /\ Len(text) >= 1 /\ gcode \in Seq(Text)
    BY <2>1, <2>3, ChunksInOnePiece, GcodeFacts DEF IsRequest
  <2> HIDE DEF text
  <2>6. gcode # gcode \o text
    <3>1. Len(gcode \o text) = Len(gcode) + Len(text) /\ Len(gcode) \in Nat /\ Len(text) \in Nat
      BY <2>5, ConcatProperties
    <3> QED
      BY <2>5, <3>1
  <2>7. replies'[Len(replies')] = "ok" <=> gcode' = gcode \o text
    BY <2>2, <2>4, <2>6
  <2> QED
    BY <2>7 DEF text, r, q
<1>2. Inductive => [Told]_vars
  BY <1>1
<1>3. OkMeansAppended <=> [][Told]_vars
  BY DEF OkMeansAppended
<1> HIDE DEF Told
<1> QED
  BY <1>2, <1>3, Invariance, PTL
=============================================================================
