--------------------------- MODULE TaskLogProofs ---------------------------
(***************************************************************************)
(* TaskLog for logs of any size, newlines anywhere, any call of the client *)
(* and any number of broken and shortened responses: what the client has   *)
(* read, and what it knows when it returns.                                *)
(***************************************************************************)
EXTENDS TaskLog, FiniteSetTheorems, SequenceTheorems, TLAPS

(***************************************************************************)
(* Positions                                                               *)
(***************************************************************************)

\* A set of positions has a smallest element, and a largest when it is bounded.
LEMMA MinOfNats ==
  ASSUME NEW S, S \subseteq Nat, S # {}
  PROVE  Min(S) \in S /\ \A y \in S : Min(S) <= y
<1> DEFINE T == {0 .. x : x \in S}
<1>1. T \subseteq FiniteSubsetsOf(Nat) /\ T # {}
  <2>1. \A x \in S : 0 .. x \in SUBSET Nat /\ IsFiniteSet(0 .. x)
    BY FS_Interval
  <2> QED
    BY <2>1 DEF FiniteSubsetsOf
<1>2. IsWellFoundedOn(StrictSubsetOrdering(Nat), FiniteSubsetsOf(Nat))
  BY FS_StrictSubsetOrderingWellFounded
<1>3. PICK t \in T : \A u \in T : <<u, t>> \notin StrictSubsetOrdering(Nat)
  <2> HIDE DEF T
  <2> QED
    BY <1>1, <1>2, WFMin, Zenon
<1>4. PICK x \in S : t = 0 .. x
  OBVIOUS
<1>5. ASSUME NEW y \in S
      PROVE  x <= y
  <2> SUFFICES ASSUME y < x PROVE FALSE
    OBVIOUS
  <2>1. x \in Nat /\ y \in Nat
    OBVIOUS
  <2>2. 0 .. y \subseteq 0 .. x /\ x \in 0 .. x /\ x \notin 0 .. y
    BY <2>1
  <2>3. 0 .. y \in T /\ 0 .. y \in SUBSET Nat /\ 0 .. x \in SUBSET Nat
    BY <2>1
  <2>4. <<0 .. y, 0 .. x>> \in StrictSubsetOrdering(Nat)
    BY <2>2, <2>3 DEF StrictSubsetOrdering
  <2> QED
    BY <1>3, <1>4, <2>3, <2>4
<1>6. \E z \in S : \A y \in S : z <= y
  BY <1>5
<1> QED
  BY <1>6 DEF Min

LEMMA MaxOfNats ==
  ASSUME NEW n \in Nat, NEW S, S \subseteq 0 .. n, S # {}
  PROVE  Max(S) \in S /\ \A y \in S : Max(S) >= y
<1> DEFINE T == {n - x : x \in S}
<1>0. \A x \in S : x \in Nat /\ x <= n
  OBVIOUS
<1>1. T \subseteq Nat /\ T # {}
  <2>1. \A x \in S : n - x \in Nat
    BY <1>0
  <2> QED
    BY <2>1
<1>2. Min(T) \in T /\ \A y \in T : Min(T) <= y
  BY <1>1, MinOfNats, Zenon
<1>3. PICK x \in S : Min(T) = n - x
  BY <1>2
<1>4. \A y \in S : x >= y
  <2> SUFFICES ASSUME NEW y \in S PROVE x >= y
    OBVIOUS
  <2>1. n - x <= n - y
    BY <1>2, <1>3
  <2> QED
    BY <1>0, <2>1
<1>5. \E z \in S : \A y \in S : z >= y
  BY <1>4
<1> QED
  BY <1>5 DEF Max

Logs == MaxSize \in Nat /\ size \in 0 .. MaxSize /\ nl \subseteq 1 .. MaxSize

\* The positions of newlines are numbers.
LEMMA LogFacts ==
  ASSUME Logs
  PROVE  size \in Nat /\ \A k \in nl : k \in Nat /\ k >= 1 /\ k <= MaxSize
BY DEF Logs

\* The end of the line that begins at a position, the start of the one that
\* ends there, and where the last lines begin.
LEMMA LineEndProperties ==
  ASSUME Logs, NEW p \in 0 .. size
  PROVE  /\ LineEnd(p) \in p .. size
         /\ LineEnd(p) = p <=> p = size
<1> DEFINE n == {k \in nl : p < k /\ k <= size}
<1>1. CASE n = {}
  BY <1>1 DEF LineEnd, Logs
<1>2. CASE n # {}
  <2>1. n \subseteq Nat
    BY LogFacts
  <2>2. Min(n) \in n
    BY <1>2, <2>1, MinOfNats, Zenon
  <2>3. LineEnd(p) = Min(n)
    BY <1>2 DEF LineEnd
  <2> HIDE DEF n
  <2>4. Min(n) \in Nat /\ p < Min(n) /\ Min(n) <= size
    BY <2>1, <2>2 DEF n
  <2> QED
    BY <2>3, <2>4 DEF Logs
<1> QED
  BY <1>1, <1>2

LEMMA LineStartProperties ==
  ASSUME Logs, NEW p \in 0 .. size
  PROVE  /\ LineStart(p) \in 0 .. p
         /\ LineStart(p) = p <=> p = 0
         /\ \A k \in nl : LineStart(p) < k => k >= p
<1> DEFINE n == {0} \union {k \in nl : k < p}
<1>0. p \in Nat /\ p >= 0 /\ \A k \in nl : k \in Nat
  BY LogFacts
<1>1. n \subseteq 0 .. p /\ n # {} /\ p \in Nat
  <2>1. \A k \in n : k \in Nat /\ k <= p
    BY <1>0
  <2> QED
    BY <1>0, <2>1
<1>2. Max(n) \in n /\ \A y \in n : Max(n) >= y
  BY <1>1, MaxOfNats, Zenon
<1>3. LineStart(p) = Max(n)
  BY DEF LineStart
<1>4. \A k \in nl : k \in Nat
  BY DEF Logs
<1>5. Max(n) \in 0 .. p /\ (Max(n) = 0 \/ Max(n) < p)
  BY <1>1, <1>2
<1>6. \A k \in nl : k < p => Max(n) >= k
  BY <1>2
<1> HIDE DEF n
<1> QED
  BY <1>1, <1>3, <1>4, <1>5, <1>6

LEMMA TailStartProperties ==
  ASSUME Logs, NEW m
  PROVE  TailStart(m) \in 0 .. size
<1> DEFINE n == {0} \union {k \in nl : k < size /\ Cardinality({l \in nl : k <= l /\ l < size}) = m}
<1>0. size \in Nat /\ size >= 0 /\ \A k \in nl : k \in Nat
  BY LogFacts
<1>1. n \subseteq 0 .. size /\ n # {} /\ size \in Nat
  <2>1. \A k \in n : k \in Nat /\ k <= size
    BY <1>0
  <2> QED
    BY <1>0, <2>1
<1>2. Max(n) \in n
  BY <1>1, MaxOfNats, Zenon
<1>3. CASE m = 0
  BY <1>0, <1>3 DEF TailStart
<1>4. CASE m # 0
  <2>1. TailStart(m) = Max(n)
    BY <1>4 DEF TailStart
  <2> HIDE DEF n
  <2> QED
    BY <1>1, <1>2, <2>1
<1> QED
  BY <1>3, <1>4

(***************************************************************************)
(* Bytes                                                                   *)
(***************************************************************************)

Byte == 1 .. MaxSize

\* The bytes after a up to b, and their parts one after the other.
LEMMA BytesProperties ==
  ASSUME MaxSize \in Nat, NEW a \in Nat, NEW b \in a .. MaxSize
  PROVE  /\ Bytes(a, b) \in Seq(Byte)
         /\ Len(Bytes(a, b)) = b - a
         /\ \A k \in 1 .. b - a : Bytes(a, b)[k] = a + k
<1>1. \A k \in 1 .. b - a : a + k \in Byte
  BY DEF Byte
<1>2. b - a \in Nat
  OBVIOUS
<1>3. Bytes(a, b) \in [1 .. b - a -> Byte]
  BY <1>1 DEF Bytes
<1>4. Bytes(a, b) \in Seq(Byte) /\ Len(Bytes(a, b)) = b - a
  BY <1>2, <1>3
<1> QED
  BY <1>4 DEF Bytes

LEMMA BytesConcat ==
  ASSUME MaxSize \in Nat, NEW a \in Nat, NEW b \in a .. MaxSize, NEW c \in b .. MaxSize
  PROVE  Bytes(a, b) \o Bytes(b, c) = Bytes(a, c)
<1> DEFINE s == Bytes(a, b)
           t == Bytes(b, c)
           u == Bytes(a, c)
<1>0. b \in Nat /\ c \in a .. MaxSize /\ b \in a .. MaxSize /\ c \in b .. MaxSize
  OBVIOUS
<1>1. /\ s \in Seq(Byte) /\ Len(s) = b - a
      /\ \A k \in 1 .. b - a : s[k] = a + k
  BY <1>0, BytesProperties
<1>2. /\ t \in Seq(Byte) /\ Len(t) = c - b
      /\ \A k \in 1 .. c - b : t[k] = b + k
  BY <1>0, BytesProperties
<1>3. /\ u \in Seq(Byte) /\ Len(u) = c - a
      /\ \A k \in 1 .. c - a : u[k] = a + k
  BY <1>0, BytesProperties
<1> HIDE DEF s, t, u
<1>4. /\ s \o t \in Seq(Byte)
      /\ Len(s \o t) = Len(s) + Len(t)
      /\ \A x \in 1 .. Len(s) + Len(t) :
           (s \o t)[x] = IF x <= Len(s) THEN s[x] ELSE t[x - Len(s)]
  BY <1>1, <1>2, ConcatProperties, Zenon
<1>5. Len(s \o t) = c - a
  BY <1>1, <1>2, <1>4
<1>6. ASSUME NEW k \in 1 .. c - a
      PROVE  (s \o t)[k] = u[k]
  <2>1. k \in 1 .. Len(s) + Len(t) /\ u[k] = a + k
    BY <1>1, <1>2, <1>3
  <2>2. CASE k <= b - a
    BY <1>1, <1>4, <2>1, <2>2
  <2>3. CASE ~ (k <= b - a)
    <3>1. k - (b - a) \in 1 .. c - b
      BY <2>3
    <3>2. (s \o t)[k] = t[k - (b - a)]
      BY <1>1, <1>4, <2>1, <2>3
    <3> QED
      BY <1>2, <2>1, <3>1, <3>2
  <2> QED
    BY <2>2, <2>3
<1>7. s \o t = u
  BY <1>3, <1>4, <1>5, <1>6, SeqEqual
<1> QED
  BY <1>7 DEF s, t, u

\* Reading some of the bytes leaves the others.
LEMMA BytesSplit ==
  ASSUME MaxSize \in Nat, NEW a \in Nat, NEW b \in a .. MaxSize, NEW k \in 0 .. b - a
  PROVE  /\ SubSeq(Bytes(a, b), 1, k) = Bytes(a, a + k)
         /\ SubSeq(Bytes(a, b), k + 1, Len(Bytes(a, b))) = Bytes(a + k, b)
<1>0. /\ b \in Nat /\ k \in Nat /\ k <= b - a /\ a + k \in Nat
      /\ a + k \in a .. MaxSize /\ b \in (a + k) .. MaxSize
  OBVIOUS
<1> DEFINE s == Bytes(a, b)
           t == Bytes(a, a + k)
           u == Bytes(a + k, b)
<1>1. /\ s \in Seq(Byte) /\ Len(s) = b - a
      /\ \A x \in 1 .. b - a : s[x] = a + x
  BY BytesProperties
<1>2. /\ t \in Seq(Byte) /\ Len(t) = k
      /\ \A x \in 1 .. k : t[x] = a + x
  <2>1. (a + k) - a = k
    BY <1>0
  <2> QED
    BY <1>0, <2>1, BytesProperties
<1>3. /\ u \in Seq(Byte) /\ Len(u) = b - (a + k)
      /\ \A x \in 1 .. b - (a + k) : u[x] = (a + k) + x
  BY <1>0, BytesProperties
<1> HIDE DEF s, t, u
<1>4. \A x \in 1 .. Len(s) : s[x] \in Byte
  BY <1>1, ElementOfSeq
<1>5. SubSeq(s, 1, k) = t
  <2>1. \A x \in 1 .. k : s[x] \in Byte
    BY <1>0, <1>1, <1>4
  <2>2. /\ SubSeq(s, 1, k) \in Seq(Byte)
        /\ Len(SubSeq(s, 1, k)) = IF 1 <= k THEN k - 1 + 1 ELSE 0
        /\ \A x \in 1 .. k - 1 + 1 : SubSeq(s, 1, k)[x] = s[1 + x - 1]
    BY <1>0, <2>1, SubSeqProperties
  <2>3. Len(SubSeq(s, 1, k)) = k
    BY <1>0, <2>2
  <2>4. \A x \in 1 .. k : SubSeq(s, 1, k)[x] = t[x]
    <3> SUFFICES ASSUME NEW x \in 1 .. k PROVE SubSeq(s, 1, k)[x] = t[x]
      OBVIOUS
    <3>1. x \in 1 .. k - 1 + 1 /\ 1 + x - 1 = x /\ x \in 1 .. b - a
      BY <1>0
    <3> QED
      BY <1>1, <1>2, <2>2, <3>1
  <2> QED
    BY <1>2, <2>2, <2>3, <2>4, SeqEqual
<1>6. SubSeq(s, k + 1, Len(s)) = u
  <2>1. \A x \in k + 1 .. b - a : s[x] \in Byte
    BY <1>0, <1>1, <1>4
  <2> DEFINE v == SubSeq(s, k + 1, b - a)
  <2>2. k + 1 \in Int /\ b - a \in Int
    BY <1>0
  <2>3. /\ v \in Seq(Byte)
        /\ Len(v) = IF k + 1 <= b - a THEN (b - a) - (k + 1) + 1 ELSE 0
        /\ \A x \in 1 .. (b - a) - (k + 1) + 1 : v[x] = s[(k + 1) + x - 1]
    <3>1. PICK m \in Int, n \in Int : m = k + 1 /\ n = b - a
      BY <2>2
    <3>2. \A x \in m .. n : s[x] \in Byte
      BY <2>1, <3>1
    <3>3. /\ SubSeq(s, m, n) \in Seq(Byte)
          /\ Len(SubSeq(s, m, n)) = IF m <= n THEN n - m + 1 ELSE 0
          /\ \A x \in 1 .. n - m + 1 : SubSeq(s, m, n)[x] = s[m + x - 1]
      BY <3>2, SubSeqProperties
    <3> QED
      BY <3>1, <3>3
  <2> HIDE DEF v
  <2>4. Len(v) = b - (a + k)
    BY <1>0, <2>3
  <2>5. \A x \in 1 .. b - (a + k) : v[x] = u[x]
    <3> SUFFICES ASSUME NEW x \in 1 .. b - (a + k) PROVE v[x] = u[x]
      OBVIOUS
    <3>1. /\ x \in 1 .. (b - a) - (k + 1) + 1 /\ (k + 1) + x - 1 = k + x
          /\ k + x \in 1 .. b - a /\ a + (k + x) = (a + k) + x
      BY <1>0
    <3> QED
      BY <1>1, <1>3, <2>3, <3>1
  <2>6. v = u
    BY <1>3, <2>3, <2>4, <2>5, SeqEqual
  <2> QED
    BY <1>1, <2>6 DEF v
<1> QED
  BY <1>5, <1>6 DEF s, t, u

\* Where a reader stands is an empty run of bytes.
LEMMA NoBytes ==
  ASSUME MaxSize \in Nat, NEW a \in 0 .. MaxSize
  PROVE  Bytes(a, a) = <<>>
<1>1. Bytes(a, a) \in Seq(Byte) /\ Len(Bytes(a, a)) = 0
  BY BytesProperties
<1> QED
  BY <1>1, EmptySeq

\* What the client takes from the wire: a line, or the rest.
LEMMA LineProperties ==
  ASSUME MaxSize \in Nat, wire \in Seq(Byte), wire # <<>>
  PROVE  /\ Line \in 1 .. Len(wire) /\ Len(wire) \in Nat
         /\ Line = Len(wire) \/ wire[Line] \in nl
<1> DEFINE n == {k \in 1 .. Len(wire) : wire[k] \in nl}
<1>1. Len(wire) \in Nat /\ Len(wire) >= 1
  <2>1. Len(wire) \in Nat \ {0}
    BY EmptySeq
  <2> QED
    BY <2>1
<1>2. CASE n = {}
  BY <1>1, <1>2 DEF Line
<1>3. CASE n # {}
  <2>1. n \subseteq Nat
    OBVIOUS
  <2>2. Min(n) \in n
    BY <1>3, <2>1, MinOfNats, Zenon
  <2>3. Line = Min(n)
    BY <1>3 DEF Line
  <2> QED
    BY <1>1, <2>2, <2>3
<1> QED
  BY <1>2, <1>3

(***************************************************************************)
(* Lines read backwards                                                    *)
(***************************************************************************)

\* The first k elements of a sequence.
First(s, k) == {s[x] : x \in 1 .. k}

\* w are the bytes before position p, line by line, the last line first; N are the
\* positions of the newlines.
BackLines(w, p, N) ==
  /\ IsInjective(w) /\ Len(w) <= p
  /\ \A k \in 1 .. Len(w) : k = Len(w) \/ w[k] \in N => First(w, k) = p - k + 1 .. p

\* An empty wire is a run of lines anywhere.
LEMMA NoBackLines ==
  ASSUME NEW p \in Nat, NEW N
  PROVE  BackLines(<<>>, p, N)
BY DEF BackLines, IsInjective

\* Another line is put on the wire.
LEMMA BackLinesRead ==
  ASSUME MaxSize \in Nat, NEW N \in SUBSET Nat, NEW w \in Seq(Byte), NEW s \in 0 .. MaxSize,
         BackLines(w, s, N), NEW b \in 0 .. MaxSize, b + Len(w) = s, NEW a \in 0 .. b,
         \A k \in N : a < k => k >= b
  PROVE  BackLines(w \o Bytes(a, b), s, N)
<1> DEFINE t == Bytes(a, b)
           u == w \o t
<1>1. PICK n \in Nat, m \in Nat : n = Len(w) /\ m = b - a
  OBVIOUS
<1>2. /\ t \in Seq(Byte) /\ Len(t) = m
      /\ \A x \in 1 .. m : t[x] = a + x
  <2>1. a \in Nat /\ b \in a .. MaxSize
    OBVIOUS
  <2>2. /\ t \in Seq(Byte) /\ Len(t) = b - a
        /\ \A x \in 1 .. b - a : t[x] = a + x
    BY <2>1, BytesProperties
  <2> HIDE DEF t
  <2> QED
    BY <1>1, <2>2
<1> HIDE DEF t
<1>3. /\ u \in Seq(Byte) /\ Len(u) = n + m
      /\ \A x \in 1 .. n + m : u[x] = IF x <= n THEN w[x] ELSE t[x - n]
  <2>1. /\ u \in Seq(Byte) /\ Len(u) = Len(w) + Len(t)
        /\ \A x \in 1 .. Len(w) + Len(t) : u[x] = IF x <= Len(w) THEN w[x] ELSE t[x - Len(w)]
    BY <1>2, ConcatProperties, Zenon
  <2> HIDE DEF u
  <2> QED
    BY <1>1, <1>2, <2>1
<1>4. DOMAIN w = 1 .. n /\ DOMAIN u = 1 .. n + m
  BY <1>1, <1>3
<1> HIDE DEF u
<1>5. \A x \in 1 .. n : u[x] = w[x]
  BY <1>3
<1>6. \A x \in n + 1 .. n + m : u[x] = a + (x - n)
  <2> SUFFICES ASSUME NEW x \in n + 1 .. n + m PROVE u[x] = a + (x - n)
    OBVIOUS
  <2>1. x - n \in 1 .. m /\ x \in 1 .. n + m /\ ~ (x <= n)
    OBVIOUS
  <2> QED
    BY <1>2, <1>3, <2>1
<1>7. First(w, n) = b + 1 .. s
  <2>1. CASE n = 0
    BY <1>1, <2>1 DEF First
  <2>2. CASE n # 0
    <3>1. n \in 1 .. Len(w) /\ s - n + 1 = b + 1
      BY <1>1, <2>2
    <3> QED
      BY <1>1, <3>1 DEF BackLines
  <2> QED
    BY <2>1, <2>2
<1>8. \A x \in 1 .. n : w[x] > b
  <2> SUFFICES ASSUME NEW x \in 1 .. n PROVE w[x] > b
    OBVIOUS
  <2>1. w[x] \in First(w, n)
    BY DEF First
  <2>2. w[x] \in b + 1 .. s
    BY <1>7, <2>1, Zenon
  <2> QED
    BY <2>2
<1>9. IsInjective(u)
  <2>1. \A x, y \in 1 .. n : w[x] = w[y] => x = y
    BY <1>4 DEF BackLines, IsInjective
  <2> SUFFICES ASSUME NEW x \in 1 .. n + m, NEW y \in 1 .. n + m, u[x] = u[y] PROVE x = y
    BY <1>4 DEF IsInjective
  <2>2. CASE x <= n /\ y <= n
    BY <1>5, <2>1, <2>2
  <2>3. CASE x <= n /\ ~ (y <= n)
    <3>1. y \in n + 1 .. n + m /\ a + (y - n) <= b /\ x \in 1 .. n
      BY <1>1, <2>3
    <3>2. w[x] = a + (y - n)
      BY <1>5, <1>6, <3>1
    <3> QED
      BY <1>8, <3>1, <3>2
  <2>4. CASE ~ (x <= n) /\ y <= n
    <3>1. x \in n + 1 .. n + m /\ a + (x - n) <= b /\ y \in 1 .. n
      BY <1>1, <2>4
    <3>2. w[y] = a + (x - n)
      BY <1>5, <1>6, <3>1
    <3> QED
      BY <1>8, <3>1, <3>2
  <2>5. CASE ~ (x <= n) /\ ~ (y <= n)
    <3>1. x \in n + 1 .. n + m /\ y \in n + 1 .. n + m
      BY <2>5
    <3>2. a + (x - n) = a + (y - n)
      BY <1>6, <3>1
    <3> QED
      BY <3>1, <3>2
  <2> QED
    BY <2>2, <2>3, <2>4, <2>5
<1>10. ASSUME NEW k \in 1 .. n + m, k = n + m \/ u[k] \in N
       PROVE  First(u, k) = s - k + 1 .. s
  <2>1. CASE k <= n /\ (k < n \/ m = 0 \/ u[k] \in N)
    <3>1. k \in 1 .. Len(w) /\ (k = Len(w) \/ w[k] \in N)
      BY <1>1, <1>5, <1>10, <2>1
    <3>2. First(w, k) = s - k + 1 .. s
      BY <3>1 DEF BackLines
    <3>3. \A x \in 1 .. k : u[x] = w[x]
      BY <1>5, <2>1
    <3> QED
      BY <3>2, <3>3 DEF First
  <2>2. CASE k > n
    <3>1. k \in n + 1 .. n + m /\ u[k] = a + (k - n)
      BY <1>6, <2>2
    <3>2. k = n + m
      <4>1. CASE u[k] \in N
        <5>1. u[k] > a /\ u[k] \in Nat
          BY <3>1
        <5>2. u[k] >= b
          BY <4>1, <5>1
        <5> QED
          BY <1>1, <3>1, <5>2
      <4> QED
        BY <1>10, <4>1
    <3>3. First(u, n + m) = First(w, n) \union (a + 1 .. b)
      <4>1. ASSUME NEW x \in 1 .. n + m
            PROVE  u[x] \in First(w, n) \union (a + 1 .. b)
        <5>1. CASE x <= n
          <6>1. x \in 1 .. n /\ u[x] = w[x]
            BY <1>5, <5>1
          <6> QED
            BY <6>1 DEF First
        <5>2. CASE x > n
          <6>1. x \in n + 1 .. n + m /\ u[x] = a + (x - n)
            BY <1>6, <5>2
          <6> QED
            BY <1>1, <6>1
        <5> QED
          BY <5>1, <5>2
      <4>2. ASSUME NEW x \in 1 .. n
            PROVE  w[x] \in First(u, n + m)
        <5>1. x \in 1 .. n + m /\ u[x] = w[x]
          BY <1>5
        <5> QED
          BY <5>1 DEF First
      <4>3. ASSUME NEW y \in a + 1 .. b
            PROVE  y \in First(u, n + m)
        <5>1. n + (y - a) \in n + 1 .. n + m /\ a + ((n + (y - a)) - n) = y
          BY <1>1
        <5>2. u[n + (y - a)] = y
          BY <1>6, <5>1
        <5> QED
          BY <5>1, <5>2 DEF First
      <4> QED
        BY <4>1, <4>2, <4>3 DEF First
    <3>4. (b + 1 .. s) \union (a + 1 .. b) = s - (n + m) + 1 .. s
      BY <1>1
    <3> QED
      BY <1>7, <3>2, <3>3, <3>4
  <2> QED
    BY <1>10, <2>1, <2>2
<1>11. n + m <= s
  BY <1>1
<1> QED
  BY <1>3, <1>9, <1>10, <1>11 DEF BackLines, u, t

\* What reading backwards is for: o are the bytes from p up to f, each once.
BackRead(o, p, f) == IsInjective(o) /\ ToSet(o) = p + 1 .. f

\* The client takes the first n bytes off the wire, a line of it.
LEMMA BackLinesTaken ==
  ASSUME MaxSize \in Nat, NEW N, NEW w \in Seq(Byte), NEW s \in 0 .. MaxSize,
         BackLines(w, s, N), NEW n \in 1 .. Len(w), n = Len(w) \/ w[n] \in N
  PROVE  BackLines(SubSeq(w, n + 1, Len(w)), s - n, N)
<1>1. PICK l \in Nat, m \in Nat : l = Len(w) /\ m = l - n
  OBVIOUS
<1> DEFINE v == SubSeq(w, n + 1, l)
<1>2. /\ v \in Seq(Byte) /\ Len(v) = m
      /\ \A x \in 1 .. m : v[x] = w[n + x]
  <2>1. PICK q \in Int : q = n + 1
    OBVIOUS
  <2>2. \A x \in q .. l : w[x] \in Byte
    BY <1>1, <2>1, ElementOfSeq
  <2>3. /\ SubSeq(w, q, l) \in Seq(Byte)
        /\ Len(SubSeq(w, q, l)) = IF q <= l THEN l - q + 1 ELSE 0
        /\ \A x \in 1 .. l - q + 1 : SubSeq(w, q, l)[x] = w[q + x - 1]
    BY <2>2, SubSeqProperties
  <2>4. v = SubSeq(w, q, l)
    BY <2>1
  <2> HIDE DEF v
  <2>5. v \in Seq(Byte) /\ Len(v) = m
    BY <1>1, <2>1, <2>3, <2>4
  <2>6. ASSUME NEW x \in 1 .. m
        PROVE  v[x] = w[n + x]
    <3>1. x \in 1 .. l - q + 1 /\ q + x - 1 = n + x
      BY <1>1, <2>1
    <3> QED
      BY <2>3, <2>4, <3>1
  <2> QED
    BY <2>5, <2>6
<1> HIDE DEF v
<1>3. DOMAIN w = 1 .. l /\ DOMAIN v = 1 .. m
  BY <1>1, <1>2
<1>4. \A x, y \in 1 .. l : w[x] = w[y] => x = y
  BY <1>3 DEF BackLines, IsInjective
<1>5. First(w, n) = s - n + 1 .. s
  BY DEF BackLines
<1>6. IsInjective(v)
  <2> SUFFICES ASSUME NEW x \in 1 .. m, NEW y \in 1 .. m, v[x] = v[y] PROVE x = y
    BY <1>3 DEF IsInjective
  <2>1. n + x \in 1 .. l /\ n + y \in 1 .. l /\ w[n + x] = w[n + y]
    BY <1>1, <1>2
  <2>2. n + x = n + y
    BY <1>4, <2>1
  <2> QED
    BY <2>2
<1>7. ASSUME NEW k \in 1 .. m, k = m \/ v[k] \in N
      PROVE  First(v, k) = (s - n) - k + 1 .. s - n
  <2>1. n + k \in 1 .. l /\ (n + k = l \/ w[n + k] \in N)
    BY <1>1, <1>2, <1>7
  <2>2. First(w, n + k) = s - (n + k) + 1 .. s
    BY <1>1, <2>1 DEF BackLines
  <2>3. ASSUME NEW x \in 1 .. k
        PROVE  v[x] \in (s - n) - k + 1 .. s - n
    <3>1. n + x \in 1 .. n + k /\ n + x \in 1 .. l /\ v[x] = w[n + x]
      BY <1>1, <1>2
    <3>2. v[x] \in First(w, n + k)
      BY <3>1 DEF First
    <3>3. v[x] \notin First(w, n)
      <4> SUFFICES ASSUME NEW y \in 1 .. n, v[x] = w[y] PROVE FALSE
        BY DEF First
      <4>1. y \in 1 .. l /\ n + x # y
        BY <1>1
      <4> QED
        BY <1>4, <3>1, <4>1
    <3>4. v[x] \in s - (n + k) + 1 .. s /\ v[x] \notin s - n + 1 .. s
      BY <1>5, <2>2, <3>2, <3>3
    <3> HIDE DEF v
    <3> QED
      BY <3>4
  <2>4. ASSUME NEW y \in (s - n) - k + 1 .. s - n
        PROVE  y \in First(v, k)
    <3>1. y \in s - (n + k) + 1 .. s /\ y \notin s - n + 1 .. s
      OBVIOUS
    <3>2. y \in First(w, n + k) /\ y \notin First(w, n)
      BY <1>5, <2>2, <3>1
    <3>3. PICK x \in 1 .. n + k : y = w[x]
      BY <3>2 DEF First
    <3>4. ~ (x <= n)
      BY <3>2, <3>3 DEF First
    <3>5. x - n \in 1 .. k /\ x - n \in 1 .. m /\ n + (x - n) = x
      BY <3>4
    <3>6. y = v[x - n]
      BY <1>2, <3>3, <3>5
    <3> QED
      BY <3>5, <3>6 DEF First
  <2> QED
    BY <2>3, <2>4 DEF First
<1>8. m <= s - n
  BY <1>1 DEF BackLines
<1> QED
  BY <1>1, <1>2, <1>6, <1>7, <1>8 DEF BackLines, v

\* What it took before and what it takes are one run of bytes.
LEMMA BackReadOn ==
  ASSUME MaxSize \in Nat, NEW N, NEW w \in Seq(Byte), NEW s \in 0 .. MaxSize,
         BackLines(w, s, N), NEW n \in 1 .. Len(w), n = Len(w) \/ w[n] \in N,
         NEW o \in Seq(Byte), NEW f \in s .. MaxSize, BackRead(o, s, f)
  PROVE  BackRead(o \o SubSeq(w, 1, n), s - n, f)
<1>1. PICK l \in Nat : l = Len(o)
  OBVIOUS
<1> DEFINE v == SubSeq(w, 1, n)
           u == o \o v
<1>2. /\ v \in Seq(Byte) /\ Len(v) = n
      /\ \A x \in 1 .. n : v[x] = w[x]
  <2>1. \A x \in 1 .. n : w[x] \in Byte
    BY ElementOfSeq
  <2>2. /\ SubSeq(w, 1, n) \in Seq(Byte)
        /\ Len(SubSeq(w, 1, n)) = IF 1 <= n THEN n - 1 + 1 ELSE 0
        /\ \A x \in 1 .. n - 1 + 1 : SubSeq(w, 1, n)[x] = w[1 + x - 1]
    BY <2>1, SubSeqProperties
  <2> HIDE DEF v
  <2>3. Len(v) = n
    BY <2>2 DEF v
  <2>4. ASSUME NEW x \in 1 .. n
        PROVE  v[x] = w[x]
    <3>1. x \in 1 .. n - 1 + 1 /\ 1 + x - 1 = x
      OBVIOUS
    <3> QED
      BY <2>2, <3>1 DEF v
  <2> QED
    BY <2>2, <2>3, <2>4 DEF v
<1> HIDE DEF v
<1>3. /\ Len(u) = l + n /\ u \in Seq(Byte)
      /\ \A x \in 1 .. l + n : u[x] = IF x <= l THEN o[x] ELSE v[x - l]
  <2>1. /\ u \in Seq(Byte) /\ Len(u) = Len(o) + Len(v)
        /\ \A x \in 1 .. Len(o) + Len(v) : u[x] = IF x <= Len(o) THEN o[x] ELSE v[x - Len(o)]
    BY <1>2, ConcatProperties, Zenon
  <2> HIDE DEF u
  <2> QED
    BY <1>1, <1>2, <2>1
<1> HIDE DEF u
<1>4. DOMAIN w = 1 .. Len(w) /\ DOMAIN o = 1 .. l /\ DOMAIN u = 1 .. l + n
  BY <1>1, <1>3
<1>5. \A x \in 1 .. l : u[x] = o[x]
  BY <1>3
<1>6. \A x \in 1 .. n : l + x \in 1 .. l + n /\ u[l + x] = w[x]
  <2> SUFFICES ASSUME NEW x \in 1 .. n PROVE l + x \in 1 .. l + n /\ u[l + x] = w[x]
    OBVIOUS
  <2>1. l + x \in 1 .. l + n /\ ~ (l + x <= l) /\ (l + x) - l = x
    OBVIOUS
  <2> QED
    BY <1>2, <1>3, <2>1
<1>7. \A x \in 1 .. l + n : x \in 1 .. l \/ \E y \in 1 .. n : x = l + y
  <2> SUFFICES ASSUME NEW x \in 1 .. l + n, x \notin 1 .. l PROVE \E y \in 1 .. n : x = l + y
    OBVIOUS
  <2>1. x - l \in 1 .. n /\ x = l + (x - l)
    OBVIOUS
  <2> QED
    BY <2>1
<1>8. First(w, n) = s - n + 1 .. s
  BY DEF BackLines
<1>9. {o[x] : x \in 1 .. l} = s + 1 .. f
  BY <1>4 DEF BackRead, ToSet
<1>10. \A x \in 1 .. l, y \in 1 .. n : o[x] # w[y]
  <2> SUFFICES ASSUME NEW x \in 1 .. l, NEW y \in 1 .. n PROVE o[x] # w[y]
    OBVIOUS
  <2>1. o[x] \in s + 1 .. f /\ w[y] \in s - n + 1 .. s
    BY <1>8, <1>9 DEF First
  <2> QED
    BY <2>1
<1>11. IsInjective(u)
  <2>1. \A x, y \in 1 .. l : o[x] = o[y] => x = y
    BY <1>4 DEF BackRead, IsInjective
  <2>2. \A x, y \in 1 .. n : w[x] = w[y] => x = y
    <3>1. \A x \in 1 .. n : x \in 1 .. Len(w)
      OBVIOUS
    <3>2. \A x, y \in 1 .. Len(w) : w[x] = w[y] => x = y
      BY <1>4 DEF BackLines, IsInjective
    <3> QED
      BY <3>1, <3>2
  <2> SUFFICES ASSUME NEW x \in 1 .. l + n, NEW y \in 1 .. l + n, u[x] = u[y] PROVE x = y
    BY <1>4 DEF IsInjective
  <2>3. CASE x \in 1 .. l /\ y \in 1 .. l
    BY <1>5, <2>1, <2>3
  <2>4. CASE x \in 1 .. l /\ \E z \in 1 .. n : y = l + z
    <3>1. PICK z \in 1 .. n : y = l + z
      BY <2>4
    <3>2. u[y] = w[z]
      BY <1>6, <3>1
    <3>3. u[x] = o[x]
      BY <1>5, <2>4
    <3>4. o[x] # w[z]
      BY <1>10, <2>4
    <3> QED
      BY <3>2, <3>3, <3>4
  <2>5. CASE y \in 1 .. l /\ \E z \in 1 .. n : x = l + z
    <3>1. PICK z \in 1 .. n : x = l + z
      BY <2>5
    <3>2. u[x] = w[z]
      BY <1>6, <3>1
    <3>3. u[y] = o[y]
      BY <1>5, <2>5
    <3>4. o[y] # w[z]
      BY <1>10, <2>5
    <3> QED
      BY <3>2, <3>3, <3>4
  <2>6. ASSUME NEW z \in 1 .. n, NEW z2 \in 1 .. n, x = l + z, y = l + z2
        PROVE  x = y
    <3>1. u[x] = w[z] /\ u[y] = w[z2]
      BY <1>6, <2>6
    <3>2. z = z2
      BY <2>2, <3>1
    <3> QED
      BY <2>6, <3>2
  <2>7. (x \in 1 .. l \/ \E z \in 1 .. n : x = l + z) /\ (y \in 1 .. l \/ \E z \in 1 .. n : y = l + z)
    BY <1>7
  <2> QED
    BY <2>3, <2>4, <2>5, <2>6, <2>7
<1>12. {u[x] : x \in 1 .. l + n} = {o[x] : x \in 1 .. l} \union First(w, n)
  <2>1. ASSUME NEW x \in 1 .. l + n
        PROVE  u[x] \in {o[y] : y \in 1 .. l} \union First(w, n)
    <3>1. CASE x \in 1 .. l
      BY <1>5, <3>1
    <3>2. CASE \E y \in 1 .. n : x = l + y
      BY <1>6, <3>2 DEF First
    <3> QED
      BY <1>7, <3>1, <3>2
  <2>2. ASSUME NEW x \in 1 .. l
        PROVE  o[x] \in {u[y] : y \in 1 .. l + n}
    <3>1. x \in 1 .. l + n
      OBVIOUS
    <3> QED
      BY <1>5, <3>1
  <2>3. ASSUME NEW x \in 1 .. n
        PROVE  w[x] \in {u[y] : y \in 1 .. l + n}
    BY <1>6
  <2> QED
    BY <2>1, <2>2, <2>3 DEF First
<1>13. ToSet(u) = {u[x] : x \in 1 .. l + n}
  BY <1>4 DEF ToSet
<1>14. (s + 1 .. f) \union (s - n + 1 .. s) = (s - n) + 1 .. f
  OBVIOUS
<1>15. ToSet(u) = (s - n) + 1 .. f
  BY <1>8, <1>9, <1>12, <1>13, <1>14
<1> QED
  BY <1>11, <1>15 DEF BackRead, u, v

(***************************************************************************)
(* The inductive invariant                                                 *)
(***************************************************************************)

Idle == req \in {"none", "get", "wait", "check", "open"}
Reading == req \in {"read", "seek", "follow", "poll"}
Following == req \in {"follow", "poll"}

\* Where the client is when the server works for it, and what an empty response leaves.
PhaseInv ==
  /\ cli \in {"begin", "call", "stopped", "failed"} => wire = <<>>
  /\ cli \in {"begin", "call", "stopped"} => req = "none"
  /\ cli = "begin" => out = <<>> /\ seek = 0 /\ from = 0
  /\ cli = "failed" => req = "done"
  /\ cli = "read" => req # "none"
  /\ Idle => wire = <<>>
  /\ req \in {"get", "wait", "check", "open"} => cli = "read" /\ got = FALSE
  /\ Reading => cli = "read" /\ ~ notReady
  /\ notReady => wire = <<>>
  /\ tail => call.mode = "tail_all"
  /\ tail /\ (Idle \/ notReady) => out = <<>> /\ seek = from
  /\ Back => ~ req \in {"seek", "follow", "poll"}
  /\ cut => ~ Reading /\ req \notin {"get", "wait", "check", "open"}
  /\ Reading /\ i > 0 => got \/ wire # <<>>

\* Up to where the response's bytes are on the wire: a half line is kept back.
Upto == IF Following THEN prev ELSE pos

\* Forward: what is read, on the wire and still to be read follow one another.
FwdInv == ~ Back =>
  /\ Reading => /\ seek + Len(wire) <= Upto
                /\ ~ gap => seek + Len(wire) = Upto
  /\ seek + Len(wire) <= size
  /\ Following => prev \in 0 .. pos
  /\ tail /\ req = "read" => prev \in pos .. size
  /\ ~ gap => /\ from <= seek
              /\ wire = Bytes(seek, seek + Len(wire))
              /\ out = Bytes(from, seek)

\* Backward: lines in their order, the last line of the file first.
BackInv == Back =>
  /\ seek <= from /\ from <= size /\ Len(wire) <= seek
  /\ ~ gap => BackRead(out, seek, from) /\ BackLines(wire, seek, nl)
  /\ req = "read" => pos + Len(wire) = seek

IsOver == task \in {"ended", "cleaned"}

\* A response that says that the task is over was opened after its last byte.
StopInv ==
  /\ req = "open" /\ isEnd => IsOver
  /\ cli = "read" /\ (Reading \/ req = "done") /\ ~ notReady /\ taskIsEnd /\ ~ cut =>
        /\ isEnd /\ IsOver /\ req \in {"read", "done"}
        /\ IF Back THEN seek - Len(wire) = pos ELSE ~ gap => seek + Len(wire) = pos
        /\ tail => prev = size
        /\ i > 0 => got \/ wire # <<>>
        /\ req = "done" /\ i = 0 => pos = IF Back THEN 0 ELSE size
  /\ cli = "read" /\ notReady /\ req = "done" => ~ taskIsEnd
  /\ StoppedMeansAllRead

LogInv == TypeOK /\ PhaseInv /\ FwdInv /\ BackInv /\ StopInv

\* What the types give the steps below.
LEMMA CallTypes ==
  ASSUME TaskLogAssumption, TypeOK
  PROVE  /\ call.mode \in {"more_all", "tail_all", "more_back"} /\ call.pool_line \in Nat \ {0}
         /\ size \in Nat /\ MaxSize \in Nat /\ size <= MaxSize /\ seek \in Nat /\ Logs
BY DEF TaskLogAssumption, TypeOK, Logs

(***************************************************************************)
(* Every step keeps the invariant                                          *)
(***************************************************************************)

\* task_log reads task_info.
LEMMA GetKeeps ==
  ASSUME TaskLogAssumption, LogInv, Get
  PROVE  LogInv'
<1>1. /\ size' = size /\ nl' = nl /\ task' = task /\ call' = call /\ tail' = tail /\ seek' = seek
      /\ from' = from /\ got' = got /\ taskIsEnd' = taskIsEnd /\ notReady' = notReady /\ out' = out /\ gap' = gap
      /\ drops' = drops /\ cut' = cut /\ isEnd' = isEnd /\ i' = i /\ pos' = pos /\ prev' = prev /\ late' = late
      /\ wire' = wire
  BY DEF Get, taskVars, callVars, historyVars, requestVars
<1>2. TypeOK /\ PhaseInv /\ FwdInv /\ BackInv /\ StopInv
  BY DEF LogInv
<1>3. TypeOK'
  <2>1. req' \in {"done", "wait"} /\ cli' \in {cli, "failed"}
    BY <1>2 DEF TypeOK, Get
  <2>2. started' \in {started, Begun} /\ Begun \in BOOLEAN
    BY DEF Begun, Get
  <2> QED
    BY <1>1, <1>2, <2>1, <2>2 DEF TypeOK
<1>4. PhaseInv'
  BY <1>1, <1>2 DEF PhaseInv, Back, Idle, Reading, TypeOK, Get
<1>5. FwdInv'
  BY <1>1, <1>2 DEF FwdInv, Back, Reading, Following, Upto, PhaseInv, Get
<1>6. BackInv'
  BY <1>1, <1>2 DEF BackInv, Back, PhaseInv, Get
<1>7. StopInv'
  BY <1>1, <1>2 DEF StopInv, StoppedMeansAllRead, Back, Reading, IsOver, PhaseInv, Get
<1> QED
  BY <1>3, <1>4, <1>5, <1>6, <1>7 DEF LogInv

\* It waits for the stage "start".
LEMMA WaitStageKeeps ==
  ASSUME TaskLogAssumption, LogInv, WaitStage
  PROVE  LogInv'
<1>1. /\ size' = size /\ nl' = nl /\ task' = task /\ call' = call /\ tail' = tail /\ seek' = seek
      /\ from' = from /\ got' = got /\ out' = out /\ gap' = gap /\ drops' = drops /\ cut' = cut /\ started' = started
      /\ isEnd' = isEnd /\ i' = i /\ pos' = pos /\ prev' = prev /\ late' = late /\ wire' = wire
  BY DEF WaitStage, taskVars, callVars, historyVars, requestVars
<1>2. TypeOK /\ PhaseInv /\ FwdInv /\ BackInv /\ StopInv
  BY DEF LogInv
<1>3. TypeOK'
  <2>1. req' \in {"check", "done", "get"} /\ notReady' \in BOOLEAN /\ taskIsEnd' \in BOOLEAN
        /\ cli' \in {cli, "failed"}
    BY <1>2 DEF TypeOK, WaitStage
  <2> QED
    BY <1>1, <1>2, <2>1 DEF TypeOK
<1>4. PhaseInv'
  BY <1>1, <1>2 DEF PhaseInv, Back, Idle, Reading, TypeOK, WaitStage
<1>5. FwdInv'
  BY <1>1, <1>2 DEF FwdInv, Back, Reading, Following, Upto, PhaseInv, WaitStage
<1>6. BackInv'
  BY <1>1, <1>2 DEF BackInv, Back, PhaseInv, WaitStage
<1>7. StopInv'
  BY <1>1, <1>2 DEF StopInv, StoppedMeansAllRead, Back, Reading, IsOver, PhaseInv, WaitStage
<1> QED
  BY <1>3, <1>4, <1>5, <1>6, <1>7 DEF LogInv

\* It asks whether the task is over.
LEMMA CheckEndKeeps ==
  ASSUME TaskLogAssumption, LogInv, CheckEnd
  PROVE  LogInv'
<1>1. /\ size' = size /\ nl' = nl /\ task' = task /\ call' = call /\ tail' = tail /\ seek' = seek
      /\ from' = from /\ got' = got /\ taskIsEnd' = taskIsEnd /\ notReady' = notReady /\ cli' = cli /\ out' = out
      /\ gap' = gap /\ drops' = drops /\ cut' = cut /\ started' = started /\ i' = i /\ pos' = pos /\ prev' = prev
      /\ late' = late /\ wire' = wire
  BY DEF CheckEnd, taskVars, callVars, historyVars, requestVars
<1>2. TypeOK /\ PhaseInv /\ FwdInv /\ BackInv /\ StopInv
  BY DEF LogInv
<1>3. TypeOK'
  BY <1>1, <1>2 DEF TypeOK, CheckEnd
<1>4. PhaseInv'
  BY <1>1, <1>2 DEF PhaseInv, Back, Idle, Reading, TypeOK, CheckEnd
<1>5. FwdInv'
  BY <1>1, <1>2 DEF FwdInv, Back, Reading, Following, Upto, PhaseInv, CheckEnd
<1>6. BackInv'
  BY <1>1, <1>2 DEF BackInv, Back, PhaseInv, CheckEnd
<1>7. StopInv'
  BY <1>1, <1>2 DEF StopInv, StoppedMeansAllRead, Back, Reading, IsOver, PhaseInv, CheckEnd
<1> QED
  BY <1>3, <1>4, <1>5, <1>6, <1>7 DEF LogInv

\* The response is over, or the follower begins.
LEMMA ReadOverKeeps ==
  ASSUME TaskLogAssumption, LogInv, ReadOver
  PROVE  LogInv'
<1>1. /\ size' = size /\ nl' = nl /\ task' = task /\ call' = call /\ tail' = tail /\ seek' = seek
      /\ from' = from /\ got' = got /\ taskIsEnd' = taskIsEnd /\ notReady' = notReady /\ cli' = cli /\ out' = out
      /\ gap' = gap /\ drops' = drops /\ cut' = cut /\ started' = started /\ isEnd' = isEnd /\ i' = i /\ pos' = pos
      /\ prev' = prev /\ late' = late /\ wire' = wire
  BY DEF ReadOver, taskVars, callVars, historyVars, requestVars
<1>2. TypeOK /\ PhaseInv /\ FwdInv /\ BackInv /\ StopInv
  BY DEF LogInv
<1>3. TypeOK'
  BY <1>1, <1>2 DEF TypeOK, ReadOver
<1>4. PhaseInv'
  BY <1>1, <1>2 DEF PhaseInv, Back, Idle, Reading, TypeOK, Follows, ReadOver
<1>5. FwdInv'
  BY <1>1, <1>2 DEF FwdInv, Back, Reading, Following, Upto, PhaseInv, ReadOver
<1>6. BackInv'
  BY <1>1, <1>2 DEF BackInv, Back, PhaseInv, ReadOver
<1>7. StopInv'
  <2>1. call.pool_line \in Nat \ {0}
    BY <1>2, CallTypes
  <2>2. req' = "done" \/ (~ isEnd /\ req' = "seek")
    <3>1. call.follow \in BOOLEAN /\ isEnd \in BOOLEAN
      BY <1>2 DEF TypeOK, TaskLogAssumption
    <3> QED
      BY <3>1 DEF ReadOver, Follows
  <2>3. i = 0 => pos = IF Back THEN 0 ELSE IF tail THEN prev ELSE size
    BY <2>1 DEF ReadOver
  <2> QED
    BY <1>1, <1>2, <2>2, <2>3 DEF StopInv, StoppedMeansAllRead, Back, Reading, IsOver, PhaseInv, ReadOver
<1> QED
  BY <1>3, <1>4, <1>5, <1>6, <1>7 DEF LogInv

\* The follower begins at the end of the file.
LEMMA SeekTailKeeps ==
  ASSUME TaskLogAssumption, LogInv, SeekTail
  PROVE  LogInv'
<1>1. /\ size' = size /\ nl' = nl /\ task' = task /\ call' = call /\ tail' = tail /\ seek' = seek
      /\ from' = from /\ got' = got /\ taskIsEnd' = taskIsEnd /\ notReady' = notReady /\ cli' = cli /\ out' = out
      /\ drops' = drops /\ cut' = cut /\ started' = started /\ isEnd' = isEnd /\ i' = i /\ late' = late /\ wire' = wire
  BY DEF SeekTail, taskVars, callVars, historyVars, requestVars
<1>2. TypeOK /\ PhaseInv /\ FwdInv /\ BackInv /\ StopInv
  BY DEF LogInv
<1>3. TypeOK'
  BY <1>1, <1>2 DEF TypeOK, SeekTail
<1>4. PhaseInv'
  BY <1>1, <1>2 DEF PhaseInv, Back, Idle, Reading, TypeOK, SeekTail
<1>5. FwdInv'
  <2>1. pos \in 0 .. size /\ size \in Nat /\ pos' = size /\ prev' = size /\ req = "seek" /\ req' = "follow"
        /\ gap' = (gap \/ pos # size)
    BY <1>2, CallTypes DEF TypeOK, SeekTail
  <2>2. Back' <=> Back
    BY <1>1 DEF Back
  <2>3. ~ Back => /\ seek + Len(wire) <= pos
                  /\ ~ gap => seek + Len(wire) = pos
    BY <1>2, <2>1 DEF FwdInv, Reading, Following, Upto
  <2>4. wire \in Seq(Byte) /\ seek \in Nat
    BY <1>2, CallTypes DEF TypeOK, Byte
  <2>5. Len(wire) \in Nat
    BY <2>4
  <2>6. Upto' = size
    BY <2>1 DEF Upto, Following
  <2>7. ~ Back /\ ~ gap => from <= seek /\ wire = Bytes(seek, seek + Len(wire)) /\ out = Bytes(from, seek)
    BY <1>2 DEF FwdInv
  <2>8. ~ Back /\ ~ gap' => from' <= seek' /\ wire' = Bytes(seek', seek' + Len(wire')) /\ out' = Bytes(from', seek')
    BY <1>1, <2>1, <2>7
  <2>9. ~ Back => /\ seek' + Len(wire') <= Upto' /\ seek' + Len(wire') <= size' /\ prev' \in 0 .. pos'
                  /\ ~ gap' => seek' + Len(wire') = Upto'
    <3>1. ~ gap' => ~ gap /\ pos = size
      BY <2>1, Zenon
    <3>2. Len(wire') = Len(wire) /\ seek' = seek /\ size' = size
      BY <1>1
    <3>3. prev' \in 0 .. pos'
      BY <2>1
    <3>4. ~ Back => seek + Len(wire) <= size
      BY <2>1, <2>3, <2>4, <2>5
    <3>5. ~ Back /\ ~ gap' => seek + Len(wire) = size
      BY <2>3, <3>1, Zenon
    <3> QED
      BY <2>6, <3>2, <3>3, <3>4, <3>5
  <2>10. ~ (tail' /\ req' = "read")
    BY <2>1
  <2> QED
    BY <2>2, <2>8, <2>9, <2>10, Zenon DEF FwdInv
<1>6. BackInv'
  BY <1>1, <1>2 DEF BackInv, Back, PhaseInv, SeekTail
<1>7. StopInv'
  BY <1>1, <1>2 DEF StopInv, StoppedMeansAllRead, Back, Reading, IsOver, PhaseInv, SeekTail
<1> QED
  BY <1>3, <1>4, <1>5, <1>6, <1>7 DEF LogInv

\* A half line is kept back.
LEMMA FollowPartKeeps ==
  ASSUME TaskLogAssumption, LogInv, FollowPart
  PROVE  LogInv'
<1>1. /\ size' = size /\ nl' = nl /\ task' = task /\ call' = call /\ tail' = tail /\ seek' = seek
      /\ from' = from /\ got' = got /\ taskIsEnd' = taskIsEnd /\ notReady' = notReady /\ cli' = cli /\ out' = out
      /\ gap' = gap /\ drops' = drops /\ cut' = cut /\ started' = started /\ isEnd' = isEnd /\ i' = i /\ prev' = prev
      /\ late' = late /\ wire' = wire
  BY DEF FollowPart, taskVars, callVars, historyVars, requestVars
<1>2. TypeOK /\ PhaseInv /\ FwdInv /\ BackInv /\ StopInv
  BY DEF LogInv
<1>3. TypeOK'
  BY <1>1, <1>2 DEF TypeOK, FollowPart
<1>4. PhaseInv'
  BY <1>1, <1>2 DEF PhaseInv, Back, Idle, Reading, TypeOK, FollowPart
<1>5. FwdInv'
  BY <1>1, <1>2 DEF FwdInv, Back, Reading, Following, Upto, PhaseInv, TypeOK, FollowPart
<1>6. BackInv'
  BY <1>1, <1>2 DEF BackInv, Back, PhaseInv, FollowPart
<1>7. StopInv'
  BY <1>1, <1>2 DEF StopInv, StoppedMeansAllRead, Back, Reading, IsOver, PhaseInv, FollowPart
<1> QED
  BY <1>3, <1>4, <1>5, <1>6, <1>7 DEF LogInv

\* The follower goes round or is over.
LEMMA PollKeeps ==
  ASSUME TaskLogAssumption, LogInv, Poll
  PROVE  LogInv'
<1>1. /\ size' = size /\ nl' = nl /\ task' = task /\ call' = call /\ tail' = tail /\ seek' = seek
      /\ from' = from /\ got' = got /\ taskIsEnd' = taskIsEnd /\ notReady' = notReady /\ cli' = cli /\ out' = out
      /\ gap' = gap /\ drops' = drops /\ cut' = cut /\ started' = started /\ isEnd' = isEnd /\ i' = i /\ pos' = pos
      /\ prev' = prev /\ late' = late /\ wire' = wire
  BY DEF Poll, taskVars, callVars, historyVars, requestVars
<1>2. TypeOK /\ PhaseInv /\ FwdInv /\ BackInv /\ StopInv
  BY DEF LogInv
<1>3. TypeOK'
  BY <1>1, <1>2 DEF TypeOK, Poll
<1>4. PhaseInv'
  BY <1>1, <1>2 DEF PhaseInv, Back, Idle, Reading, TypeOK, Poll
<1>5. FwdInv'
  BY <1>1, <1>2 DEF FwdInv, Back, Reading, Following, Upto, PhaseInv, Poll
<1>6. BackInv'
  BY <1>1, <1>2 DEF BackInv, Back, PhaseInv, Poll
<1>7. StopInv'
  BY <1>1, <1>2 DEF StopInv, StoppedMeansAllRead, Back, Reading, IsOver, PhaseInv, Poll
<1> QED
  BY <1>3, <1>4, <1>5, <1>6, <1>7 DEF LogInv

\* follow_expire_at passes.
LEMMA ExpireKeeps ==
  ASSUME TaskLogAssumption, LogInv, Expire
  PROVE  LogInv'
<1>1. /\ size' = size /\ nl' = nl /\ task' = task /\ call' = call /\ tail' = tail /\ seek' = seek
      /\ from' = from /\ got' = got /\ taskIsEnd' = taskIsEnd /\ notReady' = notReady /\ cli' = cli /\ out' = out
      /\ gap' = gap /\ drops' = drops /\ cut' = cut /\ req' = req /\ started' = started /\ isEnd' = isEnd /\ i' = i
      /\ pos' = pos /\ prev' = prev /\ wire' = wire
  BY DEF Expire, taskVars, callVars, historyVars, requestVars
<1>2. TypeOK /\ PhaseInv /\ FwdInv /\ BackInv /\ StopInv
  BY DEF LogInv
<1>3. TypeOK'
  BY <1>1, <1>2 DEF TypeOK, Expire
<1>4. PhaseInv'
  BY <1>1, <1>2 DEF PhaseInv, Back, Idle, Reading, TypeOK, Expire
<1>5. FwdInv'
  BY <1>1, <1>2 DEF FwdInv, Back, Reading, Following, Upto, PhaseInv, Expire
<1>6. BackInv'
  BY <1>1, <1>2 DEF BackInv, Back, PhaseInv, Expire
<1>7. StopInv'
  BY <1>1, <1>2 DEF StopInv, StoppedMeansAllRead, Back, Reading, IsOver, PhaseInv, Expire
<1> QED
  BY <1>3, <1>4, <1>5, <1>6, <1>7 DEF LogInv

\* The client sends a request.
LEMMA CallKeeps ==
  ASSUME TaskLogAssumption, LogInv, Call
  PROVE  LogInv'
<1>1. /\ size' = size /\ nl' = nl /\ task' = task /\ call' = call /\ tail' = tail /\ seek' = seek
      /\ from' = from /\ taskIsEnd' = taskIsEnd /\ notReady' = notReady /\ out' = out /\ gap' = gap /\ drops' = drops
      /\ started' = started /\ isEnd' = isEnd /\ i' = i /\ pos' = pos /\ prev' = prev /\ late' = late
      /\ wire' = wire
  BY DEF Call, taskVars, callVars, historyVars, requestVars
<1>2. TypeOK /\ PhaseInv /\ FwdInv /\ BackInv /\ StopInv
  BY DEF LogInv
<1>3. TypeOK'
  BY <1>1, <1>2 DEF TypeOK, Call
<1>4. PhaseInv'
  BY <1>1, <1>2 DEF PhaseInv, Back, Idle, Reading, TypeOK, Call
<1>5. FwdInv'
  BY <1>1, <1>2 DEF FwdInv, Back, Reading, Following, Upto, PhaseInv, Call
<1>6. BackInv'
  BY <1>1, <1>2 DEF BackInv, Back, PhaseInv, Call
<1>7. StopInv'
  BY <1>1, <1>2 DEF StopInv, StoppedMeansAllRead, Back, Reading, IsOver, PhaseInv, Call
<1> QED
  BY <1>3, <1>4, <1>5, <1>6, <1>7 DEF LogInv

\* The client has read a response to its end.
LEMMA OverKeeps ==
  ASSUME TaskLogAssumption, LogInv, Over
  PROVE  LogInv'
<1>1. /\ size' = size /\ nl' = nl /\ task' = task /\ call' = call /\ seek' = seek /\ from' = from
      /\ got' = got /\ taskIsEnd' = taskIsEnd /\ notReady' = notReady /\ out' = out /\ gap' = gap /\ drops' = drops /\ cut' = cut
      /\ started' = started /\ isEnd' = isEnd /\ i' = i /\ pos' = pos /\ prev' = prev /\ late' = late
      /\ wire' = wire
  BY DEF Over, taskVars, callVars, historyVars, requestVars
<1>2. TypeOK /\ PhaseInv /\ FwdInv /\ BackInv /\ StopInv
  BY DEF LogInv
<1>3. TypeOK'
  BY <1>1, <1>2 DEF TypeOK, Over
<1>4. PhaseInv'
  BY <1>1, <1>2 DEF PhaseInv, Back, Idle, Reading, TypeOK, Over
<1>5. FwdInv'
  BY <1>1, <1>2 DEF FwdInv, Back, Reading, Following, Upto, PhaseInv, Over
<1>6. BackInv'
  BY <1>1, <1>2 DEF BackInv, Back, PhaseInv, Over
<1>7. StopInv'
  BY <1>1, <1>2 DEF StopInv, StoppedMeansAllRead, Back, Reading, IsOver, PhaseInv, TypeOK, Over
<1> QED
  BY <1>3, <1>4, <1>5, <1>6, <1>7 DEF LogInv

\* The task writes and ends.
LEMMA TaskStepKeeps ==
  ASSUME TaskLogAssumption, LogInv, TaskStep
  PROVE  LogInv'
<1>1. /\ nl' = nl /\ call' = call /\ tail' = tail /\ seek' = seek /\ from' = from /\ got' = got
      /\ taskIsEnd' = taskIsEnd /\ notReady' = notReady /\ cli' = cli /\ out' = out /\ gap' = gap /\ drops' = drops /\ cut' = cut
      /\ req' = req /\ started' = started /\ isEnd' = isEnd /\ i' = i /\ pos' = pos /\ prev' = prev
      /\ late' = late /\ wire' = wire
  BY DEF TaskStep, taskVars, callVars, historyVars, requestVars
<1>2. TypeOK /\ PhaseInv /\ FwdInv /\ BackInv /\ StopInv
  BY DEF LogInv
<1>3. TypeOK'
  BY <1>1, <1>2 DEF TypeOK, TaskStep
<1>4. PhaseInv'
  BY <1>1, <1>2 DEF PhaseInv, Back, Idle, Reading, TypeOK, TaskStep
<1>5. FwdInv'
  BY <1>1, <1>2 DEF FwdInv, Back, Reading, Following, Upto, PhaseInv, TypeOK, TaskStep
<1>6. BackInv'
  BY <1>1, <1>2 DEF BackInv, Back, TypeOK, TaskStep
<1>7. StopInv'
  BY <1>1, <1>2 DEF StopInv, StoppedMeansAllRead, Back, Reading, IsOver, PhaseInv, TaskStep
<1> QED
  BY <1>3, <1>4, <1>5, <1>6, <1>7 DEF LogInv

\* clean_task_dict drops the task.
LEMMA CleanTaskKeeps ==
  ASSUME TaskLogAssumption, LogInv, CleanTask
  PROVE  LogInv'
<1>1. /\ size' = size /\ nl' = nl /\ call' = call /\ tail' = tail /\ seek' = seek /\ from' = from
      /\ got' = got /\ taskIsEnd' = taskIsEnd /\ notReady' = notReady /\ cli' = cli /\ out' = out /\ gap' = gap
      /\ drops' = drops /\ cut' = cut /\ req' = req /\ started' = started /\ isEnd' = isEnd /\ i' = i /\ pos' = pos
      /\ prev' = prev /\ late' = late /\ wire' = wire
  BY DEF CleanTask, taskVars, callVars, historyVars, requestVars
<1>2. TypeOK /\ PhaseInv /\ FwdInv /\ BackInv /\ StopInv
  BY DEF LogInv
<1>3. TypeOK'
  BY <1>1, <1>2 DEF TypeOK, CleanTask
<1>4. PhaseInv'
  BY <1>1, <1>2 DEF PhaseInv, Back, Idle, Reading, TypeOK, CleanTask
<1>5. FwdInv'
  BY <1>1, <1>2 DEF FwdInv, Back, Reading, Following, Upto, PhaseInv, CleanTask
<1>6. BackInv'
  BY <1>1, <1>2 DEF BackInv, Back, PhaseInv, CleanTask
<1>7. StopInv'
  BY <1>1, <1>2 DEF StopInv, StoppedMeansAllRead, Back, Reading, IsOver, PhaseInv, CleanTask
<1> QED
  BY <1>3, <1>4, <1>5, <1>6, <1>7 DEF LogInv

\* Bytes put on the wire.
LEMMA WireGrows ==
  ASSUME MaxSize \in Nat, NEW w \in Seq(Byte), NEW a \in Nat, NEW b \in a .. MaxSize
  PROVE  /\ w \o Bytes(a, b) \in Seq(Byte)
         /\ Len(w) \in Nat /\ Len(w \o Bytes(a, b)) = Len(w) + (b - a)
         /\ a # b => w \o Bytes(a, b) # <<>>
<1> DEFINE t == Bytes(a, b)
           u == w \o t
<1>1. t \in Seq(Byte) /\ Len(t) = b - a
  BY BytesProperties
<1> HIDE DEF t
<1>2. u \in Seq(Byte) /\ Len(u) = Len(w) + Len(t)
  BY <1>1, ConcatProperties, Zenon
<1>3. Len(w) \in Nat
  OBVIOUS
<1> HIDE DEF u
<1>4. ASSUME a # b
      PROVE  u # <<>>
  <2>1. Len(u) # 0
    BY <1>1, <1>2, <1>3, <1>4
  <2> QED
    BY <1>2, <2>1, EmptySeq
<1> QED
  BY <1>1, <1>2, <1>3, <1>4 DEF t, u

\* What is sent next follows what is on the wire.
LEMMA WireGrowsExactly ==
  ASSUME MaxSize \in Nat, NEW w \in Seq(Byte), NEW s \in Nat, w = Bytes(s, s + Len(w)),
         NEW a \in Nat, s + Len(w) = a, NEW b \in a .. MaxSize
  PROVE  w \o Bytes(a, b) = Bytes(s, s + Len(w \o Bytes(a, b)))
<1>1. Len(w) \in Nat /\ Len(w \o Bytes(a, b)) = Len(w) + (b - a)
  BY WireGrows
<1>2. s + Len(w \o Bytes(a, b)) = b /\ a \in s .. MaxSize
  BY <1>1
<1>3. w = Bytes(s, a)
  OBVIOUS
<1>4. Bytes(s, a) \o Bytes(a, b) = Bytes(s, b)
  BY <1>2, BytesConcat
<1> QED
  BY <1>2, <1>3, <1>4

\* The file is opened where the client stands, or at its last lines.
LEMMA OpenKeeps ==
  ASSUME TaskLogAssumption, LogInv, Open
  PROVE  LogInv'
<1>1. /\ size' = size /\ nl' = nl /\ task' = task /\ call' = call /\ tail' = tail
      /\ got' = got /\ out' = out /\ gap' = gap /\ drops' = drops /\ cut' = cut
      /\ started' = started /\ isEnd' = isEnd /\ wire' = wire
  BY DEF Open, taskVars, callVars, historyVars, requestVars
<1>2. TypeOK /\ PhaseInv /\ FwdInv /\ BackInv /\ StopInv
  BY DEF LogInv
<1>3. PICK at : at = IF tail THEN TailStart(call.line) ELSE seek
  OBVIOUS
<1>4. /\ at \in 0 .. size /\ size \in Nat /\ size <= MaxSize
      /\ wire = <<>> /\ Len(wire) = 0 /\ req = "open" /\ cli = "read" /\ got = FALSE
      /\ Back => ~ tail
  <2>1. Logs /\ size \in Nat /\ seek \in 0 .. size /\ size <= MaxSize
    BY <1>2, CallTypes DEF TypeOK
  <2>2. TailStart(call.line) \in 0 .. size
    BY <2>1, TailStartProperties, Zenon
  <2>3. at \in 0 .. size
    BY <1>3, <2>1, <2>2
  <2>4. req = "open"
    BY DEF Open
  <2>5. wire = <<>> /\ cli = "read" /\ got = FALSE /\ (Back => ~ tail)
    BY <1>2, <2>4 DEF PhaseInv, Idle, Back
  <2>6. Len(wire) = 0
    BY <2>5
  <2> QED
    BY <2>1, <2>3, <2>4, <2>5, <2>6
<1>5. CASE started
  <2>1. /\ req' = "read" /\ pos' = at /\ i' = 0 /\ late' = FALSE
        /\ prev' = IF tail THEN size ELSE -1
        /\ taskIsEnd' = isEnd /\ notReady' = FALSE
        /\ seek' = IF tail THEN at ELSE seek
        /\ from' = IF tail THEN at ELSE from
        /\ cli' = cli
    BY <1>3, <1>5 DEF Open
  <2>2. seek' = at
    BY <1>3, <2>1
  <2>3. TypeOK'
    <3>1. from' \in 0 .. MaxSize /\ prev' \in -1 .. size
      BY <1>2, <1>4, <2>1 DEF TypeOK
    <3> QED
      BY <1>1, <1>2, <1>4, <2>1, <2>2, <3>1 DEF TypeOK
  <2>4. PhaseInv'
    BY <1>1, <1>2, <1>4, <2>1 DEF PhaseInv, Back, Idle, Reading
  <2>5. FwdInv'
    <3>1. ASSUME ~ Back, ~ gap
          PROVE  from' <= seek' /\ wire' = Bytes(seek', seek' + Len(wire')) /\ out' = Bytes(from', seek')
      <4>1. at \in 0 .. MaxSize /\ at + 0 = at /\ MaxSize \in Nat
        BY <1>4 DEF TaskLogAssumption
      <4>2. Bytes(at, at) = <<>>
        BY <4>1, NoBytes
      <4>3. wire' = Bytes(seek', seek' + Len(wire'))
        BY <1>1, <1>4, <2>2, <4>1, <4>2
      <4>4. CASE tail
        <5>1. out = <<>> /\ from' = at /\ at <= at
          BY <1>2, <1>4, <2>1, <4>4 DEF PhaseInv, Idle
        <5> QED
          BY <1>1, <2>2, <4>2, <4>3, <5>1
      <4>5. CASE ~ tail
        <5>1. from' = from /\ seek' = seek /\ from <= seek /\ out = Bytes(from, seek)
          BY <1>2, <2>1, <3>1, <4>5 DEF FwdInv
        <5> QED
          BY <1>1, <4>3, <5>1
      <4> QED
        BY <4>4, <4>5
    <3>2. /\ seek' + Len(wire') = pos' /\ seek' + Len(wire') <= size' /\ pos' <= pos'
          /\ (tail => prev' \in pos' .. size')
      BY <1>1, <1>4, <2>1, <2>2
    <3> QED
      BY <1>1, <2>1, <3>1, <3>2 DEF FwdInv, Back, Reading, Following, Upto
  <2>6. BackInv'
    <3>1. Back => seek' = seek /\ from' = from /\ pos' = seek /\ seek + 0 = seek
      BY <1>3, <1>4, <2>1, <2>2
    <3> QED
      BY <1>1, <1>2, <1>4, <2>1, <3>1 DEF BackInv, Back
  <2>7. StopInv'
    <3>1. isEnd => IsOver
      BY <1>2, <1>4 DEF StopInv
    <3>2. seek' - Len(wire') = pos' /\ seek' + Len(wire') = pos'
      BY <1>1, <1>4, <2>1, <2>2
    <3> QED
      BY <1>1, <1>4, <2>1, <3>1, <3>2
         DEF StopInv, StoppedMeansAllRead, Back, Reading, IsOver
  <2> QED
    BY <2>3, <2>4, <2>5, <2>6, <2>7 DEF LogInv
<1>6. CASE ~ started
  <2>1. /\ req' = "done" /\ cli' = "failed"
        /\ seek' = seek /\ from' = from /\ taskIsEnd' = taskIsEnd /\ notReady' = notReady
        /\ i' = i /\ pos' = pos /\ prev' = prev /\ late' = late
    BY <1>6 DEF Open
  <2>2. TypeOK'
    BY <1>1, <1>2, <2>1 DEF TypeOK
  <2>3. PhaseInv'
    BY <1>1, <1>2, <1>4, <2>1 DEF PhaseInv, Back, Idle, Reading
  <2>4. FwdInv'
    BY <1>1, <1>2, <2>1 DEF FwdInv, Back, Reading, Following, Upto
  <2>5. BackInv'
    BY <1>1, <1>2, <2>1 DEF BackInv, Back
  <2>6. StopInv'
    BY <1>1, <1>2, <2>1 DEF StopInv, StoppedMeansAllRead, Back, Reading, IsOver
  <2> QED
    BY <2>2, <2>3, <2>4, <2>5, <2>6 DEF LogInv
<1> QED
  BY <1>5, <1>6

\* A line is sent, the next one or the one before.
LEMMA ReadLineKeeps ==
  ASSUME TaskLogAssumption, LogInv, ReadLine
  PROVE  LogInv'
<1>1. /\ size' = size /\ nl' = nl /\ task' = task /\ call' = call /\ tail' = tail /\ seek' = seek
      /\ from' = from /\ got' = got /\ taskIsEnd' = taskIsEnd /\ notReady' = notReady /\ cli' = cli
      /\ out' = out /\ gap' = gap /\ drops' = drops /\ cut' = cut /\ req' = req /\ started' = started
      /\ isEnd' = isEnd /\ prev' = prev /\ late' = late
  BY DEF ReadLine, taskVars, callVars, historyVars, requestVars
<1>2. TypeOK /\ PhaseInv /\ FwdInv /\ BackInv /\ StopInv
  BY DEF LogInv
<1>3. PICK to : to = IF Back THEN LineStart(pos)
                     ELSE IF tail THEN Min({prev, LineEnd(pos)}) ELSE LineEnd(pos)
  OBVIOUS
<1>4. /\ req = "read" /\ to # pos /\ pos' = to /\ i' = i + 1
      /\ wire' = wire \o (IF Back THEN Bytes(to, pos) ELSE Bytes(pos, to))
  BY <1>3 DEF ReadLine
<1>5. /\ Logs /\ size \in Nat /\ MaxSize \in Nat /\ size <= MaxSize /\ pos \in 0 .. size
      /\ seek \in Nat /\ seek <= size /\ wire \in Seq(Byte) /\ i \in Nat
  BY <1>2, CallTypes DEF TypeOK, Byte
<1>6. ASSUME ~ Back
      PROVE  /\ to \in pos .. size
             /\ tail => to <= prev /\ prev \in pos .. size
  <2>1. LineEnd(pos) \in pos .. size
    BY <1>5, LineEndProperties, Zenon
  <2>2. CASE tail
    <3>1. prev \in pos .. size
      BY <1>2, <1>4, <1>6, <2>2 DEF FwdInv
    <3>2. {prev, LineEnd(pos)} \subseteq Nat /\ {prev, LineEnd(pos)} # {}
      BY <2>1, <3>1, <1>5
    <3>3. /\ Min({prev, LineEnd(pos)}) \in {prev, LineEnd(pos)}
          /\ \A y \in {prev, LineEnd(pos)} : Min({prev, LineEnd(pos)}) <= y
      BY <3>2, MinOfNats, Zenon
    <3>4. to = Min({prev, LineEnd(pos)})
      BY <1>3, <1>6, <2>2
    <3>5. (to = prev \/ to = LineEnd(pos)) /\ to <= prev
      BY <3>3, <3>4
    <3> QED
      BY <2>1, <3>1, <3>5
  <2>3. CASE ~ tail
    BY <1>3, <1>6, <2>1, <2>3
  <2> QED
    BY <2>2, <2>3
<1>7. ASSUME Back
      PROVE  to \in 0 .. pos /\ \A k \in nl : to < k => k >= pos
  BY <1>3, <1>5, <1>7, LineStartProperties
<1>8. /\ wire' \in Seq(Byte) /\ wire' # <<>> /\ Len(wire) \in Nat
      /\ Len(wire') = Len(wire) + (IF Back THEN pos - to ELSE to - pos)
  <2>1. CASE Back
    <3>1. to \in Nat /\ pos \in to .. MaxSize /\ to # pos
      BY <1>4, <1>5, <1>7, <2>1
    <3>2. /\ wire \o Bytes(to, pos) \in Seq(Byte)
          /\ Len(wire) \in Nat /\ Len(wire \o Bytes(to, pos)) = Len(wire) + (pos - to)
          /\ wire \o Bytes(to, pos) # <<>>
      BY <1>5, <3>1, WireGrows
    <3> QED
      BY <1>4, <2>1, <3>2
  <2>2. CASE ~ Back
    <3>1. pos \in Nat /\ to \in pos .. MaxSize /\ to # pos
      BY <1>4, <1>5, <1>6, <2>2
    <3>2. /\ wire \o Bytes(pos, to) \in Seq(Byte)
          /\ Len(wire) \in Nat /\ Len(wire \o Bytes(pos, to)) = Len(wire) + (to - pos)
          /\ wire \o Bytes(pos, to) # <<>>
      BY <1>5, <3>1, WireGrows
    <3> QED
      BY <1>4, <2>2, <3>2
  <2> QED
    BY <2>1, <2>2
<1>9. pos' \in 0 .. size
  <2>1. CASE Back
    BY <1>4, <1>5, <1>7, <2>1
  <2>2. CASE ~ Back
    BY <1>4, <1>5, <1>6, <2>2
  <2> QED
    BY <2>1, <2>2
<1>10. TypeOK'
  <2>1. i' \in Nat /\ wire' \in Seq(1 .. MaxSize)
    BY <1>4, <1>5, <1>8 DEF Byte
  <2> QED
    BY <1>1, <1>2, <1>9, <2>1 DEF TypeOK
<1>11. PhaseInv'
  BY <1>1, <1>2, <1>4, <1>8 DEF PhaseInv, Back, Idle, Reading
<1>12. FwdInv'
  <2> SUFFICES ASSUME ~ Back PROVE FwdInv'
    BY <1>1 DEF FwdInv, Back
  <2>1. /\ seek + Len(wire) <= pos
        /\ ~ gap => /\ seek + Len(wire) = pos /\ from <= seek
                    /\ wire = Bytes(seek, seek + Len(wire)) /\ out = Bytes(from, seek)
    BY <1>2, <1>4 DEF FwdInv, Reading, Upto, Following
  <2>2. to \in pos .. size /\ Len(wire') = Len(wire) + (to - pos) /\ (tail => prev \in to .. size)
    BY <1>5, <1>6, <1>8
  <2>3. /\ seek + Len(wire') <= to /\ to <= size /\ seek + Len(wire') <= size
        /\ seek + Len(wire) = pos => seek + Len(wire') = to
    BY <1>5, <1>8, <2>1, <2>2
  <2>4. ASSUME ~ gap
        PROVE  wire' = Bytes(seek, seek + Len(wire'))
    <3>1. wire' = wire \o Bytes(pos, to)
      BY <1>4
    <3>2. pos \in Nat /\ to \in pos .. MaxSize
      BY <1>5, <2>2
    <3> QED
      BY <1>5, <2>1, <2>4, <3>1, <3>2, WireGrowsExactly
  <2>5. ~ gap' => /\ from' <= seek' /\ wire' = Bytes(seek', seek' + Len(wire'))
                  /\ out' = Bytes(from', seek')
    BY <1>1, <2>1, <2>4
  <2>6. Upto' = to /\ ~ Following'
    BY <1>1, <1>4 DEF Upto, Following
  <2>7. /\ seek' + Len(wire') <= Upto' /\ seek' + Len(wire') <= size'
        /\ ~ gap' => seek' + Len(wire') = Upto'
        /\ tail' => prev' \in pos' .. size'
    BY <1>1, <1>4, <2>1, <2>2, <2>3, <2>6
  <2> QED
    BY <2>5, <2>6, <2>7 DEF FwdInv
<1>13. BackInv'
  <2> SUFFICES ASSUME Back PROVE BackInv'
    BY <1>1 DEF BackInv, Back
  <2>1. pos + Len(wire) = seek /\ (~ gap => BackLines(wire, seek, nl))
    BY <1>2, <1>4 DEF BackInv
  <2>2. /\ nl \in SUBSET Nat /\ seek \in 0 .. MaxSize /\ pos \in 0 .. MaxSize /\ to \in 0 .. pos
        /\ \A k \in nl : to < k => k >= pos
    BY <1>5, <1>7, LogFacts
  <2>3. ASSUME ~ gap
        PROVE  BackLines(wire \o Bytes(to, pos), seek, nl)
    BY <1>5, <2>1, <2>2, <2>3, BackLinesRead
  <2>4. ~ gap' => BackLines(wire', seek', nl')
    BY <1>1, <1>4, <2>3
  <2>5. pos' + Len(wire') = seek' /\ Len(wire') <= seek'
    BY <1>1, <1>4, <1>5, <1>7, <1>8, <2>1
  <2> QED
    BY <1>1, <1>2, <2>4, <2>5 DEF BackInv, Back
<1>14. StopInv'
  <2>1. CASE taskIsEnd
    <3>1. /\ isEnd /\ IsOver /\ (tail => prev = size)
          /\ IF Back THEN seek - Len(wire) = pos ELSE ~ gap => seek + Len(wire) = pos
      BY <1>2, <1>4, <2>1 DEF StopInv, PhaseInv, Reading
    <3>2. IF Back THEN seek - Len(wire') = to ELSE ~ gap => seek + Len(wire') = to
      BY <1>5, <1>6, <1>7, <1>8, <3>1
    <3> QED
      BY <1>1, <1>4, <1>8, <2>1, <3>1, <3>2, <1>2
         DEF StopInv, StoppedMeansAllRead, PhaseInv, Back, Reading, IsOver
  <2>2. CASE ~ taskIsEnd
    BY <1>1, <1>2, <1>4, <2>2 DEF StopInv, StoppedMeansAllRead, PhaseInv, Back, Reading, IsOver
  <2> QED
    BY <2>1, <2>2
<1> QED
  BY <1>10, <1>11, <1>12, <1>13, <1>14 DEF LogInv

\* The follower sends a whole line with the part kept back.
LEMMA FollowLineKeeps ==
  ASSUME TaskLogAssumption, LogInv, FollowLine
  PROVE  LogInv'
<1>1. /\ size' = size /\ nl' = nl /\ task' = task /\ call' = call /\ tail' = tail /\ seek' = seek
      /\ from' = from /\ got' = got /\ taskIsEnd' = taskIsEnd /\ notReady' = notReady /\ cli' = cli
      /\ out' = out /\ gap' = gap /\ drops' = drops /\ cut' = cut /\ started' = started /\ isEnd' = isEnd
      /\ late' = late
  BY DEF FollowLine, taskVars, callVars, historyVars, requestVars
<1>2. TypeOK /\ PhaseInv /\ FwdInv /\ BackInv /\ StopInv
  BY DEF LogInv
<1>3. PICK e : e = LineEnd(pos)
  OBVIOUS
<1>4. /\ req = "follow" /\ e > pos /\ wire' = wire \o Bytes(prev, e)
      /\ pos' = e /\ prev' = e /\ i' = i + 1 /\ req' \in {"done", "follow"}
  BY <1>3 DEF FollowLine
<1>5. /\ Logs /\ size \in Nat /\ MaxSize \in Nat /\ size <= MaxSize /\ pos \in 0 .. size
      /\ seek \in Nat /\ wire \in Seq(Byte) /\ i \in Nat
  BY <1>2, CallTypes DEF TypeOK, Byte
<1>6. ~ Back /\ prev \in 0 .. pos
  BY <1>2, <1>4 DEF PhaseInv, FwdInv, Following
<1>7. e \in pos .. size
  BY <1>3, <1>5, LineEndProperties, Zenon
<1>8. /\ prev \in Nat /\ e \in prev .. MaxSize /\ prev # e
  BY <1>4, <1>5, <1>6, <1>7
<1>9. /\ wire' \in Seq(Byte) /\ wire' # <<>> /\ Len(wire) \in Nat
      /\ Len(wire') = Len(wire) + (e - prev)
  BY <1>4, <1>5, <1>8, WireGrows
<1>10. TypeOK'
  <2>1. i' \in Nat /\ wire' \in Seq(1 .. MaxSize) /\ pos' \in 0 .. size /\ prev' \in -1 .. size
    BY <1>4, <1>5, <1>7, <1>9 DEF Byte
  <2>2. req' \in {"none", "get", "wait", "check", "open", "read", "seek", "follow", "poll", "done"}
    BY <1>4
  <2> QED
    BY <1>1, <1>2, <2>1, <2>2 DEF TypeOK
<1>11. PhaseInv'
  BY <1>1, <1>2, <1>4, <1>9 DEF PhaseInv, Back, Idle, Reading
<1>12. FwdInv'
  <2>1. /\ seek + Len(wire) <= prev
        /\ ~ gap => /\ seek + Len(wire) = prev /\ from <= seek
                    /\ wire = Bytes(seek, seek + Len(wire)) /\ out = Bytes(from, seek)
    BY <1>2, <1>4, <1>6 DEF FwdInv, Reading, Upto, Following
  <2>2. /\ seek + Len(wire') <= e /\ e <= size /\ seek + Len(wire') <= size
        /\ seek + Len(wire) = prev => seek + Len(wire') = e
    BY <1>5, <1>7, <1>8, <1>9, <2>1
  <2>3. ASSUME ~ gap
        PROVE  wire' = Bytes(seek, seek + Len(wire'))
    BY <1>4, <1>5, <1>8, <2>1, <2>3, WireGrowsExactly
  <2>4. ~ gap' => /\ from' <= seek' /\ wire' = Bytes(seek', seek' + Len(wire'))
                  /\ out' = Bytes(from', seek')
    BY <1>1, <2>1, <2>3
  <2>5. Upto' = e /\ ~ (tail' /\ req' = "read")
    BY <1>4 DEF Upto, Following
  <2>6. /\ seek' + Len(wire') <= Upto' /\ seek' + Len(wire') <= size'
        /\ ~ gap' => seek' + Len(wire') = Upto'
        /\ prev' \in 0 .. pos'
    BY <1>1, <1>4, <1>8, <2>1, <2>2, <2>5
  <2> QED
    BY <2>4, <2>5, <2>6 DEF FwdInv
<1>13. BackInv'
  BY <1>1, <1>6 DEF BackInv, Back
<1>14. StopInv'
  <2>1. ~ (cli = "read" /\ ~ notReady /\ taskIsEnd) /\ cli = "read" /\ ~ notReady
    BY <1>2, <1>4 DEF StopInv, PhaseInv, Reading
  <2> QED
    BY <1>1, <1>2, <1>4, <2>1 DEF StopInv, StoppedMeansAllRead, Reading
<1> QED
  BY <1>10, <1>11, <1>12, <1>13, <1>14 DEF LogInv

\* The caller chooses where to begin.
LEMMA BeginKeeps ==
  ASSUME TaskLogAssumption, LogInv, Begin
  PROVE  LogInv'
<1>1. /\ size' = size /\ nl' = nl /\ task' = task /\ call' = call /\ tail' = tail /\ got' = got
      /\ taskIsEnd' = taskIsEnd /\ notReady' = notReady /\ out' = out /\ gap' = gap /\ drops' = drops /\ cut' = cut
      /\ req' = req /\ started' = started /\ isEnd' = isEnd /\ i' = i /\ pos' = pos /\ prev' = prev
      /\ late' = late /\ wire' = wire
  BY DEF Begin, taskVars, callVars, historyVars, requestVars
<1>2. TypeOK /\ PhaseInv /\ FwdInv /\ BackInv /\ StopInv
  BY DEF LogInv
<1>3. /\ cli = "begin" /\ cli' = "call" /\ req = "none" /\ wire = <<>> /\ out = <<>>
      /\ seek = 0 /\ from = 0 /\ Len(wire) = 0
  BY <1>2 DEF PhaseInv, Begin
<1>4. /\ size \in Nat /\ MaxSize \in Nat /\ size <= MaxSize
  BY <1>2, CallTypes
<1>5. PICK p \in 0 .. size : seek' = p /\ from' = p
  <2>1. CASE tail
    <3>1. seek' = 0 /\ from' = 0 /\ 0 \in 0 .. size
      BY <1>3, <1>4, <2>1 DEF Begin
    <3> QED
      BY <3>1
  <2>2. CASE ~ tail
    BY <2>2 DEF Begin
  <2> QED
    BY <2>1, <2>2
<1>6. p \in 0 .. MaxSize /\ p \in Nat /\ p + 0 = p /\ p <= size
  BY <1>4
<1>7. TypeOK'
  BY <1>1, <1>2, <1>3, <1>5, <1>6 DEF TypeOK
<1>8. PhaseInv'
  BY <1>1, <1>2, <1>3, <1>5 DEF PhaseInv, Back, Idle, Reading
<1>9. FwdInv'
  <2>1. Bytes(p, p) = <<>>
    BY <1>4, <1>6, NoBytes
  <2>2. /\ from' <= seek' /\ wire' = Bytes(seek', seek' + Len(wire')) /\ out' = Bytes(from', seek')
        /\ seek' + Len(wire') <= size'
    BY <1>1, <1>3, <1>5, <1>6, <2>1
  <2>3. ~ Reading' /\ ~ Following' /\ req' # "read"
    BY <1>1, <1>3 DEF Reading, Following
  <2> QED
    BY <2>2, <2>3 DEF FwdInv
<1>10. BackInv'
  <2>1. BackLines(<<>>, p, nl)
    BY <1>6, NoBackLines
  <2>2. BackRead(<<>>, p, p)
    BY <1>6 DEF BackRead, IsInjective, ToSet
  <2>3. /\ BackRead(out', seek', from') /\ BackLines(wire', seek', nl') /\ seek' <= from'
        /\ from' <= size' /\ Len(wire') <= seek'
    BY <1>1, <1>3, <1>5, <1>6, <2>1, <2>2
  <2>4. req' # "read"
    BY <1>1, <1>3
  <2> QED
    BY <2>3, <2>4 DEF BackInv
<1>11. StopInv'
  BY <1>1, <1>2, <1>3 DEF StopInv, StoppedMeansAllRead, Reading, IsOver
<1> QED
  BY <1>7, <1>8, <1>9, <1>10, <1>11 DEF LogInv

\* The connection breaks off.
LEMMA DropKeeps ==
  ASSUME TaskLogAssumption, LogInv, Drop
  PROVE  LogInv'
<1>1. /\ size' = size /\ nl' = nl /\ task' = task /\ call' = call /\ seek' = seek /\ from' = from
      /\ got' = got /\ taskIsEnd' = taskIsEnd /\ notReady' = notReady /\ out' = out /\ gap' = gap
      /\ cut' = cut /\ started' = started /\ isEnd' = isEnd /\ i' = i /\ pos' = pos /\ prev' = prev
      /\ late' = late
  BY DEF Drop, taskVars, callVars, historyVars, requestVars
<1>2. TypeOK /\ PhaseInv /\ FwdInv /\ BackInv /\ StopInv
  BY DEF LogInv
<1>3. /\ cli = "read" /\ drops < MaxDrops /\ drops' = drops + 1 /\ wire' = <<>> /\ Len(wire') = 0
      /\ \/ cli' = "call" /\ req' = "none" /\ tail' = FALSE
         \/ /\ req \in {"get", "wait", "check", "open"} /\ req' = "get" /\ cli' = cli /\ tail' = tail
            /\ wire = <<>>
  BY <1>2 DEF Drop, PhaseInv, Idle
<1>4. /\ size \in Nat /\ MaxSize \in Nat /\ size <= MaxSize /\ seek \in 0 .. MaxSize /\ seek <= size
      /\ seek + 0 = seek
  BY <1>2, CallTypes DEF TypeOK
<1>5. TypeOK'
  <2>1. drops' \in 0 .. MaxDrops /\ wire' \in Seq(1 .. MaxSize)
    BY <1>2, <1>3 DEF TypeOK, TaskLogAssumption
  <2>2. cli' \in {cli, "call"} /\ req' \in {"none", "get"} /\ tail' \in BOOLEAN
    BY <1>2, <1>3 DEF TypeOK
  <2> QED
    BY <1>1, <1>2, <2>1, <2>2 DEF TypeOK
<1>6. PhaseInv'
  <2>1. CASE req' = "none"
    BY <1>1, <1>2, <1>3, <2>1 DEF PhaseInv, Back, Idle, Reading
  <2>2. CASE req' = "get"
    BY <1>1, <1>2, <1>3, <2>2 DEF PhaseInv, Back, Idle, Reading
  <2> QED
    BY <1>3, <2>1, <2>2
<1>7. FwdInv'
  <2>1. Bytes(seek, seek) = <<>>
    BY <1>4, NoBytes
  <2>2. wire' = Bytes(seek', seek' + Len(wire')) /\ seek' + Len(wire') <= size'
    BY <1>1, <1>3, <1>4, <2>1
  <2>3. ~ Reading' /\ ~ Following' /\ req' # "read"
    BY <1>3 DEF Reading, Following
  <2>4. ~ Back /\ ~ gap => from' <= seek' /\ out' = Bytes(from', seek')
    BY <1>1, <1>2 DEF FwdInv
  <2> QED
    BY <1>1, <2>2, <2>3, <2>4 DEF FwdInv, Back
<1>8. BackInv'
  <2>1. BackLines(wire', seek', nl') /\ req' # "read" /\ Len(wire') <= seek'
    BY <1>1, <1>3, <1>4, NoBackLines
  <2> QED
    BY <1>1, <1>2, <2>1 DEF BackInv, Back
<1>9. StopInv'
  <2>1. req' \in {"none", "get"} /\ cli' # "stopped"
    BY <1>3
  <2> QED
    BY <2>1 DEF StopInv, StoppedMeansAllRead, Reading
<1> QED
  BY <1>5, <1>6, <1>7, <1>8, <1>9 DEF LogInv

\* The first n bytes of the lines before p, when a line ends there.
LEMMA BackLinesCut ==
  ASSUME MaxSize \in Nat, NEW N, NEW w \in Seq(Byte), NEW p \in 0 .. MaxSize, BackLines(w, p, N),
         NEW n \in 0 .. Len(w), n = 0 \/ n = Len(w) \/ w[n] \in N,
         NEW v \in Seq(Byte), Len(v) = n, \A x \in 1 .. n : v[x] = w[x]
  PROVE  BackLines(v, p, N)
<1>1. PICK l \in Nat : l = Len(w) /\ n \in 0 .. l
  OBVIOUS
<1>2. IsInjective(v)
  <2> SUFFICES ASSUME NEW x \in 1 .. n, NEW y \in 1 .. n, v[x] = v[y]
               PROVE  x = y
    BY DEF IsInjective
  <2>1. x \in 1 .. l /\ y \in 1 .. l /\ w[x] = w[y]
    BY <1>1
  <2> QED
    BY <1>1, <2>1 DEF BackLines, IsInjective
<1>3. n <= p
  BY <1>1 DEF BackLines
<1>4. ASSUME NEW k \in 1 .. n, k = n \/ v[k] \in N
      PROVE  First(v, k) = p - k + 1 .. p
  <2>1. k \in 1 .. l /\ (k = l \/ w[k] \in N)
    BY <1>1, <1>4
  <2>2. First(w, k) = p - k + 1 .. p
    BY <1>1, <2>1 DEF BackLines
  <2>3. \A x \in 1 .. k : v[x] = w[x]
    BY <1>1
  <2> QED
    BY <2>2, <2>3 DEF First
<1> QED
  BY <1>2, <1>3, <1>4 DEF BackLines

\* A response ends early.
LEMMA CutKeeps ==
  ASSUME TaskLogAssumption, LogInv, Cut
  PROVE  LogInv'
<1>1. /\ size' = size /\ nl' = nl /\ task' = task /\ call' = call /\ tail' = tail /\ seek' = seek
      /\ from' = from /\ got' = got /\ taskIsEnd' = taskIsEnd /\ notReady' = notReady /\ cli' = cli
      /\ out' = out /\ started' = started /\ isEnd' = isEnd /\ i' = i /\ pos' = pos /\ prev' = prev
      /\ late' = late
  BY DEF Cut, taskVars, callVars
<1>2. TypeOK /\ PhaseInv /\ FwdInv /\ BackInv /\ StopInv
  BY DEF LogInv
<1>3. /\ Reading /\ drops < MaxDrops /\ drops' = drops + 1 /\ req' = "done" /\ cut' = TRUE
      /\ cli = "read" /\ ~ notReady
  BY <1>2 DEF Cut, Reading, PhaseInv
<1>4. PICK n \in 0 .. Len(wire) :
        /\ wire' = SubSeq(wire, 1, n)
        /\ gap' = (gap \/ (Back /\ n \in 1 .. Len(wire) - 1 /\ wire[n] \notin nl))
  BY DEF Cut
<1>5. /\ size \in Nat /\ MaxSize \in Nat /\ size <= MaxSize /\ seek \in 0 .. MaxSize /\ seek <= size
      /\ wire \in Seq(Byte) /\ Len(wire) \in Nat /\ seek \in Nat
  BY <1>2, CallTypes DEF TypeOK, Byte
<1>6. wire' \in Seq(Byte) /\ Len(wire') = n /\ \A x \in 1 .. n : wire'[x] = wire[x]
  <2>1. \A x \in 1 .. n : wire[x] \in Byte
    BY <1>5, ElementOfSeq
  <2>2. 1 \in Int /\ n \in Int /\ (IF 1 <= n THEN n - 1 + 1 ELSE 0) = n
    BY <1>5
  <2>3. /\ SubSeq(wire, 1, n) \in Seq(Byte)
        /\ Len(SubSeq(wire, 1, n)) = IF 1 <= n THEN n - 1 + 1 ELSE 0
        /\ \A x \in 1 .. n - 1 + 1 : SubSeq(wire, 1, n)[x] = wire[1 + x - 1]
    BY <2>1, <2>2, SubSeqProperties
  <2>4. \A x \in 1 .. n : x \in 1 .. n - 1 + 1 /\ 1 + x - 1 = x
    BY <1>5
  <2> QED
    BY <1>4, <2>2, <2>3, <2>4
<1>7. TypeOK'
  <2>1. drops' \in 0 .. MaxDrops /\ wire' \in Seq(1 .. MaxSize)
    BY <1>2, <1>3, <1>6 DEF TypeOK, TaskLogAssumption, Byte
  <2>2. gap' \in BOOLEAN
    BY <1>2, <1>4 DEF TypeOK
  <2> QED
    BY <1>1, <1>2, <1>3, <2>1, <2>2 DEF TypeOK
<1>8. PhaseInv'
  BY <1>1, <1>2, <1>3 DEF PhaseInv, Back, Idle, Reading
<1>9. FwdInv'
  <2> SUFFICES ASSUME ~ Back PROVE FwdInv'
    BY <1>1 DEF FwdInv, Back
  <2>1. gap' = gap
    BY <1>2, <1>4 DEF TypeOK
  <2>2. seek + Len(wire) <= size /\ seek + n <= size
    BY <1>2, <1>5 DEF FwdInv
  <2>3. ASSUME ~ gap
        PROVE  from <= seek /\ wire' = Bytes(seek, seek + n) /\ out = Bytes(from, seek)
    <3>1. PICK b : b = seek + Len(wire)
      OBVIOUS
    <3>2. b \in seek .. MaxSize /\ n \in 0 .. b - seek
      BY <1>5, <2>2, <3>1
    <3>3. wire = Bytes(seek, b)
      BY <1>2, <2>3, <3>1 DEF FwdInv
    <3>4. SubSeq(wire, 1, n) = Bytes(seek, seek + n)
      BY <1>5, <3>2, <3>3, BytesSplit
    <3> QED
      BY <1>2, <1>4, <2>3, <3>4 DEF FwdInv
  <2>4. ~ Reading' /\ ~ Following' /\ req' # "read"
    BY <1>3 DEF Reading, Following
  <2> QED
    BY <1>1, <1>6, <2>1, <2>2, <2>3, <2>4 DEF FwdInv
<1>10. BackInv'
  <2> SUFFICES ASSUME Back PROVE BackInv'
    BY <1>1 DEF BackInv, Back
  <2>1. /\ ~ gap => BackRead(out, seek, from) /\ BackLines(wire, seek, nl)
        /\ seek <= from /\ from <= size /\ Len(wire) <= seek
    BY <1>2 DEF BackInv
  <2>2. ASSUME ~ gap'
        PROVE  BackLines(wire', seek, nl)
    <3>1. ~ gap /\ ~ (n \in 1 .. Len(wire) - 1 /\ wire[n] \notin nl)
      BY <1>4, <2>2, Zenon
    <3>2. n = 0 \/ n = Len(wire) \/ n \in 1 .. Len(wire) - 1
      BY <1>5
    <3> QED
      BY <1>5, <1>6, <2>1, <3>1, <3>2, BackLinesCut
  <2>3. ~ gap' => ~ gap
    BY <1>4
  <2>4. Len(wire') <= seek
    BY <1>5, <1>6, <2>1
  <2> QED
    BY <1>1, <1>3, <2>1, <2>2, <2>3, <2>4 DEF BackInv
<1>11. StopInv'
  BY <1>1, <1>3 DEF StopInv, StoppedMeansAllRead
<1> QED
  BY <1>7, <1>8, <1>9, <1>10, <1>11 DEF LogInv

\* The client takes a line off the wire.
LEMMA TakeKeeps ==
  ASSUME TaskLogAssumption, LogInv, Take
  PROVE  LogInv'
<1>1. /\ size' = size /\ nl' = nl /\ task' = task /\ call' = call /\ tail' = tail /\ from' = from
      /\ taskIsEnd' = taskIsEnd /\ notReady' = notReady /\ cli' = cli /\ gap' = gap /\ drops' = drops /\ cut' = cut
      /\ req' = req /\ started' = started /\ isEnd' = isEnd /\ i' = i /\ pos' = pos /\ prev' = prev
      /\ late' = late
  BY DEF Take, taskVars, requestVars
<1>2. TypeOK /\ PhaseInv /\ FwdInv /\ BackInv /\ StopInv
  BY DEF LogInv
<1>3. PICK n : n = Line
  OBVIOUS
<1>4. /\ cli = "read" /\ wire # <<>>
      /\ out' = out \o SubSeq(wire, 1, n) /\ wire' = SubSeq(wire, n + 1, Len(wire))
      /\ seek' = (IF Back THEN seek - n ELSE seek + n) /\ got' = TRUE
  BY <1>3 DEF Take
<1>5. /\ Logs /\ size \in Nat /\ MaxSize \in Nat /\ size <= MaxSize
      /\ seek \in Nat /\ seek <= size /\ wire \in Seq(Byte) /\ out \in Seq(Byte) /\ from \in 0 .. MaxSize
  BY <1>2, CallTypes DEF TypeOK, Byte
<1>6. n \in 1 .. Len(wire) /\ Len(wire) \in Nat /\ (n = Len(wire) \/ wire[n] \in nl)
  BY <1>3, <1>4, <1>5, LineProperties
<1>7. out' \in Seq(Byte) /\ wire' \in Seq(Byte) /\ Len(wire') = Len(wire) - n
  <2>1. PICK l \in Nat, m \in Nat : l = Len(wire) /\ m = n + 1
    BY <1>6
  <2>2. \A x \in 1 .. l : wire[x] \in Byte
    BY <1>5, <2>1, ElementOfSeq
  <2>3. SubSeq(wire, 1, n) \in Seq(Byte)
    <3>1. \A x \in 1 .. n : wire[x] \in Byte
      BY <1>6, <2>1, <2>2
    <3>2. 1 \in Int /\ n \in Int
      BY <1>6
    <3> QED
      BY <3>1, <3>2, SubSeqProperties
  <2>4. out \o SubSeq(wire, 1, n) \in Seq(Byte)
    BY <1>5, <2>3, ConcatProperties
  <2>5. \A x \in m .. l : wire[x] \in Byte
    BY <1>6, <2>1, <2>2
  <2>6. SubSeq(wire, m, l) \in Seq(Byte) /\ Len(SubSeq(wire, m, l)) = IF m <= l THEN l - m + 1 ELSE 0
    BY <2>5, SubSeqProperties
  <2>7. wire' = SubSeq(wire, m, l)
    BY <1>4, <2>1
  <2>8. n \in 1 .. l /\ m = n + 1
    BY <1>6, <2>1
  <2>9. (IF m <= l THEN l - m + 1 ELSE 0) = l - n
    BY <2>8
  <2>10. Len(wire') = l - n
    BY <2>6, <2>7, <2>9
  <2> QED
    BY <1>4, <2>1, <2>4, <2>6, <2>7, <2>10
<1>8. Len(wire) <= seek \/ ~ Back
  BY <1>2 DEF BackInv
<1>9. seek + Len(wire) <= size \/ Back
  BY <1>2 DEF FwdInv
<1>10. seek' \in 0 .. size
  <2>1. CASE Back
    BY <1>4, <1>5, <1>6, <1>8, <2>1
  <2>2. CASE ~ Back
    BY <1>4, <1>5, <1>6, <1>9, <2>2
  <2> QED
    BY <2>1, <2>2
<1>11. TypeOK'
  <2>1. out' \in Seq(1 .. MaxSize) /\ wire' \in Seq(1 .. MaxSize) /\ got' \in BOOLEAN
    BY <1>4, <1>7 DEF Byte
  <2> QED
    BY <1>1, <1>2, <1>10, <2>1 DEF TypeOK
<1>12. ~ notReady /\ ~ Idle
  BY <1>2, <1>4 DEF PhaseInv
<1>13. PhaseInv'
  BY <1>1, <1>2, <1>4, <1>12 DEF PhaseInv, Back, Idle, Reading
<1>14. FwdInv'
  <2> SUFFICES ASSUME ~ Back PROVE FwdInv'
    BY <1>1 DEF FwdInv, Back
  <2>1. seek' = seek + n /\ seek' + Len(wire') = seek + Len(wire)
    <3>1. seek' = seek + n
      BY <1>4
    <3>2. n \in Nat /\ Len(wire) \in Nat /\ Len(wire') = Len(wire) - n /\ seek \in Nat
      BY <1>5, <1>6, <1>7
    <3> QED
      BY <3>1, <3>2
  <2>2. ASSUME ~ gap
        PROVE  from' <= seek' /\ wire' = Bytes(seek', seek' + Len(wire')) /\ out' = Bytes(from', seek')
    <3>1. PICK b : b = seek + Len(wire)
      OBVIOUS
    <3>2. from <= seek /\ wire = Bytes(seek, b) /\ out = Bytes(from, seek)
      BY <1>2, <2>2, <3>1 DEF FwdInv
    <3>3. b \in seek .. MaxSize /\ n \in 0 .. b - seek
      BY <1>5, <1>6, <1>9, <3>1
    <3>4. /\ SubSeq(wire, 1, n) = Bytes(seek, seek + n)
          /\ SubSeq(wire, n + 1, Len(wire)) = Bytes(seek + n, b)
      BY <1>5, <3>2, <3>3, BytesSplit
    <3>5. wire' = Bytes(seek', seek' + Len(wire'))
      BY <1>4, <2>1, <3>1, <3>4
    <3>6. from \in Nat /\ seek \in from .. MaxSize /\ seek + n \in seek .. MaxSize
      BY <1>5, <3>2, <3>3
    <3>7. Bytes(from, seek) \o Bytes(seek, seek + n) = Bytes(from, seek + n)
      BY <1>5, <3>6, BytesConcat
    <3>8. out' = Bytes(from', seek')
      BY <1>1, <1>4, <2>1, <3>2, <3>4, <3>7
    <3> QED
      BY <1>1, <2>1, <3>5, <3>6, <3>8
  <2>3. Upto' = Upto /\ (Reading' <=> Reading) /\ (Following' <=> Following)
    BY <1>1 DEF Upto, Reading, Following
  <2> QED
    BY <1>1, <1>2, <2>1, <2>2, <2>3 DEF FwdInv, Back
<1>15. BackInv'
  <2> SUFFICES ASSUME Back PROVE BackInv'
    BY <1>1 DEF BackInv, Back
  <2>1. /\ ~ gap => BackLines(wire, seek, nl) /\ BackRead(out, seek, from)
        /\ seek <= from /\ from <= size /\ Len(wire) <= seek
        /\ req = "read" => pos + Len(wire) = seek
    BY <1>2 DEF BackInv
  <2>2. seek \in 0 .. MaxSize /\ from \in seek .. MaxSize
    BY <1>5, <2>1
  <2>3. ASSUME ~ gap
        PROVE  BackLines(SubSeq(wire, n + 1, Len(wire)), seek - n, nl)
    BY <1>5, <1>6, <2>1, <2>2, <2>3, BackLinesTaken
  <2>4. ASSUME ~ gap
        PROVE  BackRead(out \o SubSeq(wire, 1, n), seek - n, from)
    BY <1>5, <1>6, <2>1, <2>2, <2>4, BackReadOn
  <2>5. ~ gap' => BackLines(wire', seek', nl') /\ BackRead(out', seek', from')
    BY <1>1, <1>4, <2>3, <2>4
  <2>6. seek' <= from' /\ from' <= size' /\ Len(wire') <= seek'
    BY <1>1, <1>4, <1>5, <1>6, <1>7, <2>1
  <2>7. req' = "read" => pos' + Len(wire') = seek'
    <3>1. pos \in 0 .. size
      BY <1>2 DEF TypeOK
    <3> QED
      BY <1>1, <1>4, <1>5, <1>6, <1>7, <2>1, <3>1
  <2> QED
    BY <2>5, <2>6, <2>7 DEF BackInv
<1>16. StopInv'
  <2>1. CASE taskIsEnd
    <3>1. /\ (Reading \/ req = "done") /\ ~ cut
          => /\ isEnd /\ IsOver /\ req \in {"read", "done"}
             /\ IF Back THEN seek - Len(wire) = pos ELSE ~ gap => seek + Len(wire) = pos
             /\ tail => prev = size
             /\ req = "done" /\ i = 0 => pos = IF Back THEN 0 ELSE size
      BY <1>2, <1>4, <1>12, <2>1 DEF StopInv
    <3>2. /\ Back => seek' - Len(wire') = seek - Len(wire)
          /\ ~ Back => seek' + Len(wire') = seek + Len(wire)
      <4>1. seek' = IF Back THEN seek - n ELSE seek + n
        BY <1>4
      <4>2. n \in Nat /\ Len(wire) \in Nat /\ Len(wire') = Len(wire) - n /\ seek \in Nat
        BY <1>5, <1>6, <1>7
      <4> QED
        BY <4>1, <4>2
    <3> QED
      BY <1>1, <1>4, <1>12, <1>2, <2>1, <3>1, <3>2
         DEF StopInv, StoppedMeansAllRead, Back, Reading, IsOver
  <2>2. CASE ~ taskIsEnd
    BY <1>1, <1>2, <1>4, <2>2 DEF StopInv, StoppedMeansAllRead, Back, Reading, IsOver
  <2> QED
    BY <2>1, <2>2
<1> QED
  BY <1>11, <1>13, <1>14, <1>15, <1>16 DEF LogInv

\* A client that has not begun, a task that is queued.
LEMMA InitLog ==
  ASSUME TaskLogAssumption, Init
  PROVE  LogInv
<1>1. MaxSize \in Nat /\ MaxDrops \in Nat /\ 0 \in 0 .. MaxSize /\ 0 + 0 = 0
  BY DEF TaskLogAssumption
<1>2. Len(wire) = 0 /\ wire = <<>> /\ out = <<>>
  BY DEF Init
<1>3. Bytes(0, 0) = <<>>
  BY <1>1, NoBytes
<1>4. TypeOK
  <2>1. tail \in BOOLEAN /\ wire \in Seq(1 .. MaxSize) /\ out \in Seq(1 .. MaxSize)
    BY <1>2 DEF Init
  <2>2. size = 0 /\ seek = 0 /\ from = 0 /\ drops = 0 /\ i = 0 /\ pos = 0 /\ prev = 0
    BY DEF Init
  <2>3. /\ size \in 0 .. MaxSize /\ seek \in 0 .. size /\ from \in 0 .. MaxSize
        /\ drops \in 0 .. MaxDrops /\ i \in Nat /\ pos \in 0 .. size /\ prev \in -1 .. size
    BY <1>1, <2>2
  <2> QED
    BY <2>1, <2>3 DEF Init, TypeOK
<1>5. PhaseInv
  BY DEF Init, PhaseInv, Back, Idle, Reading
<1>6. FwdInv
  BY <1>1, <1>2, <1>3 DEF Init, FwdInv, Back, Reading, Following
<1>7. BackInv
  <2>1. BackLines(<<>>, 0, nl)
    BY <1>1, NoBackLines
  <2>2. BackRead(<<>>, 0, 0)
    BY DEF BackRead, IsInjective, ToSet
  <2> QED
    BY <1>2, <2>1, <2>2 DEF Init, BackInv
<1>8. StopInv
  BY DEF Init, StopInv, StoppedMeansAllRead, Reading
<1> QED
  BY <1>4, <1>5, <1>6, <1>7, <1>8 DEF LogInv

\* The stages of the task, of the request, of the response and of the client, kept in one
\* invariant: reading, sending and following are the same bytes at three places.
THEOREM LogInvariance == Spec => []LogInv
<1>1. Init => LogInv
  BY InitLog, TaskLogAssumption
<1>2. LogInv /\ [Next]_vars => LogInv'
  <2> SUFFICES ASSUME LogInv, [Next]_vars PROVE LogInv'
    OBVIOUS
  <2>0. TaskLogAssumption
    BY TaskLogAssumption
  <2>1. CASE TaskStep
    BY <2>0, <2>1, TaskStepKeeps
  <2>2. CASE CleanTask
    BY <2>0, <2>2, CleanTaskKeeps
  <2>3. CASE Serve
    BY <2>0, <2>3, GetKeeps, WaitStageKeeps, CheckEndKeeps, OpenKeeps, ReadLineKeeps, ReadOverKeeps,
       SeekTailKeeps, FollowLineKeeps, FollowPartKeeps, PollKeeps, Zenon DEF Serve
  <2>4. CASE Expire
    BY <2>0, <2>4, ExpireKeeps
  <2>5. CASE Read
    BY <2>0, <2>5, BeginKeeps, CallKeeps, TakeKeeps, OverKeeps, Zenon DEF Read
  <2>6. CASE Drop
    BY <2>0, <2>6, DropKeeps
  <2>8. CASE Cut
    BY <2>0, <2>8, CutKeeps
  <2>7. CASE UNCHANGED vars
    <3>1. /\ size' = size /\ nl' = nl /\ task' = task /\ call' = call /\ tail' = tail /\ seek' = seek
          /\ from' = from /\ got' = got /\ taskIsEnd' = taskIsEnd /\ notReady' = notReady /\ cli' = cli
          /\ out' = out /\ gap' = gap /\ drops' = drops /\ cut' = cut /\ req' = req /\ started' = started
          /\ isEnd' = isEnd /\ i' = i /\ pos' = pos /\ prev' = prev /\ late' = late /\ wire' = wire
      BY <2>7 DEF vars, taskVars, callVars, historyVars, requestVars
    <3> QED
      BY <3>1 DEF LogInv, TypeOK, PhaseInv, FwdInv, BackInv, StopInv, StoppedMeansAllRead, Back, Idle,
                  Reading, Following, Upto, IsOver
  <2> QED
    BY <2>1, <2>2, <2>3, <2>4, <2>5, <2>6, <2>7, <2>8 DEF Next
<1> QED
  BY <1>1, <1>2, PTL DEF Spec

\* The client has read the bytes from where it began to where it stands, each once and in
\* order (utils/file/cat.py, aaas/client.py more_all and tail_all), whatever the polls, the
\* half lines and the responses that broke off or ended early - as long as the follower
\* skips nothing and no response read backwards ends inside a line.
THEOREM BytesAreReadOnce == Spec => []ReadsExactly
<1>1. LogInv => ReadsExactly
  BY DEF LogInv, ReadsExactly, FwdInv, BackInv, BackRead, Back
<1> QED
  BY <1>1, LogInvariance, PTL

\* A client that returns, on a response that had not ended early, has the whole log of a
\* task that is over.
THEOREM StopsAtTheEnd == Spec => []StoppedMeansAllRead
<1>1. LogInv => StoppedMeansAllRead
  BY DEF LogInv, StopInv
<1> QED
  BY <1>1, LogInvariance, PTL
=============================================================================
