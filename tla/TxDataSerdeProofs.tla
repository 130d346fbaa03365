--------------------------- MODULE TxDataSerdeProofs ---------------------------
(***************************************************************************)
(* What is read from the log is what was written, and what is replayed of  *)
(* it what was committed, for any transactions.                            *)
(*                                                                         *)
(* Two facts about each reader carry the argument. It Reads what its       *)
(* writer writes, to the last byte; and it does not look beyond what it    *)
(* reads (Reader): with more bytes behind, it returns the same value, and  *)
(* those bytes. So it finds in front of anything what was written there,   *)
(* and in a part of what was written it finds nothing, or it would find    *)
(* in the whole that something is left over.                               *)
(***************************************************************************)
EXTENDS TxDataSerde, SequenceTheorems, FiniteSetTheorems, WellFoundedInduction, TLAPS

-----------------------------------------------------------------------------
(***************************************************************************)
(* Induction, over sets, and recursive functions.                          *)
(***************************************************************************)

\* A set of natural numbers that is not empty has a least element.
LEMMA LeastElement ==
  ASSUME NEW T, T \subseteq Nat, T # {}
  PROVE  \E x \in T : \A y \in T : x <= y
<1> DEFINE Less == {p \in Nat \X Nat : p[1] < p[2]}
<1>1. IsWellFoundedOn(Less, Nat)
  BY NatLessThanWellFounded DEF OpToRel
<1>2. PICK x \in T : \A y \in T : ~(<<y, x>> \in Less)
  <2> HIDE DEF Less
  <2> QED BY <1>1, WFMin
<1>3. ASSUME NEW y \in T PROVE x <= y
  <2>1. x \in Nat /\ y \in Nat
    OBVIOUS
  <2>2. <<y, x>> \in Nat \X Nat
    BY <2>1
  <2>3. y < x => <<y, x>> \in Less
    BY <2>2
  <2> QED BY <1>2, <2>1, <2>3
<1> QED BY <1>3

\* Strong induction over the size of the elements of D.
LEMMA SizeInduction ==
  ASSUME NEW D, NEW size \in [D -> Nat], NEW T,
         \A d \in D : (\A e \in D : size[e] < size[d] => e \in T) => d \in T
  PROVE  D \subseteq T
<1> SUFFICES ASSUME D \ T # {} PROVE FALSE
  OBVIOUS
<1> DEFINE Sizes == {size[d] : d \in D \ T}
<1>1. Sizes \subseteq Nat /\ Sizes # {}
  OBVIOUS
<1>2. PICK x \in Sizes : \A y \in Sizes : x <= y
  <2> HIDE DEF Sizes
  <2> QED BY <1>1, LeastElement
<1>3. PICK d \in D \ T : x = size[d]
  OBVIOUS
<1>4. ASSUME NEW e \in D, size[e] < size[d] PROVE e \in T
  <2> SUFFICES ASSUME e \notin T PROVE FALSE
    OBVIOUS
  <2>1. size[e] \in Sizes
    OBVIOUS
  <2> HIDE DEF Sizes
  <2>2. x <= size[e] /\ size[e] \in Nat /\ size[d] \in Nat
    BY <1>2, <2>1
  <2> QED BY <1>3, <1>4, <2>2
<1> QED BY <1>3, <1>4

\* Induction from 0 to n.
LEMMA UpTo ==
  ASSUME NEW n \in Nat, NEW T, 0 \in T, \A i \in 0 .. n - 1 : i \in T => i + 1 \in T
  PROVE  0 .. n \subseteq T
<1> DEFINE size == [i \in 0 .. n |-> i]
<1>1. size \in [0 .. n -> Nat]
  OBVIOUS
<1>2. ASSUME NEW d \in 0 .. n, \A e \in 0 .. n : size[e] < size[d] => e \in T
      PROVE  d \in T
  <2>1. CASE d = 0
    BY <2>1
  <2>2. CASE d # 0
    <3>1. d - 1 \in 0 .. n - 1 /\ size[d - 1] < size[d] /\ d = (d - 1) + 1
      BY <2>2
    <3> QED BY <1>2, <3>1
  <2> QED BY <2>1, <2>2
<1> DEFINE D == 0 .. n
<1>3. size \in [D -> Nat] /\ \A d \in D : (\A e \in D : size[e] < size[d] => e \in T) => d \in T
  BY <1>1, <1>2
<1> HIDE DEF size, D
<1>4. D \subseteq T
  BY <1>3, SizeInduction
<1> QED BY <1>4 DEF D

\* A definition by the value at next[d], a smaller element, unless d is in Stop.
Descends(D, S, size, Stop, start, next, step) ==
  /\ size \in [D -> Nat]
  /\ start \in [D -> S] /\ next \in [D -> D] /\ step \in [D \X S -> S]
  /\ \A d \in D : d \notin Stop => size[next[d]] < size[d]

\* There is the function that is so defined.
LEMMA Recursion ==
  ASSUME NEW D, NEW S, NEW size, NEW Stop, NEW start, NEW next, NEW step,
         Descends(D, S, size, Stop, start, next, step)
  PROVE  \E f \in [D -> S] :
           \A d \in D : f[d] = IF d \in Stop THEN start[d] ELSE step[<<d, f[next[d]]>>]
<1> USE DEF Descends
<1> DEFINE Below(n) == {d \in D : size[d] < n}
           Value(g, d) == IF d \in Stop THEN start[d] ELSE step[<<d, g[next[d]]>>]
           Upto(g, n) == g \in [Below(n) -> S] /\ \A d \in Below(n) : g[d] = Value(g, d)
           N == {n \in Nat : \E g : Upto(g, n)}
<1>1. ASSUME NEW n \in Nat, NEW g, Upto(g, n)
      PROVE  \E h : Upto(h, n + 1)
  <2> DEFINE h == [d \in Below(n + 1) |-> Value(g, d)]
  <2>1. ASSUME NEW d \in Below(n + 1), d \notin Stop PROVE next[d] \in Below(n)
    <3>1. size[next[d]] < size[d] /\ size[d] < n + 1 /\ size[d] \in Nat /\ size[next[d]] \in Nat
      BY <2>1
    <3> QED BY <3>1
  <2>2. h \in [Below(n + 1) -> S]
    <3> SUFFICES ASSUME NEW d \in Below(n + 1) PROVE Value(g, d) \in S
      OBVIOUS
    <3>1. CASE d \in Stop
      BY <3>1
    <3>2. CASE d \notin Stop
      <4>1. g[next[d]] \in S
        BY <1>1, <2>1, <3>2
      <4> QED BY <3>2, <4>1
    <3> QED BY <3>1, <3>2
  <2>3. ASSUME NEW d \in Below(n) PROVE d \in Below(n + 1) /\ h[d] = g[d]
    <3>1. size[d] < n /\ size[d] \in Nat
      OBVIOUS
    <3>2. d \in Below(n + 1)
      BY <3>1
    <3> QED BY <1>1, <3>2
  <2>4. ASSUME NEW d \in Below(n + 1) PROVE h[d] = Value(h, d)
    <3>1. CASE d \in Stop
      BY <3>1
    <3>2. CASE d \notin Stop
      <4>1. h[next[d]] = g[next[d]]
        BY <2>1, <2>3, <3>2
      <4> HIDE DEF Below
      <4> QED BY <3>2, <4>1
    <3> QED BY <3>1, <3>2
  <2> HIDE DEF h, Below, Value
  <2> QED BY <2>2, <2>4
<1>2. ASSUME NEW n \in Nat PROVE n \in N
  <2>1. 0 \in N
    <3> DEFINE g == [d \in {} |-> start[d]]
    <3>1. Below(0) = {}
      OBVIOUS
    <3>2. Upto(g, 0)
      BY <3>1
    <3> HIDE DEF Upto, g
    <3> QED BY <3>2
  <2>2. \A i \in 0 .. n - 1 : i \in N => i + 1 \in N
    <3> HIDE DEF Upto
    <3> QED BY <1>1
  <2> HIDE DEF N
  <2>3. 0 .. n \subseteq N
    BY <2>1, <2>2, UpTo
  <2> QED BY <2>3
<1>3. ASSUME NEW m \in Nat, NEW n \in Nat, NEW g, NEW h, Upto(g, m), Upto(h, n)
      PROVE  \A d \in Below(m) \cap Below(n) : g[d] = h[d]
  <2> DEFINE T == {d \in D : d \in Below(m) \cap Below(n) => g[d] = h[d]}
  <2>1. ASSUME NEW d \in D, \A e \in D : size[e] < size[d] => e \in T
        PROVE  d \in T
    <3> SUFFICES ASSUME d \in Below(m), d \in Below(n) PROVE g[d] = h[d]
      OBVIOUS
    <3>1. CASE d \in Stop
      BY <1>3, <3>1
    <3>2. CASE d \notin Stop
      <4>1. size[next[d]] < size[d] /\ next[d] \in D /\ size[next[d]] \in Nat /\ size[d] \in Nat
        BY <3>2
      <4>2. next[d] \in Below(m) \cap Below(n)
        BY <4>1
      <4>3. g[next[d]] = h[next[d]]
        BY <2>1, <4>1, <4>2
      <4> HIDE DEF Below
      <4> QED BY <1>3, <3>2, <4>3
    <3> QED BY <3>1, <3>2
  <2>2. D \subseteq T
    <3> HIDE DEF T
    <3> QED BY <2>1, SizeInduction
  <2> QED BY <2>2
<1> DEFINE part == [n \in Nat |-> CHOOSE g : Upto(g, n)]
           f == [d \in D |-> part[size[d] + 1][d]]
<1>4. ASSUME NEW n \in Nat PROVE Upto(part[n], n)
  <2>1. \E g : Upto(g, n)
    BY <1>2
  <2> HIDE DEF Upto
  <2> QED BY <2>1
<1>5. ASSUME NEW n \in Nat, NEW d \in Below(n) PROVE f[d] = part[n][d]
  <2> DEFINE m == size[d] + 1
  <2>1. m \in Nat /\ d \in Below(m)
    OBVIOUS
  <2>2. f[d] = part[m][d]
    OBVIOUS
  <2>3. Upto(part[m], m) /\ Upto(part[n], n)
    BY <1>4, <2>1
  <2> HIDE DEF Below, Upto, part, m, f
  <2>4. part[m][d] = part[n][d]
    BY <1>3, <2>1, <2>3
  <2> QED BY <2>2, <2>4
<1>6. ASSUME NEW d \in D PROVE f[d] \in S /\ f[d] = Value(f, d)
  <2> DEFINE n == size[d] + 1
  <2>1. n \in Nat /\ d \in Below(n)
    OBVIOUS
  <2>2. f[d] = part[n][d] /\ Upto(part[n], n)
    BY <1>4, <1>5, <2>1
  <2>3. d \notin Stop => next[d] \in Below(n)
    <3>1. d \notin Stop => size[next[d]] < size[d] /\ size[d] \in Nat /\ size[next[d]] \in Nat
      OBVIOUS
    <3> QED BY <3>1
  <2>4. d \notin Stop => f[next[d]] = part[n][next[d]]
    BY <1>5, <2>1, <2>3, ZenonT(60)
  <2> HIDE DEF part, n, Below
  <2> QED BY <2>1, <2>2, <2>4
<1> HIDE DEF part
<1> QED BY <1>6

\* From b upwards, each value from the one below.
Ascends(D, b, S, start, step) ==
  /\ D \subseteq Nat /\ b \in Nat /\ \A n \in D : n # b => n - 1 \in D
  /\ start \in S /\ step \in [D \X S -> S]

LEMMA UpRecursion ==
  ASSUME NEW D, NEW b, NEW S, NEW start, NEW step, Ascends(D, b, S, start, step)
  PROVE  \E f \in [D -> S] : \A n \in D : f[n] = IF n = b THEN start ELSE step[<<n, f[n - 1]>>]
<1> USE DEF Ascends
<1> DEFINE size == [n \in D |-> n]
           starts == [n \in D |-> start]
           next == [n \in D |-> IF n = b THEN n ELSE n - 1]
           Stop == {b}
<1>1. size \in [D -> Nat] /\ starts \in [D -> S] /\ next \in [D -> D]
  OBVIOUS
<1>2. \A n \in D : n \notin Stop => size[next[n]] < size[n]
  OBVIOUS
<1>3. \E f \in [D -> S] :
        \A n \in D : f[n] = IF n \in Stop THEN starts[n] ELSE step[<<n, f[next[n]]>>]
  <2> HIDE DEF size, starts, next, Stop
  <2>1. Descends(D, S, size, Stop, starts, next, step)
    BY <1>1, <1>2 DEF Descends
  <2> QED BY <2>1, Recursion
<1>4. PICK f \in [D -> S] :
        \A n \in D : f[n] = IF n \in Stop THEN starts[n] ELSE step[<<n, f[next[n]]>>]
  BY <1>3
<1>5. ASSUME NEW n \in D PROVE f[n] = IF n = b THEN start ELSE step[<<n, f[n - 1]>>]
  <2>1. (n \in Stop <=> n = b) /\ starts[n] = start /\ (n # b => next[n] = n - 1)
    OBVIOUS
  <2> HIDE DEF Stop, starts, next
  <2> QED BY <1>4, <2>1
<1> QED BY <1>5

-----------------------------------------------------------------------------
(***************************************************************************)
(* Sequences of bytes.                                                     *)
(***************************************************************************)

LEMMA ConcatBytes ==
  ASSUME NEW s \in Bytes, NEW q \in Bytes
  PROVE  /\ s \o q \in Bytes /\ Len(s \o q) = Len(s) + Len(q)
         /\ Len(s) \in Nat /\ Len(q) \in Nat
         /\ s \o << >> = s /\ << >> \o q = q
         /\ << >> \in Bytes
BY ConcatProperties, ConcatEmptySeq, LenProperties, EmptySeq DEF Bytes

LEMMA ConcatThree ==
  ASSUME NEW s \in Bytes, NEW q \in Bytes, NEW t \in Bytes
  PROVE  (s \o q) \o t = s \o (q \o t)
BY ConcatAssociative DEF Bytes

\* The first byte and the others.
LEMMA HeadTail ==
  ASSUME NEW s \in Bytes, s # << >>
  PROVE  Head(s) \in Byte /\ Tail(s) \in Bytes /\ Len(Tail(s)) = Len(s) - 1
BY HeadTailProperties DEF Bytes

LEMMA HeadTailConcat ==
  ASSUME NEW s \in Bytes, NEW q \in Bytes, s # << >>
  PROVE  /\ s \o q \in Bytes /\ s \o q # << >>
         /\ Head(s \o q) = Head(s) /\ Tail(s \o q) = Tail(s) \o q
<1>1. /\ s \o q \in Seq(Byte) /\ Len(s \o q) = Len(s) + Len(q)
      /\ \A i \in 1 .. Len(s) + Len(q) :
           (s \o q)[i] = IF i <= Len(s) THEN s[i] ELSE q[i - Len(s)]
  BY ConcatProperties DEF Bytes
<1>2. Len(s) \in Nat /\ Len(s) > 0 /\ Len(q) \in Nat
  BY LenProperties, EmptySeq DEF Bytes
<1>3. s \o q # << >>
  BY <1>1, <1>2
<1>4. /\ Tail(s) \in Seq(Byte) /\ Len(Tail(s)) = Len(s) - 1
      /\ \A i \in 1 .. Len(Tail(s)) : Tail(s)[i] = s[i + 1]
  BY HeadTailProperties DEF Bytes
<1>5. /\ Tail(s \o q) \in Seq(Byte) /\ Len(Tail(s \o q)) = Len(s \o q) - 1
      /\ \A i \in 1 .. Len(Tail(s \o q)) : Tail(s \o q)[i] = (s \o q)[i + 1]
  BY <1>1, <1>3, HeadTailProperties
<1>6. /\ Tail(s) \o q \in Seq(Byte) /\ Len(Tail(s) \o q) = Len(Tail(s)) + Len(q)
      /\ \A i \in 1 .. Len(Tail(s)) + Len(q) :
           (Tail(s) \o q)[i] = IF i <= Len(Tail(s)) THEN Tail(s)[i] ELSE q[i - Len(Tail(s))]
  BY <1>4, ConcatProperties DEF Bytes
<1>7. Tail(s \o q) = Tail(s) \o q
  <2> DEFINE l == Tail(s \o q)
             r == Tail(s) \o q
  <2>1. Len(l) = Len(r)
    BY <1>1, <1>2, <1>4, <1>5, <1>6
  <2>2. ASSUME NEW i \in 1 .. Len(l) PROVE l[i] = r[i]
    <3>1. i \in Nat /\ 1 <= i /\ i <= Len(s) + Len(q) - 1 /\ i + 1 \in 1 .. Len(s) + Len(q)
      BY <1>1, <1>2, <1>5
    <3>2. l[i] = IF i + 1 <= Len(s) THEN s[i + 1] ELSE q[(i + 1) - Len(s)]
      BY <1>1, <1>4, <3>1
    <3>3. r[i] = IF i <= Len(s) - 1 THEN s[i + 1] ELSE q[i - (Len(s) - 1)]
      BY <1>2, <1>4, <1>6, <3>1
    <3>4. (i + 1) - Len(s) = i - (Len(s) - 1) /\ (i + 1 <= Len(s) <=> i <= Len(s) - 1)
      BY <1>2, <3>1
    <3> HIDE DEF l, r
    <3> QED BY <3>2, <3>3, <3>4
  <2>3. l \in Seq(Byte) /\ r \in Seq(Byte)
    BY <1>5, <1>6
  <2> HIDE DEF l, r
  <2>4. l = r
    BY <2>1, <2>2, <2>3, SeqEqual
  <2> QED BY <2>4 DEF l, r
<1>8. Head(s \o q) = Head(s)
  BY <1>1, <1>2
<1> QED BY <1>1, <1>3, <1>7, <1>8 DEF Bytes

LEMMA HeadTailFirst ==
  ASSUME NEW b \in Byte, NEW w \in Bytes
  PROVE  /\ <<b>> \o w \in Bytes /\ <<b>> \o w # << >>
         /\ Head(<<b>> \o w) = b /\ Tail(<<b>> \o w) = w
<1>1. <<b>> \in Bytes /\ <<b>> # << >> /\ Head(<<b>>) = b /\ Tail(<<b>>) = << >>
  BY DEF Bytes
<1>2. << >> \o w = w
  BY ConcatBytes
<1> DEFINE s == <<b>>
<1> HIDE DEF s
<1>3. s \in Bytes /\ s # << >> /\ Head(s) = b /\ Tail(s) = << >>
  BY <1>1 DEF s
<1>4. /\ s \o w \in Bytes /\ s \o w # << >>
      /\ Head(s \o w) = Head(s) /\ Tail(s \o w) = Tail(s) \o w
  BY <1>3, HeadTailConcat
<1>5. /\ s \o w \in Bytes /\ s \o w # << >> /\ Head(s \o w) = b /\ Tail(s \o w) = w
  BY <1>2, <1>3, <1>4
<1> QED BY <1>5 DEF s

\* The first n bytes, and those behind.
LEMMA Split ==
  ASSUME NEW s \in Bytes, NEW n \in Nat, n <= Len(s)
  PROVE  /\ SubSeq(s, 1, n) \in Bytes /\ Len(SubSeq(s, 1, n)) = n
         /\ \A i \in 1 .. n : SubSeq(s, 1, n)[i] = s[i]
         /\ After(n, s) \in Bytes /\ Len(After(n, s)) = Len(s) - n
         /\ \A i \in 1 .. Len(s) - n : After(n, s)[i] = s[i + n]
<1>1. Len(s) \in Nat /\ \A i \in 1 .. Len(s) : s[i] \in Byte
  BY LenProperties, ElementOfSeq DEF Bytes
<1>2. /\ SubSeq(s, 1, n) \in Seq(Byte)
      /\ Len(SubSeq(s, 1, n)) = IF 1 <= n THEN n - 1 + 1 ELSE 0
      /\ \A i \in 1 .. n - 1 + 1 : SubSeq(s, 1, n)[i] = s[1 + i - 1]
  BY <1>1, SubSeqProperties
<1>3. /\ SubSeq(s, n + 1, Len(s)) \in Seq(Byte)
      /\ Len(SubSeq(s, n + 1, Len(s))) = IF n + 1 <= Len(s) THEN Len(s) - (n + 1) + 1 ELSE 0
      /\ \A i \in 1 .. Len(s) - (n + 1) + 1 : SubSeq(s, n + 1, Len(s))[i] = s[n + 1 + i - 1]
  BY <1>1, SubSeqProperties
<1>4. /\ Len(SubSeq(s, 1, n)) = n
      /\ \A i \in 1 .. n : SubSeq(s, 1, n)[i] = s[i]
  <2> DEFINE t == SubSeq(s, 1, n)
  <2>1. Len(t) = n
    BY <1>2
  <2>2. \A i \in 1 .. n : t[i] = s[i]
    <3> SUFFICES ASSUME NEW i \in 1 .. n PROVE t[i] = s[i]
      OBVIOUS
    <3>1. i \in 1 .. n - 1 + 1 /\ 1 + i - 1 = i
      OBVIOUS
    <3> QED BY <1>2, <3>1
  <2> QED BY <2>1, <2>2
<1>5. /\ Len(After(n, s)) = Len(s) - n
      /\ \A i \in 1 .. Len(s) - n : After(n, s)[i] = s[i + n]
  <2> DEFINE t == SubSeq(s, n + 1, Len(s))
  <2>1. Len(t) = Len(s) - n
    BY <1>1, <1>3
  <2>2. \A i \in 1 .. Len(s) - n : t[i] = s[i + n]
    <3> SUFFICES ASSUME NEW i \in 1 .. Len(s) - n PROVE t[i] = s[i + n]
      OBVIOUS
    <3>1. i \in 1 .. Len(s) - (n + 1) + 1 /\ n + 1 + i - 1 = i + n
      BY <1>1
    <3> QED BY <1>3, <3>1
  <2> QED BY <2>1, <2>2 DEF After
<1> QED BY <1>2, <1>3, <1>4, <1>5 DEF Bytes, After

LEMMA SplitConcat ==
  ASSUME NEW s \in Bytes, NEW q \in Bytes, NEW n \in Nat, n <= Len(s)
  PROVE  /\ SubSeq(s \o q, 1, n) = SubSeq(s, 1, n)
         /\ After(n, s \o q) = After(n, s) \o q
<1>1. /\ s \o q \in Bytes /\ Len(s \o q) = Len(s) + Len(q)
      /\ Len(s) \in Nat /\ Len(q) \in Nat /\ n <= Len(s \o q)
      /\ \A i \in 1 .. Len(s) + Len(q) :
           (s \o q)[i] = IF i <= Len(s) THEN s[i] ELSE q[i - Len(s)]
  BY ConcatProperties, LenProperties DEF Bytes
<1>2. SubSeq(s \o q, 1, n) = SubSeq(s, 1, n)
  <2> DEFINE l == SubSeq(s \o q, 1, n)
             r == SubSeq(s, 1, n)
  <2>1. l \in Bytes /\ Len(l) = n /\ \A i \in 1 .. n : l[i] = (s \o q)[i]
    BY <1>1, Split
  <2>2. r \in Bytes /\ Len(r) = n /\ \A i \in 1 .. n : r[i] = s[i]
    BY <1>1, Split
  <2>3. \A i \in 1 .. n : (s \o q)[i] = s[i]
    BY <1>1
  <2> HIDE DEF l, r
  <2>4. l = r
    BY <2>1, <2>2, <2>3, SeqEqual DEF Bytes
  <2> QED BY <2>4 DEF l, r
<1>3. After(n, s) \in Bytes /\ Len(After(n, s)) = Len(s) - n
      /\ \A i \in 1 .. Len(s) - n : After(n, s)[i] = s[i + n]
  BY Split
<1>4. LET w == s \o q IN
      /\ After(n, w) \in Bytes /\ Len(After(n, w)) = Len(w) - n
      /\ \A i \in 1 .. Len(w) - n : After(n, w)[i] = w[i + n]
  <2> DEFINE w == s \o q
  <2>1. w \in Bytes /\ n <= Len(w)
    BY <1>1
  <2> HIDE DEF w
  <2>2. /\ After(n, w) \in Bytes /\ Len(After(n, w)) = Len(w) - n
        /\ \A i \in 1 .. Len(w) - n : After(n, w)[i] = w[i + n]
    BY <2>1, Split
  <2> QED BY <2>2 DEF w
<1>5. After(n, s \o q) = After(n, s) \o q
  <2> DEFINE l == After(n, s \o q)
             a == After(n, s)
             r == a \o q
  <2>1. /\ l \in Bytes /\ Len(l) = Len(s) + Len(q) - n
        /\ \A i \in 1 .. Len(s) + Len(q) - n : l[i] = (s \o q)[i + n]
    BY <1>1, <1>4
  <2>2. a \in Bytes /\ Len(a) = Len(s) - n /\ \A i \in 1 .. Len(s) - n : a[i] = s[i + n]
    BY <1>3
  <2> HIDE DEF a
  <2>3. /\ r \in Bytes /\ Len(r) = Len(a) + Len(q)
        /\ \A i \in 1 .. Len(a) + Len(q) : r[i] = IF i <= Len(a) THEN a[i] ELSE q[i - Len(a)]
    BY <2>2, ConcatProperties DEF Bytes
  <2> HIDE DEF l, r
  <2>4. ASSUME NEW i \in 1 .. Len(l) PROVE l[i] = r[i]
    <3>1. i \in Nat /\ i + n \in 1 .. Len(s) + Len(q) /\ i <= Len(s) + Len(q) - n
      BY <1>1, <2>1
    <3>2. l[i] = IF i + n <= Len(s) THEN s[i + n] ELSE q[(i + n) - Len(s)]
      BY <1>1, <2>1, <3>1
    <3>3. r[i] = IF i <= Len(s) - n THEN s[i + n] ELSE q[i - (Len(s) - n)]
      BY <1>1, <2>2, <2>3, <3>1
    <3>4. (i + n) - Len(s) = i - (Len(s) - n) /\ (i + n <= Len(s) <=> i <= Len(s) - n)
      BY <1>1, <3>1
    <3> QED BY <3>2, <3>3, <3>4
  <2>5. l = r
    BY <1>1, <2>1, <2>2, <2>3, <2>4, SeqEqual DEF Bytes
  <2> QED BY <2>5 DEF l, r, a
<1> QED BY <1>2, <1>5

LEMMA SplitBehind ==
  ASSUME NEW s \in Bytes, NEW q \in Bytes
  PROVE  SubSeq(s \o q, 1, Len(s)) = s /\ After(Len(s), s \o q) = q
<1>1. Len(s) \in Nat /\ After(Len(s), s) \in Bytes /\ Len(After(Len(s), s)) = 0
  BY Split, LenProperties DEF Bytes
<1>2. After(Len(s), s) = << >>
  BY <1>1, EmptySeq DEF Bytes
<1>3. SubSeq(s, 1, Len(s)) = s
  BY SubSeqFull DEF Bytes
<1>4. << >> \o q = q
  BY ConcatBytes
<1> DEFINE n == Len(s)
<1>5. n \in Nat /\ n <= Len(s)
  BY <1>1
<1> HIDE DEF n
<1>6. SubSeq(s \o q, 1, n) = SubSeq(s, 1, n) /\ After(n, s \o q) = After(n, s) \o q
  BY <1>5, SplitConcat
<1> QED BY <1>2, <1>3, <1>4, <1>6 DEF n

-----------------------------------------------------------------------------
(***************************************************************************)
(* Readers.                                                                *)
(***************************************************************************)

\* R reads a value of V, and what it reads does not depend on what is behind.
Reader(R, V) ==
  /\ R \in [Bytes -> SUBSET (V \X Bytes)]
  /\ \A s \in Bytes : \A r \in R[s] :
       /\ Len(r[2]) <= Len(s)
       /\ \A q \in Bytes : R[s \o q] = {<<r[1], r[2] \o q>>}

\* R reads v from w, to the last byte.
Reads(R, w, v) == w \in Bytes /\ R[w] = {<<v, << >>>>}

LEMMA ReaderOne ==
  ASSUME NEW V, NEW R, Reader(R, V), NEW s \in Bytes, NEW r \in R[s]
  PROVE  /\ r[1] \in V /\ r[2] \in Bytes /\ r = <<r[1], r[2]>>
         /\ Len(r[2]) <= Len(s)
         /\ R[s] = {r}
         /\ \A q \in Bytes : R[s \o q] = {<<r[1], r[2] \o q>>}
<1>1. R[s] \subseteq V \X Bytes
  BY DEF Reader
<1>2. r[1] \in V /\ r[2] \in Bytes /\ r = <<r[1], r[2]>>
  BY <1>1
<1>3. Len(r[2]) <= Len(s) /\ \A q \in Bytes : R[s \o q] = {<<r[1], r[2] \o q>>}
  BY DEF Reader
<1>4. << >> \in Bytes /\ s \o << >> = s /\ r[2] \o << >> = r[2]
  BY <1>2, ConcatBytes
<1> QED BY <1>2, <1>3, <1>4

LEMMA ReadsInFront ==
  ASSUME NEW V, NEW R, Reader(R, V), NEW w, NEW v, Reads(R, w, v), NEW q \in Bytes
  PROVE  R[w \o q] = {<<v, q>>} /\ w \in Bytes /\ v \in V
<1>1. w \in Bytes /\ <<v, << >>>> \in R[w]
  BY DEF Reads
<1> DEFINE r == <<v, << >>>>
<1>2. r \in R[w] /\ r[1] = v /\ r[2] = << >>
  BY <1>1
<1> HIDE DEF r
<1>3. r[1] \in V /\ \A p \in Bytes : R[w \o p] = {<<r[1], r[2] \o p>>}
  <2>1. r \in V \X Bytes
    BY <1>1, <1>2 DEF Reader
  <2> QED BY <1>1, <1>2, <2>1 DEF Reader
<1>4. << >> \o q = q
  BY ConcatBytes
<1> QED BY <1>1, <1>2, <1>3, <1>4

\* What is proved of a reader, to show that it is one.
LEMMA IsReader ==
  ASSUME NEW V, NEW R,
         R \in [Bytes -> SUBSET (V \X Bytes)],
         \A s \in Bytes : \A r \in R[s] :
           Len(r[2]) <= Len(s) /\ \A q \in Bytes : R[s \o q] = {<<r[1], r[2] \o q>>}
  PROVE  Reader(R, V)
BY DEF Reader

LEMMA ThenOne ==
  ASSUME NEW First, NEW Second, NEW s \in Bytes, NEW a, NEW b,
         First[s] = {a}, Second[a[2]] = {b}
  PROVE  Then(First, Second)[s] = {<< <<a[1], b[1]>>, b[2]>>}
<1>1. Then(First, Second)[s]
        = UNION {{<< <<c[1], d[1]>>, d[2]>> : d \in Second[c[2]]} : c \in First[s]}
  BY DEF Then
<1> QED BY <1>1

LEMMA ThenReader ==
  ASSUME NEW U, NEW V, NEW First, NEW Second, Reader(First, U), Reader(Second, V)
  PROVE  Reader(Then(First, Second), U \X V)
<1> DEFINE R == Then(First, Second)
<1>1. ASSUME NEW s \in Bytes
      PROVE  R[s] = UNION {{<< <<a[1], b[1]>>, b[2]>> : b \in Second[a[2]]} : a \in First[s]}
  BY DEF Then
<1>2. ASSUME NEW s \in Bytes, NEW r \in R[s]
      PROVE  \E a \in First[s] : \E b \in Second[a[2]] : r = << <<a[1], b[1]>>, b[2]>>
  BY <1>1
<1>3. ASSUME NEW s \in Bytes, NEW a \in First[s], NEW b \in Second[a[2]],
             First[s] = {a}, Second[a[2]] = {b}
      PROVE  R[s] = {<< <<a[1], b[1]>>, b[2]>>}
  BY <1>1, <1>3
<1>4. R = [s \in Bytes |-> R[s]]
  BY DEF Then
<1> HIDE DEF R
<1>5. ASSUME NEW s \in Bytes, NEW r \in R[s]
      PROVE  /\ r \in (U \X V) \X Bytes
             /\ Len(r[2]) <= Len(s)
             /\ \A q \in Bytes : R[s \o q] = {<<r[1], r[2] \o q>>}
  <2>1. PICK a \in First[s] : \E b \in Second[a[2]] : r = << <<a[1], b[1]>>, b[2]>>
    BY <1>2
  <2>2. PICK b \in Second[a[2]] : r = << <<a[1], b[1]>>, b[2]>>
    BY <2>1
  <2>3. /\ a[1] \in U /\ a[2] \in Bytes /\ Len(a[2]) <= Len(s)
        /\ \A q \in Bytes : First[s \o q] = {<<a[1], a[2] \o q>>}
    BY ReaderOne
  <2>4. /\ b[1] \in V /\ b[2] \in Bytes /\ Len(b[2]) <= Len(a[2])
        /\ \A q \in Bytes : Second[a[2] \o q] = {<<b[1], b[2] \o q>>}
    <3> DEFINE t == a[2]
    <3>1. t \in Bytes /\ b \in Second[t]
      BY <2>3
    <3> HIDE DEF t
    <3>2. /\ b[1] \in V /\ b[2] \in Bytes /\ Len(b[2]) <= Len(t)
          /\ \A q \in Bytes : Second[t \o q] = {<<b[1], b[2] \o q>>}
      BY <3>1, ReaderOne
    <3> QED BY <3>2 DEF t
  <2>5. Len(b[2]) <= Len(s)
    <3>1. Len(s) \in Nat /\ Len(a[2]) \in Nat /\ Len(b[2]) \in Nat
      BY <2>3, <2>4, LenProperties DEF Bytes
    <3> QED BY <2>3, <2>4, <3>1
  <2>6. ASSUME NEW q \in Bytes PROVE R[s \o q] = {<< <<a[1], b[1]>>, b[2] \o q>>}
    <3> DEFINE x == s \o q
               c == <<a[1], a[2] \o q>>
               d == <<b[1], b[2] \o q>>
    <3>1. x \in Bytes
      BY ConcatBytes
    <3>2. First[x] = {c} /\ Second[c[2]] = {d}
      BY <2>3, <2>4
    <3>3. << <<c[1], d[1]>>, d[2]>> = << <<a[1], b[1]>>, b[2] \o q>>
      OBVIOUS
    <3> HIDE DEF x, c, d
    <3>4. R[x] = {<< <<c[1], d[1]>>, d[2]>>}
      BY <1>3, <3>1, <3>2
    <3> QED BY <3>3, <3>4 DEF x
  <2>7. r[1] = <<a[1], b[1]>> /\ r[2] = b[2]
    BY <2>2
  <2> QED BY <2>2, <2>3, <2>4, <2>5, <2>6, <2>7
<1>6. R \in [Bytes -> SUBSET ((U \X V) \X Bytes)]
  BY <1>4, <1>5
<1>7. Reader(R, U \X V)
  <2> DEFINE W == U \X V
  <2>1. R \in [Bytes -> SUBSET (W \X Bytes)]
    BY <1>6
  <2> HIDE DEF W
  <2>2. Reader(R, W)
    BY <1>5, <2>1, IsReader
  <2> QED BY <2>2 DEF W
<1> QED BY <1>7 DEF R

LEMMA ThenReads ==
  ASSUME NEW U, NEW V, NEW First, NEW Second, Reader(First, U), Reader(Second, V),
         NEW w, NEW u, Reads(First, w, u), NEW x, NEW v, Reads(Second, x, v)
  PROVE  Reads(Then(First, Second), w \o x, <<u, v>>)
<1>1. w \in Bytes /\ x \in Bytes /\ w \o x \in Bytes
  BY ConcatBytes DEF Reads
<1> DEFINE t == w \o x
           a == <<u, x>>
           b == <<v, << >>>>
<1>2. t \in Bytes /\ First[t] = {a}
  BY <1>1, ReadsInFront
<1>3. Second[a[2]] = {b}
  BY DEF Reads
<1>4. << <<a[1], b[1]>>, b[2]>> = << <<u, v>>, << >>>>
  OBVIOUS
<1> HIDE DEF a, b, t
<1>5. Then(First, Second)[t] = {<< <<a[1], b[1]>>, b[2]>>}
  BY <1>2, <1>3, ThenOne
<1> QED BY <1>1, <1>4, <1>5 DEF Reads, t

\* Another form of what is read.
As(form, R) == [s \in Bytes |-> {<<form[l[1]], l[2]>> : l \in R[s]}]

LEMMA AsReader ==
  ASSUME NEW U, NEW V, NEW form \in [U -> V], NEW R, Reader(R, U)
  PROVE  Reader(As(form, R), V)
<1> DEFINE A == As(form, R)
<1>1. ASSUME NEW s \in Bytes PROVE A[s] = {<<form[l[1]], l[2]>> : l \in R[s]}
  BY DEF As
<1>2. A = [s \in Bytes |-> A[s]]
  BY DEF As
<1> HIDE DEF A
<1>3. ASSUME NEW s \in Bytes, NEW r \in A[s]
      PROVE  /\ r \in V \X Bytes
             /\ Len(r[2]) <= Len(s)
             /\ \A q \in Bytes : A[s \o q] = {<<r[1], r[2] \o q>>}
  <2>1. PICK l \in R[s] : r = <<form[l[1]], l[2]>>
    BY <1>1
  <2>2. /\ l[1] \in U /\ l[2] \in Bytes /\ Len(l[2]) <= Len(s)
        /\ \A q \in Bytes : R[s \o q] = {<<l[1], l[2] \o q>>}
    BY ReaderOne
  <2>3. ASSUME NEW q \in Bytes PROVE A[s \o q] = {<<form[l[1]], l[2] \o q>>}
    <3> DEFINE x == s \o q
               k == <<l[1], l[2] \o q>>
    <3>1. x \in Bytes /\ R[x] = {k}
      BY <2>2, ConcatBytes
    <3>2. <<form[k[1]], k[2]>> = <<form[l[1]], l[2] \o q>>
      OBVIOUS
    <3> HIDE DEF x, k
    <3>3. A[x] = {<<form[k[1]], k[2]>>}
      BY <1>1, <3>1
    <3> QED BY <3>2, <3>3 DEF x
  <2>4. r[1] = form[l[1]] /\ r[2] = l[2]
    BY <2>1
  <2> QED BY <2>1, <2>2, <2>3, <2>4
<1>4. Reader(A, V)
  <2>1. A \in [Bytes -> SUBSET (V \X Bytes)]
    BY <1>2, <1>3
  <2> QED BY <1>3, <2>1, IsReader
<1> QED BY <1>4 DEF A

LEMMA AsReads ==
  ASSUME NEW form, NEW R, NEW w, NEW u, Reads(R, w, u)
  PROVE  Reads(As(form, R), w, form[u])
<1>1. w \in Bytes /\ R[w] = {<<u, << >>>>}
  BY DEF Reads
<1>2. As(form, R)[w] = {<<form[l[1]], l[2]>> : l \in R[w]}
  BY <1>1 DEF As
<1>3. As(form, R)[w] = {<<form[u], << >>>>}
  BY <1>1, <1>2
<1> QED BY <1>1, <1>3 DEF Reads

-----------------------------------------------------------------------------
(***************************************************************************)
(* Numbers.                                                                *)
(***************************************************************************)

LEMMA DivMod ==
  ASSUME NEW v \in Nat, NEW d \in Nat, d > 1
  PROVE  /\ v \div d \in Nat /\ v % d \in 0 .. d - 1
         /\ v = d * (v \div d) + (v % d)
         /\ v >= d => v \div d < v
<1>1. v \div d \in Int /\ v % d \in 0 .. d - 1 /\ v = d * (v \div d) + (v % d)
  OBVIOUS
<1>2. v \div d >= 0
  OBVIOUS
<1>3. v >= d => v \div d < v
  OBVIOUS
<1> QED BY <1>1, <1>2, <1>3

LEMMA WriteVarintValue ==
  ASSUME NEW v \in Nat
  PROVE  /\ WriteVarint(v) \in Bytes
         /\ WriteVarint(v) = IF v >= 128 THEN <<(v % 128) + 128>> \o WriteVarint(v \div 128)
                             ELSE <<v>>
<1> DEFINE bytes[n \in Nat] == IF n >= 128 THEN <<(n % 128) + 128>> \o bytes[n \div 128] ELSE <<n>>
           body(f) == [n \in Nat |-> IF n >= 128 THEN <<(n % 128) + 128>> \o f[n \div 128] ELSE <<n>>]
           size == [n \in Nat |-> n]
           start == [n \in Nat |-> IF n < 128 THEN <<n>> ELSE << >>]
           next == [n \in Nat |-> n \div 128]
           step == [d \in Nat \X Bytes |-> <<(d[1] % 128) + 128>> \o d[2]]
           Stop == 0 .. 127
<1>1. \A n \in Nat : WriteVarint(n) = bytes[n]
  BY DEF WriteVarint
<1>2. size \in [Nat -> Nat] /\ start \in [Nat -> Bytes] /\ next \in [Nat -> Nat]
  <2>1. << >> \in Bytes /\ \A n \in Nat : n < 128 => <<n>> \in Bytes
    BY DEF Bytes, Byte
  <2>2. \A n \in Nat : n \div 128 \in Nat
    BY DivMod
  <2> QED BY <2>1, <2>2
<1>3. step \in [Nat \X Bytes -> Bytes]
  <2> SUFFICES ASSUME NEW d \in Nat \X Bytes PROVE <<(d[1] % 128) + 128>> \o d[2] \in Bytes
    OBVIOUS
  <2>1. d[1] \in Nat /\ d[2] \in Bytes /\ d[1] % 128 \in 0 .. 127
    OBVIOUS
  <2>2. (d[1] % 128) + 128 \in Byte
    BY <2>1 DEF Byte
  <2>3. <<(d[1] % 128) + 128>> \in Bytes
    BY <2>2 DEF Bytes
  <2> QED BY <2>1, <2>3, ConcatBytes
<1>4. \A n \in Nat : n \notin Stop => size[next[n]] < size[n]
  <2> SUFFICES ASSUME NEW n \in Nat, n >= 128 PROVE size[next[n]] < size[n]
    OBVIOUS
  <2>1. n \div 128 \in Nat /\ n \div 128 < n
    BY DivMod
  <2> QED BY <2>1
<1>5. \E f \in [Nat -> Bytes] :
        \A n \in Nat : f[n] = IF n \in Stop THEN start[n] ELSE step[<<n, f[next[n]]>>]
  <2> DEFINE D == Nat
  <2> HIDE DEF size, start, next, step, Stop
  <2>1. Descends(D, Bytes, size, Stop, start, next, step)
    BY <1>2, <1>3, <1>4 DEF Descends
  <2> HIDE DEF size, start, next, step, Stop, D
  <2>2. \E f \in [D -> Bytes] :
          \A n \in D : f[n] = IF n \in Stop THEN start[n] ELSE step[<<n, f[next[n]]>>]
    BY <2>1, Recursion
  <2> QED BY <2>2 DEF D
<1>6. PICK f \in [Nat -> Bytes] :
        \A n \in Nat : f[n] = IF n \in Stop THEN start[n] ELSE step[<<n, f[next[n]]>>]
  BY <1>5
<1>7. ASSUME NEW n \in Nat
      PROVE  f[n] = IF n >= 128 THEN <<(n % 128) + 128>> \o f[n \div 128] ELSE <<n>>
  <2>1. CASE n >= 128
    <3>1. n \notin Stop /\ next[n] = n \div 128 /\ n \div 128 \in Nat
      BY <2>1, DivMod
    <3>2. f[n \div 128] \in Bytes
      BY <3>1
    <3> DEFINE d == <<n, f[n \div 128]>>
    <3>3. f[n] = step[d] /\ d \in Nat \X Bytes
      <4> HIDE DEF step, start, Stop, next
      <4> QED BY <1>6, <3>1, <3>2
    <3> QED BY <2>1, <3>3
  <2>2. CASE n < 128
    <3>1. n \in Stop /\ start[n] = <<n>>
      BY <2>2
    <3>2. f[n] = <<n>>
      <4> HIDE DEF step, start, Stop, next
      <4> QED BY <1>6, <3>1
    <3> QED BY <2>2, <3>2
  <2> QED BY <2>1, <2>2
<1>8. f = body(f)
  <2> HIDE DEF step, start, Stop, next
  <2> QED BY <1>7
<1>9. bytes = body(bytes)
  <2>1. bytes = CHOOSE g : g = body(g)
    OBVIOUS
  <2> HIDE DEF body, bytes
  <2> QED BY <1>8, <2>1
<1>10. \A n \in Nat : bytes[n] = f[n]
  <2> DEFINE T == {n \in Nat : bytes[n] = f[n]}
  <2>1. ASSUME NEW n \in Nat, \A m \in Nat : size[m] < size[n] => m \in T
        PROVE  n \in T
    <3>1. bytes[n] = IF n >= 128 THEN <<(n % 128) + 128>> \o bytes[n \div 128] ELSE <<n>>
      <4> HIDE DEF bytes
      <4> QED BY <1>9
    <3>2. n >= 128 => n \div 128 \in Nat /\ size[n \div 128] < size[n]
      BY <1>4
    <3>3. n >= 128 => bytes[n \div 128] = f[n \div 128]
      BY <2>1, <3>2
    <3> HIDE DEF bytes
    <3> QED BY <1>7, <3>1, <3>3
  <2>2. Nat \subseteq T
    <3> DEFINE D == Nat
    <3>1. /\ size \in [D -> Nat]
          /\ \A n \in D : (\A m \in D : size[m] < size[n] => m \in T) => n \in T
      BY <1>2, <2>1
    <3> HIDE DEF T, size, D
    <3>2. D \subseteq T
      BY <3>1, SizeInduction
    <3> QED BY <3>2 DEF D
  <2> QED BY <2>2
<1>11. v >= 128 => v \div 128 \in Nat
  BY DivMod
<1> HIDE DEF bytes, body, step, start, Stop, next, size
<1> QED BY <1>1, <1>7, <1>10, <1>11, ZenonT(60)

LEMMA ReadVarintValue ==
  /\ ReadVarint \in [Bytes -> SUBSET (Nat \X Bytes)]
  /\ \A s \in Bytes :
       ReadVarint[s] =
         IF s = << >> THEN {}
         ELSE IF Head(s) < 128 THEN {<<Head(s), Tail(s)>>}
         ELSE {<<(Head(s) % 128) + 128 * high[1], high[2]>> : high \in ReadVarint[Tail(s)]}
<1> DEFINE S == SUBSET (Nat \X Bytes)
           body(f) ==
             [s \in Bytes |->
                IF s = << >> THEN {}
                ELSE IF Head(s) < 128 THEN {<<Head(s), Tail(s)>>}
                ELSE {<<(Head(s) % 128) + 128 * high[1], high[2]>> : high \in f[Tail(s)]}]
           Stop == {s \in Bytes : s = << >> \/ Head(s) < 128}
           size == [s \in Bytes |-> Len(s)]
           start == [s \in Bytes |-> IF s = << >> THEN {} ELSE {<<Head(s), Tail(s)>>}]
           next == [s \in Bytes |-> IF s = << >> THEN << >> ELSE Tail(s)]
           step == [d \in Bytes \X S |->
                      IF d[1] = << >> THEN {}
                      ELSE {<<(Head(d[1]) % 128) + 128 * high[1], high[2]>> : high \in d[2]}]
<1>1. ASSUME NEW s \in Bytes, s # << >>
      PROVE  Head(s) \in Nat /\ Tail(s) \in Bytes /\ Len(Tail(s)) = Len(s) - 1 /\ Len(s) \in Nat
  <2>1. Head(s) \in Byte /\ Tail(s) \in Bytes /\ Len(Tail(s)) = Len(s) - 1 /\ Len(s) \in Nat
    BY <1>1, HeadTail, LenProperties DEF Bytes
  <2>2. Byte \subseteq Nat
    BY DEF Byte
  <2> QED BY <2>1, <2>2
<1>2. size \in [Bytes -> Nat]
  BY LenProperties DEF Bytes
<1>3. start \in [Bytes -> S] /\ next \in [Bytes -> Bytes]
  <2>1. << >> \in Bytes
    BY DEF Bytes
  <2>2. \A s \in Bytes : (IF s = << >> THEN {} ELSE {<<Head(s), Tail(s)>>}) \in S
    <3> SUFFICES ASSUME NEW s \in Bytes, s # << >> PROVE <<Head(s), Tail(s)>> \in Nat \X Bytes
      OBVIOUS
    <3> QED BY <1>1
  <2>3. \A s \in Bytes : (IF s = << >> THEN << >> ELSE Tail(s)) \in Bytes
    BY <1>1, <2>1
  <2> QED BY <2>2, <2>3
<1>4. step \in [Bytes \X S -> S]
  <2> SUFFICES ASSUME NEW d \in Bytes \X S, d[1] # << >>, NEW high \in d[2]
               PROVE  <<(Head(d[1]) % 128) + 128 * high[1], high[2]>> \in Nat \X Bytes
    OBVIOUS
  <2>1. high \in Nat \X Bytes /\ d[1] \in Bytes
    OBVIOUS
  <2>2. Head(d[1]) \in Nat
    BY <1>1, <2>1
  <2>3. Head(d[1]) % 128 \in Nat /\ high[1] \in Nat
    BY <2>1, <2>2
  <2>4. (Head(d[1]) % 128) + 128 * high[1] \in Nat
    BY <2>3
  <2> QED BY <2>1, <2>4
<1>5. \A s \in Bytes : s \notin Stop => size[next[s]] < size[s]
  <2> SUFFICES ASSUME NEW s \in Bytes, s # << >> PROVE size[next[s]] < size[s]
    OBVIOUS
  <2>1. Tail(s) \in Bytes /\ Len(Tail(s)) = Len(s) - 1 /\ Len(s) \in Nat
    BY <1>1
  <2> QED BY <2>1
<1>6. \E f \in [Bytes -> S] :
        \A s \in Bytes : f[s] = IF s \in Stop THEN start[s] ELSE step[<<s, f[next[s]]>>]
  <2> HIDE DEF size, start, next, step, Stop, S
  <2>1. Descends(Bytes, S, size, Stop, start, next, step)
    BY <1>2, <1>3, <1>4, <1>5 DEF Descends
  <2> QED BY <2>1, Recursion
<1>7. PICK f \in [Bytes -> S] :
        \A s \in Bytes : f[s] = IF s \in Stop THEN start[s] ELSE step[<<s, f[next[s]]>>]
  BY <1>6
<1>8. ASSUME NEW s \in Bytes PROVE f[s] = body(f)[s]
  <2>1. CASE s \in Stop
    <3>1. f[s] = start[s]
      <4> HIDE DEF step, start, Stop, next
      <4> QED BY <1>7, <2>1
    <3> QED BY <2>1, <3>1
  <2>2. CASE s \notin Stop
    <3>1. s # << >> /\ ~(Head(s) < 128) /\ next[s] = Tail(s) /\ Tail(s) \in Bytes
      BY <1>1, <2>2
    <3> DEFINE d == <<s, f[Tail(s)]>>
    <3>2. f[s] = step[d] /\ d \in Bytes \X S
      <4> HIDE DEF step, start, Stop, next
      <4> QED BY <1>7, <2>2, <3>1
    <3>3. d[1] = s /\ d[2] = f[Tail(s)]
      OBVIOUS
    <3> HIDE DEF d
    <3> QED BY <3>1, <3>2, <3>3
  <2> QED BY <2>1, <2>2
<1>9. f = body(f)
  <2>1. body(f) = [s \in Bytes |-> body(f)[s]] /\ f = [s \in Bytes |-> f[s]]
    OBVIOUS
  <2> HIDE DEF body
  <2> QED BY <1>8, <2>1
<1>10. ReadVarint = body(ReadVarint)
  <2>1. ReadVarint = CHOOSE g : g = body(g)
    BY DEF ReadVarint
  <2> HIDE DEF body
  <2> QED BY <1>9, <2>1
<1>11. \A s \in Bytes : ReadVarint[s] = f[s]
  <2> DEFINE T == {s \in Bytes : ReadVarint[s] = f[s]}
  <2>1. ASSUME NEW s \in Bytes, \A t \in Bytes : size[t] < size[s] => t \in T
        PROVE  s \in T
    <3>1. ReadVarint[s] = body(ReadVarint)[s]
      <4> HIDE DEF body
      <4> QED BY <1>10
    <3>2. f[s] = body(f)[s]
      BY <1>8
    <3>3. CASE s = << >> \/ Head(s) < 128
      BY <3>1, <3>2, <3>3
    <3>4. CASE s # << >> /\ ~(Head(s) < 128)
      <4>1. Tail(s) \in Bytes /\ size[Tail(s)] < size[s]
        BY <1>1, <3>4
      <4>2. ReadVarint[Tail(s)] = f[Tail(s)]
        BY <2>1, <4>1
      <4> QED BY <3>1, <3>2, <3>4, <4>2
    <3> QED BY <3>3, <3>4
  <2>2. Bytes \subseteq T
    <3> HIDE DEF T, size
    <3> QED BY <1>2, <2>1, SizeInduction
  <2> QED BY <2>2
<1>12. ReadVarint = f
  <2>1. ReadVarint = [s \in Bytes |-> ReadVarint[s]]
    BY <1>10
  <2> HIDE DEF body
  <2> QED BY <1>11, <2>1
<1>13. \A s \in Bytes : f[s] = body(f)[s]
  BY <1>8
<1> QED BY <1>12, <1>13

LEMMA VarintReader == Reader(ReadVarint, Nat)
<1> DEFINE size == [s \in Bytes |-> Len(s)]
           Good(s) == \A r \in ReadVarint[s] :
                        /\ Len(r[2]) <= Len(s)
                        /\ \A q \in Bytes : ReadVarint[s \o q] = {<<r[1], r[2] \o q>>}
           T == {s \in Bytes : Good(s)}
<1>1. size \in [Bytes -> Nat]
  BY LenProperties DEF Bytes
<1>2. ASSUME NEW s \in Bytes, \A t \in Bytes : size[t] < size[s] => t \in T
      PROVE  Good(s)
  <2>1. CASE s = << >>
    <3>1. ReadVarint[s] = {}
      BY <2>1, ReadVarintValue
    <3> QED BY <3>1
  <2>2. CASE s # << >>
    <3> DEFINE h == Head(s)
               t == Tail(s)
    <3>1. t \in Bytes /\ Len(t) = Len(s) - 1 /\ Len(s) \in Nat /\ size[t] < size[s]
      BY <2>2, HeadTail, LenProperties DEF Bytes
    <3>2. ASSUME NEW q \in Bytes
          PROVE  s \o q \in Bytes /\ s \o q # << >> /\ Head(s \o q) = h /\ Tail(s \o q) = t \o q
      BY <2>2, HeadTailConcat
    <3>3. CASE h < 128
      <4>1. ReadVarint[s] = {<<h, t>>}
        BY <2>2, <3>3, ReadVarintValue
      <4>2. ASSUME NEW q \in Bytes PROVE ReadVarint[s \o q] = {<<h, t \o q>>}
        BY <3>2, <3>3, ReadVarintValue
      <4>3. Len(t) <= Len(s)
        BY <3>1
      <4> HIDE DEF h, t
      <4> QED BY <4>1, <4>2, <4>3
    <3>4. CASE ~(h < 128)
      <4> DEFINE Value(x) == (h % 128) + 128 * x
      <4>1. ReadVarint[s] = {<<Value(high[1]), high[2]>> : high \in ReadVarint[t]}
        BY <2>2, <3>4, ReadVarintValue
      <4>2. ASSUME NEW q \in Bytes
            PROVE  ReadVarint[s \o q] = {<<Value(high[1]), high[2]>> : high \in ReadVarint[t \o q]}
        <5> DEFINE x == s \o q
        <5>1. x \in Bytes /\ x # << >> /\ Head(x) = h /\ Tail(x) = t \o q
          BY <3>2
        <5> HIDE DEF x
        <5>2. ReadVarint[x] = {<<(Head(x) % 128) + 128 * high[1], high[2]>> : high \in ReadVarint[Tail(x)]}
          <6> HIDE DEF h, t
          <6> QED BY <3>4, <5>1, ReadVarintValue
        <5>3. ReadVarint[x] = {<<Value(high[1]), high[2]>> : high \in ReadVarint[t \o q]}
          <6> HIDE DEF h, t
          <6> QED BY <5>1, <5>2
        <5> QED BY <5>3 DEF x
      <4>3. Good(t)
        BY <1>2, <3>1
      <4> HIDE DEF h, t, Value
      <4>4. ASSUME NEW r \in ReadVarint[s]
            PROVE  /\ Len(r[2]) <= Len(s)
                   /\ \A q \in Bytes : ReadVarint[s \o q] = {<<r[1], r[2] \o q>>}
        <5>1. PICK high \in ReadVarint[t] : r = <<Value(high[1]), high[2]>>
          BY <4>1
        <5>2. Len(high[2]) <= Len(t) /\ \A q \in Bytes : ReadVarint[t \o q] = {<<high[1], high[2] \o q>>}
          BY <4>3
        <5>3. high[2] \in Bytes /\ Len(high[2]) \in Nat
          BY <3>1, ReadVarintValue, LenProperties DEF Bytes
        <5>4. r[1] = Value(high[1]) /\ r[2] = high[2]
          BY <5>1
        <5>5. Len(r[2]) <= Len(s)
          BY <3>1, <5>2, <5>3, <5>4
        <5>6. ASSUME NEW q \in Bytes PROVE ReadVarint[s \o q] = {<<Value(high[1]), high[2] \o q>>}
          <6> DEFINE k == <<high[1], high[2] \o q>>
          <6>1. ReadVarint[t \o q] = {k} /\ k[1] = high[1] /\ k[2] = high[2] \o q
            BY <5>2
          <6> HIDE DEF k
          <6>2. ReadVarint[s \o q] = {<<Value(x[1]), x[2]>> : x \in ReadVarint[t \o q]}
            BY <4>2
          <6>3. ReadVarint[s \o q] = {<<Value(k[1]), k[2]>>}
            BY <6>1, <6>2
          <6> QED BY <6>1, <6>3
        <5> QED BY <5>4, <5>5, <5>6
      <4> QED BY <4>4
    <3> QED BY <3>3, <3>4
  <2> QED BY <2>1, <2>2
<1>3. Bytes \subseteq T
  <2>1. \A s \in Bytes : (\A t \in Bytes : size[t] < size[s] => t \in T) => s \in T
    <3> SUFFICES ASSUME NEW s \in Bytes, \A t \in Bytes : size[t] < size[s] => t \in T
                 PROVE  s \in T
      OBVIOUS
    <3>1. Good(s)
      <4> HIDE DEF Good, T
      <4> QED BY <1>2
    <3> QED BY <3>1
  <2> HIDE DEF T, size
  <2> QED BY <1>1, <2>1, SizeInduction
<1>4. \A s \in Bytes : Good(s)
  BY <1>3
<1> QED BY <1>4, ReadVarintValue DEF Reader

LEMMA VarintReads ==
  ASSUME NEW v \in Nat
  PROVE  Reads(ReadVarint, WriteVarint(v), v)
<1> DEFINE D == Nat
           size == [n \in D |-> n]
           T == {n \in D : Reads(ReadVarint, WriteVarint(n), n)}
<1>1. size \in [D -> Nat]
  OBVIOUS
<1>2. ASSUME NEW n \in D, \A m \in D : size[m] < size[n] => m \in T
      PROVE  Reads(ReadVarint, WriteVarint(n), n)
  <2>0. WriteVarint(n) \in Bytes
    BY WriteVarintValue
  <2>1. CASE n < 128
    <3>1. WriteVarint(n) = <<n>>
      <4>1. n \in Nat /\ ~(n >= 128)
        BY <2>1
      <4> QED BY <4>1, WriteVarintValue
    <3>2. <<n>> # << >> /\ Head(<<n>>) = n /\ Tail(<<n>>) = << >>
      OBVIOUS
    <3>3. ReadVarint[<<n>>] = {<<n, << >>>>}
      BY <2>0, <2>1, <3>1, <3>2, ReadVarintValue
    <3> QED BY <2>0, <3>1, <3>3 DEF Reads
  <2>2. CASE n >= 128
    <3> DEFINE b == (n % 128) + 128
               m == n \div 128
               w == WriteVarint(m)
               x == <<b>> \o w
    <3>1. m \in Nat /\ m < n /\ n = 128 * m + (n % 128) /\ n % 128 \in 0 .. 127
      BY <2>2, DivMod
    <3>2. b \in Byte /\ ~(b < 128) /\ b % 128 = n % 128
      BY <3>1 DEF Byte
    <3>3. Reads(ReadVarint, w, m)
      BY <1>2, <3>1
    <3>4. WriteVarint(n) = x /\ w \in Bytes
      BY <2>2, <3>1, WriteVarintValue
    <3> HIDE DEF w, b, m
    <3>5. x \in Bytes /\ x # << >> /\ Head(x) = b /\ Tail(x) = w
      BY <3>2, <3>4, HeadTailFirst
    <3> HIDE DEF x
    <3>6. ReadVarint[x] = {<<(b % 128) + 128 * high[1], high[2]>> : high \in ReadVarint[w]}
      <4>1. ReadVarint[x] =
              {<<(Head(x) % 128) + 128 * high[1], high[2]>> : high \in ReadVarint[Tail(x)]}
        BY <3>2, <3>5, ReadVarintValue
      <4> QED BY <3>5, <4>1
    <3>7. ReadVarint[w] = {<<m, << >>>>}
      BY <3>3 DEF Reads
    <3>8. ReadVarint[x] = {<<(b % 128) + 128 * m, << >>>>}
      BY <3>6, <3>7
    <3>9. (b % 128) + 128 * m = n
      BY <3>1, <3>2
    <3> QED BY <3>4, <3>5, <3>8, <3>9 DEF Reads
  <2> QED BY <2>1, <2>2
<1>3. D \subseteq T
  <2>1. \A n \in D : (\A m \in D : size[m] < size[n] => m \in T) => n \in T
    BY <1>2
  <2> HIDE DEF T, size, D
  <2> QED BY <1>1, <2>1, SizeInduction
<1> QED BY <1>3

-----------------------------------------------------------------------------
(***************************************************************************)
(* Rows.                                                                   *)
(***************************************************************************)

LEMMA RowReader == Reader(DeserializeRowData, Bytes)
<1> DEFINE R == DeserializeRowData
           Lens(s) == {l \in ReadVarint[s] : l[1] <= Len(l[2])}
<1>1. R = [s \in Bytes |-> {<<SubSeq(l[2], 1, l[1]), After(l[1], l[2])>> : l \in Lens(s)}]
  BY DEF DeserializeRowData
<1> HIDE DEF R
<1>2. ASSUME NEW s \in Bytes, NEW r \in R[s]
      PROVE  /\ r \in Bytes \X Bytes
             /\ Len(r[2]) <= Len(s)
             /\ \A q \in Bytes : R[s \o q] = {<<r[1], r[2] \o q>>}
  <2>1. PICK l \in Lens(s) : r = <<SubSeq(l[2], 1, l[1]), After(l[1], l[2])>>
    BY <1>1
  <2>2. l \in ReadVarint[s] /\ l[1] <= Len(l[2])
    OBVIOUS
  <2>3. /\ l[1] \in Nat /\ l[2] \in Bytes /\ Len(l[2]) <= Len(s)
        /\ \A q \in Bytes : ReadVarint[s \o q] = {<<l[1], l[2] \o q>>}
    BY <2>2, VarintReader, ReaderOne
  <2> DEFINE n == l[1]
             t == l[2]
  <2>4. n \in Nat /\ t \in Bytes /\ n <= Len(t)
    BY <2>2, <2>3
  <2>5. r = <<SubSeq(t, 1, n), After(n, t)>>
    BY <2>1
  <2>6. \A q \in Bytes : ReadVarint[s \o q] = {<<n, t \o q>>}
    BY <2>3
  <2>7. Len(t) <= Len(s)
    BY <2>3
  <2> HIDE DEF n, t
  <2>8. SubSeq(t, 1, n) \in Bytes /\ After(n, t) \in Bytes /\ Len(After(n, t)) = Len(t) - n
    BY <2>4, Split
  <2>9. Len(After(n, t)) <= Len(s)
    <3>1. Len(t) \in Nat /\ Len(s) \in Nat
      BY <2>4, LenProperties DEF Bytes
    <3> QED BY <2>4, <2>7, <2>8, <3>1
  <2>10. ASSUME NEW q \in Bytes PROVE R[s \o q] = {<<SubSeq(t, 1, n), After(n, t) \o q>>}
    <3> DEFINE x == s \o q
               k == <<n, t \o q>>
    <3>1. x \in Bytes /\ ReadVarint[x] = {k}
      BY <2>6, ConcatBytes
    <3>2. k[1] = n /\ k[2] = t \o q /\ k[1] <= Len(k[2])
      <4>1. Len(t \o q) = Len(t) + Len(q) /\ Len(t) \in Nat /\ Len(q) \in Nat
        BY <2>4, ConcatBytes
      <4> QED BY <2>4, <4>1
    <3>3. SubSeq(t \o q, 1, n) = SubSeq(t, 1, n) /\ After(n, t \o q) = After(n, t) \o q
      BY <2>4, SplitConcat
    <3> HIDE DEF x, k
    <3>4. Lens(x) = {k}
      BY <3>1, <3>2
    <3> HIDE DEF Lens
    <3>5. R[x] = {<<SubSeq(k[2], 1, k[1]), After(k[1], k[2])>>}
      BY <1>1, <3>1, <3>4
    <3> QED BY <3>2, <3>3, <3>5 DEF x
  <2>11. r \in Bytes \X Bytes /\ r[1] = SubSeq(t, 1, n) /\ r[2] = After(n, t)
    BY <2>5, <2>8
  <2> QED BY <2>9, <2>10, <2>11
<1>3. R \in [Bytes -> SUBSET (Bytes \X Bytes)]
  <2>1. R = [s \in Bytes |-> R[s]]
    BY <1>1
  <2> QED BY <1>2, <2>1
<1>4. Reader(R, Bytes)
  BY <1>2, <1>3, IsReader
<1> QED BY <1>4 DEF R

LEMMA RowReads ==
  ASSUME NEW x \in Bytes
  PROVE  Reads(DeserializeRowData, SerializeRowData(x), x)
<1> DEFINE n == Len(x)
           w == WriteVarint(n)
           k == <<n, x>>
<1>1. n \in Nat
  BY LenProperties DEF Bytes
<1>2. Reads(ReadVarint, w, n)
  BY <1>1, VarintReads
<1> HIDE DEF w
<1>3. ReadVarint[w \o x] = {k} /\ w \in Bytes
  BY <1>2, VarintReader, ReadsInFront
<1>4. w \o x \in Bytes
  BY <1>3, ConcatBytes
<1>5. k[1] = n /\ k[2] = x /\ k[1] <= Len(k[2])
  BY <1>1
<1>6. SubSeq(x, 1, n) = x /\ After(n, x) = << >>
  <2>1. << >> \in Bytes /\ x \o << >> = x
    BY ConcatBytes
  <2>2. SubSeq(x \o << >>, 1, Len(x)) = x /\ After(Len(x), x \o << >>) = << >>
    BY <2>1, SplitBehind
  <2> QED BY <2>1, <2>2
<1> HIDE DEF n, k
<1>7. DeserializeRowData[w \o x] =
        {<<SubSeq(l[2], 1, l[1]), After(l[1], l[2])>> :
           l \in {m \in ReadVarint[w \o x] : m[1] <= Len(m[2])}}
  BY <1>4 DEF DeserializeRowData
<1>8. {m \in ReadVarint[w \o x] : m[1] <= Len(m[2])} = {k}
  BY <1>3, <1>5
<1>9. DeserializeRowData[w \o x] = {<<SubSeq(k[2], 1, k[1]), After(k[1], k[2])>>}
  BY <1>7, <1>8
<1> QED BY <1>4, <1>5, <1>6, <1>9 DEF Reads, SerializeRowData, w, n

-----------------------------------------------------------------------------
(***************************************************************************)
(* Sequences one after the other.                                          *)
(***************************************************************************)

LEMMA FlattenValue ==
  ASSUME NEW A, NEW ss \in Seq(Seq(A)), ss # << >>
  PROVE  /\ Len(ss) \in Nat \ {0}
         /\ \E f \in [1 .. Len(ss) -> Seq(A)] :
              /\ \A i \in 1 .. Len(ss) : f[i] = IF i = 1 THEN ss[i] ELSE f[i - 1] \o ss[i]
              /\ FlattenSeq(ss) = f[Len(ss)]
<1> DEFINE n == Len(ss)
           D == 1 .. n
           S == Seq(A)
           flatten[i \in 1 .. n] == IF i = 1 THEN ss[i] ELSE flatten[i - 1] \o ss[i]
           body(f) == [i \in 1 .. n |-> IF i = 1 THEN ss[i] ELSE f[i - 1] \o ss[i]]
           step == [d \in D \X S |-> d[2] \o ss[d[1]]]
<1>1. n \in Nat /\ n # 0 /\ \A i \in 1 .. n : ss[i] \in S
  BY LenProperties, EmptySeq, ElementOfSeq
<1> HIDE DEF S
<1>2. FlattenSeq(ss) = flatten[n]
  BY <1>1 DEF FlattenSeq
<1> HIDE DEF n
<1>3. step \in [D \X S -> S]
  <2> SUFFICES ASSUME NEW d \in D \X S PROVE d[2] \o ss[d[1]] \in S
    OBVIOUS
  <2>1. d[2] \in S /\ ss[d[1]] \in S
    BY <1>1
  <2> QED BY <2>1, ConcatProperties DEF S
<1>4. D \subseteq Nat /\ 1 \in Nat /\ (\A i \in D : i # 1 => i - 1 \in D) /\ ss[1] \in S
  BY <1>1
<1>5. \E f \in [D -> S] : \A i \in D : f[i] = IF i = 1 THEN ss[1] ELSE step[<<i, f[i - 1]>>]
  <2> HIDE DEF D, step
  <2>1. Ascends(D, 1, S, ss[1], step)
    BY <1>3, <1>4 DEF Ascends
  <2> QED BY <2>1, UpRecursion
<1>6. PICK f \in [D -> S] : \A i \in D : f[i] = IF i = 1 THEN ss[1] ELSE step[<<i, f[i - 1]>>]
  BY <1>5
<1>7. ASSUME NEW i \in D PROVE f[i] = IF i = 1 THEN ss[i] ELSE f[i - 1] \o ss[i]
  <2>1. CASE i = 1
    BY <1>6, <2>1
  <2>2. CASE i # 1
    <3> DEFINE d == <<i, f[i - 1]>>
    <3>1. d \in D \X S
      BY <1>4, <2>2
    <3>2. f[i] = step[d]
      <4> HIDE DEF step
      <4> QED BY <1>6, <2>2
    <3> QED BY <2>2, <3>1, <3>2
  <2> QED BY <2>1, <2>2
<1>8. f = body(f)
  <2> HIDE DEF step
  <2>1. f = [i \in D |-> f[i]]
    OBVIOUS
  <2> QED BY <1>7, <2>1
<1>9. flatten = body(flatten)
  <2>1. flatten = CHOOSE g : g = body(g)
    OBVIOUS
  <2> HIDE DEF body, flatten
  <2> QED BY <1>8, <2>1
<1>10. ASSUME NEW i \in D PROVE flatten[i] = IF i = 1 THEN ss[i] ELSE flatten[i - 1] \o ss[i]
  <2> HIDE DEF flatten
  <2> QED BY <1>9
<1> HIDE DEF flatten, body
<1>11. \A i \in D : flatten[i] = f[i]
  <2> DEFINE T == {i \in 0 .. n : i = 0 \/ flatten[i] = f[i]}
  <2>1. 0 \in T
    BY <1>1
  <2>2. ASSUME NEW i \in 0 .. n - 1, i \in T PROVE i + 1 \in T
    <3> DEFINE j == i + 1
    <3>1. j \in D /\ j \in 0 .. n /\ (j # 1 => i # 0) /\ j - 1 = i
      BY <1>1
    <3>2. flatten[j] = IF j = 1 THEN ss[j] ELSE flatten[j - 1] \o ss[j]
      BY <1>10, <3>1
    <3>3. f[j] = IF j = 1 THEN ss[j] ELSE f[j - 1] \o ss[j]
      BY <1>7, <3>1
    <3>4. flatten[j] = f[j]
      BY <2>2, <3>1, <3>2, <3>3
    <3> QED BY <3>1, <3>4
  <2>3. 0 .. n \subseteq T
    <3> HIDE DEF T
    <3> QED BY <1>1, <2>1, <2>2, UpTo
  <2> QED BY <1>1, <2>3
<1>12. n \in D
  BY <1>1
<1>13. FlattenSeq(ss) = f[n]
  BY <1>2, <1>11, <1>12
<1>14. f \in [1 .. n -> Seq(A)] /\ \A i \in 1 .. n : f[i] = IF i = 1 THEN ss[i] ELSE f[i - 1] \o ss[i]
  BY <1>7 DEF S
<1> QED BY <1>1, <1>13, <1>14 DEF n

LEMMA FlattenEmpty == FlattenSeq(<< >>) = << >>
BY DEF FlattenSeq

LEMMA FlattenType ==
  ASSUME NEW A, NEW ss \in Seq(Seq(A))
  PROVE  FlattenSeq(ss) \in Seq(A)
<1>1. CASE ss = << >>
  <2>1. << >> \in Seq(A)
    OBVIOUS
  <2> QED BY <1>1, <2>1, FlattenEmpty
<1>2. CASE ss # << >>
  <2>1. Len(ss) \in Nat \ {0}
    BY <1>2, FlattenValue
  <2>2. PICK f \in [1 .. Len(ss) -> Seq(A)] : FlattenSeq(ss) = f[Len(ss)]
    BY <1>2, FlattenValue
  <2> DEFINE n == Len(ss)
  <2>3. n \in 1 .. n
    BY <2>1
  <2> HIDE DEF n
  <2>4. f[n] \in Seq(A)
    BY <2>2, <2>3 DEF n
  <2> QED BY <2>2, <2>4 DEF n
<1> QED BY <1>1, <1>2

LEMMA FlattenAppend ==
  ASSUME NEW A, NEW ss \in Seq(Seq(A)), NEW w \in Seq(A)
  PROVE  FlattenSeq(Append(ss, w)) = FlattenSeq(ss) \o w
<1> DEFINE tt == Append(ss, w)
           n == Len(ss)
<1>1. /\ tt \in Seq(Seq(A)) /\ tt # << >> /\ Len(tt) = n + 1 /\ tt[n + 1] = w
      /\ \A i \in 1 .. n : tt[i] = ss[i]
  BY AppendProperties
<1>2. n \in Nat
  BY LenProperties
<1> HIDE DEF tt
<1>3. PICK f \in [1 .. Len(tt) -> Seq(A)] :
        /\ \A i \in 1 .. Len(tt) : f[i] = IF i = 1 THEN tt[i] ELSE f[i - 1] \o tt[i]
        /\ FlattenSeq(tt) = f[Len(tt)]
  BY <1>1, FlattenValue
<1>4. CASE ss = << >>
  <2>1. n = 0
    BY <1>4
  <2>2. FlattenSeq(tt) = w
    BY <1>1, <1>3, <2>1
  <2>3. << >> \o w = w
    BY ConcatEmptySeq
  <2> QED BY <1>4, <2>2, <2>3, FlattenEmpty DEF tt
<1>5. CASE ss # << >>
  <2>1. n \in Nat \ {0}
    BY <1>5, FlattenValue
  <2>2. PICK g \in [1 .. n -> Seq(A)] :
          /\ \A i \in 1 .. n : g[i] = IF i = 1 THEN ss[i] ELSE g[i - 1] \o ss[i]
          /\ FlattenSeq(ss) = g[n]
    BY <1>5, FlattenValue
  <2> DEFINE T == {i \in 0 .. n : i = 0 \/ f[i] = g[i]}
  <2>3. 0 \in T
    BY <2>1
  <2>4. ASSUME NEW i \in 0 .. n - 1, i \in T PROVE i + 1 \in T
    <3> DEFINE j == i + 1
    <3>1. /\ j \in 1 .. n /\ j \in 1 .. Len(tt) /\ j \in 0 .. n
          /\ (j # 1 => i # 0) /\ j - 1 = i /\ tt[j] = ss[j]
      BY <1>1, <2>1
    <3>2. f[j] = IF j = 1 THEN tt[j] ELSE f[j - 1] \o tt[j]
      BY <1>3, <3>1
    <3>3. g[j] = IF j = 1 THEN ss[j] ELSE g[j - 1] \o ss[j]
      BY <2>2, <3>1
    <3>4. f[j] = g[j]
      BY <2>4, <3>1, <3>2, <3>3
    <3> QED BY <3>1, <3>4
  <2>5. 0 .. n \subseteq T
    <3> HIDE DEF T
    <3> QED BY <2>1, <2>3, <2>4, UpTo
  <2>6. f[n] = g[n]
    BY <2>1, <2>5
  <2> DEFINE m == n + 1
  <2>7. m \in 1 .. Len(tt) /\ m # 1 /\ m - 1 = n /\ m = Len(tt) /\ tt[m] = w
    BY <1>1, <2>1
  <2> HIDE DEF m
  <2>8. f[m] = f[m - 1] \o tt[m]
    BY <1>3, <2>7
  <2>9. FlattenSeq(tt) = FlattenSeq(ss) \o w
    BY <1>3, <2>2, <2>6, <2>7, <2>8
  <2> QED BY <2>9 DEF tt
<1> QED BY <1>4, <1>5

-----------------------------------------------------------------------------
(***************************************************************************)
(* Lists.                                                                  *)
(***************************************************************************)

\* One item more.
MoreOf(Read, x) ==
  UNION {{<<Append(r[1], item[1]), item[2]>> : item \in Read[r[2]]} : r \in x}

LEMMA ReadItemsValue ==
  ASSUME NEW V, NEW Read, Reader(Read, V), NEW s \in Bytes
  PROVE  /\ ReadItems(Read, 0, s) = {<< << >>, s>>}
         /\ \A n \in Nat : ReadItems(Read, n + 1, s) = MoreOf(Read, ReadItems(Read, n, s))
<1> DEFINE More(x) == MoreOf(Read, x)
           reads[n \in Nat] == IF n = 0 THEN {<< << >>, s>>} ELSE More(reads[n - 1])
           body(f) == [n \in Nat |-> IF n = 0 THEN {<< << >>, s>>} ELSE More(f[n - 1])]
           S == SUBSET (Seq(V) \X Bytes)
           start == {<< << >>, s>>}
           step == [d \in Nat \X S |-> More(d[2])]
<1>1. \A n \in Nat : ReadItems(Read, n, s) = reads[n]
  BY DEF ReadItems, MoreOf
<1>2. ASSUME NEW x \in S PROVE More(x) \in S
  <2> USE DEF MoreOf
  <2> SUFFICES ASSUME NEW r \in x, NEW item \in Read[r[2]]
               PROVE  <<Append(r[1], item[1]), item[2]>> \in Seq(V) \X Bytes
    OBVIOUS
  <2>1. r[1] \in Seq(V) /\ r[2] \in Bytes
    OBVIOUS
  <2>2. item \in V \X Bytes
    BY <2>1 DEF Reader
  <2>3. Append(r[1], item[1]) \in Seq(V)
    BY <2>1, <2>2, AppendProperties
  <2> QED BY <2>2, <2>3
<1>3. step \in [Nat \X S -> S]
  <2> HIDE DEF More, S
  <2> QED BY <1>2
<1>4. start \in S
  <2> DEFINE e == << >>
  <2>1. e \in Seq(V)
    OBVIOUS
  <2> HIDE DEF e
  <2>2. <<e, s>> \in Seq(V) \X Bytes
    BY <2>1
  <2> QED BY <2>2 DEF e
<1>5. \E f \in [Nat -> S] : \A n \in Nat : f[n] = IF n = 0 THEN start ELSE step[<<n, f[n - 1]>>]
  <2> DEFINE D == Nat
  <2> HIDE DEF S, start, step
  <2>1. Ascends(D, 0, S, start, step)
    BY <1>3, <1>4 DEF Ascends
  <2> HIDE DEF D
  <2>2. \E f \in [D -> S] : \A n \in D : f[n] = IF n = 0 THEN start ELSE step[<<n, f[n - 1]>>]
    BY <2>1, UpRecursion
  <2> QED BY <2>2 DEF D
<1>6. PICK f \in [Nat -> S] : \A n \in Nat : f[n] = IF n = 0 THEN start ELSE step[<<n, f[n - 1]>>]
  BY <1>5
<1>7. ASSUME NEW n \in Nat PROVE f[n] = IF n = 0 THEN start ELSE More(f[n - 1])
  <2>1. CASE n = 0
    BY <1>6, <2>1
  <2>2. CASE n # 0
    <3> DEFINE d == <<n, f[n - 1]>>
    <3>1. n - 1 \in Nat /\ f[n - 1] \in S
      BY <2>2
    <3>2. f[n] = step[d]
      <4> HIDE DEF step
      <4> QED BY <1>6, <2>2
    <3>3. d \in Nat \X S /\ d[2] = f[n - 1]
      <4> HIDE DEF S
      <4> QED BY <3>1
    <3> HIDE DEF More, S, d
    <3> QED BY <2>2, <3>2, <3>3
  <2> QED BY <2>1, <2>2
<1>8. f = body(f)
  <2> HIDE DEF step, More
  <2>1. f = [n \in Nat |-> f[n]]
    OBVIOUS
  <2> QED BY <1>7, <2>1
<1>9. reads = body(reads)
  <2>1. reads = CHOOSE g : g = body(g)
    OBVIOUS
  <2> HIDE DEF body, reads
  <2> QED BY <1>8, <2>1
<1>10. reads[0] = start
  <2> HIDE DEF reads, More
  <2> QED BY <1>9
<1>11. ASSUME NEW n \in Nat PROVE reads[n + 1] = More(reads[n])
  <2> DEFINE m == n + 1
  <2>1. m \in Nat /\ m # 0 /\ m - 1 = n
    OBVIOUS
  <2> HIDE DEF reads, More, m
  <2>2. reads[m] = More(reads[m - 1])
    BY <1>9, <2>1
  <2> QED BY <2>1, <2>2 DEF m
<1>12. ReadItems(Read, 0, s) = start
  BY <1>1, <1>10
<1>13. ASSUME NEW n \in Nat
       PROVE  ReadItems(Read, n + 1, s) = More(ReadItems(Read, n, s))
  <2>1. n + 1 \in Nat
    OBVIOUS
  <2>2. ReadItems(Read, n + 1, s) = reads[n + 1] /\ ReadItems(Read, n, s) = reads[n]
    <3> HIDE DEF reads, More
    <3> QED BY <1>1, <2>1
  <2> HIDE DEF reads, More
  <2> QED BY <1>11, <2>2
<1> HIDE DEF reads, body, step
<1> QED BY <1>12, <1>13

\* The first n items of a list.
Items(Read, n) == [s \in Bytes |-> ReadItems(Read, n, s)]

AppendOf(V) == [u \in Seq(V) \X V |-> Append(u[1], u[2])]

LEMMA MoreItems ==
  ASSUME NEW V, NEW Read, Reader(Read, V), NEW n \in Nat, Reader(Items(Read, n), Seq(V))
  PROVE  Items(Read, n + 1) = As(AppendOf(V), Then(Items(Read, n), Read))
<1> DEFINE I == Items(Read, n)
           T == Then(I, Read)
           form == AppendOf(V)
<1>1. Reader(I, Seq(V))
  OBVIOUS
<1>2. ASSUME NEW s \in Bytes
      PROVE  Items(Read, n + 1)[s] = MoreOf(Read, I[s])
  <2>1. I[s] = ReadItems(Read, n, s) /\ Items(Read, n + 1)[s] = ReadItems(Read, n + 1, s)
    BY DEF Items
  <2>2. ReadItems(Read, n + 1, s) = MoreOf(Read, ReadItems(Read, n, s))
    BY ReadItemsValue
  <2> HIDE DEF I
  <2> QED BY <2>1, <2>2
<1>3. ASSUME NEW s \in Bytes
      PROVE  As(form, T)[s] = {<<form[l[1]], l[2]>> : l \in T[s]}
  BY DEF As
<1>4. ASSUME NEW s \in Bytes
      PROVE  T[s] = UNION {{<< <<a[1], b[1]>>, b[2]>> : b \in Read[a[2]]} : a \in I[s]}
  BY DEF Then
<1> HIDE DEF I, T
<1>5. ASSUME NEW s \in Bytes, NEW a \in I[s], NEW b \in Read[a[2]]
      PROVE  <<form[<<a[1], b[1]>>], b[2]>> = <<Append(a[1], b[1]), b[2]>>
  <2>1. a[1] \in Seq(V) /\ a[2] \in Bytes
    BY <1>1, ReaderOne
  <2>2. b[1] \in V
    <3> DEFINE t == a[2]
    <3>1. t \in Bytes /\ b \in Read[t]
      BY <2>1
    <3> HIDE DEF t
    <3> QED BY <3>1, ReaderOne
  <2> DEFINE u == <<a[1], b[1]>>
  <2>3. u \in Seq(V) \X V /\ u[1] = a[1] /\ u[2] = b[1]
    BY <2>1, <2>2
  <2> HIDE DEF u
  <2>4. form[u] = Append(u[1], u[2])
    BY <2>3 DEF AppendOf
  <2>5. form[u] = Append(a[1], b[1])
    BY <2>3, <2>4
  <2> QED BY <2>5 DEF u
<1> HIDE DEF form
<1>6. ASSUME NEW s \in Bytes
      PROVE  As(form, T)[s] = Items(Read, n + 1)[s]
  <2> DEFINE L == As(form, T)[s]
             R == Items(Read, n + 1)[s]
  <2>1. ASSUME NEW x \in L PROVE x \in R
    <3>1. PICK l \in T[s] : x = <<form[l[1]], l[2]>>
      BY <1>3
    <3>2. PICK a \in I[s] : \E b \in Read[a[2]] : l = << <<a[1], b[1]>>, b[2]>>
      BY <1>4
    <3>3. PICK b \in Read[a[2]] : l = << <<a[1], b[1]>>, b[2]>>
      BY <3>2
    <3>4. x = <<form[<<a[1], b[1]>>], b[2]>>
      BY <3>1, <3>3
    <3>5. x = <<Append(a[1], b[1]), b[2]>>
      BY <1>5, <3>4
    <3> QED BY <1>2, <3>5 DEF MoreOf
  <2>2. ASSUME NEW x \in R PROVE x \in L
    <3>1. PICK a \in I[s] : \E b \in Read[a[2]] : x = <<Append(a[1], b[1]), b[2]>>
      BY <1>2 DEF MoreOf
    <3>2. PICK b \in Read[a[2]] : x = <<Append(a[1], b[1]), b[2]>>
      BY <3>1
    <3> DEFINE l == << <<a[1], b[1]>>, b[2]>>
    <3>3. l \in T[s] /\ l[1] = <<a[1], b[1]>> /\ l[2] = b[2]
      BY <1>4
    <3>4. x = <<form[<<a[1], b[1]>>], b[2]>>
      BY <1>5, <3>2
    <3> HIDE DEF l
    <3>5. x = <<form[l[1]], l[2]>>
      BY <3>3, <3>4
    <3> QED BY <1>3, <3>3, <3>5
  <2> HIDE DEF L, R
  <2>3. L = R
    BY <2>1, <2>2
  <2> QED BY <2>3 DEF L, R
<1>7. As(form, T) = [s \in Bytes |-> As(form, T)[s]]
  BY DEF As
<1>8. Items(Read, n + 1) = [s \in Bytes |-> Items(Read, n + 1)[s]]
  BY DEF Items
<1>9. As(form, T) = Items(Read, n + 1)
  BY <1>6, <1>7, <1>8
<1> QED BY <1>9 DEF T, I, form

LEMMA ItemsReader ==
  ASSUME NEW V, NEW Read, Reader(Read, V), NEW n \in Nat
  PROVE  Reader(Items(Read, n), Seq(V))
<1> DEFINE T == {m \in 0 .. n : Reader(Items(Read, m), Seq(V))}
<1>1. Reader(Items(Read, 0), Seq(V))
  <2> DEFINE R == Items(Read, 0)
             e == << >>
  <2>1. ASSUME NEW s \in Bytes PROVE R[s] = {<<e, s>>}
    BY ReadItemsValue DEF Items
  <2>2. e \in Seq(V)
    OBVIOUS
  <2>3. R = [s \in Bytes |-> R[s]]
    BY DEF Items
  <2> HIDE DEF R, e
  <2>4. R \in [Bytes -> SUBSET (Seq(V) \X Bytes)]
    BY <2>1, <2>2, <2>3
  <2>5. ASSUME NEW s \in Bytes, NEW r \in R[s]
        PROVE  Len(r[2]) <= Len(s) /\ \A q \in Bytes : R[s \o q] = {<<r[1], r[2] \o q>>}
    <3>1. r[1] = e /\ r[2] = s /\ Len(s) \in Nat
      BY <2>1, LenProperties DEF Bytes
    <3>2. ASSUME NEW q \in Bytes PROVE R[s \o q] = {<<e, s \o q>>}
      BY <2>1, ConcatBytes
    <3> QED BY <3>1, <3>2
  <2> DEFINE W == Seq(V)
  <2>6. R \in [Bytes -> SUBSET (W \X Bytes)]
    BY <2>4
  <2> HIDE DEF W
  <2>7. Reader(R, W)
    BY <2>5, <2>6, IsReader
  <2> QED BY <2>7 DEF R, W
<1>2. ASSUME NEW m \in 0 .. n - 1, m \in T PROVE m + 1 \in T
  <2>1. m \in Nat /\ m + 1 \in 0 .. n /\ Reader(Items(Read, m), Seq(V))
    BY <1>2
  <2> DEFINE W == Seq(V)
             I == Items(Read, m)
             form == AppendOf(V)
  <2>2. Items(Read, m + 1) = As(form, Then(I, Read))
    BY <2>1, MoreItems
  <2>3. form \in [W \X V -> W]
    <3>1. \A u \in W \X V : Append(u[1], u[2]) \in W
      BY AppendProperties
    <3> QED BY <3>1 DEF AppendOf
  <2>4. Reader(I, W)
    BY <2>1
  <2> HIDE DEF W, I, form
  <2>5. Reader(Then(I, Read), W \X V)
    BY <2>4, ThenReader
  <2>6. Reader(As(form, Then(I, Read)), W)
    BY <2>3, <2>5, AsReader
  <2> QED BY <2>1, <2>2, <2>6 DEF W
<1>3. 0 \in T
  BY <1>1
<1>4. 0 .. n \subseteq T
  <2> HIDE DEF T
  <2> QED BY <1>2, <1>3, UpTo
<1> QED BY <1>4

\* The first n elements, and one more.
LEMMA Prefix ==
  ASSUME NEW S, NEW seq \in Seq(S), NEW n \in 0 .. Len(seq)
  PROVE  /\ SubSeq(seq, 1, n) \in Seq(S)
         /\ n < Len(seq) => /\ seq[n + 1] \in S
                            /\ SubSeq(seq, 1, n + 1) = Append(SubSeq(seq, 1, n), seq[n + 1])
<1>1. Len(seq) \in Nat /\ \A i \in 1 .. Len(seq) : seq[i] \in S
  BY LenProperties, ElementOfSeq
<1>2. n \in Int /\ 1 \in Int /\ \A i \in 1 .. n : seq[i] \in S
  BY <1>1
<1>3. SubSeq(seq, 1, n) \in Seq(S)
  BY <1>2, SubSeqProperties
<1>4. ASSUME n < Len(seq)
      PROVE  /\ seq[n + 1] \in S
             /\ SubSeq(seq, 1, n + 1) = Append(SubSeq(seq, 1, n), seq[n + 1])
  <2> DEFINE m == n + 1
  <2>1. m \in 1 .. Len(seq) /\ 1 \in 1 .. Len(seq) /\ m \in 1 .. Len(seq) /\ m - 1 = n
    BY <1>1, <1>4
  <2>2. seq[m] \in S
    BY <1>1, <2>1
  <2> HIDE DEF m
  <2>3. SubSeq(seq, 1, m) = SubSeq(seq, 1, m - 1) \o <<seq[m]>>
    BY <2>1, SubSeqRecursiveSecond
  <2>4. Append(SubSeq(seq, 1, n), seq[m]) = SubSeq(seq, 1, n) \o <<seq[m]>>
    BY <1>3, <2>2, AppendIsConcat
  <2> QED BY <2>1, <2>2, <2>3, <2>4 DEF m
<1> QED BY <1>3, <1>4

LEMMA ItemsReads ==
  ASSUME NEW V, NEW Read, Reader(Read, V),
         NEW items \in Seq(V), NEW ws \in Seq(Bytes), Len(ws) = Len(items),
         \A i \in 1 .. Len(items) : Reads(Read, ws[i], items[i])
  PROVE  Reads(Items(Read, Len(items)), FlattenSeq(ws), items)
<1> DEFINE n == Len(items)
           Good(m) == Reads(Items(Read, m), FlattenSeq(SubSeq(ws, 1, m)), SubSeq(items, 1, m))
           T == {m \in 0 .. n : Good(m)}
<1>1. n \in Nat
  BY LenProperties
<1>2. Good(0)
  <2>1. SubSeq(ws, 1, 0) = << >> /\ SubSeq(items, 1, 0) = << >>
    BY SubSeqEmpty
  <2>2. << >> \in Bytes
    BY DEF Bytes
  <2>3. Items(Read, 0)[<< >>] = {<< << >>, << >> >>}
    BY <2>2, ReadItemsValue DEF Items
  <2> QED BY <2>1, <2>2, <2>3, FlattenEmpty DEF Reads
<1>3. ASSUME NEW m \in 0 .. n - 1, m \in T PROVE m + 1 \in T
  <2> DEFINE W == Seq(V)
             I == Items(Read, m)
             form == AppendOf(V)
             k == m + 1
             v == SubSeq(items, 1, m)
             w == FlattenSeq(SubSeq(ws, 1, m))
  <2>1. m \in Nat /\ k \in 1 .. n /\ m \in 0 .. n /\ m < n
    BY <1>1
  <2>2. v \in W /\ items[k] \in V /\ SubSeq(items, 1, k) = Append(v, items[k])
    BY <2>1, Prefix
  <2>3. SubSeq(ws, 1, m) \in Seq(Bytes) /\ ws[k] \in Bytes
        /\ SubSeq(ws, 1, k) = Append(SubSeq(ws, 1, m), ws[k])
    BY <2>1, Prefix
  <2>4. FlattenSeq(SubSeq(ws, 1, k)) = w \o ws[k]
    <3>1. SubSeq(ws, 1, m) \in Seq(Seq(Byte)) /\ ws[k] \in Seq(Byte)
      BY <2>3 DEF Bytes
    <3>2. FlattenSeq(Append(SubSeq(ws, 1, m), ws[k])) = w \o ws[k]
      BY <3>1, FlattenAppend
    <3> QED BY <2>3, <3>2
  <2>5. Reads(I, w, v)
    BY <1>3
  <2>6. Reads(Read, ws[k], items[k])
    BY <2>1
  <2>7. Reader(I, W)
    BY <2>1, ItemsReader
  <2>8. Items(Read, k) = As(form, Then(I, Read))
    BY <2>1, <2>7, MoreItems
  <2> DEFINE u == <<v, items[k]>>
  <2>9. u \in W \X V /\ u[1] = v /\ u[2] = items[k]
    BY <2>2
  <2> HIDE DEF W, I, k, v, w
  <2>10. Reads(Then(I, Read), w \o ws[k], u)
    BY <2>5, <2>6, <2>7, ThenReads
  <2> HIDE DEF u, form
  <2>11. Reads(As(form, Then(I, Read)), w \o ws[k], form[u])
    BY <2>10, AsReads
  <2>12. form[u] = Append(v, items[k])
    BY <2>9 DEF form, AppendOf, W
  <2>13. Good(k)
    BY <2>2, <2>4, <2>8, <2>11, <2>12
  <2>14. k \in 0 .. n
    BY <1>1, <2>1
  <2> HIDE DEF Good
  <2> QED BY <2>13, <2>14 DEF k
<1>4. 0 .. n \subseteq T
  <2>1. 0 \in T
    BY <1>1, <1>2
  <2> HIDE DEF T, n
  <2> QED BY <1>1, <1>3, <2>1, UpTo
<1>5. Good(n)
  <2> HIDE DEF n, Good
  <2> QED BY <1>1, <1>4
<1>6. SubSeq(items, 1, n) = items /\ SubSeq(ws, 1, n) = ws
  BY SubSeqFull
<1> QED BY <1>5, <1>6

LEMMA ListReader ==
  ASSUME NEW V, NEW Read, Reader(Read, V)
  PROVE  Reader(ReadList(Read), Seq(V))
<1> DEFINE R == ReadList(Read)
           W == Seq(V)
<1>1. ASSUME NEW s \in Bytes
      PROVE  R[s] = UNION {ReadItems(Read, num[1], num[2]) : num \in ReadVarint[s]}
  BY DEF ReadList
<1>2. R = [s \in Bytes |-> R[s]]
  BY DEF ReadList
<1> HIDE DEF R, W
<1>3. ASSUME NEW s \in Bytes, NEW num \in ReadVarint[s]
      PROVE  /\ R[s] = Items(Read, num[1])[num[2]]
             /\ num[1] \in Nat /\ num[2] \in Bytes /\ Len(num[2]) <= Len(s)
             /\ \A q \in Bytes : ReadVarint[s \o q] = {<<num[1], num[2] \o q>>}
  <2>1. /\ num[1] \in Nat /\ num[2] \in Bytes /\ ReadVarint[s] = {num} /\ Len(num[2]) <= Len(s)
        /\ \A q \in Bytes : ReadVarint[s \o q] = {<<num[1], num[2] \o q>>}
    BY VarintReader, ReaderOne
  <2>2. R[s] = ReadItems(Read, num[1], num[2])
    <3>1. R[s] = UNION {ReadItems(Read, m[1], m[2]) : m \in ReadVarint[s]}
      BY <1>1
    <3> QED BY <2>1, <3>1
  <2>3. Items(Read, num[1])[num[2]] = ReadItems(Read, num[1], num[2])
    BY <2>1 DEF Items
  <2> QED BY <2>1, <2>2, <2>3
<1>4. ASSUME NEW s \in Bytes, NEW r \in R[s]
      PROVE  /\ r \in W \X Bytes
             /\ Len(r[2]) <= Len(s)
             /\ \A q \in Bytes : R[s \o q] = {<<r[1], r[2] \o q>>}
  <2>1. PICK num \in ReadVarint[s] : TRUE
    BY <1>1
  <2> DEFINE n == num[1]
             t == num[2]
             I == Items(Read, n)
  <2>2. /\ R[s] = I[t]
        /\ n \in Nat /\ t \in Bytes /\ Len(t) <= Len(s)
        /\ \A q \in Bytes : ReadVarint[s \o q] = {<<n, t \o q>>}
    BY <1>3
  <2>3. Reader(I, W)
    BY <2>2, ItemsReader DEF W
  <2>4. ASSUME NEW q \in Bytes PROVE R[s \o q] = I[t \o q]
    <3> DEFINE x == s \o q
               k == <<n, t \o q>>
    <3>1. x \in Bytes /\ k \in ReadVarint[x]
      BY <2>2, ConcatBytes
    <3>2. k[1] = n /\ k[2] = t \o q
      OBVIOUS
    <3> HIDE DEF x, k, n, t, I
    <3>3. R[x] = Items(Read, k[1])[k[2]]
      BY <1>3, <3>1
    <3> QED BY <3>2, <3>3 DEF x, I
  <2> HIDE DEF n, t, I
  <2>5. /\ r[1] \in W /\ r[2] \in Bytes /\ r = <<r[1], r[2]>> /\ Len(r[2]) <= Len(t)
        /\ \A q \in Bytes : I[t \o q] = {<<r[1], r[2] \o q>>}
    BY <2>2, <2>3, ReaderOne, SMTT(30)
  <2>6. Len(r[2]) <= Len(s)
    <3>1. Len(r[2]) \in Nat /\ Len(t) \in Nat /\ Len(s) \in Nat
      BY <2>2, <2>5, LenProperties DEF Bytes
    <3> QED BY <2>2, <2>5, <3>1
  <2>7. r \in W \X Bytes
    BY <2>5
  <2> QED BY <2>4, <2>5, <2>6, <2>7
<1>5. R \in [Bytes -> SUBSET (W \X Bytes)]
  BY <1>2, <1>4
<1>6. Reader(R, W)
  BY <1>4, <1>5, IsReader
<1> QED BY <1>6 DEF R, W

LEMMA ListReads ==
  ASSUME NEW V, NEW Read, Reader(Read, V),
         NEW items \in Seq(V), NEW ws \in Seq(Bytes), Len(ws) = Len(items),
         \A i \in 1 .. Len(items) : Reads(Read, ws[i], items[i])
  PROVE  Reads(ReadList(Read), WriteList(ws), items)
<1> DEFINE n == Len(items)
           w == WriteVarint(n)
           x == FlattenSeq(ws)
           k == <<n, x>>
           t == w \o x
<1>1. n \in Nat
  BY LenProperties
<1>2. Reads(Items(Read, n), x, items)
  BY ItemsReads
<1>3. Reads(ReadVarint, w, n)
  BY <1>1, VarintReads
<1>4. x \in Bytes /\ Items(Read, n)[x] = {<<items, << >>>>}
  BY <1>2 DEF Reads
<1>5. Items(Read, n)[x] = ReadItems(Read, n, x)
  BY <1>4 DEF Items
<1>6. WriteList(ws) = t
  BY DEF WriteList
<1>7. k[1] = n /\ k[2] = x
  OBVIOUS
<1> HIDE DEF n, w, x
<1>8. ReadVarint[t] = {k} /\ w \in Bytes
  BY <1>3, <1>4, VarintReader, ReadsInFront
<1>9. t \in Bytes
  BY <1>4, <1>8, ConcatBytes
<1> HIDE DEF t, k
<1>10. ReadList(Read)[t] = UNION {ReadItems(Read, num[1], num[2]) : num \in ReadVarint[t]}
  BY <1>9 DEF ReadList
<1>11. ReadList(Read)[t] = ReadItems(Read, n, x)
  BY <1>7, <1>8, <1>10
<1> QED BY <1>4, <1>5, <1>6, <1>9, <1>11 DEF Reads

-----------------------------------------------------------------------------
(***************************************************************************)
(* TxData.                                                                 *)
(***************************************************************************)

InsertListOf == [u \in Nat \X Seq(Bytes) |-> [table_id |-> u[1], inserts |-> u[2]]]

LEMMA InsertListForm ==
  /\ Reader(Then(ReadVarint, ReadList(DeserializeRowData)), Nat \X Seq(Bytes))
  /\ InsertListOf \in [Nat \X Seq(Bytes) -> InsertLists]
  /\ DeserializeInsertList = As(InsertListOf, Then(ReadVarint, ReadList(DeserializeRowData)))
<1> DEFINE W == Seq(Bytes)
           U == Nat \X W
           R == Then(ReadVarint, ReadList(DeserializeRowData))
           form == InsertListOf
<1>1. Reader(R, U)
  <2>1. Reader(ReadList(DeserializeRowData), W)
    BY RowReader, ListReader
  <2> HIDE DEF W
  <2> QED BY <2>1, VarintReader, ThenReader
<1>2. form \in [U -> InsertLists]
  BY DEF InsertListOf, InsertLists
<1>3. ASSUME NEW s \in Bytes
      PROVE  DeserializeInsertList[s] = {<<[table_id |-> l[1][1], inserts |-> l[1][2]], l[2]>> : l \in R[s]}
  BY DEF DeserializeInsertList
<1>4. ASSUME NEW s \in Bytes PROVE As(form, R)[s] = {<<form[l[1]], l[2]>> : l \in R[s]}
  BY DEF As
<1>5. /\ DeserializeInsertList = [s \in Bytes |-> DeserializeInsertList[s]]
      /\ As(form, R) = [s \in Bytes |-> As(form, R)[s]]
  BY DEF As, DeserializeInsertList
<1> HIDE DEF R
<1>6. ASSUME NEW s \in Bytes, NEW l \in R[s]
      PROVE  form[l[1]] = [table_id |-> l[1][1], inserts |-> l[1][2]]
  <2>1. l[1] \in U
    <3> HIDE DEF U
    <3> QED BY <1>1, ReaderOne
  <2> QED BY <2>1 DEF InsertListOf
<1>7. ASSUME NEW s \in Bytes PROVE DeserializeInsertList[s] = As(form, R)[s]
  <2> DEFINE L == DeserializeInsertList[s]
             A == As(form, R)[s]
  <2>1. ASSUME NEW x \in L PROVE x \in A
    <3>1. PICK l \in R[s] : x = <<[table_id |-> l[1][1], inserts |-> l[1][2]], l[2]>>
      BY <1>3
    <3>2. x = <<form[l[1]], l[2]>>
      <4> HIDE DEF form
      <4> QED BY <1>6, <3>1
    <3> HIDE DEF form
    <3> QED BY <1>4, <3>2
  <2>2. ASSUME NEW x \in A PROVE x \in L
    <3> HIDE DEF form
    <3>1. PICK l \in R[s] : x = <<form[l[1]], l[2]>>
      BY <1>4
    <3>2. x = <<[table_id |-> l[1][1], inserts |-> l[1][2]], l[2]>>
      BY <1>6, <3>1
    <3> QED BY <1>3, <3>2
  <2> HIDE DEF L, A
  <2>3. L = A
    BY <2>1, <2>2
  <2> QED BY <2>3 DEF L, A
<1>8. DeserializeInsertList = As(form, R)
  BY <1>5, <1>7
<1> QED BY <1>1, <1>2, <1>8 DEF R

LEMMA InsertListReader == Reader(DeserializeInsertList, InsertLists)
<1> DEFINE U == Nat \X Seq(Bytes)
           R == Then(ReadVarint, ReadList(DeserializeRowData))
<1>1. Reader(R, U) /\ InsertListOf \in [U -> InsertLists]
  BY InsertListForm
<1> HIDE DEF U, R
<1>2. Reader(As(InsertListOf, R), InsertLists)
  BY <1>1, AsReader
<1> QED BY <1>2, InsertListForm DEF R

LEMMA InsertListReads ==
  ASSUME NEW list \in InsertLists
  PROVE  Reads(DeserializeInsertList, SerializeInsertList(list), list)
<1> DEFINE id == list.table_id
           rows == list.inserts
           ws == [i \in DOMAIN list.inserts |-> SerializeRowData(list.inserts[i])]
           First == ReadVarint
           Second == ReadList(DeserializeRowData)
           w == WriteVarint(id)
           x == WriteList(ws)
           u == <<id, rows>>
<1>1. id \in Nat /\ rows \in Seq(Bytes) /\ list = [table_id |-> id, inserts |-> rows]
  BY DEF InsertLists
<1>2. u \in Nat \X Seq(Bytes)
  BY <1>1
<1>3. Reads(First, w, id)
  BY <1>1, VarintReads
<1>4. Reads(Second, x, rows)
  <2>1. Len(rows) \in Nat /\ DOMAIN rows = 1 .. Len(rows) /\ \A i \in 1 .. Len(rows) : rows[i] \in Bytes
    BY <1>1, LenProperties, ElementOfSeq
  <2>2. \A i \in 1 .. Len(rows) : Reads(DeserializeRowData, SerializeRowData(rows[i]), rows[i])
    BY <2>1, RowReads
  <2>3. \A i \in 1 .. Len(rows) : SerializeRowData(rows[i]) \in Bytes
    BY <2>2 DEF Reads
  <2>4. ws \in Seq(Bytes) /\ Len(ws) = Len(rows) /\ \A i \in 1 .. Len(rows) : ws[i] = SerializeRowData(rows[i])
    BY <2>1, <2>3
  <2>5. \A i \in 1 .. Len(rows) : Reads(DeserializeRowData, ws[i], rows[i])
    BY <2>2, <2>4
  <2> HIDE DEF ws, rows
  <2> QED BY <1>1, <2>4, <2>5, RowReader, ListReads
<1>5. SerializeInsertList(list) = w \o x
  BY DEF SerializeInsertList
<1>6. InsertListOf[u] = list
  BY <1>1, <1>2 DEF InsertListOf
<1>7. Reader(First, Nat) /\ Reader(Second, Seq(Bytes))
  BY VarintReader, RowReader, ListReader
<1>8. DeserializeInsertList = As(InsertListOf, Then(First, Second))
  BY InsertListForm
<1> HIDE DEF id, rows, ws, First, Second, w, x
<1>9. Reads(Then(First, Second), w \o x, u)
  BY <1>3, <1>4, <1>7, ThenReads
<1> HIDE DEF u
<1>10. Reads(As(InsertListOf, Then(First, Second)), w \o x, InsertListOf[u])
  BY <1>9, AsReads
<1> QED BY <1>5, <1>6, <1>8, <1>10

DeleteListOf == [u \in Nat \X Seq(Bytes) |-> [table_id |-> u[1], deletes |-> u[2]]]

LEMMA DeleteListForm ==
  /\ Reader(Then(ReadVarint, ReadList(DeserializeRowData)), Nat \X Seq(Bytes))
  /\ DeleteListOf \in [Nat \X Seq(Bytes) -> DeleteLists]
  /\ DeserializeDeleteList = As(DeleteListOf, Then(ReadVarint, ReadList(DeserializeRowData)))
<1> DEFINE W == Seq(Bytes)
           U == Nat \X W
           R == Then(ReadVarint, ReadList(DeserializeRowData))
           form == DeleteListOf
<1>1. Reader(R, U)
  <2>1. Reader(ReadList(DeserializeRowData), W)
    BY RowReader, ListReader
  <2> HIDE DEF W
  <2> QED BY <2>1, VarintReader, ThenReader
<1>2. form \in [U -> DeleteLists]
  BY DEF DeleteListOf, DeleteLists
<1>3. ASSUME NEW s \in Bytes
      PROVE  DeserializeDeleteList[s] = {<<[table_id |-> l[1][1], deletes |-> l[1][2]], l[2]>> : l \in R[s]}
  BY DEF DeserializeDeleteList
<1>4. ASSUME NEW s \in Bytes PROVE As(form, R)[s] = {<<form[l[1]], l[2]>> : l \in R[s]}
  BY DEF As
<1>5. /\ DeserializeDeleteList = [s \in Bytes |-> DeserializeDeleteList[s]]
      /\ As(form, R) = [s \in Bytes |-> As(form, R)[s]]
  BY DEF As, DeserializeDeleteList
<1> HIDE DEF R
<1>6. ASSUME NEW s \in Bytes, NEW l \in R[s]
      PROVE  form[l[1]] = [table_id |-> l[1][1], deletes |-> l[1][2]]
  <2>1. l[1] \in U
    <3> HIDE DEF U
    <3> QED BY <1>1, ReaderOne
  <2> QED BY <2>1 DEF DeleteListOf
<1>7. ASSUME NEW s \in Bytes PROVE DeserializeDeleteList[s] = As(form, R)[s]
  <2> DEFINE L == DeserializeDeleteList[s]
             A == As(form, R)[s]
  <2>1. ASSUME NEW x \in L PROVE x \in A
    <3>1. PICK l \in R[s] : x = <<[table_id |-> l[1][1], deletes |-> l[1][2]], l[2]>>
      BY <1>3
    <3>2. x = <<form[l[1]], l[2]>>
      <4> HIDE DEF form
      <4> QED BY <1>6, <3>1
    <3> HIDE DEF form
    <3> QED BY <1>4, <3>2
  <2>2. ASSUME NEW x \in A PROVE x \in L
    <3> HIDE DEF form
    <3>1. PICK l \in R[s] : x = <<form[l[1]], l[2]>>
      BY <1>4
    <3>2. x = <<[table_id |-> l[1][1], deletes |-> l[1][2]], l[2]>>
      BY <1>6, <3>1
    <3> QED BY <1>3, <3>2
  <2> HIDE DEF L, A
  <2>3. L = A
    BY <2>1, <2>2
  <2> QED BY <2>3 DEF L, A
<1>8. DeserializeDeleteList = As(form, R)
  BY <1>5, <1>7
<1> QED BY <1>1, <1>2, <1>8 DEF R

LEMMA DeleteListReader == Reader(DeserializeDeleteList, DeleteLists)
<1> DEFINE U == Nat \X Seq(Bytes)
           R == Then(ReadVarint, ReadList(DeserializeRowData))
<1>1. Reader(R, U) /\ DeleteListOf \in [U -> DeleteLists]
  BY DeleteListForm
<1> HIDE DEF U, R
<1>2. Reader(As(DeleteListOf, R), DeleteLists)
  BY <1>1, AsReader
<1> QED BY <1>2, DeleteListForm DEF R

LEMMA DeleteListReads ==
  ASSUME NEW list \in DeleteLists
  PROVE  Reads(DeserializeDeleteList, SerializeDeleteList(list), list)
<1> DEFINE id == list.table_id
           rows == list.deletes
           ws == [i \in DOMAIN list.deletes |-> SerializeRowData(list.deletes[i])]
           First == ReadVarint
           Second == ReadList(DeserializeRowData)
           w == WriteVarint(id)
           x == WriteList(ws)
           u == <<id, rows>>
<1>1. id \in Nat /\ rows \in Seq(Bytes) /\ list = [table_id |-> id, deletes |-> rows]
  BY DEF DeleteLists
<1>2. u \in Nat \X Seq(Bytes)
  BY <1>1
<1>3. Reads(First, w, id)
  BY <1>1, VarintReads
<1>4. Reads(Second, x, rows)
  <2>1. Len(rows) \in Nat /\ DOMAIN rows = 1 .. Len(rows) /\ \A i \in 1 .. Len(rows) : rows[i] \in Bytes
    BY <1>1, LenProperties, ElementOfSeq
  <2>2. \A i \in 1 .. Len(rows) : Reads(DeserializeRowData, SerializeRowData(rows[i]), rows[i])
    BY <2>1, RowReads
  <2>3. \A i \in 1 .. Len(rows) : SerializeRowData(rows[i]) \in Bytes
    BY <2>2 DEF Reads
  <2>4. ws \in Seq(Bytes) /\ Len(ws) = Len(rows) /\ \A i \in 1 .. Len(rows) : ws[i] = SerializeRowData(rows[i])
    BY <2>1, <2>3
  <2>5. \A i \in 1 .. Len(rows) : Reads(DeserializeRowData, ws[i], rows[i])
    BY <2>2, <2>4
  <2> HIDE DEF ws, rows
  <2> QED BY <1>1, <2>4, <2>5, RowReader, ListReads
<1>5. SerializeDeleteList(list) = w \o x
  BY DEF SerializeDeleteList
<1>6. DeleteListOf[u] = list
  BY <1>1, <1>2 DEF DeleteListOf
<1>7. Reader(First, Nat) /\ Reader(Second, Seq(Bytes))
  BY VarintReader, RowReader, ListReader
<1>8. DeserializeDeleteList = As(DeleteListOf, Then(First, Second))
  BY DeleteListForm
<1> HIDE DEF id, rows, ws, First, Second, w, x
<1>9. Reads(Then(First, Second), w \o x, u)
  BY <1>3, <1>4, <1>7, ThenReads
<1> HIDE DEF u
<1>10. Reads(As(DeleteListOf, Then(First, Second)), w \o x, DeleteListOf[u])
  BY <1>9, AsReads
<1> QED BY <1>5, <1>6, <1>8, <1>10

TxDataParts == (Seq(InsertLists) \X Seq(DeleteLists)) \X Seq(Nat)

TxDataFrom == [u \in TxDataParts |-> [inserts |-> u[1][1], deletes |-> u[1][2], truncs |-> u[2]]]

ReadLists ==
  Then(Then(ReadList(DeserializeInsertList), ReadList(DeserializeDeleteList)), ReadList(ReadVarint))

LEMMA ReadListsReader ==
  /\ Reader(ReadList(DeserializeInsertList), Seq(InsertLists))
  /\ Reader(ReadList(DeserializeDeleteList), Seq(DeleteLists))
  /\ Reader(Then(ReadList(DeserializeInsertList), ReadList(DeserializeDeleteList)),
            Seq(InsertLists) \X Seq(DeleteLists))
  /\ Reader(ReadList(ReadVarint), Seq(Nat))
  /\ Reader(ReadLists, TxDataParts)
<1> DEFINE A == Seq(InsertLists)
           B == Seq(DeleteLists)
           C == Seq(Nat)
           First == ReadList(DeserializeInsertList)
           Second == ReadList(DeserializeDeleteList)
           Third == ReadList(ReadVarint)
<1>1. Reader(First, A) /\ Reader(Second, B) /\ Reader(Third, C)
  BY InsertListReader, DeleteListReader, VarintReader, ListReader
<1> HIDE DEF A, B, C, First, Second, Third
<1>2. Reader(Then(First, Second), A \X B)
  BY <1>1, ThenReader
<1> DEFINE AB == A \X B
           FS == Then(First, Second)
<1>3. Reader(FS, AB)
  BY <1>2
<1> HIDE DEF AB, FS
<1>4. Reader(Then(FS, Third), AB \X C)
  BY <1>1, <1>3, ThenReader
<1> QED BY <1>1, <1>2, <1>4 DEF A, B, C, First, Second, Third, AB, FS, ReadLists, TxDataParts

LEMMA TxDataForm ==
  /\ TxDataFrom \in [TxDataParts -> TxDatas]
  /\ DeserializeTxData = As(TxDataFrom, ReadLists)
<1> DEFINE R == ReadLists
           form == TxDataFrom
<1>1. Reader(R, TxDataParts)
  BY ReadListsReader
<1>2. form \in [TxDataParts -> TxDatas]
  BY DEF TxDataFrom, TxDataParts, TxDatas
<1>3. ASSUME NEW s \in Bytes
      PROVE  DeserializeTxData[s] =
               {<<[inserts |-> l[1][1][1], deletes |-> l[1][1][2], truncs |-> l[1][2]], l[2]>> :
                  l \in R[s]}
  BY DEF DeserializeTxData, ReadLists
<1>4. ASSUME NEW s \in Bytes PROVE As(form, R)[s] = {<<form[l[1]], l[2]>> : l \in R[s]}
  BY DEF As
<1>5. /\ DeserializeTxData = [s \in Bytes |-> DeserializeTxData[s]]
      /\ As(form, R) = [s \in Bytes |-> As(form, R)[s]]
  BY DEF As, DeserializeTxData
<1> HIDE DEF R
<1>6. ASSUME NEW s \in Bytes, NEW l \in R[s]
      PROVE  form[l[1]] = [inserts |-> l[1][1][1], deletes |-> l[1][1][2], truncs |-> l[1][2]]
  <2>1. l[1] \in TxDataParts
    BY <1>1, ReaderOne
  <2> QED BY <2>1 DEF TxDataFrom
<1> HIDE DEF form
<1>7. ASSUME NEW s \in Bytes PROVE DeserializeTxData[s] = As(form, R)[s]
  <2> DEFINE L == DeserializeTxData[s]
             A == As(form, R)[s]
  <2>1. ASSUME NEW x \in L PROVE x \in A
    <3>1. PICK l \in R[s] :
            x = <<[inserts |-> l[1][1][1], deletes |-> l[1][1][2], truncs |-> l[1][2]], l[2]>>
      BY <1>3
    <3>2. x = <<form[l[1]], l[2]>>
      BY <1>6, <3>1
    <3> QED BY <1>4, <3>2
  <2>2. ASSUME NEW x \in A PROVE x \in L
    <3>1. PICK l \in R[s] : x = <<form[l[1]], l[2]>>
      BY <1>4
    <3>2. x = <<[inserts |-> l[1][1][1], deletes |-> l[1][1][2], truncs |-> l[1][2]], l[2]>>
      BY <1>6, <3>1
    <3> QED BY <1>3, <3>2
  <2> HIDE DEF L, A
  <2>3. L = A
    BY <2>1, <2>2
  <2> QED BY <2>3 DEF L, A
<1>8. DeserializeTxData = As(form, R)
  BY <1>5, <1>7
<1> QED BY <1>2, <1>8 DEF R, form

LEMMA TxDataReader == Reader(DeserializeTxData, TxDatas)
<1>1. Reader(As(TxDataFrom, ReadLists), TxDatas)
  BY TxDataForm, ReadListsReader, AsReader
<1> QED BY <1>1, TxDataForm

LEMMA TxDataReads ==
  ASSUME NEW data \in TxDatas
  PROVE  Reads(DeserializeTxData, SerializeTxData(data), data)
<1> DEFINE inserts == data.inserts
           deletes == data.deletes
           truncs == data.truncs
           is == [i \in DOMAIN data.inserts |-> SerializeInsertList(data.inserts[i])]
           ds == [i \in DOMAIN data.deletes |-> SerializeDeleteList(data.deletes[i])]
           ts == [i \in DOMAIN data.truncs |-> WriteVarint(data.truncs[i])]
           First == ReadList(DeserializeInsertList)
           Second == ReadList(DeserializeDeleteList)
           Third == ReadList(ReadVarint)
           A == Seq(InsertLists)
           B == Seq(DeleteLists)
           C == Seq(Nat)
<1>1. /\ inserts \in A /\ deletes \in B /\ truncs \in C
      /\ data = [inserts |-> inserts, deletes |-> deletes, truncs |-> truncs]
  BY DEF TxDatas
<1>2. Reads(First, WriteList(is), inserts)
  <2>1. /\ Len(inserts) \in Nat /\ DOMAIN inserts = 1 .. Len(inserts)
        /\ \A i \in 1 .. Len(inserts) : inserts[i] \in InsertLists
    BY <1>1, LenProperties, ElementOfSeq
  <2>2. \A i \in 1 .. Len(inserts) :
          Reads(DeserializeInsertList, SerializeInsertList(inserts[i]), inserts[i])
    BY <2>1, InsertListReads
  <2>3. \A i \in 1 .. Len(inserts) : SerializeInsertList(inserts[i]) \in Bytes
    BY <2>2 DEF Reads
  <2>4. /\ is \in Seq(Bytes) /\ Len(is) = Len(inserts)
        /\ \A i \in 1 .. Len(inserts) : is[i] = SerializeInsertList(inserts[i])
    BY <2>1, <2>3
  <2>5. \A i \in 1 .. Len(inserts) : Reads(DeserializeInsertList, is[i], inserts[i])
    BY <2>2, <2>4
  <2> HIDE DEF is, inserts
  <2> QED BY <1>1, <2>4, <2>5, InsertListReader, ListReads
<1>3. Reads(Second, WriteList(ds), deletes)
  <2>1. /\ Len(deletes) \in Nat /\ DOMAIN deletes = 1 .. Len(deletes)
        /\ \A i \in 1 .. Len(deletes) : deletes[i] \in DeleteLists
    BY <1>1, LenProperties, ElementOfSeq
  <2>2. \A i \in 1 .. Len(deletes) :
          Reads(DeserializeDeleteList, SerializeDeleteList(deletes[i]), deletes[i])
    BY <2>1, DeleteListReads
  <2>3. \A i \in 1 .. Len(deletes) : SerializeDeleteList(deletes[i]) \in Bytes
    BY <2>2 DEF Reads
  <2>4. /\ ds \in Seq(Bytes) /\ Len(ds) = Len(deletes)
        /\ \A i \in 1 .. Len(deletes) : ds[i] = SerializeDeleteList(deletes[i])
    BY <2>1, <2>3
  <2>5. \A i \in 1 .. Len(deletes) : Reads(DeserializeDeleteList, ds[i], deletes[i])
    BY <2>2, <2>4
  <2> HIDE DEF ds, deletes
  <2> QED BY <1>1, <2>4, <2>5, DeleteListReader, ListReads
<1>4. Reads(Third, WriteList(ts), truncs)
  <2>1. /\ Len(truncs) \in Nat /\ DOMAIN truncs = 1 .. Len(truncs)
        /\ \A i \in 1 .. Len(truncs) : truncs[i] \in Nat
    BY <1>1, LenProperties, ElementOfSeq
  <2>2. \A i \in 1 .. Len(truncs) : Reads(ReadVarint, WriteVarint(truncs[i]), truncs[i])
    BY <2>1, VarintReads
  <2>3. \A i \in 1 .. Len(truncs) : WriteVarint(truncs[i]) \in Bytes
    BY <2>2 DEF Reads
  <2>4. /\ ts \in Seq(Bytes) /\ Len(ts) = Len(truncs)
        /\ \A i \in 1 .. Len(truncs) : ts[i] = WriteVarint(truncs[i])
    BY <2>1, <2>3
  <2>5. \A i \in 1 .. Len(truncs) : Reads(ReadVarint, ts[i], truncs[i])
    BY <2>2, <2>4
  <2> HIDE DEF ts, truncs
  <2> QED BY <1>1, <2>4, <2>5, VarintReader, ListReads
<1> DEFINE w == WriteList(is)
           x == WriteList(ds)
           y == WriteList(ts)
           uv == <<inserts, deletes>>
           u == <<uv, truncs>>
           AB == A \X B
           FS == Then(First, Second)
<1>5. SerializeTxData(data) = (w \o x) \o y
  BY DEF SerializeTxData
<1>6. u \in TxDataParts /\ TxDataFrom[u] = data
  BY <1>1 DEF TxDataFrom, TxDataParts
<1>7. Reader(First, A) /\ Reader(Second, B) /\ Reader(Third, C) /\ Reader(FS, AB)
  BY ReadListsReader
<1>8. Reads(First, w, inserts) /\ Reads(Second, x, deletes) /\ Reads(Third, y, truncs)
  BY <1>2, <1>3, <1>4
<1> HIDE DEF inserts, deletes, truncs, w, x, y, A, B, C, First, Second, Third, AB
<1>9. Reads(FS, w \o x, uv)
  BY <1>7, <1>8, ThenReads
<1> HIDE DEF uv, FS
<1>10. Reads(Then(FS, Third), (w \o x) \o y, u)
  BY <1>7, <1>8, <1>9, ThenReads
<1> HIDE DEF u
<1>11. Reads(As(TxDataFrom, Then(FS, Third)), (w \o x) \o y, TxDataFrom[u])
  BY <1>10, AsReads
<1>12. Then(FS, Third) = ReadLists
  BY DEF FS, First, Second, Third, ReadLists
<1> QED BY <1>5, <1>6, <1>11, <1>12, TxDataForm

-----------------------------------------------------------------------------
(***************************************************************************)
(* Offsets.                                                                *)
(***************************************************************************)

\* Below this, an offset is a u64.
OffsetLimit == 256 * 256 * 256 * 256 * 256 * 256 * 256 * 256

LEMMA FromLeBytesValue ==
  ASSUME NEW x \in Bytes, Len(x) = 8
  PROVE  /\ FromLeBytes(x) \in Nat
         /\ FromLeBytes(x) = x[1] + 256 * (x[2] + 256 * (x[3] + 256 * (x[4] + 256 *
                              (x[5] + 256 * (x[6] + 256 * (x[7] + 256 * x[8]))))))
<1> DEFINE high[i \in 1 .. 8] == IF i = 8 THEN x[8] ELSE x[i] + 256 * high[i + 1]
           body(f) == [i \in 1 .. 8 |-> IF i = 8 THEN x[8] ELSE x[i] + 256 * f[i + 1]]
           D == 1 .. 8
           size == [i \in D |-> 8 - i]
           start == [i \in D |-> x[8]]
           next == [i \in D |-> IF i = 8 THEN 8 ELSE i + 1]
           step == [d \in D \X Nat |-> x[d[1]] + 256 * d[2]]
           Stop == {8}
<1>1. FromLeBytes(x) = high[1]
  BY DEF FromLeBytes
<1>2. \A i \in 1 .. 8 : x[i] \in Nat
  <2>1. \A i \in 1 .. 8 : x[i] \in Byte
    BY ElementOfSeq DEF Bytes
  <2>2. Byte \subseteq Nat
    BY DEF Byte
  <2> QED BY <2>1, <2>2
<1>3. size \in [D -> Nat] /\ start \in [D -> Nat] /\ next \in [D -> D]
  BY <1>2
<1>4. step \in [D \X Nat -> Nat]
  <2> SUFFICES ASSUME NEW d \in D \X Nat PROVE x[d[1]] + 256 * d[2] \in Nat
    OBVIOUS
  <2>1. x[d[1]] \in Nat /\ d[2] \in Nat
    BY <1>2
  <2> QED BY <2>1
<1>5. \A i \in D : i \notin Stop => size[next[i]] < size[i]
  OBVIOUS
<1>6. \E f \in [D -> Nat] :
        \A i \in D : f[i] = IF i \in Stop THEN start[i] ELSE step[<<i, f[next[i]]>>]
  <2> DEFINE S == Nat
  <2> HIDE DEF D, size, start, next, step, Stop
  <2>1. Descends(D, S, size, Stop, start, next, step)
    BY <1>3, <1>4, <1>5 DEF Descends
  <2> HIDE DEF S
  <2>2. \E f \in [D -> S] :
          \A i \in D : f[i] = IF i \in Stop THEN start[i] ELSE step[<<i, f[next[i]]>>]
    BY <2>1, Recursion
  <2> QED BY <2>2 DEF S
<1>7. PICK f \in [D -> Nat] :
        \A i \in D : f[i] = IF i \in Stop THEN start[i] ELSE step[<<i, f[next[i]]>>]
  BY <1>6
<1>8. ASSUME NEW i \in D PROVE f[i] = IF i = 8 THEN x[8] ELSE x[i] + 256 * f[i + 1]
  <2>1. CASE i = 8
    BY <1>7, <2>1
  <2>2. CASE i # 8
    <3> DEFINE d == <<i, f[i + 1]>>
    <3>1. i \notin Stop /\ next[i] = i + 1 /\ i + 1 \in D
      BY <2>2
    <3>2. f[i] = step[d]
      <4> HIDE DEF step, next, Stop, start
      <4> QED BY <1>7, <3>1
    <3>3. d \in D \X Nat /\ d[1] = i /\ d[2] = f[i + 1]
      BY <3>1
    <3> HIDE DEF d
    <3> QED BY <2>2, <3>2, <3>3
  <2> QED BY <2>1, <2>2
<1>9. f = body(f)
  <2>1. f = [i \in D |-> f[i]]
    OBVIOUS
  <2> HIDE DEF step, next, Stop, start, size
  <2> QED BY <1>8, <2>1
<1>10. high = body(high)
  <2>1. high = CHOOSE g : g = body(g)
    OBVIOUS
  <2> HIDE DEF body, high
  <2> QED BY <1>9, <2>1
<1>11. \A i \in 1 .. 8 : high[i] = IF i = 8 THEN x[8] ELSE x[i] + 256 * high[i + 1]
  <2> HIDE DEF high
  <2> QED BY <1>10
<1> HIDE DEF high, body, step, next, Stop, start, size
<1>12. /\ high[8] = x[8] /\ high[7] = x[7] + 256 * high[8] /\ high[6] = x[6] + 256 * high[7]
       /\ high[5] = x[5] + 256 * high[6] /\ high[4] = x[4] + 256 * high[5]
       /\ high[3] = x[3] + 256 * high[4] /\ high[2] = x[2] + 256 * high[3]
       /\ high[1] = x[1] + 256 * high[2]
  BY <1>11
<1>13. high[1] = x[1] + 256 * (x[2] + 256 * (x[3] + 256 * (x[4] + 256 *
                    (x[5] + 256 * (x[6] + 256 * (x[7] + 256 * x[8]))))))
  BY <1>12
<1>14. high[8] \in Nat /\ high[7] \in Nat /\ high[6] \in Nat /\ high[5] \in Nat
  BY <1>2, <1>12
<1>15. high[4] \in Nat /\ high[3] \in Nat /\ high[2] \in Nat /\ high[1] \in Nat
  BY <1>2, <1>12, <1>14
<1> QED BY <1>1, <1>13, <1>15

LEMMA ToLeBytesValue ==
  ASSUME NEW n \in Nat, n < OffsetLimit
  PROVE  /\ ToLeBytes(n) \in Bytes /\ Len(ToLeBytes(n)) = 8
         /\ FromLeBytes(ToLeBytes(n)) = n
<1> DEFINE left[i \in 1 .. 8] == IF i = 1 THEN n ELSE left[i - 1] \div 256
           body(f) == [i \in 1 .. 8 |-> IF i = 1 THEN n ELSE f[i - 1] \div 256]
           D == 1 .. 8
           step == [d \in D \X Nat |-> d[2] \div 256]
           x == ToLeBytes(n)
<1>1. x = [i \in 1 .. 8 |-> left[i] % 256]
  BY DEF ToLeBytes
<1>2. step \in [D \X Nat -> Nat]
  <2>1. \A d \in D \X Nat : d[2] \div 256 \in Nat
    BY DivMod
  <2> QED BY <2>1
<1>3. \E f \in [D -> Nat] : \A i \in D : f[i] = IF i = 1 THEN n ELSE step[<<i, f[i - 1]>>]
  <2> DEFINE S == Nat
  <2>1. D \subseteq Nat /\ 1 \in Nat /\ (\A i \in D : i # 1 => i - 1 \in D)
    OBVIOUS
  <2> HIDE DEF D, step
  <2>2. Ascends(D, 1, S, n, step)
    BY <1>2, <2>1 DEF Ascends
  <2> HIDE DEF S
  <2>3. \E f \in [D -> S] : \A i \in D : f[i] = IF i = 1 THEN n ELSE step[<<i, f[i - 1]>>]
    BY <2>2, UpRecursion
  <2> QED BY <2>3 DEF S
<1>4. PICK f \in [D -> Nat] : \A i \in D : f[i] = IF i = 1 THEN n ELSE step[<<i, f[i - 1]>>]
  BY <1>3
<1>5. ASSUME NEW i \in D PROVE f[i] = IF i = 1 THEN n ELSE f[i - 1] \div 256
  <2>1. CASE i = 1
    BY <1>4, <2>1
  <2>2. CASE i # 1
    <3> DEFINE d == <<i, f[i - 1]>>
    <3>1. d \in D \X Nat /\ d[2] = f[i - 1]
      BY <2>2
    <3>2. f[i] = step[d]
      <4> HIDE DEF step
      <4> QED BY <1>4, <2>2
    <3> HIDE DEF d
    <3> QED BY <2>2, <3>1, <3>2
  <2> QED BY <2>1, <2>2
<1>6. f = body(f)
  <2>1. f = [i \in D |-> f[i]]
    OBVIOUS
  <2> HIDE DEF step
  <2> QED BY <1>5, <2>1
<1>7. left = body(left)
  <2>1. left = CHOOSE g : g = body(g)
    OBVIOUS
  <2> HIDE DEF body, left
  <2> QED BY <1>6, <2>1
<1>8. \A i \in 1 .. 8 : left[i] = IF i = 1 THEN n ELSE left[i - 1] \div 256
  <2> HIDE DEF left
  <2> QED BY <1>7
<1> HIDE DEF left, body, step, x
<1> DEFINE l1 == left[1]
           l2 == left[2]
           l3 == left[3]
           l4 == left[4]
           l5 == left[5]
           l6 == left[6]
           l7 == left[7]
           l8 == left[8]
<1>9. /\ l1 = n /\ l2 = l1 \div 256 /\ l3 = l2 \div 256 /\ l4 = l3 \div 256 /\ l5 = l4 \div 256
      /\ l6 = l5 \div 256 /\ l7 = l6 \div 256 /\ l8 = l7 \div 256
  BY <1>8
<1>10. /\ x[1] = l1 % 256 /\ x[2] = l2 % 256 /\ x[3] = l3 % 256 /\ x[4] = l4 % 256
       /\ x[5] = l5 % 256 /\ x[6] = l6 % 256 /\ x[7] = l7 % 256 /\ x[8] = l8 % 256
  BY <1>1
<1> HIDE DEF l1, l2, l3, l4, l5, l6, l7, l8
<1>11. /\ l1 \in Nat /\ l2 \in Nat /\ l3 \in Nat /\ l4 \in Nat
       /\ l5 \in Nat /\ l6 \in Nat /\ l7 \in Nat /\ l8 \in Nat
  <2> DEFINE Half(l) == l \div 256
  <2>1. \A l \in Nat : Half(l) \in Nat
    BY DivMod
  <2>2. /\ l1 = n /\ l2 = Half(l1) /\ l3 = Half(l2) /\ l4 = Half(l3) /\ l5 = Half(l4)
        /\ l6 = Half(l5) /\ l7 = Half(l6) /\ l8 = Half(l7)
    BY <1>9
  <2> HIDE DEF Half
  <2> QED BY <2>1, <2>2
<1>13. \A l \in Nat : l % 256 \in 0 .. 255 /\ l = 256 * (l \div 256) + (l % 256)
  <2> SUFFICES ASSUME NEW l \in Nat
               PROVE  l % 256 \in 0 .. 255 /\ l = 256 * (l \div 256) + (l % 256)
    OBVIOUS
  <2> QED OBVIOUS
<1>14. /\ l1 = 256 * l2 + x[1] /\ l2 = 256 * l3 + x[2] /\ l3 = 256 * l4 + x[3]
       /\ l4 = 256 * l5 + x[4] /\ l5 = 256 * l6 + x[5] /\ l6 = 256 * l7 + x[6]
       /\ l7 = 256 * l8 + x[7]
  <2>1. l1 = 256 * l2 + x[1]
    <3>1. l1 \in Nat /\ l2 = l1 \div 256 /\ x[1] = l1 % 256
      BY <1>9, <1>10, <1>11
    <3>2. l1 = 256 * (l1 \div 256) + (l1 % 256)
      BY <3>1
    <3> QED BY <3>1, <3>2, Zenon
  <2>2. l2 = 256 * l3 + x[2]
    <3>1. l2 \in Nat /\ l3 = l2 \div 256 /\ x[2] = l2 % 256
      BY <1>9, <1>10, <1>11
    <3>2. l2 = 256 * (l2 \div 256) + (l2 % 256)
      BY <3>1
    <3> QED BY <3>1, <3>2, Zenon
  <2>3. l3 = 256 * l4 + x[3]
    <3>1. l3 \in Nat /\ l4 = l3 \div 256 /\ x[3] = l3 % 256
      BY <1>9, <1>10, <1>11
    <3>2. l3 = 256 * (l3 \div 256) + (l3 % 256)
      BY <3>1
    <3> QED BY <3>1, <3>2, Zenon
  <2>4. l4 = 256 * l5 + x[4]
    <3>1. l4 \in Nat /\ l5 = l4 \div 256 /\ x[4] = l4 % 256
      BY <1>9, <1>10, <1>11
    <3>2. l4 = 256 * (l4 \div 256) + (l4 % 256)
      BY <3>1
    <3> QED BY <3>1, <3>2, Zenon
  <2>5. l5 = 256 * l6 + x[5]
    <3>1. l5 \in Nat /\ l6 = l5 \div 256 /\ x[5] = l5 % 256
      BY <1>9, <1>10, <1>11
    <3>2. l5 = 256 * (l5 \div 256) + (l5 % 256)
      BY <3>1
    <3> QED BY <3>1, <3>2, Zenon
  <2>6. l6 = 256 * l7 + x[6]
    <3>1. l6 \in Nat /\ l7 = l6 \div 256 /\ x[6] = l6 % 256
      BY <1>9, <1>10, <1>11
    <3>2. l6 = 256 * (l6 \div 256) + (l6 % 256)
      BY <3>1
    <3> QED BY <3>1, <3>2, Zenon
  <2>7. l7 = 256 * l8 + x[7]
    <3>1. l7 \in Nat /\ l8 = l7 \div 256 /\ x[7] = l7 % 256
      BY <1>9, <1>10, <1>11
    <3>2. l7 = 256 * (l7 \div 256) + (l7 % 256)
      BY <3>1
    <3> QED BY <3>1, <3>2, Zenon
  <2> QED BY <2>1, <2>2, <2>3, <2>4, <2>5, <2>6, <2>7
<1>15. \A i \in 1 .. 8 : x[i] \in Byte
  <2>1. x[1] \in 0 .. 255 /\ x[2] \in 0 .. 255 /\ x[3] \in 0 .. 255 /\ x[4] \in 0 .. 255
    BY <1>10, <1>11, <1>13
  <2>2. x[5] \in 0 .. 255 /\ x[6] \in 0 .. 255 /\ x[7] \in 0 .. 255 /\ x[8] \in 0 .. 255
    BY <1>10, <1>11, <1>13
  <2> QED BY <2>1, <2>2 DEF Byte
<1>16. x \in Bytes /\ Len(x) = 8
  BY <1>1, <1>15 DEF Bytes
<1>17. \A i \in 1 .. 8 : x[i] \in Nat /\ x[i] < 256
  <2> SUFFICES ASSUME NEW i \in 1 .. 8 PROVE x[i] \in Nat /\ x[i] < 256
    OBVIOUS
  <2>1. x[i] \in 0 .. 255
    BY <1>15 DEF Byte
  <2> QED BY <2>1
<1>18. l8 < 256
  <2>0. l1 < 256 * 256 * 256 * 256 * 256 * 256 * 256 * 256
    BY <1>9 DEF OffsetLimit
  <2>1. l2 < 256 * 256 * 256 * 256 * 256 * 256 * 256
    BY <1>11, <1>14, <1>17, <2>0
  <2>2. l3 < 256 * 256 * 256 * 256 * 256 * 256
    BY <1>11, <1>14, <1>17, <2>1
  <2>3. l4 < 256 * 256 * 256 * 256 * 256
    BY <1>11, <1>14, <1>17, <2>2
  <2>4. l5 < 256 * 256 * 256 * 256
    BY <1>11, <1>14, <1>17, <2>3
  <2>5. l6 < 256 * 256 * 256
    BY <1>11, <1>14, <1>17, <2>4
  <2>6. l7 < 256 * 256
    BY <1>11, <1>14, <1>17, <2>5
  <2> QED BY <1>11, <1>14, <1>17, <2>6
<1>19. x[8] = l8
  BY <1>10, <1>11, <1>18
<1>20. FromLeBytes(x) = x[1] + 256 * (x[2] + 256 * (x[3] + 256 * (x[4] + 256 *
                          (x[5] + 256 * (x[6] + 256 * (x[7] + 256 * x[8]))))))
  BY <1>16, FromLeBytesValue
<1>21. FromLeBytes(x) = n
  <2>1. \A i \in 1 .. 8 : x[i] \in Int
    BY <1>17
  <2>2. x[7] + 256 * x[8] = l7 /\ x[6] + 256 * l7 = l6 /\ x[5] + 256 * l6 = l5
    BY <1>11, <1>14, <1>19, <2>1
  <2>3. x[4] + 256 * l5 = l4 /\ x[3] + 256 * l4 = l3 /\ x[2] + 256 * l3 = l2 /\ x[1] + 256 * l2 = l1
    BY <1>11, <1>14, <2>1
  <2>4. FromLeBytes(x) = x[1] + 256 * (x[2] + 256 * (x[3] + 256 * (x[4] + 256 * l5)))
    <3>1. FromLeBytes(x) = x[1] + 256 * (x[2] + 256 * (x[3] + 256 * (x[4] + 256 *
                              (x[5] + 256 * (x[6] + 256 * l7)))))
      BY <1>20, <2>2
    <3> QED BY <2>2, <3>1
  <2>5. FromLeBytes(x) = x[1] + 256 * (x[2] + 256 * l3)
    BY <2>3, <2>4
  <2>6. FromLeBytes(x) = x[1] + 256 * l2
    BY <2>3, <2>5
  <2>7. FromLeBytes(x) = l1
    BY <2>3, <2>6, Zenon
  <2> QED BY <1>9, <2>7
<1> QED BY <1>16, <1>21 DEF x

LEMMA OffsetReader ==
  /\ Reader(ReadTxOffset, Nat)
  /\ \A s \in Bytes : \A r \in ReadTxOffset[s] : Len(r[2]) < Len(s)
<1> DEFINE R == ReadTxOffset
           Value(s) == FromLeBytes(SubSeq(s, 1, 8))
<1>1. ASSUME NEW s \in Bytes
      PROVE  R[s] = IF Len(s) < 8 THEN {} ELSE {<<Value(s), After(8, s)>>}
  BY DEF ReadTxOffset
<1>2. R = [s \in Bytes |-> R[s]]
  BY DEF ReadTxOffset
<1>3. ASSUME NEW s \in Bytes, ~(Len(s) < 8)
      PROVE  /\ Value(s) \in Nat
             /\ After(8, s) \in Bytes /\ Len(After(8, s)) = Len(s) - 8
             /\ Len(s) \in Nat /\ 8 <= Len(s)
             /\ \A q \in Bytes : /\ SubSeq(s \o q, 1, 8) = SubSeq(s, 1, 8)
                                 /\ After(8, s \o q) = After(8, s) \o q
  <2>1. Len(s) \in Nat /\ 8 <= Len(s) /\ 8 \in Nat
    BY <1>3, LenProperties DEF Bytes
  <2> DEFINE n == 8
  <2>2. n \in Nat /\ n <= Len(s)
    BY <2>1
  <2> HIDE DEF n
  <2>3. /\ SubSeq(s, 1, n) \in Bytes /\ Len(SubSeq(s, 1, n)) = n
        /\ After(n, s) \in Bytes /\ Len(After(n, s)) = Len(s) - n
    BY <2>2, Split
  <2>4. \A q \in Bytes : /\ SubSeq(s \o q, 1, n) = SubSeq(s, 1, n)
                         /\ After(n, s \o q) = After(n, s) \o q
    BY <2>2, SplitConcat
  <2> DEFINE t == SubSeq(s, 1, n)
  <2>5. t \in Bytes /\ Len(t) = 8
    BY <2>3 DEF n
  <2> HIDE DEF t
  <2>6. FromLeBytes(t) \in Nat
    BY <2>5, FromLeBytesValue
  <2> QED BY <2>1, <2>3, <2>4, <2>6 DEF n, t
<1> HIDE DEF R
<1>4. ASSUME NEW s \in Bytes, NEW r \in R[s]
      PROVE  /\ r \in Nat \X Bytes
             /\ Len(r[2]) < Len(s) /\ Len(r[2]) <= Len(s)
             /\ \A q \in Bytes : R[s \o q] = {<<r[1], r[2] \o q>>}
  <2>1. ~(Len(s) < 8) /\ r = <<Value(s), After(8, s)>>
    BY <1>1
  <2> DEFINE a == After(8, s)
             v == Value(s)
  <2>2. v \in Nat /\ a \in Bytes /\ Len(a) = Len(s) - 8 /\ Len(s) \in Nat /\ 8 <= Len(s)
    BY <1>3, <2>1
  <2>3. r[1] = v /\ r[2] = a /\ r = <<v, a>>
    BY <2>1
  <2>4. ASSUME NEW q \in Bytes PROVE R[s \o q] = {<<v, a \o q>>}
    <3> DEFINE x == s \o q
    <3>1. x \in Bytes /\ Len(x) = Len(s) + Len(q) /\ Len(q) \in Nat
      BY ConcatBytes
    <3>2. Value(x) = v /\ After(8, x) = a \o q
      BY <1>3, <2>1
    <3>3. ~(Len(x) < 8)
      <4> HIDE DEF x, a, v
      <4> QED BY <2>2, <3>1
    <3>4. R[x] = {<<Value(x), After(8, x)>>}
      <4> HIDE DEF x
      <4> QED BY <1>1, <3>1, <3>3
    <3> QED BY <3>2, <3>4
  <2>5. Len(a) < Len(s) /\ Len(a) <= Len(s)
    <3> HIDE DEF a
    <3> QED BY <2>2
  <2>6. r \in Nat \X Bytes
    <3> HIDE DEF a, v
    <3> QED BY <2>2, <2>3
  <2> HIDE DEF a, v
  <2> QED BY <2>3, <2>4, <2>5, <2>6
<1>5. R \in [Bytes -> SUBSET (Nat \X Bytes)]
  BY <1>2, <1>4
<1>6. Reader(R, Nat)
  <2> DEFINE V == Nat
  <2>1. R \in [Bytes -> SUBSET (V \X Bytes)]
    BY <1>5
  <2> HIDE DEF V
  <2>2. Reader(R, V)
    BY <1>4, <2>1, IsReader
  <2> QED BY <2>2 DEF V
<1> QED BY <1>4, <1>6 DEF R

LEMMA OffsetReads ==
  ASSUME NEW n \in Nat, n < OffsetLimit
  PROVE  Reads(ReadTxOffset, ToLeBytes(n), n)
<1> DEFINE x == ToLeBytes(n)
<1>1. x \in Bytes /\ Len(x) = 8 /\ FromLeBytes(x) = n
  BY ToLeBytesValue
<1> HIDE DEF x
<1>2. SubSeq(x, 1, Len(x)) = x /\ After(Len(x), x) = << >>
  <2>1. << >> \in Bytes /\ x \o << >> = x
    BY <1>1, ConcatBytes
  <2>2. SubSeq(x \o << >>, 1, Len(x)) = x /\ After(Len(x), x \o << >>) = << >>
    BY <1>1, <2>1, SplitBehind
  <2> QED BY <2>1, <2>2
<1>3. ReadTxOffset[x] = {<<FromLeBytes(SubSeq(x, 1, 8)), After(8, x)>>}
  <2>1. ReadTxOffset[x] = IF Len(x) < 8 THEN {}
                          ELSE {<<FromLeBytes(SubSeq(x, 1, 8)), After(8, x)>>}
    BY <1>1 DEF ReadTxOffset
  <2> QED BY <1>1, <2>1
<1>4. ReadTxOffset[x] = {<<n, << >>>>}
  BY <1>1, <1>2, <1>3
<1> QED BY <1>1, <1>4 DEF Reads, x

-----------------------------------------------------------------------------
(***************************************************************************)
(* The entries of the log.                                                 *)
(***************************************************************************)

LogEntries == [tx_offset : Nat, tx_data : TxDatas]

LogEntryFrom == [u \in Nat \X TxDatas |-> [tx_offset |-> u[1], tx_data |-> u[2]]]

LEMMA LogEntryForm ==
  /\ Reader(Then(ReadTxOffset, DeserializeTxData), Nat \X TxDatas)
  /\ LogEntryFrom \in [Nat \X TxDatas -> LogEntries]
  /\ DeserializeLogEntry = As(LogEntryFrom, Then(ReadTxOffset, DeserializeTxData))
<1> DEFINE U == Nat \X TxDatas
           R == Then(ReadTxOffset, DeserializeTxData)
           form == LogEntryFrom
<1>1. Reader(R, U)
  BY OffsetReader, TxDataReader, ThenReader
<1>2. form \in [U -> LogEntries]
  BY DEF LogEntryFrom, LogEntries
<1>3. ASSUME NEW s \in Bytes
      PROVE  DeserializeLogEntry[s] = {<<[tx_offset |-> l[1][1], tx_data |-> l[1][2]], l[2]>> : l \in R[s]}
  BY DEF DeserializeLogEntry
<1>4. ASSUME NEW s \in Bytes PROVE As(form, R)[s] = {<<form[l[1]], l[2]>> : l \in R[s]}
  BY DEF As
<1>5. /\ DeserializeLogEntry = [s \in Bytes |-> DeserializeLogEntry[s]]
      /\ As(form, R) = [s \in Bytes |-> As(form, R)[s]]
  BY DEF As, DeserializeLogEntry
<1> HIDE DEF R
<1>6. ASSUME NEW s \in Bytes, NEW l \in R[s]
      PROVE  form[l[1]] = [tx_offset |-> l[1][1], tx_data |-> l[1][2]]
  <2>1. l[1] \in U
    <3> HIDE DEF U
    <3> QED BY <1>1, ReaderOne
  <2> QED BY <2>1 DEF LogEntryFrom
<1> HIDE DEF form
<1>7. ASSUME NEW s \in Bytes PROVE DeserializeLogEntry[s] = As(form, R)[s]
  <2> DEFINE L == DeserializeLogEntry[s]
             A == As(form, R)[s]
  <2>1. ASSUME NEW x \in L PROVE x \in A
    <3>1. PICK l \in R[s] : x = <<[tx_offset |-> l[1][1], tx_data |-> l[1][2]], l[2]>>
      BY <1>3
    <3>2. x = <<form[l[1]], l[2]>>
      BY <1>6, <3>1
    <3> QED BY <1>4, <3>2
  <2>2. ASSUME NEW x \in A PROVE x \in L
    <3>1. PICK l \in R[s] : x = <<form[l[1]], l[2]>>
      BY <1>4
    <3>2. x = <<[tx_offset |-> l[1][1], tx_data |-> l[1][2]], l[2]>>
      BY <1>6, <3>1
    <3> QED BY <1>3, <3>2
  <2> HIDE DEF L, A
  <2>3. L = A
    BY <2>1, <2>2
  <2> QED BY <2>3 DEF L, A
<1>8. DeserializeLogEntry = As(form, R)
  BY <1>5, <1>7
<1> QED BY <1>1, <1>2, <1>8 DEF R, form

\* An entry takes some of the bytes, so that there is an end to reading them.
LEMMA LogEntryReader ==
  /\ Reader(DeserializeLogEntry, LogEntries)
  /\ \A s \in Bytes : \A r \in DeserializeLogEntry[s] : Len(r[2]) < Len(s)
<1> DEFINE U == Nat \X TxDatas
           R == Then(ReadTxOffset, DeserializeTxData)
<1>1. Reader(R, U) /\ LogEntryFrom \in [U -> LogEntries]
  BY LogEntryForm
<1>2. ASSUME NEW s \in Bytes, NEW l \in R[s] PROVE Len(l[2]) < Len(s)
  <2>1. PICK a \in ReadTxOffset[s] : \E b \in DeserializeTxData[a[2]] : l = << <<a[1], b[1]>>, b[2]>>
    BY DEF Then
  <2>2. PICK b \in DeserializeTxData[a[2]] : l = << <<a[1], b[1]>>, b[2]>>
    BY <2>1
  <2> DEFINE t == a[2]
  <2>3. t \in Bytes /\ Len(t) < Len(s)
    BY OffsetReader, ReaderOne
  <2>4. b \in DeserializeTxData[t]
    OBVIOUS
  <2> HIDE DEF t
  <2>5. b[2] \in Bytes /\ Len(b[2]) <= Len(t)
    BY <2>3, <2>4, TxDataReader, ReaderOne
  <2>6. Len(b[2]) \in Nat /\ Len(t) \in Nat /\ Len(s) \in Nat
    BY <2>3, <2>5, LenProperties DEF Bytes
  <2>7. l[2] = b[2]
    BY <2>2
  <2> QED BY <2>3, <2>5, <2>6, <2>7
<1> HIDE DEF U, R
<1>3. Reader(As(LogEntryFrom, R), LogEntries)
  BY <1>1, AsReader
<1>4. ASSUME NEW s \in Bytes, NEW r \in As(LogEntryFrom, R)[s] PROVE Len(r[2]) < Len(s)
  <2>1. PICK l \in R[s] : r = <<LogEntryFrom[l[1]], l[2]>>
    BY DEF As
  <2>2. r[2] = l[2]
    BY <2>1
  <2> QED BY <1>2, <2>2
<1> QED BY <1>3, <1>4, LogEntryForm DEF R

\* The entries whose offset is a u64.
Writables == {e \in LogEntries : e.tx_offset < OffsetLimit}

LEMMA LogEntryReads ==
  ASSUME NEW e \in Writables
  PROVE  Reads(DeserializeLogEntry, SerializeLogEntry(e), e)
<1> DEFINE n == e.tx_offset
           data == e.tx_data
           First == ReadTxOffset
           Second == DeserializeTxData
           w == ToLeBytes(n)
           x == SerializeTxData(data)
           u == <<n, data>>
<1>1. n \in Nat /\ n < OffsetLimit /\ data \in TxDatas /\ e = [tx_offset |-> n, tx_data |-> data]
  BY DEF Writables, LogEntries
<1>2. Reads(First, w, n) /\ Reads(Second, x, data)
  BY <1>1, OffsetReads, TxDataReads
<1>3. SerializeLogEntry(e) = w \o x
  BY DEF SerializeLogEntry
<1>4. LogEntryFrom[u] = e
  BY <1>1 DEF LogEntryFrom
<1>5. Reader(First, Nat) /\ Reader(Second, TxDatas)
  BY OffsetReader, TxDataReader
<1>6. DeserializeLogEntry = As(LogEntryFrom, Then(First, Second))
  BY LogEntryForm
<1> HIDE DEF n, data, First, Second, w, x
<1>7. Reads(Then(First, Second), w \o x, u)
  BY <1>2, <1>5, ThenReads
<1> HIDE DEF u
<1>8. Reads(As(LogEntryFrom, Then(First, Second)), w \o x, LogEntryFrom[u])
  BY <1>7, AsReads
<1> QED BY <1>3, <1>4, <1>6, <1>8

LEMMA IterValue ==
  ASSUME NEW s \in Bytes
  PROVE  /\ DeserializeLogEntry[s] = {} => Iter(s) = << >>
         /\ \A r \in DeserializeLogEntry[s] : Iter(s) = <<r[1]>> \o Iter(r[2])
<1> DEFINE R == DeserializeLogEntry
           Read(t) == CHOOSE r \in R[t] : TRUE
           entries[rest \in Bytes] ==
             LET reads == DeserializeLogEntry[rest]
             IN  IF reads = {} THEN << >>
                 ELSE LET read == CHOOSE r \in reads : TRUE
                      IN  <<read[1]>> \o entries[read[2]]
           body(f) == [t \in Bytes |-> IF R[t] = {} THEN << >> ELSE <<Read(t)[1]>> \o f[Read(t)[2]]]
           S == Seq(LogEntries)
           Stop == {t \in Bytes : R[t] = {}}
           size == [t \in Bytes |-> Len(t)]
           start == [t \in Bytes |-> << >>]
           next == [t \in Bytes |-> IF R[t] = {} THEN t ELSE Read(t)[2]]
           step == [d \in Bytes \X S |-> IF R[d[1]] = {} THEN << >> ELSE <<Read(d[1])[1]>> \o d[2]]
<1>1. \A t \in Bytes : Iter(t) = entries[t]
  BY DEF Iter
<1>2. ASSUME NEW t \in Bytes, NEW r \in R[t]
      PROVE  /\ R[t] = {r} /\ Read(t) = r
             /\ r[1] \in LogEntries /\ r[2] \in Bytes
             /\ Len(r[2]) < Len(t) /\ Len(t) \in Nat /\ Len(r[2]) \in Nat
  <2>1. R[t] = {r} /\ r[1] \in LogEntries /\ r[2] \in Bytes
    BY LogEntryReader, ReaderOne
  <2>2. Read(t) = r
    BY <2>1
  <2>3. Len(r[2]) < Len(t)
    BY LogEntryReader
  <2>4. Len(t) \in Nat /\ Len(r[2]) \in Nat
    BY <2>1, LenProperties DEF Bytes
  <2> QED BY <2>1, <2>2, <2>3, <2>4
<1> HIDE DEF R, Read
<1>3. ASSUME NEW t \in Bytes, R[t] # {}
      PROVE  Read(t) \in R[t]
  BY <1>2, <1>3
<1>4. size \in [Bytes -> Nat]
  BY LenProperties DEF Bytes
<1>5. start \in [Bytes -> S] /\ next \in [Bytes -> Bytes]
  <2>1. << >> \in S
    OBVIOUS
  <2>2. \A t \in Bytes : R[t] # {} => Read(t)[2] \in Bytes
    BY <1>2, <1>3
  <2> QED BY <2>1, <2>2
<1>6. step \in [Bytes \X S -> S]
  <2> SUFFICES ASSUME NEW d \in Bytes \X S
               PROVE  (IF R[d[1]] = {} THEN << >> ELSE <<Read(d[1])[1]>> \o d[2]) \in S
    OBVIOUS
  <2>1. CASE R[d[1]] = {}
    BY <2>1
  <2>2. CASE R[d[1]] # {}
    <3>1. Read(d[1])[1] \in LogEntries /\ d[2] \in Seq(LogEntries)
      BY <1>2, <1>3, <2>2
    <3>2. <<Read(d[1])[1]>> \in Seq(LogEntries)
      BY <3>1
    <3>3. <<Read(d[1])[1]>> \o d[2] \in Seq(LogEntries)
      BY <3>1, <3>2, ConcatProperties
    <3> QED BY <2>2, <3>3
  <2> QED BY <2>1, <2>2
<1>7. \A t \in Bytes : t \notin Stop => size[next[t]] < size[t]
  <2> SUFFICES ASSUME NEW t \in Bytes, R[t] # {} PROVE size[next[t]] < size[t]
    OBVIOUS
  <2>1. Len(Read(t)[2]) < Len(t) /\ Read(t)[2] \in Bytes
    BY <1>2, <1>3
  <2> QED BY <2>1
<1>8. \E f \in [Bytes -> S] :
        \A t \in Bytes : f[t] = IF t \in Stop THEN start[t] ELSE step[<<t, f[next[t]]>>]
  <2> HIDE DEF size, start, next, step, Stop, S
  <2>1. Descends(Bytes, S, size, Stop, start, next, step)
    BY <1>4, <1>5, <1>6, <1>7 DEF Descends
  <2> QED BY <2>1, Recursion
<1>9. PICK f \in [Bytes -> S] :
        \A t \in Bytes : f[t] = IF t \in Stop THEN start[t] ELSE step[<<t, f[next[t]]>>]
  BY <1>8
<1>10. ASSUME NEW t \in Bytes
       PROVE  f[t] = IF R[t] = {} THEN << >> ELSE <<Read(t)[1]>> \o f[Read(t)[2]]
  <2>1. CASE R[t] = {}
    BY <1>9, <2>1
  <2>2. CASE R[t] # {}
    <3> DEFINE d == <<t, f[Read(t)[2]]>>
    <3>1. t \notin Stop /\ next[t] = Read(t)[2] /\ Read(t)[2] \in Bytes
      BY <1>2, <1>3, <2>2
    <3>2. f[t] = step[d] /\ d \in Bytes \X S
      <4> HIDE DEF step, start, Stop, next, S
      <4> QED BY <1>9, <3>1
    <3>3. d[1] = t /\ d[2] = f[Read(t)[2]]
      OBVIOUS
    <3> HIDE DEF d, S
    <3> QED BY <2>2, <3>2, <3>3
  <2> QED BY <2>1, <2>2
<1>11. f = body(f)
  <2>1. f = [t \in Bytes |-> f[t]]
    OBVIOUS
  <2> HIDE DEF step, start, Stop, next, S
  <2> QED BY <1>10, <2>1
<1>12. entries = body(entries)
  <2>1. entries = CHOOSE g : g = body(g)
    BY DEF R, Read
  <2> HIDE DEF body, entries
  <2> QED BY <1>11, <2>1
<1>13. \A t \in Bytes :
         entries[t] = IF R[t] = {} THEN << >> ELSE <<Read(t)[1]>> \o entries[Read(t)[2]]
  <2> HIDE DEF entries
  <2> QED BY <1>12
<1> HIDE DEF entries
<1>14. ASSUME R[s] = {} PROVE Iter(s) = << >>
  BY <1>1, <1>13, <1>14
<1>15. ASSUME NEW r \in R[s] PROVE Iter(s) = <<r[1]>> \o Iter(r[2])
  <2>1. R[s] # {} /\ Read(s) = r /\ r[2] \in Bytes
    BY <1>2
  <2>2. entries[s] = <<Read(s)[1]>> \o entries[Read(s)[2]]
    BY <1>13, <2>1
  <2>3. Iter(s) = entries[s] /\ Iter(r[2]) = entries[r[2]]
    BY <1>1, <2>1
  <2> QED BY <2>1, <2>2, <2>3
<1> QED BY <1>14, <1>15 DEF R

\* An entry, and what is behind it.
LEMMA IterInFront ==
  ASSUME NEW e \in Writables, NEW q \in Bytes
  PROVE  Iter(SerializeLogEntry(e) \o q) = <<e>> \o Iter(q)
<1> DEFINE w == SerializeLogEntry(e)
           x == w \o q
           r == <<e, q>>
<1>1. Reads(DeserializeLogEntry, w, e)
  BY LogEntryReads
<1> HIDE DEF w
<1>2. DeserializeLogEntry[x] = {r} /\ w \in Bytes
  BY <1>1, LogEntryReader, ReadsInFront
<1>3. x \in Bytes /\ r[1] = e /\ r[2] = q
  BY <1>2, ConcatBytes
<1> HIDE DEF x, r
<1>4. Iter(x) = <<r[1]>> \o Iter(r[2])
  BY <1>2, <1>3, IterValue
<1> QED BY <1>3, <1>4 DEF x, w

\* There is no entry in a part of one.
LEMMA IterNone ==
  ASSUME NEW e \in Writables, NEW p \in Bytes, NEW q \in Bytes, q # << >>,
         p \o q = SerializeLogEntry(e)
  PROVE  Iter(p) = << >>
<1>1. SUFFICES ASSUME NEW r \in DeserializeLogEntry[p] PROVE FALSE
  BY IterValue
<1>2. DeserializeLogEntry[p \o q] = {<<r[1], r[2] \o q>>} /\ r[2] \in Bytes
  <2>1. r[2] \in Bytes /\ \A t \in Bytes : DeserializeLogEntry[p \o t] = {<<r[1], r[2] \o t>>}
    BY LogEntryReader, ReaderOne, SMTT(30)
  <2> QED BY <2>1
<1>3. DeserializeLogEntry[p \o q] = {<<e, << >>>>}
  BY LogEntryReads DEF Reads
<1>4. r[2] \o q = << >>
  <2>1. <<r[1], r[2] \o q>> = <<e, << >>>>
    BY <1>2, <1>3
  <2> QED BY <2>1
<1>5. Len(r[2] \o q) = Len(r[2]) + Len(q) /\ Len(r[2]) \in Nat /\ Len(q) \in Nat
  BY <1>2, ConcatBytes
<1>6. Len(q) # 0
  BY EmptySeq DEF Bytes
<1>7. Len(r[2] \o q) = 0
  BY <1>4
<1> QED BY <1>5, <1>6, <1>7

LEMMA IterType ==
  ASSUME NEW s \in Bytes
  PROVE  Iter(s) \in Seq(LogEntries)
<1> DEFINE size == [t \in Bytes |-> Len(t)]
           T == {t \in Bytes : Iter(t) \in Seq(LogEntries)}
<1>1. size \in [Bytes -> Nat]
  BY LenProperties DEF Bytes
<1>2. ASSUME NEW t \in Bytes, \A u \in Bytes : size[u] < size[t] => u \in T
      PROVE  Iter(t) \in Seq(LogEntries)
  <2>1. CASE DeserializeLogEntry[t] = {}
    <3>1. Iter(t) = << >>
      BY <2>1, IterValue
    <3> QED BY <3>1
  <2>2. CASE DeserializeLogEntry[t] # {}
    <3>1. PICK r \in DeserializeLogEntry[t] : TRUE
      BY <2>2
    <3>2. r[1] \in LogEntries /\ r[2] \in Bytes /\ Len(r[2]) < Len(t)
      BY LogEntryReader, ReaderOne
    <3>3. Iter(r[2]) \in Seq(LogEntries)
      BY <1>2, <3>2
    <3>4. Iter(t) = <<r[1]>> \o Iter(r[2])
      BY IterValue
    <3>5. <<r[1]>> \in Seq(LogEntries)
      BY <3>2
    <3> QED BY <3>3, <3>4, <3>5, ConcatProperties
  <2> QED BY <2>1, <2>2
<1>3. Bytes \subseteq T
  <2>1. \A t \in Bytes : (\A u \in Bytes : size[u] < size[t] => u \in T) => t \in T
    BY <1>2
  <2> HIDE DEF T, size
  <2> QED BY <1>1, <2>1, SizeInduction
<1> QED BY <1>3

\* The bytes of entries.
Done(es) == FlattenSeq([i \in DOMAIN es |-> SerializeLogEntry(es[i])])

LEMMA DoneType ==
  ASSUME NEW es \in Seq(Writables)
  PROVE  /\ [i \in DOMAIN es |-> SerializeLogEntry(es[i])] \in Seq(Seq(Byte))
         /\ Len([i \in DOMAIN es |-> SerializeLogEntry(es[i])]) = Len(es)
         /\ Done(es) \in Bytes
<1> DEFINE ws == [i \in DOMAIN es |-> SerializeLogEntry(es[i])]
<1>1. Len(es) \in Nat /\ DOMAIN es = 1 .. Len(es) /\ \A i \in 1 .. Len(es) : es[i] \in Writables
  BY LenProperties, ElementOfSeq
<1>2. \A i \in 1 .. Len(es) : SerializeLogEntry(es[i]) \in Seq(Byte)
  BY <1>1, LogEntryReads DEF Reads, Bytes
<1>3. ws \in Seq(Seq(Byte)) /\ Len(ws) = Len(es)
  BY <1>1, <1>2
<1>4. FlattenSeq(ws) \in Seq(Byte)
  <2> HIDE DEF ws
  <2> QED BY <1>3, FlattenType
<1> QED BY <1>3, <1>4 DEF Done, Bytes

LEMMA DoneEmpty == Done(<< >>) = << >>
<1>1. [i \in DOMAIN << >> |-> SerializeLogEntry(<< >>[i])] = << >>
  OBVIOUS
<1> QED BY <1>1, FlattenEmpty DEF Done

LEMMA DoneAppend ==
  ASSUME NEW es \in Seq(Writables), NEW e \in Writables
  PROVE  Done(Append(es, e)) = Done(es) \o SerializeLogEntry(e)
<1> DEFINE fs == Append(es, e)
           w == SerializeLogEntry(e)
           ws == [i \in DOMAIN es |-> SerializeLogEntry(es[i])]
           xs == [i \in DOMAIN fs |-> SerializeLogEntry(fs[i])]
           n == Len(es)
<1>1. /\ fs \in Seq(Writables) /\ Len(fs) = n + 1 /\ fs[n + 1] = e
      /\ \A i \in 1 .. n : fs[i] = es[i]
  BY AppendProperties
<1>2. n \in Nat /\ DOMAIN es = 1 .. n
  BY LenProperties
<1>3. ws \in Seq(Seq(Byte)) /\ Len(ws) = n /\ \A i \in 1 .. n : ws[i] = SerializeLogEntry(es[i])
  BY <1>2, DoneType
<1>4. w \in Seq(Byte)
  BY LogEntryReads DEF Reads, Bytes
<1>5. /\ xs \in Seq(Seq(Byte)) /\ Len(xs) = n + 1
      /\ \A i \in 1 .. n + 1 : xs[i] = SerializeLogEntry(fs[i])
  <2>1. DOMAIN fs = 1 .. n + 1
    BY <1>1, LenProperties
  <2> HIDE DEF fs
  <2> QED BY <1>1, <2>1, DoneType
<1> HIDE DEF ws, w, fs
<1>6. /\ Append(ws, w) \in Seq(Seq(Byte)) /\ Len(Append(ws, w)) = n + 1
      /\ Append(ws, w)[n + 1] = w /\ \A i \in 1 .. n : Append(ws, w)[i] = ws[i]
  BY <1>3, <1>4, AppendProperties
<1>7. \A i \in 1 .. n + 1 : xs[i] = Append(ws, w)[i]
  <2> SUFFICES ASSUME NEW i \in 1 .. n + 1 PROVE xs[i] = Append(ws, w)[i]
    OBVIOUS
  <2> HIDE DEF xs, n
  <2>1. CASE i = n + 1
    BY <1>1, <1>5, <1>6, <2>1 DEF w
  <2>2. CASE i # n + 1
    <3>1. i \in 1 .. n
      BY <1>2, <2>2
    <3> QED BY <1>1, <1>3, <1>5, <1>6, <3>1
  <2> QED BY <2>1, <2>2
<1>8. xs = Append(ws, w)
  <2> HIDE DEF xs
  <2> QED BY <1>5, <1>6, <1>7, SeqEqual
<1>9. FlattenSeq(Append(ws, w)) = FlattenSeq(ws) \o w
  BY <1>3, <1>4, FlattenAppend
<1> QED BY <1>8, <1>9 DEF Done, xs, ws, w, fs

LEMMA IterDone ==
  ASSUME NEW es \in Seq(Writables), NEW q \in Bytes
  PROVE  Iter(Done(es) \o q) = es \o Iter(q)
<1> DEFINE n == Len(es)
           First(m) == SubSeq(es, 1, m)
           Good(m) == \A t \in Bytes : Iter(Done(First(m)) \o t) = First(m) \o Iter(t)
           T == {m \in 0 .. n : Good(m)}
<1>1. n \in Nat
  BY LenProperties
<1>2. Good(0)
  <2>1. First(0) = << >>
    BY SubSeqEmpty
  <2>2. \A t \in Bytes : << >> \o t = t /\ << >> \o Iter(t) = Iter(t)
    BY ConcatBytes, IterType, ConcatEmptySeq
  <2> QED BY <2>1, <2>2, DoneEmpty
<1>3. ASSUME NEW m \in 0 .. n - 1, m \in T PROVE m + 1 \in T
  <2> DEFINE f == First(m)
             e == es[m + 1]
             w == SerializeLogEntry(e)
  <2>1. m \in 0 .. n /\ m < n /\ m + 1 \in 0 .. n
    BY <1>1
  <2>2. f \in Seq(Writables) /\ e \in Writables /\ First(m + 1) = Append(f, e)
    BY <2>1, Prefix
  <2>3. \A t \in Bytes : Iter(Done(f) \o t) = f \o Iter(t)
    BY <1>3
  <2> DEFINE g == First(m + 1)
  <2> HIDE DEF f, e, g
  <2>4. Done(g) = Done(f) \o w /\ Done(f) \in Bytes /\ w \in Bytes
    BY <2>2, DoneAppend, DoneType, LogEntryReads DEF Reads, g
  <2>5. g = f \o <<e>>
    BY <2>2, AppendIsConcat DEF g
  <2>6. ASSUME NEW t \in Bytes PROVE Iter(Done(g) \o t) = g \o Iter(t)
    <3>1. w \o t \in Bytes /\ Done(g) \o t = Done(f) \o (w \o t)
      <4> DEFINE d == Done(f)
      <4>1. d \in Bytes /\ w \in Bytes /\ Done(g) = d \o w
        BY <2>4
      <4> HIDE DEF d, w
      <4>2. w \o t \in Bytes
        BY <4>1, ConcatBytes
      <4>3. (d \o w) \o t = d \o (w \o t)
        BY <4>1, ConcatThree
      <4> QED BY <4>1, <4>2, <4>3 DEF d
    <3>2. Iter(w \o t) = <<e>> \o Iter(t)
      BY <2>2, IterInFront
    <3>3. Iter(Done(g) \o t) = f \o (<<e>> \o Iter(t))
      BY <2>3, <3>1, <3>2
    <3>4. (f \o <<e>>) \o Iter(t) = f \o (<<e>> \o Iter(t))
      <4>1. Iter(t) \in Seq(LogEntries)
        BY IterType
      <4>2. Writables \subseteq LogEntries
        BY DEF Writables
      <4>3. f \in Seq(LogEntries) /\ <<e>> \in Seq(LogEntries)
        BY <2>2, <4>2, SeqMonotonic
      <4> QED BY <4>1, <4>3, ConcatAssociative
    <3> QED BY <2>5, <3>3, <3>4
  <2>7. Good(m + 1)
    BY <2>6 DEF g
  <2> QED BY <2>1, <2>7
<1>4. 0 .. n \subseteq T
  <2>1. 0 \in T
    BY <1>1, <1>2
  <2> HIDE DEF T, n
  <2> QED BY <1>1, <1>3, <2>1, UpTo
<1>5. Good(n)
  <2> HIDE DEF Good, n
  <2> QED BY <1>1, <1>4
<1>6. First(n) = es
  BY SubSeqFull
<1> QED BY <1>5, <1>6

-----------------------------------------------------------------------------
(***************************************************************************)
(* The rows of a diff.                                                     *)
(***************************************************************************)

LEMMA ExampleRowReads ==
  ASSUME NEW k \in Bytes, NEW v \in Bytes
  PROVE  LET row == [key |-> k, value |-> v]
         IN  SerializeExampleRow(row) \in Bytes /\ DeserializeExampleRow(SerializeExampleRow(row)) = {row}
<1> DEFINE row == [key |-> k, value |-> v]
           R == DeserializeRowData
           w == SerializeRowData(k)
           x == SerializeRowData(v)
           t == w \o x
           l == << <<k, v>>, << >>>>
<1>1. Reads(R, w, k) /\ Reads(R, x, v) /\ Reader(R, Bytes)
  BY RowReads, RowReader
<1>2. SerializeExampleRow(row) = t
  BY DEF SerializeExampleRow
<1>3. DeserializeExampleRow(t) = {[key |-> r[1][1], value |-> r[1][2]] : r \in Then(R, R)[t]}
  BY DEF DeserializeExampleRow
<1>4. l[1] = <<k, v>> /\ l[1][1] = k /\ l[1][2] = v
  OBVIOUS
<1> HIDE DEF w, x, R
<1>5. Reads(Then(R, R), t, <<k, v>>)
  BY <1>1, ThenReads
<1>6. t \in Bytes /\ Then(R, R)[t] = {l}
  BY <1>5 DEF Reads
<1> HIDE DEF t, l
<1>7. DeserializeExampleRow(t) = {[key |-> l[1][1], value |-> l[1][2]]}
  BY <1>3, <1>6
<1> QED BY <1>2, <1>4, <1>6, <1>7

\* What is assumed of each diff.
IsDiff(diff) ==
  /\ diff \in [DOMAIN diff -> {NoValue} \cup Bytes]
  /\ DOMAIN diff \subseteq Bytes /\ IsFiniteSet(DOMAIN diff)

\* All elements of the set are in the sequence.
LEMMA SetToSeqsValue ==
  ASSUME NEW S, IsFiniteSet(S), NEW f \in SetToSeqs(S)
  PROVE  f \in Seq(S) /\ S = {f[i] : i \in 1 .. Len(f)}
<1> DEFINE n == Cardinality(S)
           D == 1 .. n
<1>1. n \in Nat
  BY FS_CardinalityType
<1>2. f \in [D -> S] /\ \A i, j \in D : i # j => f[i] # f[j]
  BY DEF SetToSeqs
<1>3. f \in Seq(S) /\ Len(f) = n
  BY <1>1, <1>2
<1>4. Cardinality(D) = n
  <2> HIDE DEF n
  <2> QED BY <1>1, FS_Interval
<1>5. f \in Injection(D, S)
  <2> HIDE DEF D
  <2> QED BY <1>2 DEF Injection, IsInjective
<1>6. f \in Surjection(D, S)
  <2> HIDE DEF D
  <2>1. Cardinality(D) = Cardinality(S)
    BY <1>4
  <2> QED BY <1>5, <2>1, FS_Injection
<1>7. \A x \in S : \E i \in D : f[i] = x
  <2> HIDE DEF D
  <2> QED BY <1>6 DEF Surjection
<1> QED BY <1>2, <1>3, <1>7

Deleted(diff) == {key \in DOMAIN diff : diff[key] = NoValue}

RowOf(diff, key) == SerializeExampleRow([key |-> key, value |-> diff[key]])

\* The TxData with the keys in these orders.
OrderedTxData(diff, i, d) ==
  [ inserts |-> <<[table_id |-> 0, inserts |-> [n \in DOMAIN i |-> RowOf(diff, i[n])]]>>,
    deletes |-> <<[table_id |-> 0, deletes |-> d]>>,
    truncs  |-> << >> ]

LEMMA TxDataOfValue ==
  ASSUME NEW diff, IsDiff(diff), NEW data \in TxDataOf(diff)
  PROVE  \E i \in Seq(DOMAIN diff), d \in Seq(DOMAIN diff) :
           /\ data = OrderedTxData(diff, i, d)
           /\ DOMAIN diff \ Deleted(diff) = {i[n] : n \in 1 .. Len(i)}
           /\ Deleted(diff) = {d[n] : n \in 1 .. Len(d)}
<1> DEFINE K == DOMAIN diff
           Del == Deleted(diff)
           Ins == K \ Del
<1>1. PICK i \in SetToSeqs(Ins), d \in SetToSeqs(Del) : data = OrderedTxData(diff, i, d)
  <2> DEFINE Row(key) == SerializeExampleRow([key |-> key, value |-> diff[key]])
             Data(inserts, deletes) ==
               [ inserts |-> <<Inserts(0, [n \in DOMAIN inserts |-> Row(inserts[n])])>>,
                 deletes |-> <<[table_id |-> 0, deletes |-> deletes]>>,
                 truncs  |-> << >> ]
  <2>1. TxDataOf(diff) = {Data(i, d) : i \in SetToSeqs(Ins), d \in SetToSeqs(Del)}
    BY DEF TxDataOf, Deleted
  <2>2. \A i, d : Data(i, d) = OrderedTxData(diff, i, d)
    BY DEF OrderedTxData, RowOf, Inserts
  <2> HIDE DEF Data, Ins, Del
  <2>3. PICK i \in SetToSeqs(Ins), d \in SetToSeqs(Del) : data = Data(i, d)
    BY <2>1
  <2> QED BY <2>2, <2>3
<1>2. IsFiniteSet(Ins) /\ IsFiniteSet(Del) /\ Ins \subseteq K /\ Del \subseteq K
  <2>1. Ins \in SUBSET K /\ Del \in SUBSET K /\ IsFiniteSet(K)
    BY DEF IsDiff, Deleted
  <2> HIDE DEF K, Ins, Del
  <2> QED BY <2>1, FS_Subset
<1> HIDE DEF Ins, Del
<1>3. i \in Seq(Ins) /\ Ins = {i[n] : n \in 1 .. Len(i)}
  BY <1>2, SetToSeqsValue
<1>4. d \in Seq(Del) /\ Del = {d[n] : n \in 1 .. Len(d)}
  BY <1>2, SetToSeqsValue
<1>5. i \in Seq(K) /\ d \in Seq(K)
  BY <1>2, <1>3, <1>4, SeqMonotonic
<1> QED BY <1>1, <1>3, <1>4, <1>5 DEF Ins, Del

LEMMA TxDataOfType ==
  ASSUME NEW diff, IsDiff(diff), NEW data \in TxDataOf(diff)
  PROVE  data \in TxDatas
<1> DEFINE K == DOMAIN diff
<1>1. PICK i \in Seq(K), d \in Seq(K) :
         /\ data = OrderedTxData(diff, i, d)
         /\ K \ Deleted(diff) = {i[n] : n \in 1 .. Len(i)}
  BY TxDataOfValue
<1>2. DOMAIN i = 1 .. Len(i) /\ Len(i) \in Nat
  BY LenProperties
<1>3. ASSUME NEW n \in 1 .. Len(i) PROVE RowOf(diff, i[n]) \in Bytes
  <2>1. i[n] \in K \ Deleted(diff)
    BY <1>1
  <2>2. i[n] \in Bytes /\ diff[i[n]] \in Bytes
    BY <2>1 DEF IsDiff, Deleted
  <2> QED BY <2>2, ExampleRowReads DEF RowOf
<1>4. d \in Seq(Bytes)
  <2>1. K \subseteq Bytes
    BY DEF IsDiff
  <2> QED BY <2>1, SeqMonotonic
<1> DEFINE rows == [n \in DOMAIN i |-> RowOf(diff, i[n])]
<1>5. rows \in Seq(Bytes)
  BY <1>2, <1>3
<1> HIDE DEF rows
<1>6. [table_id |-> 0, inserts |-> rows] \in InsertLists /\ [table_id |-> 0, deletes |-> d] \in DeleteLists
  BY <1>4, <1>5 DEF InsertLists, DeleteLists
<1>7. <<[table_id |-> 0, inserts |-> rows]>> \in Seq(InsertLists)
  BY <1>6
<1>8. <<[table_id |-> 0, deletes |-> d]>> \in Seq(DeleteLists)
  BY <1>6
<1>9. << >> \in Seq(Nat)
  OBVIOUS
<1>10. data = [inserts |-> <<[table_id |-> 0, inserts |-> rows]>>,
               deletes |-> <<[table_id |-> 0, deletes |-> d]>>, truncs |-> << >>]
  BY <1>1 DEF OrderedTxData, rows
<1> QED BY <1>7, <1>8, <1>9, <1>10 DEF TxDatas

LEMMA FlattenOne ==
  ASSUME NEW A, NEW s \in Seq(A)
  PROVE  FlattenSeq(<<s>>) = s
<1>1. << >> \in Seq(Seq(A)) /\ Append(<< >>, s) = <<s>>
  OBVIOUS
<1>2. FlattenSeq(Append(<< >>, s)) = FlattenSeq(<< >>) \o s
  BY <1>1, FlattenAppend
<1>3. << >> \o s = s
  BY ConcatEmptySeq
<1> QED BY <1>1, <1>2, <1>3, FlattenEmpty

\* A diff, of some of its keys.
PartOf(diff, K) == [key \in K |-> diff[key]]

LEMMA PartOfMore ==
  ASSUME NEW diff, NEW K, NEW k
  PROVE  Put(PartOf(diff, K), k, diff[k]) = PartOf(diff, K \cup {k})
BY DEF Put, PartOf

LEMMA InsertRowValue ==
  ASSUME NEW part, NEW row, NEW row_bytes, DeserializeExampleRow(row_bytes) = {row}
  PROVE  InsertRow({part}, row_bytes) = {Put(part, row.key, row.value)}
<1>1. \A p \in {part}, r \in {row} : Put(p, r.key, r.value) = Put(part, row.key, row.value)
  OBVIOUS
<1>2. InsertRow({part}, row_bytes) = {Put(p, r.key, r.value) : p \in {part}, r \in {row}}
  BY DEF InsertRow
<1> QED BY <1>1, <1>2

LEMMA DeleteRowValue ==
  ASSUME NEW part, NEW key
  PROVE  DeleteRow({part}, key) = {Put(part, key, NoValue)}
BY DEF DeleteRow

LEMMA ReplayOfCommit ==
  ASSUME NEW diff, IsDiff(diff), NEW data \in TxDataOf(diff)
  PROVE  ReplayedDiffs(data) = {diff}
<1> DEFINE K == DOMAIN diff
<1>1. PICK i \in Seq(K), d \in Seq(K) :
         /\ data = OrderedTxData(diff, i, d)
         /\ K \ Deleted(diff) = {i[n] : n \in 1 .. Len(i)}
         /\ Deleted(diff) = {d[n] : n \in 1 .. Len(d)}
  BY TxDataOfValue
<1> DEFINE ins == [n \in DOMAIN i |-> RowOf(diff, i[n])]
           rows == FlattenSeq([n \in DOMAIN data.inserts |-> data.inserts[n].inserts])
           keys == FlattenSeq([n \in DOMAIN data.deletes |-> data.deletes[n].deletes])
           inserted[n \in 0 .. Len(rows)] ==
             IF n = 0 THEN {<< >>}
             ELSE InsertRow(inserted[n - 1], rows[n])
           deleted[n \in 0 .. Len(keys)] ==
             IF n = 0 THEN inserted[Len(rows)]
             ELSE DeleteRow(deleted[n - 1], keys[n])
           P == Len(i)
           Q == Len(d)
<1>2. /\ data.inserts = <<[table_id |-> 0, inserts |-> ins]>>
      /\ data.deletes = <<[table_id |-> 0, deletes |-> d]>>
  BY <1>1 DEF OrderedTxData
<1>3. ReplayedDiffs(data) =
        IF \A list \in ToSet(data.inserts) \cup ToSet(data.deletes) : list.table_id = 0
        THEN deleted[Len(keys)] ELSE {}
  BY DEF ReplayedDiffs
<1> HIDE DEF ins
<1>4. \A list \in ToSet(data.inserts) \cup ToSet(data.deletes) : list.table_id = 0
  BY <1>2 DEF ToSet
<1>5. P \in Nat /\ DOMAIN i = 1 .. P /\ Q \in Nat
  BY LenProperties
<1>6. ASSUME NEW n \in 1 .. P
      PROVE  /\ i[n] \in Bytes /\ diff[i[n]] \in Bytes /\ ins[n] = RowOf(diff, i[n])
             /\ ins[n] \in Bytes
             /\ DeserializeExampleRow(ins[n]) = {[key |-> i[n], value |-> diff[i[n]]]}
  <2>1. i[n] \in K \ Deleted(diff)
    BY <1>1
  <2>2. i[n] \in Bytes /\ diff[i[n]] \in Bytes
    BY <2>1 DEF IsDiff, Deleted
  <2>3. ins[n] = RowOf(diff, i[n])
    BY <1>5 DEF ins
  <2> QED BY <2>2, <2>3, ExampleRowReads DEF RowOf
<1>7. ins \in Seq(Bytes) /\ Len(ins) = P
  <2>1. \A n \in 1 .. P : RowOf(diff, i[n]) \in Bytes
    BY <1>6
  <2> QED BY <1>5, <2>1 DEF ins
<1>8. rows = ins
  <2>1. [n \in DOMAIN data.inserts |-> data.inserts[n].inserts] = <<ins>>
    BY <1>2
  <2> QED BY <1>7, <2>1, FlattenOne
<1>9. keys = d
  <2>1. [n \in DOMAIN data.deletes |-> data.deletes[n].deletes] = <<d>>
    BY <1>2
  <2> QED BY <2>1, FlattenOne
<1> HIDE DEF rows, keys
<1> DEFINE InsBelow(n) == {i[m] : m \in 1 .. n}
           DelBelow(n) == (K \ Deleted(diff)) \cup {d[m] : m \in 1 .. n}
           insBody(f) == [n \in 0 .. Len(rows) |->
             IF n = 0 THEN {<< >>}
             ELSE InsertRow(f[n - 1], rows[n])]
           delBody(f) == [n \in 0 .. Len(keys) |->
             IF n = 0 THEN inserted[Len(rows)]
             ELSE DeleteRow(f[n - 1], keys[n])]
           insF == [n \in 0 .. P |-> {PartOf(diff, InsBelow(n))}]
           delF == [n \in 0 .. Q |-> {PartOf(diff, DelBelow(n))}]
<1>10. ASSUME NEW n \in 1 .. P
       PROVE  InsertRow({PartOf(diff, InsBelow(n - 1))}, rows[n]) = {PartOf(diff, InsBelow(n))}
  <2> DEFINE k == i[n]
             r == [key |-> k, value |-> diff[k]]
             p == PartOf(diff, InsBelow(n - 1))
  <2>1. DeserializeExampleRow(rows[n]) = {r} /\ r.key = k /\ r.value = diff[k]
    BY <1>6, <1>8
  <2>2. InsBelow(n) = InsBelow(n - 1) \cup {k}
    BY <1>5
  <2>3. Put(p, k, diff[k]) = PartOf(diff, InsBelow(n))
    <3> HIDE DEF k, InsBelow
    <3>1. Put(p, k, diff[k]) = PartOf(diff, InsBelow(n - 1) \cup {k})
      BY PartOfMore
    <3> QED BY <2>2, <3>1
  <2> HIDE DEF p, r
  <2>4. InsertRow({p}, rows[n]) = {Put(p, r.key, r.value)}
    BY <2>1, InsertRowValue
  <2>5. InsertRow({p}, rows[n]) = {Put(p, k, diff[k])}
    BY <2>1, <2>4
  <2> QED BY <2>3, <2>5 DEF p
<1>11. PartOf(diff, InsBelow(0)) = << >>
  <2>1. InsBelow(0) = {}
    OBVIOUS
  <2> HIDE DEF InsBelow
  <2> QED BY <2>1 DEF PartOf
<1>12. insF = insBody(insF)
  <2> HIDE DEF InsBelow
  <2>1. ASSUME NEW n \in 0 .. P PROVE insF[n] = insBody(insF)[n]
    <3>1. n \in 0 .. Len(rows)
      BY <1>7, <1>8
    <3>2. CASE n = 0
      BY <1>11, <3>1, <3>2
    <3>3. CASE n # 0
      <4>1. n \in 1 .. P /\ n - 1 \in 0 .. P
        BY <1>5, <3>3
      <4>2. insF[n - 1] = {PartOf(diff, InsBelow(n - 1))} /\ insF[n] = {PartOf(diff, InsBelow(n))}
        BY <4>1
      <4> HIDE DEF insF
      <4>3. insBody(insF)[n] = InsertRow(insF[n - 1], rows[n])
        BY <3>1, <3>3
      <4> QED BY <1>10, <4>1, <4>2, <4>3
    <3> QED BY <3>2, <3>3
  <2>2. insF = [n \in 0 .. P |-> insF[n]] /\ insBody(insF) = [n \in 0 .. P |-> insBody(insF)[n]]
    BY <1>7, <1>8
  <2> HIDE DEF insF, insBody
  <2> QED BY <2>1, <2>2
<1>13. inserted = insBody(inserted)
  <2>1. inserted = CHOOSE g : g = insBody(g)
    OBVIOUS
  <2> HIDE DEF insBody, inserted
  <2> QED BY <1>12, <2>1
<1> HIDE DEF inserted
<1>14. inserted[P] = {PartOf(diff, InsBelow(P))}
  <2> DEFINE T == {n \in 0 .. P : inserted[n] = {PartOf(diff, InsBelow(n))}}
  <2> HIDE DEF InsBelow
  <2>1. 0 \in T
    <3>1. 0 \in 0 .. Len(rows) /\ 0 \in 0 .. P
      BY <1>5, <1>7, <1>8
    <3>2. inserted[0] = {<< >>}
      BY <1>13, <3>1
    <3> QED BY <1>11, <3>1, <3>2
  <2>2. ASSUME NEW n \in 0 .. P - 1, n \in T PROVE n + 1 \in T
    <3> DEFINE m == n + 1
    <3>1. m \in 1 .. P /\ m \in 0 .. P /\ m \in 0 .. Len(rows) /\ m # 0 /\ m - 1 = n
      BY <1>5, <1>7, <1>8
    <3>2. inserted[m - 1] = {PartOf(diff, InsBelow(m - 1))}
      BY <2>2, <3>1
    <3> HIDE DEF m
    <3>3. inserted[m] = InsertRow(inserted[m - 1], rows[m])
      BY <1>13, <3>1
    <3>4. inserted[m] = {PartOf(diff, InsBelow(m))}
      BY <1>10, <3>1, <3>2, <3>3
    <3> QED BY <3>1, <3>4 DEF m
  <2>3. 0 .. P \subseteq T
    <3> HIDE DEF T, P
    <3> QED BY <1>5, <2>1, <2>2, UpTo
  <2> QED BY <1>5, <2>3
<1>15. inserted[Len(rows)] = {PartOf(diff, DelBelow(0))}
  <2>1. InsBelow(P) = K \ Deleted(diff) /\ DelBelow(0) = K \ Deleted(diff)
    BY <1>1
  <2> QED BY <1>7, <1>8, <1>14, <2>1
<1>16. ASSUME NEW n \in 1 .. Q
       PROVE  DeleteRow({PartOf(diff, DelBelow(n - 1))}, keys[n]) = {PartOf(diff, DelBelow(n))}
  <2> DEFINE k == d[n]
             p == PartOf(diff, DelBelow(n - 1))
  <2>1. keys[n] = k /\ diff[k] = NoValue
    BY <1>1, <1>9 DEF Deleted
  <2>2. DelBelow(n) = DelBelow(n - 1) \cup {k}
    BY <1>5
  <2>3. Put(p, k, NoValue) = PartOf(diff, DelBelow(n))
    <3> HIDE DEF k, DelBelow
    <3>1. Put(p, k, diff[k]) = PartOf(diff, DelBelow(n - 1) \cup {k})
      BY PartOfMore
    <3> QED BY <2>1, <2>2, <3>1
  <2> HIDE DEF p, k
  <2>4. DeleteRow({p}, keys[n]) = {Put(p, k, NoValue)}
    BY <2>1, DeleteRowValue
  <2> QED BY <2>3, <2>4 DEF p
<1>17. delF = delBody(delF)
  <2> HIDE DEF DelBelow
  <2>1. ASSUME NEW n \in 0 .. Q PROVE delF[n] = delBody(delF)[n]
    <3>1. n \in 0 .. Len(keys)
      BY <1>9
    <3>2. CASE n = 0
      BY <1>15, <3>1, <3>2
    <3>3. CASE n # 0
      <4>1. n \in 1 .. Q /\ n - 1 \in 0 .. Q
        BY <1>5, <3>3
      <4>2. delF[n - 1] = {PartOf(diff, DelBelow(n - 1))} /\ delF[n] = {PartOf(diff, DelBelow(n))}
        BY <4>1
      <4> HIDE DEF delF
      <4>3. delBody(delF)[n] = DeleteRow(delF[n - 1], keys[n])
        BY <3>1, <3>3
      <4> QED BY <1>16, <4>1, <4>2, <4>3
    <3> QED BY <3>2, <3>3
  <2>2. delF = [n \in 0 .. Q |-> delF[n]] /\ delBody(delF) = [n \in 0 .. Q |-> delBody(delF)[n]]
    BY <1>9
  <2> HIDE DEF delF, delBody
  <2> QED BY <2>1, <2>2
<1>18. deleted = delBody(deleted)
  <2>1. deleted = CHOOSE g : g = delBody(g)
    OBVIOUS
  <2> HIDE DEF delBody, deleted
  <2> QED BY <1>17, <2>1
<1> HIDE DEF deleted
<1>19. deleted[Q] = {PartOf(diff, DelBelow(Q))}
  <2> DEFINE T == {n \in 0 .. Q : deleted[n] = {PartOf(diff, DelBelow(n))}}
  <2> HIDE DEF DelBelow
  <2>1. 0 \in T
    <3>1. 0 \in 0 .. Len(keys) /\ 0 \in 0 .. Q
      BY <1>5, <1>9
    <3>2. deleted[0] = inserted[Len(rows)]
      BY <1>18, <3>1
    <3> QED BY <1>15, <3>1, <3>2
  <2>2. ASSUME NEW n \in 0 .. Q - 1, n \in T PROVE n + 1 \in T
    <3> DEFINE m == n + 1
    <3>1. m \in 1 .. Q /\ m \in 0 .. Q /\ m \in 0 .. Len(keys) /\ m # 0 /\ m - 1 = n
      BY <1>5, <1>9
    <3>2. deleted[m - 1] = {PartOf(diff, DelBelow(m - 1))}
      BY <2>2, <3>1
    <3> HIDE DEF m
    <3>3. deleted[m] = DeleteRow(deleted[m - 1], keys[m])
      BY <1>18, <3>1
    <3>4. deleted[m] = {PartOf(diff, DelBelow(m))}
      BY <1>16, <3>1, <3>2, <3>3
    <3> QED BY <3>1, <3>4 DEF m
  <2>3. 0 .. Q \subseteq T
    <3> HIDE DEF T, Q
    <3> QED BY <1>5, <2>1, <2>2, UpTo
  <2> QED BY <1>5, <2>3
<1>20. DelBelow(Q) = K
  BY <1>1 DEF Deleted
<1>21. PartOf(diff, K) = diff
  BY DEF PartOf, IsDiff
<1> QED BY <1>3, <1>4, <1>9, <1>19, <1>20, <1>21

-----------------------------------------------------------------------------
(***************************************************************************)
(* The invariant. Behind the entries that are written there is nothing in  *)
(* the file, or the first bytes, never all, of the entry that is being     *)
(* written; src are the others.                                            *)
(***************************************************************************)

FileInv ==
  LET w == SerializeLogEntry(entry)
  IN  IF src = << >> THEN file = Done(written)
      ELSE \E n \in 0 .. Len(w) - 1 :
             file = Done(written) \o SubSeq(w, 1, n) /\ src = After(n, w)

\* Every offset is given to one entry.
OffsetInv ==
  \E first \in FirstOffsets :
    next_tx_offset = first + Len(written) + IF src = << >> THEN 0 ELSE 1

EntryInv ==
  /\ written \in Seq(Writables) /\ Len(written) <= MaxEntries
  /\ src # << >> => entry \in Writables /\ Len(written) < MaxEntries

\* An offset that a commit had is that of an entry with the rows of its diff.
IsOfCommit(e) ==
  /\ e.tx_offset < next_tx_offset
  /\ e.tx_offset \in DOMAIN diff_at => e.tx_data \in TxDataOf(diff_at[e.tx_offset])

DiffInv ==
  /\ \A offset \in DOMAIN diff_at :
       offset \in Nat /\ offset < next_tx_offset /\ diff_at[offset] \in Diffs
  /\ \A i \in 1 .. Len(written) : IsOfCommit(written[i])
  /\ src # << >> => IsOfCommit(entry)

IInv == FileInv /\ OffsetInv /\ EntryInv /\ DiffInv

-----------------------------------------------------------------------------
(* The bytes of an entry, one after the other. *)

LEMMA EntryBytes ==
  ASSUME NEW e \in Writables
  PROVE  /\ SerializeLogEntry(e) \in Bytes /\ SerializeLogEntry(e) # << >>
         /\ Len(SerializeLogEntry(e)) \in Nat \ {0}
<1> DEFINE w == SerializeLogEntry(e)
<1>1. w \in Bytes /\ DeserializeLogEntry[w] = {<<e, << >>>>}
  BY LogEntryReads DEF Reads
<1> HIDE DEF w
<1>2. Len(<< >>) < Len(w)
  <2> DEFINE r == <<e, << >>>>
  <2>1. r \in DeserializeLogEntry[w] /\ r[2] = << >>
    BY <1>1
  <2> HIDE DEF r
  <2>2. Len(r[2]) < Len(w)
    BY <1>1, <2>1, LogEntryReader
  <2> QED BY <2>1, <2>2
<1>3. Len(w) \in Nat /\ Len(<< >>) = 0
  BY <1>1, LenProperties DEF Bytes
<1>4. Len(w) # 0 /\ w # << >>
  BY <1>2, <1>3
<1> QED BY <1>1, <1>3, <1>4 DEF w

LEMMA FirstByte ==
  ASSUME NEW w \in Bytes
  PROVE  SubSeq(w, 1, 0) = << >> /\ After(0, w) = w
<1>1. SubSeq(w, 1, 0) = << >>
  BY SubSeqEmpty
<1>2. SubSeq(w, 1, Len(w)) = w
  BY SubSeqFull DEF Bytes
<1>3. 0 + 1 = 1
  OBVIOUS
<1> QED BY <1>1, <1>2, <1>3 DEF After

LEMMA NextByte ==
  ASSUME NEW w \in Bytes, NEW n \in 0 .. Len(w) - 1
  PROVE  /\ After(n, w) \in Bytes /\ After(n, w) # << >>
         /\ Len(After(n, w)) = Len(w) - n
         /\ Head(After(n, w)) \in Byte
         /\ Tail(After(n, w)) = After(n + 1, w)
         /\ SubSeq(w, 1, n) \in Bytes
         /\ SubSeq(w, 1, n) \o After(n, w) = w
         /\ SubSeq(w, 1, n + 1) = Append(SubSeq(w, 1, n), Head(After(n, w)))
<1> DEFINE L == Len(w)
           a == After(n, w)
<1>1. L \in Nat /\ n \in Nat /\ n < L /\ n \in 0 .. L /\ n <= L
  BY LenProperties DEF Bytes
<1>2. a \in Bytes /\ Len(a) = L - n /\ SubSeq(w, 1, n) \in Bytes
  BY <1>1, Split
<1>3. a # << >>
  <2>1. Len(<< >>) = 0
    OBVIOUS
  <2>2. L - n # 0
    BY <1>1
  <2> HIDE DEF a, L
  <2> QED BY <1>2, <2>1, <2>2
<1>4. n + 1 \in 1 .. L /\ L \in n + 1 .. L /\ n + 1 \in Nat
  BY <1>1
<1>5. Head(a) = w[n + 1] /\ Tail(a) = After(n + 1, w)
  BY <1>4, HeadTailOfSubSeq DEF Bytes, After
<1>6. w[n + 1] \in Byte /\ SubSeq(w, 1, n + 1) = Append(SubSeq(w, 1, n), w[n + 1])
  BY <1>1, Prefix DEF Bytes
<1>7. SubSeq(w, 1, n) \o a = w
  <2>1. 1 \in 1 .. L + 1 /\ n \in 1 - 1 .. L /\ L \in n .. L
    BY <1>1
  <2>2. SubSeq(w, 1, n) \o SubSeq(w, n + 1, L) = SubSeq(w, 1, L)
    BY <2>1, ConcatAdjacentSubSeq DEF Bytes
  <2>3. SubSeq(w, 1, L) = w
    BY SubSeqFull DEF Bytes
  <2> QED BY <2>2, <2>3 DEF After
<1> QED BY <1>2, <1>3, <1>5, <1>6, <1>7

LEMMA AppendBehind ==
  ASSUME NEW s \in Bytes, NEW q \in Bytes, NEW b \in Byte
  PROVE  Append(s \o q, b) = s \o Append(q, b)
<1>1. <<b>> \in Bytes
  BY DEF Bytes
<1>2. s \o q \in Bytes
  BY ConcatBytes
<1>3. Append(s \o q, b) = (s \o q) \o <<b>>
  BY <1>2, AppendIsConcat DEF Bytes
<1>4. Append(q, b) = q \o <<b>>
  BY AppendIsConcat DEF Bytes
<1> QED BY <1>1, <1>3, <1>4, ConcatThree

LEMMA IterEmpty == Iter(<< >>) = << >>
<1>1. << >> \in Bytes /\ Len(<< >>) = 0
  BY DEF Bytes
<1>2. ASSUME NEW r \in DeserializeLogEntry[<< >>] PROVE FALSE
  <2>1. Reader(DeserializeLogEntry, LogEntries)
    BY LogEntryReader
  <2>2. r[2] \in Bytes /\ Len(r[2]) < 0
    BY <1>1, <2>1, LogEntryReader, ReaderOne
  <2>3. Len(r[2]) \in Nat
    BY <2>2, LenProperties DEF Bytes
  <2> QED BY <2>2, <2>3
<1>3. DeserializeLogEntry[<< >>] = {}
  BY <1>2
<1> QED BY <1>1, <1>3, IterValue

-----------------------------------------------------------------------------
(***************************************************************************)
(* The invariant holds.                                                    *)
(***************************************************************************)

\* The offset is an u64.
OffsetsFit == \A first \in FirstOffsets : first + MaxEntries <= OffsetLimit

LEMMA IInvInit == Init => IInv
<1> SUFFICES ASSUME Init PROVE IInv
  OBVIOUS
<1>1. /\ file = << >> /\ src = << >> /\ written = << >> /\ DOMAIN diff_at = {}
      /\ Len(written) = 0 /\ written \in Seq(Writables)
  BY DEF Init
<1>2. FileInv
  BY <1>1, DoneEmpty DEF FileInv
<1>3. OffsetInv
  <2>1. next_tx_offset \in FirstOffsets /\ next_tx_offset \in Nat
    BY FirstOffsetsAssumption DEF Init
  <2>2. next_tx_offset = next_tx_offset + Len(written) + IF src = << >> THEN 0 ELSE 1
    BY <1>1, <2>1
  <2> QED BY <2>1, <2>2 DEF OffsetInv
<1>4. EntryInv
  BY <1>1, MaxEntriesAssumption DEF EntryInv
<1>5. DiffInv
  BY <1>1 DEF DiffInv
<1> QED BY <1>2, <1>3, <1>4, <1>5 DEF IInv

\* The offset that is given next.
LEMMA OffsetBound ==
  ASSUME IInv, OffsetsFit
  PROVE  /\ next_tx_offset \in Nat /\ Len(written) \in Nat
         /\ src = << >> /\ Len(written) < MaxEntries => next_tx_offset < OffsetLimit
<1>1. Len(written) \in Nat
  BY LenProperties DEF IInv, EntryInv
<1>2. PICK first \in FirstOffsets :
         next_tx_offset = first + Len(written) + IF src = << >> THEN 0 ELSE 1
  BY DEF IInv, OffsetInv
<1>3. first \in Nat /\ MaxEntries \in Nat /\ OffsetLimit \in Nat
  BY FirstOffsetsAssumption, MaxEntriesAssumption DEF OffsetLimit
<1>4. first + MaxEntries <= OffsetLimit
  BY DEF OffsetsFit
<1> QED BY <1>1, <1>2, <1>3, <1>4

\* What is received is written in whole, at an offset that no entry had.
LEMMA ReceiveKeeps ==
  ASSUME IInv, OffsetsFit, NEW data \in TxDatas, Receive(data)
  PROVE  /\ FileInv' /\ OffsetInv' /\ EntryInv'
         /\ src' # << >> /\ next_tx_offset' = next_tx_offset + 1
         /\ written' = written
         /\ entry' = [tx_offset |-> next_tx_offset, tx_data |-> data]
<1>1. /\ src = << >> /\ Len(written) < MaxEntries
      /\ entry' = [tx_offset |-> next_tx_offset, tx_data |-> data]
      /\ src' = SerializeLogEntry(entry')
      /\ next_tx_offset' = next_tx_offset + 1
      /\ file' = file /\ written' = written
  BY DEF Receive
<1>2. next_tx_offset \in Nat /\ Len(written) \in Nat /\ next_tx_offset < OffsetLimit
  BY <1>1, OffsetBound
<1>3. PICK e : e = entry'
  OBVIOUS
<1>4. e \in Writables
  BY <1>1, <1>2, <1>3 DEF Writables, LogEntries
<1>5. PICK w : w = SerializeLogEntry(e)
  OBVIOUS
<1>6. w \in Bytes /\ w # << >> /\ Len(w) \in Nat \ {0}
  BY <1>4, <1>5, EntryBytes
<1>7. src' = w /\ SerializeLogEntry(entry') = w
  BY <1>1, <1>3, <1>5
<1>8. FileInv'
  <2>1. file = Done(written)
    BY <1>1 DEF IInv, FileInv
  <2>2. Done(written) \in Bytes
    BY DoneType DEF IInv, EntryInv
  <2>3. Done(written) \o << >> = Done(written)
    BY <2>2, ConcatBytes
  <2>4. SubSeq(w, 1, 0) = << >> /\ After(0, w) = w
    BY <1>6, FirstByte
  <2>5. 0 \in 0 .. Len(w) - 1
    BY <1>6
  <2>6. file' = Done(written') \o SubSeq(w, 1, 0) /\ src' = After(0, w)
    BY <1>1, <1>7, <2>1, <2>3, <2>4
  <2> QED BY <1>7, <2>5, <2>6 DEF FileInv
<1>9. OffsetInv'
  <2>1. PICK first \in FirstOffsets : next_tx_offset = first + Len(written) + 0
    BY <1>1 DEF IInv, OffsetInv
  <2>2. first \in Nat
    BY FirstOffsetsAssumption
  <2>3. next_tx_offset' = first + Len(written') + 1
    BY <1>1, <1>2, <2>1, <2>2
  <2> QED BY <1>6, <1>7, <2>3 DEF OffsetInv
<1>10. EntryInv'
  BY <1>1, <1>3, <1>4 DEF IInv, EntryInv
<1> QED BY <1>1, <1>6, <1>7, <1>8, <1>9, <1>10

\* A commit makes a TxData.
LEMMA CommitOfType ==
  ASSUME NEW diff \in Diffs, NEW data \in TxDataOf(diff)
  PROVE  IsDiff(diff) /\ data \in TxDatas
<1>1. IsDiff(diff)
  BY DiffsAssumption DEF IsDiff
<1> QED BY <1>1, TxDataOfType

LEMMA IInvReceiveCommit ==
  ASSUME IInv, OffsetsFit, NEW diff \in Diffs, ReceiveCommit(diff)
  PROVE  IInv'
<1>1. PICK data \in TxDataOf(diff) : Receive(data)
  BY DEF ReceiveCommit
<1>2. data \in TxDatas
  BY CommitOfType
<1>3. /\ FileInv' /\ OffsetInv' /\ EntryInv'
      /\ src' # << >> /\ next_tx_offset' = next_tx_offset + 1
      /\ written' = written
      /\ entry' = [tx_offset |-> next_tx_offset, tx_data |-> data]
  BY <1>1, <1>2, ReceiveKeeps
<1>4. /\ DOMAIN diff_at' = DOMAIN diff_at \cup {next_tx_offset}
      /\ diff_at'[next_tx_offset] = diff
      /\ \A offset \in DOMAIN diff_at :
           offset # next_tx_offset => diff_at'[offset] = diff_at[offset]
  BY DEF ReceiveCommit, Put
<1>5. next_tx_offset \in Nat
  BY OffsetBound
<1>6. \A offset \in DOMAIN diff_at :
        offset \in Nat /\ offset < next_tx_offset /\ diff_at[offset] \in Diffs
  BY DEF IInv, DiffInv
<1>7. \A offset \in DOMAIN diff_at' :
        offset \in Nat /\ offset < next_tx_offset' /\ diff_at'[offset] \in Diffs
  <2> SUFFICES ASSUME NEW offset \in DOMAIN diff_at'
               PROVE  offset \in Nat /\ offset < next_tx_offset' /\ diff_at'[offset] \in Diffs
    OBVIOUS
  <2>1. CASE offset = next_tx_offset
    BY <1>3, <1>4, <1>5, <2>1
  <2>2. CASE offset # next_tx_offset
    <3>1. offset \in DOMAIN diff_at /\ diff_at'[offset] = diff_at[offset]
      BY <1>4, <2>2
    <3>2. offset \in Nat /\ offset < next_tx_offset /\ diff_at[offset] \in Diffs
      BY <1>6, <3>1
    <3> QED BY <1>3, <1>5, <3>1, <3>2
  <2> QED BY <2>1, <2>2
<1>8. ASSUME NEW i \in 1 .. Len(written') PROVE IsOfCommit(written[i])'
  <2>1. i \in 1 .. Len(written) /\ written'[i] = written[i]
    BY <1>3
  <2> DEFINE e == written[i]
  <2>2. e \in Writables
    BY <2>1, ElementOfSeq DEF IInv, EntryInv
  <2>3. e.tx_offset \in Nat
    BY <2>2 DEF Writables, LogEntries
  <2>4. IsOfCommit(e)
    BY <2>1 DEF IInv, DiffInv
  <2> HIDE DEF e
  <2>5. e.tx_offset < next_tx_offset' /\ e.tx_offset # next_tx_offset
    BY <1>3, <1>5, <2>3, <2>4 DEF IsOfCommit
  <2>6. e.tx_offset \in DOMAIN diff_at' => e.tx_data \in TxDataOf(diff_at'[e.tx_offset])
    BY <1>4, <2>4, <2>5 DEF IsOfCommit
  <2> QED BY <2>1, <2>5, <2>6 DEF IsOfCommit, e
<1>9. IsOfCommit(entry)'
  <2>1. entry'.tx_offset = next_tx_offset /\ entry'.tx_data = data
    BY <1>3
  <2> QED BY <1>3, <1>4, <1>5, <2>1 DEF IsOfCommit
<1>10. DiffInv'
  BY <1>7, <1>8, <1>9 DEF DiffInv
<1> QED BY <1>3, <1>10 DEF IInv

LEMMA IInvReceiveOther ==
  ASSUME IInv, OffsetsFit, NEW data \in OtherTxData, ReceiveOther(data)
  PROVE  IInv'
<1>1. data \in TxDatas /\ Receive(data) /\ diff_at' = diff_at
  BY OtherTxDataAssumption DEF ReceiveOther
<1>2. /\ FileInv' /\ OffsetInv' /\ EntryInv'
      /\ src' # << >> /\ next_tx_offset' = next_tx_offset + 1
      /\ written' = written
      /\ entry' = [tx_offset |-> next_tx_offset, tx_data |-> data]
  BY <1>1, ReceiveKeeps
<1>3. next_tx_offset \in Nat
  BY OffsetBound
<1>4. \A offset \in DOMAIN diff_at' :
        offset \in Nat /\ offset < next_tx_offset' /\ diff_at'[offset] \in Diffs
  <2> SUFFICES ASSUME NEW offset \in DOMAIN diff_at
               PROVE  offset \in Nat /\ offset < next_tx_offset' /\ diff_at[offset] \in Diffs
    BY <1>1
  <2>1. offset \in Nat /\ offset < next_tx_offset /\ diff_at[offset] \in Diffs
    BY DEF IInv, DiffInv
  <2> QED BY <1>2, <1>3, <2>1
<1>5. ASSUME NEW i \in 1 .. Len(written') PROVE IsOfCommit(written[i])'
  <2>1. i \in 1 .. Len(written) /\ written'[i] = written[i]
    BY <1>2
  <2> DEFINE e == written[i]
  <2>2. e \in Writables
    BY <2>1, ElementOfSeq DEF IInv, EntryInv
  <2>3. e.tx_offset \in Nat
    BY <2>2 DEF Writables, LogEntries
  <2>4. IsOfCommit(e)
    BY <2>1 DEF IInv, DiffInv
  <2> HIDE DEF e
  <2>5. e.tx_offset < next_tx_offset'
    BY <1>2, <1>3, <2>3, <2>4 DEF IsOfCommit
  <2> QED BY <1>1, <2>1, <2>4, <2>5 DEF IsOfCommit, e
<1>6. IsOfCommit(entry)'
  <2>1. entry'.tx_offset = next_tx_offset
    BY <1>2
  <2>2. next_tx_offset \notin DOMAIN diff_at
    <3> SUFFICES ASSUME next_tx_offset \in DOMAIN diff_at PROVE FALSE
      OBVIOUS
    <3>1. next_tx_offset < next_tx_offset
      BY DEF IInv, DiffInv
    <3> QED BY <1>3, <3>1
  <2> QED BY <1>1, <1>2, <1>3, <2>1, <2>2 DEF IsOfCommit
<1>7. DiffInv'
  BY <1>4, <1>5, <1>6 DEF DiffInv
<1> QED BY <1>2, <1>7 DEF IInv

\* Byte by byte the entry gets into the file; with the last it is written.
LEMMA IInvWriteByte == IInv /\ WriteByte => IInv'
<1> SUFFICES ASSUME IInv, WriteByte PROVE IInv'
  OBVIOUS
<1>1. /\ src # << >> /\ file' = Append(file, Head(src)) /\ src' = Tail(src)
      /\ written' = IF Len(src) = 1 THEN Append(written, entry) ELSE written
      /\ entry' = entry /\ next_tx_offset' = next_tx_offset /\ diff_at' = diff_at
  BY DEF WriteByte
<1>2. /\ written \in Seq(Writables) /\ entry \in Writables /\ Len(written) < MaxEntries
      /\ Len(written) \in Nat
  BY <1>1, LenProperties DEF IInv, EntryInv
<1>3. PICK w : w = SerializeLogEntry(entry)
  OBVIOUS
<1>4. w \in Bytes /\ Len(w) \in Nat \ {0}
  BY <1>2, <1>3, EntryBytes
<1>5. PICK n \in 0 .. Len(w) - 1 : file = Done(written) \o SubSeq(w, 1, n) /\ src = After(n, w)
  BY <1>1, <1>3 DEF IInv, FileInv
<1>6. /\ Len(src) = Len(w) - n
      /\ Head(src) \in Byte
      /\ src' = After(n + 1, w)
      /\ SubSeq(w, 1, n) \in Bytes
      /\ SubSeq(w, 1, n + 1) = Append(SubSeq(w, 1, n), Head(src))
  BY <1>1, <1>4, <1>5, NextByte
<1>7. Done(written) \in Bytes
  BY <1>2, DoneType
<1>8. file' = Done(written) \o SubSeq(w, 1, n + 1)
  BY <1>1, <1>5, <1>6, <1>7, AppendBehind
<1>9. SerializeLogEntry(entry') = w
  BY <1>1, <1>3
<1>10. n + 1 \in Nat /\ n + 1 <= Len(w)
  BY <1>4
<1>11. src' \in Bytes /\ Len(src') = Len(w) - (n + 1)
  BY <1>4, <1>6, <1>10, Split
<1>12. PICK first \in FirstOffsets : next_tx_offset = first + Len(written) + 1
  BY <1>1 DEF IInv, OffsetInv
<1>13. first \in Nat
  BY FirstOffsetsAssumption
<1>14. /\ \A offset \in DOMAIN diff_at' :
            offset \in Nat /\ offset < next_tx_offset' /\ diff_at'[offset] \in Diffs
       /\ \A i \in 1 .. Len(written) : IsOfCommit(written[i])
       /\ IsOfCommit(entry)
  BY <1>1 DEF IInv, DiffInv
<1>15. ASSUME NEW e, IsOfCommit(e) PROVE
          e.tx_offset < next_tx_offset'
            /\ (e.tx_offset \in DOMAIN diff_at' => e.tx_data \in TxDataOf(diff_at'[e.tx_offset]))
  BY <1>1, <1>15 DEF IsOfCommit
<1>16. CASE Len(src) = 1
  <2>1. n + 1 = Len(w)
    <3>1. Len(w) - n = 1
      BY <1>6, <1>16
    <3> QED BY <1>4, <3>1
  <2>2. src' = << >>
    <3>1. Len(src') = 0
      BY <1>4, <1>11, <2>1
    <3> QED BY <1>11, <3>1, EmptySeq DEF Bytes
  <2>3. written' = Append(written, entry)
    BY <1>1, <1>16
  <2>4. written' \in Seq(Writables) /\ Len(written') = Len(written) + 1
        /\ (\A i \in 1 .. Len(written) : written'[i] = written[i])
        /\ written'[Len(written) + 1] = entry
    BY <1>2, <2>3, AppendProperties
  <2>5. FileInv'
    <3>1. SubSeq(w, 1, n + 1) = w
      BY <1>4, <2>1, SubSeqFull DEF Bytes
    <3>2. Done(written') = Done(written) \o w
      BY <1>2, <1>3, <2>3, DoneAppend
    <3>3. file' = Done(written')
      BY <1>8, <3>1, <3>2
    <3> QED BY <2>2, <3>3 DEF FileInv
  <2>6. OffsetInv'
    <3>1. next_tx_offset' = first + Len(written') + 0
      BY <1>1, <1>2, <1>12, <1>13, <2>4
    <3> QED BY <2>2, <3>1 DEF OffsetInv
  <2>7. EntryInv'
    <3>1. Len(written') <= MaxEntries
      BY <1>2, <2>4, MaxEntriesAssumption
    <3> QED BY <2>2, <2>4, <3>1 DEF EntryInv
  <2>8. ASSUME NEW i \in 1 .. Len(written') PROVE IsOfCommit(written[i])'
    <3>1. CASE i \in 1 .. Len(written)
      <4>1. IsOfCommit(written[i]) /\ written'[i] = written[i]
        BY <1>14, <2>4, <3>1
      <4> QED BY <1>15, <4>1 DEF IsOfCommit
    <3>2. CASE i \notin 1 .. Len(written)
      <4>1. i = Len(written) + 1
        BY <1>2, <2>4, <3>2
      <4>2. written'[i] = entry
        BY <2>4, <4>1
      <4> QED BY <1>14, <1>15, <4>2 DEF IsOfCommit
    <3> QED BY <3>1, <3>2
  <2>9. DiffInv'
    BY <1>14, <2>2, <2>8 DEF DiffInv
  <2> QED BY <2>5, <2>6, <2>7, <2>9 DEF IInv
<1>17. CASE Len(src) # 1
  <2>1. n + 1 \in 0 .. Len(w) - 1
    <3>1. Len(w) - n # 1
      BY <1>6, <1>17
    <3>2. n \in Nat /\ n <= Len(w) - 1
      BY <1>4
    <3> QED BY <1>4, <3>1, <3>2
  <2>2. src' # << >>
    <3>1. Len(src') # 0 /\ Len(<< >>) = 0
      BY <1>4, <1>11, <2>1
    <3> QED BY <3>1
  <2>3. written' = written
    BY <1>1, <1>17
  <2>4. FileInv'
    <3>1. file' = Done(written') \o SubSeq(w, 1, n + 1) /\ src' = After(n + 1, w)
      BY <1>6, <1>8, <2>3
    <3> QED BY <1>9, <2>1, <2>2, <3>1 DEF FileInv
  <2>5. OffsetInv'
    BY <1>1, <1>12, <2>2, <2>3 DEF OffsetInv
  <2>6. EntryInv'
    BY <1>1, <1>2, <2>3 DEF IInv, EntryInv
  <2>7. ASSUME NEW i \in 1 .. Len(written') PROVE IsOfCommit(written[i])'
    <3>1. IsOfCommit(written[i]) /\ written'[i] = written[i]
      BY <1>14, <2>3
    <3> QED BY <1>15, <3>1 DEF IsOfCommit
  <2>8. IsOfCommit(entry)'
    BY <1>1, <1>14, <1>15 DEF IsOfCommit
  <2>9. DiffInv'
    BY <1>14, <2>7, <2>8 DEF DiffInv
  <2> QED BY <2>4, <2>5, <2>6, <2>9 DEF IInv
<1> QED BY <1>16, <1>17

LEMMA IInvNext == IInv /\ OffsetsFit /\ [Next]_vars => IInv'
<1> SUFFICES ASSUME IInv, OffsetsFit, [Next]_vars PROVE IInv'
  OBVIOUS
<1>1. ASSUME NEW diff \in Diffs, ReceiveCommit(diff) PROVE IInv'
  BY <1>1, IInvReceiveCommit
<1>2. ASSUME NEW data \in OtherTxData, ReceiveOther(data) PROVE IInv'
  BY <1>2, IInvReceiveOther
<1>3. CASE WriteByte
  BY <1>3, IInvWriteByte
<1>4. CASE UNCHANGED vars
  <2>1. /\ file' = file /\ src' = src /\ entry' = entry /\ next_tx_offset' = next_tx_offset
        /\ written' = written /\ diff_at' = diff_at
    BY <1>4 DEF vars
  <2>2. FileInv'
    BY <2>1 DEF IInv, FileInv
  <2>3. OffsetInv'
    BY <2>1 DEF IInv, OffsetInv
  <2>4. EntryInv'
    BY <2>1 DEF IInv, EntryInv
  <2>5. DiffInv'
    BY <2>1 DEF IInv, DiffInv, IsOfCommit
  <2> QED BY <2>2, <2>3, <2>4, <2>5 DEF IInv
<1> QED BY <1>1, <1>2, <1>3, <1>4 DEF Next

LEMMA IInvAlways ==
  ASSUME OffsetsFit
  PROVE  Spec => []IInv
<1>1. Init => IInv
  BY IInvInit
<1>2. IInv /\ [Next]_vars => IInv'
  BY IInvNext
<1> QED BY <1>1, <1>2, PTL DEF Spec

-----------------------------------------------------------------------------
(***************************************************************************)
(* What it says of the log.                                                *)
(***************************************************************************)

LEMMA IInvIsTyped == IInv => TypeOK
<1> SUFFICES ASSUME IInv PROVE TypeOK
  OBVIOUS
<1>1. Done(written) \in Bytes /\ Len(written) <= MaxEntries
  BY DoneType DEF IInv, EntryInv
<1>2. DOMAIN diff_at \subseteq Nat
  BY DEF IInv, DiffInv
<1>3. file \in Bytes /\ src \in Bytes
  <2>1. CASE src = << >>
    BY <1>1, <2>1 DEF IInv, FileInv, Bytes
  <2>2. CASE src # << >>
    <3> DEFINE w == SerializeLogEntry(entry)
    <3>1. w \in Bytes
      BY <2>2, EntryBytes DEF IInv, EntryInv
    <3>2. PICK n \in 0 .. Len(w) - 1 : file = Done(written) \o SubSeq(w, 1, n) /\ src = After(n, w)
      BY <2>2 DEF IInv, FileInv
    <3> HIDE DEF w
    <3>3. SubSeq(w, 1, n) \in Bytes /\ src \in Bytes
      BY <3>1, <3>2, NextByte
    <3> QED BY <1>1, <3>2, <3>3, ConcatBytes
  <2> QED BY <2>1, <2>2
<1> QED BY <1>1, <1>2, <1>3 DEF TypeOK

LEMMA IInvIsRead == IInv => IterYieldsWritten
<1> SUFFICES ASSUME IInv PROVE Iter(file) = written
  BY DEF IterYieldsWritten
<1>1. written \in Seq(Writables) /\ Done(written) \in Bytes
  BY DoneType DEF IInv, EntryInv
<1>2. written \o << >> = written
  BY <1>1
<1>3. CASE src = << >>
  <2>1. file = Done(written) /\ Done(written) \o << >> = Done(written) /\ << >> \in Bytes
    BY <1>1, <1>3, ConcatBytes DEF IInv, FileInv, Bytes
  <2>2. Iter(Done(written) \o << >>) = written \o Iter(<< >>)
    BY <1>1, <2>1, IterDone
  <2> QED BY <1>2, <2>1, <2>2, IterEmpty
<1>4. CASE src # << >>
  <2> DEFINE w == SerializeLogEntry(entry)
  <2>1. entry \in Writables /\ w \in Bytes
    BY <1>4, EntryBytes DEF IInv, EntryInv
  <2>2. PICK n \in 0 .. Len(w) - 1 : file = Done(written) \o SubSeq(w, 1, n)
    BY <1>4 DEF IInv, FileInv
  <2> DEFINE p == SubSeq(w, 1, n)
             q == After(n, w)
  <2>3. p \in Bytes /\ q \in Bytes /\ q # << >> /\ p \o q = w
    <3> HIDE DEF w
    <3> QED BY <2>1, NextByte
  <2>4. p \o q = SerializeLogEntry(entry)
    BY <2>3
  <2> HIDE DEF p, q, w
  <2>5. Iter(p) = << >>
    BY <2>1, <2>3, <2>4, IterNone
  <2>6. Iter(Done(written) \o p) = written \o Iter(p)
    BY <1>1, <2>3, IterDone
  <2>7. file = Done(written) \o p
    BY <2>2 DEF p
  <2> QED BY <1>2, <2>5, <2>6, <2>7
<1> QED BY <1>3, <1>4

LEMMA IInvIsReplayed == IInv => ReplayIsCommit
<1> SUFFICES ASSUME IInv, NEW e \in ToSet(Iter(file)), e.tx_offset \in DOMAIN diff_at
             PROVE  ReplayedDiffs(e.tx_data) = {diff_at[e.tx_offset]}
  BY DEF ReplayIsCommit
<1>1. Iter(file) = written
  BY IInvIsRead DEF IterYieldsWritten
<1>2. written \in Seq(Writables) /\ DOMAIN written = 1 .. Len(written)
  BY LenProperties DEF IInv, EntryInv
<1>3. PICK i \in 1 .. Len(written) : e = written[i]
  BY <1>1, <1>2 DEF ToSet
<1>4. IsOfCommit(e)
  BY <1>3 DEF IInv, DiffInv
<1> DEFINE diff == diff_at[e.tx_offset]
<1>5. e.tx_data \in TxDataOf(diff)
  BY <1>4 DEF IsOfCommit
<1>6. diff \in Diffs
  BY DEF IInv, DiffInv
<1> HIDE DEF diff
<1>7. IsDiff(diff)
  BY <1>5, <1>6, CommitOfType
<1>8. ReplayedDiffs(e.tx_data) = {diff}
  BY <1>5, <1>7, ReplayOfCommit
<1> QED BY <1>8 DEF diff

(***************************************************************************)
(* The file and what is still to be written are bytes, whatever is         *)
(* committed: no number is written as something else (serde.rs, write of   *)
(* TxData, and serialize_log_entry).                                       *)
(***************************************************************************)
THEOREM TypeCorrect ==
  ASSUME OffsetsFit
  PROVE  Spec => []TypeOK
<1>1. Spec => []IInv
  BY IInvAlways
<1>2. IInv => TypeOK
  BY IInvIsTyped
<1> QED BY <1>1, <1>2, PTL

(***************************************************************************)
(* TxLogIter yields of a log, however much of it is in the file, the       *)
(* entries that are wholly there as they were written, and then ends: for  *)
(* any transactions, offsets, and number of entries.                       *)
(***************************************************************************)
THEOREM EntriesAreRead ==
  ASSUME OffsetsFit
  PROVE  Spec => []IterYieldsWritten
<1>1. Spec => []IInv
  BY IInvAlways
<1>2. IInv => IterYieldsWritten
  BY IInvIsRead
<1> QED BY <1>1, <1>2, PTL

(***************************************************************************)
(* replay_transaction makes of an entry that is read the diff that commit  *)
(* had at that offset: for any diff, and in any order of its keys.         *)
(***************************************************************************)
THEOREM ReplayedAsCommitted ==
  ASSUME OffsetsFit
  PROVE  Spec => []ReplayIsCommit
<1>1. Spec => []IInv
  BY IInvAlways
<1>2. IInv => ReplayIsCommit
  BY IInvIsReplayed
<1> QED BY <1>1, <1>2, PTL
=============================================================================
