----------------------------- MODULE PipeProofs -----------------------------
(***************************************************************************)
(* The pipe keeps every byte in order and implements a byte stream, for     *)
(* every size of the messages, of the writes and of the reads.              *)
(***************************************************************************)
EXTENDS Pipe, SequenceTheorems, WellFoundedInduction, TLAPS

-----------------------------------------------------------------------------
(* The bytes of a sequence of messages. *)

\* A set of natural numbers that is not empty has a least element.
LEMMA LeastNat ==
    ASSUME NEW T, T \subseteq Nat, T # {}
    PROVE  \E n \in T : \A m \in T : n <= m
<1> DEFINE R == OpToRel(<, Nat)
<1>1. IsWellFoundedOn(R, Nat)
  BY NatLessThanWellFounded
<1>2. \A m, n \in Nat : m < n => <<m, n>> \in R
  BY DEF OpToRel
<1> HIDE DEF R
<1>3. PICK n \in T : \A m \in T : ~(<<m, n>> \in R)
  BY <1>1, WFMin
<1>4. ASSUME NEW m \in T PROVE n <= m
  <2>1. m \in Nat /\ n \in Nat /\ ~(<<m, n>> \in R)
    BY <1>3
  <2>2. ~(m < n)
    BY <1>2, <2>1, Zenon
  <2> QED
    BY <2>1, <2>2
<1> QED
  BY <1>4

\* Concatenation by name, so that its definition is used only where it matters.
Cat(s, t) == s \o t

LEMMA CatEmpty ==
    ASSUME NEW S, NEW s \in Seq(S)
    PROVE  Cat(s, <<>>) = s /\ Cat(<<>>, s) = s
BY ConcatEmptySeq DEF Cat

LEMMA CatType ==
    ASSUME NEW S, NEW s \in Seq(S), NEW t \in Seq(S)
    PROVE  Cat(s, t) \in Seq(S) /\ Len(Cat(s, t)) = Len(s) + Len(t)
BY ConcatProperties DEF Cat

LEMMA CatElement ==
    ASSUME NEW S, NEW s \in Seq(S), NEW t \in Seq(S)
    PROVE  \A i \in 1..Len(s) : Cat(s, t)[i] = s[i]
BY ConcatProperties DEF Cat

LEMMA CatElementRight ==
    ASSUME NEW S, NEW s \in Seq(S), NEW t \in Seq(S), NEW i \in 1..Len(t)
    PROVE  Cat(s, t)[Len(s) + i] = t[i]
<1>1. /\ Len(s) \in Nat /\ Len(t) \in Nat
      /\ \A j \in 1..(Len(s) + Len(t)) :
             (s \o t)[j] = IF j <= Len(s) THEN s[j] ELSE t[j - Len(s)]
  BY ConcatProperties
<1>2. \A j \in 1..(Len(s) + Len(t)) :
          Cat(s, t)[j] = IF j <= Len(s) THEN s[j] ELSE t[j - Len(s)]
  BY <1>1, Zenon DEF Cat
<1>3. /\ Len(s) + i \in 1..(Len(s) + Len(t)) /\ ~(Len(s) + i <= Len(s))
      /\ (Len(s) + i) - Len(s) = i
  BY <1>1
<1> QED
  BY <1>2, <1>3

LEMMA CatAssociative ==
    ASSUME NEW S, NEW s \in Seq(S), NEW t \in Seq(S), NEW u \in Seq(S)
    PROVE  Cat(Cat(s, t), u) = Cat(s, Cat(t, u))
BY ConcatAssociative DEF Cat

\* f[i] is the concatenation of the first i messages.
FlatUpTo(ms, n, f) ==
    f = [i \in 0..n |-> IF i = 0 THEN <<>> ELSE Cat(f[i - 1], ms[i])]
FlatFcn(ms) == CHOOSE f : FlatUpTo(ms, Len(ms), f)
Flat(ms) == FlatFcn(ms)[Len(ms)]

LEMMA FlatExists ==
    ASSUME NEW ms
    PROVE  \A n \in Nat : \E f : FlatUpTo(ms, n, f)
<1> DEFINE Bad == {n \in Nat : ~ \E f : FlatUpTo(ms, n, f)}
<1> SUFFICES ASSUME Bad # {} PROVE FALSE
  OBVIOUS
<1>1. PICK n \in Bad : \A m \in Bad : n <= m
  BY LeastNat, Bad \subseteq Nat
<1>2. CASE n = 0
  <2>1. FlatUpTo(ms, 0, [i \in 0..0 |-> <<>>])
    BY DEF FlatUpTo
  <2> QED
    BY <1>1, <1>2, <2>1
<1>3. CASE n # 0
  <2>1. n - 1 \in Nat /\ n \in Nat /\ n - 1 \notin Bad
    BY <1>1, <1>3
  <2>2. PICK f : FlatUpTo(ms, n - 1, f)
    BY <2>1
  <2> DEFINE g == [i \in 0..n |-> IF i < n THEN f[i] ELSE Cat(f[n - 1], ms[n])]
  <2>3. FlatUpTo(ms, n, g)
    <3>1. \A i \in 0..(n - 1) : f[i] = IF i = 0 THEN <<>> ELSE Cat(f[i - 1], ms[i])
      BY <2>2 DEF FlatUpTo
    <3>2. ASSUME NEW i \in 0..n
          PROVE  g[i] = IF i = 0 THEN <<>> ELSE Cat(g[i - 1], ms[i])
      BY <3>1, <2>1, <1>3
    <3>3. g = [i \in 0..n |-> g[i]]
      OBVIOUS
    <3> HIDE DEF g
    <3> QED
      BY <3>2, <3>3 DEF FlatUpTo
  <2> QED
    BY <2>3, <2>1, <1>1
<1> QED
  BY <1>2, <1>3

\* The equations of the concatenation, and its type.
LEMMA FlatStep ==
    ASSUME NEW S, NEW ms \in Seq(Seq(S))
    PROVE  /\ FlatFcn(ms)[0] = <<>>
           /\ \A i \in 1..Len(ms) : FlatFcn(ms)[i] = Cat(FlatFcn(ms)[i - 1], ms[i])
           /\ \A i \in 0..Len(ms) : FlatFcn(ms)[i] \in Seq(S)
<1> DEFINE F == FlatFcn(ms)
<1>1. Len(ms) \in Nat
  OBVIOUS
<1>2. FlatUpTo(ms, Len(ms), F)
  <2>1. \E f : FlatUpTo(ms, Len(ms), f)
    BY <1>1, FlatExists
  <2> QED
    BY <2>1, Zenon DEF FlatFcn
<1> HIDE DEF F
<1>3. \A i \in 0..Len(ms) : F[i] = IF i = 0 THEN <<>> ELSE Cat(F[i - 1], ms[i])
  BY <1>1, <1>2 DEF FlatUpTo
<1> DEFINE Bad == {i \in Nat : i <= Len(ms) /\ F[i] \notin Seq(S)}
<1>4. ASSUME Bad # {} PROVE FALSE
  <2>1. PICK i \in Bad : \A j \in Bad : i <= j
    BY <1>4, LeastNat, Bad \subseteq Nat
  <2>2. i # 0
    <3>1. F[0] = <<>>
      BY <1>1, <1>3
    <3>2. F[0] \in Seq(S)
      BY <3>1, EmptySeq, Zenon
    <3> QED
      BY <2>1, <3>2
  <2>3. F[i - 1] \in Seq(S) /\ i \in 1..Len(ms) /\ i \in 0..Len(ms)
    BY <2>1, <2>2, <1>1
  <2>4. ms[i] \in Seq(S)
    BY <2>3, ElementOfSeq
  <2>5. F[i] \in Seq(S)
    <3>1. F[i] = Cat(F[i - 1], ms[i])
      BY <1>3, <2>2, <2>3
    <3> QED
      BY <2>3, <2>4, <3>1, CatType
  <2> QED
    BY <2>1, <2>5
<1>5. \A i \in 0..Len(ms) : F[i] \in Seq(S)
  BY <1>1, <1>4
<1>6. F[0] = <<>> /\ \A i \in 1..Len(ms) : F[i] = Cat(F[i - 1], ms[i])
  BY <1>1, <1>3
<1> QED
  BY <1>5, <1>6, Zenon DEF F

LEMMA FlatType ==
    ASSUME NEW S, NEW ms \in Seq(Seq(S))
    PROVE  Flat(ms) \in Seq(S)
<1>1. Len(ms) \in 0..Len(ms)
  OBVIOUS
<1> QED
  BY <1>1, FlatStep DEF Flat

LEMMA FlatEmpty == Flat(<<>>) = <<>>
<1>1. <<>> \in Seq(Seq(Nat)) /\ Len(<<>>) = 0
  BY EmptySeq
<1> QED
  BY <1>1, FlatStep DEF Flat

\* A message more adds its bytes at the end.
LEMMA FlatAppend ==
    ASSUME NEW S, NEW ms \in Seq(Seq(S)), NEW m \in Seq(S)
    PROVE  Flat(Append(ms, m)) = Cat(Flat(ms), m)
<1> DEFINE as == Append(ms, m)
<1>1. /\ as \in Seq(Seq(S)) /\ Len(as) = Len(ms) + 1 /\ Len(ms) \in Nat
      /\ \A i \in 1..Len(ms) : as[i] = ms[i]
      /\ as[Len(ms) + 1] = m
  BY AppendProperties
<1> HIDE DEF as
<1> DEFINE F == FlatFcn(ms)
<1> DEFINE G == FlatFcn(as)
<1>2. F[0] = <<>> /\ \A i \in 1..Len(ms) : F[i] = Cat(F[i - 1], ms[i])
  BY FlatStep
<1>3. G[0] = <<>> /\ \A i \in 1..(Len(ms) + 1) : G[i] = Cat(G[i - 1], as[i])
  BY <1>1, FlatStep
<1> HIDE DEF F, G
<1> DEFINE Bad == {i \in Nat : i <= Len(ms) /\ G[i] # F[i]}
<1>4. ASSUME Bad # {} PROVE FALSE
  <2>1. PICK i \in Bad : \A j \in Bad : i <= j
    BY <1>4, LeastNat, Bad \subseteq Nat
  <2>2. i # 0
    BY <1>2, <1>3, <2>1
  <2>3. G[i - 1] = F[i - 1] /\ i \in 1..Len(ms) /\ i \in 1..(Len(ms) + 1)
    <3>1. i \in Nat /\ i <= Len(ms) /\ i - 1 \notin Bad
      BY <2>1, <2>2
    <3>2. i - 1 \in Nat /\ i - 1 <= Len(ms) /\ Len(ms) \in Nat
      BY <1>1, <2>2, <3>1
    <3> QED
      BY <2>2, <3>1, <3>2
  <2>4. G[i] = F[i]
    BY <1>1, <1>2, <1>3, <2>3
  <2> QED
    BY <2>1, <2>4
<1>5. G[Len(ms)] = F[Len(ms)]
  BY <1>1, <1>4
<1>6. G[Len(ms) + 1] = Cat(F[Len(ms)], m)
  <2> DEFINE k == Len(ms) + 1
  <2>1. k \in 1..(Len(ms) + 1) /\ k - 1 = Len(ms)
    BY <1>1
  <2> HIDE DEF k
  <2>2. G[k] = Cat(G[k - 1], as[k])
    BY <1>3, <2>1
  <2>3. as[k] = m
    BY <1>1 DEF k
  <2>4. G[k] = Cat(F[Len(ms)], m)
    BY <1>5, <2>1, <2>2, <2>3
  <2> QED
    BY <2>4 DEF k
<1>7. Flat(as) = G[Len(ms) + 1] /\ Flat(ms) = F[Len(ms)]
  BY <1>1 DEF Flat, F, G
<1> QED
  BY <1>6, <1>7 DEF as

\* The first message holds the first bytes.
LEMMA FlatTail ==
    ASSUME NEW S, NEW ms \in Seq(Seq(S)), ms # <<>>
    PROVE  Flat(ms) = Cat(Head(ms), Flat(Tail(ms)))
<1> DEFINE ts == Tail(ms)
<1> DEFINE h == Head(ms)
<1>1. /\ h \in Seq(S) /\ h = ms[1]
      /\ ts \in Seq(Seq(S)) /\ Len(ts) = Len(ms) - 1 /\ Len(ms) \in Nat \ {0}
      /\ \A i \in 1..Len(ts) : ts[i] = ms[i + 1]
  BY HeadTailProperties
<1> HIDE DEF ts, h
<1> DEFINE F == FlatFcn(ms)
<1> DEFINE G == FlatFcn(ts)
<1>2. F[0] = <<>> /\ \A i \in 1..Len(ms) : F[i] = Cat(F[i - 1], ms[i])
  BY FlatStep
<1>3. /\ G[0] = <<>> /\ \A i \in 1..Len(ts) : G[i] = Cat(G[i - 1], ts[i])
      /\ \A i \in 0..Len(ts) : G[i] \in Seq(S)
  BY <1>1, FlatStep
<1>h. ASSUME NEW x \in Seq(S), NEW y \in Seq(S)
      PROVE  Cat(Cat(h, x), y) = Cat(h, Cat(x, y))
  <2>1. h \in Seq(S)
    BY <1>1
  <2> QED
    BY <2>1, CatAssociative
<1> HIDE DEF F, G
<1> DEFINE Bad == {i \in Nat : i <= Len(ts) /\ F[i + 1] # Cat(h, G[i])}
<1>4. ASSUME Bad # {} PROVE FALSE
  <2>1. PICK i \in Bad : \A j \in Bad : i <= j
    BY <1>4, LeastNat, Bad \subseteq Nat
  <2>2. i # 0
    <3>1. F[1] = Cat(<<>>, h)
      <4>1. 1 \in 1..Len(ms) /\ 1 - 1 = 0
        BY <1>1
      <4>2. F[1] = Cat(F[1 - 1], ms[1])
        BY <1>2, <4>1, Zenon
      <4> QED
        BY <1>1, <1>2, <4>1, <4>2
    <3>2. F[1] = Cat(h, G[0])
      BY <1>1, <1>3, <3>1, CatEmpty
    <3> QED
      BY <2>1, <3>2
  <2>3. F[i] = Cat(h, G[i - 1]) /\ i \in 1..Len(ts) /\ i + 1 \in 1..Len(ms)
    <3>1. i \in Nat /\ i - 1 \in Nat /\ i <= Len(ts) /\ i - 1 \notin Bad
      BY <2>1, <2>2
    <3>2. i - 1 <= Len(ts) /\ (i - 1) + 1 = i
      BY <3>1, <1>1
    <3> QED
      BY <3>1, <3>2, <1>1, <2>2
  <2>4. G[i - 1] \in Seq(S) /\ ts[i] \in Seq(S)
    <3>1. i \in 1..Len(ts) /\ i - 1 \in 0..Len(ts)
      BY <1>1, <2>3
    <3>2. G[i - 1] \in Seq(S)
      BY <1>3, <3>1
    <3>3. ts[i] \in Seq(S)
      BY <1>1, <3>1, ElementOfSeq
    <3> QED
      BY <3>2, <3>3
  <2>5. F[i + 1] = Cat(Cat(h, G[i - 1]), ts[i])
    <3>1. F[i + 1] = Cat(F[(i + 1) - 1], ms[i + 1]) /\ (i + 1) - 1 = i
      BY <1>2, <2>3
    <3> QED
      BY <3>1, <1>1, <2>3
  <2>6. F[i + 1] = Cat(h, Cat(G[i - 1], ts[i]))
    <3>1. Cat(Cat(h, G[i - 1]), ts[i]) = Cat(h, Cat(G[i - 1], ts[i]))
      BY <1>h, <2>4
    <3> QED
      BY <2>5, <3>1
  <2>7. F[i + 1] = Cat(h, G[i])
    BY <1>3, <2>3, <2>6
  <2> QED
    BY <2>1, <2>7
<1>5. F[Len(ms)] = Cat(h, G[Len(ts)])
  <2>1. Len(ts) \in Nat /\ Len(ts) + 1 = Len(ms) /\ Len(ts) \notin Bad
    BY <1>1, <1>4, SMTT(30)
  <2> QED
    BY <2>1
<1>6. Flat(ms) = F[Len(ms)] /\ Flat(ts) = G[Len(ts)]
  BY DEF Flat, F, G
<1> QED
  BY <1>5, <1>6 DEF h, ts

\* Queued is the concatenation of the messages in the queue.
LEMMA QueuedIsFlat == Queued = Flat(msgs) /\ Queued' = Flat(msgs')
BY Zenon DEF Queued, Flat, FlatFcn, FlatUpTo, Cat

-----------------------------------------------------------------------------
(* Cutting a sequence in two. *)

LEMMA LeastFacts ==
    ASSUME NEW m \in Nat, NEW n \in Nat
    PROVE  /\ Least(m, n) \in 0..m /\ Least(m, n) <= n
           /\ m > 0 /\ n > 0 => Least(m, n) > 0
BY DEF Least

LEMMA CutInTwo ==
    ASSUME NEW S, NEW s \in Seq(S), NEW n \in 0..Len(s)
    PROVE  /\ First(s, n) \in Seq(S) /\ Len(First(s, n)) = n
           /\ From(s, n) \in Seq(S) /\ Len(From(s, n)) = Len(s) - n
           /\ Cat(First(s, n), From(s, n)) = s
<1>1. First(s, n) \in Seq(S) /\ Len(First(s, n)) = n
  BY SubSeqProperties DEF First
<1>2. From(s, n) \in Seq(S) /\ Len(From(s, n)) = Len(s) - n
  BY SubSeqProperties DEF From
<1>3. Cat(First(s, n), From(s, n)) = s
  <2> DEFINE a == First(s, n)
  <2> DEFINE b == From(s, n)
  <2>1. \A i \in 1..n : a[i] = s[i]
    BY SubSeqProperties DEF First
  <2>2. \A i \in 1..(Len(s) - n) : b[i] = s[n + i]
    BY SubSeqProperties DEF From
  <2>3. /\ a \in Seq(S) /\ Len(a) = n /\ b \in Seq(S) /\ Len(b) = Len(s) - n
        /\ Len(s) \in Nat /\ n \in 0..Len(s)
    BY <1>1, <1>2
  <2> HIDE DEF a, b
  <2>4. Cat(a, b) \in Seq(S) /\ Len(Cat(a, b)) = Len(s)
    <3>1. Cat(a, b) \in Seq(S) /\ Len(Cat(a, b)) = Len(a) + Len(b)
      BY <2>3, CatType, Zenon
    <3> QED
      BY <2>3, <3>1
  <2>5. ASSUME NEW i \in 1..Len(s) PROVE Cat(a, b)[i] = s[i]
    <3>1. CASE i <= n
      BY <2>1, <2>3, <3>1, CatElement
    <3>2. CASE i > n
      <4>1. i - n \in 1..(Len(s) - n) /\ n + (i - n) = i
        BY <2>3, <3>2
      <4>2. Cat(a, b)[n + (i - n)] = b[i - n]
        <5>1. i - n \in 1..Len(b)
          BY <2>3, <4>1
        <5>2. Cat(a, b)[Len(a) + (i - n)] = b[i - n]
          BY <2>3, <5>1, CatElementRight, Zenon
        <5> QED
          BY <2>3, <5>2
      <4>3. b[i - n] = s[n + (i - n)]
        BY <2>2, <4>1
      <4> QED
        BY <4>1, <4>2, <4>3
    <3> QED
      BY <2>3, <3>1, <3>2
  <2> QED
    BY <2>4, <2>5, SeqEqual DEF a, b
<1> QED
  BY <1>1, <1>2, <1>3

\* The first bytes of s followed by t, and the others.
LEMMA CutConcatenation ==
    ASSUME NEW S, NEW s \in Seq(S), NEW t \in Seq(S), NEW n \in 0..Len(s)
    PROVE  /\ First(Cat(s, t), n) = First(s, n)
           /\ From(Cat(s, t), n) = Cat(From(s, n), t)
<1> DEFINE a == First(s, n)
<1> DEFINE b == From(s, n)
<1> DEFINE c == Cat(b, t)
<1>1. /\ a \in Seq(S) /\ Len(a) = n /\ b \in Seq(S) /\ Cat(a, b) = s
      /\ c \in Seq(S)
  BY CutInTwo, CatType
<1>2. Cat(s, t) = Cat(a, c)
  BY <1>1, CatAssociative
<1> HIDE DEF a, b, c
<1>3. First(Cat(a, c), n) = a
  <2>1. /\ Cat(a, c) \in Seq(S) /\ Len(Cat(a, c)) = n + Len(c) /\ Len(c) \in Nat
        /\ \A i \in 1..n : Cat(a, c)[i] = a[i]
    <3>1. /\ Cat(a, c) \in Seq(S) /\ Len(Cat(a, c)) = Len(a) + Len(c)
          /\ \A i \in 1..Len(a) : Cat(a, c)[i] = a[i]
      BY <1>1, CatType, CatElement, Zenon
    <3> QED
      BY <1>1, <3>1
  <2>2. n \in 0..Len(Cat(a, c))
    BY <2>1
  <2>3. /\ First(Cat(a, c), n) \in Seq(S) /\ Len(First(Cat(a, c), n)) = n
        /\ \A i \in 1..n : First(Cat(a, c), n)[i] = Cat(a, c)[i]
    BY <2>1, <2>2, SubSeqProperties DEF First
  <2> QED
    BY <1>1, <2>1, <2>3, SeqEqual
<1>4. From(Cat(a, c), n) = c
  <2>1. /\ Cat(a, c) \in Seq(S) /\ Len(Cat(a, c)) = n + Len(c) /\ Len(c) \in Nat
        /\ \A i \in 1..Len(c) : Cat(a, c)[n + i] = c[i]
    <3>1. Cat(a, c) \in Seq(S) /\ Len(Cat(a, c)) = Len(a) + Len(c)
      BY <1>1, CatType, Zenon
    <3>2. ASSUME NEW i \in 1..Len(c) PROVE Cat(a, c)[Len(a) + i] = c[i]
      BY <1>1, CatElementRight, Zenon
    <3> QED
      BY <1>1, <3>1, <3>2
  <2>2. n \in 0..Len(Cat(a, c))
    BY <2>1
  <2>3. /\ From(Cat(a, c), n) \in Seq(S) /\ Len(From(Cat(a, c), n)) = Len(c)
        /\ \A i \in 1..Len(c) : From(Cat(a, c), n)[i] = Cat(a, c)[n + i]
    BY <2>1, <2>2, SubSeqProperties DEF From
  <2> QED
    BY <1>1, <2>1, <2>3, SeqEqual
<1> QED
  BY <1>2, <1>3, <1>4 DEF a, b, c

\* What is taken from the front of d and put behind g stays in its place.
LEMMA TakeFromFront ==
    ASSUME NEW S, NEW g \in Seq(S), NEW d \in Seq(S), NEW r \in Seq(S), NEW n \in 0..Len(d)
    PROVE  Cat(Cat(g, First(d, n)), Cat(From(d, n), r)) = Cat(g, Cat(d, r))
<1> DEFINE a == First(d, n)
<1> DEFINE b == From(d, n)
<1>1. a \in Seq(S) /\ b \in Seq(S) /\ Cat(a, b) = d
  BY CutInTwo
<1> HIDE DEF a, b
<1>2. Cat(b, r) \in Seq(S)
  BY <1>1, CatType
<1>3. Cat(Cat(g, a), Cat(b, r)) = Cat(g, Cat(a, Cat(b, r)))
  BY <1>1, <1>2, CatAssociative
<1>4. Cat(a, Cat(b, r)) = Cat(d, r)
  BY <1>1, CatAssociative
<1> QED
  BY <1>3, <1>4 DEF a, b

\* The first n numbers, and the next len.
Upto(n) == [i \in 1..n |-> i]

LEMMA UptoExtended ==
    ASSUME NEW n \in Nat, NEW len \in Nat, NEW m \in Nat, n + len <= m
    PROVE  /\ [i \in 1..len |-> n + i] \in Seq(1..m)
           /\ Cat(Upto(n), [i \in 1..len |-> n + i]) = Upto(n + len)
<1> DEFINE u == [i \in 1..len |-> n + i]
<1>1. u \in Seq(1..m) /\ Len(u) = len /\ \A i \in 1..len : u[i] = n + i
  <2>1. \A i \in 1..len : n + i \in 1..m
    OBVIOUS
  <2>2. u \in [1..len -> 1..m]
    BY <2>1
  <2> QED
    BY <2>2
<1>2. Upto(n) \in Seq(1..m) /\ Len(Upto(n)) = n /\ \A i \in 1..n : Upto(n)[i] = i
  <2>1. Upto(n) \in [1..n -> 1..m]
    BY DEF Upto
  <2> QED
    BY <2>1 DEF Upto
<1>3. /\ Upto(n + len) \in Seq(1..m) /\ Len(Upto(n + len)) = n + len
      /\ \A i \in 1..(n + len) : Upto(n + len)[i] = i
  <2>1. Upto(n + len) \in [1..(n + len) -> 1..m] /\ n + len \in Nat
    BY DEF Upto
  <2> QED
    BY <2>1 DEF Upto
<1> HIDE DEF u
<1>4. Cat(Upto(n), u) \in Seq(1..m) /\ Len(Cat(Upto(n), u)) = n + len
  <2>1. /\ Cat(Upto(n), u) \in Seq(1..m)
        /\ Len(Cat(Upto(n), u)) = Len(Upto(n)) + Len(u)
    BY <1>1, <1>2, CatType, Zenon
  <2> QED
    BY <1>1, <1>2, <2>1
<1>5. ASSUME NEW i \in 1..(n + len) PROVE Cat(Upto(n), u)[i] = i
  <2>1. CASE i <= n
    <3>1. i \in 1..Len(Upto(n))
      BY <1>2, <2>1
    <3>2. Cat(Upto(n), u)[i] = Upto(n)[i]
      BY <1>1, <1>2, <3>1, CatElement, ZenonT(40)
    <3> QED
      BY <1>2, <2>1, <3>2
  <2>2. CASE i > n
    <3>1. i - n \in 1..Len(u)
      BY <1>1, <2>2
    <3>2. Cat(Upto(n), u)[Len(Upto(n)) + (i - n)] = u[i - n]
      BY <1>1, <1>2, <3>1, CatElementRight, ZenonT(40)
    <3>3. Len(Upto(n)) + (i - n) = i /\ u[i - n] = i
      BY <1>1, <1>2, <3>1
    <3> QED
      BY <3>2, <3>3
  <2> QED
    BY <2>1, <2>2
<1>6. Cat(Upto(n), u) = Upto(n + len)
  <2>1. \A i \in 1..(n + len) : Cat(Upto(n), u)[i] = Upto(n + len)[i]
    BY <1>3, <1>5
  <2> QED
    BY <1>3, <1>4, <2>1, SeqEqual
<1> QED
  BY <1>1, <1>6 DEF u

-----------------------------------------------------------------------------
(* The inductive invariant. *)

\* A Read waits for a message only when nothing is left over, nothing is written
\* after FinishWrite, and the empty message is the last.
ReadingPart == reading # <<>> => data = <<>>
WritingPart == unsent # <<>> => ~finished
EndPart == \A i \in 1..Len(msgs) : msgs[i] = <<>> => i = Len(msgs) /\ finished
IInv == TypeOK /\ ReadingPart /\ WritingPart /\ EndPart /\ EveryByteInOrder

\* The bytes of the four places, in the order of the pipe.
AllBytes == Cat(got, Cat(data, Cat(Flat(msgs), unsent)))

LEMMA BytesInOrder ==
    ASSUME TypeOK
    PROVE  EveryByteInOrder <=> AllBytes = Upto(written)
<1> DEFINE S == 1..MaxBytes
<1>1. /\ got \in Seq(S) /\ data \in Seq(S) /\ Flat(msgs) \in Seq(S) /\ unsent \in Seq(S)
  BY FlatType DEF TypeOK
<1> HIDE DEF S
<1>2. Cat(data, Flat(msgs)) \in Seq(S) /\ Cat(Flat(msgs), unsent) \in Seq(S)
  BY <1>1, CatType
<1>3. Cat(Cat(Cat(got, data), Flat(msgs)), unsent) = AllBytes
  <2>1. Cat(got, data) \in Seq(S)
    BY <1>1, CatType
  <2>2. Cat(Cat(Cat(got, data), Flat(msgs)), unsent)
            = Cat(Cat(got, data), Cat(Flat(msgs), unsent))
    BY <1>1, <2>1, CatAssociative
  <2>3. @ = AllBytes
    BY <1>1, <1>2, CatAssociative DEF AllBytes
  <2> QED
    BY <2>2, <2>3
<1>4. EveryByteInOrder <=> Cat(Cat(Cat(got, data), Flat(msgs)), unsent) = Upto(written)
  BY QueuedIsFlat, Zenon DEF EveryByteInOrder, Cat, Upto
<1> QED
  BY <1>3, <1>4

LEMMA BytesInOrderNext ==
    ASSUME TypeOK'
    PROVE  EveryByteInOrder' <=> AllBytes' = Upto(written')
<1> DEFINE S == 1..MaxBytes
<1> DEFINE F == Flat(msgs')
<1>1. /\ got' \in Seq(S) /\ data' \in Seq(S) /\ F \in Seq(S) /\ unsent' \in Seq(S)
  BY FlatType DEF TypeOK
<1>2. AllBytes' = Cat(got', Cat(data', Cat(F, unsent')))
  BY DEF AllBytes, Flat, FlatFcn, FlatUpTo, Cat
<1>3. Queued' = F
  BY QueuedIsFlat
<1> HIDE DEF S, F
<1>4. Cat(data', F) \in Seq(S) /\ Cat(F, unsent') \in Seq(S) /\ Cat(got', data') \in Seq(S)
  BY <1>1, CatType
<1>5. Cat(Cat(Cat(got', data'), F), unsent') = AllBytes'
  <2>1. Cat(Cat(Cat(got', data'), F), unsent') = Cat(Cat(got', data'), Cat(F, unsent'))
    BY <1>1, <1>4, CatAssociative
  <2>2. @ = AllBytes'
    BY <1>1, <1>2, <1>4, CatAssociative
  <2> QED
    BY <2>1, <2>2
<1>6. EveryByteInOrder' <=> Cat(Cat(Cat(got', data'), F), unsent') = Upto(written')
  BY <1>3, Zenon DEF EveryByteInOrder, Cat, Upto
<1> QED
  BY <1>5, <1>6

-----------------------------------------------------------------------------
(* Every step keeps the invariant. *)

LEMMA InitInv == Init => IInv
<1> SUFFICES ASSUME Init PROVE IInv
  OBVIOUS
<1> DEFINE S == 1..MaxBytes
<1>1. <<>> \in Seq(S) /\ <<>> \in Seq(Seq(S)) /\ <<>> \in Seq(ReadSizes) /\ Len(<<>>) = 0
  BY EmptySeq
<1>2. TypeOK
  <2>1. msgs \in Seq(Seq(S)) /\ data \in Seq(S) /\ unsent \in Seq(S) /\ got \in Seq(S)
    BY <1>1, Zenon DEF Init
  <2>2. reading \in Seq(ReadSizes) /\ Len(msgs) = 0 /\ Len(data) = 0 /\ Len(reading) = 0
    BY <1>1, Zenon DEF Init
  <2>3. Len(data) <= kPipeData /\ Len(reading) <= 1 /\ written \in 0..MaxBytes
    BY <2>2, DataAssumption, BytesAssumption DEF Init
  <2>4. \A i \in 1..Len(msgs) : Len(msgs[i]) <= kPipeData
    BY <2>2
  <2>5. halted \in BOOLEAN /\ closed \in BOOLEAN /\ finished \in BOOLEAN
    BY DEF Init
  <2> QED
    BY <2>1, <2>2, <2>3, <2>4, <2>5 DEF TypeOK
<1>3. ReadingPart /\ WritingPart /\ EndPart
  BY <1>1 DEF Init, ReadingPart, WritingPart, EndPart
<1>4. EveryByteInOrder
  <2>1. AllBytes = <<>>
    BY <1>1, FlatEmpty, CatEmpty DEF Init, AllBytes
  <2>2. Upto(written) = <<>>
    <3>1. Upto(0) \in Seq({}) /\ Len(Upto(0)) = 0
      BY DEF Upto
    <3> QED
      BY <3>1 DEF Init
  <2> QED
    BY <1>2, <2>1, <2>2, BytesInOrder
<1> QED
  BY <1>2, <1>3, <1>4 DEF IInv

\* The queue after a message is added, and after one is taken.
LEMMA QueueGrows ==
    ASSUME TypeOK, NEW m \in Seq(1..MaxBytes), Len(m) <= kPipeData, msgs' = Append(msgs, m)
    PROVE  /\ msgs' \in Seq(Seq(1..MaxBytes))
           /\ \A i \in 1..Len(msgs') : Len(msgs'[i]) <= kPipeData
           /\ Flat(msgs') = Cat(Flat(msgs), m)
           /\ Len(msgs') = Len(msgs) + 1 /\ Len(msgs) \in Nat
           /\ \A i \in 1..Len(msgs) : msgs'[i] = msgs[i]
           /\ msgs'[Len(msgs')] = m
<1>1. msgs \in Seq(Seq(1..MaxBytes)) /\ \A i \in 1..Len(msgs) : Len(msgs[i]) <= kPipeData
  BY DEF TypeOK
<1>2. /\ msgs' \in Seq(Seq(1..MaxBytes)) /\ Len(msgs') = Len(msgs) + 1 /\ Len(msgs) \in Nat
      /\ \A i \in 1..Len(msgs) : msgs'[i] = msgs[i]
      /\ msgs'[Len(msgs')] = m
  BY <1>1, AppendProperties
<1>3. ASSUME NEW i \in 1..Len(msgs') PROVE Len(msgs'[i]) <= kPipeData
  <2>1. CASE i = Len(msgs')
    BY <1>2, <2>1
  <2>2. CASE i # Len(msgs')
    <3>1. i \in 1..Len(msgs)
      BY <1>2, <2>2
    <3> QED
      BY <1>1, <1>2, <3>1
  <2> QED
    BY <2>1, <2>2
<1>4. Flat(msgs') = Cat(Flat(msgs), m)
  BY <1>1, FlatAppend
<1> QED
  BY <1>2, <1>3, <1>4

LEMMA QueueShrinks ==
    ASSUME TypeOK, msgs # <<>>, msgs' = Tail(msgs)
    PROVE  /\ msgs' \in Seq(Seq(1..MaxBytes))
           /\ \A i \in 1..Len(msgs') : Len(msgs'[i]) <= kPipeData
           /\ Head(msgs) \in Seq(1..MaxBytes) /\ Len(Head(msgs)) <= kPipeData
           /\ Head(msgs) = msgs[1] /\ 1 \in 1..Len(msgs)
           /\ Flat(msgs) = Cat(Head(msgs), Flat(msgs'))
           /\ Len(msgs') = Len(msgs) - 1 /\ Len(msgs) \in Nat
           /\ \A i \in 1..Len(msgs') : msgs'[i] = msgs[i + 1]
<1>1. msgs \in Seq(Seq(1..MaxBytes)) /\ \A i \in 1..Len(msgs) : Len(msgs[i]) <= kPipeData
  BY DEF TypeOK
<1>2. /\ msgs' \in Seq(Seq(1..MaxBytes)) /\ Len(msgs') = Len(msgs) - 1
      /\ Len(msgs) \in Nat \ {0}
      /\ Head(msgs) \in Seq(1..MaxBytes) /\ Head(msgs) = msgs[1]
      /\ \A i \in 1..Len(msgs') : msgs'[i] = msgs[i + 1]
  BY <1>1, HeadTailProperties
<1>3. ASSUME NEW i \in 1..Len(msgs') PROVE Len(msgs'[i]) <= kPipeData
  <2>1. i + 1 \in 1..Len(msgs) /\ msgs'[i] = msgs[i + 1]
    BY <1>2
  <2> QED
    BY <1>1, <2>1
<1>4. 1 \in 1..Len(msgs)
  BY <1>2
<1>5. Len(Head(msgs)) <= kPipeData
  BY <1>1, <1>2, <1>4
<1>6. Flat(msgs) = Cat(Head(msgs), Flat(msgs'))
  BY <1>1, FlatTail
<1> QED
  BY <1>2, <1>3, <1>4, <1>5, <1>6

LEMMA WriteBeginInv ==
    ASSUME IInv, NEW len \in WriteSizes, WriteBegin(len)
    PROVE  IInv'
<1> DEFINE S == 1..MaxBytes
<1> DEFINE F == Flat(msgs)
<1> DEFINE u == [i \in 1..len |-> written + i]
<1>1. /\ TypeOK /\ ReadingPart /\ WritingPart /\ EndPart /\ EveryByteInOrder
      /\ len \in Nat /\ written \in Nat /\ MaxBytes \in Nat /\ written + len <= MaxBytes
      /\ unsent = <<>> /\ ~finished /\ unsent' = u /\ written' = written + len
      /\ UNCHANGED <<msgs, halted, data, closed, reading, finished, got>>
  BY SizeAssumption, BytesAssumption DEF IInv, TypeOK, WriteBegin
<1>2. u \in Seq(S) /\ Cat(Upto(written), u) = Upto(written')
  BY <1>1, UptoExtended
<1> HIDE DEF u
<1>3. TypeOK'
  <2>1. written' \in 0..MaxBytes
    BY <1>1
  <2> QED
    BY <1>1, <1>2, <2>1 DEF TypeOK
<1>4. ReadingPart' /\ WritingPart' /\ EndPart'
  BY <1>1 DEF ReadingPart, WritingPart, EndPart
<1>5. EveryByteInOrder'
  <2>1. got \in Seq(S) /\ data \in Seq(S) /\ F \in Seq(S)
    BY <1>1, FlatType DEF TypeOK
  <2>2. Cat(got, Cat(data, F)) = Upto(written)
    <3>1. Cat(F, <<>>) = F
      BY <2>1, CatEmpty
    <3> QED
      BY <1>1, <3>1, BytesInOrder DEF AllBytes
  <2>3. AllBytes' = Cat(got, Cat(data, Cat(F, u)))
    BY <1>1 DEF AllBytes
  <2> HIDE DEF F, S
  <2>4. Cat(data, F) \in Seq(S) /\ Cat(data, Cat(F, u)) = Cat(Cat(data, F), u)
    BY <1>2, <2>1, CatType, CatAssociative
  <2>5. Cat(got, Cat(Cat(data, F), u)) = Cat(Cat(got, Cat(data, F)), u)
    BY <1>2, <2>1, <2>4, CatAssociative
  <2> QED
    BY <1>2, <1>3, <2>2, <2>3, <2>4, <2>5, BytesInOrderNext
<1> QED
  BY <1>3, <1>4, <1>5 DEF IInv

\* What a turn of Write's loop sends: some bytes, and no more than fit.
LEMMA ChunkFacts ==
    ASSUME IInv, WriteChunk
    PROVE  \E n \in 1..Len(unsent) :
               /\ First(unsent, n) \in Seq(1..MaxBytes) /\ Len(First(unsent, n)) = n
               /\ n <= kPipeData
               /\ From(unsent, n) \in Seq(1..MaxBytes)
               /\ Cat(First(unsent, n), From(unsent, n)) = unsent
               /\ msgs' = Append(msgs, First(unsent, n)) /\ unsent' = From(unsent, n)
<1> DEFINE n == Least(Len(unsent), kPipeData)
<1>1. unsent \in Seq(1..MaxBytes) /\ Len(unsent) \in Nat \ {0} /\ kPipeData \in Nat \ {0}
  BY DataAssumption, EmptySeq DEF IInv, TypeOK, WriteChunk
<1>2. n \in 1..Len(unsent) /\ n \in 0..Len(unsent) /\ n <= kPipeData
  <2>1. n \in 0..Len(unsent) /\ n <= kPipeData /\ n > 0
    BY <1>1 DEF Least
  <2> HIDE DEF n
  <2> QED
    BY <1>1, <2>1
<1>3. msgs' = Append(msgs, First(unsent, n)) /\ unsent' = From(unsent, n)
  BY DEF WriteChunk
<1> HIDE DEF n
<1>4. /\ First(unsent, n) \in Seq(1..MaxBytes) /\ Len(First(unsent, n)) = n
      /\ From(unsent, n) \in Seq(1..MaxBytes)
      /\ Cat(First(unsent, n), From(unsent, n)) = unsent
  BY <1>1, <1>2, CutInTwo
<1> QED
  BY <1>2, <1>3, <1>4

LEMMA WriteChunkInv ==
    ASSUME IInv, WriteChunk
    PROVE  IInv'
<1> DEFINE S == 1..MaxBytes
<1> DEFINE F == Flat(msgs)
<1>1. PICK n \in 1..Len(unsent) :
          /\ First(unsent, n) \in Seq(S) /\ Len(First(unsent, n)) = n /\ n <= kPipeData
          /\ From(unsent, n) \in Seq(S)
          /\ Cat(First(unsent, n), From(unsent, n)) = unsent
          /\ msgs' = Append(msgs, First(unsent, n)) /\ unsent' = From(unsent, n)
  BY ChunkFacts
<1> DEFINE a == First(unsent, n)
<1> DEFINE b == From(unsent, n)
<1>2. /\ TypeOK /\ ReadingPart /\ WritingPart /\ EndPart /\ EveryByteInOrder
      /\ unsent # <<>> /\ ~finished /\ halted' = halted
      /\ UNCHANGED <<data, closed, reading, finished, written, got>>
  BY DEF IInv, WriteChunk, WritingPart
<1>3. /\ a \in Seq(S) /\ Len(a) = n /\ n > 0 /\ a # <<>> /\ b \in Seq(S) /\ Cat(a, b) = unsent
      /\ msgs' = Append(msgs, a) /\ unsent' = b /\ Len(a) <= kPipeData
  BY <1>1, EmptySeq
<1> HIDE DEF a, b
<1>4. /\ msgs' \in Seq(Seq(S)) /\ \A i \in 1..Len(msgs') : Len(msgs'[i]) <= kPipeData
      /\ Flat(msgs') = Cat(F, a)
      /\ Len(msgs') = Len(msgs) + 1 /\ Len(msgs) \in Nat
      /\ \A i \in 1..Len(msgs) : msgs'[i] = msgs[i]
      /\ msgs'[Len(msgs')] = a
  BY <1>2, <1>3, QueueGrows
<1>5. TypeOK'
  BY <1>2, <1>3, <1>4 DEF TypeOK
<1>6. ReadingPart' /\ WritingPart'
  BY <1>2 DEF ReadingPart, WritingPart
<1>7. EndPart'
  <2>1. ASSUME NEW i \in 1..Len(msgs') PROVE msgs'[i] # <<>>
    <3>1. CASE i = Len(msgs')
      BY <1>3, <1>4, <3>1
    <3>2. CASE i # Len(msgs')
      <4>1. i \in 1..Len(msgs)
        BY <1>4, <3>2
      <4> QED
        BY <1>2, <1>4, <4>1 DEF EndPart
    <3> QED
      BY <3>1, <3>2
  <2> QED
    BY <2>1 DEF EndPart
<1>8. EveryByteInOrder'
  <2>1. F \in Seq(S)
    BY <1>2, FlatType DEF TypeOK
  <2>2. AllBytes' = Cat(got, Cat(data, Cat(Cat(F, a), b)))
    BY <1>2, <1>3, <1>4 DEF AllBytes
  <2>3. AllBytes = Cat(got, Cat(data, Cat(F, unsent))) /\ AllBytes = Upto(written)
    BY <1>2, BytesInOrder DEF AllBytes
  <2> HIDE DEF F
  <2>4. Cat(Cat(F, a), b) = Cat(F, unsent)
    BY <1>3, <2>1, CatAssociative
  <2> QED
    BY <1>2, <1>5, <2>2, <2>3, <2>4, BytesInOrderNext
<1> QED
  BY <1>5, <1>6, <1>7, <1>8 DEF IInv

LEMMA FinishWriteInv ==
    ASSUME IInv, FinishWrite
    PROVE  IInv' /\ Flat(msgs') = Flat(msgs)
<1> DEFINE S == 1..MaxBytes
<1>1. /\ TypeOK /\ ReadingPart /\ WritingPart /\ EndPart /\ EveryByteInOrder
      /\ unsent = <<>> /\ ~finished /\ finished' = TRUE /\ halted' = halted
      /\ msgs' = Append(msgs, <<>>)
      /\ UNCHANGED <<data, closed, reading, unsent, written, got>>
  BY DEF IInv, FinishWrite
<1>2. <<>> \in Seq(S) /\ Len(<<>>) <= kPipeData
  <2>1. <<>> \in Seq(S) /\ Len(<<>>) = 0
    BY EmptySeq
  <2> QED
    BY <2>1, DataAssumption
<1>3. /\ msgs' \in Seq(Seq(S)) /\ \A i \in 1..Len(msgs') : Len(msgs'[i]) <= kPipeData
      /\ Flat(msgs') = Cat(Flat(msgs), <<>>)
      /\ Len(msgs') = Len(msgs) + 1 /\ Len(msgs) \in Nat
      /\ \A i \in 1..Len(msgs) : msgs'[i] = msgs[i]
  BY <1>1, <1>2, QueueGrows
<1>4. TypeOK'
  BY <1>1, <1>3 DEF TypeOK
<1>5. ReadingPart' /\ WritingPart'
  BY <1>1 DEF ReadingPart, WritingPart
<1>6. EndPart'
  <2>1. ASSUME NEW i \in 1..Len(msgs'), msgs'[i] = <<>> PROVE i = Len(msgs')
    <3>1. SUFFICES ASSUME i # Len(msgs') PROVE FALSE
      OBVIOUS
    <3>2. i \in 1..Len(msgs)
      BY <1>3, <3>1
    <3> QED
      BY <1>1, <1>3, <2>1, <3>2 DEF EndPart
  <2> QED
    BY <1>1, <2>1 DEF EndPart
<1>7. Flat(msgs') = Flat(msgs)
  <2>1. Flat(msgs) \in Seq(S)
    BY <1>1, FlatType DEF TypeOK
  <2> QED
    BY <1>3, <2>1, CatEmpty
<1>8. EveryByteInOrder'
  <2>1. AllBytes' = AllBytes
    BY <1>1, <1>7 DEF AllBytes
  <2> QED
    BY <1>1, <1>4, <2>1, BytesInOrder, BytesInOrderNext
<1> QED
  BY <1>4, <1>5, <1>6, <1>7, <1>8 DEF IInv

\* A part of the bytes left over is returned.
LEMMA ReadLeftoverInv ==
    ASSUME IInv, NEW len \in ReadSizes, ReadLeftover(len)
    PROVE  /\ IInv'
           /\ \E n \in 0..Len(data) : got' = Cat(got, First(data, n)) /\ data' = From(data, n)
<1> DEFINE S == 1..MaxBytes
<1> DEFINE n == Least(Len(data), len)
<1>1. /\ TypeOK /\ ReadingPart /\ WritingPart /\ EndPart /\ EveryByteInOrder
      /\ data \in Seq(S) /\ Len(data) \in Nat /\ Len(data) <= kPipeData /\ len \in Nat
      /\ reading = <<>> /\ got \in Seq(S) /\ kPipeData \in Nat
      /\ UNCHANGED <<msgs, halted, closed, reading, unsent, finished, written>>
  BY SizeAssumption, DataAssumption DEF IInv, TypeOK, ReadLeftover
<1>2. got' = Cat(got, First(data, n)) /\ data' = From(data, n)
  BY Zenon DEF ReadLeftover, Cat
<1>3. n \in 0..Len(data)
  BY <1>1, LeastFacts
<1> HIDE DEF n
<1>4. /\ First(data, n) \in Seq(S) /\ From(data, n) \in Seq(S)
      /\ Len(From(data, n)) = Len(data) - n
  BY <1>1, <1>3, CutInTwo
<1>5. Cat(got, First(data, n)) \in Seq(S)
  BY <1>1, <1>4, CatType
<1>6. TypeOK'
  <2>1. Len(data') <= kPipeData
    BY <1>1, <1>2, <1>3, <1>4
  <2> QED
    BY <1>1, <1>2, <1>4, <1>5, <2>1 DEF TypeOK
<1>7. ReadingPart' /\ WritingPart' /\ EndPart'
  BY <1>1 DEF ReadingPart, WritingPart, EndPart
<1>8. EveryByteInOrder'
  <2> DEFINE r == Cat(Flat(msgs), unsent)
  <2>1. r \in Seq(S)
    BY <1>1, FlatType, CatType DEF TypeOK
  <2>2. AllBytes' = Cat(Cat(got, First(data, n)), Cat(From(data, n), r))
    BY <1>1, <1>2 DEF AllBytes
  <2>3. AllBytes = Cat(got, Cat(data, r)) /\ AllBytes = Upto(written)
    BY <1>1, BytesInOrder DEF AllBytes
  <2> HIDE DEF r, S
  <2>4. AllBytes' = AllBytes
    <3>1. Cat(Cat(got, First(data, n)), Cat(From(data, n), r)) = Cat(got, Cat(data, r))
      <4>1. got \in Seq(S) /\ data \in Seq(S) /\ r \in Seq(S) /\ n \in 0..Len(data)
        BY <1>1, <1>3, <2>1
      <4> QED
        BY ONLY <4>1, TakeFromFront
    <3> QED
      BY <2>2, <2>3, <3>1
  <2> QED
    BY <1>1, <1>6, <2>3, <2>4, BytesInOrderNext
<1> QED
  BY <1>2, <1>3, <1>6, <1>7, <1>8 DEF IInv

\* What a Read does with a message: the end is the only message and nothing is
\* left over; of another message a part is returned.
LEMMA ReadMessageInv ==
    ASSUME IInv, ReadMessage
    PROVE  /\ IInv'
           /\ data = <<>> /\ Flat(msgs) = Cat(Head(msgs), Flat(msgs'))
           /\ Head(msgs) \in Seq(1..MaxBytes)
           /\ \/ /\ Head(msgs) = <<>> /\ closed' = TRUE /\ UNCHANGED <<data, got>>
                 /\ Flat(msgs) = <<>> /\ Flat(msgs') = <<>> /\ finished
              \/ /\ UNCHANGED closed
                 /\ \E n \in 0..Len(Head(msgs)) :
                        got' = Cat(got, First(Head(msgs), n)) /\ data' = From(Head(msgs), n)
<1> DEFINE S == 1..MaxBytes
<1> DEFINE m == Head(msgs)
<1> DEFINE n == Least(Len(m), Head(reading))
<1>1. /\ TypeOK /\ ReadingPart /\ WritingPart /\ EndPart /\ EveryByteInOrder
      /\ reading # <<>> /\ data = <<>> /\ got \in Seq(S) /\ kPipeData \in Nat
      /\ msgs # <<>> /\ msgs' = Tail(msgs) /\ reading' = <<>>
      /\ UNCHANGED <<halted, unsent, finished, written>>
  BY DataAssumption DEF IInv, TypeOK, ReadMessage, ReadingPart
<1>2. /\ msgs' \in Seq(Seq(S)) /\ \A i \in 1..Len(msgs') : Len(msgs'[i]) <= kPipeData
      /\ m \in Seq(S) /\ Len(m) <= kPipeData /\ m = msgs[1] /\ 1 \in 1..Len(msgs)
      /\ Flat(msgs) = Cat(m, Flat(msgs'))
      /\ Len(msgs') = Len(msgs) - 1 /\ Len(msgs) \in Nat
      /\ \A i \in 1..Len(msgs') : msgs'[i] = msgs[i + 1]
  BY <1>1, QueueShrinks
<1>3. /\ m = <<>> => closed' = TRUE /\ UNCHANGED <<data, got>>
      /\ m # <<>> => /\ got' = Cat(got, First(m, n)) /\ data' = From(m, n)
                     /\ UNCHANGED closed
  BY Zenon DEF ReadMessage, Cat
<1>4. n \in 0..Len(m)
  <2>1. Head(reading) \in Nat
    <3>1. reading \in Seq(ReadSizes)
      BY <1>1 DEF TypeOK
    <3>2. Head(reading) \in ReadSizes
      BY <1>1, <3>1, HeadTailProperties
    <3> QED
      BY <3>2, SizeAssumption
  <2>2. Len(m) \in Nat
    BY <1>2
  <2> QED
    BY <2>1, <2>2, LeastFacts
<1> HIDE DEF m, n
<1> DEFINE F == Flat(msgs)
<1> DEFINE G == Flat(msgs')
<1>5. F \in Seq(S) /\ G \in Seq(S) /\ unsent \in Seq(S)
  BY <1>1, <1>2, FlatType DEF TypeOK
<1>6. EndPart'
  <2>1. ASSUME NEW i \in 1..Len(msgs'), msgs'[i] = <<>> PROVE i = Len(msgs') /\ finished'
    <3>1. i + 1 \in 1..Len(msgs) /\ msgs[i + 1] = <<>>
      BY <1>2, <2>1
    <3>2. i + 1 = Len(msgs) /\ finished
      BY <1>1, <3>1 DEF EndPart
    <3>3. i = Len(msgs')
      BY <1>2, <3>2
    <3> QED
      BY <1>1, <3>2, <3>3, Zenon
  <2> QED
    BY <2>1 DEF EndPart
<1>7. ReadingPart' /\ WritingPart'
  BY <1>1 DEF ReadingPart, WritingPart
<1>8. AllBytes = Cat(got, Cat(F, unsent)) /\ AllBytes = Upto(written)
  <2>1. Cat(F, unsent) \in Seq(S)
    BY <1>5, CatType
  <2>2. Cat(<<>>, Cat(F, unsent)) = Cat(F, unsent)
    BY <2>1, CatEmpty
  <2> QED
    BY <1>1, <2>2, BytesInOrder DEF AllBytes
<1>9. reading' \in Seq(ReadSizes) /\ Len(reading') <= 1
  <2>1. <<>> \in Seq(ReadSizes) /\ Len(<<>>) = 0
    BY EmptySeq
  <2> QED
    BY <1>1, <2>1
<1>10. CASE m = <<>>
  <2>1. closed' = TRUE /\ data' = data /\ got' = got
    BY <1>3, <1>10
  <2>2. TypeOK'
    BY <1>1, <1>2, <1>9, <2>1 DEF TypeOK
  <2>3. Len(msgs) = 1 /\ finished
    BY <1>1, <1>2, <1>10 DEF EndPart
  <2>4. G = <<>> /\ F = <<>>
    <3>1. Len(msgs') = 0
      BY <1>2, <2>3
    <3>2. msgs' = <<>>
      BY <1>2, <3>1, EmptySeq
    <3>3. G = <<>>
      BY <3>2, FlatEmpty
    <3>4. F = Cat(<<>>, G)
      BY <1>2, <1>10
    <3> QED
      BY <1>5, <3>3, <3>4, CatEmpty
  <2>5. AllBytes' = AllBytes
    BY <1>1, <2>1, <2>4 DEF AllBytes
  <2>6. EveryByteInOrder'
    BY <1>1, <1>8, <2>2, <2>5, BytesInOrderNext
  <2> QED
    BY <1>1, <1>2, <1>6, <1>7, <1>10, <2>1, <2>2, <2>3, <2>4, <2>6 DEF IInv, m
<1>11. CASE m # <<>>
  <2>1. got' = Cat(got, First(m, n)) /\ data' = From(m, n) /\ closed' = closed
    BY <1>3, <1>11
  <2>2. /\ First(m, n) \in Seq(S) /\ From(m, n) \in Seq(S)
        /\ Len(From(m, n)) = Len(m) - n
    BY <1>2, <1>4, CutInTwo
  <2>3. TypeOK'
    <3>1. Cat(got, First(m, n)) \in Seq(S)
      BY <1>1, <2>2, CatType
    <3>2. Len(data') <= kPipeData
      <4>1. Len(m) \in Nat
        BY <1>2
      <4> QED
        BY <1>1, <1>2, <1>4, <2>1, <2>2, <4>1
    <3> QED
      BY <1>1, <1>2, <1>9, <2>1, <2>2, <3>1, <3>2 DEF TypeOK
  <2>4. EveryByteInOrder'
    <3> DEFINE r == Cat(G, unsent)
    <3>1. AllBytes' = Cat(Cat(got, First(m, n)), Cat(From(m, n), r))
      BY <1>1, <2>1 DEF AllBytes
    <3>2. r \in Seq(S)
      BY <1>5, CatType
    <3>3. Cat(F, unsent) = Cat(m, r)
      <4> HIDE DEF F, G, S
      <4>1. F = Cat(m, G)
        BY <1>2 DEF F, G
      <4>2. Cat(Cat(m, G), unsent) = Cat(m, Cat(G, unsent))
        BY <1>2, <1>5, CatAssociative
      <4> QED
        BY <4>1, <4>2
    <3> HIDE DEF r, S, F, G
    <3>4. AllBytes' = Cat(got, Cat(m, r))
      BY <1>1, <1>2, <1>4, <3>1, <3>2, TakeFromFront
    <3>5. AllBytes' = AllBytes
      BY <1>8, <3>3, <3>4
    <3> QED
      BY <1>1, <1>8, <2>3, <3>5, BytesInOrderNext
  <2> QED
    BY <1>1, <1>2, <1>4, <1>6, <1>7, <2>1, <2>3, <2>4 DEF IInv, m
<1> QED
  BY <1>10, <1>11

\* The steps that move no byte.
LEMMA StutterInv ==
    ASSUME IInv, UNCHANGED <<msgs, data, closed, unsent, finished, written, got>>,
           halted' \in BOOLEAN, reading' \in Seq(ReadSizes), Len(reading') <= 1, ReadingPart'
    PROVE  IInv'
<1>1. TypeOK'
  BY DEF IInv, TypeOK
<1>2. WritingPart' /\ EndPart'
  BY DEF IInv, WritingPart, EndPart
<1>3. EveryByteInOrder'
  <2>1. AllBytes' = AllBytes
    BY DEF AllBytes
  <2>2. AllBytes = Upto(written) /\ written' = written
    BY BytesInOrder DEF IInv
  <2> QED
    BY <1>1, <2>1, <2>2, BytesInOrderNext
<1> QED
  BY <1>1, <1>2, <1>3 DEF IInv

LEMMA NextInv == IInv /\ [Next]_vars => IInv'
<1> SUFFICES ASSUME IInv, [Next]_vars PROVE IInv'
  OBVIOUS
<1>0. TypeOK /\ ReadingPart /\ halted \in BOOLEAN
  BY DEF IInv, TypeOK
<1>1. ASSUME NEW len \in WriteSizes, WriteBegin(len) PROVE IInv'
  BY <1>1, WriteBeginInv
<1>2. CASE WriteChunk
  BY <1>2, WriteChunkInv
<1>3. CASE FinishWrite
  BY <1>3, FinishWriteInv
<1>4. ASSUME NEW len \in ReadSizes, ReadLeftover(len) PROVE IInv'
  BY <1>4, ReadLeftoverInv
<1>5. ASSUME NEW len \in ReadSizes, ReadBegin(len) PROVE IInv'
  <2>1. /\ UNCHANGED <<msgs, halted, data, closed, unsent, finished, written, got>>
        /\ data = <<>> /\ reading' = <<len>>
    BY <1>5 DEF ReadBegin
  <2>2. reading' \in Seq(ReadSizes) /\ Len(reading') <= 1
    BY <2>1
  <2>3. ReadingPart' /\ halted' \in BOOLEAN
    BY <1>0, <2>1 DEF ReadingPart
  <2> QED
    BY <2>1, <2>2, <2>3, StutterInv
<1>6. CASE ReadSleep
  <2>1. /\ UNCHANGED <<msgs, data, closed, reading, unsent, finished, written, got>>
        /\ halted' = TRUE
    BY <1>6 DEF ReadSleep
  <2>2. reading' \in Seq(ReadSizes) /\ Len(reading') <= 1 /\ ReadingPart'
    BY <1>0, <2>1 DEF TypeOK, ReadingPart
  <2> QED
    BY <2>1, <2>2, StutterInv
<1>7. CASE ReadMessage
  BY <1>7, ReadMessageInv
<1>8. CASE UNCHANGED vars
  <2>1. UNCHANGED <<msgs, halted, data, closed, reading, unsent, finished, written, got>>
    BY <1>8 DEF vars
  <2>2. reading' \in Seq(ReadSizes) /\ Len(reading') <= 1 /\ ReadingPart' /\ halted' \in BOOLEAN
    BY <1>0, <2>1 DEF TypeOK, ReadingPart
  <2> QED
    BY <2>1, <2>2, StutterInv
<1> QED
  BY <1>1, <1>2, <1>3, <1>4, <1>5, <1>6, <1>7, <1>8 DEF Next, Reader

LEMMA Invariance == Spec => []IInv
<1>1. Init => IInv
  BY InitInv
<1>2. IInv /\ [Next]_vars => IInv'
  BY NextInv
<1> QED
  BY <1>1, <1>2, PTL DEF Spec

\* Every variable of PipeDescriptor and of the queue keeps its type, and no
\* message, nor what is left of one, is longer than the array it is stored in.
THEOREM TypeCorrect == Spec => []TypeOK
<1>1. IInv => TypeOK
  BY DEF IInv
<1> QED
  BY <1>1, Invariance, PTL

\* Write's loop, the queue, the remainder in data_ and Read keep every byte once
\* and in order, however the writes and the reads cut them.
THEOREM BytesKeepTheirOrder == Spec => []EveryByteInOrder
<1>1. IInv => EveryByteInOrder
  BY DEF IInv
<1> QED
  BY <1>1, Invariance, PTL

-----------------------------------------------------------------------------
(* The pipe is a byte stream. *)

Stream == Cat(data, Flat(msgs))

LEMMA StreamIs ==
    /\ data \o Queued = Stream
    /\ data' \o Queued' = Stream'
<1>1. Queued = Flat(msgs) /\ Queued' = Flat(msgs')
  BY QueuedIsFlat
<1>2. Stream' = Cat(data', Flat(msgs'))
  BY DEF Stream
<1>3. data \o Queued = Stream
  BY <1>1, Zenon DEF Stream, Cat
<1>4. data' \o Queued' = Cat(data', Flat(msgs'))
  BY <1>1, Zenon DEF Cat
<1> QED
  BY <1>2, <1>3, <1>4

\* The actions of the byte stream, of the pipe's variables.
LEMMA StreamActions ==
    /\ /\ ~finished /\ Len(Stream') > Len(Stream) /\ SubSeq(Stream', 1, Len(Stream)) = Stream
       /\ UNCHANGED <<got, finished, closed>>
       => BS!Push
    /\ ~finished /\ finished' = TRUE /\ Stream' = Stream /\ UNCHANGED <<got, closed>> => BS!Close
    /\ /\ \E n \in 1..Len(Stream) : got' = Cat(got, First(Stream, n)) /\ Stream' = From(Stream, n)
       /\ UNCHANGED <<finished, closed>>
       => BS!Pull
    /\ /\ finished /\ Stream = <<>> /\ closed' = TRUE /\ Stream' = Stream
       /\ UNCHANGED <<got, finished>>
       => BS!End
    /\ Stream' = Stream /\ UNCHANGED <<got, finished, closed>> => UNCHANGED BS!vars
<1>1. /\ ~finished /\ Len(Stream') > Len(Stream) /\ SubSeq(Stream', 1, Len(Stream)) = Stream
      /\ UNCHANGED <<got, finished, closed>>
      => BS!Push
  BY StreamIs, Zenon DEF BS!Push
<1>2. ~finished /\ finished' = TRUE /\ Stream' = Stream /\ UNCHANGED <<got, closed>> => BS!Close
  BY StreamIs, Zenon DEF BS!Close
<1>3. /\ \E n \in 1..Len(Stream) : got' = Cat(got, First(Stream, n)) /\ Stream' = From(Stream, n)
      /\ UNCHANGED <<finished, closed>>
      => BS!Pull
  BY StreamIs, Zenon DEF BS!Pull, Cat, First, From
<1>4. /\ finished /\ Stream = <<>> /\ closed' = TRUE /\ Stream' = Stream
      /\ UNCHANGED <<got, finished>>
      => BS!End
  BY StreamIs, Zenon DEF BS!End
<1>5. Stream' = Stream /\ UNCHANGED <<got, finished, closed>> => UNCHANGED BS!vars
  BY StreamIs, Zenon DEF BS!vars
<1> QED
  BY <1>1, <1>2, <1>3, <1>4, <1>5

\* Bytes taken from the front of the stream are a Pull, none is a stutter.
LEMMA TakeIsPull ==
    ASSUME Stream \in Seq(1..MaxBytes), got \in Seq(1..MaxBytes), NEW n \in 0..Len(Stream),
           got' = Cat(got, First(Stream, n)), Stream' = From(Stream, n),
           UNCHANGED <<finished, closed>>
    PROVE  BS!Pull \/ UNCHANGED BS!vars
<1>1. CASE n = 0
  <2>1. /\ First(Stream, 0) \in Seq(1..MaxBytes) /\ Len(First(Stream, 0)) = 0
        /\ From(Stream, 0) \in Seq(1..MaxBytes)
        /\ Cat(First(Stream, 0), From(Stream, 0)) = Stream
    BY <1>1, CutInTwo
  <2>2. First(Stream, 0) = <<>>
    BY <2>1, EmptySeq
  <2>3. Cat(<<>>, From(Stream, 0)) = From(Stream, 0) /\ Cat(got, <<>>) = got
    BY <2>1, CatEmpty
  <2>4. Stream' = Stream /\ got' = got
    BY <1>1, <2>1, <2>2, <2>3
  <2> QED
    BY <2>4, StreamActions
<1>2. CASE n # 0
  <2>1. n \in 1..Len(Stream)
    BY <1>2
  <2> QED
    BY <2>1, StreamActions
<1> QED
  BY <1>1, <1>2

LEMMA StepIsStreamStep == IInv /\ IInv' /\ [Next]_vars => [BS!Next]_(BS!vars)
<1> SUFFICES ASSUME IInv, IInv', [Next]_vars
             PROVE  BS!Next \/ UNCHANGED BS!vars
  OBVIOUS
<1> DEFINE S == 1..MaxBytes
<1> DEFINE F == Flat(msgs)
<1>0. /\ TypeOK /\ data \in Seq(S) /\ got \in Seq(S) /\ F \in Seq(S) /\ Stream \in Seq(S)
  <2>1. TypeOK /\ data \in Seq(S) /\ got \in Seq(S) /\ F \in Seq(S)
    BY FlatType DEF IInv, TypeOK
  <2> QED
    BY <2>1, CatType DEF Stream
<1>1. ASSUME NEW len \in WriteSizes, WriteBegin(len) PROVE UNCHANGED BS!vars
  <2>1. Stream' = Stream /\ UNCHANGED <<got, finished, closed>>
    BY <1>1 DEF WriteBegin, Stream
  <2> QED
    BY <2>1, StreamActions
<1>2. CASE WriteChunk
  <2>1. PICK n \in 1..Len(unsent) :
            /\ First(unsent, n) \in Seq(S) /\ Len(First(unsent, n)) = n /\ n <= kPipeData
            /\ msgs' = Append(msgs, First(unsent, n))
    BY <1>2, ChunkFacts
  <2> DEFINE a == First(unsent, n)
  <2>2. ~finished /\ UNCHANGED <<data, got, finished, closed>>
    BY <1>2 DEF WriteChunk, IInv, WritingPart
  <2>3. a \in Seq(S) /\ Len(a) > 0 /\ Len(a) \in Nat /\ Flat(msgs') = Cat(F, a)
    BY <1>0, <2>1, QueueGrows
  <2>4. Stream' = Cat(Stream, a)
    <3>1. Stream' = Cat(data, Cat(F, a))
      BY <2>2, <2>3 DEF Stream
    <3> HIDE DEF a, S
    <3>2. Cat(data, Cat(F, a)) = Cat(Cat(data, F), a)
      BY <1>0, <2>3, CatAssociative
    <3> QED
      BY <3>1, <3>2 DEF Stream
  <2> HIDE DEF a, F, S
  <2>5. Len(Stream') > Len(Stream)
    <3>1. Len(Cat(Stream, a)) = Len(Stream) + Len(a)
      BY <1>0, <2>3, CatType, Zenon
    <3>2. Len(Stream) \in Nat
      BY <1>0
    <3> QED
      BY <2>3, <2>4, <3>1, <3>2
  <2>6. SubSeq(Stream', 1, Len(Stream)) = Stream
    <3>1. Len(Stream) \in 0..Len(Stream)
      BY <1>0
    <3>2. First(Cat(Stream, a), Len(Stream)) = First(Stream, Len(Stream))
      BY <1>0, <2>3, <3>1, CutConcatenation, Zenon
    <3>3. SubSeq(Stream, 1, Len(Stream)) = Stream
      BY <1>0, SubSeqFull
    <3> QED
      BY <2>4, <3>2, <3>3, Zenon DEF First
  <2>7. BS!Push
    BY <2>2, <2>5, <2>6, StreamActions
  <2> QED
    BY <2>7 DEF BS!Next
<1>3. CASE FinishWrite
  <2>1. Flat(msgs') = F
    BY <1>3, FinishWriteInv
  <2>2. ~finished /\ finished' = TRUE /\ UNCHANGED <<data, got, closed>>
    BY <1>3 DEF FinishWrite
  <2>3. Stream' = Stream
    BY <2>1, <2>2 DEF Stream
  <2>4. BS!Close
    BY <2>2, <2>3, StreamActions
  <2> QED
    BY <2>4 DEF BS!Next
<1>4. ASSUME NEW len \in ReadSizes, ReadLeftover(len) PROVE BS!Pull \/ UNCHANGED BS!vars
  <2>1. PICK n \in 0..Len(data) : got' = Cat(got, First(data, n)) /\ data' = From(data, n)
    BY <1>4, ReadLeftoverInv
  <2>2. UNCHANGED <<msgs, finished, closed>>
    BY <1>4 DEF ReadLeftover
  <2>3. n \in 0..Len(Stream)
    <3>1. Len(Stream) = Len(data) + Len(F) /\ Len(F) \in Nat /\ Len(data) \in Nat
      <4>1. Len(Stream) = Len(data) + Len(F)
        BY <1>0, CatType, Zenon DEF Stream
      <4> QED
        BY <1>0, <4>1
    <3> QED
      BY <3>1
  <2>4. First(Stream, n) = First(data, n) /\ From(Stream, n) = Cat(From(data, n), F)
    BY <1>0, CutConcatenation DEF Stream
  <2>5. Stream' = From(Stream, n)
    BY <2>1, <2>2, <2>4 DEF Stream
  <2>6. got' = Cat(got, First(Stream, n))
    BY <2>1, <2>4
  <2> QED
    BY <1>0, <2>2, <2>3, <2>5, <2>6, TakeIsPull
<1>5. ASSUME NEW len \in ReadSizes, ReadBegin(len) PROVE UNCHANGED BS!vars
  <2>1. Stream' = Stream /\ UNCHANGED <<got, finished, closed>>
    BY <1>5 DEF ReadBegin, Stream
  <2> QED
    BY <2>1, StreamActions
<1>6. CASE ReadSleep
  <2>1. Stream' = Stream /\ UNCHANGED <<got, finished, closed>>
    BY <1>6 DEF ReadSleep, Stream
  <2> QED
    BY <2>1, StreamActions
<1>7. CASE ReadMessage
  <2> DEFINE m == Head(msgs)
  <2> DEFINE G == Flat(msgs')
  <2>1. /\ data = <<>> /\ F = Cat(m, G) /\ m \in Seq(S)
        /\ \/ /\ m = <<>> /\ closed' = TRUE /\ UNCHANGED <<data, got>>
              /\ F = <<>> /\ G = <<>> /\ finished
           \/ /\ UNCHANGED closed
              /\ \E n \in 0..Len(m) : got' = Cat(got, First(m, n)) /\ data' = From(m, n)
    BY <1>7, ReadMessageInv
  <2>2. finished' = finished
    BY <1>7 DEF ReadMessage
  <2>3. Stream = F /\ Stream' = Cat(data', G)
    BY <1>0, <2>1, CatEmpty DEF Stream
  <2>4. G \in Seq(S)
    BY FlatType DEF IInv, TypeOK
  <2> HIDE DEF m, F, G, S
  <2>5. CASE m = <<>> /\ closed' = TRUE /\ UNCHANGED <<data, got>> /\ F = <<>> /\ G = <<>> /\ finished
    <3>1. Stream = <<>> /\ Stream' = Stream
      <4>1. <<>> \in Seq(S) /\ Cat(<<>>, <<>>) = <<>>
        BY EmptySeq, CatEmpty
      <4> QED
        BY <2>1, <2>3, <2>5, <4>1
    <3>2. BS!End
      BY <2>2, <2>5, <3>1, StreamActions
    <3> QED
      BY <3>2 DEF BS!Next
  <2>6. ASSUME closed' = closed, NEW n \in 0..Len(m), got' = Cat(got, First(m, n)), data' = From(m, n)
        PROVE  BS!Next \/ UNCHANGED BS!vars
    <3>1. n \in 0..Len(Stream)
      <4>1. Len(Cat(m, G)) = Len(m) + Len(G)
        BY <2>1, <2>4, CatType, Zenon
      <4>2. Len(m) \in Nat /\ Len(G) \in Nat
        BY <2>1, <2>4
      <4> QED
        BY <2>1, <2>3, <4>1, <4>2
    <3>2. First(Stream, n) = First(m, n) /\ From(Stream, n) = Cat(From(m, n), G)
      <4>1. /\ First(Cat(m, G), n) = First(m, n)
            /\ From(Cat(m, G), n) = Cat(From(m, n), G)
        BY <2>1, <2>4, CutConcatenation
      <4> QED
        BY <2>1, <2>3, <4>1
    <3>3. Stream' = From(Stream, n) /\ got' = Cat(got, First(Stream, n))
      BY <2>3, <2>6, <3>2
    <3>4. BS!Pull \/ UNCHANGED BS!vars
      BY <1>0, <2>2, <2>6, <3>1, <3>3, TakeIsPull DEF S
    <3> QED
      BY <3>4 DEF BS!Next
  <2> QED
    BY <2>1, <2>5, <2>6
<1>8. CASE UNCHANGED vars
  <2>1. Stream' = Stream /\ UNCHANGED <<got, finished, closed>>
    BY <1>8 DEF vars, Stream
  <2> QED
    BY <2>1, StreamActions
<1>9. ASSUME BS!Pull PROVE BS!Next
  BY <1>9 DEF BS!Next
<1> QED
  BY <1>1, <1>2, <1>3, <1>4, <1>5, <1>6, <1>7, <1>8, <1>9 DEF Next, Reader

LEMMA InitIsStreamInit == Init => BS!Init
<1> SUFFICES ASSUME Init PROVE BS!Init
  OBVIOUS
<1>1. Stream = <<>>
  <2>1. <<>> \in Seq(Nat)
    BY EmptySeq
  <2>2. Cat(<<>>, <<>>) = <<>>
    BY <2>1, CatEmpty
  <2> QED
    BY <2>2, FlatEmpty DEF Init, Stream
<1>2. data \o Queued = <<>>
  BY <1>1, StreamIs
<1> QED
  BY <1>2, Zenon DEF Init, BS!Init

\* The pipe implements the byte stream: a turn of Write's loop pushes, FinishWrite
\* closes, Read pulls from the front, and the message of length 0 is seen as the
\* end only when every byte before it has been returned.
THEOREM PipeImplementsByteStream == Spec => ImplementsByteStream
<1>1. Init => BS!Init
  BY InitIsStreamInit
<1>2. IInv /\ IInv' /\ [Next]_vars => [BS!Next]_(BS!vars)
  BY StepIsStreamStep
<1> QED
  BY <1>1, <1>2, Invariance, PTL DEF Spec, ImplementsByteStream, BS!Spec

=============================================================================
