--------------------------- MODULE Readers_proofs ---------------------------
(* The proofs about the readers of foreign files that share no state: the   *)
(* rollout tail reader, the Qoder segment, and the scan and the rows of     *)
(* OpenCode.                                                                *)
EXTENDS TailReader, QoderSession, OpenCodeScan, OpenCodeRows, SequenceTheorems, RecursionLemmas

-----------------------------------------------------------------------------
(* TailReader: sequences of records                                        *)

Rising(s) == \A i, j \in 1 .. Len(s) : i < j => s[i] < s[j]

\* A sequence of records in their order, none of them after the n-th.
RisesTo(s, n) ==
  /\ s \in Seq(Nat)
  /\ Rising(s)
  /\ \A i \in 1 .. Len(s) : s[i] \in 1 .. n

LEMMA Halves ==
  ASSUME NEW n \in Nat
  PROVE  n \div 2 \in Nat /\ 2 * (n \div 2) <= n /\ n <= 2 * (n \div 2) + 1
OBVIOUS

LEMMA RecordsAreAll ==
  ASSUME NEW a \in Nat, NEW e \in 0 .. MaxLength
  PROVE  /\ RisesTo(RecordsIn(a, e), e \div 2)
         /\ ToSet(RecordsIn(a, e)) = {k \in 1 .. e \div 2 : k > (a + 1) \div 2}
<1> DEFINE m == (a + 1) \div 2
           n == e \div 2
           all == [k \in 1 .. MaxLength |-> k]
           part == RecordsIn(a, e)
<1>1. MaxLength \in Nat
  BY WindowsAssumption
<1>2. m \in Nat /\ n \in Nat /\ n <= MaxLength
  BY <1>1, Halves
<1>3. all \in Seq(Nat) /\ Len(all) = MaxLength
  BY <1>1
<1>4. part = SubSeq(all, m + 1, n)
  BY DEF RecordsIn
<1> HIDE DEF m, n, all, part
<1>5. /\ Len(part) = IF m < n THEN n - m ELSE 0
      /\ part \in Seq(Nat)
      /\ \A i \in 1 .. Len(part) : part[i] = m + i
  <2>1. CASE m < n
    BY <1>1, <1>2, <1>3, <1>4, <2>1, SubSeqProperties DEF all
  <2>2. CASE ~(m < n)
    BY <1>1, <1>2, <1>3, <1>4, <2>2, SubSeqProperties
  <2>3. QED
    BY <2>1, <2>2
<1>6. RisesTo(part, n)
  BY <1>2, <1>5 DEF RisesTo, Rising
<1>7. ASSUME NEW k \in 1 .. n, k > m PROVE k \in ToSet(part)
  <2>1. k - m \in 1 .. Len(part) /\ part[k - m] = k
    BY <1>2, <1>5, <1>7
  <2>2. QED
    BY <2>1 DEF ToSet
<1>8. ASSUME NEW k \in ToSet(part) PROVE k \in 1 .. n /\ k > m
  <2>1. PICK i \in 1 .. Len(part) : part[i] = k
    BY <1>5, <1>8 DEF ToSet
  <2>2. QED
    BY <1>2, <1>5, <2>1
<1>9. QED
  BY <1>6, <1>7, <1>8 DEF part, m, n

\* What the cap leaves of a sequence in order.
LEMMA CappedKeeps ==
  ASSUME NEW n \in Nat, NEW s, RisesTo(s, n)
  PROVE  /\ RisesTo(Capped(s), n)
         /\ Len(Capped(s)) = IF Len(s) > MaxEvents THEN MaxEvents ELSE Len(s)
         /\ ToSet(Capped(s)) \subseteq ToSet(s)
         /\ Len(s) > 0 => Capped(s)[1] >= s[1]
         /\ \A k \in ToSet(s) :
              \/ k \in ToSet(Capped(s))
              \/ Len(Capped(s)) = MaxEvents /\ k < Capped(s)[1]
<1> DEFINE d == Minus(Len(s), MaxEvents)
           c == Capped(s)
<1>1. MaxEvents \in Nat \ {0} /\ s \in Seq(Nat) /\ Len(s) \in Nat
  BY WindowsAssumption DEF RisesTo
<1>2. d \in 0 .. Len(s) /\ Len(s) - d = (IF Len(s) > MaxEvents THEN MaxEvents ELSE Len(s))
  BY <1>1 DEF Minus
<1>3. c = SubSeq(s, d + 1, Len(s))
  BY DEF Capped
<1> HIDE DEF c, d
<1>4. /\ Len(c) = Len(s) - d
      /\ c \in Seq(Nat)
      /\ \A i \in 1 .. Len(c) : d + i \in 1 .. Len(s) /\ c[i] = s[d + i]
  <2>1. /\ Len(c) = IF d + 1 <= Len(s) THEN Len(s) - (d + 1) + 1 ELSE 0
        /\ c \in Seq(Nat)
        /\ \A i \in 1 .. Len(c) : c[i] = s[d + 1 + i - 1]
    <3>1. d + 1 \in Int /\ Len(s) \in Int /\ \A i \in d + 1 .. Len(s) : i \in 1 .. Len(s)
      BY <1>1, <1>2
    <3>2. \A i \in d + 1 .. Len(s) : s[i] \in Nat
      BY <1>1, <3>1
    <3>3. /\ SubSeq(s, d + 1, Len(s)) \in Seq(Nat)
          /\ Len(SubSeq(s, d + 1, Len(s))) = IF d + 1 <= Len(s) THEN Len(s) - (d + 1) + 1 ELSE 0
          /\ \A i \in 1 .. Len(s) - (d + 1) + 1 : SubSeq(s, d + 1, Len(s))[i] = s[d + 1 + i - 1]
      BY <3>1, <3>2, SubSeqProperties
    <3>4. \A i \in 1 .. Len(c) : i \in 1 .. Len(s) - (d + 1) + 1
      BY <1>1, <1>2, <1>3, <3>3
    <3>5. QED
      BY <1>3, <3>3, <3>4
  <2>2. Len(c) = Len(s) - d
    BY <1>1, <1>2, <2>1
  <2>3. ASSUME NEW i \in 1 .. Len(c) PROVE d + i \in 1 .. Len(s) /\ d + 1 + i - 1 = d + i
    BY <1>1, <1>2, <2>2
  <2>4. QED
    BY <2>1, <2>2, <2>3
<1>5. RisesTo(c, n)
  <2>1. ASSUME NEW i \in 1 .. Len(c) PROVE c[i] \in 1 .. n
    BY <1>4 DEF RisesTo
  <2>2. ASSUME NEW i \in 1 .. Len(c), NEW j \in 1 .. Len(c), i < j PROVE c[i] < c[j]
    <3>1. d + i < d + j
      BY <1>1, <1>2, <1>4, <2>2
    <3>2. QED
      BY <1>4, <3>1 DEF RisesTo, Rising
  <2>3. QED
    BY <1>4, <2>1, <2>2 DEF RisesTo, Rising
<1>6. ToSet(c) \subseteq ToSet(s)
  <2>1. ASSUME NEW i \in DOMAIN c PROVE \E j \in DOMAIN s : c[i] = s[j]
    <3>1. d + i \in 1 .. Len(s) /\ c[i] = s[d + i]
      BY <1>4, <2>1
    <3>2. DOMAIN s = 1 .. Len(s)
      BY <1>1
    <3>3. QED
      BY <3>1, <3>2
  <2>2. QED
    BY <2>1 DEF ToSet
<1>7. ASSUME Len(s) > 0 PROVE c[1] >= s[1]
  <2>1. 1 \in 1 .. Len(c) /\ d + 1 \in 1 .. Len(s) /\ c[1] = s[d + 1] /\ 1 \in 1 .. Len(s)
    <3>1. Len(c) >= 1 /\ Len(c) \in Nat
      BY <1>1, <1>2, <1>4, <1>7
    <3>2. 1 \in 1 .. Len(c) /\ 1 \in 1 .. Len(s)
      BY <1>1, <1>7, <3>1
    <3>3. QED
      BY <1>4, <3>2
  <2>2. s[1] \in Nat /\ s[d + 1] \in Nat
    BY <1>1, <2>1 DEF RisesTo
  <2>3. QED
    BY <1>1, <1>2, <2>1, <2>2 DEF RisesTo, Rising
<1>8. ASSUME NEW k \in ToSet(s), k \notin ToSet(c)
      PROVE  Len(c) = MaxEvents /\ k < c[1]
  <2>1. PICK i \in 1 .. Len(s) : s[i] = k
    BY <1>1, <1>8 DEF ToSet
  <2>2. i <= d
    <3>1. SUFFICES ASSUME i > d PROVE FALSE
      BY <1>2
    <3>2. i - d \in 1 .. Len(c) /\ d + (i - d) = i
      BY <1>1, <1>2, <1>4, <3>1
    <3>3. c[i - d] = k
      BY <1>4, <2>1, <3>2
    <3>4. QED
      BY <1>1, <1>4, <1>8, <3>2, <3>3 DEF ToSet
  <2>3. Len(s) > MaxEvents /\ Len(c) = MaxEvents
    BY <1>1, <1>2, <1>4, <2>1, <2>2
  <2>4. 1 \in 1 .. Len(c) /\ c[1] = s[d + 1] /\ d + 1 \in 1 .. Len(s) /\ i < d + 1
    <3>1. 1 \in 1 .. Len(c) /\ i < d + 1
      BY <1>1, <1>2, <2>2, <2>3
    <3>2. QED
      BY <1>4, <3>1
  <2>5. QED
    BY <2>1, <2>3, <2>4 DEF RisesTo, Rising
<1>9. QED
  BY <1>2, <1>4, <1>5, <1>6, <1>7, <1>8 DEF c

LEMMA MaxIsGreatest ==
  ASSUME NEW n \in Nat, NEW T, T \subseteq 1 .. n, T # {}
  PROVE  Max(T) \in T /\ \A k \in T : k <= Max(T)
<1>1. T \subseteq Nat /\ \A k \in T : k <= n
  OBVIOUS
<1>2. \E k \in T : \A m \in T : m <= k
  BY <1>1, GreatestNatural
<1>3. \E k \in T : \A m \in T : k >= m
  BY <1>1, <1>2
<1>4. Max(T) \in T /\ \A k \in T : Max(T) >= k
  BY <1>3 DEF Max
<1>5. QED
  BY <1>1, <1>4

\* A greater record after a sequence in order.
LEMMA AppendRises ==
  ASSUME NEW n \in Nat, NEW s, RisesTo(s, n), NEW k \in 1 .. n,
         \A i \in 1 .. Len(s) : s[i] < k
  PROVE  RisesTo(Append(s, k), n) /\ ToSet(Append(s, k)) = ToSet(s) \union {k}
<1> DEFINE t == Append(s, k)
<1>1. s \in Seq(Nat) /\ Len(s) \in Nat /\ k \in Nat
  BY DEF RisesTo
<1>2. /\ t \in Seq(Nat) /\ Len(t) = Len(s) + 1
      /\ \A i \in 1 .. Len(s) : t[i] = s[i]
      /\ t[Len(s) + 1] = k
  BY <1>1, AppendProperties
<1> HIDE DEF t
<1>3. RisesTo(t, n)
  <2>1. ASSUME NEW i \in 1 .. Len(t) PROVE t[i] \in 1 .. n
    <3>1. CASE i \in 1 .. Len(s)
      BY <1>2, <3>1 DEF RisesTo
    <3>2. CASE i = Len(s) + 1
      BY <1>2, <3>2
    <3>3. QED
      BY <1>1, <1>2, <3>1, <3>2
  <2>2. ASSUME NEW i \in 1 .. Len(t), NEW j \in 1 .. Len(t), i < j PROVE t[i] < t[j]
    <3>1. i \in 1 .. Len(s)
      BY <1>1, <1>2, <2>2
    <3>2. CASE j \in 1 .. Len(s)
      BY <1>2, <2>2, <3>1, <3>2 DEF RisesTo, Rising
    <3>3. CASE j = Len(s) + 1
      BY <1>2, <3>1, <3>3
    <3>4. QED
      BY <1>1, <1>2, <3>2, <3>3
  <2>3. QED
    BY <1>2, <2>1, <2>2 DEF RisesTo, Rising
<1>4. ToSet(t) = ToSet(s) \union {k}
  <2>1. DOMAIN t = 1 .. Len(s) + 1 /\ DOMAIN s = 1 .. Len(s)
    BY <1>1, <1>2
  <2>2. DOMAIN t = DOMAIN s \union {Len(s) + 1}
    BY <1>1, <2>1
  <2>3. QED
    BY <1>2, <2>1, <2>2 DEF ToSet
<1>5. QED
  BY <1>3, <1>4 DEF t

\* The merge is in order and loses nothing.
LEMMA AscendingRises ==
  ASSUME NEW n \in Nat, NEW S, S \subseteq 1 .. n
  PROVE  RisesTo(Ascending(S), n) /\ ToSet(Ascending(S)) = S
<1> DEFINE V == Seq(Nat)
           pick == [T \in SUBSET S |-> IF T = {} THEN {} ELSE Max(T)]
           step == [x \in S \X V |-> Append(x[2], x[1])]
           IsFold(f) == f = [T \in SUBSET S |->
                               IF T = {} THEN <<>> ELSE Append(f[T \ {Max(T)}], Max(T))]
<1>1. IsFiniteSet(S)
  <2>1. IsFiniteSet(1 .. n)
    BY FS_Interval
  <2>2. QED
    BY <2>1, FS_Subset
<1>2. ASSUME NEW T \in SUBSET S, T # {} PROVE Max(T) \in T /\ \A k \in T : k <= Max(T)
  <2>1. T \subseteq 1 .. n
    OBVIOUS
  <2>2. QED
    BY <1>2, <2>1, MaxIsGreatest
<1>3. pick \in Picks(S) /\ step \in FoldSteps(S, V) /\ <<>> \in V
  <2>1. pick \in Picks(S)
    <3>1. ASSUME NEW T \in SUBSET S
          PROVE  (IF T = {} THEN {} ELSE Max(T)) \in S \union {{}}
      BY <1>2
    <3>2. pick \in [SUBSET S -> S \union {{}}]
      BY <3>1
    <3>3. ASSUME NEW T \in SUBSET S, T # {} PROVE pick[T] \in T
      BY <1>2, <3>3
    <3>4. QED
      <4> HIDE DEF pick
      <4>1. \A T \in (SUBSET S) \ {{}} : pick[T] \in T
        BY <3>3
      <4>2. QED
        BY <3>2, <4>1 DEF Picks
  <2>2. step \in FoldSteps(S, V)
    <3>1. S \subseteq Nat
      OBVIOUS
    <3>2. ASSUME NEW x \in S \X V PROVE Append(x[2], x[1]) \in V
      <4>1. x[1] \in Nat /\ x[2] \in Seq(Nat)
        BY <3>1
      <4>2. QED
        BY <4>1, AppendProperties
    <3>3. QED
      BY <3>2 DEF FoldSteps
  <2>3. QED
    BY <2>1, <2>2
<1>4. PICK fold : Folds(fold, S, V, <<>>, pick, step)
  <2> HIDE DEF V, pick, step
  <2>1. QED
    BY <1>1, <1>3, FoldExists
<1>5. IsFold(fold)
  <2>1. ASSUME NEW T \in SUBSET S, T # {}
        PROVE  fold[T] = Append(fold[T \ {Max(T)}], Max(T))
    <3>1. Max(T) \in S /\ T \ {Max(T)} \in SUBSET S /\ pick[T] = Max(T)
      BY <1>2, <2>1
    <3>2. fold[T \ {Max(T)}] \in V
      BY <1>4, <3>1 DEF Folds
    <3>3. fold[T] = step[<<pick[T], fold[T \ {pick[T]}]>>]
      <4> HIDE DEF V, pick, step
      <4>1. QED
        BY <1>4, <2>1 DEF Folds
    <3>4. QED
      BY <3>1, <3>2, <3>3
  <2>2. fold[{}] = <<>>
    <3> HIDE DEF V, pick, step
    <3>1. QED
      BY <1>4 DEF Folds
  <2>3. fold = [T \in SUBSET S |-> fold[T]]
    <3> HIDE DEF V, pick, step
    <3>1. QED
      BY <1>4 DEF Folds
  <2>4. QED
    BY <2>1, <2>2, <2>3
<1> DEFINE f == CHOOSE g : IsFold(g)
<1>6. IsFold(f)
  BY <1>5
<1>7. Ascending(S) = f[S]
  BY DEF Ascending, MapThenFoldSet
<1> HIDE DEF f
<1> DEFINE Good(T) == RisesTo(f[T], n) /\ ToSet(f[T]) = T
           sizes == {Cardinality(T) : T \in {T \in SUBSET S : ~Good(T)}}
<1>8. ASSUME NEW T \in SUBSET S PROVE IsFiniteSet(T) /\ Cardinality(T) \in Nat
  BY <1>1, FS_Subset, FS_CardinalityType
<1>9. Good(S)
  <2> SUFFICES ASSUME sizes # {} PROVE FALSE
    OBVIOUS
  <2>1. sizes \subseteq Nat
    BY <1>8
  <2>2. PICK m \in sizes : \A l \in sizes : m <= l
    <3> HIDE DEF sizes
    <3>1. QED
      BY <2>1, LeastNatural
  <2>3. PICK T \in SUBSET S : ~Good(T) /\ Cardinality(T) = m
    BY <2>2
  <2> DEFINE U == T \ {Max(T)}
  <2>4. CASE T = {}
    <3>1. f[T] = <<>>
      BY <1>6, <2>4
    <3>2. RisesTo(f[T], n) /\ ToSet(f[T]) = {}
      BY <3>1 DEF RisesTo, Rising, ToSet
    <3>3. QED
      BY <2>3, <2>4, <3>2
  <2>5. CASE T # {}
    <3>1. Max(T) \in T /\ \A k \in T : k <= Max(T)
      BY <1>2, <2>5
    <3>2. U \in SUBSET S /\ Cardinality(U) = Cardinality(T) - 1
      BY <1>8, <3>1, FS_RemoveElement
    <3>3. Cardinality(U) \notin sizes
      BY <1>8, <2>1, <2>2, <2>3, <3>2
    <3>4. Good(U)
      BY <3>2, <3>3
    <3>5. f[T] = Append(f[U], Max(T))
      BY <1>6, <2>5
    <3>6. Max(T) \in 1 .. n /\ \A k \in U : k < Max(T)
      <4>1. Max(T) \in 1 .. n /\ T \subseteq 1 .. n
        BY <3>1
      <4>2. ASSUME NEW k \in U PROVE k < Max(T)
        <5>1. k \in 1 .. n /\ k <= Max(T) /\ k # Max(T)
          BY <3>1, <4>1
        <5>2. QED
          BY <4>1, <5>1
      <4>3. QED
        BY <4>1, <4>2
    <3>7. ASSUME NEW i \in 1 .. Len(f[U]) PROVE f[U][i] < Max(T)
      <4>1. f[U] \in Seq(Nat)
        BY <3>4 DEF RisesTo
      <4>2. DOMAIN f[U] = 1 .. Len(f[U])
        BY <4>1
      <4>3. f[U][i] \in ToSet(f[U])
        BY <4>2 DEF ToSet
      <4>4. QED
        BY <3>4, <3>6, <4>3
    <3>8. Good(T)
      <4>1. RisesTo(f[T], n) /\ ToSet(f[T]) = U \union {Max(T)}
        <5> HIDE DEF U
        <5>1. QED
          BY <3>4, <3>5, <3>6, <3>7, AppendRises
      <4>2. QED
        BY <3>1, <4>1
    <3>9. QED
      BY <2>3, <3>8
  <2>6. QED
    BY <2>4, <2>5
<1>10. QED
  BY <1>7, <1>9

\* Records that go on where those of a sequence end.
LEMMA ConcatRises ==
  ASSUME NEW m \in Nat, NEW n \in Nat, m <= n,
         NEW s, RisesTo(s, m), NEW t, RisesTo(t, n),
         \A i \in 1 .. Len(t) : t[i] > m
  PROVE  /\ RisesTo(s \o t, n)
         /\ ToSet(s \o t) = ToSet(s) \union ToSet(t)
         /\ Len(s \o t) = Len(s) + Len(t)
         /\ Len(s) > 0 => (s \o t)[1] = s[1]
<1> DEFINE u == s \o t
<1>1. s \in Seq(Nat) /\ t \in Seq(Nat) /\ Len(s) \in Nat /\ Len(t) \in Nat
  BY DEF RisesTo
<1>2. /\ u \in Seq(Nat) /\ Len(u) = Len(s) + Len(t)
      /\ \A i \in 1 .. Len(u) : u[i] = IF i <= Len(s) THEN s[i] ELSE t[i - Len(s)]
  BY <1>1, ConcatProperties
<1> HIDE DEF u
<1>3. /\ \A i \in 1 .. Len(s) : i \in 1 .. Len(u) /\ u[i] = s[i]
      /\ \A i \in 1 .. Len(t) : Len(s) + i \in 1 .. Len(u) /\ u[Len(s) + i] = t[i]
      /\ \A i \in 1 .. Len(u) : i \in 1 .. Len(s) \/ (i - Len(s) \in 1 .. Len(t) /\ u[i] = t[i - Len(s)])
  <2>1. ASSUME NEW i \in 1 .. Len(s) PROVE i \in 1 .. Len(u) /\ u[i] = s[i]
    BY <1>1, <1>2
  <2>2. ASSUME NEW i \in 1 .. Len(t) PROVE Len(s) + i \in 1 .. Len(u) /\ u[Len(s) + i] = t[i]
    <3>1. Len(s) + i \in 1 .. Len(u) /\ ~(Len(s) + i <= Len(s)) /\ (Len(s) + i) - Len(s) = i
      BY <1>1, <1>2
    <3>2. QED
      BY <1>2, <3>1
  <2>3. ASSUME NEW i \in 1 .. Len(u), i \notin 1 .. Len(s)
        PROVE  i - Len(s) \in 1 .. Len(t) /\ u[i] = t[i - Len(s)]
    BY <1>1, <1>2, <2>3
  <2>4. QED
    BY <2>1, <2>2, <2>3
<1>4. RisesTo(u, n)
  <2>1. ASSUME NEW i \in 1 .. Len(u) PROVE u[i] \in 1 .. n
    <3>1. CASE i \in 1 .. Len(s)
      BY <1>3, <3>1 DEF RisesTo
    <3>2. CASE i - Len(s) \in 1 .. Len(t) /\ u[i] = t[i - Len(s)]
      BY <3>2 DEF RisesTo
    <3>3. QED
      BY <1>3, <3>1, <3>2
  <2>2. ASSUME NEW i \in 1 .. Len(u), NEW j \in 1 .. Len(u), i < j PROVE u[i] < u[j]
    <3>1. CASE j \in 1 .. Len(s)
      <4>1. i \in 1 .. Len(s)
        BY <1>1, <1>2, <2>2, <3>1
      <4>2. u[i] = s[i] /\ u[j] = s[j]
        BY <1>3, <3>1, <4>1
      <4>3. QED
        BY <2>2, <3>1, <4>1, <4>2 DEF RisesTo, Rising
    <3>2. CASE i \in 1 .. Len(s) /\ j \notin 1 .. Len(s)
      <4>1. u[i] = s[i] /\ s[i] \in 1 .. m /\ u[j] = t[j - Len(s)] /\ j - Len(s) \in 1 .. Len(t)
        BY <1>3, <3>2 DEF RisesTo
      <4>2. ASSUME NEW l \in 1 .. Len(t) PROVE t[l] \in 1 .. n /\ t[l] > m
        BY DEF RisesTo
      <4>3. t[j - Len(s)] \in 1 .. n /\ t[j - Len(s)] > m
        BY <4>1, <4>2
      <4>4. QED
        BY <4>1, <4>3
    <3>3. CASE i \notin 1 .. Len(s) /\ j \notin 1 .. Len(s)
      <4>1. /\ i - Len(s) \in 1 .. Len(t) /\ j - Len(s) \in 1 .. Len(t)
            /\ u[i] = t[i - Len(s)] /\ u[j] = t[j - Len(s)] /\ i - Len(s) < j - Len(s)
        BY <1>1, <1>2, <1>3, <2>2, <3>3
      <4>2. QED
        BY <4>1 DEF RisesTo, Rising
    <3>4. QED
      BY <1>1, <1>2, <2>2, <3>1, <3>2, <3>3
  <2>3. QED
    BY <1>2, <2>1, <2>2 DEF RisesTo, Rising
<1>5. ToSet(u) = ToSet(s) \union ToSet(t)
  <2>1. DOMAIN u = 1 .. Len(u) /\ DOMAIN s = 1 .. Len(s) /\ DOMAIN t = 1 .. Len(t)
    BY <1>1, <1>2
  <2>2. ToSet(u) \subseteq ToSet(s) \union ToSet(t)
    BY <1>3, <2>1 DEF ToSet
  <2>3. ToSet(s) \subseteq ToSet(u)
    BY <1>3, <2>1 DEF ToSet
  <2>4. ToSet(t) \subseteq ToSet(u)
    BY <1>3, <2>1 DEF ToSet
  <2>5. QED
    BY <2>2, <2>3, <2>4
<1>6. Len(s) > 0 => u[1] = s[1]
  BY <1>1, <1>3
<1>7. QED
  BY <1>2, <1>4, <1>5, <1>6 DEF u

-----------------------------------------------------------------------------
(* TailReader: what one refresh reads                                      *)

LEMMA HalvesGrow ==
  ASSUME NEW a \in Nat, NEW b \in Nat, a <= b
  PROVE  a \div 2 \in Nat /\ b \div 2 \in Nat /\ a \div 2 <= b \div 2
BY Halves

LEMMA MinIsLeast ==
  ASSUME NEW T, T \subseteq Nat, T # {}
  PROVE  Min(T) \in T /\ \A k \in T : Min(T) <= k
<1>1. \E k \in T : \A m \in T : k <= m
  BY LeastNatural
<1>2. QED
  BY <1>1 DEF Min

LEMMA MaxOfTwo ==
  ASSUME NEW a \in Nat, NEW b \in Nat
  PROVE  Max({a, b}) = IF a >= b THEN a ELSE b
<1>1. \E k \in {a, b} : \A m \in {a, b} : k >= m
  OBVIOUS
<1>2. Max({a, b}) \in {a, b} /\ \A m \in {a, b} : Max({a, b}) >= m
  BY <1>1 DEF Max
<1>3. QED
  BY <1>2

\* The records of a sequence in order are as many as those it goes up to.
LEMMA RisesWithin ==
  ASSUME NEW m \in Nat, NEW n \in Nat, m <= n, NEW s, RisesTo(s, m)
  PROVE  RisesTo(s, n) /\ ToSet(s) \subseteq 1 .. m
<1>1. s \in Seq(Nat) /\ DOMAIN s = 1 .. Len(s)
  BY DEF RisesTo
<1>2. ToSet(s) \subseteq 1 .. m
  BY <1>1 DEF ToSet, RisesTo
<1>3. ASSUME NEW i \in 1 .. Len(s) PROVE s[i] \in 1 .. n
  <2>1. s[i] \in 1 .. m
    BY DEF RisesTo
  <2>2. QED
    BY <2>1
<1>4. QED
  BY <1>1, <1>2, <1>3 DEF RisesTo

\* A window yields all records that end in it, but the line it may start in.
LEMMA LinesAreRecords ==
  ASSUME NEW a \in Nat, NEW e \in 0 .. MaxLength, NEW discard \in BOOLEAN
  PROVE  /\ RisesTo(Lines(a, e, discard), e \div 2)
         /\ ToSet(Lines(a, e, discard))
              = {k \in 1 .. e \div 2 : k > IF discard THEN a \div 2 + 1 ELSE (a + 1) \div 2}
<1>1. CASE discard
  <2>1. LineEnd(a) \in Nat /\ (LineEnd(a) + 1) \div 2 = a \div 2 + 1
    BY Halves DEF LineEnd
  <2>2. Lines(a, e, discard) = RecordsIn(LineEnd(a), e)
    BY <1>1 DEF Lines
  <2>3. /\ RisesTo(RecordsIn(LineEnd(a), e), e \div 2)
        /\ ToSet(RecordsIn(LineEnd(a), e)) = {k \in 1 .. e \div 2 : k > (LineEnd(a) + 1) \div 2}
    BY <2>1, RecordsAreAll
  <2>4. QED
    BY <1>1, <2>1, <2>2, <2>3
<1>2. CASE ~discard
  <2>1. Lines(a, e, discard) = RecordsIn(a, e)
    BY <1>2 DEF Lines
  <2>2. QED
    BY <1>2, <2>1, RecordsAreAll
<1>3. QED
  BY <1>1, <1>2

Kept(k, s) == k \in ToSet(s) \/ (Len(s) = MaxEvents /\ k < s[1])

\* New records after the ones that were kept: the cap forgets only old ones.
LEMMA CappedConcatKeeps ==
  ASSUME NEW m \in Nat, NEW n \in Nat, m <= n,
         NEW s, RisesTo(s, m), NEW t, RisesTo(t, n),
         \A i \in 1 .. Len(t) : t[i] > m
  PROVE  /\ RisesTo(Capped(s \o t), n)
         /\ \A k \in Nat : Kept(k, s) \/ k \in ToSet(t) => Kept(k, Capped(s \o t))
<1> DEFINE u == s \o t
           c == Capped(u)
<1>1. /\ RisesTo(u, n)
      /\ ToSet(u) = ToSet(s) \union ToSet(t)
      /\ Len(u) = Len(s) + Len(t)
      /\ Len(s) > 0 => u[1] = s[1]
  BY ConcatRises
<1> HIDE DEF u
<1>2. /\ RisesTo(c, n)
      /\ Len(c) = IF Len(u) > MaxEvents THEN MaxEvents ELSE Len(u)
      /\ Len(u) > 0 => c[1] >= u[1]
      /\ \A k \in ToSet(u) : k \in ToSet(c) \/ (Len(c) = MaxEvents /\ k < c[1])
  BY <1>1, CappedKeeps
<1> HIDE DEF c
<1>3. ASSUME NEW k \in Nat, Len(s) = MaxEvents, k < s[1]
      PROVE  Len(c) = MaxEvents /\ k < c[1]
  <2>1. MaxEvents \in Nat \ {0} /\ Len(t) \in Nat /\ s \in Seq(Nat) /\ c \in Seq(Nat)
    BY <1>2, WindowsAssumption DEF RisesTo
  <2>2. Len(c) = MaxEvents
    BY <1>1, <1>2, <1>3, <2>1
  <2>3. s[1] \in Nat /\ c[1] \in Nat /\ c[1] >= s[1]
    BY <1>1, <1>2, <1>3, <2>1, <2>2
  <2>4. QED
    BY <1>3, <2>2, <2>3
<1>4. QED
  BY <1>1, <1>2, <1>3 DEF Kept, u, c

-----------------------------------------------------------------------------
(* TailReader: the invariant                                               *)

FileState == [inode : Nat, length : 0 .. MaxLength]
EntryState == [inode : Nat, offset : 0 .. MaxLength, carry : Nat, events : Seq(Nat), since : Nat]

CutOf(e) == IF e.since = 0 THEN {} ELSE {LineEnd(e.since) \div 2}

RolloutTypeOK ==
  /\ file \in FileState
  /\ seen \in FileState \union {NoEntry}
  /\ entry \in EntryState \union {NoEntry}

\* What the reader knows of a file is of an earlier one or of a prefix of it.
KnowsPrefix ==
  /\ seen # NoEntry =>
       seen.inode <= file.inode /\ (seen.inode = file.inode => seen.length <= file.length)
  /\ entry # NoEntry =>
       entry.inode <= file.inode /\ (entry.inode = file.inode => entry.offset <= file.length)
  /\ seen # NoEntry /\ entry # NoEntry =>
       entry.inode <= seen.inode /\ (entry.inode = seen.inode => entry.offset <= seen.length)

\* The carry starts where the last whole record ended, but when nothing was
\* read since a reading began inside a line.
EntryIsTrue(e) ==
  /\ RisesTo(e.events, e.offset \div 2)
  /\ e.carry = 2 * (e.offset \div 2) \/ (e.carry = e.offset /\ e.since = e.offset)
  /\ \A k \in 1 .. e.offset \div 2 : k \notin CutOf(e) /\ 2 * k > e.since => Kept(k, e.events)

RolloutInv == RolloutTypeOK /\ KnowsPrefix /\ (entry # NoEntry => EntryIsTrue(entry))

LEMMA StartIsWithin ==
  ASSUME RolloutInv, seen # NoEntry
  PROVE  /\ seen \in FileState
         /\ StartOfRead \in 0 .. MaxLength /\ StartOfRead <= seen.length
         /\ ~IsReset => /\ entry \in EntryState /\ entry # NoEntry /\ EntryIsTrue(entry)
                        /\ entry.inode = seen.inode
                        /\ entry.offset <= StartOfRead
                        /\ ~IsGap => StartOfRead = entry.offset
<1>1. /\ seen \in FileState /\ seen.length \in 0 .. MaxLength
      /\ MaxLength \in Nat /\ TailWindow \in Nat \ {0} /\ ReadWindow \in Nat \ {0}
  BY WindowsAssumption DEF RolloutInv, RolloutTypeOK, FileState
<1>2. CASE IsReset
  <2>1. StartOfRead = Minus(seen.length, TailWindow)
    BY <1>2 DEF StartOfRead, IsGap
  <2>2. QED
    BY <1>1, <1>2, <2>1 DEF Minus
<1>3. CASE ~IsReset
  <2>1. /\ entry \in EntryState /\ entry # NoEntry /\ entry.inode = seen.inode
        /\ EntryIsTrue(entry) /\ entry.offset \in 0 .. MaxLength /\ entry.offset <= seen.length
    BY <1>1, <1>3 DEF IsReset, RolloutInv, RolloutTypeOK, EntryState, KnowsPrefix
  <2>2. CASE IsGap
    <3>1. StartOfRead = Minus(seen.length, ReadWindow)
      BY <1>3, <2>2 DEF StartOfRead
    <3>2. Minus(seen.length, entry.offset) > ReadWindow
      BY <2>2 DEF IsGap
    <3>3. StartOfRead \in 0 .. MaxLength /\ StartOfRead <= seen.length /\ entry.offset <= StartOfRead
      BY <1>1, <2>1, <3>1, <3>2 DEF Minus
    <3>4. QED
      BY <1>1, <2>1, <2>2, <3>3
  <2>3. CASE ~IsGap
    <3>1. StartOfRead = entry.offset
      BY <1>3, <2>3 DEF StartOfRead
    <3>2. QED
      BY <1>1, <2>1, <3>1
  <2>4. QED
    BY <2>2, <2>3
<1>4. QED
  BY <1>2, <1>3

\* What the windows before the tail give lies before the tail.
LEMMA PriorIsBefore ==
  ASSUME RolloutInv, seen # NoEntry
  PROVE  RisesTo(PriorEvents, StartOfRead \div 2)
<1> DEFINE start == StartOfRead
<1>1. start \in 0 .. MaxLength /\ MaxLength \in Nat /\ start \in Nat
  BY StartIsWithin, WindowsAssumption
<1>2. file.length \in 0 .. MaxLength /\ PrefixWindow \in Nat \ {0} /\ BackWindow \in Nat \ {0}
  BY WindowsAssumption DEF RolloutInv, RolloutTypeOK, FileState
<1>3. CASE ~IsReset
  <2>1. PriorEvents = entry.events
    BY <1>3 DEF PriorEvents
  <2>2. RisesTo(entry.events, entry.offset \div 2) /\ entry.offset \in Nat /\ entry.offset <= start
    BY <1>3, StartIsWithin DEF EntryIsTrue, EntryState
  <2>3. entry.offset \div 2 \in Nat /\ start \div 2 \in Nat /\ entry.offset \div 2 <= start \div 2
    BY <1>1, <2>2, HalvesGrow
  <2> HIDE DEF start
  <2>4. RisesTo(entry.events, start \div 2)
    BY <2>2, <2>3, RisesWithin
  <2>5. QED
    BY <2>1, <2>4 DEF start
<1>4. CASE IsReset /\ start > 0
  <2> DEFINE p == PrefixEvents(start)
             b == BackscanEvents(start)
             from == Minus(start, BackWindow)
             e1 == Min({start, PrefixWindow, file.length})
             e2 == Min({start, file.length})
             half == start \div 2
  <2>1. PriorEvents = Merged(p, b)
    BY <1>4 DEF PriorEvents
  <2> HIDE DEF start
  <2>2. e1 \in 0 .. MaxLength /\ e1 <= start /\ e1 \in Nat
    <3>1. {start, PrefixWindow, file.length} \subseteq Nat /\ {start, PrefixWindow, file.length} # {}
      BY <1>1, <1>2
    <3>2. e1 \in {start, PrefixWindow, file.length} /\ e1 <= start
      BY <3>1, MinIsLeast
    <3>3. QED
      BY <1>1, <1>2, <3>1, <3>2
  <2>3. e2 \in 0 .. MaxLength /\ e2 <= start /\ e2 \in Nat
    <3>1. {start, file.length} \subseteq Nat /\ {start, file.length} # {}
      BY <1>1, <1>2
    <3>2. e2 \in {start, file.length} /\ e2 <= start
      BY <3>1, MinIsLeast
    <3>3. QED
      BY <1>1, <1>2, <3>1, <3>2
  <2>4. half \in Nat /\ e1 \div 2 \in Nat /\ e2 \div 2 \in Nat /\ e1 \div 2 <= half /\ e2 \div 2 <= half
    BY <1>1, <2>2, <2>3, HalvesGrow
  <2>5. p = Capped(Lines(0, e1, FALSE)) /\ b = Lines(from, e2, from > 0)
    BY DEF PrefixEvents, BackscanEvents
  <2>6. from \in Nat /\ (from > 0) \in BOOLEAN
    BY <1>1, <1>2 DEF Minus
  <2> HIDE DEF e1, e2, half, p, b, from
  <2>7. RisesTo(p, e1 \div 2)
    <3>1. RisesTo(Lines(0, e1, FALSE), e1 \div 2)
      BY <2>2, LinesAreRecords
    <3>2. QED
      BY <2>4, <2>5, <3>1, CappedKeeps
  <2>8. RisesTo(b, e2 \div 2)
    BY <2>3, <2>5, <2>6, LinesAreRecords
  <2>9. ToSet(p) \union ToSet(b) \subseteq 1 .. half
    <3>1. ToSet(p) \subseteq 1 .. half
      BY <2>4, <2>7, RisesWithin
    <3>2. ToSet(b) \subseteq 1 .. half
      BY <2>4, <2>8, RisesWithin
    <3>3. QED
      BY <3>1, <3>2
  <2>10. RisesTo(Ascending(ToSet(p) \union ToSet(b)), half)
    BY <2>4, <2>9, AscendingRises
  <2>11. RisesTo(Merged(p, b), half)
    BY <2>4, <2>10, CappedKeeps DEF Merged
  <2>12. QED
    BY <2>1, <2>11 DEF half, start
<1>5. CASE IsReset /\ ~(start > 0)
  <2>1. PriorEvents = <<>>
    BY <1>5 DEF PriorEvents
  <2>2. QED
    BY <2>1 DEF RisesTo, Rising
<1>6. QED
  BY <1>3, <1>4, <1>5

\* What a refresh leaves in the cache.
LEMMA ReadStep ==
  ASSUME RolloutInv, ReadRollout, entry' # entry
  PROVE  /\ entry' \in EntryState
         /\ EntryIsTrue(entry')
         /\ entry'.inode = seen.inode
         /\ seen.inode = file.inode => entry'.offset <= file.length
         /\ ~IsReset => \A k \in ToSet(entry.events) : IsKeptIn(k, entry')
<1> DEFINE start == StartOfRead
           limit == IF IsReset THEN TailWindow ELSE ReadWindow
           upto == Min({file.length, start + limit})
           end == Max({start, upto})
           jumps == IsReset \/ IsGap
           discard == jumps /\ start > 0
           lines == Lines(CarryStart, end, discard)
           prior == PriorEvents
           s0 == IF jumps THEN start ELSE entry.since
           new == [inode  |-> seen.inode,
                   offset |-> end,
                   carry  |-> Max({CarryStart, 2 * (end \div 2)}),
                   events |-> Capped(prior \o lines),
                   since  |-> s0]
           half == end \div 2
<1>1. seen # NoEntry /\ entry' = new
  BY DEF ReadRollout
<1>2. /\ seen \in FileState /\ seen.inode \in Nat /\ seen.length \in 0 .. MaxLength
      /\ file.length \in 0 .. MaxLength /\ MaxLength \in Nat /\ limit \in Nat
      /\ start \in 0 .. MaxLength /\ start <= seen.length /\ start \in Nat
  BY <1>1, StartIsWithin, WindowsAssumption DEF RolloutInv, RolloutTypeOK, FileState
<1>3. ASSUME ~IsReset
      PROVE  /\ entry.offset \in 0 .. MaxLength /\ entry.carry \in Nat /\ entry.since \in Nat
             /\ EntryIsTrue(entry) /\ entry.offset <= start
             /\ ~IsGap => start = entry.offset
             /\ prior = entry.events
  <2>1. entry \in EntryState /\ EntryIsTrue(entry) /\ entry.offset <= start /\ (~IsGap => start = entry.offset)
    BY <1>1, <1>3, StartIsWithin
  <2>2. PriorEvents = entry.events
    BY <1>3 DEF PriorEvents
  <2>3. entry.offset \in 0 .. MaxLength /\ entry.carry \in Nat /\ entry.since \in Nat
    BY <2>1 DEF EntryState
  <2>4. QED
    BY <2>1, <2>2, <2>3
<1>4. /\ CarryStart = IF jumps THEN start ELSE entry.carry
      /\ jumps \in BOOLEAN /\ discard \in BOOLEAN
      /\ ~jumps => ~IsReset /\ ~IsGap
  BY DEF CarryStart
<1>5. RisesTo(prior, start \div 2)
  BY <1>1, PriorIsBefore
<1> HIDE DEF start, prior, lines, limit, s0
<1>6. upto \in Nat /\ upto <= file.length /\ upto \in 0 .. MaxLength
  <2>1. {file.length, start + limit} \subseteq Nat /\ {file.length, start + limit} # {}
    BY <1>2
  <2>2. upto \in {file.length, start + limit} /\ upto <= file.length
    BY <2>1, MinIsLeast
  <2>3. QED
    BY <1>2, <2>1, <2>2
<1>7. end = (IF start >= upto THEN start ELSE upto)
  <2> HIDE DEF upto
  <2>1. QED
    BY <1>2, <1>6, MaxOfTwo
<1> HIDE DEF upto, end
<1>8. end \in 0 .. MaxLength /\ end \in Nat /\ start <= end
  BY <1>2, <1>6, <1>7
<1>9. half \in Nat /\ start \div 2 \in Nat /\ start \div 2 <= half /\ 2 * half <= end /\ end <= 2 * half + 1
  BY <1>2, <1>8, Halves, HalvesGrow
<1>10. /\ CarryStart \in Nat
       /\ Max({CarryStart, 2 * half}) = IF CarryStart >= 2 * half THEN CarryStart ELSE 2 * half
  <2>1. CarryStart \in Nat
    BY <1>2, <1>3, <1>4
  <2>2. QED
    BY <1>9, <2>1, MaxOfTwo
<1>11. /\ RisesTo(lines, half)
       /\ ToSet(lines) = {k \in 1 .. half : k > IF discard THEN CarryStart \div 2 + 1 ELSE (CarryStart + 1) \div 2}
  <2> HIDE DEF discard
  <2>1. QED
    BY <1>4, <1>8, <1>10, LinesAreRecords DEF lines
\* Where nothing is jumped over, the carry starts where the records read end.
<1>12. ASSUME ~jumps
       PROVE  /\ start = entry.offset /\ s0 = entry.since
              /\ CarryStart = 2 * (start \div 2) \/ (CarryStart = start /\ s0 = start)
              /\ (CarryStart + 1) \div 2 = start \div 2 \/ (CarryStart = start /\ s0 = start)
  <2>1. start = entry.offset /\ s0 = entry.since /\ CarryStart = entry.carry
    BY <1>3, <1>4, <1>12 DEF s0
  <2>2. CarryStart = 2 * (start \div 2) \/ (CarryStart = start /\ s0 = start)
    BY <1>3, <1>4, <1>12, <2>1 DEF EntryIsTrue
  <2>3. QED
    BY <1>9, <2>1, <2>2
<1>13. ASSUME NEW k \in ToSet(lines) PROVE k \in 1 .. half /\ k > start \div 2
  <2>1. CASE discard
    <3>1. k > start \div 2 + 1
      BY <1>4, <1>11, <2>1
    <3>2. QED
      BY <1>9, <1>11, <3>1
  <2>2. CASE ~discard /\ jumps
    <3>1. start = 0 /\ CarryStart = 0
      BY <1>2, <1>4, <2>2
    <3>2. QED
      BY <1>9, <1>11, <2>2, <3>1
  <2>3. CASE ~jumps
    <3>1. k > (CarryStart + 1) \div 2
      BY <1>11, <2>3
    <3>2. (CarryStart + 1) \div 2 >= start \div 2 /\ (CarryStart + 1) \div 2 \in Nat
      BY <1>2, <1>10, <1>12, <2>3
    <3>3. QED
      BY <1>9, <1>11, <3>1, <3>2
  <2>4. QED
    BY <2>1, <2>2, <2>3
<1>14. ASSUME NEW i \in 1 .. Len(lines) PROVE lines[i] > start \div 2
  <2>1. lines \in Seq(Nat) /\ DOMAIN lines = 1 .. Len(lines)
    BY <1>11 DEF RisesTo
  <2>2. lines[i] \in ToSet(lines)
    BY <2>1 DEF ToSet
  <2>3. QED
    BY <1>13, <2>2
<1> DEFINE kept == Capped(prior \o lines)
<1>15. /\ RisesTo(kept, half)
       /\ \A k \in Nat : Kept(k, prior) \/ k \in ToSet(lines) => Kept(k, kept)
  BY <1>5, <1>9, <1>11, <1>14, CappedConcatKeeps
<1> HIDE DEF kept, half
<1>16. /\ new.inode = seen.inode /\ new.offset = end /\ new.events = kept /\ new.since = s0
       /\ new.carry = IF CarryStart >= 2 * half THEN CarryStart ELSE 2 * half
  BY <1>10 DEF kept, half
<1>17. s0 \in Nat
  BY <1>2, <1>3, <1>4 DEF s0
<1>18. new \in EntryState
  <2>1. kept \in Seq(Nat)
    BY <1>15 DEF RisesTo
  <2>2. new.carry \in Nat
    BY <1>9, <1>10, <1>16
  <2>3. QED
    BY <1>2, <1>8, <1>10, <1>17, <2>1, <2>2 DEF EntryState, kept, half
<1>19. new.carry = 2 * half \/ (new.carry = end /\ s0 = end)
  <2> SUFFICES ASSUME CarryStart > 2 * half PROVE CarryStart = end /\ s0 = end
    BY <1>9, <1>10, <1>16
  <2>1. CASE jumps
    <3>1. CarryStart = start /\ s0 = start
      BY <1>4, <2>1 DEF s0
    <3>2. QED
      BY <1>2, <1>8, <1>9, <3>1
  <2>2. CASE ~jumps
    <3>1. CarryStart = start /\ s0 = start
      <4>1. CarryStart = 2 * (start \div 2) \/ (CarryStart = start /\ s0 = start)
        BY <1>12, <2>2
      <4>2. 2 * (start \div 2) <= 2 * half
        BY <1>9
      <4>3. QED
        BY <1>9, <1>10, <4>1, <4>2
    <3>2. QED
      BY <1>2, <1>8, <1>9, <3>1
  <2>3. QED
    BY <2>1, <2>2
<1>20. ASSUME NEW k \in 1 .. half, k \notin CutOf(new), 2 * k > s0
       PROVE  Kept(k, kept)
  <2>1. s0 # 0 => k # s0 \div 2 + 1
    BY <1>16, <1>17, <1>20, Halves DEF CutOf, LineEnd
  <2>2. CASE jumps
    <3>1. s0 = start /\ CarryStart = start
      BY <1>4, <2>2 DEF s0
    <3>2. k \in ToSet(lines)
      BY <1>2, <1>9, <1>11, <1>20, <2>1, <2>2, <3>1
    <3>3. QED
      BY <1>15, <3>2
  <2>3. CASE ~jumps
    <3>1. CASE k <= start \div 2
      <4>1. k \in 1 .. entry.offset \div 2 /\ k \notin CutOf(entry) /\ 2 * k > entry.since
        BY <1>9, <1>12, <1>16, <1>20, <2>3, <3>1 DEF CutOf
      <4>2. Kept(k, prior)
        BY <1>3, <1>4, <2>3, <4>1 DEF EntryIsTrue
      <4>3. QED
        BY <1>15, <4>2
    <3>2. CASE k > start \div 2
      <4>1. k > (CarryStart + 1) \div 2
        BY <1>2, <1>9, <1>12, <1>20, <2>1, <2>3, <3>2
      <4>2. k \in ToSet(lines)
        BY <1>11, <2>3, <4>1
      <4>3. QED
        BY <1>15, <4>2
    <3>3. QED
      BY <1>9, <3>1, <3>2
  <2>4. QED
    BY <2>2, <2>3
<1>21. EntryIsTrue(new)
  <2> HIDE DEF new
  <2>1. QED
    BY <1>15, <1>16, <1>19, <1>20 DEF EntryIsTrue, half
<1>22. ASSUME seen.inode = file.inode PROVE end <= file.length
  <2>1. seen.length <= file.length
    BY <1>1, <1>22 DEF RolloutInv, KnowsPrefix
  <2>2. QED
    BY <1>2, <1>6, <1>7, <2>1
<1>23. ASSUME ~IsReset, NEW k \in ToSet(entry.events) PROVE IsKeptIn(k, new)
  <2>1. prior = entry.events /\ ToSet(prior) \subseteq 1 .. start \div 2
    BY <1>3, <1>5, <1>9, <1>23, RisesWithin
  <2>2. k \in Nat /\ Kept(k, prior)
    BY <1>23, <2>1 DEF Kept
  <2>3. Kept(k, kept)
    BY <1>15, <2>2
  <2> HIDE DEF new
  <2>4. QED
    BY <1>16, <2>3 DEF Kept, IsKeptIn
<1>24. QED
  <2> HIDE DEF new
  <2>1. QED
    BY <1>1, <1>16, <1>18, <1>21, <1>22, <1>23

LEMMA RolloutStart == RolloutInit => RolloutInv
<1> SUFFICES ASSUME RolloutInit PROVE RolloutInv
  OBVIOUS
<1>1. file \in FileState
  BY WindowsAssumption DEF RolloutInit, FileState
<1>2. QED
  BY <1>1 DEF RolloutInit, RolloutInv, RolloutTypeOK, KnowsPrefix

LEMMA RolloutStep == RolloutInv /\ [RolloutNext]_tailVars => RolloutInv'
<1> SUFFICES ASSUME RolloutInv, [RolloutNext]_tailVars PROVE RolloutInv'
  OBVIOUS
<1> USE DEF RolloutInv, RolloutTypeOK, KnowsPrefix
<1>0. /\ file \in FileState /\ file.inode \in Nat /\ file.length \in 0 .. MaxLength
      /\ seen # NoEntry => seen \in FileState /\ seen.inode \in Nat /\ seen.length \in 0 .. MaxLength
      /\ entry # NoEntry => entry \in EntryState /\ entry.inode \in Nat /\ entry.offset \in 0 .. MaxLength
      /\ MaxLength \in Nat
  BY WindowsAssumption DEF FileState, EntryState
<1>1. CASE WritesHalf
  <2>1. /\ file' = [file EXCEPT !.length = file.length + 1]
        /\ file.length < MaxLength /\ seen' = seen /\ entry' = entry
    BY <1>1 DEF WritesHalf
  <2>2. file' \in FileState /\ file'.inode = file.inode /\ file'.length = file.length + 1
    BY <1>0, <2>1 DEF FileState
  <2>3. KnowsPrefix'
    BY <1>0, <2>1, <2>2
  <2>4. QED
    BY <2>1, <2>2, <2>3
<1>2. CASE Replaced
  <2>1. file' = [inode |-> file.inode + 1, length |-> 0] /\ seen' = seen /\ entry' = entry
    BY <1>2 DEF Replaced
  <2>2. file' \in FileState /\ file'.inode = file.inode + 1
    BY <1>0, <2>1 DEF FileState
  <2>3. KnowsPrefix'
    BY <1>0, <2>1, <2>2
  <2>4. QED
    BY <2>1, <2>2, <2>3
<1>3. CASE StatRollout
  <2>1. seen' = file /\ file' = file /\ entry' = entry
    BY <1>3 DEF StatRollout
  <2>2. KnowsPrefix'
    BY <1>0, <2>1
  <2>3. QED
    BY <2>1, <2>2
<1>4. CASE ReadRollout
  <2>1. seen # NoEntry /\ seen' = NoEntry /\ file' = file
    BY <1>4 DEF ReadRollout
  <2>2. CASE entry' = entry
    BY <2>1, <2>2
  <2>3. CASE entry' # entry
    <3>1. /\ entry' \in EntryState /\ EntryIsTrue(entry') /\ entry'.inode = seen.inode
          /\ seen.inode = file.inode => entry'.offset <= file.length
      <4> HIDE DEF RolloutInv
      <4>1. QED
        BY <1>4, <2>3, ReadStep
    <3>2. KnowsPrefix'
      BY <1>0, <2>1, <3>1
    <3>3. EntryIsTrue(entry)'
      BY <3>1 DEF EntryIsTrue, CutOf, Kept
    <3>4. QED
      BY <2>1, <3>1, <3>2, <3>3
  <2>4. QED
    BY <2>2, <2>3
<1>5. CASE ReadFails
  BY <1>5 DEF ReadFails
<1>6. CASE UNCHANGED tailVars
  BY <1>6 DEF tailVars
<1>7. QED
  BY <1>1, <1>2, <1>3, <1>4, <1>5, <1>6 DEF RolloutNext, RolloutReader

\* The inductive invariant of the tail reader: what it stat'ed and what it
\* cached are of a prefix of the file or of an earlier file, and the cached
\* events are the records of that prefix, in order and each once.
THEOREM RolloutInvariant == RolloutSpec => []RolloutInv
BY RolloutStart, RolloutStep, PTL DEF RolloutSpec

\* The records kept of a rollout are records of the file, each once and in
\* order, and none that ended since the gapless reading began is missing but
\* the one its edge cut (the carry of _terminal_events and its discards).
THEOREM EveryRecordIsReadOnce == RolloutSpec => []RecordsAreReadOnce
<1>1. RolloutInv => RecordsAreReadOnce
  <2> SUFFICES ASSUME RolloutInv, entry # NoEntry PROVE RecordsAreReadOnce
    BY DEF RecordsAreReadOnce
  <2>1. entry \in EntryState /\ EntryIsTrue(entry)
    BY DEF RolloutInv, RolloutTypeOK
  <2>2. entry.events \in Seq(Nat) /\ Len(entry.events) \in Nat
    BY <2>1 DEF EntryState
  <2>3. ASSUME NEW i \in 1 .. Len(entry.events) PROVE entry.events[i] \in 1 .. entry.offset \div 2
    BY <2>1 DEF EntryIsTrue, RisesTo
  <2>4. ASSUME NEW i \in 2 .. Len(entry.events) PROVE entry.events[i - 1] < entry.events[i]
    <3>1. i - 1 \in 1 .. Len(entry.events) /\ i \in 1 .. Len(entry.events) /\ i - 1 < i
      BY <2>2
    <3>2. QED
      BY <2>1, <3>1 DEF EntryIsTrue, RisesTo, Rising
  <2>5. ASSUME NEW k \in (1 .. entry.offset \div 2) \ CutOf(entry), 2 * k > entry.since
        PROVE  IsKeptIn(k, entry)
    BY <2>1, <2>5 DEF EntryIsTrue, Kept, IsKeptIn
  <2>6. QED
    BY <2>3, <2>4, <2>5 DEF RecordsAreReadOnce, CutOf
<1>2. QED
  BY <1>1, RolloutInvariant, PTL

\* A refresh that has to jump over what it may not read forgets no record it
\* knew of the file but for the cap.
THEOREM JumpsForgetNothing == RolloutSpec => FactsSurviveGaps
<1> DEFINE Survive == entry # NoEntry /\ entry'.inode = entry.inode =>
                        \A k \in ToSet(entry.events) : IsKeptIn(k, entry')
<1>1. RolloutInv /\ [RolloutNext]_tailVars => [Survive]_entry
  <2> SUFFICES ASSUME RolloutInv, RolloutNext, entry' # entry,
                      entry # NoEntry, entry'.inode = entry.inode,
                      NEW k \in ToSet(entry.events)
               PROVE  IsKeptIn(k, entry')
    BY DEF tailVars
  <2>1. ReadRollout
    BY DEF RolloutNext, RolloutReader, WritesHalf, Replaced, StatRollout, ReadFails
  <2>2. seen # NoEntry
    BY <2>1 DEF ReadRollout
  <2>3. /\ entry'.inode = seen.inode
        /\ ~IsReset => \A l \in ToSet(entry.events) : IsKeptIn(l, entry')
    BY <2>1, ReadStep
  <2>4. seen.length \in Nat /\ entry.offset \in Nat /\ entry.offset <= seen.length /\ entry.inode = seen.inode
    <3>1. entry \in EntryState /\ seen \in FileState
      BY <2>2 DEF RolloutInv, RolloutTypeOK
    <3>2. QED
      BY <2>2, <2>3, <3>1 DEF RolloutInv, KnowsPrefix, EntryState, FileState
  <2>5. ~IsReset
    BY <2>4 DEF IsReset
  <2>6. QED
    BY <2>3, <2>5
<1>2. QED
  BY <1>1, RolloutInvariant, PTL DEF RolloutSpec, FactsSurviveGaps

-----------------------------------------------------------------------------
(* QoderSession: the fold of the records                                   *)

TurnIds == Nat \union Subagents
CallIds == Nat \union {NoId}
Events == {"turn.started", "turn.finished", "permission.requested", "permission.resolved",
           "tool.requested", "tool.execution.finished", "model.request.started"}
QoderRecord == [type : Events, turn : TurnIds, call : CallIds, failed : BOOLEAN]
ParseState ==
  [turn : TurnIds, submitted : BOOLEAN, active : BOOLEAN, terminal : BOOLEAN, failed : BOOLEAN,
   permissions : Seq(CallIds), ask : BOOLEAN, askId : CallIds, subagents : SUBSET Subagents]

\* The first of several equal elements goes.
LEMMA FirstIsRemoved ==
  ASSUME NEW s \in Seq(CallIds), NEW e \in ToSet(s)
  PROVE  /\ RemoveFirst(s, e) \in Seq(CallIds) /\ Len(RemoveFirst(s, e)) = Len(s) - 1
         /\ ToSet(RemoveFirst(s, e)) \subseteq ToSet(s)
<1> DEFINE at == {i \in 1 .. Len(s) : s[i] = e}
           k  == Min(at)
<1>1. Len(s) \in Nat /\ DOMAIN s = 1 .. Len(s)
  OBVIOUS
<1>2. at # {} /\ at \subseteq Nat
  BY <1>1 DEF ToSet
<1>3. k \in at
  <2> HIDE DEF at
  <2>1. \E i \in at : \A j \in at : i <= j
    BY <1>2, LeastNatural
  <2>2. QED
    BY <2>1 DEF Min
<1>4. RemoveFirst(s, e) = SubSeq(s, 1, k - 1) \o SubSeq(s, k + 1, Len(s))
  BY <1>2 DEF RemoveFirst, RemoveAt, SelectInSeq
<1>5. k \in 1 .. Len(s)
  BY <1>3
<1> HIDE DEF k
<1>6. SubSeq(s, 1, k - 1) \in Seq(ToSet(s)) /\ Len(SubSeq(s, 1, k - 1)) = k - 1
  <2>1. \A i \in 1 .. k - 1 : s[i] \in ToSet(s)
    BY <1>1, <1>5 DEF ToSet
  <2>2. k - 1 \in Nat /\ (1 <= k - 1 \/ k - 1 = 0) /\ k - 1 - 1 + 1 = k - 1
    BY <1>1, <1>5
  <2>3. QED
    BY <2>1, <2>2, SubSeqProperties
<1>7. SubSeq(s, k + 1, Len(s)) \in Seq(ToSet(s)) /\ Len(SubSeq(s, k + 1, Len(s))) = Len(s) - k
  <2>1. \A i \in k + 1 .. Len(s) : s[i] \in ToSet(s)
    BY <1>1, <1>5 DEF ToSet
  <2>2. k + 1 \in Nat /\ (k + 1 <= Len(s) \/ Len(s) - k = 0) /\ Len(s) - (k + 1) + 1 = Len(s) - k
    <3>1. \A n \in Nat : \A j \in 1 .. n :
            j + 1 \in Nat /\ (j + 1 <= n \/ n - j = 0) /\ n - (j + 1) + 1 = n - j
      OBVIOUS
    <3>2. QED
      BY <1>1, <1>5, <3>1
  <2>3. QED
    BY <1>1, <2>1, <2>2, SubSeqProperties
<1>8. k - 1 + (Len(s) - k) = Len(s) - 1
  BY <1>1, <1>5
<1> DEFINE a == SubSeq(s, 1, k - 1)
           b == SubSeq(s, k + 1, Len(s))
<1>9. a \o b \in Seq(ToSet(s)) /\ Len(a \o b) = Len(a) + Len(b)
  <2> HIDE DEF a, b
  <2>1. a \in Seq(ToSet(s)) /\ b \in Seq(ToSet(s))
    BY <1>6, <1>7 DEF a, b
  <2>2. QED
    BY <2>1, ConcatProperties
<1> DEFINE u == a \o b
<1>10. Len(u) = Len(s) - 1
  BY <1>6, <1>7, <1>8, <1>9
<1>11. u \in Seq(CallIds) /\ ToSet(u) \subseteq ToSet(s)
  <2>1. ToSet(s) \subseteq CallIds
    BY <1>1 DEF ToSet
  <2> HIDE DEF u, a, b
  <2>2. u \in Seq(ToSet(s))
    BY <1>9 DEF u
  <2>3. \A i \in DOMAIN u : u[i] \in ToSet(s)
    BY <2>2
  <2>4. QED
    BY <2>1, <2>2, <2>3 DEF ToSet
<1>12. QED
  BY <1>4, <1>10, <1>11

LEMMA ApplyIsState ==
  ASSUME NEW s \in ParseState, NEW r \in QoderRecord
  PROVE  ApplyRecord(s, r) \in ParseState
<1>1. s.permissions \in Seq(CallIds) /\ r.call \in CallIds /\ r.turn \in TurnIds /\ r.type \in Events
  BY DEF ParseState, QoderRecord
<1>2. NoId \in CallIds /\ <<>> \in Seq(CallIds)
  BY DEF CallIds
<1>3. CASE Ignored(s, r)
  BY <1>3 DEF ApplyRecord
<1>4. CASE ~Ignored(s, r) /\ r.type = "turn.started"
  <2>1. ApplyRecord(s, r) = IF r.turn \in Subagents THEN SubagentStarted(s, r) ELSE TurnStarted(s, r)
    BY <1>4 DEF ApplyRecord
  <2>2. r.turn \in Subagents => SubagentStarted(s, r) \in ParseState
    BY DEF SubagentStarted, ParseState
  <2>3. TurnStarted(s, r) \in ParseState
    BY <1>1, <1>2 DEF TurnStarted, Cleared, AskCleared, ParseState
  <2>4. QED
    BY <2>1, <2>2, <2>3
<1>5. CASE ~Ignored(s, r) /\ r.type = "turn.finished"
  <2>1. ApplyRecord(s, r) = TurnFinished(s, r)
    BY <1>5 DEF ApplyRecord
  <2>2. r.failed \in BOOLEAN
    BY DEF QoderRecord
  <2>3. QED
    BY <1>1, <1>2, <2>1, <2>2 DEF TurnFinished, Cleared, AskCleared, ParseState
<1>6. CASE ~Ignored(s, r) /\ r.type = "permission.requested"
  <2> DEFINE kept == IF Len(s.permissions) >= MaxPending THEN Tail(s.permissions) ELSE s.permissions
             next == IF r.call # NoId /\ r.call \in ToSet(kept) THEN kept ELSE Append(kept, r.call)
  <2>1. ApplyRecord(s, r) = [s EXCEPT !.permissions = next]
    BY <1>6 DEF ApplyRecord, Requested
  <2>2. kept \in Seq(CallIds)
    <3>1. Len(s.permissions) >= MaxPending => s.permissions # <<>>
      BY <1>1, QoderAssumption, EmptySeq
    <3>2. QED
      BY <1>1, <3>1, HeadTailProperties
  <2> HIDE DEF kept
  <2>3. next \in Seq(CallIds)
    BY <1>1, <2>2, AppendProperties
  <2> HIDE DEF next
  <2>4. QED
    BY <2>1, <2>3 DEF ParseState
<1>7. CASE ~Ignored(s, r) /\ r.type = "permission.resolved"
  <2> DEFINE p == s.permissions
             next == CASE r.call # NoId /\ r.call \in ToSet(p) -> RemoveFirst(p, r.call)
                       [] p = <<>> -> p
                       [] OTHER    -> Tail(p)
  <2>1. ApplyRecord(s, r) = [s EXCEPT !.permissions = next]
    BY <1>7 DEF ApplyRecord, Resolved
  <2>2. next \in Seq(CallIds)
    <3>1. r.call \in ToSet(p) => RemoveFirst(p, r.call) \in Seq(CallIds) /\ p # <<>>
      <4>1. r.call \in ToSet(p) => p # <<>>
        BY DEF ToSet
      <4>2. QED
        BY <1>1, <4>1, FirstIsRemoved
    <3>2. p # <<>> => Tail(p) \in Seq(CallIds)
      BY <1>1, HeadTailProperties
    <3>3. QED
      BY <1>1, <3>1, <3>2
  <2> HIDE DEF next
  <2>3. QED
    BY <2>1, <2>2 DEF ParseState
<1>8. CASE ~Ignored(s, r) /\ r.type = "tool.requested"
  BY <1>1, <1>8 DEF ApplyRecord, ParseState
<1>9. CASE ~Ignored(s, r) /\ r.type = "tool.execution.finished"
  BY <1>1, <1>2, <1>9 DEF ApplyRecord, CallFinished, AskCleared, ParseState
<1>10. CASE ~Ignored(s, r) /\ r.type = "model.request.started"
  BY <1>1, <1>2, <1>10 DEF ApplyRecord, AskCleared, ParseState
<1>11. QED
  BY <1>1, <1>3, <1>4, <1>5, <1>6, <1>7, <1>8, <1>9, <1>10 DEF Events

\* The states of a fold, one after the other.
Chain(f, s, q) ==
  /\ f \in [0 .. Len(q) -> ParseState]
  /\ f[0] = s
  /\ \A i \in 1 .. Len(q) : f[i] = ApplyRecord(f[i - 1], q[i])

Folded(s, q) == FoldLeft(ApplyRecord, s, q)

LEMMA GreatestOfFirst ==
  ASSUME NEW n \in Nat, NEW T \in SUBSET (1 .. n), T # {}
  PROVE  /\ Max(T) \in T /\ T \ {Max(T)} \in SUBSET (1 .. n)
         /\ \A k \in 1 .. n : T = 1 .. k => Max(T) = k /\ T \ {Max(T)} = 1 .. k - 1
<1>1. T \subseteq Nat /\ \A m \in T : m <= n
  OBVIOUS
<1>2. \E m \in T : \A l \in T : l <= m
  BY <1>1, GreatestNatural
<1>3. \E m \in T : \A l \in T : m >= l
  BY <1>1, <1>2
<1>4. Max(T) \in T /\ \A l \in T : Max(T) >= l
  BY <1>3 DEF Max
<1>5. ASSUME NEW k \in 1 .. n, T = 1 .. k PROVE Max(T) = k /\ T \ {Max(T)} = 1 .. k - 1
  <2>1. k \in T /\ Max(T) \in 1 .. k
    BY <1>4, <1>5
  <2>2. Max(T) = k
    BY <1>4, <2>1
  <2>3. (1 .. k) \ {k} = 1 .. k - 1
    OBVIOUS
  <2>4. QED
    BY <1>5, <2>2, <2>3
<1>6. QED
  BY <1>1, <1>4, <1>5

LEMMA FoldIsChain ==
  ASSUME NEW s \in ParseState, NEW q \in Seq(QoderRecord)
  PROVE  \E f : Chain(f, s, q) /\ Folded(s, q) = f[Len(q)]
<1> DEFINE n    == Len(q)
           S    == DOMAIN q
           pick == [T \in SUBSET S |-> IF T = {} THEN {} ELSE Max(T)]
           step == [x \in S \X ParseState |-> ApplyRecord(x[2], q[x[1]])]
           IsFold(f) == f = [T \in SUBSET S |->
                               IF T = {} THEN s ELSE ApplyRecord(f[T \ {Max(T)}], q[Max(T)])]
<1>1. n \in Nat /\ S = 1 .. n /\ IsFiniteSet(S) /\ \A i \in S : q[i] \in QoderRecord
  <2>1. n \in Nat /\ S = 1 .. n
    OBVIOUS
  <2>2. IsFiniteSet(1 .. n)
    BY FS_Interval
  <2>3. QED
    BY <2>1, <2>2
<1>2. ASSUME NEW T \in SUBSET S, T # {}
      PROVE  Max(T) \in T /\ Max(T) \in S /\ T \ {Max(T)} \in SUBSET S
  <2> HIDE DEF S
  <2>1. QED
    BY <1>1, <1>2, GreatestOfFirst
<1>3. pick \in Picks(S) /\ step \in FoldSteps(S, ParseState)
  <2>1. ASSUME NEW T \in SUBSET S PROVE pick[T] \in S \union {{}} /\ (T # {} => pick[T] \in T)
    BY <1>2
  <2>2. pick \in [SUBSET S -> S \union {{}}]
    BY <2>1
  <2>3. ASSUME NEW x \in S \X ParseState PROVE ApplyRecord(x[2], q[x[1]]) \in ParseState
    <3>1. x[1] \in S /\ x[2] \in ParseState
      OBVIOUS
    <3>2. QED
      BY <1>1, <3>1, ApplyIsState
  <2>4. step \in FoldSteps(S, ParseState)
    BY <2>3 DEF FoldSteps
  <2>5. pick \in Picks(S)
    <3> HIDE DEF pick
    <3>1. \A T \in (SUBSET S) \ {{}} : pick[T] \in T
      BY <2>1
    <3>2. QED
      BY <2>2, <3>1 DEF Picks
  <2>6. QED
    BY <2>4, <2>5
<1>4. PICK fold : Folds(fold, S, ParseState, s, pick, step)
  <2> HIDE DEF pick, step
  <2>1. QED
    BY <1>1, <1>3, FoldExists
<1>5. IsFold(fold)
  <2>1. ASSUME NEW T \in SUBSET S, T # {}
        PROVE  fold[T] = ApplyRecord(fold[T \ {Max(T)}], q[Max(T)])
    <3>1. Max(T) \in S /\ T \ {Max(T)} \in SUBSET S /\ pick[T] = Max(T)
      BY <1>2, <2>1
    <3>2. fold[T \ {Max(T)}] \in ParseState
      BY <1>4, <3>1 DEF Folds
    <3>3. fold[T] = step[<<pick[T], fold[T \ {pick[T]}]>>]
      <4> HIDE DEF pick, step
      <4>1. QED
        BY <1>4, <2>1 DEF Folds
    <3>4. QED
      BY <3>1, <3>2, <3>3
  <2>2. fold[{}] = s
    <3> HIDE DEF pick, step
    <3>1. QED
      BY <1>4 DEF Folds
  <2>3. fold = [T \in SUBSET S |-> fold[T]]
    <3> HIDE DEF pick, step
    <3>1. QED
      BY <1>4 DEF Folds
  <2>4. QED
    BY <2>1, <2>2, <2>3
<1> DEFINE f == CHOOSE g : IsFold(g)
<1>6. IsFold(f)
  BY <1>5
<1>7. Folded(s, q) = f[S]
  BY DEF Folded, FoldLeft, MapThenFoldSet
<1> HIDE DEF f
<1> DEFINE chain == [i \in 0 .. n |-> f[1 .. i]]
<1>8. f[{}] = s
  BY <1>6
<1>9. ASSUME NEW i \in 1 .. n PROVE f[1 .. i] = ApplyRecord(f[1 .. i - 1], q[i])
  <2>1. 1 .. i \in SUBSET S /\ 1 .. i # {} /\ 1 .. i \in SUBSET (1 .. n)
    <3>1. \A N \in Nat : \A j \in 1 .. N : 1 .. j \in SUBSET (1 .. N) /\ 1 .. j # {}
      OBVIOUS
    <3>2. 1 .. i \in SUBSET (1 .. n) /\ 1 .. i # {}
      BY <1>1, <3>1
    <3> HIDE DEF S
    <3>3. QED
      BY <1>1, <3>2
  <2>2. Max(1 .. i) = i /\ (1 .. i) \ {Max(1 .. i)} = 1 .. i - 1
    <3> DEFINE T == 1 .. i
    <3>1. T \in SUBSET (1 .. n) /\ T # {} /\ T = 1 .. i
      BY <2>1
    <3> HIDE DEF T
    <3>2. n \in Nat /\ i \in 1 .. n
      BY <1>1
    <3> HIDE DEF n
    <3>3. Max(T) = i /\ T \ {Max(T)} = 1 .. i - 1
      BY <3>1, <3>2, GreatestOfFirst
    <3>4. QED
      BY <3>3 DEF T
  <2>3. f[1 .. i] = ApplyRecord(f[(1 .. i) \ {Max(1 .. i)}], q[Max(1 .. i)])
    BY <1>6, <2>1
  <2>4. QED
    BY <2>2, <2>3
<1> DEFINE G == {i \in 0 .. n : f[1 .. i] \in ParseState}
<1>10. \A i \in 0 .. n : i \in G
  <2>1. 1 .. 0 = {} /\ 0 \in 0 .. n
    BY <1>1
  <2>2. 0 \in G
    BY <1>8, <2>1
  <2>3. ASSUME NEW i \in 1 .. n, i - 1 \in G PROVE i \in G
    BY <1>1, <1>9, <2>3, ApplyIsState
  <2> HIDE DEF G
  <2>4. QED
    BY <1>1, <2>2, <2>3, UpwardInduction
<1>11. Chain(chain, s, q)
  <2>1. chain \in [0 .. n -> ParseState]
    BY <1>10
  <2>2. chain[0] = s
    <3>1. 0 \in 0 .. n /\ 1 .. 0 = {}
      BY <1>1
    <3>2. QED
      BY <1>8, <3>1
  <2>3. ASSUME NEW i \in 1 .. n PROVE chain[i] = ApplyRecord(chain[i - 1], q[i])
    <3>1. i \in 0 .. n /\ i - 1 \in 0 .. n
      BY <1>1
    <3>2. QED
      BY <1>9, <3>1
  <2>4. QED
    BY <2>1, <2>2, <2>3 DEF Chain
<1>12. chain[n] = f[S]
  BY <1>1
<1>13. QED
  BY <1>7, <1>11, <1>12

LEMMA ChainsAgree ==
  ASSUME NEW s, NEW q, NEW p, NEW f, NEW g, NEW n \in Nat, Chain(f, s, q), Chain(g, s, p),
         Len(q) \in Nat, Len(p) \in Nat, n <= Len(q), n <= Len(p),
         \A i \in 1 .. n : q[i] = p[i]
  PROVE  f[n] = g[n]
<1> DEFINE G == {i \in 0 .. n : f[i] = g[i]}
<1>1. 0 \in G
  BY DEF Chain
<1>2. ASSUME NEW i \in 1 .. n, i - 1 \in G PROVE i \in G
  <2>1. i \in 1 .. Len(q) /\ i \in 1 .. Len(p)
    OBVIOUS
  <2>2. f[i] = ApplyRecord(f[i - 1], q[i]) /\ g[i] = ApplyRecord(g[i - 1], p[i])
    BY <2>1 DEF Chain
  <2>3. QED
    BY <1>2, <2>2
<1>3. \A i \in 0 .. n : i \in G
  <2> HIDE DEF G
  <2>1. QED
    BY <1>1, <1>2, UpwardInduction
<1>4. QED
  BY <1>3

LEMMA FoldedIsState ==
  ASSUME NEW s \in ParseState, NEW q \in Seq(QoderRecord)
  PROVE  Folded(s, q) \in ParseState
<1>1. PICK f : Chain(f, s, q) /\ Folded(s, q) = f[Len(q)]
  BY FoldIsChain
<1>2. Len(q) \in 0 .. Len(q)
  OBVIOUS
<1>3. QED
  BY <1>1, <1>2 DEF Chain

LEMMA FoldOfNothing ==
  ASSUME NEW s \in ParseState
  PROVE  Folded(s, <<>>) = s
<1>1. <<>> \in Seq(QoderRecord) /\ Len(<<>>) = 0
  OBVIOUS
<1>2. PICK f : Chain(f, s, <<>>) /\ Folded(s, <<>>) = f[Len(<<>>)]
  BY <1>1, FoldIsChain
<1>3. QED
  BY <1>1, <1>2 DEF Chain

LEMMA FoldOfOneMore ==
  ASSUME NEW s \in ParseState, NEW q \in Seq(QoderRecord), NEW r \in QoderRecord
  PROVE  Folded(s, Append(q, r)) = ApplyRecord(Folded(s, q), r)
<1> DEFINE p == Append(q, r)
           n == Len(q)
<1>1. /\ p \in Seq(QoderRecord) /\ Len(p) = n + 1 /\ p[n + 1] = r /\ n \in Nat
      /\ \A i \in 1 .. n : q[i] = p[i]
  BY AppendProperties
<1> HIDE DEF p
<1>2. PICK f : Chain(f, s, q) /\ Folded(s, q) = f[n]
  BY FoldIsChain
<1>3. PICK g : Chain(g, s, p) /\ Folded(s, p) = g[Len(p)]
  BY <1>1, FoldIsChain
<1>4. f[n] = g[n]
  BY <1>1, <1>2, <1>3, ChainsAgree
<1>5. n + 1 \in 1 .. Len(p) /\ n + 1 - 1 = n
  BY <1>1
<1>6. g[n + 1] = ApplyRecord(g[n], r)
  BY <1>1, <1>3, <1>5 DEF Chain
<1>7. QED
  BY <1>1, <1>2, <1>3, <1>4, <1>6 DEF p

\* Records read now and records read later.
LEMMA FoldInTwo ==
  ASSUME NEW s \in ParseState, NEW q \in Seq(QoderRecord), NEW k \in 0 .. Len(q)
  PROVE  /\ SubSeq(q, 1, k) \in Seq(QoderRecord) /\ SubSeq(q, k + 1, Len(q)) \in Seq(QoderRecord)
         /\ Folded(Folded(s, SubSeq(q, 1, k)), SubSeq(q, k + 1, Len(q))) = Folded(s, q)
<1> DEFINE n == Len(q)
           a == SubSeq(q, 1, k)
           b == SubSeq(q, k + 1, n)
           m == Folded(s, a)
<1>1. n \in Nat /\ k \in Nat /\ k <= n /\ \A i \in 1 .. n : q[i] \in QoderRecord
  OBVIOUS
<1>2. a \in Seq(QoderRecord) /\ Len(a) = k /\ \A i \in 1 .. k : a[i] = q[i]
  <2>1. \A i \in 1 .. k : i \in 1 .. n /\ 1 + i - 1 = i
    BY <1>1
  <2>2. (1 <= k \/ k = 0) /\ k - 1 + 1 = k
    BY <1>1
  <2>3. QED
    BY <1>1, <2>1, <2>2, SubSeqProperties
<1>3. b \in Seq(QoderRecord) /\ Len(b) = n - k /\ \A i \in 1 .. n - k : b[i] = q[k + i]
  <2>1. \A i \in k + 1 .. n : i \in 1 .. n
    BY <1>1
  <2>2. k + 1 \in Nat /\ (k + 1 <= n \/ n - k = 0) /\ n - (k + 1) + 1 = n - k
    BY <1>1
  <2>3. \A i \in 1 .. n - k : k + 1 + i - 1 = k + i
    BY <1>1
  <2>4. /\ b \in Seq(QoderRecord)
        /\ Len(b) = IF k + 1 <= n THEN n - (k + 1) + 1 ELSE 0
        /\ \A i \in 1 .. n - (k + 1) + 1 : b[i] = q[k + 1 + i - 1]
    <3>1. k + 1 \in Int /\ n \in Int /\ \A i \in k + 1 .. n : q[i] \in QoderRecord
      BY <1>1, <2>1
    <3>2. b = SubSeq(q, k + 1, n)
      OBVIOUS
    <3> HIDE DEF b
    <3>3. QED
      BY <3>1, <3>2, SubSeqProperties
  <2> HIDE DEF b
  <2>5. Len(b) = n - k
    BY <1>1, <2>2, <2>4
  <2>6. QED
    BY <2>2, <2>3, <2>4, <2>5
<1> HIDE DEF a, b
<1>4. PICK f : Chain(f, s, a) /\ m = f[k]
  BY <1>2, FoldIsChain
<1>5. m \in ParseState
  BY <1>2, FoldedIsState
<1> HIDE DEF m
<1>6. PICK g : Chain(g, m, b) /\ Folded(m, b) = g[n - k]
  BY <1>3, <1>5, FoldIsChain
<1>7. PICK h : Chain(h, s, q) /\ Folded(s, q) = h[n]
  BY FoldIsChain
<1>8. h[k] = m
  <2>1. Len(a) \in Nat /\ k <= Len(a) /\ Len(q) \in Nat /\ k <= Len(q)
    BY <1>1, <1>2
  <2>2. Chain(f, s, a) /\ Chain(h, s, q) /\ k \in Nat /\ \A i \in 1 .. k : a[i] = q[i]
    BY <1>1, <1>2, <1>4, <1>7
  <2> HIDE DEF n
  <2>3. f[k] = h[k]
    BY <2>1, <2>2, ChainsAgree
  <2>4. QED
    BY <1>4, <2>3
<1> DEFINE G == {i \in 0 .. n - k : g[i] = h[k + i]}
<1>9. 0 \in G
  <2>1. k + 0 = k /\ 0 \in 0 .. n - k
    BY <1>1
  <2>2. QED
    BY <1>6, <1>8, <2>1 DEF Chain
<1>10. ASSUME NEW i \in 1 .. n - k, i - 1 \in G PROVE i \in G
  <2>1. k + i \in 1 .. n /\ k + i - 1 = k + (i - 1) /\ i \in 0 .. n - k
    BY <1>1
  <2>2. g[i] = ApplyRecord(g[i - 1], b[i])
    BY <1>3, <1>6 DEF Chain
  <2>3. h[k + i] = ApplyRecord(h[k + i - 1], q[k + i])
    BY <1>7, <2>1 DEF Chain
  <2>4. QED
    BY <1>3, <1>10, <2>1, <2>2, <2>3
<1>11. \A i \in 0 .. n - k : i \in G
  <2>1. n - k \in Nat
    BY <1>1
  <2> HIDE DEF G
  <2>2. QED
    BY <1>9, <1>10, <2>1, UpwardInduction
<1>12. n - k \in 0 .. n - k /\ k + (n - k) = n
  BY <1>1
<1>13. QED
  BY <1>2, <1>3, <1>6, <1>7, <1>11, <1>12 DEF a, b, m

-----------------------------------------------------------------------------
(* QoderSession: what the fold of all records says of the process          *)

QoderState ==
  [turn : Nat, outcome : {"hidden", "running", "success", "failure"}, pending : SUBSET Nat,
   asked : SUBSET Nat, calls : Nat, spawned : SUBSET Subagents, crowded : BOOLEAN, written : Nat]

Consistent(q) ==
  /\ q.outcome # "running" => q.pending = {} /\ q.asked = {}
  /\ q.pending \subseteq 1 .. q.calls /\ q.asked \subseteq 1 .. q.calls
  /\ IsFiniteSet(q.pending) /\ IsFiniteSet(q.spawned)

Few(q) == Cardinality(q.spawned) <= MaxPending

TurnsAgree(v, q) ==
  /\ v.active <=> q.outcome = "running"
  /\ v.active => v.turn = q.turn
  /\ Few(q) /\ q.outcome = "hidden" => ~(v.submitted /\ v.terminal)
  /\ Few(q) /\ q.outcome \in {"success", "failure"} =>
       v.submitted /\ v.terminal /\ (v.failed <=> q.outcome = "failure")

SubagentsAgree(v, q) == v.subagents \subseteq q.spawned /\ (Few(q) => v.subagents = q.spawned)

\* As many requests as calls wait for the user, though not always the same.
RequestsAgree(v, q) ==
  /\ ToSet(v.permissions) \subseteq (1 .. q.calls) \union {NoId}
  /\ Len(v.permissions) <= Cardinality(q.pending)
  /\ ~q.crowded => Len(v.permissions) = Cardinality(q.pending)

QuestionsAgree(v, q) ==
  /\ v.ask <=> q.asked # {}
  /\ v.ask => q.asked = {v.askId}

Agrees(v, q) ==
  TurnsAgree(v, q) /\ SubagentsAgree(v, q) /\ RequestsAgree(v, q) /\ QuestionsAgree(v, q)

LEMMA MainIsNoSubagent ==
  ASSUME NEW v \in ParseState, NEW n \in Nat
  PROVE  n \notin v.subagents /\ n \notin Subagents /\ n # NoId
BY QoderAssumption DEF ParseState

LEMMA NothingPending == ToSet(<<>>) = {} /\ Len(<<>>) = 0 /\ Cardinality({}) = 0
BY FS_EmptySet DEF ToSet

\* A new turn.
LEMMA TurnStartsAgrees ==
  ASSUME NEW v \in ParseState, NEW q \in QoderState, Consistent(q), Agrees(v, q),
         q.outcome # "running", NEW r \in QoderRecord, r.type = "turn.started",
         r.turn = q.turn + 1, NEW p \in QoderState, p.turn = q.turn + 1, p.outcome = "running",
         p.pending = q.pending, p.asked = q.asked, p.calls = q.calls, p.spawned = q.spawned
  PROVE  Consistent(p) /\ Agrees(ApplyRecord(v, r), p)
<1> DEFINE w == ApplyRecord(v, r)
<1>1. r.turn \notin v.subagents /\ r.turn \notin Subagents
  BY MainIsNoSubagent DEF QoderState
<1>2. w = TurnStarted(v, r)
  BY <1>1 DEF ApplyRecord, Ignored
<1>3. /\ w.turn = r.turn /\ w.active = TRUE /\ w.permissions = <<>> /\ w.ask = FALSE
      /\ w.subagents = v.subagents
  BY <1>2 DEF TurnStarted, Cleared, AskCleared, ParseState
<1>4. q.pending = {} /\ q.asked = {}
  BY DEF Consistent
<1> HIDE DEF w
<1>5. Consistent(p)
  BY DEF Consistent
<1>6. TurnsAgree(w, p) /\ SubagentsAgree(w, p) /\ RequestsAgree(w, p) /\ QuestionsAgree(w, p)
  BY <1>3, <1>4, NothingPending
     DEF Agrees, TurnsAgree, SubagentsAgree, RequestsAgree, QuestionsAgree, Few
<1>7. QED
  BY <1>5, <1>6 DEF Agrees, w

\* The end of the turn.
LEMMA TurnEndsAgrees ==
  ASSUME NEW v \in ParseState, NEW q \in QoderState, Consistent(q), Agrees(v, q),
         q.outcome = "running", NEW r \in QoderRecord, r.type = "turn.finished", r.turn = q.turn,
         NEW p \in QoderState, p.outcome = IF r.failed THEN "failure" ELSE "success",
         p.pending = {}, p.asked = {}, p.calls = q.calls, p.spawned = q.spawned
  PROVE  Consistent(p) /\ Agrees(ApplyRecord(v, r), p)
<1> DEFINE w == ApplyRecord(v, r)
<1>1. r.turn \notin v.subagents /\ v.active /\ v.turn = r.turn
  BY MainIsNoSubagent DEF QoderState, Agrees, TurnsAgree
<1>2. w = TurnFinished(v, r)
  BY <1>1 DEF ApplyRecord, Ignored
<1>3. /\ w.active = FALSE /\ w.permissions = <<>> /\ w.ask = FALSE /\ w.subagents = v.subagents
      /\ w.submitted = TRUE /\ w.terminal = TRUE /\ w.failed = r.failed
  BY <1>2 DEF TurnFinished, Cleared, AskCleared, ParseState
<1> HIDE DEF w
<1>4. Consistent(p)
  BY FS_EmptySet DEF Consistent
<1>5. TurnsAgree(w, p)
  BY <1>3 DEF TurnsAgree
<1>6. SubagentsAgree(w, p) /\ RequestsAgree(w, p) /\ QuestionsAgree(w, p)
  BY <1>3, NothingPending DEF Agrees, SubagentsAgree, RequestsAgree, QuestionsAgree, Few
<1>7. QED
  BY <1>4, <1>5, <1>6 DEF Agrees, w

\* A record of the current turn that only says something of its waits.
LEMMA WaitAgrees ==
  ASSUME NEW v \in ParseState, NEW q \in QoderState, Agrees(v, q), NEW w, NEW p,
         w.turn = v.turn, w.submitted = v.submitted, w.active = v.active, w.terminal = v.terminal,
         w.failed = v.failed, w.subagents = v.subagents,
         p.turn = q.turn, p.outcome = q.outcome, p.spawned = q.spawned,
         RequestsAgree(w, p), QuestionsAgree(w, p)
  PROVE  Agrees(w, p)
BY DEF Agrees, TurnsAgree, SubagentsAgree, Few

LEMMA RequestAgrees ==
  ASSUME NEW v \in ParseState, NEW q \in QoderState, Consistent(q), Agrees(v, q),
         q.outcome = "running", NEW r \in QoderRecord, r.type = "permission.requested",
         r.turn = q.turn, r.call \in {q.calls + 1, NoId}, NEW p \in QoderState,
         p.turn = q.turn, p.outcome = q.outcome, p.spawned = q.spawned, p.asked = q.asked,
         p.calls = q.calls + 1, p.pending = q.pending \union {q.calls + 1},
         p.crowded <=> q.crowded \/ Cardinality(q.pending) >= MaxPending
  PROVE  Consistent(p) /\ Agrees(ApplyRecord(v, r), p)
<1> DEFINE s    == v.permissions
           kept == IF Len(s) >= MaxPending THEN Tail(s) ELSE s
           w    == ApplyRecord(v, r)
           id   == q.calls + 1
<1>1. /\ s \in Seq(CallIds) /\ Len(s) \in Nat /\ q.calls \in Nat /\ MaxPending \in Nat /\ MaxPending # 0
      /\ ToSet(s) \subseteq (1 .. q.calls) \union {NoId} /\ NoId \notin Nat
  BY QoderAssumption DEF ParseState, QoderState, Agrees, RequestsAgree
<1>2. r.turn \notin v.subagents /\ v.active /\ v.turn = r.turn
  BY MainIsNoSubagent DEF QoderState, Agrees, TurnsAgree
<1>3. w = [v EXCEPT !.permissions =
             IF r.call # NoId /\ r.call \in ToSet(kept) THEN kept ELSE Append(kept, r.call)]
  BY <1>2 DEF ApplyRecord, Ignored, Requested
<1> HIDE DEF kept
<1>4. kept \in Seq(CallIds) /\ Len(kept) = (IF Len(s) >= MaxPending THEN Len(s) - 1 ELSE Len(s))
  <2>1. Len(s) >= MaxPending => s # <<>>
    BY <1>1, EmptySeq
  <2>2. s # <<>> => Tail(s) \in Seq(CallIds) /\ Len(Tail(s)) = Len(s) - 1
    BY <1>1, HeadTailProperties
  <2>3. QED
    BY <1>1, <2>1, <2>2 DEF kept
<1>5. ToSet(kept) \subseteq (1 .. q.calls) \union {NoId}
  <2>1. ASSUME Len(s) >= MaxPending, NEW i \in DOMAIN Tail(s) PROVE Tail(s)[i] \in ToSet(s)
    <3>1. s # <<>>
      BY <1>1, <2>1, EmptySeq
    <3>2. Tail(s) \in Seq(CallIds) /\ Len(Tail(s)) = Len(s) - 1
      BY <1>1, <3>1, HeadTailProperties
    <3>3. i \in 1 .. Len(s) - 1
      BY <2>1, <3>2
    <3>4. Tail(s)[i] = s[i + 1]
      BY <1>1, <3>1, <3>3, HeadTailProperties
    <3>5. i + 1 \in DOMAIN s
      BY <1>1, <3>3
    <3>6. QED
      BY <3>4, <3>5 DEF ToSet
  <2>2. ToSet(kept) \subseteq ToSet(s)
    BY <2>1 DEF kept, ToSet
  <2>3. QED
    BY <1>1, <2>2
<1>6. r.call \in CallIds /\ ~(r.call # NoId /\ r.call \in ToSet(kept))
  BY <1>1, <1>5 DEF QoderRecord
<1>7. w = [v EXCEPT !.permissions = Append(kept, r.call)]
  BY <1>3, <1>6
<1>8. /\ w.permissions = Append(kept, r.call) /\ w.turn = v.turn /\ w.submitted = v.submitted
      /\ w.active = v.active /\ w.terminal = v.terminal /\ w.failed = v.failed
      /\ w.subagents = v.subagents /\ w.ask = v.ask /\ w.askId = v.askId
  BY <1>7 DEF ParseState
<1> HIDE DEF w
<1> DEFINE a == Append(kept, r.call)
<1>9. /\ Len(a) = Len(kept) + 1
      /\ ToSet(a) \subseteq (1 .. id) \union {NoId}
  <2>1. /\ a \in Seq(CallIds) /\ Len(a) = Len(kept) + 1 /\ DOMAIN kept = 1 .. Len(kept)
        /\ Len(kept) \in Nat
        /\ \A i \in 1 .. Len(kept) : a[i] = kept[i]
        /\ a[Len(kept) + 1] = r.call
    BY <1>4, <1>6, AppendProperties
  <2> HIDE DEF a
  <2>2. ASSUME NEW i \in DOMAIN a PROVE a[i] \in ToSet(kept) \union {r.call}
    <3>1. CASE i \in 1 .. Len(kept)
      <4>1. a[i] = kept[i] /\ i \in DOMAIN kept
        BY <2>1, <3>1
      <4>2. QED
        BY <4>1 DEF ToSet
    <3>2. CASE i = Len(kept) + 1
      <4>1. a[i] = r.call
        BY <2>1, <3>2
      <4>2. QED
        BY <4>1
    <3>3. i \in 1 .. Len(kept) \/ i = Len(kept) + 1
      BY <2>1
    <3>4. QED
      BY <3>1, <3>2, <3>3
  <2>3. ToSet(a) \subseteq ToSet(kept) \union {r.call}
    BY <2>2 DEF ToSet
  <2>4. (1 .. q.calls) \subseteq 1 .. id /\ id \in 1 .. id
    BY <1>1
  <2>5. QED
    BY <1>5, <2>1, <2>3, <2>4
<1>10. /\ IsFiniteSet(p.pending) /\ Cardinality(p.pending) = Cardinality(q.pending) + 1
       /\ Cardinality(q.pending) \in Nat
  <2>1. id \notin q.pending
    BY <1>1 DEF Consistent
  <2>2. IsFiniteSet(q.pending) /\ p.pending = q.pending \union {id}
    BY DEF Consistent
  <2>3. /\ IsFiniteSet(q.pending \union {id})
        /\ Cardinality(q.pending \union {id}) = Cardinality(q.pending) + 1
    BY <2>1, <2>2, FS_AddElement
  <2>4. Cardinality(q.pending) \in Nat
    BY <2>2, FS_CardinalityType
  <2>5. QED
    BY <2>2, <2>3, <2>4
<1>11. Consistent(p)
  <2>1. (1 .. q.calls) \subseteq 1 .. id /\ id \in 1 .. id
    BY <1>1
  <2>2. QED
    BY <1>10, <2>1 DEF Consistent
<1>12. RequestsAgree(w, p)
  <2>1. Len(s) <= Cardinality(q.pending) /\ (~q.crowded => Len(s) = Cardinality(q.pending))
    BY DEF Agrees, RequestsAgree
  <2>2. Len(a) <= Cardinality(p.pending)
    BY <1>1, <1>4, <1>9, <1>10, <2>1
  <2>3. ~p.crowded => Len(a) = Cardinality(p.pending)
    BY <1>1, <1>4, <1>9, <1>10, <2>1
  <2> HIDE DEF a
  <2>4. QED
    BY <1>8, <1>9, <2>2, <2>3 DEF RequestsAgree, a
<1>13. QuestionsAgree(w, p)
  BY <1>8 DEF Agrees, QuestionsAgree
<1>14. QED
  BY <1>8, <1>11, <1>12, <1>13, WaitAgrees DEF w

LEMMA ReplyAgrees ==
  ASSUME NEW v \in ParseState, NEW q \in QoderState, Consistent(q), Agrees(v, q),
         NEW c \in q.pending, NEW r \in QoderRecord, r.type = "permission.resolved",
         r.turn = q.turn, NEW p \in QoderState,
         p.turn = q.turn, p.outcome = q.outcome, p.spawned = q.spawned, p.asked = q.asked,
         p.calls = q.calls, p.crowded = q.crowded, p.pending = q.pending \ {c}
  PROVE  Consistent(p) /\ Agrees(ApplyRecord(v, r), p)
<1> DEFINE s    == v.permissions
           next == CASE r.call # NoId /\ r.call \in ToSet(s) -> RemoveFirst(s, r.call)
                     [] s = <<>> -> s
                     [] OTHER    -> Tail(s)
           w    == ApplyRecord(v, r)
<1>1. s \in Seq(CallIds) /\ Len(s) \in Nat /\ ToSet(s) \subseteq (1 .. q.calls) \union {NoId}
  BY DEF ParseState, Agrees, RequestsAgree
<1>2. r.turn \notin v.subagents /\ v.active /\ v.turn = r.turn
  BY MainIsNoSubagent DEF QoderState, Agrees, TurnsAgree, Consistent
<1>3. w = [v EXCEPT !.permissions = next]
  BY <1>2 DEF ApplyRecord, Ignored, Resolved
<1> HIDE DEF next
<1>4. /\ w.permissions = next /\ w.turn = v.turn /\ w.submitted = v.submitted
      /\ w.active = v.active /\ w.terminal = v.terminal /\ w.failed = v.failed
      /\ w.subagents = v.subagents /\ w.ask = v.ask /\ w.askId = v.askId
  BY <1>3 DEF ParseState
<1> HIDE DEF w
<1>5. /\ Len(next) = IF s = <<>> THEN 0 ELSE Len(s) - 1
      /\ ToSet(next) \subseteq ToSet(s)
  <2>1. CASE r.call # NoId /\ r.call \in ToSet(s)
    <3>1. s # <<>>
      BY <2>1 DEF ToSet
    <3>2. next = RemoveFirst(s, r.call)
      BY <2>1, <3>1 DEF next
    <3>3. QED
      BY <1>1, <2>1, <3>1, <3>2, FirstIsRemoved
  <2>2. CASE ~(r.call # NoId /\ r.call \in ToSet(s)) /\ s = <<>>
    BY <2>2 DEF next
  <2>3. CASE ~(r.call # NoId /\ r.call \in ToSet(s)) /\ s # <<>>
    <3>1. next = Tail(s)
      BY <2>3 DEF next
    <3>2. Tail(s) \in Seq(CallIds) /\ Len(Tail(s)) = Len(s) - 1
      BY <1>1, <2>3, HeadTailProperties
    <3>3. ASSUME NEW i \in DOMAIN Tail(s) PROVE Tail(s)[i] \in ToSet(s)
      <4>1. i \in 1 .. Len(s) - 1
        BY <3>2
      <4>2. Tail(s)[i] = s[i + 1]
        BY <1>1, <2>3, <4>1, HeadTailProperties
      <4>3. i + 1 \in DOMAIN s
        BY <1>1, <4>1
      <4>4. QED
        BY <4>2, <4>3 DEF ToSet
    <3>4. ToSet(Tail(s)) \subseteq ToSet(s)
      BY <3>3 DEF ToSet
    <3>5. QED
      BY <2>3, <3>1, <3>2, <3>4
  <2>4. QED
    BY <2>1, <2>2, <2>3
<1>6. /\ IsFiniteSet(p.pending) /\ Cardinality(p.pending) = Cardinality(q.pending) - 1
      /\ Cardinality(q.pending) \in Nat /\ Cardinality(q.pending) # 0
  <2>1. IsFiniteSet(q.pending) /\ q.pending # {}
    BY DEF Consistent
  <2>2. QED
    BY <2>1, FS_RemoveElement, FS_CardinalityType, FS_EmptySet
<1>7. Consistent(p)
  BY <1>6 DEF Consistent
<1>8. RequestsAgree(w, p)
  <2>1. /\ Len(s) <= Cardinality(q.pending) /\ (~q.crowded => Len(s) = Cardinality(q.pending))
        /\ (s = <<>> <=> Len(s) = 0)
    BY <1>1, EmptySeq DEF Agrees, RequestsAgree
  <2>2. Len(next) <= Cardinality(p.pending) /\ (~q.crowded => Len(next) = Cardinality(p.pending))
    BY <1>1, <1>5, <1>6, <2>1
  <2>3. QED
    BY <1>1, <1>4, <1>5, <2>2 DEF RequestsAgree
<1>9. QuestionsAgree(w, p)
  BY <1>4 DEF Agrees, QuestionsAgree
<1>10. QED
  BY <1>4, <1>7, <1>8, <1>9, WaitAgrees DEF w

\* A question, and what ends one.
LEMMA QuestionAgrees ==
  ASSUME NEW v \in ParseState, NEW q \in QoderState, Consistent(q), Agrees(v, q),
         q.outcome = "running", NEW r \in QoderRecord, r.turn = q.turn, NEW p \in QoderState,
         p.turn = q.turn, p.outcome = q.outcome, p.spawned = q.spawned, p.pending = q.pending,
         p.crowded = q.crowded,
         \/ /\ r.type = "tool.requested" /\ r.call = q.calls + 1
            /\ p.calls = q.calls + 1 /\ p.asked = {q.calls + 1}
         \/ /\ r.type = "tool.execution.finished" /\ r.call \in q.asked \union {0}
            /\ p.calls = q.calls /\ p.asked = q.asked \ {r.call}
         \/ r.type = "model.request.started" /\ p.calls = q.calls /\ p.asked = {}
  PROVE  Consistent(p) /\ Agrees(ApplyRecord(v, r), p)
<1> DEFINE w == ApplyRecord(v, r)
<1>1. q.calls \in Nat /\ (1 .. q.calls) \subseteq 1 .. q.calls + 1 /\ q.calls + 1 \in 1 .. q.calls + 1
  BY DEF QoderState
<1>2. r.turn \notin v.subagents /\ v.active /\ v.turn = r.turn
  BY MainIsNoSubagent DEF QoderState, Agrees, TurnsAgree
<1>3. Consistent(p)
  BY <1>1 DEF Consistent
<1>4. ASSUME w.permissions = v.permissions PROVE RequestsAgree(w, p)
  BY <1>1, <1>4 DEF Agrees, RequestsAgree
<1>5. CASE r.type = "tool.requested"
  <2>1. w = [v EXCEPT !.ask = TRUE, !.askId = r.call]
    BY <1>2, <1>5 DEF ApplyRecord, Ignored
  <2>2. /\ w.turn = v.turn /\ w.submitted = v.submitted /\ w.active = v.active
        /\ w.terminal = v.terminal /\ w.failed = v.failed /\ w.subagents = v.subagents
        /\ w.permissions = v.permissions /\ w.ask = TRUE /\ w.askId = r.call
    BY <2>1 DEF ParseState
  <2>3. QuestionsAgree(w, p)
    BY <1>5, <2>2 DEF QuestionsAgree
  <2>4. RequestsAgree(w, p)
    BY <1>4, <2>2
  <2> HIDE DEF w
  <2>5. QED
    BY <1>3, <2>2, <2>3, <2>4, WaitAgrees DEF w
<1>6. CASE r.type = "tool.execution.finished"
  <2>1. w = CallFinished(v, r)
    BY <1>2, <1>6 DEF ApplyRecord, Ignored
  <2>2. /\ r.call \in Nat /\ NoId \notin Nat /\ r.call \in q.asked \union {0} /\ 0 \notin q.asked
        /\ p.asked = q.asked \ {r.call}
    BY <1>6, QoderAssumption DEF QoderState, Consistent
  <2>3. (v.ask <=> q.asked # {}) /\ (v.ask => q.asked = {v.askId})
    BY DEF Agrees, QuestionsAgree
  <2>4. CASE v.ask /\ r.call = v.askId
    <3>1. w = AskCleared(v)
      BY <2>1, <2>4 DEF CallFinished
    <3>2. /\ w.turn = v.turn /\ w.submitted = v.submitted /\ w.active = v.active
          /\ w.terminal = v.terminal /\ w.failed = v.failed /\ w.subagents = v.subagents
          /\ w.permissions = v.permissions /\ w.ask = FALSE
      BY <3>1 DEF AskCleared, ParseState
    <3>3. p.asked = {}
      BY <2>2, <2>3, <2>4
    <3>4. QuestionsAgree(w, p) /\ RequestsAgree(w, p)
      BY <1>4, <3>2, <3>3 DEF QuestionsAgree
    <3> HIDE DEF w
    <3>5. QED
      BY <1>3, <3>2, <3>4, WaitAgrees DEF w
  <2>5. CASE ~(v.ask /\ r.call = v.askId)
    <3>1. r.call = 0 /\ p.asked = q.asked
      BY <2>2, <2>3, <2>5
    <3>2. v.ask => v.askId \in Nat
      BY <2>3 DEF QoderState
    <3>3. w = v
      BY <2>1, <2>2, <2>5, <3>2 DEF CallFinished
    <3>4. QuestionsAgree(w, p) /\ RequestsAgree(w, p)
      BY <1>4, <2>3, <3>1, <3>3 DEF QuestionsAgree
    <3>5. Agrees(v, p)
      BY <3>3, <3>4, WaitAgrees
    <3>6. QED
      BY <1>3, <3>3, <3>5
  <2>6. QED
    BY <2>4, <2>5
<1>7. CASE r.type = "model.request.started"
  <2>1. w = AskCleared(v)
    BY <1>2, <1>7 DEF ApplyRecord, Ignored
  <2>2. /\ w.turn = v.turn /\ w.submitted = v.submitted /\ w.active = v.active
        /\ w.terminal = v.terminal /\ w.failed = v.failed /\ w.subagents = v.subagents
        /\ w.permissions = v.permissions /\ w.ask = FALSE
    BY <2>1 DEF AskCleared, ParseState
  <2>3. QuestionsAgree(w, p) /\ RequestsAgree(w, p)
    BY <1>4, <1>7, <2>2 DEF QuestionsAgree
  <2> HIDE DEF w
  <2>4. QED
    BY <1>3, <2>2, <2>3, WaitAgrees DEF w
<1>8. QED
  BY <1>5, <1>6, <1>7

\* The records of subagents.
LEMMA SubagentStartAgrees ==
  ASSUME NEW v \in ParseState, NEW q \in QoderState, Consistent(q), Agrees(v, q),
         NEW a \in Subagents, a \notin q.spawned, NEW r \in QoderRecord, r.turn = a,
         r.type = "turn.started", NEW p \in QoderState, p.spawned = q.spawned \union {a},
         p.turn = q.turn, p.outcome = q.outcome, p.pending = q.pending, p.asked = q.asked,
         p.calls = q.calls, p.crowded = q.crowded
  PROVE  Consistent(p) /\ Agrees(ApplyRecord(v, r), p)
<1> DEFINE w == ApplyRecord(v, r)
<1>1. /\ IsFiniteSet(q.spawned) /\ Cardinality(q.spawned) \in Nat
      /\ IsFiniteSet(p.spawned) /\ Cardinality(p.spawned) = Cardinality(q.spawned) + 1
  <2>1. IsFiniteSet(q.spawned) /\ p.spawned = q.spawned \union {a} /\ a \notin q.spawned
    BY DEF Consistent
  <2>2. Cardinality(q.spawned) \in Nat
    BY <2>1, FS_CardinalityType
  <2>3. IsFiniteSet(p.spawned) /\ Cardinality(p.spawned) = Cardinality(q.spawned) + 1
    <3>1. /\ IsFiniteSet(q.spawned \union {a})
          /\ Cardinality(q.spawned \union {a}) = IF a \in q.spawned THEN Cardinality(q.spawned)
                                                 ELSE Cardinality(q.spawned) + 1
      <4>1. IsFiniteSet(q.spawned)
        BY <2>1
      <4>2. QED
        BY <4>1, FS_AddElement
    <3>2. QED
      BY <2>1, <3>1
  <2>4. QED
    BY <2>1, <2>2, <2>3
<1>2. v.subagents \subseteq q.spawned /\ (Few(q) => v.subagents = q.spawned)
  BY DEF Agrees, SubagentsAgree
<1>3. Few(p) => Few(q) /\ Cardinality(q.spawned) < MaxPending
  BY <1>1, QoderAssumption DEF Few
<1>4. w = SubagentStarted(v, r)
  BY <1>2 DEF ApplyRecord, Ignored
<1>5. /\ w.turn = v.turn /\ w.submitted = v.submitted /\ w.active = v.active
      /\ w.terminal = v.terminal /\ w.failed = v.failed /\ w.permissions = v.permissions
      /\ w.ask = v.ask /\ w.askId = v.askId
      /\ w.subagents = IF Cardinality(v.subagents) < MaxPending
                       THEN v.subagents \union {a} ELSE v.subagents
  BY <1>4 DEF SubagentStarted, ParseState
<1> HIDE DEF w
<1>6. Consistent(p)
  BY <1>1 DEF Consistent
<1>7. SubagentsAgree(w, p)
  BY <1>2, <1>3, <1>5 DEF SubagentsAgree
<1>8. TurnsAgree(w, p)
  BY <1>3, <1>5 DEF Agrees, TurnsAgree
<1>9. RequestsAgree(w, p) /\ QuestionsAgree(w, p)
  BY <1>5 DEF Agrees, RequestsAgree, QuestionsAgree
<1>10. QED
  BY <1>6, <1>7, <1>8, <1>9 DEF Agrees, w

LEMMA SubagentRecordAgrees ==
  ASSUME NEW v \in ParseState, NEW q \in QoderState, Consistent(q), Agrees(v, q),
         NEW a \in q.spawned, NEW r \in QoderRecord, r.turn = a,
         r.type \in {"permission.requested", "turn.finished"}
  PROVE  Agrees(ApplyRecord(v, r), q)
<1> DEFINE w == ApplyRecord(v, r)
<1>1. a \in Subagents /\ a \notin Nat
  BY QoderAssumption DEF QoderState
<1>2. v.active => r.turn # v.turn
  BY <1>1 DEF Agrees, TurnsAgree, QoderState
<1>3. CASE Ignored(v, r)
  BY <1>3 DEF ApplyRecord
<1>4. CASE ~Ignored(v, r)
  <2>1. r.turn \notin v.subagents /\ ~v.active /\ r.type = "turn.finished"
    BY <1>2, <1>4 DEF Ignored
  <2>2. ~Few(q)
    BY <2>1 DEF Agrees, SubagentsAgree
  <2>3. w = TurnFinished(v, r)
    BY <1>4, <2>1 DEF ApplyRecord
  <2>4. /\ w.active = FALSE /\ w.permissions = <<>> /\ w.ask = FALSE /\ w.subagents = v.subagents
    BY <2>3 DEF TurnFinished, Cleared, AskCleared, ParseState
  <2>5. q.outcome # "running" /\ q.pending = {} /\ q.asked = {}
    BY <2>1 DEF Agrees, TurnsAgree, Consistent
  <2> HIDE DEF w
  <2>6. TurnsAgree(w, q) /\ SubagentsAgree(w, q) /\ RequestsAgree(w, q) /\ QuestionsAgree(w, q)
    BY <2>2, <2>4, <2>5, NothingPending
       DEF Agrees, TurnsAgree, SubagentsAgree, RequestsAgree, QuestionsAgree
  <2>7. QED
    BY <2>6 DEF Agrees, w
<1>5. QED
  BY <1>3, <1>4

-----------------------------------------------------------------------------
(* QoderSession: the file and its reader                                   *)

SegmentTypeOK ==
  /\ segment \in [run : Nat \ {0}, records : Seq(QoderRecord), torn : BOOLEAN]
  /\ qoder \in QoderState
  /\ parsed \in [run : Nat, carry : Nat, state : ParseState]

\* What the fold comes to once all records are read.
Caught ==
  Folded(IF parsed.run # segment.run THEN FreshParse ELSE parsed.state, segment.records)

QoderInv ==
  /\ SegmentTypeOK
  /\ segment.torn => segment.records # <<>>
  /\ parsed.run <= segment.run
  /\ Consistent(qoder)
  /\ Agrees(Caught, qoder)

LEMMA FreshIsState == FreshParse \in ParseState
<1>1. <<>> \in Seq(CallIds)
  OBVIOUS
<1>2. QED
  BY <1>1 DEF FreshParse, ParseState, TurnIds, CallIds

\* A process with no turn behind it, and no record read.
LEMMA FreshAgrees ==
  ASSUME NEW q, q.outcome = "hidden", q.pending = {}, q.asked = {}, q.spawned = {}
  PROVE  Consistent(q) /\ Agrees(FreshParse, q)
<1>1. Consistent(q)
  BY FS_EmptySet DEF Consistent
<1>2. /\ FreshParse.active = FALSE /\ FreshParse.submitted = FALSE /\ FreshParse.subagents = {}
      /\ FreshParse.permissions = <<>> /\ FreshParse.ask = FALSE
  BY DEF FreshParse
<1>3. /\ TurnsAgree(FreshParse, q) /\ SubagentsAgree(FreshParse, q)
      /\ RequestsAgree(FreshParse, q) /\ QuestionsAgree(FreshParse, q)
  BY <1>2, NothingPending DEF TurnsAgree, SubagentsAgree, RequestsAgree, QuestionsAgree
<1>4. QED
  BY <1>1, <1>3 DEF Agrees

LEMMA CaughtIsState == SegmentTypeOK => Caught \in ParseState
<1> SUFFICES ASSUME SegmentTypeOK PROVE Caught \in ParseState
  OBVIOUS
<1>1. segment.records \in Seq(QoderRecord) /\ parsed.state \in ParseState
  BY DEF SegmentTypeOK
<1>2. QED
  BY <1>1, FreshIsState, FoldedIsState DEF Caught

LEMMA QoderInitially == QoderInit => QoderInv
<1> SUFFICES ASSUME QoderInit PROVE QoderInv
  OBVIOUS
<1>1. /\ segment = [run |-> 1, records |-> <<>>, torn |-> FALSE]
      /\ qoder = [turn |-> 0, outcome |-> "hidden", pending |-> {}, asked |-> {},
                  calls |-> 0, spawned |-> {}, crowded |-> FALSE, written |-> 0]
      /\ parsed = [run |-> 0, carry |-> 0, state |-> FreshParse]
  BY DEF QoderInit
<1>2. SegmentTypeOK
  BY <1>1, FreshIsState DEF SegmentTypeOK, QoderState
<1>3. Caught = FreshParse
  BY <1>1, FreshIsState, FoldOfNothing DEF Caught
<1>4. Consistent(qoder) /\ Agrees(FreshParse, qoder)
  BY <1>1, FreshAgrees
<1>5. QED
  BY <1>1, <1>2, <1>3, <1>4 DEF QoderInv

RecordOf(type, owner, call, failed) == [type |-> type, turn |-> owner, call |-> call, failed |-> failed]

\* The process appends a record: what is caught up with is one record more.
LEMMA RecordIsWritten ==
  ASSUME QoderInv, NEW type \in Events, NEW owner \in TurnIds, NEW call \in CallIds,
         NEW failed \in BOOLEAN, NEW q \in QoderState, Writes(type, owner, call, failed, q)
  PROVE  /\ Caught' = ApplyRecord(Caught, RecordOf(type, owner, call, failed))
         /\ RecordOf(type, owner, call, failed) \in QoderRecord
         /\ SegmentTypeOK'
         /\ segment'.torn => segment'.records # <<>>
         /\ parsed'.run <= segment'.run
         /\ qoder' = [q EXCEPT !.written = q.written + 1]
<1> DEFINE r == RecordOf(type, owner, call, failed)
           s == IF parsed.run # segment.run THEN FreshParse ELSE parsed.state
<1>1. r \in QoderRecord
  BY DEF RecordOf, QoderRecord
<1>2. /\ segment.records \in Seq(QoderRecord) /\ s \in ParseState /\ parsed.run <= segment.run
  BY FreshIsState DEF QoderInv, SegmentTypeOK
<1>3. /\ qoder' = [q EXCEPT !.written = q.written + 1] /\ parsed' = parsed
      /\ segment' = [segment EXCEPT !.torn = TRUE, !.records = Append(segment.records, r)]
  BY DEF Writes, RecordOf
<1> HIDE DEF r
<1>4. Append(segment.records, r) \in Seq(QoderRecord) /\ Append(segment.records, r) # <<>>
  BY <1>1, <1>2, AppendProperties
<1>5. /\ segment' \in [run : Nat \ {0}, records : Seq(QoderRecord), torn : BOOLEAN]
      /\ segment'.run = segment.run /\ segment'.records = Append(segment.records, r)
  BY <1>3, <1>4 DEF QoderInv, SegmentTypeOK
<1>6. qoder' \in QoderState
  BY <1>3 DEF QoderState
<1>7. SegmentTypeOK'
  BY <1>3, <1>5, <1>6 DEF QoderInv, SegmentTypeOK
<1>8. Caught = Folded(s, segment.records)
  BY DEF Caught
<1>9. Caught' = Folded(s, segment'.records)
  BY <1>3, <1>5 DEF Caught
<1> HIDE DEF s
<1>10. Caught' = ApplyRecord(Caught, r)
  BY <1>1, <1>2, <1>5, <1>8, <1>9, FoldOfOneMore
<1>11. QED
  BY <1>1, <1>2, <1>3, <1>4, <1>5, <1>7, <1>10 DEF r

\* Reading moves records to the other side, and changes nothing of the whole.
LEMMA ReadingKeeps ==
  ASSUME QoderInv, ReadSegment
  PROVE  QoderInv'
<1> DEFINE isFirst == parsed.run # segment.run
           limit   == IF isFirst THEN FirstWindow ELSE NextWindow
           carry   == IF isFirst THEN 0 ELSE parsed.carry
           end     == Min({SegmentSize, carry + limit})
           state   == IF isFirst THEN FreshParse ELSE parsed.state
           q       == segment.records
           n       == Len(q)
           k       == end \div 2
<1>1. /\ q \in Seq(QoderRecord) /\ n \in Nat /\ state \in ParseState /\ carry \in Nat /\ limit \in Nat
      /\ segment.torn \in BOOLEAN /\ segment.run \in Nat \ {0} /\ (segment.torn => n # 0)
  BY FreshIsState, EmptySeq, QoderAssumption DEF QoderInv, SegmentTypeOK
<1>2. /\ parsed' = [run |-> segment.run, carry |-> end % 2, state |-> Folded(state, SubSeq(q, 1, k))]
      /\ segment' = [segment EXCEPT !.records = SubSeq(q, k + 1, n)]
      /\ qoder' = qoder
  BY DEF ReadSegment, LinesRead, Folded
<1>3. SegmentSize = 2 * n - (IF segment.torn THEN 1 ELSE 0)
  BY DEF SegmentSize
<1>4. SegmentSize \in Nat /\ (segment.torn => n > 0 /\ SegmentSize = 2 * n - 1)
      /\ (~segment.torn => SegmentSize = 2 * n)
  <2>1. \A m \in Nat : 2 * m \in Nat /\ 2 * m - 0 = 2 * m /\ (m # 0 => m > 0 /\ 2 * m - 1 \in Nat)
    OBVIOUS
  <2>2. 2 * n \in Nat /\ 2 * n - 0 = 2 * n /\ (n # 0 => n > 0 /\ 2 * n - 1 \in Nat)
    BY <1>1, <2>1
  <2> HIDE DEF n
  <2>3. CASE segment.torn
    BY <1>1, <1>3, <2>2, <2>3
  <2>4. CASE ~segment.torn
    BY <1>3, <2>2, <2>4
  <2>5. QED
    BY <2>3, <2>4
<1>5. end \in Nat /\ end <= SegmentSize
  <2>1. \A a, b \in Nat : Min({a, b}) \in {a, b} /\ Min({a, b}) <= a
    <3> SUFFICES ASSUME NEW a \in Nat, NEW b \in Nat
                 PROVE  Min({a, b}) \in {a, b} /\ Min({a, b}) <= a
      OBVIOUS
    <3>1. \E x \in {a, b} : \A y \in {a, b} : x <= y
      <4>1. a <= b \/ b <= a
        OBVIOUS
      <4>2. QED
        BY <4>1
    <3>2. QED
      BY <3>1 DEF Min
  <2>2. carry + limit \in Nat
    BY <1>1
  <2> HIDE DEF carry, limit
  <2>3. QED
    BY <1>4, <2>1, <2>2
<1> HIDE DEF end
<1>6. k \in 0 .. n /\ (segment.torn => k < n) /\ end % 2 \in Nat
  <2>1. \A e, m \in Nat : e <= 2 * m => e \div 2 \in 0 .. m /\ e % 2 \in Nat
    OBVIOUS
  <2>2. \A e, m \in Nat : m > 0 /\ e <= 2 * m - 1 => e \div 2 < m
    OBVIOUS
  <2>3. QED
    BY <1>1, <1>4, <1>5, <2>1, <2>2
<1> HIDE DEF k, state
<1>7. /\ SubSeq(q, 1, k) \in Seq(QoderRecord) /\ SubSeq(q, k + 1, n) \in Seq(QoderRecord)
      /\ Folded(Folded(state, SubSeq(q, 1, k)), SubSeq(q, k + 1, n)) = Folded(state, q)
  BY <1>1, <1>6, FoldInTwo
<1>8. Folded(state, SubSeq(q, 1, k)) \in ParseState
  BY <1>1, <1>7, FoldedIsState
<1>9. /\ segment' \in [run : Nat \ {0}, records : Seq(QoderRecord), torn : BOOLEAN]
      /\ segment'.run = segment.run /\ segment'.torn = segment.torn
      /\ segment'.records = SubSeq(q, k + 1, n)
  BY <1>1, <1>2, <1>7 DEF QoderInv, SegmentTypeOK
<1>10. parsed' \in [run : Nat, carry : Nat, state : ParseState]
  BY <1>1, <1>2, <1>6, <1>8
<1>11. SegmentTypeOK'
  BY <1>2, <1>9, <1>10 DEF QoderInv, SegmentTypeOK
<1>12. segment'.torn => segment'.records # <<>>
  <2> SUFFICES ASSUME segment.torn PROVE SubSeq(q, k + 1, n) # <<>>
    BY <1>9
  <2>1. k + 1 \in Int /\ n \in Int /\ k + 1 <= n /\ \A i \in k + 1 .. n : q[i] \in QoderRecord
    BY <1>1, <1>6
  <2>2. Len(SubSeq(q, k + 1, n)) = n - (k + 1) + 1
    BY <2>1, SubSeqProperties
  <2>3. n - (k + 1) + 1 # 0
    BY <1>1, <1>6
  <2>4. QED
    BY <2>2, <2>3
<1>13. Caught' = Caught
  <2>1. Caught = Folded(state, q)
    BY DEF Caught, state
  <2>2. parsed'.run = segment'.run /\ parsed'.state = Folded(state, SubSeq(q, 1, k))
    BY <1>2, <1>9
  <2>3. Caught' = Folded(parsed'.state, segment'.records)
    BY <2>2 DEF Caught
  <2>4. QED
    BY <1>7, <1>9, <2>1, <2>2, <2>3
<1>14. parsed'.run <= segment'.run
  BY <1>1, <1>2, <1>9
<1>15. QED
  BY <1>2, <1>11, <1>12, <1>13, <1>14 DEF QoderInv

LEMMA QoderKeeps == QoderInv /\ [QoderNext]_qoderVars => QoderInv'
<1> SUFFICES ASSUME QoderInv, [QoderNext]_qoderVars PROVE QoderInv'
  OBVIOUS
<1> DEFINE v == Caught
<1>1. /\ v \in ParseState /\ qoder \in QoderState /\ Consistent(qoder) /\ Agrees(v, qoder)
      /\ SegmentTypeOK
  BY CaughtIsState DEF QoderInv, SegmentTypeOK
<1> HIDE DEF v
\* It is enough that the record written agrees with the state it leaves.
<1> DEFINE Suits(type, owner, call, failed, q) ==
             \A p \in QoderState, r \in QoderRecord :
               p = [q EXCEPT !.written = q.written + 1] /\ r = RecordOf(type, owner, call, failed)
               => Consistent(p) /\ Agrees(ApplyRecord(v, r), p)
<1>2. ASSUME NEW type \in Events, NEW owner \in TurnIds, NEW call \in CallIds,
             NEW failed \in BOOLEAN, NEW q \in QoderState, Writes(type, owner, call, failed, q),
             Suits(type, owner, call, failed, q)
      PROVE  QoderInv'
  <2> DEFINE r == RecordOf(type, owner, call, failed)
             p == [q EXCEPT !.written = q.written + 1]
  <2>1. /\ Caught' = ApplyRecord(Caught, r) /\ r \in QoderRecord /\ SegmentTypeOK'
        /\ segment'.torn => segment'.records # <<>>
        /\ parsed'.run <= segment'.run
        /\ qoder' = p
    BY <1>2, RecordIsWritten
  <2>2. p \in QoderState
    BY <2>1 DEF SegmentTypeOK
  <2>3. Consistent(p) /\ Agrees(ApplyRecord(v, r), p)
    BY <1>2, <2>1, <2>2 DEF Suits
  <2> HIDE DEF r, p
  <2>4. QED
    BY <2>1, <2>3 DEF QoderInv, v
<1>3. /\ qoder.turn \in Nat /\ qoder.calls \in Nat /\ qoder.written \in Nat
      /\ qoder.turn + 1 \in TurnIds /\ qoder.turn \in TurnIds /\ NoId \in CallIds
      /\ qoder.calls + 1 \in CallIds /\ Subagents \subseteq TurnIds
      /\ qoder.pending \subseteq Nat /\ qoder.asked \subseteq Nat
      /\ 0 \in CallIds /\ Nat \subseteq CallIds
      /\ "turn.started" \in Events /\ "turn.finished" \in Events
      /\ "permission.requested" \in Events /\ "permission.resolved" \in Events
      /\ "tool.requested" \in Events /\ "tool.execution.finished" \in Events
      /\ "model.request.started" \in Events
  BY <1>1 DEF QoderState, TurnIds, CallIds, Events
<1> HIDE DEF Suits
<1>4. CASE TurnStarts
  <2> DEFINE q == [qoder EXCEPT !.turn = qoder.turn + 1, !.outcome = "running", !.crowded = FALSE]
  <2>1. qoder.outcome # "running" /\ Writes("turn.started", qoder.turn + 1, NoId, FALSE, q)
    BY <1>4 DEF TurnStarts, IsWorking
  <2>2. q \in QoderState
    <3> DEFINE opened == qoder.turn + 1
    <3>1. opened \in Nat
      BY <1>3
    <3>2. q = [qoder EXCEPT !.turn = opened, !.outcome = "running", !.crowded = FALSE]
      OBVIOUS
    <3> HIDE DEF opened, q
    <3>3. QED
      BY <1>1, <3>1, <3>2 DEF QoderState
  <2>3. Suits("turn.started", qoder.turn + 1, NoId, FALSE, q)
    <3>1. ASSUME NEW p \in QoderState, NEW r \in QoderRecord,
                 p = [q EXCEPT !.written = q.written + 1], r = RecordOf("turn.started", qoder.turn + 1, NoId, FALSE)
          PROVE  Consistent(p) /\ Agrees(ApplyRecord(v, r), p)
      <4>1. /\ p.turn = qoder.turn + 1 /\ p.outcome = "running" /\ p.pending = qoder.pending
            /\ p.asked = qoder.asked /\ p.calls = qoder.calls /\ p.spawned = qoder.spawned
            /\ r.type = "turn.started" /\ r.turn = qoder.turn + 1
        BY <1>1, <3>1 DEF QoderState, RecordOf
      <4>2. QED
        BY <1>1, <2>1, <4>1, TurnStartsAgrees
    <3>2. QED
      BY <3>1 DEF Suits
  <2> HIDE DEF q
  <2>4. QED
    BY <1>2, <1>3, <2>1, <2>2, <2>3
<1>5. ASSUME NEW failed \in BOOLEAN, TurnEnds(failed) PROVE QoderInv'
  <2> DEFINE q == [qoder EXCEPT !.outcome = IF failed THEN "failure" ELSE "success",
                                !.pending = {}, !.asked = {}]
  <2>1. qoder.outcome = "running" /\ Writes("turn.finished", qoder.turn, NoId, failed, q)
    BY <1>5 DEF TurnEnds, IsWorking
  <2>2. q \in QoderState
    <3> DEFINE outcome == IF failed THEN "failure" ELSE "success"
    <3>1. outcome \in {"success", "failure"}
      OBVIOUS
    <3> HIDE DEF outcome
    <3>2. q = [qoder EXCEPT !.outcome = outcome, !.pending = {}, !.asked = {}]
      BY DEF outcome
    <3>3. QED
      BY <1>1, <3>1, <3>2 DEF QoderState
  <2>3. Suits("turn.finished", qoder.turn, NoId, failed, q)
    <3>1. ASSUME NEW p \in QoderState, NEW r \in QoderRecord,
                 p = [q EXCEPT !.written = q.written + 1], r = RecordOf("turn.finished", qoder.turn, NoId, failed)
          PROVE  Consistent(p) /\ Agrees(ApplyRecord(v, r), p)
      <4>1. /\ p.outcome = (IF failed THEN "failure" ELSE "success") /\ p.pending = {} /\ p.asked = {}
            /\ p.calls = qoder.calls /\ p.spawned = qoder.spawned
            /\ r.type = "turn.finished" /\ r.turn = qoder.turn /\ r.failed = failed
        BY <1>1, <3>1 DEF QoderState, RecordOf
      <4>2. QED
        BY <1>1, <2>1, <4>1, TurnEndsAgrees
    <3>2. QED
      BY <3>1 DEF Suits
  <2> HIDE DEF q
  <2>4. QED
    BY <1>2, <1>3, <2>1, <2>2, <2>3
<1>6. ASSUME NEW named \in BOOLEAN, AsksPermission(named) PROVE QoderInv'
  <2> DEFINE call == IF named THEN qoder.calls + 1 ELSE NoId
             q == [qoder EXCEPT !.calls = qoder.calls + 1,
                                !.pending = qoder.pending \union {qoder.calls + 1},
                                !.crowded = qoder.crowded \/ Cardinality(qoder.pending) >= MaxPending]
  <2>1. qoder.outcome = "running" /\ Writes("permission.requested", qoder.turn, call, FALSE, q)
    BY <1>6 DEF AsksPermission, IsWorking
  <2>2. q \in QoderState /\ call \in CallIds /\ call \in {qoder.calls + 1, NoId}
    <3> DEFINE crowded == qoder.crowded \/ Cardinality(qoder.pending) >= MaxPending
               pending == qoder.pending \union {qoder.calls + 1}
               calls   == qoder.calls + 1
    <3>1. crowded \in BOOLEAN /\ pending \in SUBSET Nat /\ calls \in Nat
      BY <1>3
    <3>2. q = [qoder EXCEPT !.calls = calls, !.pending = pending, !.crowded = crowded]
      OBVIOUS
    <3>3. call \in CallIds /\ call \in {qoder.calls + 1, NoId}
      BY <1>3
    <3> HIDE DEF crowded, pending, calls, q, call
    <3>4. QED
      BY <1>1, <3>1, <3>2, <3>3 DEF QoderState
  <2> HIDE DEF call
  <2>3. Suits("permission.requested", qoder.turn, call, FALSE, q)
    <3>1. ASSUME NEW p \in QoderState, NEW r \in QoderRecord,
                 p = [q EXCEPT !.written = q.written + 1], r = RecordOf("permission.requested", qoder.turn, call, FALSE)
          PROVE  Consistent(p) /\ Agrees(ApplyRecord(v, r), p)
      <4>1. /\ p.turn = qoder.turn /\ p.outcome = qoder.outcome /\ p.spawned = qoder.spawned
            /\ p.asked = qoder.asked /\ p.calls = qoder.calls + 1
            /\ p.pending = qoder.pending \union {qoder.calls + 1}
            /\ p.crowded = (qoder.crowded \/ Cardinality(qoder.pending) >= MaxPending)
            /\ r.type = "permission.requested" /\ r.turn = qoder.turn /\ r.call = call
        BY <1>1, <3>1 DEF QoderState, RecordOf
      <4>2. p.crowded <=> qoder.crowded \/ Cardinality(qoder.pending) >= MaxPending
        BY <4>1
      <4>3. QED
        BY <1>1, <2>1, <2>2, <4>1, <4>2, RequestAgrees
    <3>2. QED
      BY <3>1 DEF Suits
  <2> HIDE DEF q
  <2>4. QED
    BY <1>2, <1>3, <2>1, <2>2, <2>3
<1>7. ASSUME NEW c \in qoder.pending, NEW named \in BOOLEAN, UserPermits(c, named) PROVE QoderInv'
  <2> DEFINE call == IF named THEN c ELSE NoId
             q == [qoder EXCEPT !.pending = qoder.pending \ {c}]
  <2>1. Writes("permission.resolved", qoder.turn, call, FALSE, q)
    BY <1>7 DEF UserPermits
  <2>2. q \in QoderState /\ call \in CallIds
    BY <1>1, <1>3 DEF QoderState, CallIds
  <2> HIDE DEF call
  <2>3. Suits("permission.resolved", qoder.turn, call, FALSE, q)
    <3>1. ASSUME NEW p \in QoderState, NEW r \in QoderRecord,
                 p = [q EXCEPT !.written = q.written + 1], r = RecordOf("permission.resolved", qoder.turn, call, FALSE)
          PROVE  Consistent(p) /\ Agrees(ApplyRecord(v, r), p)
      <4>1. /\ p.turn = qoder.turn /\ p.outcome = qoder.outcome /\ p.spawned = qoder.spawned
            /\ p.asked = qoder.asked /\ p.calls = qoder.calls /\ p.crowded = qoder.crowded
            /\ p.pending = qoder.pending \ {c}
            /\ r.type = "permission.resolved" /\ r.turn = qoder.turn
        BY <1>1, <3>1 DEF QoderState, RecordOf
      <4>2. QED
        BY <1>1, <4>1, ReplyAgrees
    <3>2. QED
      BY <3>1 DEF Suits
  <2> HIDE DEF q
  <2>4. QED
    BY <1>2, <1>3, <2>1, <2>2, <2>3
<1>8. CASE AsksUser
  <2> DEFINE q == [qoder EXCEPT !.calls = qoder.calls + 1, !.asked = {qoder.calls + 1}]
  <2>1. qoder.outcome = "running" /\ Writes("tool.requested", qoder.turn, qoder.calls + 1, FALSE, q)
    BY <1>8 DEF AsksUser, IsWorking
  <2>2. q \in QoderState
    <3> DEFINE calls == qoder.calls + 1
               asked == {qoder.calls + 1}
    <3>1. calls \in Nat /\ asked \in SUBSET Nat
      BY <1>3
    <3>2. q = [qoder EXCEPT !.calls = calls, !.asked = asked]
      OBVIOUS
    <3> HIDE DEF calls, asked, q
    <3>3. QED
      BY <1>1, <3>1, <3>2 DEF QoderState
  <2>3. Suits("tool.requested", qoder.turn, qoder.calls + 1, FALSE, q)
    <3>1. ASSUME NEW p \in QoderState, NEW r \in QoderRecord,
                 p = [q EXCEPT !.written = q.written + 1], r = RecordOf("tool.requested", qoder.turn, qoder.calls + 1, FALSE)
          PROVE  Consistent(p) /\ Agrees(ApplyRecord(v, r), p)
      <4>1. /\ p.turn = qoder.turn /\ p.outcome = qoder.outcome /\ p.spawned = qoder.spawned
            /\ p.pending = qoder.pending /\ p.crowded = qoder.crowded
            /\ p.calls = qoder.calls + 1 /\ p.asked = {qoder.calls + 1}
            /\ r.type = "tool.requested" /\ r.turn = qoder.turn /\ r.call = qoder.calls + 1
        BY <1>1, <3>1 DEF QoderState, RecordOf
      <4>2. QED
        BY <1>1, <2>1, <4>1, QuestionAgrees
    <3>2. QED
      BY <3>1 DEF Suits
  <2> HIDE DEF q
  <2>4. QED
    BY <1>2, <1>3, <2>1, <2>2, <2>3
<1>9. ASSUME NEW c \in qoder.asked \union {0}, ToolFinishes(c) PROVE QoderInv'
  <2> DEFINE q == [qoder EXCEPT !.asked = qoder.asked \ {c}]
  <2>1. qoder.outcome = "running" /\ Writes("tool.execution.finished", qoder.turn, c, FALSE, q)
    BY <1>9 DEF ToolFinishes, IsWorking
  <2>2. q \in QoderState /\ c \in CallIds
    BY <1>1 DEF QoderState, CallIds
  <2>3. Suits("tool.execution.finished", qoder.turn, c, FALSE, q)
    <3>1. ASSUME NEW p \in QoderState, NEW r \in QoderRecord,
                 p = [q EXCEPT !.written = q.written + 1], r = RecordOf("tool.execution.finished", qoder.turn, c, FALSE)
          PROVE  Consistent(p) /\ Agrees(ApplyRecord(v, r), p)
      <4>1. /\ p.turn = qoder.turn /\ p.outcome = qoder.outcome /\ p.spawned = qoder.spawned
            /\ p.pending = qoder.pending /\ p.crowded = qoder.crowded
            /\ p.calls = qoder.calls /\ p.asked = qoder.asked \ {c}
            /\ r.type = "tool.execution.finished" /\ r.turn = qoder.turn /\ r.call = c
        BY <1>1, <3>1 DEF QoderState, RecordOf
      <4>2. QED
        BY <1>1, <2>1, <4>1, QuestionAgrees
    <3>2. QED
      BY <3>1 DEF Suits
  <2> HIDE DEF q
  <2>4. QED
    BY <1>2, <1>3, <2>1, <2>2, <2>3
<1>10. CASE ModelResumes
  <2> DEFINE q == [qoder EXCEPT !.asked = {}]
  <2>1. qoder.outcome = "running" /\ Writes("model.request.started", qoder.turn, NoId, FALSE, q)
    BY <1>10 DEF ModelResumes, IsWorking
  <2>2. q \in QoderState
    BY <1>1 DEF QoderState
  <2>3. Suits("model.request.started", qoder.turn, NoId, FALSE, q)
    <3>1. ASSUME NEW p \in QoderState, NEW r \in QoderRecord,
                 p = [q EXCEPT !.written = q.written + 1], r = RecordOf("model.request.started", qoder.turn, NoId, FALSE)
          PROVE  Consistent(p) /\ Agrees(ApplyRecord(v, r), p)
      <4>1. /\ p.turn = qoder.turn /\ p.outcome = qoder.outcome /\ p.spawned = qoder.spawned
            /\ p.pending = qoder.pending /\ p.crowded = qoder.crowded
            /\ p.calls = qoder.calls /\ p.asked = {}
            /\ r.type = "model.request.started" /\ r.turn = qoder.turn
        BY <1>1, <3>1 DEF QoderState, RecordOf
      <4>2. QED
        BY <1>1, <2>1, <4>1, QuestionAgrees
    <3>2. QED
      BY <3>1 DEF Suits
  <2> HIDE DEF q
  <2>4. QED
    BY <1>2, <1>3, <2>1, <2>2, <2>3
<1>11. ASSUME NEW a \in Subagents, SubagentStarts(a) PROVE QoderInv'
  <2> DEFINE q == [qoder EXCEPT !.spawned = qoder.spawned \union {a}]
  <2>1. a \notin qoder.spawned /\ Writes("turn.started", a, NoId, FALSE, q)
    BY <1>11 DEF SubagentStarts
  <2>2. q \in QoderState /\ a \in TurnIds
    BY <1>1, <1>3 DEF QoderState
  <2>3. Suits("turn.started", a, NoId, FALSE, q)
    <3>1. ASSUME NEW p \in QoderState, NEW r \in QoderRecord,
                 p = [q EXCEPT !.written = q.written + 1], r = RecordOf("turn.started", a, NoId, FALSE)
          PROVE  Consistent(p) /\ Agrees(ApplyRecord(v, r), p)
      <4>1. /\ p.turn = qoder.turn /\ p.outcome = qoder.outcome /\ p.spawned = qoder.spawned \union {a}
            /\ p.pending = qoder.pending /\ p.crowded = qoder.crowded
            /\ p.calls = qoder.calls /\ p.asked = qoder.asked
            /\ r.type = "turn.started" /\ r.turn = a
        BY <1>1, <3>1 DEF QoderState, RecordOf
      <4>2. QED
        BY <1>1, <2>1, <4>1, SubagentStartAgrees
    <3>2. QED
      BY <3>1 DEF Suits
  <2> HIDE DEF q
  <2>4. QED
    BY <1>2, <1>3, <2>1, <2>2, <2>3
<1>12. ASSUME NEW a \in Subagents, NEW type \in {"permission.requested", "turn.finished"},
              SubagentWrites(a, type)
       PROVE  QoderInv'
  <2>1. a \in qoder.spawned /\ Writes(type, a, NoId, FALSE, qoder)
    BY <1>12 DEF SubagentWrites
  <2>2. a \in TurnIds /\ type \in Events
    BY <1>3 DEF Events
  <2>3. Suits(type, a, NoId, FALSE, qoder)
    <3>1. ASSUME NEW p \in QoderState, NEW r \in QoderRecord,
                 p = [qoder EXCEPT !.written = qoder.written + 1], r = RecordOf(type, a, NoId, FALSE)
          PROVE  Consistent(p) /\ Agrees(ApplyRecord(v, r), p)
      <4>1. /\ p.turn = qoder.turn /\ p.outcome = qoder.outcome /\ p.spawned = qoder.spawned
            /\ p.pending = qoder.pending /\ p.crowded = qoder.crowded
            /\ p.calls = qoder.calls /\ p.asked = qoder.asked
            /\ r.type = type /\ r.turn = a
        BY <1>1, <3>1 DEF QoderState, RecordOf
      <4> DEFINE w == ApplyRecord(v, r)
      <4>2. Agrees(w, qoder)
        BY <1>1, <2>1, <4>1, SubagentRecordAgrees
      <4> HIDE DEF w
      <4>3. RequestsAgree(w, p) /\ QuestionsAgree(w, p) /\ Consistent(p)
        BY <1>1, <4>1, <4>2 DEF Agrees, RequestsAgree, QuestionsAgree, Consistent
      <4>4. Agrees(w, p)
        BY <4>1, <4>2, <4>3 DEF Agrees, TurnsAgree, SubagentsAgree, Few
      <4>5. QED
        BY <4>3, <4>4 DEF w
    <3>2. QED
      BY <3>1 DEF Suits
  <2>4. QED
    BY <1>1, <1>2, <1>3, <2>1, <2>2, <2>3
<1>13. CASE RecordCompleted
  <2>1. /\ segment' = [segment EXCEPT !.torn = FALSE] /\ qoder' = qoder /\ parsed' = parsed
    BY <1>13 DEF RecordCompleted
  <2>2. /\ segment' \in [run : Nat \ {0}, records : Seq(QoderRecord), torn : BOOLEAN]
        /\ segment'.run = segment.run /\ segment'.records = segment.records /\ segment'.torn = FALSE
    BY <1>1, <2>1 DEF SegmentTypeOK
  <2>3. SegmentTypeOK'
    BY <1>1, <2>1, <2>2 DEF SegmentTypeOK
  <2>4. Caught' = Caught
    BY <2>1, <2>2 DEF Caught
  <2>5. QED
    BY <2>1, <2>2, <2>3, <2>4 DEF QoderInv
<1>14. CASE RunStarts
  <2> DEFINE q == [qoder EXCEPT !.outcome = "hidden", !.pending = {}, !.asked = {},
                                !.spawned = {}, !.crowded = FALSE]
  <2>1. /\ segment' = [segment EXCEPT !.run = segment.run + 1, !.records = <<>>, !.torn = FALSE]
        /\ qoder' = q /\ parsed' = parsed
    BY <1>14 DEF RunStarts
  <2>2. /\ segment' \in [run : Nat \ {0}, records : Seq(QoderRecord), torn : BOOLEAN]
        /\ segment'.run = segment.run + 1 /\ segment'.records = <<>> /\ segment'.torn = FALSE
        /\ segment.run \in Nat
    <3> DEFINE run == segment.run + 1
    <3>1. segment.run \in Nat /\ run \in Nat \ {0} /\ <<>> \in Seq(QoderRecord)
      BY <1>1 DEF SegmentTypeOK
    <3>2. segment \in [run : Nat \ {0}, records : Seq(QoderRecord), torn : BOOLEAN]
      BY <1>1 DEF SegmentTypeOK
    <3>3. segment' = [segment EXCEPT !.run = run, !.records = <<>>, !.torn = FALSE]
      BY <2>1
    <3> HIDE DEF run
    <3>4. segment'.run = run /\ segment'.records = <<>> /\ segment'.torn = FALSE
          /\ segment' \in [run : Nat \ {0}, records : Seq(QoderRecord), torn : BOOLEAN]
      BY <3>1, <3>2, <3>3
    <3>5. QED
      BY <3>1, <3>4 DEF run
  <2>3. /\ q \in QoderState /\ q.outcome = "hidden" /\ q.pending = {} /\ q.asked = {} /\ q.spawned = {}
    BY <1>1 DEF QoderState
  <2> HIDE DEF q
  <2>4. SegmentTypeOK'
    BY <1>1, <2>1, <2>2, <2>3 DEF SegmentTypeOK
  <2>5. parsed.run \in Nat /\ parsed.run <= segment.run
    BY <1>1 DEF SegmentTypeOK, QoderInv
  <2>6. parsed'.run # segment'.run /\ parsed'.run <= segment'.run
    BY <2>1, <2>2, <2>5
  <2>7. Caught' = FreshParse
    BY <2>2, <2>6, FreshIsState, FoldOfNothing DEF Caught
  <2>8. Consistent(q) /\ Agrees(FreshParse, q)
    BY <2>3, FreshAgrees
  <2>9. QED
    BY <2>1, <2>2, <2>4, <2>6, <2>7, <2>8 DEF QoderInv
<1>15. CASE UNCHANGED qoderVars
  <2>1. segment' = segment /\ qoder' = qoder /\ parsed' = parsed
    BY <1>15 DEF qoderVars
  <2>2. Caught' = Caught
    BY <2>1 DEF Caught
  <2>3. SegmentTypeOK'
    BY <1>1, <2>1 DEF SegmentTypeOK
  <2>4. QED
    BY <2>1, <2>2, <2>3 DEF QoderInv
<1>16. QED
  BY <1>4, <1>5, <1>6, <1>7, <1>8, <1>9, <1>10, <1>11, <1>12, <1>13, <1>14, <1>15, ReadingKeeps
     DEF QoderNext, QoderWrites

\* After the reader of a Qoder segment (qoder_state.py) has read it to its end,
\* the row it derives is true of the process, whatever windows the records were
\* read in and however the lines were torn.
THEOREM QoderIsShownTruly == QoderSpec => []QoderTellsTheTruth
<1>1. QoderInv => QoderTellsTheTruth
  <2> SUFFICES ASSUME QoderInv, SegmentIsRead PROVE QoderTellsTheTruth
    BY DEF QoderTellsTheTruth
  <2> DEFINE s == parsed.state
  <2>1. /\ s \in ParseState /\ qoder \in QoderState /\ Consistent(qoder)
        /\ parsed.run = segment.run /\ segment.records = <<>>
    BY DEF QoderInv, SegmentTypeOK, SegmentIsRead
  <2>2. Caught = s
    BY <2>1, FoldOfNothing DEF Caught
  <2>3. TurnsAgree(s, qoder) /\ RequestsAgree(s, qoder) /\ QuestionsAgree(s, qoder)
    BY <2>2 DEF QoderInv, Agrees
  <2>4. Cardinality(qoder.spawned) \in Nat /\ (~IsCrowded => Few(qoder))
    BY <2>1, FS_CardinalityType, QoderAssumption DEF Consistent, IsCrowded, Few
  <2>5. /\ s.permissions \in Seq(CallIds) /\ Cardinality(qoder.pending) \in Nat
        /\ (s.permissions = <<>> <=> Len(s.permissions) = 0)
        /\ (qoder.pending = {} <=> Cardinality(qoder.pending) = 0)
    BY <2>1, FS_CardinalityType, FS_EmptySet, EmptySeq DEF ParseState, Consistent
  <2>6. /\ s.permissions # <<>> => qoder.pending # {}
        /\ ~qoder.crowded /\ qoder.pending # {} => s.permissions # <<>>
    <3>1. Len(s.permissions) \in Nat
      BY <2>5
    <3>2. QED
      BY <2>3, <2>5, <3>1 DEF RequestsAgree
  <2>7. /\ s.active \in BOOLEAN /\ s.ask \in BOOLEAN /\ s.submitted \in BOOLEAN
        /\ s.terminal \in BOOLEAN /\ s.failed \in BOOLEAN
    BY <2>1 DEF ParseState
  <2>8. QoderStatus(s) =
          IF s.active THEN (IF s.permissions # <<>> \/ s.ask THEN "waiting" ELSE "running")
          ELSE IF s.submitted /\ s.terminal THEN (IF s.failed THEN "failure" ELSE "success")
          ELSE "hidden"
    BY <2>7 DEF QoderStatus
  <2>9. (s.active <=> IsWorking) /\ (s.ask <=> qoder.asked # {})
    BY <2>3 DEF TurnsAgree, QuestionsAgree, IsWorking
  <2> HIDE DEF s
  <2>10. IsWorking => QoderStatus(s) = IF s.permissions # <<>> \/ s.ask THEN "waiting" ELSE "running"
    BY <2>8, <2>9
  <2>11. ~IsWorking => QoderStatus(s) \notin {"running", "waiting"}
    BY <2>8, <2>9
  <2>12. ~IsWorking /\ ~IsCrowded => QoderStatus(s) = qoder.outcome
    BY <2>1, <2>3, <2>4, <2>8, <2>9 DEF TurnsAgree, QoderState, IsWorking
  <2>13. QED
    BY <2>6, <2>9, <2>10, <2>11, <2>12 DEF QoderTellsTheTruth, QoderWaits, s
<1>2. QED
  BY QoderInitially, QoderKeeps, <1>1, PTL DEF QoderSpec

-----------------------------------------------------------------------------
(* OpenCodeScan: the cache never answers a mixture of two moments          *)

Step == [created : Nat, completed : BOOLEAN, finish : Finishes, failed : BOOLEAN]
Row == [recorded : BOOLEAN, user : Nat, assistant : Step, tool : BOOLEAN]
Status == {"running", "success", "failure"}
Scan == [step : {"idle", "sessions", "messages", "built"}, signature : Nat,
         ids : SUBSET Chats, left : SUBSET (Chats \X Roles), user : [Chats -> Nat],
         assistant : [Chats -> Step], tool : [Chats -> BOOLEAN]]
Answer == [signature : Nat, found : BOOLEAN, ids : SUBSET Chats, status : [Chats -> Status]]

ScanTypeOK ==
  /\ commits \in Nat
  /\ database \in [Chats -> Row]
  /\ turn \in [Chats -> Status]
  /\ reading \in Scan
  /\ cached # NoCache => cached \in Answer

Listed == {s \in Chats : database[s].recorded}

\* The rows of a chat tell how its turn goes.
RowsTellTheTurn ==
  \A s \in Chats :
    /\ StatusOf(database[s].user, database[s].assistant, database[s].tool) = turn[s]
    /\ IsInStep(s) => \/ ~database[s].assistant.completed
                      \/ /\ ~database[s].assistant.failed
                         /\ database[s].assistant.finish \in Continues
    /\ ~database[s].recorded => turn[s] = "running" /\ database[s].assistant.created = 0
    /\ database[s].assistant.created <= commits

\* What was read of a chat so far is what its rows hold, if nothing was
\* committed since the signature was taken.
ReadSoFar ==
  /\ reading.step \in {"messages", "built"} => reading.ids = Listed
  /\ reading.step \in {"messages", "built"} =>
       \A s \in reading.ids :
         /\ <<s, "user">> \notin reading.left => reading.user[s] = database[s].user
         /\ <<s, "assistant">> \notin reading.left => reading.assistant[s] = database[s].assistant
  /\ reading.step = "built" =>
       reading.left = {} /\ \A s \in reading.ids : reading.tool[s] = database[s].tool
ReadingIsTrue ==
  /\ reading.step # "idle" => reading.signature <= commits
  /\ reading.step # "idle" /\ reading.signature = commits => ReadSoFar

AnswerIsTrue ==
  cached # NoCache =>
    /\ cached.signature <= commits
    /\ cached.signature = commits /\ cached.found =>
         /\ cached.ids = Listed
         /\ \A s \in cached.ids : cached.status[s] = turn[s]

\* CacheIsTrue is not inductive: it says nothing of a scan in progress, nor of
\* why the rows of one moment give the right status.
ScanInv == ScanTypeOK /\ RowsTellTheTurn /\ ReadingIsTrue /\ AnswerIsTrue

-----------------------------------------------------------------------------
LEMMA NoStepIsStep == NoStep \in Step
  BY DEF NoStep, Step, Finishes, Continues

LEMMA NoScanIsScan == NoScan \in Scan /\ NoScan.step = "idle"
  BY NoStepIsStep DEF NoScan, Scan

LEMMA StatusIsStatus ==
  ASSUME NEW user, NEW step, NEW tool
  PROVE  StatusOf(user, step, tool) \in Status
  BY DEF StatusOf, Status

LEMMA ScanInitially == ScanInit => ScanInv
  <1> SUFFICES ASSUME ScanInit PROVE ScanInv
    OBVIOUS
  <1>1. ScanTypeOK
    BY NoStepIsStep, NoScanIsScan DEF ScanInit, ScanTypeOK, Row, Status
  <1>2. RowsTellTheTurn
    BY DEF ScanInit, RowsTellTheTurn, StatusOf, IsInStep, NoStep
  <1>3. ReadingIsTrue /\ AnswerIsTrue
    BY NoScanIsScan DEF ScanInit, ReadingIsTrue, AnswerIsTrue
  <1> QED BY <1>1, <1>2, <1>3 DEF ScanInv

-----------------------------------------------------------------------------
(* OpenCode writes                                                         *)

\* A commit outdates every signature; what remains to show is that the new row
\* tells the new turn.
LEMMA CommitStep ==
  ASSUME ScanInv, NEW s \in Chats, NEW row \in Row, NEW state \in Status,
         Commits(s, row, state), row.recorded, row.assistant.created <= commits + 1,
         StatusOf(row.user, row.assistant, row.tool) = state,
         row.assistant.created > 0 /\ row.assistant.created > row.user /\ state = "running"
           => \/ ~row.assistant.completed
              \/ ~row.assistant.failed /\ row.assistant.finish \in Continues
  PROVE  ScanInv'
  <1>1. /\ commits \in Nat /\ commits' = commits + 1
        /\ database \in [Chats -> Row] /\ database' = [database EXCEPT ![s] = row]
        /\ turn \in [Chats -> Status] /\ turn' = [turn EXCEPT ![s] = state]
        /\ reading' = reading /\ cached' = cached
    BY DEF Commits, ScanInv, ScanTypeOK
  <1>2. ScanTypeOK'
    BY <1>1 DEF ScanInv, ScanTypeOK
  <1>3. RowsTellTheTurn'
    <2> SUFFICES ASSUME NEW t \in Chats
                 PROVE  (/\ StatusOf(database[t].user, database[t].assistant, database[t].tool)
                              = turn[t]
                         /\ IsInStep(t) =>
                              \/ ~database[t].assistant.completed
                              \/ /\ ~database[t].assistant.failed
                                 /\ database[t].assistant.finish \in Continues
                         /\ ~database[t].recorded =>
                              turn[t] = "running" /\ database[t].assistant.created = 0
                         /\ database[t].assistant.created <= commits)'
      BY DEF RowsTellTheTurn
    <2>1. CASE t = s
      BY <1>1, <2>1 DEF IsInStep
    <2>2. CASE t # s
      <3>1. database[t]' = database[t] /\ turn[t]' = turn[t]
            /\ database[t].assistant.created \in Nat
        BY <1>1, <2>2 DEF Row, Step
      <3> QED BY <1>1, <3>1 DEF IsInStep, ScanInv, RowsTellTheTurn
    <2> QED BY <2>1, <2>2
  <1>4. ReadingIsTrue'
    BY <1>1 DEF ScanInv, ScanTypeOK, ReadingIsTrue, Scan
  <1>5. AnswerIsTrue'
    BY <1>1 DEF ScanInv, ScanTypeOK, AnswerIsTrue, Answer
  <1> QED BY <1>2, <1>3, <1>4, <1>5 DEF ScanInv

LEMMA WritesStep ==
  ASSUME ScanInv, ScanWrites
  PROVE  ScanInv'
  <1>1. PICK s \in Chats :
          \/ ChatCreated(s) \/ UserAsks(s) \/ StepStarts(s)
          \/ \E running \in BOOLEAN : ToolRuns(s, running)
          \/ \E finish \in Finishes, failed \in BOOLEAN : StepCompletes(s, finish, failed)
    BY DEF ScanWrites
  <1> DEFINE row == database[s]
  <1>2. /\ commits \in Nat /\ row \in Row /\ turn[s] \in Status
        /\ row.assistant.created \in Nat /\ row.assistant.created <= commits
        /\ StatusOf(row.user, row.assistant, row.tool) = turn[s]
        /\ IsInStep(s) => \/ ~row.assistant.completed
                          \/ ~row.assistant.failed /\ row.assistant.finish \in Continues
    BY DEF ScanInv, ScanTypeOK, RowsTellTheTurn, Row, Step
  <1>3. ~row.recorded => turn[s] = "running" /\ row.assistant.created = 0
    BY DEF ScanInv, RowsTellTheTurn
  <1>4. CASE ChatCreated(s)
    <2> DEFINE new == [row EXCEPT !.recorded = TRUE]
    <2>1. new \in Row /\ new.recorded /\ new.assistant = row.assistant
          /\ new.user = row.user /\ new.tool = row.tool
      BY <1>2 DEF Row
    <2>2. Commits(s, new, "running") /\ turn[s] = "running" /\ row.assistant.created = 0
      BY <1>3, <1>4 DEF ChatCreated
    <2> HIDE DEF new
    <2> QED BY <1>2, <2>1, <2>2, CommitStep
  <1>5. CASE UserAsks(s)
    <2> DEFINE new == [row EXCEPT !.user = commits + 1]
    <2>1. new \in Row /\ new.recorded /\ new.user = commits + 1
      BY <1>2, <1>5 DEF Row, UserAsks
    <2>2. Commits(s, new, "running")
      BY <1>5 DEF UserAsks
    <2>3. new.assistant = row.assistant /\ row.assistant.created \in Nat
          /\ row.assistant.created <= commits
      BY <1>2 DEF Row, Step, ScanInv, RowsTellTheTurn
    <2> HIDE DEF new
    <2>4. StatusOf(new.user, new.assistant, new.tool) = "running"
      BY <1>2, <2>1, <2>3 DEF StatusOf
    <2> QED BY <1>2, <2>1, <2>2, <2>3, <2>4, CommitStep DEF Status
  <1>6. CASE StepStarts(s)
    <2> DEFINE first == [NoStep EXCEPT !.created = commits + 1]
               new == [row EXCEPT !.assistant = first, !.tool = FALSE]
    <2>1. first \in Step /\ ~first.completed /\ first.created = commits + 1
      <3>1. NoStep \in Step /\ ~NoStep.completed
        BY NoStepIsStep DEF NoStep
      <3> QED BY <1>2, <3>1 DEF Step
    <2>2. Commits(s, new, "running") /\ row.recorded
      BY <1>6 DEF StepStarts
    <2> HIDE DEF first
    <2>3. new \in Row /\ new.recorded /\ new.assistant = first
      BY <1>2, <2>1, <2>2 DEF Row
    <2> HIDE DEF new
    <2>4. StatusOf(new.user, new.assistant, new.tool) = "running"
      BY <2>1, <2>3 DEF StatusOf
    <2> QED BY <1>2, <2>1, <2>2, <2>3, <2>4, CommitStep DEF Status
  <1>7. ASSUME NEW running \in BOOLEAN, ToolRuns(s, running)
        PROVE  ScanInv'
    <2> DEFINE new == [row EXCEPT !.tool = running]
    <2>1. Commits(s, new, "running") /\ IsInStep(s) /\ row.recorded
      BY <1>2, <1>3, <1>7 DEF ToolRuns, IsInStep
    <2>2. new \in Row /\ new.recorded /\ new.assistant = row.assistant /\ new.user = row.user
      BY <1>2, <2>1 DEF Row
    <2> HIDE DEF new
    <2>3. \/ ~new.assistant.completed
          \/ ~new.assistant.failed /\ new.assistant.finish \in Continues
      BY <1>2, <2>1, <2>2
    <2>4. StatusOf(new.user, new.assistant, new.tool) = "running"
      BY <2>3 DEF StatusOf
    <2> QED BY <1>2, <2>1, <2>2, <2>3, <2>4, CommitStep DEF Status
  <1>8. ASSUME NEW finish \in Finishes, NEW failed \in BOOLEAN, StepCompletes(s, finish, failed)
        PROVE  ScanInv'
    <2> DEFINE step == [row.assistant EXCEPT !.completed = TRUE, !.finish = finish,
                                             !.failed = failed]
               new == [row EXCEPT !.assistant = step]
               state == IF failed THEN "failure"
                        ELSE IF finish \in Continues THEN "running"
                        ELSE IF finish = "stop" THEN "success" ELSE "failure"
    <2>1. /\ IsInStep(s) /\ row.recorded
          /\ row.tool => failed \/ finish \in Continues
      BY <1>2, <1>3, <1>8 DEF StepCompletes, IsInStep
    <2>2. row.assistant \in Step
      BY <1>2 DEF Row
    <2>3. /\ step \in Step /\ step.completed /\ step.finish = finish /\ step.failed = failed
          /\ step.created = row.assistant.created
      BY <2>2 DEF Step
    <2>4. new = [row EXCEPT !.assistant.completed = TRUE, !.assistant.finish = finish,
                            !.assistant.failed = failed]
      BY <1>2, <2>2 DEF Row, Step
    <2>5. Commits(s, new, state)
      BY <1>8, <2>4 DEF StepCompletes
    <2> HIDE DEF step
    <2>6. /\ new \in Row /\ new.recorded /\ new.assistant = step
          /\ new.user = row.user /\ new.tool = row.tool
      BY <1>2, <2>1, <2>3 DEF Row
    <2> HIDE DEF new
    <2>7. row.assistant.created > 0 /\ row.assistant.created > row.user
      BY <2>1 DEF IsInStep
    <2>8. row.user \in Nat /\ row.assistant.created \in Nat /\ row.tool \in BOOLEAN
      BY <1>2, <2>2 DEF Row, Step
    <2>9. StatusOf(new.user, new.assistant, new.tool) = state
      BY <2>1, <2>3, <2>6, <2>7, <2>8 DEF StatusOf
    <2>10. state \in Status /\ (state = "running" => ~failed /\ finish \in Continues)
      BY DEF Status
    <2> HIDE DEF state
    <2> QED BY <1>2, <2>3, <2>5, <2>6, <2>9, <2>10, CommitStep
  <1> QED BY <1>1, <1>4, <1>5, <1>6, <1>7, <1>8

-----------------------------------------------------------------------------
(* The monitor reads                                                       *)

\* No query writes the database, so only the scan and the cache can go wrong.
LEMMA ReadKeepsRows ==
  ASSUME ScanInv, UNCHANGED <<commits, database, turn>>,
         reading' \in Scan, cached' # NoCache => cached' \in Answer,
         ReadingIsTrue', AnswerIsTrue'
  PROVE  ScanInv'
  BY DEF ScanInv, ScanTypeOK, RowsTellTheTurn, IsInStep

LEMMA RememberedStep ==
  ASSUME ScanInv, reading.step # "idle",
         NEW found \in BOOLEAN, NEW ids \in SUBSET Chats, NEW status \in [Chats -> Status],
         Remembered(found, ids, status),
         found /\ reading.signature = commits =>
           ids = Listed /\ \A s \in ids : status[s] = turn[s]
  PROVE  ScanInv'
  <1>1. /\ UNCHANGED <<commits, database, turn>> /\ reading' = NoScan
        /\ cached' = [signature |-> reading.signature, found |-> found,
                      ids |-> ids, status |-> status]
    BY DEF Remembered
  <1>2. cached' \in Answer
    BY <1>1 DEF Answer, ScanInv, ScanTypeOK, Scan
  <1>3. ReadingIsTrue'
    BY <1>1, NoScanIsScan DEF ReadingIsTrue
  <1>4. AnswerIsTrue'
    BY <1>1 DEF AnswerIsTrue, Listed, ScanInv, ReadingIsTrue
  <1> QED BY <1>1, <1>2, <1>3, <1>4, NoScanIsScan, ReadKeepsRows

LEMMA ReadsStep ==
  ASSUME ScanInv, ScanReads
  PROVE  ScanInv'
  <1>1. /\ reading \in Scan /\ commits \in Nat
        /\ database \in [Chats -> Row] /\ turn \in [Chats -> Status]
        /\ cached # NoCache => cached \in Answer
    BY DEF ScanInv, ScanTypeOK
  <1>2. CASE SignatureTaken
    <2>1. reading' \in Scan
      BY <1>1, <1>2, NoScanIsScan DEF SignatureTaken, Signature, Scan
    <2>2. ReadingIsTrue'
      BY <1>1, <1>2, NoScanIsScan DEF SignatureTaken, Signature, ReadingIsTrue, ReadSoFar, Scan
    <2>3. AnswerIsTrue'
      BY <1>2 DEF SignatureTaken, ScanInv, AnswerIsTrue, Listed
    <2> QED BY <1>1, <1>2, <2>1, <2>2, <2>3, ReadKeepsRows DEF SignatureTaken
  <1>3. CASE SessionsQueried
    <2>1. /\ UNCHANGED <<commits, database, turn, cached>> /\ reading.step = "sessions"
          /\ reading' = [reading EXCEPT !.step = "messages", !.ids = Listed,
                                        !.left = Listed \X Roles]
      BY <1>3 DEF SessionsQueried, Listed
    <2>2. reading' \in Scan
      BY <1>1, <2>1 DEF Scan, Listed
    <2>3. ReadingIsTrue'
      BY <1>1, <2>1 DEF Scan, ScanInv, ReadingIsTrue, ReadSoFar, Listed, Roles
    <2>4. AnswerIsTrue'
      BY <2>1 DEF ScanInv, AnswerIsTrue, Listed
    <2> QED BY <1>1, <2>1, <2>2, <2>3, <2>4, ReadKeepsRows
  <1>4. ASSUME NEW s \in Chats, NEW role \in Roles, MessageQueried(s, role)
        PROVE  ScanInv'
    <2>1. /\ UNCHANGED <<commits, database, turn, cached>> /\ reading.step = "messages"
          /\ database[s] \in Row
      BY <1>1, <1>4 DEF MessageQueried
    <2>2. AnswerIsTrue'
      BY <2>1 DEF ScanInv, AnswerIsTrue, Listed
    <2>3. CASE role = "user"
      <3>1. reading' = [reading EXCEPT !.left = @ \ {<<s, "user">>},
                                       !.user[s] = database[s].user]
        BY <1>4, <2>3 DEF MessageQueried
      <3>2. reading' \in Scan
        BY <1>1, <2>1, <3>1 DEF Scan, Row
      <3>3. ReadingIsTrue'
        BY <1>1, <2>1, <3>1 DEF Scan, ScanInv, ReadingIsTrue, ReadSoFar, Listed
      <3> QED BY <1>1, <2>1, <2>2, <3>2, <3>3, ReadKeepsRows
    <2>4. CASE role = "assistant"
      <3>1. reading' = [reading EXCEPT !.left = @ \ {<<s, "assistant">>},
                                       !.assistant[s] = database[s].assistant]
        BY <1>4, <2>4 DEF MessageQueried
      <3>2. reading' \in Scan
        BY <1>1, <2>1, <3>1 DEF Scan, Row
      <3>3. ReadingIsTrue'
        BY <1>1, <2>1, <3>1 DEF Scan, ScanInv, ReadingIsTrue, ReadSoFar, Listed
      <3> QED BY <1>1, <2>1, <2>2, <3>2, <3>3, ReadKeepsRows
    <2> QED BY <2>3, <2>4 DEF Roles
  <1>5. CASE ToolsQueried
    <2> DEFINE tools == [s \in Chats |->
                           /\ s \in reading.ids
                           /\ reading.assistant[s].created = database[s].assistant.created
                           /\ database[s].tool]
    <2>1. /\ UNCHANGED <<commits, database, turn, cached>>
          /\ reading.step = "messages" /\ reading.left = {}
          /\ reading' = [reading EXCEPT !.step = "built", !.tool = tools]
      BY <1>5 DEF ToolsQueried
    <2>2. tools \in [Chats -> BOOLEAN]
      BY <1>1 DEF Row
    <2>3. reading' \in Scan
      BY <1>1, <2>1, <2>2 DEF Scan
    <2>4. reading.signature = commits => ReadSoFar
      BY <2>1 DEF ScanInv, ReadingIsTrue
    <2>5. ASSUME reading.signature = commits, NEW s \in reading.ids
          PROVE  tools[s] = database[s].tool
      BY <1>1, <2>1, <2>4, <2>5 DEF ReadSoFar, Scan, Row
    <2> HIDE DEF tools
    <2>6. ReadingIsTrue'
      BY <1>1, <2>1, <2>4, <2>5 DEF Scan, ScanInv, ReadingIsTrue, ReadSoFar, Listed
    <2>7. AnswerIsTrue'
      BY <2>1 DEF ScanInv, AnswerIsTrue, Listed
    <2> QED BY <1>1, <2>1, <2>3, <2>6, <2>7, ReadKeepsRows
  <1>6. CASE StatesBuilt
    <2> DEFINE status == [s \in Chats |-> StatusOf(reading.user[s], reading.assistant[s],
                                                   reading.tool[s])]
    <2>1. reading.step = "built" /\ Remembered(TRUE, reading.ids, status)
      BY <1>6 DEF StatesBuilt
    <2>2. status \in [Chats -> Status]
      BY StatusIsStatus
    <2>3. ASSUME reading.signature = commits
          PROVE  reading.ids = Listed /\ \A s \in reading.ids : status[s] = turn[s]
      BY <1>1, <2>1, <2>3 DEF ScanInv, ReadingIsTrue, ReadSoFar, RowsTellTheTurn, Scan
    <2> HIDE DEF status
    <2>4. reading.ids \in SUBSET Chats
      BY <1>1 DEF Scan
    <2> QED BY <2>1, <2>2, <2>3, <2>4, RememberedStep
  <1>7. CASE QueryFails
    <2>1. reading.step # "idle" /\ Remembered(FALSE, {}, [s \in Chats |-> "running"])
      BY <1>7 DEF QueryFails
    <2>2. [s \in Chats |-> "running"] \in [Chats -> Status]
      BY DEF Status
    <2> QED BY <2>1, <2>2, RememberedStep
  <1> QED BY <1>2, <1>3, <1>4, <1>5, <1>6, <1>7 DEF ScanReads

-----------------------------------------------------------------------------
LEMMA ScanSteps == ScanInv /\ [ScanNext]_scanVars => ScanInv'
  <1> SUFFICES ASSUME ScanInv, [ScanNext]_scanVars PROVE ScanInv'
    OBVIOUS
  <1>1. CASE UNCHANGED scanVars
    BY <1>1 DEF scanVars, ScanInv, ScanTypeOK, RowsTellTheTurn, IsInStep, ReadingIsTrue,
       ReadSoFar, AnswerIsTrue, Listed
  <1>2. CASE ScanNext
    BY <1>2, WritesStep, ReadsStep DEF ScanNext
  <1> QED BY <1>1, <1>2

\* What the cache answers under the present signature is the truth of every
\* chat, though its queries ran between commits.
THEOREM CachedAnswerIsTrue == ScanSpec => []CacheIsTrue
  <1>1. ScanInv => CacheIsTrue
    BY DEF ScanInv, AnswerIsTrue, CacheIsTrue, Signature, Listed
  <1> QED BY <1>1, ScanInitially, ScanSteps, PTL DEF ScanSpec

-----------------------------------------------------------------------------
(* OpenCodeRows: the binding of processes to conversations                 *)

Marker == [ask : BOOLEAN, pid : Pids, conversation : Conversations]

RowsTypeOK ==
  /\ clock \in Nat
  /\ process \in [Pids -> [start : Nat, alive : BOOLEAN, hooked : BOOLEAN,
                           anchor : Conversations \union {NoOne}]]
  /\ \A p \in Live : process[p].start > 0
  /\ conversation \in [Conversations -> [created : Nat, activity : Nat, open : BOOLEAN,
                                         worker : Pids \union {NoOne}]]
  /\ prompts \in SUBSET Pids
  /\ markers \in Seq(Marker)

\* An open turn is recorded and has a process, that works on no other.
WorkIsOne ==
  /\ \A c \in Conversations : IsOpen(c) =>
       /\ conversation[c].created > 0
       /\ conversation[c].worker \in Pids
       /\ process[conversation[c].worker].start > 0
  /\ \A p \in Live, c, d \in Conversations :
       IsWorkingOn(p, c) /\ IsWorkingOn(p, d) => c = d

\* A marker was written by a process, and as long as that lives an unanswered
\* ask is its own open prompt.
MarkersAreTrue ==
  /\ \A i \in DOMAIN markers : process[markers[i].pid].start > 0
  /\ \A i \in PendingAsks : markers[i].pid \in Live =>
       /\ markers[i].pid \in prompts
       /\ IsWorkingOn(markers[i].pid, markers[i].conversation)

\* WaitingIsOwn is not inductive: a marker alone does not tell that its
\* process, if it lives, still waits and where it works.
RowsInv == RowsTypeOK /\ WorkIsOne /\ MarkersAreTrue

LEMMA RowsInitially == RowsInit => RowsInv
  <1> SUFFICES ASSUME RowsInit PROVE RowsInv
    OBVIOUS
  <1>1. RowsTypeOK
    BY DEF RowsInit, RowsTypeOK, Live
  <1>2. WorkIsOne
    BY DEF RowsInit, WorkIsOne, IsOpen, IsWorkingOn, Live
  <1>3. MarkersAreTrue
    BY DEF RowsInit, MarkersAreTrue, PendingAsks
  <1> QED BY <1>1, <1>2, <1>3 DEF RowsInv

-----------------------------------------------------------------------------
(* What the log makes of the asks                                          *)

\* A further marker makes no older ask pending, and an answer settles every
\* ask of its conversation.
LEMMA AskAppended ==
  ASSUME RowsTypeOK, NEW m \in Marker, markers' = Append(markers, m), NEW i \in PendingAsks'
  PROVE  \/ i = Len(markers) + 1 /\ m.ask /\ markers'[i] = m
         \/ /\ i \in PendingAsks /\ markers'[i] = markers[i]
            /\ m.ask \/ m.conversation # markers[i].conversation
  <1>1. Len(markers) \in Nat /\ DOMAIN markers = 1 .. Len(markers)
        /\ DOMAIN markers' = 1 .. Len(markers) + 1
        /\ Len(markers') = Len(markers) + 1
        /\ markers'[Len(markers) + 1] = m
        /\ \A j \in DOMAIN markers : markers'[j] = markers[j]
    BY DEF RowsTypeOK
  <1>2. i \in 1 .. Len(markers) + 1 /\ markers'[i].ask
    BY <1>1 DEF PendingAsks
  <1>3. CASE i = Len(markers) + 1
    BY <1>1, <1>2, <1>3
  <1>4. CASE i \in 1 .. Len(markers)
    <2>1. markers'[i] = markers[i] /\ markers[i].ask
      BY <1>1, <1>2, <1>4
    <2>2. ~(~m.ask /\ m.conversation = markers[i].conversation)
      BY <1>1, <1>4, <2>1 DEF PendingAsks
    <2>3. ASSUME NEW j \in i + 1 .. Len(markers)
          PROVE  ~(~markers[j].ask /\ markers[j].conversation = markers[i].conversation)
      BY <1>1, <1>4, <2>1 DEF PendingAsks
    <2> QED BY <1>1, <1>4, <2>1, <2>2, <2>3 DEF PendingAsks
  <1> QED BY <1>1, <1>2, <1>3, <1>4

\* Positions of a log and of its last records.
LEMMA RotatedPosition ==
  ASSUME NEW length \in Nat, NEW n \in 1 .. length, NEW i \in 1 .. length - n,
         NEW j \in i + n + 1 .. length
  PROVE  (j - n) + n = j /\ j - n \in 1 .. length - n /\ j - n \in i + 1 .. length - n
  <1>1. n \in Int /\ i \in Int /\ j \in Int /\ 1 <= i /\ i + n + 1 <= j /\ j <= length
    OBVIOUS
  <1>2. (j - n) + n = j /\ j - n \in Int
    BY <1>1
  <1>3. i + 1 <= j - n /\ j - n <= length - n
    BY <1>1
  <1> QED BY <1>1, <1>2, <1>3

\* What is left of the log after a rotation: an ask without an answer had none
\* before.
LEMMA AsksRotated ==
  ASSUME RowsTypeOK, NEW n \in DOMAIN markers,
         markers' = SubSeq(markers, n + 1, Len(markers)), NEW i \in PendingAsks'
  PROVE  i + n \in PendingAsks /\ markers'[i] = markers[i + n]
  <1>1. /\ Len(markers) \in Nat /\ n \in 1 .. Len(markers)
        /\ Len(markers') = Len(markers) - n /\ DOMAIN markers' = 1 .. Len(markers) - n
        /\ \A j \in 1 .. Len(markers) - n : markers'[j] = markers[j + n]
    BY DEF RowsTypeOK
  <1>2. i \in 1 .. Len(markers) - n /\ markers[i + n].ask /\ markers'[i] = markers[i + n]
    BY <1>1 DEF PendingAsks
  <1>3. ASSUME NEW j \in i + n + 1 .. Len(markers)
        PROVE  ~(~markers[j].ask /\ markers[j].conversation = markers[i + n].conversation)
    <2>1. /\ (j - n) + n = j /\ j - n \in 1 .. Len(markers) - n
          /\ j - n \in i + 1 .. Len(markers) - n
      BY <1>1, <1>2, RotatedPosition
    <2>2. markers'[j - n] = markers[j]
      BY <1>1, <2>1
    <2>3. j - n \in i + 1 .. Len(markers')
      BY <1>1, <2>1
    <2>4. \A k \in i + 1 .. Len(markers') :
            ~(~markers'[k].ask /\ markers'[k].conversation = markers'[i].conversation)
      BY DEF PendingAsks
    <2> QED BY <1>2, <2>2, <2>3, <2>4
  <1> QED BY <1>1, <1>2, <1>3 DEF PendingAsks

-----------------------------------------------------------------------------
(* The actions                                                             *)

\* What a step does to the log, the prompts and the turns that wait: asks that
\* are pending after it were, or are asked by it.
LEMMA SameMarkers ==
  ASSUME RowsInv, markers' = markers, prompts \subseteq prompts',
         \A p \in Pids : process[p].start > 0 => process'[p].start > 0,
         \A p \in Pids : process[p].start > 0 /\ p \in Live' => p \in Live,
         \A p \in Live, c \in Conversations :
           p \in prompts /\ IsWorkingOn(p, c) => IsWorkingOn(p, c)'
  PROVE  MarkersAreTrue'
  <1>1. \A i \in DOMAIN markers : markers[i] \in Marker
    BY DEF RowsInv, RowsTypeOK
  <1>2. PendingAsks' = PendingAsks /\ PendingAsks \subseteq DOMAIN markers
    BY DEF PendingAsks
  <1>3. ASSUME NEW i \in DOMAIN markers PROVE process'[markers[i].pid].start > 0
    BY <1>1 DEF RowsInv, MarkersAreTrue, Marker
  <1>4. ASSUME NEW i \in PendingAsks, markers[i].pid \in Live'
        PROVE  /\ markers[i].pid \in prompts'
               /\ IsWorkingOn(markers[i].pid, markers[i].conversation)'
    <2>1. markers[i] \in Marker /\ process[markers[i].pid].start > 0
      BY <1>1, <1>2 DEF RowsInv, MarkersAreTrue
    <2>2. markers[i].pid \in Live /\ markers[i].conversation \in Conversations
      BY <1>4, <2>1 DEF Marker
    <2>3. markers[i].pid \in prompts /\ IsWorkingOn(markers[i].pid, markers[i].conversation)
      BY <2>2 DEF RowsInv, MarkersAreTrue
    <2>4. IsWorkingOn(markers[i].pid, markers[i].conversation)'
      BY <2>2, <2>3
    <2> QED BY <2>3, <2>4
  <1> QED BY <1>2, <1>3, <1>4 DEF MarkersAreTrue

LEMMA StartsKeepInv ==
  ASSUME RowsInv, NEW p \in Pids, NEW c \in Recorded \union {NoOne}, NEW hooked \in BOOLEAN,
         OpenCodeStarts(p, c, hooked)
  PROVE  RowsInv'
  <1> USE DEF RowsInv
  <1>1. clock' \in Nat /\ clock' > 0
    BY DEF OpenCodeStarts, Ticks, RowsTypeOK
  <1>2. /\ process' = [process EXCEPT ![p] = [start |-> clock', alive |-> TRUE,
                                             hooked |-> hooked, anchor |-> c]]
        /\ process[p].start = 0 /\ UNCHANGED <<conversation, prompts, markers>>
    BY DEF OpenCodeStarts
  <1>3. p \notin Live /\ Live' = Live \union {p}
    BY <1>2 DEF RowsTypeOK, Live
  <1>4. RowsTypeOK'
    <2>1. process' \in [Pids -> [start : Nat, alive : BOOLEAN, hooked : BOOLEAN,
                                 anchor : Conversations \union {NoOne}]]
      BY <1>1, <1>2 DEF RowsTypeOK, Recorded
    <2>2. \A q \in Live' : process'[q].start > 0
      BY <1>1, <1>2, <1>3 DEF RowsTypeOK, Live
    <2> QED BY <1>1, <1>2, <2>1, <2>2 DEF RowsTypeOK
  <1>5. \A q \in Pids : process[q].start > 0 => process'[q] = process[q] /\ q # p
    BY <1>2 DEF RowsTypeOK
  <1>6. WorkIsOne'
    <2>1. \A d \in Conversations : IsWorkingOn(p, d) => FALSE
      BY <1>2 DEF WorkIsOne, IsWorkingOn, IsOpen
    <2>2. \A q, d : IsWorkingOn(q, d)' <=> IsWorkingOn(q, d)
      BY <1>2 DEF IsWorkingOn
    <2>3. \A q \in Live', d, e \in Conversations :
            IsWorkingOn(q, d)' /\ IsWorkingOn(q, e)' => d = e
      BY <1>3, <2>1, <2>2 DEF WorkIsOne
    <2>4. \A d \in Conversations : IsOpen(d)' =>
            /\ conversation'[d].created > 0
            /\ conversation'[d].worker \in Pids
            /\ process'[conversation'[d].worker].start > 0
      BY <1>2, <1>5 DEF WorkIsOne, IsOpen
    <2> QED BY <2>3, <2>4 DEF WorkIsOne
  <1>7. MarkersAreTrue'
    BY <1>2, <1>3, <1>5, SameMarkers DEF IsWorkingOn
  <1> QED BY <1>4, <1>6, <1>7

\* The turn opens in a conversation that no live process works on, so no ask
\* that is pending loses its process.
LEMMA OpeningKeepsInv ==
  ASSUME RowsInv, NEW p \in Pids, NEW c \in Conversations, TurnOpens(p, c)
  PROVE  RowsInv'
  <1> USE DEF RowsInv
  <1>1. clock' \in Nat /\ clock' > 0
    BY DEF TurnOpens, Ticks, RowsTypeOK
  <1>2. /\ p \in Live /\ ~IsBusy(p)
        /\ conversation' = [conversation EXCEPT ![c] =
             [created |-> IF c \in Recorded THEN conversation[c].created ELSE clock',
              activity |-> clock', open |-> TRUE, worker |-> p]]
        /\ process' = [process EXCEPT ![p].anchor =
             IF process[p].hooked THEN c ELSE process[p].anchor]
        /\ UNCHANGED <<prompts, markers>>
    BY DEF TurnOpens
  <1>3. \A q \in Live : ~IsWorkingOn(q, c)
    BY DEF TurnOpens, IsWorkingOn, WorkIsOne, IsOpen, Recorded
  <1>4. \A d \in Conversations : ~IsWorkingOn(p, d)
    BY <1>2 DEF IsBusy, IsWorkingOn, WorkIsOne, IsOpen, Recorded
  <1>5. RowsTypeOK'
    <2>1. process' \in [Pids -> [start : Nat, alive : BOOLEAN, hooked : BOOLEAN,
                                 anchor : Conversations \union {NoOne}]]
      <3> DEFINE Process  == [start : Nat, alive : BOOLEAN, hooked : BOOLEAN,
                              anchor : Conversations \union {NoOne}]
                 anchored == IF process[p].hooked THEN c ELSE process[p].anchor
      <3>1. process \in [Pids -> Process]
        BY DEF RowsTypeOK
      <3>2. anchored \in Conversations \union {NoOne}
        BY <3>1
      <3>3. process' = [process EXCEPT ![p].anchor = anchored]
        BY <1>2
      <3> HIDE DEF anchored
      <3>4. QED
        BY <3>1, <3>2, <3>3
    <2>2. conversation' \in [Conversations -> [created : Nat, activity : Nat, open : BOOLEAN,
                                               worker : Pids \union {NoOne}]]
      <3> DEFINE Entry  == [created : Nat, activity : Nat, open : BOOLEAN,
                             worker : Pids \union {NoOne}]
                 opened == [created |-> IF c \in Recorded THEN conversation[c].created ELSE clock',
                            activity |-> clock', open |-> TRUE, worker |-> p]
      <3>1. conversation \in [Conversations -> Entry] /\ conversation[c].created \in Nat
        BY DEF RowsTypeOK
      <3>2. opened \in Entry
        BY <1>1, <3>1
      <3> HIDE DEF Entry
      <3>3. conversation' = [conversation EXCEPT ![c] = opened]
        BY <1>2
      <3> HIDE DEF opened
      <3>4. conversation' \in [Conversations -> Entry]
        BY <3>1, <3>2, <3>3
      <3> QED BY <3>4 DEF Entry
    <2>3. \A q \in Live' : process'[q].start > 0
      BY <1>2 DEF RowsTypeOK, Live
    <2> QED BY <1>1, <1>2, <2>1, <2>2, <2>3 DEF RowsTypeOK
  <1>6. Live' = Live /\ \A q \in Pids : process'[q].start = process[q].start
    BY <1>2 DEF RowsTypeOK, Live
  <1>7. \A q \in Pids, d \in Conversations :
          IsWorkingOn(q, d)' <=> IF d = c THEN q = p ELSE IsWorkingOn(q, d)
    BY <1>2 DEF RowsTypeOK, IsWorkingOn
  <1>8. WorkIsOne'
    <2>1. ASSUME NEW d \in Conversations, IsOpen(d)'
          PROVE  /\ conversation'[d].created > 0
                 /\ conversation'[d].worker \in Pids
                 /\ process'[conversation'[d].worker].start > 0
      <3>1. CASE d = c
        BY <1>1, <1>2, <1>6, <3>1 DEF RowsTypeOK, Recorded
      <3>2. CASE d # c
        <4>1. conversation'[d] = conversation[d] /\ IsOpen(d)
          BY <1>2, <2>1, <3>2 DEF RowsTypeOK, IsOpen
        <4> QED BY <1>6, <4>1 DEF WorkIsOne
      <3> QED BY <3>1, <3>2
    <2>2. \A q \in Live', d, e \in Conversations :
            IsWorkingOn(q, d)' /\ IsWorkingOn(q, e)' => d = e
      BY <1>4, <1>6, <1>7 DEF WorkIsOne, Live
    <2> QED BY <2>1, <2>2 DEF WorkIsOne
  <1>9. MarkersAreTrue'
    BY <1>2, <1>3, <1>6, <1>7, SameMarkers DEF Live
  <1> QED BY <1>5, <1>8, <1>9

\* A process at work waits for nobody, and its step moves no other.
LEMMA WorkKeepsInv ==
  ASSUME RowsInv, NEW p \in Pids, NEW c \in Conversations, TurnWorks(p, c) \/ TurnCloses(p, c)
  PROVE  RowsInv'
  <1> USE DEF RowsInv
  <1>1. clock' \in Nat /\ clock' > 0
    BY DEF TurnWorks, TurnCloses, Ticks, RowsTypeOK
  <1>2. /\ p \in Live /\ IsWorkingOn(p, c) /\ p \notin prompts
        /\ UNCHANGED <<process, prompts, markers>>
        /\ DOMAIN conversation' = Conversations
        /\ \A d \in Conversations : d # c => conversation'[d] = conversation[d]
        /\ conversation'[c].created = conversation[c].created
        /\ conversation'[c].worker = conversation[c].worker
    BY DEF TurnWorks, TurnCloses, RowsTypeOK
  <1>3. conversation' \in [Conversations -> [created : Nat, activity : Nat, open : BOOLEAN,
                                             worker : Pids \union {NoOne}]]
    <2> DEFINE Entry == [created : Nat, activity : Nat, open : BOOLEAN,
                         worker : Pids \union {NoOne}]
    <2>1. /\ conversation \in [Conversations -> Entry] /\ clock' \in Nat
      BY <1>1 DEF RowsTypeOK
    <2>2. conversation[c] \in Entry
      BY <2>1
    <2>3. /\ [conversation[c] EXCEPT !.activity = clock'] \in Entry
          /\ [conversation[c] EXCEPT !.activity = clock', !.open = FALSE] \in Entry
      BY <2>1, <2>2
    <2> HIDE DEF Entry
    <2>4. \/ conversation' = [conversation EXCEPT
                                ![c] = [conversation[c] EXCEPT !.activity = clock']]
          \/ conversation' = [conversation EXCEPT
                                ![c] = [conversation[c] EXCEPT !.activity = clock', !.open = FALSE]]
      <3>1. CASE TurnWorks(p, c)
        BY <2>1, <3>1 DEF TurnWorks
      <3>2. CASE TurnCloses(p, c)
        BY <2>1, <2>2, <3>2 DEF TurnCloses, Entry
      <3> QED BY <3>1, <3>2
    <2>5. conversation' \in [Conversations -> Entry]
      BY <2>1, <2>3, <2>4
    <2> QED BY <2>5 DEF Entry
  <1>4. RowsTypeOK'
    BY <1>1, <1>2, <1>3 DEF RowsTypeOK, Live
  <1>5. Live' = Live
    BY <1>2 DEF Live
  <1>6. \A q \in Pids, d \in Conversations : IsWorkingOn(q, d)' => IsWorkingOn(q, d)
    BY <1>2 DEF IsWorkingOn
  <1>7. WorkIsOne'
    <2>1. \A d \in Conversations : IsOpen(d)' => IsOpen(d)
      BY <1>2 DEF IsOpen, IsWorkingOn
    <2>2. \A d \in Conversations : /\ conversation'[d].created = conversation[d].created
                                   /\ conversation'[d].worker = conversation[d].worker
      BY <1>2
    <2>3. \A q \in Live', d, e \in Conversations :
            IsWorkingOn(q, d)' /\ IsWorkingOn(q, e)' => d = e
      BY <1>5, <1>6 DEF WorkIsOne, Live
    <2> QED BY <1>2, <2>1, <2>2, <2>3 DEF WorkIsOne
  <1>8. ASSUME NEW q \in Live, NEW d \in Conversations, q \in prompts, IsWorkingOn(q, d)
        PROVE  IsWorkingOn(q, d)'
    <2>1. d # c
      BY <1>2, <1>8 DEF IsWorkingOn
    <2> QED BY <1>2, <1>8, <2>1 DEF IsWorkingOn
  <1>9. MarkersAreTrue'
    BY <1>2, <1>5, <1>8, SameMarkers
  <1> QED BY <1>4, <1>7, <1>9

LEMMA DeathKeepsInv ==
  ASSUME RowsInv, NEW p \in Pids, OpenCodeDies(p)
  PROVE  RowsInv'
  <1> USE DEF RowsInv
  <1>1. /\ process' = [process EXCEPT ![p].alive = FALSE] /\ prompts' = prompts \ {p}
        /\ UNCHANGED <<clock, conversation, markers>>
    BY DEF OpenCodeDies
  <1>2. /\ process' \in [Pids -> [start : Nat, alive : BOOLEAN, hooked : BOOLEAN,
                                  anchor : Conversations \union {NoOne}]]
        /\ \A q \in Pids : process'[q].start = process[q].start
    BY <1>1 DEF RowsTypeOK
  <1>3. Live' = Live \ {p}
    BY <1>1 DEF RowsTypeOK, Live
  <1>4. RowsTypeOK'
    BY <1>1, <1>2, <1>3 DEF RowsTypeOK, Live
  <1>5. \A q, d : IsWorkingOn(q, d)' <=> IsWorkingOn(q, d)
    BY <1>1 DEF IsWorkingOn
  <1>6. WorkIsOne'
    BY <1>1, <1>2, <1>3, <1>5 DEF WorkIsOne, IsOpen
  <1>7. MarkersAreTrue'
    <2>1. PendingAsks' = PendingAsks /\ PendingAsks \subseteq DOMAIN markers
      BY <1>1 DEF PendingAsks
    <2>2. \A i \in DOMAIN markers : markers[i] \in Marker
      BY DEF RowsTypeOK
    <2>3. \A i \in DOMAIN markers : markers[i].pid \in Pids
      BY <2>2 DEF Marker
    <2> QED BY <1>1, <1>2, <1>3, <1>5, <2>1, <2>3 DEF MarkersAreTrue
  <1> QED BY <1>4, <1>6, <1>7

\* The new marker is an ask of a process that now waits, or an answer, after
\* which none of the asks of the process that waited is pending.
LEMMA MarkingKeepsInv ==
  ASSUME RowsInv, NEW p \in Pids, NEW c \in Conversations,
         PromptOpens(p, c) \/ PromptAnswered(p, c)
  PROVE  RowsInv'
  <1> USE DEF RowsInv
  <1>1. /\ IsWorkingOn(p, c) /\ UNCHANGED <<clock, process, conversation>>
        /\ Live' = Live
    BY DEF PromptOpens, PromptAnswered, Live
  <1>2. PICK m \in Marker :
          /\ m.pid = p /\ m.conversation = c /\ markers' = Append(markers, m)
          /\ \/ m.ask /\ p \in Live /\ prompts' = prompts \union {p}
             \/ ~m.ask /\ prompts' = prompts \ {p}
    <2>1. CASE PromptOpens(p, c)
      <3> DEFINE m == [ask |-> TRUE, pid |-> p, conversation |-> c]
      <3>1. m \in Marker /\ m.ask /\ m.pid = p /\ m.conversation = c
        BY DEF Marker
      <3>2. markers' = Append(markers, m) /\ p \in Live /\ prompts' = prompts \union {p}
        BY <2>1 DEF PromptOpens, Marked
      <3> HIDE DEF m
      <3> QED BY <3>1, <3>2
    <2>2. CASE PromptAnswered(p, c)
      <3> DEFINE m == [ask |-> FALSE, pid |-> p, conversation |-> c]
      <3>1. m \in Marker /\ ~m.ask /\ m.pid = p /\ m.conversation = c
        BY DEF Marker
      <3>2. markers' = Append(markers, m) /\ prompts' = prompts \ {p}
        BY <2>2 DEF PromptAnswered, Marked
      <3> HIDE DEF m
      <3> QED BY <3>1, <3>2
    <2> QED BY <2>1, <2>2
  <1>3. /\ DOMAIN markers' = 1 .. Len(markers) + 1 /\ DOMAIN markers = 1 .. Len(markers)
        /\ markers' \in Seq(Marker) /\ Len(markers) \in Nat
        /\ markers'[Len(markers) + 1] = m
        /\ \A i \in DOMAIN markers : markers'[i] = markers[i] /\ markers[i] \in Marker
    BY <1>2 DEF RowsTypeOK
  <1>4. RowsTypeOK'
    BY <1>1, <1>2, <1>3 DEF RowsTypeOK
  <1>5. \A q, d : IsWorkingOn(q, d)' <=> IsWorkingOn(q, d)
    BY <1>1 DEF IsWorkingOn
  <1>6. WorkIsOne'
    BY <1>1, <1>5 DEF WorkIsOne, IsOpen
  <1>7. ASSUME NEW i \in DOMAIN markers'
        PROVE  process'[markers'[i].pid].start > 0
    <2>1. process[p].start > 0
      BY <1>1 DEF WorkIsOne, IsWorkingOn, IsOpen
    <2>2. CASE i \in DOMAIN markers
      BY <1>1, <1>3, <2>2 DEF MarkersAreTrue
    <2>3. CASE i = Len(markers) + 1
      BY <1>1, <1>2, <1>3, <2>1, <2>3
    <2> QED BY <1>3, <2>2, <2>3
  <1>8. ASSUME NEW i \in PendingAsks', markers'[i].pid \in Live'
        PROVE  /\ markers'[i].pid \in prompts'
               /\ conversation'[markers'[i].conversation].open
               /\ conversation'[markers'[i].conversation].worker = markers'[i].pid
    <2>1. \/ i = Len(markers) + 1 /\ m.ask /\ markers'[i] = m
          \/ /\ i \in PendingAsks /\ markers'[i] = markers[i]
             /\ m.ask \/ m.conversation # markers[i].conversation
      BY <1>2, AskAppended
    <2>2. CASE markers'[i] = m /\ m.ask
      BY <1>1, <1>2, <2>2 DEF IsWorkingOn
    <2>3. CASE /\ i \in PendingAsks /\ markers'[i] = markers[i]
               /\ m.ask \/ m.conversation # markers[i].conversation
      <3>1. i \in DOMAIN markers /\ markers[i] \in Marker
        BY <1>3, <2>3 DEF PendingAsks
      <3>2. markers[i].pid \in Live /\ markers[i].conversation \in Conversations
        BY <1>1, <1>8, <2>3, <3>1 DEF Marker
      <3>3. markers[i].pid \in prompts /\ IsWorkingOn(markers[i].pid, markers[i].conversation)
        BY <2>3, <3>2 DEF MarkersAreTrue
      <3>4. ~m.ask => markers[i].pid # p
        BY <1>1, <1>2, <2>3, <3>2, <3>3 DEF WorkIsOne
      <3>5. markers[i].pid \in prompts'
        BY <1>2, <3>3, <3>4
      <3> QED BY <1>1, <2>3, <3>3, <3>5 DEF IsWorkingOn
    <2> QED BY <2>1, <2>2, <2>3
  <1>9. MarkersAreTrue'
    BY <1>7, <1>8 DEF MarkersAreTrue, IsWorkingOn
  <1> QED BY <1>4, <1>6, <1>9

LEMMA RotationKeepsInv ==
  ASSUME RowsInv, MarkersLost
  PROVE  RowsInv'
  <1> USE DEF RowsInv
  <1>1. UNCHANGED <<clock, process, conversation, prompts>>
    BY DEF MarkersLost
  <1>2. PICK n \in DOMAIN markers : markers' = SubSeq(markers, n + 1, Len(markers))
    BY DEF MarkersLost
  <1>3. /\ Len(markers) \in Nat /\ n \in 1 .. Len(markers)
        /\ markers' \in Seq(Marker)
        /\ DOMAIN markers' = 1 .. Len(markers) - n
        /\ \A j \in 1 .. Len(markers) - n : markers'[j] = markers[j + n] /\ j + n \in DOMAIN markers
    BY <1>2 DEF RowsTypeOK
  <1>4. RowsTypeOK'
    BY <1>1, <1>3 DEF RowsTypeOK, Live
  <1>5. Live' = Live /\ \A q, d : IsWorkingOn(q, d)' <=> IsWorkingOn(q, d)
    BY <1>1 DEF IsWorkingOn, Live
  <1>6. WorkIsOne'
    BY <1>1, <1>5 DEF WorkIsOne, IsOpen
  <1>7. \A i \in DOMAIN markers' : process'[markers'[i].pid].start > 0
    BY <1>1, <1>3 DEF MarkersAreTrue
  <1>8. \A i \in PendingAsks' : i + n \in PendingAsks /\ markers'[i] = markers[i + n]
    BY <1>2, AsksRotated
  <1>9. MarkersAreTrue'
    BY <1>1, <1>5, <1>7, <1>8 DEF MarkersAreTrue
  <1> QED BY <1>4, <1>6, <1>9

-----------------------------------------------------------------------------
LEMMA RowsInvKept == RowsInv /\ [RowsNext]_rowsVars => RowsInv'
  <1> SUFFICES ASSUME RowsInv, [RowsNext]_rowsVars PROVE RowsInv'
    OBVIOUS
  <1>1. ASSUME NEW p \in Pids, NEW c \in Recorded \union {NoOne}, NEW hooked \in BOOLEAN,
               OpenCodeStarts(p, c, hooked)
        PROVE  RowsInv'
    BY <1>1, StartsKeepInv
  <1>2. ASSUME NEW p \in Pids, NEW c \in Conversations, TurnOpens(p, c)
        PROVE  RowsInv'
    BY <1>2, OpeningKeepsInv
  <1>3. ASSUME NEW p \in Pids, NEW c \in Conversations, TurnWorks(p, c) \/ TurnCloses(p, c)
        PROVE  RowsInv'
    BY <1>3, WorkKeepsInv
  <1>4. ASSUME NEW p \in Pids, NEW c \in Conversations,
               PromptOpens(p, c) \/ PromptAnswered(p, c)
        PROVE  RowsInv'
    BY <1>4, MarkingKeepsInv
  <1>5. ASSUME NEW p \in Pids, OpenCodeDies(p) PROVE RowsInv'
    BY <1>5, DeathKeepsInv
  <1>6. CASE MarkersLost
    BY <1>6, RotationKeepsInv
  <1>7. CASE UNCHANGED rowsVars
    BY <1>7 DEF rowsVars, RowsInv, RowsTypeOK, WorkIsOne, MarkersAreTrue, PendingAsks, Live,
                IsOpen, IsWorkingOn
  <1> QED BY <1>1, <1>2, <1>3, <1>4, <1>5, <1>6, <1>7 DEF RowsNext

\* No row says that it waits unless its own process has an unanswered prompt in
\* the conversation of the row (_fold_decisions, find_pending_decision), for
\* every number of processes, conversations and markers.
THEOREM NoForeignWaiting == RowsSpec => []WaitingIsOwn
  <1>1. RowsInv => WaitingIsOwn
    BY DEF RowsInv, MarkersAreTrue, WaitingIsOwn, IsShownWaiting, FoundDecision
  <1> QED BY <1>1, RowsInitially, RowsInvKept, PTL DEF RowsSpec

-----------------------------------------------------------------------------
(* Times                                                                   *)

\* Processes started at different times, and a conversation was last active
\* after the process at work on it started.
TimesAreTrue ==
  /\ \A p \in Pids : process[p].start <= clock
  /\ \A p, q \in Pids : p # q /\ process[p].start > 0 => process[p].start # process[q].start
  /\ \A c \in Conversations : conversation[c].activity <= clock
  /\ \A c \in Conversations : IsOpen(c) =>
       process[conversation[c].worker].start <= conversation[c].activity

LEMMA TimesInitially == RowsInit => TimesAreTrue
  BY DEF RowsInit, TimesAreTrue, IsOpen

LEMMA TimesKept == RowsInv /\ TimesAreTrue /\ [RowsNext]_rowsVars => TimesAreTrue'
  <1> SUFFICES ASSUME RowsInv, TimesAreTrue, [RowsNext]_rowsVars PROVE TimesAreTrue'
    OBVIOUS
  <1>1. /\ clock \in Nat
        /\ \A p \in Pids : process[p].start \in Nat
        /\ \A c \in Conversations : conversation[c].activity \in Nat
        /\ DOMAIN process = Pids /\ DOMAIN conversation = Conversations
    BY DEF RowsInv, RowsTypeOK
  <1>2. \A c \in Conversations : IsOpen(c) =>
          conversation[c].worker \in Pids /\ process[conversation[c].worker].start > 0
    BY DEF RowsInv, WorkIsOne
  <1>3. ASSUME NEW p \in Pids, NEW c \in Recorded \union {NoOne}, NEW hooked \in BOOLEAN,
               OpenCodeStarts(p, c, hooked)
        PROVE  TimesAreTrue'
    <2>1. /\ clock' = clock + 1 /\ conversation' = conversation /\ process[p].start = 0
          /\ process'[p].start = clock'
          /\ \A q \in Pids : q # p => process'[q] = process[q]
      BY <1>1, <1>3 DEF OpenCodeStarts, Ticks
    <2>2. \A q \in Pids : process'[q].start <= clock'
      BY <1>1, <2>1 DEF TimesAreTrue
    <2>3. ASSUME NEW q \in Pids, NEW r \in Pids, q # r, process'[q].start > 0
          PROVE  process'[q].start # process'[r].start
      <3>1. \A x \in Pids : x # p => process'[x].start <= clock
        BY <2>1 DEF TimesAreTrue
      <3>2. CASE q = p \/ r = p
        BY <1>1, <2>1, <2>3, <3>1, <3>2
      <3>3. CASE q # p /\ r # p
        BY <2>1, <2>3, <3>3 DEF TimesAreTrue
      <3> QED BY <3>2, <3>3
    <2>4. \A d \in Conversations : conversation'[d].activity <= clock'
      BY <1>1, <2>1 DEF TimesAreTrue
    <2>5. ASSUME NEW d \in Conversations, IsOpen(d)'
          PROVE  process'[conversation'[d].worker].start <= conversation'[d].activity
      <3>1. IsOpen(d) /\ conversation'[d] = conversation[d]
        BY <2>1, <2>5 DEF IsOpen
      <3>2. conversation[d].worker \in Pids /\ conversation[d].worker # p
        BY <1>2, <2>1, <3>1
      <3> QED BY <2>1, <3>1, <3>2 DEF TimesAreTrue
    <2> QED BY <2>2, <2>3, <2>4, <2>5 DEF TimesAreTrue
  <1>4. ASSUME NEW p \in Pids, NEW c \in Conversations,
               TurnOpens(p, c) \/ TurnWorks(p, c) \/ TurnCloses(p, c)
        PROVE  TimesAreTrue'
    <2>1. /\ clock' = clock + 1 /\ p \in Pids
          /\ conversation'[c].activity = clock' /\ conversation'[c].worker = p
          /\ \A d \in Conversations : d # c => conversation'[d] = conversation[d]
      <3>1. CASE TurnOpens(p, c)
        BY <1>1, <3>1 DEF TurnOpens, Ticks
      <3>2. CASE TurnWorks(p, c)
        BY <1>1, <3>2 DEF TurnWorks, IsWorkingOn, Ticks
      <3>3. CASE TurnCloses(p, c)
        BY <1>1, <3>3 DEF TurnCloses, IsWorkingOn, Ticks
      <3> QED BY <1>4, <3>1, <3>2, <3>3
    <2>2. \A q \in Pids : process'[q].start = process[q].start
      <3>1. CASE TurnOpens(p, c)
        BY <1>1, <3>1 DEF TurnOpens
      <3>2. CASE TurnWorks(p, c) \/ TurnCloses(p, c)
        BY <1>1, <3>2 DEF TurnWorks, TurnCloses
      <3> QED BY <1>4, <3>1, <3>2
    <2>3. ASSUME NEW d \in Conversations, IsOpen(d)'
          PROVE  process'[conversation'[d].worker].start <= conversation'[d].activity
      <3>1. CASE d = c
        BY <1>1, <2>1, <2>2, <3>1 DEF TimesAreTrue
      <3>2. CASE d # c
        <4>1. IsOpen(d) /\ conversation'[d] = conversation[d]
          BY <2>1, <2>3, <3>2 DEF IsOpen
        <4> QED BY <1>2, <2>2, <4>1 DEF TimesAreTrue
      <3> QED BY <3>1, <3>2
    <2>4. \A d \in Conversations : conversation'[d].activity <= clock'
      <3> TAKE d \in Conversations
      <3>1. CASE d = c
        BY <1>1, <2>1, <3>1
      <3>2. CASE d # c
        BY <1>1, <2>1, <3>2 DEF TimesAreTrue
      <3> QED BY <3>1, <3>2
    <2>5. \A q \in Pids : process'[q].start <= clock'
      BY <1>1, <2>1, <2>2 DEF TimesAreTrue
    <2>6. \A q, r \in Pids : q # r /\ process'[q].start > 0 => process'[q].start # process'[r].start
      BY <2>2 DEF TimesAreTrue
    <2> QED BY <2>3, <2>4, <2>5, <2>6 DEF TimesAreTrue
  <1>5. ASSUME \A q \in Pids : process'[q].start = process[q].start,
               UNCHANGED <<clock, conversation>>
        PROVE  TimesAreTrue'
    <2>1. \A d \in Conversations : IsOpen(d)' => IsOpen(d) /\ conversation'[d] = conversation[d]
      BY <1>5 DEF IsOpen
    <2> QED BY <1>2, <1>5, <2>1 DEF TimesAreTrue
  <1>6. ASSUME NEW p \in Pids, OpenCodeDies(p) PROVE TimesAreTrue'
    <2>1. \A q \in Pids : process'[q].start = process[q].start
      BY <1>1, <1>6 DEF OpenCodeDies
    <2> QED BY <1>5, <1>6, <2>1 DEF OpenCodeDies
  <1>7. ASSUME NEW p \in Pids, NEW c \in Conversations, PromptOpens(p, c) \/ PromptAnswered(p, c)
        PROVE  TimesAreTrue'
    BY <1>5, <1>7 DEF PromptOpens, PromptAnswered
  <1>8. CASE MarkersLost
    BY <1>5, <1>8 DEF MarkersLost
  <1>9. CASE UNCHANGED rowsVars
    BY <1>5, <1>9 DEF rowsVars
  <1> QED BY <1>3, <1>4, <1>6, <1>7, <1>8, <1>9 DEF RowsNext

-----------------------------------------------------------------------------
(* The binding                                                             *)

RowsState == [Pids -> Conversations \union {NoOne}]

BindingInv == RowsInv /\ TimesAreTrue

LEMMA NewestIsOne ==
  ASSUME BindingInv, NEW cs, cs \subseteq Conversations, cs # {}
  PROVE  Newest(cs) \in cs
  <1> DEFINE times == {conversation[c].activity : c \in cs}
  <1>1. \A c \in cs : conversation[c].activity \in Nat /\ conversation[c].activity <= clock
    BY DEF BindingInv, RowsInv, RowsTypeOK, TimesAreTrue
  <1>2. clock \in Nat /\ times \subseteq Nat /\ times # {} /\ \A n \in times : n <= clock
    BY <1>1 DEF BindingInv, RowsInv, RowsTypeOK
  <1>3. PICK n \in times : \A m \in times : m <= n
    <2> HIDE DEF times
    <2> QED BY <1>2, GreatestNatural
  <1>4. PICK c \in cs : n = conversation[c].activity
    BY <1>3
  <1>5. \A d \in cs : conversation[c].activity >= conversation[d].activity
    BY <1>1, <1>3, <1>4
  <1> QED BY <1>5 DEF Newest

\* The order of the rows is total: some process comes last.
LEMMA SomeIsLast ==
  ASSUME BindingInv, NEW ps, ps \subseteq Live, ps # {}
  PROVE  LastOf(ps) \in ps /\ \A q \in ps \ {LastOf(ps)} : Before(q, LastOf(ps))
  <1> DEFINE late  == IF \A p \in ps : OpenAnchor(p) THEN ps ELSE {p \in ps : ~OpenAnchor(p)}
             times == {process[p].start : p \in late}
  <1>1. late \subseteq ps /\ late # {}
    OBVIOUS
  <1>2. /\ \A p \in ps : p \in Pids /\ process[p].start \in Nat /\ process[p].start > 0
        /\ \A p, q \in ps : p # q => process[p].start # process[q].start
    BY DEF BindingInv, RowsInv, RowsTypeOK, TimesAreTrue, Live
  <1>3. \A p \in late, q \in ps : q \notin late => OpenAnchor(q) /\ ~OpenAnchor(p)
    OBVIOUS
  <1>4. \A p, q \in late : OpenAnchor(p) = OpenAnchor(q)
    BY DEF OpenAnchor
  <1> HIDE DEF late
  <1>5. times \subseteq Nat /\ times # {}
    BY <1>1, <1>2
  <1>6. PICK n \in times : \A m \in times : n <= m
    <2> HIDE DEF times
    <2> QED BY <1>5, LeastNatural
  <1>7. PICK p \in late : n = process[p].start
    BY <1>6
  <1>8. ASSUME NEW q \in ps \ {p} PROVE Before(q, p)
    <2>1. CASE q \in late
      <3>1. process[q].start > process[p].start
        BY <1>1, <1>2, <1>6, <1>7, <2>1
      <3> QED BY <1>4, <1>7, <2>1, <3>1 DEF Before
    <2>2. CASE q \notin late
      BY <1>3, <1>7, <2>2 DEF Before
    <2> QED BY <2>1, <2>2
  <1>9. \E x \in ps : \A q \in ps \ {x} : Before(q, x)
    BY <1>1, <1>8
  <1> QED BY <1>9 DEF LastOf

\* A row gets a conversation that is on no other, or none.
LEMMA ChosenIsFree ==
  ASSUME BindingInv, NEW p \in Pids, NEW used
  PROVE  StateForRoot(p, used) \in (Recorded \ used) \union {NoOne}
  <1> DEFINE bound == IF Bound(p, used) THEN {process[p].anchor} ELSE {}
             near  == InDirectory(p, used)
             open  == {c \in near : IsOpen(c)}
             fresh == {c \in near : conversation[c].created + Grace >= process[p].start}
             owned == bound \union (IF open # {} THEN open
                                    ELSE IF fresh # {} THEN fresh
                                    ELSE IF bound = {} THEN near ELSE {})
  <1>1. bound \subseteq Recorded \ used /\ near \subseteq Recorded \ used
    BY DEF Bound, InDirectory
  <1>2. open \subseteq Recorded \ used /\ owned \subseteq Recorded \ used
    BY <1>1
  <1>3. \A cs : cs \subseteq Recorded \ used => Newest(cs) \in (Recorded \ used) \union {NoOne}
    <2> TAKE cs
    <2> HAVE cs \subseteq Recorded \ used
    <2>1. cs \subseteq Conversations
      BY DEF Recorded
    <2>2. CASE cs = {}
      BY <2>2 DEF Newest
    <2>3. CASE cs # {}
      BY <2>1, <2>3, NewestIsOne
    <2> QED BY <2>2, <2>3
  <1>4. StateForRoot(p, used) = IF \E c \in bound : IsOpen(c) THEN process[p].anchor
                                ELSE IF open # {} THEN Newest(open)
                                ELSE Newest(owned)
    BY DEF StateForRoot
  <1>5. (\E c \in bound : IsOpen(c)) => process[p].anchor \in Recorded \ used
    BY <1>1
  <1> HIDE DEF bound, open, owned
  <1>6. Newest(open) \in (Recorded \ used) \union {NoOne} /\ Newest(owned) \in (Recorded \ used) \union {NoOne}
    BY <1>2, <1>3
  <1> QED BY <1>4, <1>5, <1>6

LEMMA BindIsRows ==
  ASSUME BindingInv, NEW p \in Pids, NEW rows \in RowsState
  PROVE  /\ Bind(p, rows) \in RowsState
         /\ Bind(p, rows)[p] = StateForRoot(p, {rows[q] : q \in Pids})
         /\ \A q \in Pids : q # p => Bind(p, rows)[q] = rows[q]
  <1>1. StateForRoot(p, {rows[q] : q \in Pids}) \in Conversations \union {NoOne}
    BY ChosenIsFree DEF Recorded
  <1> QED BY <1>1 DEF Bind, RowsState

LiveLast == [ps \in SUBSET Live |-> IF ps = {} THEN {} ELSE LastOf(ps)]

LEMMA LastIsPicked ==
  ASSUME BindingInv
  PROVE  LiveLast \in Picks(Live) /\ IsFiniteSet(Live)
  <1>1. ASSUME NEW ps \in SUBSET Live, ps # {} PROVE LastOf(ps) \in ps
    BY <1>1, SomeIsLast
  <1>2. LiveLast \in [SUBSET Live -> Live \union {{}}]
    <2>1. ASSUME NEW ps \in SUBSET Live
          PROVE  (IF ps = {} THEN {} ELSE LastOf(ps)) \in Live \union {{}}
      BY <1>1
    <2> QED BY <2>1 DEF LiveLast
  <1>3. \A ps \in (SUBSET Live) \ {{}} : LiveLast[ps] \in ps
    BY <1>1 DEF LiveLast
  <1>4. IsFiniteSet(Live)
    <2>1. IsFiniteSet(1 .. MaxProcesses)
      BY RowsAssumption, FS_Interval
    <2> QED BY <2>1, FS_Subset DEF Live, Pids
  <1> QED BY <1>2, <1>3, <1>4 DEF Picks

\* The rows are those that were bound to the processes one after the other.
BoundInOrder(rows) ==
  \A ps \in SUBSET Live :
    rows[ps] = IF ps = {} THEN [p \in Pids |-> NoOne]
               ELSE Bind(LastOf(ps), rows[ps \ {LastOf(ps)}])

LEMMA RowsAreBound ==
  ASSUME BindingInv
  PROVE  \E rows \in [SUBSET Live -> RowsState] : BoundInOrder(rows) /\ Rows = rows[Live]
  <1> DEFINE base == [p \in Pids |-> NoOne]
             step == [x \in Live \X RowsState |-> Bind(x[1], x[2])]
             IsFold(f) == f = [ps \in SUBSET Live |->
                                 IF ps = {} THEN base ELSE Bind(LastOf(ps), f[ps \ {LastOf(ps)}])]
  <1>1. LiveLast \in Picks(Live) /\ IsFiniteSet(Live)
    BY LastIsPicked
  <1>2. step \in FoldSteps(Live, RowsState) /\ base \in RowsState
    <2>1. ASSUME NEW x \in Live \X RowsState PROVE Bind(x[1], x[2]) \in RowsState
      <3>1. x[1] \in Pids /\ x[2] \in RowsState
        BY DEF Live
      <3> QED BY <3>1, BindIsRows
    <2>2. base \in RowsState
      BY DEF RowsState
    <2> QED BY <2>1, <2>2 DEF FoldSteps
  <1>3. PICK fold : Folds(fold, Live, RowsState, base, LiveLast, step)
    <2> HIDE DEF base, step
    <2> QED BY <1>1, <1>2, FoldExists
  <1>4. ASSUME NEW ps \in SUBSET Live, ps # {}
        PROVE  /\ LastOf(ps) \in Live /\ ps \ {LastOf(ps)} \in SUBSET Live
               /\ LiveLast[ps] = LastOf(ps)
    BY <1>4, SomeIsLast DEF LiveLast
  <1>5. IsFold(fold)
    <2>1. ASSUME NEW ps \in SUBSET Live, ps # {}
          PROVE  fold[ps] = Bind(LastOf(ps), fold[ps \ {LastOf(ps)}])
      <3>1. fold[ps \ {LastOf(ps)}] \in RowsState
        BY <1>3, <1>4, <2>1 DEF Folds
      <3>2. fold[ps] = step[<<LiveLast[ps], fold[ps \ {LiveLast[ps]}]>>]
        <4> HIDE DEF base, step
        <4> QED BY <1>3, <2>1 DEF Folds
      <3>3. <<LastOf(ps), fold[ps \ {LastOf(ps)}]>> \in Live \X RowsState
        BY <1>4, <2>1, <3>1
      <3>4. fold[ps] = step[<<LastOf(ps), fold[ps \ {LastOf(ps)}]>>]
        <4> HIDE DEF base, step
        <4> QED BY <1>4, <2>1, <3>2
      <3> QED BY <3>3, <3>4
    <2>2. fold[{}] = base
      <3> HIDE DEF base, step
      <3> QED BY <1>3 DEF Folds
    <2>3. fold = [ps \in SUBSET Live |-> fold[ps]]
      <3> HIDE DEF base, step
      <3> QED BY <1>3 DEF Folds
    <2> QED BY <2>1, <2>2, <2>3
  <1> DEFINE f == CHOOSE g : IsFold(g)
  <1>6. IsFold(f)
    BY <1>5
  <1>7. Rows = f[Live]
    BY DEF Rows, MapThenFoldSet
  <1> HIDE DEF f
  <1>8. BoundInOrder(f)
    BY <1>6 DEF BoundInOrder
  <1>9. f \in [SUBSET Live -> RowsState]
    <2> DEFINE G == {ps \in SUBSET Live : f[ps] \in RowsState}
    <2>1. {} \in G
      BY <1>2, <1>8 DEF BoundInOrder
    <2>2. ASSUME NEW ps \in SUBSET Live, ps # {}, ps \ {LiveLast[ps]} \in G PROVE ps \in G
      <3>1. f[ps] = Bind(LastOf(ps), f[ps \ {LastOf(ps)}])
        BY <1>8, <2>2 DEF BoundInOrder
      <3>2. f[ps \ {LastOf(ps)}] \in RowsState /\ LastOf(ps) \in Pids
        BY <1>4, <2>2 DEF Live
      <3> QED BY <3>1, <3>2, BindIsRows
    <2>3. \A ps \in SUBSET Live : ps \in G
      <3> HIDE DEF G
      <3> QED BY <1>1, <2>1, <2>2, RemovalInduction
    <2>4. f = [ps \in SUBSET Live |-> f[ps]]
      BY <1>6
    <2> QED BY <2>3, <2>4
  <1> QED BY <1>7, <1>8, <1>9

\* No conversation is on two of the rows bound so far.
Apart(rows, ps) ==
  /\ \A p \in Pids \ ps : rows[p] = NoOne
  /\ \A p, q \in Pids : p # q /\ rows[p] # NoOne => rows[p] # rows[q]

LEMMA BindKeepsApart ==
  ASSUME BindingInv, NEW ps, NEW p \in Pids, p \notin ps, NEW rows \in RowsState, Apart(rows, ps)
  PROVE  Apart(Bind(p, rows), ps \union {p})
  <1> DEFINE used == {rows[q] : q \in Pids}
             next == Bind(p, rows)
  <1>1. next[p] = StateForRoot(p, used) /\ \A q \in Pids : q # p => next[q] = rows[q]
    BY BindIsRows
  <1>2. next[p] \notin used \/ next[p] = NoOne
    BY <1>1, ChosenIsFree
  <1> HIDE DEF next
  <1>3. \A q \in Pids : q # p /\ next[q] # NoOne => next[p] # next[q]
    BY <1>1, <1>2
  <1> QED BY <1>1, <1>2, <1>3 DEF Apart, next

-----------------------------------------------------------------------------
(* Open turns are on rows                                                  *)

\* What OpenTurnsAreBound supposes.
TurnsAreKnown == Abandoned = {} /\ NamesAreTrue

Unshown(rows) == {c \in Recorded : IsOpen(c) /\ \A p \in Pids : rows[p] # c}

\* A plan for the open turns that are on no row yet: each gets a process of its
\* own among the rest, that its conversation was active after, and is that
\* process's if it is named.
Plans(g, rows, rest) ==
  /\ g \in [Unshown(rows) -> rest]
  /\ \A c, d \in Unshown(rows) : c # d => g[c] # g[d]
  /\ \A c \in Unshown(rows) : conversation[c].activity + Grace >= process[g[c]].start
  /\ \A p \in rest : OpenAnchor(p) => process[p].anchor \in Unshown(rows) /\ g[process[p].anchor] = p

Serves(rows, ps) ==
  /\ \A p \in ps : OpenAnchor(p) => rows[p] = process[p].anchor
  /\ \E g : Plans(g, rows, Live \ ps)

\* At first every turn has its own worker.
LEMMA ServesAtFirst ==
  ASSUME BindingInv, TurnsAreKnown
  PROVE  Serves([p \in Pids |-> NoOne], {})
  <1> DEFINE none == [p \in Pids |-> NoOne]
             open == {c \in Recorded : IsOpen(c)}
             g    == [c \in open |-> conversation[c].worker]
  <1>1. Unshown(none) = open
    <2>1. \A c \in Recorded : c # NoOne
      BY RowsAssumption DEF Recorded, Conversations
    <2> QED BY <2>1 DEF Unshown
  <1>2. ASSUME NEW c \in open
        PROVE  /\ c \in Conversations /\ g[c] \in Live /\ IsWorkingOn(g[c], c)
               /\ conversation[c].activity + Grace >= process[g[c]].start
    <2>1. c \in Conversations /\ IsOpen(c) /\ c \in Recorded
      BY DEF Recorded
    <2>2. g[c] = conversation[c].worker /\ g[c] \in Live
      BY <2>1 DEF TurnsAreKnown, Abandoned
    <2>3. IsWorkingOn(g[c], c)
      BY <2>1, <2>2 DEF IsWorkingOn, IsOpen
    <2>4. process[g[c]].start <= conversation[c].activity
      BY <2>1, <2>2 DEF BindingInv, TimesAreTrue
    <2>5. process[g[c]].start \in Nat /\ conversation[c].activity \in Nat /\ Grace \in Nat
      BY <2>1, <2>2, RowsAssumption DEF BindingInv, RowsInv, RowsTypeOK, Live
    <2> QED BY <2>1, <2>2, <2>3, <2>4, <2>5
  <1>3. \A c, d \in open : c # d => g[c] # g[d]
    <2> TAKE c \in open, d \in open
    <2> HIDE DEF g
    <2> QED BY <1>2 DEF BindingInv, RowsInv, WorkIsOne
  <1>4. ASSUME NEW p \in Live, OpenAnchor(p)
        PROVE  process[p].anchor \in open /\ g[process[p].anchor] = p
    <2>1. process[p].anchor \in open
      BY <1>4 DEF OpenAnchor
    <2>2. IsWorkingOn(p, process[p].anchor)
      BY <1>4 DEF TurnsAreKnown, NamesAreTrue
    <2> QED BY <2>1, <2>2 DEF IsWorkingOn
  <1>5. g \in [open -> Live]
    BY <1>2
  <1> HIDE DEF g, open
  <1>6. Plans(g, none, Live \ {})
    <2> HIDE DEF none
    <2> QED BY <1>1, <1>2, <1>3, <1>4, <1>5 DEF Plans
  <1> QED BY <1>6 DEF Serves

\* Rows that one more process is bound on.
LEMMA UnshownAfterBind ==
  ASSUME BindingInv, NEW p \in Pids, NEW rows \in RowsState, rows[p] = NoOne
  PROVE  Unshown(Bind(p, rows)) = Unshown(rows) \ {Bind(p, rows)[p]}
  <1>1. \A q \in Pids : q # p => Bind(p, rows)[q] = rows[q]
    BY BindIsRows
  <1>2. \A c \in Recorded : c # NoOne
    BY RowsAssumption DEF Recorded, Conversations
  <1> QED BY <1>1, <1>2 DEF Unshown

\* A process whose anchor is open gets it.
LEMMA AnchoredIsServed ==
  ASSUME BindingInv, NEW p \in Pids, NEW used,
         OpenAnchor(p), process[p].anchor \notin used
  PROVE  StateForRoot(p, used) = process[p].anchor
  <1>1. Bound(p, used) /\ IsOpen(process[p].anchor)
    BY DEF Bound, OpenAnchor
  <1> QED BY <1>1 DEF StateForRoot

\* Another gets an open turn of the directory, if one is left.
LEMMA OpenIsServed ==
  ASSUME BindingInv, NEW p \in Pids, NEW used, ~OpenAnchor(p),
         NEW d \in Recorded \ used, IsOpen(d),
         conversation[d].activity + Grace >= process[p].start
  PROVE  StateForRoot(p, used) \in Recorded \ used /\ IsOpen(StateForRoot(p, used))
  <1> DEFINE open == {c \in InDirectory(p, used) : IsOpen(c)}
  <1>1. d \in open
    <2>1. d # process[p].anchor
      BY DEF OpenAnchor
    <2> QED BY <2>1 DEF InDirectory
  <1>2. StateForRoot(p, used) = Newest(open)
    <2>1. ~(\E c \in IF Bound(p, used) THEN {process[p].anchor} ELSE {} : IsOpen(c))
      BY DEF Bound, OpenAnchor
    <2> QED BY <1>1, <2>1 DEF StateForRoot
  <1>3. open \subseteq Recorded \ used /\ open \subseteq Conversations
    BY DEF InDirectory, Recorded
  <1>4. Newest(open) \in open
    <2> HIDE DEF open
    <2> QED BY <1>1, <1>3, NewestIsOne
  <1> QED BY <1>2, <1>3, <1>4

\* The next process of the order is bound and a plan for the others is left.
LEMMA BindServes ==
  ASSUME BindingInv, TurnsAreKnown,
         NEW ps \in SUBSET Live, NEW p \in Live, p \notin ps,
         \A q \in Live \ (ps \union {p}) : Before(p, q),
         NEW rows \in RowsState, rows[p] = NoOne, Serves(rows, ps)
  PROVE  Serves(Bind(p, rows), ps \union {p})
  <1> DEFINE used == {rows[q] : q \in Pids}
             next == Bind(p, rows)
             rest == Live \ (ps \union {p})
             left == Unshown(rows)
             got  == next[p]
  <1>1. PICK g : Plans(g, rows, Live \ ps)
    BY DEF Serves
  <1>2. /\ p \in Pids /\ got = StateForRoot(p, used)
        /\ \A q \in Pids : q # p => next[q] = rows[q]
    BY BindIsRows DEF Live
  <1>3. Unshown(next) = left \ {got}
    BY <1>2, UnshownAfterBind
  <1>4. \A c \in Recorded : c \in left <=> IsOpen(c) /\ c \notin used
    BY DEF Unshown
  <1>5. /\ left \subseteq Recorded
        /\ \A c \in left : g[c] \in Live /\ g[c] \notin ps
        /\ \A c, d \in left : c # d => g[c] # g[d]
        /\ \A c \in left : conversation[c].activity + Grace >= process[g[c]].start
    BY <1>1 DEF Plans, Unshown
  <1>6. \A q \in Live \ ps : OpenAnchor(q) => process[q].anchor \in left /\ g[process[q].anchor] = q
    BY <1>1 DEF Plans
  <1>7. \A q \in ps : OpenAnchor(q) => next[q] = process[q].anchor
    BY <1>2 DEF Serves, Live
  <1>8. /\ Grace \in Nat /\ \A q \in Live : process[q].start \in Nat
        /\ \A c \in Recorded : conversation[c].activity \in Nat
    BY RowsAssumption DEF BindingInv, RowsInv, RowsTypeOK, Live, Recorded
  <1> HIDE DEF used, next, left, got
  <1>9. CASE OpenAnchor(p)
    <2> DEFINE h == [c \in left \ {got} |-> g[c]]
    <2>1. process[p].anchor \in left /\ g[process[p].anchor] = p
      BY <1>6, <1>9
    <2>2. got = process[p].anchor
      <3>1. process[p].anchor \notin used
        BY <1>4, <1>5, <2>1
      <3> QED BY <1>2, <1>9, <3>1, AnchoredIsServed
    <2>3. \A c \in left \ {got} : g[c] \in rest
      BY <1>5, <2>1, <2>2
    <2>4. Plans(h, next, rest)
      <3>1. h \in [left \ {got} -> rest]
        BY <2>3
      <3>2. \A c, d \in left \ {got} : c # d => h[c] # h[d]
        BY <1>5
      <3>3. \A c \in left \ {got} : conversation[c].activity + Grace >= process[h[c]].start
        BY <1>5
      <3>4. ASSUME NEW q \in rest, OpenAnchor(q)
            PROVE  process[q].anchor \in left \ {got} /\ h[process[q].anchor] = q
        <4>1. process[q].anchor \in left /\ g[process[q].anchor] = q /\ q # p
          BY <1>6, <3>4
        <4> QED BY <2>1, <2>2, <4>1
      <3> HIDE DEF h, rest
      <3> QED BY <1>3, <3>1, <3>2, <3>3, <3>4 DEF Plans
    <2>5. \A q \in ps \union {p} : OpenAnchor(q) => next[q] = process[q].anchor
      BY <1>7, <2>2 DEF got
    <2> HIDE DEF h
    <2> QED BY <2>4, <2>5 DEF Serves, next
  <1>10. CASE ~OpenAnchor(p)
    <2>1. \A q \in rest : ~OpenAnchor(q) /\ process[p].start > process[q].start
      BY <1>10 DEF Before
    <2>2. \A q \in ps \union {p} : OpenAnchor(q) => next[q] = process[q].anchor
      BY <1>7, <1>10
    <2>3. CASE \E c \in left : g[c] = p
      <3>1. PICK e \in left : g[e] = p
        BY <2>3
      <3>2. got \in left
        <4>1. e \in Recorded \ used /\ IsOpen(e) /\ conversation[e].activity + Grace >= process[p].start
          BY <1>4, <1>5, <3>1
        <4>2. got \in Recorded \ used /\ IsOpen(got)
          BY <1>2, <1>10, <4>1, OpenIsServed
        <4> QED BY <1>4, <4>2
      <3> DEFINE h == [c \in left \ {got} |-> IF g[c] = p THEN g[got] ELSE g[c]]
      <3>3. ASSUME NEW c \in left \ {got}
            PROVE  /\ h[c] \in rest
                   /\ conversation[c].activity + Grace >= process[h[c]].start
        <4>1. CASE g[c] = p
          <5>1. g[got] # p /\ g[got] \in rest /\ h[c] = g[got]
            BY <1>5, <3>2, <3>3, <4>1
          <5>2. process[p].start > process[g[got]].start
            BY <2>1, <5>1
          <5>3. conversation[c].activity + Grace >= process[p].start
            BY <1>5, <3>3, <4>1
          <5>4. /\ process[p].start \in Nat /\ process[g[got]].start \in Nat
                /\ conversation[c].activity \in Nat
            BY <1>5, <1>8, <3>2, <3>3
          <5> QED BY <1>8, <5>1, <5>2, <5>3, <5>4
        <4>2. CASE g[c] # p
          BY <1>5, <3>3, <4>2
        <4> QED BY <4>1, <4>2
      <3>4. \A c, d \in left \ {got} : c # d => h[c] # h[d]
        BY <1>5, <3>2
      <3>5. h \in [left \ {got} -> rest]
        <4>1. \A c \in left \ {got} : (IF g[c] = p THEN g[got] ELSE g[c]) \in rest
          BY <3>3
        <4> QED BY <4>1
      <3> HIDE DEF h, rest
      <3>6. Plans(h, next, rest)
        BY <1>3, <2>1, <3>3, <3>4, <3>5 DEF Plans
      <3> QED BY <2>2, <3>6 DEF Serves, next, rest
    <2>4. CASE ~\E c \in left : g[c] = p
      <3> DEFINE h == [c \in left \ {got} |-> g[c]]
      <3>1. \A c \in left \ {got} : h[c] \in rest
        BY <1>5, <2>4
      <3>2. h \in [left \ {got} -> rest]
        BY <3>1
      <3>3. \A c, d \in left \ {got} : c # d => h[c] # h[d]
        BY <1>5
      <3>4. \A c \in left \ {got} : conversation[c].activity + Grace >= process[h[c]].start
        BY <1>5
      <3> HIDE DEF h, rest
      <3>5. Plans(h, next, rest)
        BY <1>3, <2>1, <3>2, <3>3, <3>4 DEF Plans
      <3> QED BY <2>2, <3>5 DEF Serves, next, rest
    <2> QED BY <2>3, <2>4
  <1> QED BY <1>9, <1>10

\* Processes none of which comes after one of the others.
ComeFirst(ps) == \A p \in ps, q \in Live \ ps : Before(p, q)

\* By induction over how many processes were bound.
LEMMA RowsAreRight ==
  ASSUME BindingInv
  PROVE  /\ Rows \in RowsState
         /\ Apart(Rows, Live)
         /\ TurnsAreKnown => Serves(Rows, Live)
  <1>1. PICK rows \in [SUBSET Live -> RowsState] : BoundInOrder(rows) /\ Rows = rows[Live]
    BY RowsAreBound
  <1> DEFINE G == {ps \in SUBSET Live :
                     /\ Apart(rows[ps], ps)
                     /\ TurnsAreKnown /\ ComeFirst(ps) => Serves(rows[ps], ps)}
             none == [p \in Pids |-> NoOne]
  <1>2. {} \in G
    <2>1. rows[{}] = none
      BY <1>1 DEF BoundInOrder
    <2>2. Apart(none, {})
      BY DEF Apart
    <2>3. TurnsAreKnown => Serves(none, {})
      BY ServesAtFirst
    <2> QED BY <2>1, <2>2, <2>3
  <1>3. ASSUME NEW ps \in SUBSET Live, ps # {}, ps \ {LiveLast[ps]} \in G
        PROVE  ps \in G
    <2> DEFINE p == LastOf(ps)
               fewer == ps \ {p}
    <2>1. p \in ps /\ p \in Live /\ p \in Pids /\ \A q \in fewer : Before(q, p)
      BY <1>3, SomeIsLast DEF Live
    <2>2. LiveLast[ps] = p
      BY <1>3 DEF LiveLast
    <2> HIDE DEF p
    <2>3. rows[ps] = Bind(p, rows[fewer])
      BY <1>1, <1>3 DEF BoundInOrder, p
    <2>4. fewer \in SUBSET Live /\ p \notin fewer /\ ps = fewer \union {p}
          /\ rows[fewer] \in RowsState
      BY <1>1, <2>1
    <2>5. /\ Apart(rows[fewer], fewer)
          /\ TurnsAreKnown /\ ComeFirst(fewer) => Serves(rows[fewer], fewer)
      BY <1>3, <2>2
    <2> HIDE DEF fewer, G
    <2>6. Apart(rows[ps], ps)
      BY <2>1, <2>3, <2>4, <2>5, BindKeepsApart
    <2>7. ASSUME TurnsAreKnown, ComeFirst(ps) PROVE Serves(rows[ps], ps)
      <3>1. ComeFirst(fewer)
        BY <2>1, <2>4, <2>7 DEF ComeFirst
      <3>2. \A q \in Live \ (fewer \union {p}) : Before(p, q)
        BY <2>1, <2>4, <2>7 DEF ComeFirst
      <3>3. rows[fewer][p] = NoOne
        BY <2>1, <2>4, <2>5 DEF Apart
      <3> QED BY <2>1, <2>3, <2>4, <2>5, <2>7, <3>1, <3>2, <3>3, BindServes
    <2> QED BY <2>6, <2>7 DEF G
  <1>4. \A ps \in SUBSET Live : ps \in G
    <2> HIDE DEF G
    <2> QED BY <1>2, <1>3, LastIsPicked, RemovalInduction
  <1>5. ComeFirst(Live)
    BY DEF ComeFirst
  <1>6. Live \in G
    BY <1>4
  <1> QED BY <1>1, <1>5, <1>6

\* No conversation is on two rows, and if every open turn has a live process
\* and every name that is an open turn is the process's own, every open turn is
\* on a row (_opencode_state_for_root over the processes in its order), for
\* every number of processes and conversations.
THEOREM NoOpenTurnIsHidden == RowsSpec => []OpenTurnsAreBound
  <1>1. BindingInv => OpenTurnsAreBound
    <2> SUFFICES ASSUME BindingInv PROVE OpenTurnsAreBound
      OBVIOUS
    <2>1. Rows \in RowsState /\ Apart(Rows, Live) /\ (TurnsAreKnown => Serves(Rows, Live))
      BY RowsAreRight
    <2>2. \A p, q \in Live : p # q /\ Rows[p] # NoOne => Rows[p] # Rows[q]
      BY <2>1 DEF Apart, Live
    <2>3. ASSUME TurnsAreKnown, NEW c \in Recorded, IsOpen(c)
          PROVE  /\ \E p \in Live : Rows[p] = c
                 /\ process[conversation[c].worker].anchor = c => Rows[conversation[c].worker] = c
      <3>1. PICK g : Plans(g, Rows, Live \ Live)
        BY <2>1, <2>3 DEF Serves
      <3>2. c \notin Unshown(Rows)
        BY <3>1 DEF Plans
      <3>3. PICK p \in Pids : Rows[p] = c
        BY <2>3, <3>2 DEF Unshown
      <3>4. c # NoOne
        BY RowsAssumption DEF Recorded, Conversations
      <3>5. p \in Live
        BY <2>1, <3>3, <3>4 DEF Apart
      <3>6. conversation[c].worker \in Live
        BY <2>3 DEF TurnsAreKnown, Abandoned
      <3>7. ASSUME process[conversation[c].worker].anchor = c PROVE Rows[conversation[c].worker] = c
        BY <2>1, <2>3, <3>6, <3>7 DEF Serves, OpenAnchor
      <3> QED BY <3>3, <3>5, <3>7
    <2> QED BY <2>2, <2>3 DEF OpenTurnsAreBound, TurnsAreKnown
  <1>2. RowsInit => BindingInv
    BY RowsInitially, TimesInitially DEF BindingInv
  <1>3. BindingInv /\ [RowsNext]_rowsVars => BindingInv'
    BY RowsInvKept, TimesKept DEF BindingInv
  <1> QED BY <1>1, <1>2, <1>3, PTL DEF RowsSpec
=============================================================================
