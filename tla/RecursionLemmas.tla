--------------------------- MODULE RecursionLemmas ---------------------------
(* What recursive definitions over numbers and finite sets need to be       *)
(* reasoned about: that the function they ask for exists.  The inductions   *)
(* are over the least counterexample.                                       *)
EXTENDS Naturals, FiniteSetTheorems, WellFoundedInduction, TLAPS

-----------------------------------------------------------------------------
(* Extreme numbers, and iteration                                          *)

LEMMA LeastNatural ==
  ASSUME NEW T, T \subseteq Nat, T # {}
  PROVE  \E n \in T : \A m \in T : n <= m
<1>1. PICK n \in T : \A m \in T : ~(<<m, n>> \in OpToRel(<, Nat))
  BY WFMin, NatLessThanWellFounded
<1>2. ASSUME NEW m \in T PROVE n <= m
  <2>1. ~(m < n)
    BY <1>1 DEF OpToRel
  <2>2. QED
    BY <2>1
<1>3. QED
  BY <1>2

\* A bounded set of numbers has a greatest element.
LEMMA GreatestNatural ==
  ASSUME NEW T, T \subseteq Nat, T # {}, NEW b \in Nat, \A n \in T : n <= b
  PROVE  \E n \in T : \A m \in T : m <= n
<1> DEFINE D == {b - n : n \in T}
<1>1. D \subseteq Nat /\ D # {}
  <2>1. ASSUME NEW n \in T PROVE b - n \in Nat
    OBVIOUS
  <2>2. QED
    BY <2>1
<1>2. PICK d \in D : \A e \in D : d <= e
  BY <1>1, LeastNatural
<1>3. PICK n \in T : d = b - n
  BY <1>2
<1>4. ASSUME NEW m \in T PROVE m <= n
  BY <1>2, <1>3
<1>5. QED
  BY <1>4

\* Up from 0, one by one.
LEMMA UpwardInduction ==
  ASSUME NEW N \in Nat, NEW G, 0 \in G, \A n \in 1 .. N : n - 1 \in G => n \in G
  PROVE  \A n \in 0 .. N : n \in G
<1> DEFINE Missed == {n \in 0 .. N : n \notin G}
<1> SUFFICES ASSUME Missed # {} PROVE FALSE
  OBVIOUS
<1>1. PICK n \in Missed : \A m \in Missed : n <= m
  <2>1. Missed \subseteq Nat
    OBVIOUS
  <2> HIDE DEF Missed
  <2>2. QED
    BY <2>1, LeastNatural
<1>2. n \in 1 .. N /\ n - 1 \in 0 .. N /\ n - 1 \notin Missed
  BY <1>1
<1>3. QED
  BY <1>1, <1>2

Steps(V, N) == [V \X (1 .. N) -> V]
Iterates(f, V, first, N, step) ==
  /\ f \in [0 .. N -> V]
  /\ \A n \in 0 .. N : f[n] = IF n = 0 THEN first ELSE step[<<f[n - 1], n>>]

\* What is applied again and again to a first value gives a function of the
\* number of times: the function that a recursive definition asks for exists.
LEMMA IteratesExist ==
  ASSUME NEW V, NEW first \in V, NEW N \in Nat, NEW step \in Steps(V, N)
  PROVE  \E f : Iterates(f, V, first, N, step)
<1> USE DEF Steps
<1> DEFINE Reached(n) ==
      \E f \in [0 .. n -> V] :
        f = [k \in 0 .. n |-> IF k = 0 THEN first ELSE step[<<f[k - 1], k>>]]
    Missed == {n \in 0 .. N : ~Reached(n)}
<1>1. Reached(0)
  <2>1. [k \in 0 .. 0 |-> first] \in [0 .. 0 -> V]
    OBVIOUS
  <2>2. [k \in 0 .. 0 |-> first]
          = [k \in 0 .. 0 |-> IF k = 0 THEN first ELSE step[<<[l \in 0 .. 0 |-> first][k - 1], k>>]]
    OBVIOUS
  <2>3. QED
    BY <2>1, <2>2
<1>2. ASSUME NEW n \in 0 .. N, n # 0, Reached(n - 1)
      PROVE  Reached(n)
  <2>1. PICK f \in [0 .. n - 1 -> V] :
          f = [k \in 0 .. n - 1 |-> IF k = 0 THEN first ELSE step[<<f[k - 1], k>>]]
    BY <1>2
  <2> DEFINE last == step[<<f[n - 1], n>>]
             g == [k \in 0 .. n |-> IF k = n THEN last ELSE f[k]]
  <2>2. last \in V
    BY <1>2
  <2>3. g \in [0 .. n -> V]
    BY <1>2, <2>2
  <2>4. ASSUME NEW k \in 0 .. n
        PROVE  g[k] = IF k = 0 THEN first ELSE step[<<g[k - 1], k>>]
    <3>1. CASE k = n
      <4>1. n - 1 \in 0 .. n /\ n - 1 # n /\ n \in 0 .. n
        BY <1>2
      <4>2. g[n - 1] = f[n - 1] /\ g[n] = last
        BY <4>1
      <4>3. QED
        BY <1>2, <3>1, <4>2
    <3>2. CASE k # n
      <4>1. k \in 0 .. n - 1 /\ g[k] = f[k] /\ (k # 0 => g[k - 1] = f[k - 1])
        BY <3>2
      <4>2. f[k] = IF k = 0 THEN first ELSE step[<<f[k - 1], k>>]
        BY <2>1, <4>1
      <4>3. QED
        BY <4>1, <4>2
    <3>3. QED
      BY <3>1, <3>2
  <2>5. g = [k \in 0 .. n |-> IF k = 0 THEN first ELSE step[<<g[k - 1], k>>]]
    BY <2>4
  <2>6. QED
    BY <2>3, <2>5
<1> HIDE DEF Reached
<1>3. Missed = {}
  <2> SUFFICES ASSUME Missed # {} PROVE FALSE
    OBVIOUS
  <2>1. PICK n \in Missed : \A m \in Missed : n <= m
    <3>1. Missed \subseteq Nat
      OBVIOUS
    <3> HIDE DEF Missed
    <3>2. QED
      BY <3>1, LeastNatural
  <2>2. n # 0 /\ n - 1 \in 0 .. N /\ n - 1 \notin Missed
    BY <1>1, <2>1
  <2>3. QED
    BY <1>2, <2>1, <2>2
<1>4. Reached(N)
  BY <1>3
<1>5. QED
  BY <1>4 DEF Reached, Iterates

-----------------------------------------------------------------------------
(* Folds over the elements of a finite set                                 *)

\* A way to pick an element of each nonempty set.
Picks(S) == {pick \in [SUBSET S -> S \union {{}}] : \A T \in (SUBSET S) \ {{}} : pick[T] \in T}

Folds(fold, S, V, base, pick, step) ==
  /\ fold \in [SUBSET S -> V]
  /\ \A T \in SUBSET S :
       fold[T] = IF T = {} THEN base ELSE step[<<pick[T], fold[T \ {pick[T]}]>>]

FoldSteps(S, V) == [S \X V -> V]

\* The fold that picks one element after the other exists.
LEMMA FoldExists ==
  ASSUME NEW S, IsFiniteSet(S), NEW V, NEW base \in V,
         NEW pick \in Picks(S), NEW step \in FoldSteps(S, V)
  PROVE  \E fold : Folds(fold, S, V, base, pick, step)
<1> DEFINE N == Cardinality(S)
           Partial == [SUBSET S -> V]
           first == [T \in SUBSET S |-> base]
           Longer(g) == [T \in SUBSET S |->
                           IF T = {} THEN base ELSE step[<<pick[T], g[T \ {pick[T]}]>>]]
           longer == [x \in Partial \X (1 .. N) |-> Longer(x[1])]
<1>1. N \in Nat
  BY FS_CardinalityType
<1>2. ASSUME NEW T \in SUBSET S, T # {}
      PROVE  /\ pick[T] \in T /\ pick[T] \in S /\ T \ {pick[T]} \in SUBSET S
             /\ Cardinality(T) \in 1 .. N
             /\ Cardinality(T \ {pick[T]}) = Cardinality(T) - 1
  <2>1. pick[T] \in T
    BY <1>2 DEF Picks
  <2>2. IsFiniteSet(T) /\ Cardinality(T) <= N
    BY FS_Subset
  <2>3. Cardinality(T) \in Nat /\ Cardinality(T) # 0
    BY <1>2, <2>2, FS_CardinalityType, FS_EmptySet
  <2>4. Cardinality(T \ {pick[T]}) = Cardinality(T) - 1
    BY <2>1, <2>2, FS_RemoveElement
  <2>5. QED
    BY <1>1, <2>1, <2>2, <2>3, <2>4
<1>3. first \in Partial
  OBVIOUS
<1>4. ASSUME NEW g \in Partial PROVE Longer(g) \in Partial
  <2>1. ASSUME NEW T \in SUBSET S, T # {}
        PROVE  step[<<pick[T], g[T \ {pick[T]}]>>] \in V
    BY <1>2, <2>1 DEF FoldSteps
  <2>2. QED
    BY <2>1
<1> HIDE DEF Longer
<1>5. longer \in Steps(Partial, N)
  BY <1>4 DEF Steps
<1>6. PICK f : Iterates(f, Partial, first, N, longer)
  <2> HIDE DEF first, longer, Partial, N
  <2>1. QED
    BY <1>1, <1>3, <1>5, IteratesExist
<1>7. /\ f[0] = first
      /\ \A n \in 0 .. N : f[n] \in Partial
      /\ \A n \in 1 .. N : f[n] = Longer(f[n - 1])
  <2>1. \A n \in 0 .. N : f[n] \in Partial
    BY <1>6 DEF Iterates
  <2>2. f[0] = first
    <3>1. 0 \in 0 .. N
      BY <1>1
    <3> HIDE DEF first, longer, Partial, N
    <3>2. QED
      BY <1>6, <3>1 DEF Iterates
  <2>3. ASSUME NEW n \in 1 .. N PROVE f[n] = Longer(f[n - 1])
    <3>1. n \in 0 .. N /\ n - 1 \in 0 .. N /\ n # 0
      BY <1>1
    <3>2. f[n] = longer[<<f[n - 1], n>>]
      BY <1>6, <3>1 DEF Iterates
    <3>3. <<f[n - 1], n>> \in Partial \X (1 .. N)
      BY <2>1, <3>1
    <3>4. QED
      BY <3>2, <3>3
  <2>4. QED
    BY <2>1, <2>2, <2>3
<1> HIDE DEF longer
<1> DEFINE Same(n) == \A T \in SUBSET S : Cardinality(T) < n => f[n][T] = f[n - 1][T]
           Bad == {n \in 1 .. N : ~Same(n)}
\* Of a set smaller than n the n-th round no longer changes the value.
<1>8. \A n \in 1 .. N : Same(n)
  <2> SUFFICES ASSUME Bad # {} PROVE FALSE
    OBVIOUS
  <2>1. PICK n \in Bad : \A m \in Bad : n <= m
    <3>1. Bad \subseteq Nat
      BY <1>1
    <3> HIDE DEF Bad
    <3>2. QED
      BY <3>1, LeastNatural
  <2>2. n \in 1 .. N /\ n \in Nat
    BY <1>1, <2>1
  <2>3. PICK T \in SUBSET S : Cardinality(T) < n /\ f[n][T] # f[n - 1][T]
    BY <2>1
  <2>4. f[n] = Longer(f[n - 1])
    BY <1>7, <2>2
  <2>5. CASE T = {}
    <3>1. f[n][T] = base
      BY <2>4, <2>5 DEF Longer
    <3>2. f[n - 1][T] = base
      <4>1. CASE n = 1
        BY <1>7, <4>1, <2>5
      <4>2. CASE n # 1
        <5>1. n - 1 \in 1 .. N
          BY <1>1, <2>2, <4>2
        <5>2. f[n - 1] = Longer(f[n - 1 - 1])
          BY <1>7, <5>1
        <5>3. QED
          BY <2>5, <5>2 DEF Longer
      <4>3. QED
        BY <4>1, <4>2
    <3>3. QED
      BY <2>3, <3>1, <3>2
  <2>6. CASE T # {}
    <3> DEFINE U == T \ {pick[T]}
    <3>1. U \in SUBSET S /\ Cardinality(U) = Cardinality(T) - 1 /\ Cardinality(T) \in 1 .. N
      BY <1>2, <2>6
    <3>2. n - 1 \in 1 .. N /\ n - 1 \notin Bad /\ Cardinality(U) < n - 1
      BY <1>1, <2>1, <2>2, <2>3, <3>1
    <3>3. f[n - 1] = Longer(f[n - 1 - 1])
      BY <1>7, <3>2
    <3>4. f[n - 1][U] = f[n - 1 - 1][U]
      BY <3>1, <3>2
    <3>5. /\ f[n][T] = step[<<pick[T], f[n - 1][U]>>]
          /\ f[n - 1][T] = step[<<pick[T], f[n - 1 - 1][U]>>]
      BY <2>4, <2>6, <3>3 DEF Longer
    <3>6. QED
      BY <2>3, <3>4, <3>5
  <2>7. QED
    BY <2>5, <2>6
<1>9. ASSUME NEW T \in SUBSET S
      PROVE  f[N][T] = IF T = {} THEN base ELSE step[<<pick[T], f[N][T \ {pick[T]}]>>]
  <2>1. CASE N = 0
    <3>1. T = {}
      BY <1>2, <2>1
    <3>2. QED
      BY <1>7, <2>1, <3>1
  <2>2. CASE N # 0
    <3>1. N \in 1 .. N
      BY <1>1, <2>2
    <3>2. f[N] = Longer(f[N - 1])
      BY <1>7, <3>1
    <3>3. CASE T = {}
      BY <3>2, <3>3 DEF Longer
    <3>4. CASE T # {}
      <4> DEFINE U == T \ {pick[T]}
      <4>1. U \in SUBSET S /\ Cardinality(U) < N
        <5>1. /\ Cardinality(U) = Cardinality(T) - 1 /\ Cardinality(T) \in 1 .. N
              /\ U \in SUBSET S
          BY <1>2, <3>4
        <5>2. QED
          BY <1>1, <5>1
      <4>2. f[N][U] = f[N - 1][U]
        BY <1>8, <3>1, <4>1
      <4>3. f[N][T] = step[<<pick[T], f[N - 1][U]>>]
        BY <3>2, <3>4 DEF Longer
      <4>4. QED
        BY <3>4, <4>2, <4>3
    <3>5. QED
      BY <3>3, <3>4
  <2>3. QED
    BY <2>1, <2>2
<1>10. f[N] \in Partial
  <2>1. N \in 0 .. N
    BY <1>1
  <2>2. QED
    BY <1>7, <2>1
<1>11. Folds(f[N], S, V, base, pick, step)
  BY <1>9, <1>10 DEF Folds
<1>12. QED
  BY <1>11

\* What holds of the empty set, and of a set if it holds of what the pick
\* leaves of it, holds of every subset of a finite set.
LEMMA RemovalInduction ==
  ASSUME NEW S, IsFiniteSet(S), NEW pick \in Picks(S), NEW G, {} \in G,
         \A T \in SUBSET S : T # {} /\ T \ {pick[T]} \in G => T \in G
  PROVE  \A T \in SUBSET S : T \in G
<1> DEFINE sizes == {Cardinality(T) : T \in {T \in SUBSET S : T \notin G}}
<1>1. ASSUME NEW T \in SUBSET S PROVE IsFiniteSet(T) /\ Cardinality(T) \in Nat
  BY FS_Subset, FS_CardinalityType
<1>2. SUFFICES ASSUME sizes # {} PROVE FALSE
  OBVIOUS
<1>3. sizes \subseteq Nat
  BY <1>1
<1>4. PICK m \in sizes : \A l \in sizes : m <= l
  <2> HIDE DEF sizes
  <2>1. QED
    BY <1>2, <1>3, LeastNatural
<1>5. PICK T \in SUBSET S : T \notin G /\ Cardinality(T) = m
  BY <1>4
<1>6. T # {} /\ pick[T] \in T
  BY <1>5 DEF Picks
<1>7. T \ {pick[T]} \in SUBSET S /\ Cardinality(T \ {pick[T]}) = Cardinality(T) - 1
  BY <1>1, <1>6, FS_RemoveElement
<1>8. Cardinality(T \ {pick[T]}) \notin sizes
  BY <1>1, <1>3, <1>4, <1>5, <1>7
<1>9. QED
  BY <1>5, <1>6, <1>7, <1>8

==============================================================================
