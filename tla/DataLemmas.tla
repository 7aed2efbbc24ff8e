----------------------------- MODULE DataLemmas -----------------------------
(***************************************************************************)
(* Facts about numbers, sequences and folds that the proofs of this        *)
(* project share.  Induction is stated over sets, not predicates: a set    *)
(* can be named in a proof where an operator could not be passed.          *)
(***************************************************************************)
EXTENDS Integers, Sequences, SequencesExt, FiniteSetsExt,
        FiniteSetTheorems, SequenceTheorems, TLAPS

-----------------------------------------------------------------------------
(* Numbers *)

\* Every nonempty set of naturals has a least element: the intervals 0 .. x are
\* finite, and strict inclusion of finite sets is well founded.
LEMMA LeastNatural ==
    ASSUME NEW T, T \subseteq Nat, T # {}
    PROVE  \E x \in T : \A y \in T : x <= y
<1> DEFINE Down == {0 .. x : x \in T}
           R == StrictSubsetOrdering(Nat)
<1>1. Down \subseteq FiniteSubsetsOf(Nat)
  <2> SUFFICES ASSUME NEW x \in T PROVE 0 .. x \in FiniteSubsetsOf(Nat)
    OBVIOUS
  <2>1. IsFiniteSet(0 .. x)
    BY FS_Interval
  <2> QED BY <2>1 DEF FiniteSubsetsOf
<1>2. Down # {}
  OBVIOUS
<1>3. IsWellFoundedOn(R, FiniteSubsetsOf(Nat))
  BY FS_StrictSubsetOrderingWellFounded
<1> HIDE DEF R
<1>4. \E S \in Down : \A U \in Down : <<U, S>> \notin R
  <2> HIDE DEF Down
  <2> QED BY <1>1, <1>2, <1>3, WFMin
<1>5. PICK x \in T : \A U \in Down : <<U, 0 .. x>> \notin R
  BY <1>4
<1>6. ASSUME NEW y \in T, y < x PROVE FALSE
  <2>1. <<0 .. y, 0 .. x>> \notin R
    BY <1>5
  <2>2. /\ 0 .. y \subseteq 0 .. x /\ 0 .. y # 0 .. x
        /\ 0 .. y \in SUBSET Nat /\ 0 .. x \in SUBSET Nat
    <3>1. x \in 0 .. x /\ x \notin 0 .. y
      BY <1>6
    <3> QED BY <3>1, <1>6
  <2> QED BY <2>1, <2>2 DEF R, StrictSubsetOrdering
<1>7. WITNESS x \in T
<1> QED BY <1>6

\* Induction on the naturals.
LEMMA SetInduction ==
    ASSUME NEW S, 0 \in S, \A n \in Nat : n \in S => n + 1 \in S
    PROVE  Nat \subseteq S
<1> SUFFICES ASSUME Nat \ S # {} PROVE FALSE
  OBVIOUS
<1>1. PICK x \in Nat \ S : \A y \in Nat \ S : x <= y
  <2> DEFINE T == Nat \ S
  <2>1. T \subseteq Nat /\ T # {}
    OBVIOUS
  <2> HIDE DEF T
  <2>2. \E x \in T : \A y \in T : x <= y
    BY <2>1, LeastNatural
  <2> QED BY <2>2 DEF T
<1>2. x # 0
  BY <1>1
<1>3. x - 1 \in Nat /\ x - 1 \in S
  BY <1>1, <1>2
<1> QED BY <1>1, <1>3

\* The least and the greatest element of a nonempty set of bounded naturals.
LEMMA MinProperties ==
    ASSUME NEW T, T \subseteq Nat, T # {}
    PROVE  Min(T) \in T /\ \A y \in T : Min(T) <= y
<1>1. \E x \in T : \A y \in T : x <= y
  BY LeastNatural
<1> QED BY <1>1 DEF Min

\* The greatest element, likewise.
LEMMA MaxProperties ==
    ASSUME NEW n \in Nat, NEW T, T \subseteq 0 .. n, T # {}
    PROVE  Max(T) \in T /\ \A y \in T : Max(T) >= y
<1> DEFINE U == {n - x : x \in T}
<1>1. U \subseteq Nat /\ U # {}
  <2>1. \A x \in T : n - x \in Nat
    OBVIOUS
  <2> QED BY <2>1
<1>2. PICK u \in U : \A y \in U : u <= y
  <2> HIDE DEF U
  <2> QED BY <1>1, LeastNatural
<1>3. PICK x \in T : u = n - x
  BY <1>2
<1>4. ASSUME NEW y \in T PROVE x >= y
  <2>1. n - y \in U
    OBVIOUS
  <2>2. n - x <= n - y
    BY <1>2, <1>3, <2>1
  <2>3. x \in Nat /\ y \in Nat
    OBVIOUS
  <2> QED BY <2>2, <2>3
<1> QED BY <1>4 DEF Max

\* The greatest element of an interval from 1.
LEMMA MaxOfInterval ==
    ASSUME NEW k \in Nat \ {0}
    PROVE  Max(1 .. k) = k
<1>1. 1 .. k \subseteq 0 .. k /\ 1 .. k # {} /\ k \in 1 .. k
  OBVIOUS
<1>2. Max(1 .. k) \in 1 .. k /\ Max(1 .. k) >= k
  BY <1>1, MaxProperties
<1> QED BY <1>2

-----------------------------------------------------------------------------
(* Sequences *)

\* A sequence over any set is one over the set of its elements.
LEMMA OverItsRange ==
    ASSUME NEW S, NEW s \in Seq(S)
    PROVE  s \in Seq(Range(s))
<1>1. s \in [1 .. Len(s) -> S] /\ Len(s) \in Nat
  BY LenProperties
<1>2. s \in [1 .. Len(s) -> Range(s)]
  BY <1>1 DEF Range
<1> QED BY <1>1, <1>2, SeqDef

\* The first k elements.
LEMMA InitialSegment ==
    ASSUME NEW S, NEW s \in Seq(S), NEW k \in Nat, k <= Len(s)
    PROVE  /\ SubSeq(s, 1, k) \in Seq(S)
           /\ Len(SubSeq(s, 1, k)) = k
           /\ \A i \in 1 .. k : SubSeq(s, 1, k)[i] = s[i]
<1>1. Len(s) \in Nat
  BY LenProperties
<1>2. \A i \in 1 .. k : s[i] \in S
  BY <1>1, ElementOfSeq
<1>3. /\ SubSeq(s, 1, k) \in Seq(S)
      /\ Len(SubSeq(s, 1, k)) = IF 1 <= k THEN k - 1 + 1 ELSE 0
      /\ \A i \in 1 .. k - 1 + 1 : SubSeq(s, 1, k)[i] = s[1 + i - 1]
  BY <1>2, SubSeqProperties
<1> QED BY <1>3

\* What a prefix is.
LEMMA PrefixIs ==
    ASSUME NEW S, NEW s \in Seq(S), NEW T, NEW t \in Seq(T)
    PROVE  IsPrefix(s, t) <=> /\ Len(s) <= Len(t)
                              /\ \A i \in 1 .. Len(s) : s[i] = t[i]
<1> DEFINE a == SubSeq(s, 1, Len(s))
           b == SubSeq(t, 1, Len(s))
<1>1. Len(s) \in Nat /\ Len(t) \in Nat
  BY LenProperties
<1>2. CASE Len(s) <= Len(t)
  <2>1. /\ a \in Seq(S) /\ Len(a) = Len(s)
        /\ \A i \in 1 .. Len(s) : a[i] = s[i]
    BY <1>1, InitialSegment
  <2>2. /\ b \in Seq(T) /\ Len(b) = Len(s)
        /\ \A i \in 1 .. Len(s) : b[i] = t[i]
    BY <1>1, <1>2, InitialSegment
  <2> HIDE DEF a, b
  <2>3. (\A i \in 1 .. Len(s) : s[i] = t[i]) => a = b
    <3> SUFFICES ASSUME \A i \in 1 .. Len(s) : s[i] = t[i] PROVE a = b
      OBVIOUS
    <3>1. a \in Seq(S \cup T) /\ b \in Seq(S \cup T)
      BY <2>1, <2>2, SeqMonotonic
    <3> QED BY <2>1, <2>2, <3>1, SeqEqual
  <2>4. a = b => \A i \in 1 .. Len(s) : s[i] = t[i]
    BY <2>1, <2>2
  <2> QED BY <1>2, <2>3, <2>4 DEF IsPrefix, a, b
<1> QED BY <1>2 DEF IsPrefix

\* Appending a block to a chain: length, ends and front.
LEMMA AppendChain ==
    ASSUME NEW S, NEW s \in Seq(S), NEW e
    PROVE  /\ Append(s, e) \in Seq(Range(Append(s, e)))
           /\ Len(Append(s, e)) = Len(s) + 1
           /\ Last(Append(s, e)) = e
           /\ Front(Append(s, e)) = s
           /\ \A i \in 1 .. Len(s) : Append(s, e)[i] = s[i]
<1> DEFINE T == S \cup {e}
           c == Append(s, e)
<1>1. s \in Seq(T) /\ e \in T
  BY SeqMonotonic
<1>2. /\ c \in Seq(T)
      /\ Len(c) = Len(s) + 1
      /\ \A i \in 1 .. Len(s) : c[i] = s[i]
      /\ c[Len(s) + 1] = e
  BY <1>1, AppendProperties
<1>3. Len(s) \in Nat
  BY LenProperties
<1>4. c \in Seq(Range(c))
  <2>1. c \in [1 .. Len(c) -> T] /\ Len(c) \in Nat
    BY <1>2, LenProperties
  <2>2. c \in [1 .. Len(c) -> Range(c)]
    BY <2>1 DEF Range
  <2> QED BY <2>1, <2>2, SeqDef
<1>5. Last(c) = e
  BY <1>2, <1>3 DEF Last
<1>6. Front(c) = s
  <2>1. Front(c) = SubSeq(c, 1, Len(s))
    BY <1>2, <1>3 DEF Front
  <2>2. /\ SubSeq(c, 1, Len(s)) \in Seq(T)
        /\ Len(SubSeq(c, 1, Len(s))) = Len(s)
        /\ \A i \in 1 .. Len(s) : SubSeq(c, 1, Len(s))[i] = s[i]
    <3>1. \A i \in 1 .. Len(s) : c[i] \in T
      BY <1>1, <1>2, ElementOfSeq
    <3>2. /\ SubSeq(c, 1, Len(s)) \in Seq(T)
          /\ Len(SubSeq(c, 1, Len(s)))
                = IF 1 <= Len(s) THEN Len(s) - 1 + 1 ELSE 0
          /\ \A i \in 1 .. Len(s) - 1 + 1 : SubSeq(c, 1, Len(s))[i] = c[1 + i - 1]
      BY <3>1, <1>3, SubSeqProperties
    <3> QED BY <3>2, <1>2, <1>3
  <2> QED BY <2>1, <2>2, <1>1, SeqEqual
<1> QED BY <1>2, <1>4, <1>5, <1>6

-----------------------------------------------------------------------------
(* Folds *)

\* How FoldLeft goes through a sequence of n elements: f gives the result for a
\* set of positions, g[i] what the element at i does to a result.
FoldsTo(n, base, g, f) ==
    f = [s \in SUBSET (1 .. n) |-> IF s = {} THEN base
                                   ELSE g[Max(s)][f[s \ {Max(s)}]]]

\* The recursive function behind a fold over positions exists.
LEMMA FoldExists ==
    ASSUME NEW N \in Nat, NEW V, NEW base \in V, NEW g \in [1 .. N -> [V -> V]]
    PROVE  \E f \in [SUBSET (1 .. N) -> V] : FoldsTo(N, base, g, f)
<1> DEFINE S == {n \in Nat : n <= N => \E f \in [SUBSET (1 .. n) -> V] :
                                              FoldsTo(n, base, g, f)}
<1>0. \A n \in Nat : n \in S <=> (n <= N => \E f \in [SUBSET (1 .. n) -> V] :
                                                 FoldsTo(n, base, g, f))
  BY Zenon
<1> HIDE DEF S
<1>1. 0 \in S
  <2> DEFINE f == [s \in SUBSET (1 .. 0) |-> base]
  <2>1. f \in [SUBSET (1 .. 0) -> V]
    OBVIOUS
  <2>2. \A s \in SUBSET (1 .. 0) : s = {}
    OBVIOUS
  <2>3. FoldsTo(0, base, g, f)
    BY <2>2 DEF FoldsTo
  <2> QED BY <1>0, <2>1, <2>3
<1>2. ASSUME NEW n \in Nat, n \in S
      PROVE  n + 1 \in S
  <2> SUFFICES ASSUME n + 1 <= N
               PROVE  \E f \in [SUBSET (1 .. n + 1) -> V] : FoldsTo(n + 1, base, g, f)
    <3>1. n + 1 \in Nat
      OBVIOUS
    <3> QED BY <1>0, <3>1, Zenon
  <2>0. n <= N
    OBVIOUS
  <2>1. PICK f \in [SUBSET (1 .. n) -> V] : FoldsTo(n, base, g, f)
    BY <1>0, <1>2, <2>0, Zenon
  <2> DEFINE h == [s \in SUBSET (1 .. n + 1) |->
                      IF n + 1 \in s THEN g[n + 1][f[s \ {n + 1}]] ELSE f[s]]
  <2>2. g[n + 1] \in [V -> V]
    OBVIOUS
  <2>3. ASSUME NEW s \in SUBSET (1 .. n + 1)
        PROVE  /\ h[s] \in V
               /\ h[s] = IF s = {} THEN base ELSE g[Max(s)][h[s \ {Max(s)}]]
    <3>1. CASE n + 1 \in s
      <4>1. Max(s) = n + 1
        <5>1. s \subseteq 0 .. n + 1 /\ s # {} /\ n + 1 \in Nat
          BY <3>1
        <5>2. Max(s) \in s /\ \A y \in s : Max(s) >= y
          BY <5>1, MaxProperties
        <5>3. Max(s) \in 1 .. n + 1 /\ Max(s) >= n + 1
          BY <3>1, <5>2
        <5> QED BY <5>3
      <4>2. s \ {n + 1} \in SUBSET (1 .. n) /\ s \ {n + 1} \in SUBSET (1 .. n + 1)
        OBVIOUS
      <4>3. f[s \ {n + 1}] \in V /\ h[s \ {n + 1}] = f[s \ {n + 1}]
        BY <4>2
      <4> QED BY <3>1, <4>1, <4>3, <2>2
    <3>2. CASE n + 1 \notin s
      <4>1. s \in SUBSET (1 .. n)
        BY <3>2
      <4>2. f[s] = IF s = {} THEN base ELSE g[Max(s)][f[s \ {Max(s)}]]
        BY <2>1, <4>1 DEF FoldsTo
      <4>3. h[s] = f[s] /\ h[s] \in V
        BY <3>2, <4>1
      <4>4. s \ {Max(s)} \in SUBSET (1 .. n + 1) /\ n + 1 \notin s \ {Max(s)}
        BY <3>2
      <4> QED BY <4>2, <4>3, <4>4
    <3> QED BY <3>1, <3>2
  <2>4. h \in [SUBSET (1 .. n + 1) -> V]
    BY <2>3
  <2>5. FoldsTo(n + 1, base, g, h)
    <3> HIDE DEF h
    <3> QED BY <2>3, <2>4 DEF FoldsTo
  <2> QED BY <2>4, <2>5
<1>3. N \in S
  BY <1>1, <1>2, SetInduction
<1>4. N <= N
  OBVIOUS
<1> QED BY <1>0, <1>3, <1>4, Zenon

\* FoldLeft takes the last position away each time, so it goes through the
\* initial segments of the positions.
LEMMA Segments ==
    ASSUME NEW n \in Nat, NEW k \in 1 .. n
    PROVE  /\ 1 .. k \in SUBSET (1 .. n) /\ 1 .. k # {}
           /\ (1 .. k) \ {Max(1 .. k)} = 1 .. k - 1
           /\ Max(1 .. k) = k
<1>1. k \in Nat \ {0}
  OBVIOUS
<1>2. Max(1 .. k) = k
  BY <1>1, MaxOfInterval
<1>3. (1 .. k) \ {k} = 1 .. k - 1
  OBVIOUS
<1> QED BY <1>1, <1>2, <1>3

\* r[k] is the result for the first k elements.
Runs(n, base, g, r) ==
    /\ r[0] = base
    /\ \A k \in 1 .. n : r[k] = g[k][r[k - 1]]

\* it goes by g as long as its results are in V.
GoesBy(n, V, g, it) ==
    \A k \in 1 .. n : it[1 .. k - 1] \in V => it[1 .. k] = g[k][it[1 .. k - 1]]

\* Then the results for the initial segments come each from the one before it,
\* and none leaves V.
LEMMA FoldRuns ==
    ASSUME NEW n \in Nat, NEW V, NEW base \in V, NEW g \in [1 .. n -> [V -> V]],
           NEW it, it[{}] = base, GoesBy(n, V, g, it)
    PROVE  \E r \in [0 .. n -> V] : Runs(n, base, g, r) /\ r[n] = it[1 .. n]
<1> DEFINE S == {j \in Nat : j <= n => it[1 .. j] \in V}
           r == [j \in 0 .. n |-> it[1 .. j]]
<1>1. it[1 .. 0] = base
  <2>1. 1 .. 0 = {}
    OBVIOUS
  <2> QED BY <2>1
<1>2. 0 \in S
  BY <1>1
<1>3. ASSUME NEW j \in Nat, j \in S
      PROVE  j + 1 \in S
  <2> SUFFICES ASSUME j + 1 <= n PROVE it[1 .. j + 1] \in V
    OBVIOUS
  <2>1. it[1 .. j] \in V
    BY <1>3
  <2>2. j + 1 \in 1 .. n /\ (j + 1) - 1 = j
    OBVIOUS
  <2>3. it[1 .. j + 1] = g[j + 1][it[1 .. j]]
    BY <2>1, <2>2 DEF GoesBy
  <2> QED BY <2>1, <2>2, <2>3
<1> HIDE DEF S
<1>4. Nat \subseteq S
  BY <1>2, <1>3, SetInduction
<1>5. \A j \in 0 .. n : it[1 .. j] \in V
  BY <1>4 DEF S
<1>6. r \in [0 .. n -> V]
  BY <1>5
<1>7. ASSUME NEW k \in 1 .. n PROVE r[k] = g[k][r[k - 1]]
  <2>1. k - 1 \in 0 .. n /\ k \in 0 .. n
    OBVIOUS
  <2> QED BY <1>5, <2>1 DEF GoesBy
<1>8. r[0] = base /\ r[n] = it[1 .. n]
  BY <1>1
<1> HIDE DEF r
<1> QED BY <1>6, <1>7, <1>8 DEF Runs

-----------------------------------------------------------------------------
(* Sums over finite sets *)

\* The parts of S with at most k elements.
Parts(S, k) == {s \in SUBSET S : Cardinality(s) <= k}

\* it adds up v over each set of D, taking out one element after the other, as
\* MapThenSumSet does.
Sums(D, v, it) ==
    \A s \in D : it[s] = IF s = {} THEN 0
                         ELSE v[CHOOSE x \in s : TRUE] + it[s \ {CHOOSE x \in s : TRUE}]

\* Taking out an element.
LEMMA PartsShrink ==
    ASSUME NEW S, IsFiniteSet(S), NEW k \in Nat, NEW s \in Parts(S, k + 1), s # {}
    PROVE  /\ (CHOOSE x \in s : TRUE) \in s /\ (CHOOSE x \in s : TRUE) \in S
           /\ s \ {CHOOSE x \in s : TRUE} \in Parts(S, k)
<1> DEFINE x == CHOOSE x \in s : TRUE
<1>1. x \in s
  OBVIOUS
<1>2. s \subseteq S /\ IsFiniteSet(s) /\ Cardinality(s) <= k + 1
  BY FS_Subset DEF Parts
<1> HIDE DEF x
<1>3. IsFiniteSet(s \ {x}) /\ Cardinality(s \ {x}) = Cardinality(s) - 1
  BY <1>1, <1>2, FS_RemoveElement
<1>4. Cardinality(s) \in Nat
  BY <1>2, FS_CardinalityType
<1>5. Cardinality(s \ {x}) <= k
  BY <1>2, <1>3, <1>4
<1>6. s \ {x} \in Parts(S, k)
  BY <1>2, <1>5 DEF Parts
<1> QED BY <1>1, <1>2, <1>6 DEF x

\* All parts, and the smallest.
LEMMA PartsBounds ==
    ASSUME NEW S, IsFiniteSet(S)
    PROVE  /\ Cardinality(S) \in Nat /\ Parts(S, Cardinality(S)) = SUBSET S
           /\ \A s \in Parts(S, 0) : s = {}
           /\ \A k \in Nat : {} \in Parts(S, k) /\ Parts(S, k) \subseteq Parts(S, k + 1)
           /\ \A k \in Nat : \A s \in Parts(S, k + 1) \ Parts(S, k) : s # {}
<1>1. Cardinality(S) \in Nat
  BY FS_CardinalityType
<1>2. ASSUME NEW s \in SUBSET S PROVE IsFiniteSet(s) /\ Cardinality(s) \in Nat /\ Cardinality(s) <= Cardinality(S)
  BY FS_Subset, FS_CardinalityType
<1>3. Parts(S, Cardinality(S)) = SUBSET S
  BY <1>2 DEF Parts
<1>4. \A s \in Parts(S, 0) : s = {}
  BY <1>2, FS_EmptySet DEF Parts
<1>5. \A k \in Nat : {} \in Parts(S, k)
  BY FS_EmptySet DEF Parts
<1>6. \A k \in Nat : Parts(S, k) \subseteq Parts(S, k + 1)
  BY <1>2 DEF Parts
<1>7. \A k \in Nat : \A s \in Parts(S, k + 1) \ Parts(S, k) : s # {}
  BY <1>5
<1> QED BY <1>1, <1>3, <1>4, <1>5, <1>6, <1>7

\* There is such a function.
LEMMA SumsExist ==
    ASSUME NEW S, IsFiniteSet(S), NEW v \in [S -> Int]
    PROVE  \E it \in [SUBSET S -> Int] : Sums(SUBSET S, v, it)
<1> DEFINE K == {k \in Nat : \E it \in [Parts(S, k) -> Int] : Sums(Parts(S, k), v, it)}
<1>0. \A k \in Nat : k \in K <=> \E it \in [Parts(S, k) -> Int] : Sums(Parts(S, k), v, it)
  BY Zenon
<1> HIDE DEF K
<1>1. 0 \in K
  <2> DEFINE f == [s \in Parts(S, 0) |-> 0]
  <2>1. f \in [Parts(S, 0) -> Int] /\ \A s \in Parts(S, 0) : f[s] = 0 /\ s = {}
    BY PartsBounds
  <2> HIDE DEF f
  <2>2. Sums(Parts(S, 0), v, f)
    BY <2>1 DEF Sums
  <2> QED BY <1>0, <2>1, <2>2
<1>2. ASSUME NEW k \in Nat, k \in K PROVE k + 1 \in K
  <2> DEFINE P == Parts(S, k)
             Q == Parts(S, k + 1)
             c(s) == CHOOSE x \in s : TRUE
  <2>1. PICK f \in [P -> Int] : Sums(P, v, f)
    BY <1>0, <1>2
  <2> DEFINE h == [s \in Q |-> IF s \in P THEN f[s] ELSE v[c(s)] + f[s \ {c(s)}]]
  <2>2. P \subseteq Q /\ {} \in P
    BY PartsBounds
  <2>3. \A s \in Q : s # {} => c(s) \in S /\ s \ {c(s)} \in P
    BY PartsShrink
  <2> HIDE DEF P, Q, c
  <2>4. ASSUME NEW s \in Q
        PROVE  /\ h[s] \in Int
               /\ h[s] = IF s = {} THEN 0 ELSE v[c(s)] + h[s \ {c(s)}]
    <3>1. CASE s \in P
      <4>1. f[s] = IF s = {} THEN 0 ELSE v[c(s)] + f[s \ {c(s)}]
        BY <2>1, <3>1 DEF Sums, c
      <4>2. s # {} => s \ {c(s)} \in P /\ s \ {c(s)} \in Q
        BY <2>2, <2>3
      <4> QED BY <2>1, <3>1, <4>1, <4>2
    <3>2. CASE s \notin P
      <4>1. s # {} /\ s \ {c(s)} \in P /\ s \ {c(s)} \in Q /\ c(s) \in S
        BY <2>2, <2>3, <3>2
      <4> QED BY <2>1, <3>2, <4>1
    <3> QED BY <3>1, <3>2
  <2>5. h \in [Q -> Int]
    BY <2>4
  <2> HIDE DEF h
  <2>6. Sums(Q, v, h)
    BY <2>4 DEF Sums, c
  <2>7. k + 1 \in Nat
    OBVIOUS
  <2> QED BY <1>0, <2>5, <2>6, <2>7 DEF Q
<1>3. Cardinality(S) \in K
  BY <1>1, <1>2, PartsBounds, SetInduction
<1>4. Cardinality(S) \in Nat /\ Parts(S, Cardinality(S)) = SUBSET S
  BY PartsBounds
<1>5. \E it \in [Parts(S, Cardinality(S)) -> Int] : Sums(Parts(S, Cardinality(S)), v, it)
  BY <1>0, <1>3, <1>4, Zenon
<1> QED BY <1>4, <1>5, Zenon

\* w is v, grown by d at r.
GrowsAt(S, v, w, r, d) == \A x \in S : w[x] = v[x] + (IF x = r THEN d ELSE 0)

\* Then so does the sum.
LEMMA SumsDiffer ==
    ASSUME NEW S, IsFiniteSet(S), NEW v \in [S -> Int], NEW w \in [S -> Int],
           NEW r, NEW d \in Int, GrowsAt(S, v, w, r, d),
           NEW f, Sums(SUBSET S, v, f), NEW g, Sums(SUBSET S, w, g)
    PROVE  f[S] \in Int /\ g[S] = f[S] + (IF r \in S THEN d ELSE 0)
<1> DEFINE K == {k \in Nat : \A s \in Parts(S, k) :
                    f[s] \in Int /\ g[s] = f[s] + (IF r \in s THEN d ELSE 0)}
           c(s) == CHOOSE x \in s : TRUE
<1>0. \A s \in SUBSET S : /\ f[s] = IF s = {} THEN 0 ELSE v[c(s)] + f[s \ {c(s)}]
                          /\ g[s] = IF s = {} THEN 0 ELSE w[c(s)] + g[s \ {c(s)}]
  BY DEF Sums
<1>1. f[{}] = 0 /\ g[{}] = 0
  BY <1>0
<1>2. 0 \in K
  <2>1. \A s \in Parts(S, 0) : s = {}
    BY PartsBounds
  <2>2. f[{}] \in Int /\ g[{}] = f[{}] + 0 /\ r \notin {}
    BY <1>1
  <2> QED BY <2>1, <2>2
<1>3. ASSUME NEW k \in Nat, k \in K PROVE k + 1 \in K
  <2> SUFFICES ASSUME NEW s \in Parts(S, k + 1)
               PROVE  f[s] \in Int /\ g[s] = f[s] + (IF r \in s THEN d ELSE 0)
    OBVIOUS
  <2>1. CASE s = {}
    BY <1>1, <2>1
  <2>2. CASE s # {}
    <3> DEFINE e == c(s)
               q == s \ {e}
    <3>1. e \in s /\ e \in S /\ q \in Parts(S, k) /\ s \in SUBSET S
      BY <2>2, PartsShrink DEF Parts
    <3>2. f[q] \in Int /\ g[q] = f[q] + (IF r \in q THEN d ELSE 0)
      BY <1>3, <3>1
    <3>3. f[s] = v[e] + f[q] /\ g[s] = w[e] + g[q]
      BY <1>0, <2>2, <3>1
    <3> HIDE DEF e, c
    <3>4. v[e] \in Int /\ w[e] = v[e] + (IF e = r THEN d ELSE 0)
      BY <3>1 DEF GrowsAt
    <3>5. r \in s <=> r = e \/ r \in q
      BY <3>1
    <3>6. ~ (r = e /\ r \in q)
      OBVIOUS
    <3> HIDE DEF q
    <3> QED BY <3>2, <3>3, <3>4, <3>5, <3>6
  <2> QED BY <2>1, <2>2
<1> HIDE DEF K
<1>4. Cardinality(S) \in K
  BY <1>2, <1>3, PartsBounds, SetInduction
<1>5. S \in Parts(S, Cardinality(S))
  BY PartsBounds
<1> QED BY <1>4, <1>5 DEF K

\* The sum of v over S.
SumOver(S, v) == (CHOOSE it : Sums(SUBSET S, v, it))[S]

\* The sum is an integer, and the value of every function that adds up.
LEMMA SumOverIs ==
    ASSUME NEW S, IsFiniteSet(S), NEW v \in [S -> Int]
    PROVE  /\ SumOver(S, v) \in Int
           /\ \A it : Sums(SUBSET S, v, it) => it[S] = SumOver(S, v)
<1> DEFINE f == CHOOSE it : Sums(SUBSET S, v, it)
<1>1. Sums(SUBSET S, v, f)
  BY SumsExist
<1>2. SumOver(S, v) = f[S]
  BY DEF SumOver
<1> HIDE DEF f
<1>3. 0 \in Int /\ \A r : GrowsAt(S, v, v, r, 0)
  BY DEF GrowsAt
<1>4. f[S] \in Int
  BY <1>1, <1>3, SumsDiffer
<1>5. ASSUME NEW it, Sums(SUBSET S, v, it) PROVE it[S] = f[S]
  <2>1. 0 \in Int /\ GrowsAt(S, v, v, 1, 0)
    BY <1>3
  <2>2. it[S] = f[S] + (IF 1 \in S THEN 0 ELSE 0)
    BY ONLY <1>1, <1>5, <2>1, IsFiniteSet(S), v \in [S -> Int], SumsDiffer
  <2> QED BY <1>4, <2>2
<1> QED BY <1>2, <1>4, <1>5

\* When v grows by d at r, so does its sum.
LEMMA SumOverGrows ==
    ASSUME NEW S, IsFiniteSet(S), NEW v \in [S -> Int], NEW w \in [S -> Int],
           NEW r \in S, NEW d \in Int, GrowsAt(S, v, w, r, d)
    PROVE  SumOver(S, w) = SumOver(S, v) + d
<1>1. PICK f : Sums(SUBSET S, v, f)
  BY SumsExist
<1>2. PICK g : Sums(SUBSET S, w, g)
  BY SumsExist
<1>3. g[S] = f[S] + d
  <2>1. g[S] = f[S] + (IF r \in S THEN d ELSE 0)
    BY <1>1, <1>2, SumsDiffer
  <2> QED BY <2>1
<1>4. f[S] = SumOver(S, v) /\ g[S] = SumOver(S, w)
  BY <1>1, <1>2, SumOverIs
<1> QED BY <1>3, <1>4

\* Nothing adds up to nothing.
LEMMA SumOverZero ==
    ASSUME NEW S, IsFiniteSet(S), NEW v \in [S -> Int], \A x \in S : v[x] = 0
    PROVE  SumOver(S, v) = 0
<1> DEFINE f == [s \in SUBSET S |-> 0]
<1>1. \A s \in SUBSET S : s # {} => (CHOOSE x \in s : TRUE) \in S
                               /\ s \ {CHOOSE x \in s : TRUE} \in SUBSET S
  OBVIOUS
<1>2. \A s \in SUBSET S : f[s] = 0
  OBVIOUS
<1> HIDE DEF f
<1>3. Sums(SUBSET S, v, f)
  BY <1>1, <1>2 DEF Sums
<1>4. f[S] = 0
  BY <1>2
<1> QED BY <1>3, <1>4, SumOverIs
=============================================================================
