---------------------------- MODULE ValueProofs ----------------------------
(***************************************************************************)
(* Theorems about what the pure parts of the program compute, for inputs   *)
(* of every length and size: what MCValues checks for small ones.  The     *)
(* folds of the community modules are recursive functions, so that         *)
(* induction comes first: a set of natural numbers has a smallest element, *)
(* and hence what holds of each step of a fold holds of the fold.          *)
(***************************************************************************)
EXTENDS MCValues, FiniteSetTheorems, SequenceTheorems, WellFoundedInduction, TLAPS

\* The order of the natural numbers, as a relation,
Less == {p \in Nat \X Nat : p[1] < p[2]}

\* which is well-founded.
LEMMA NatWF == IsWellFoundedOn(Less, Nat)
<1>1. OpToRel(<, Nat) = Less
  BY DEF OpToRel, Less
<1> QED
  BY <1>1, NatLessThanWellFounded

\* A set of natural numbers has a smallest element.
LEMMA Least == ASSUME NEW T \in SUBSET Nat, T # {} PROVE \E n \in T : \A m \in T : n <= m
<1>1. PICK n \in T : \A m \in T : ~(<<m, n>> \in Less)
  BY NatWF, WFMin, Zenon
<1>2. ASSUME NEW m \in T PROVE n <= m
  <2>1. m < n => <<m, n>> \in Less
    BY DEF Less
  <2> QED
    BY <1>1, <2>1
<1> QED
  BY <1>2

\* What holds of 0, and of i + 1 if of i, holds up to n.
LEMMA Upwards ==
    ASSUME NEW n \in Nat, NEW T, 0 \in T, \A i \in 0..(n - 1) : i \in T => i + 1 \in T
    PROVE  0..n \subseteq T
<1> DEFINE U == {i \in 0..n : i \notin T}
<1> SUFFICES ASSUME U # {} PROVE FALSE
  OBVIOUS
<1>1. U \in SUBSET Nat
  OBVIOUS
<1> HIDE DEF U
<1>2. PICK m \in U : \A k \in U : m <= k
  BY <1>1, Least
<1>3. m \in 0..n /\ m \notin T
  BY DEF U
<1>4. m # 0 /\ m - 1 \in 0..(n - 1) /\ m - 1 \notin U
  BY <1>2, <1>3
<1> QED
  BY <1>3, <1>4 DEF U

\* The largest of numbers up to n is n if n is among them,
LEMMA MaxIs == ASSUME NEW n \in Nat, NEW s \in SUBSET (1..n), n \in s PROVE Max(s) = n
<1>1. \A y \in s : n >= y
  OBVIOUS
<1>2. Max(s) \in s /\ \A y \in s : Max(s) >= y
  BY <1>1 DEF Max
<1>3. Max(s) \in 1..n
  BY <1>2
<1> QED
  BY <1>2, <1>3

\* and it is one of them in any case.
LEMMA MaxOf == ASSUME NEW n \in Nat, NEW s \in SUBSET (1..n), s # {} PROVE Max(s) \in s /\ \A i \in s : i <= Max(s)
<1> DEFINE Top == {i \in 0..n : \E j \in s : n - j <= i}
<1> DEFINE U == {n - j : j \in s}
<1>1. U \subseteq Nat /\ U # {}
  OBVIOUS
<1>2. PICK m \in U : \A k \in U : m <= k
  BY <1>1, Least
<1>3. PICK t \in s : m = n - t
  OBVIOUS
<1>4. \A i \in s : t >= i
  <2> TAKE i \in s
  <2>1. n - i \in U
    OBVIOUS
  <2> QED
    BY <1>2, <1>3, <2>1
<1>5. \E x \in s : \A y \in s : x >= y
  BY <1>4
<1> QED
  BY <1>5 DEF Max

\* g[s] is the fold over the indices in s, the largest last.
Iterates(g, n, b, F) ==
    \A s \in SUBSET (1..n) : g[s] = IF s = {} THEN b ELSE F[<<g[s \ {Max(s)}], Max(s)>>]

\* A fold over the indices of a sequence exists,
LEMMA FoldExists ==
    ASSUME NEW V, NEW b \in V, NEW n \in Nat, NEW F \in [V \X (1..n) -> V]
    PROVE  \E g \in [SUBSET (1..n) -> V] : Iterates(g, n, b, F)
<1> DEFINE T == {m \in 0..n : \E g \in [SUBSET (1..m) -> V] : Iterates(g, m, b, F)}
<1>1. 0 \in T
  <2> DEFINE g == [s \in SUBSET (1..0) |-> b]
  <2>1. g \in [SUBSET (1..0) -> V] /\ Iterates(g, 0, b, F)
    BY DEF Iterates
  <2> QED
    BY <2>1
<1>2. ASSUME NEW m \in 0..(n - 1), m \in T PROVE m + 1 \in T
  <2>1. PICK g \in [SUBSET (1..m) -> V] : Iterates(g, m, b, F)
    BY <1>2
  <2> DEFINE k == m + 1
             h == [s \in SUBSET (1..k) |-> IF k \in s THEN F[<<g[s \ {k}], k>>] ELSE g[s]]
  <2>2. k \in 1..n /\ 1..k = 1..m \cup {k} /\ k \notin 1..m /\ k \in Nat
    OBVIOUS
  <2> HIDE DEF k
  <2>3. h \in [SUBSET (1..k) -> V]
    BY <2>2
  <2>4. ASSUME NEW s \in SUBSET (1..k)
        PROVE  h[s] = IF s = {} THEN b ELSE F[<<h[s \ {Max(s)}], Max(s)>>]
    <3>1. CASE k \in s
      <4>1. Max(s) = k
        BY <2>2, <3>1, MaxIs
      <4>2. h[s \ {k}] = g[s \ {k}]
        BY <2>2
      <4> QED
        BY <2>2, <3>1, <4>1, <4>2
    <3>2. CASE k \notin s
      <4>1. s \in SUBSET (1..m) /\ h[s] = g[s]
        BY <2>2, <3>2
      <4>2. CASE s = {}
        BY <2>1, <4>1, <4>2 DEF Iterates
      <4>3. CASE s # {}
        <5>1. h[s \ {Max(s)}] = g[s \ {Max(s)}]
          BY <2>2, <4>1
        <5> QED
          BY <2>1, <4>1, <4>3, <5>1 DEF Iterates
      <4> QED
        BY <4>2, <4>3
    <3> QED
      BY <3>1, <3>2
  <2>5. Iterates(h, k, b, F)
    BY <2>4 DEF Iterates
  <2> HIDE DEF h
  <2> QED
    BY <2>2, <2>3, <2>5 DEF k
<1> HIDE DEF T
<1>3. n \in T
  BY <1>1, <1>2, Upwards
<1> QED
  BY <1>3 DEF T

\* The same with what holds of every step.
Unrolls(g, V, n, b, F) ==
    /\ g \in [SUBSET (1..n) -> V] /\ g[{}] = b
    /\ \A s \in SUBSET (1..n) : s # {} =>
          /\ Max(s) \in 1..n /\ s \ {Max(s)} \in SUBSET (1..n)
          /\ g[s \ {Max(s)}] \in V /\ g[s] = F[<<g[s \ {Max(s)}], Max(s)>>]

FoldOver(V, n, b, F) == b \in V /\ n \in Nat /\ F \in [V \X (1..n) -> V]

\* Such a function exists for a typed step.
LEMMA Unrolled ==
    ASSUME NEW V, NEW n, NEW b, NEW F, FoldOver(V, n, b, F)
    PROVE  \E g : Unrolls(g, V, n, b, F)
<1>1. PICK g \in [SUBSET (1..n) -> V] : Iterates(g, n, b, F)
  BY FoldExists DEF FoldOver
<1>2. g[{}] = b
  BY <1>1 DEF Iterates
<1>3. ASSUME NEW s \in SUBSET (1..n), s # {}
      PROVE  /\ Max(s) \in 1..n /\ s \ {Max(s)} \in SUBSET (1..n)
             /\ g[s \ {Max(s)}] \in V /\ g[s] = F[<<g[s \ {Max(s)}], Max(s)>>]
  <2>1. Max(s) \in 1..n
    BY <1>3, MaxOf DEF FoldOver
  <2>2. s \ {Max(s)} \in SUBSET (1..n)
    OBVIOUS
  <2> QED
    BY <1>1, <1>3, <2>1, <2>2 DEF Iterates
<1> QED
  BY <1>2, <1>3 DEF Unrolls

\* The steps of a fold: h[i] is the accumulator after i elements.
Follows(iter, V, n, b, F) ==
    /\ iter[{}] = b
    /\ \A s \in SUBSET (1..n) :
          s # {} /\ iter[s \ {Max(s)}] \in V => iter[s] = F[<<iter[s \ {Max(s)}], Max(s)>>]

StepsOf(h, V, n, b, F) ==
    /\ h \in [0..n -> V] /\ h[0] = b
    /\ \A i \in 1..n : h[i] = F[<<h[i - 1], i>>]

\* A fold computes the last of its steps.
LEMMA Folded ==
    ASSUME NEW V, NEW n, NEW b, NEW F, NEW iter, FoldOver(V, n, b, F), Follows(iter, V, n, b, F)
    PROVE  \E h : StepsOf(h, V, n, b, F) /\ iter[1..n] = h[n]
<1>0. iter[{}] = b /\ \A s \in SUBSET (1..n) :
               s # {} /\ iter[s \ {Max(s)}] \in V => iter[s] = F[<<iter[s \ {Max(s)}], Max(s)>>]
  BY DEF Follows
<1> USE DEF FoldOver
<1> DEFINE T == {i \in 0..n : iter[1..i] \in V}
<1>1. 0 \in T
  <2>1. 1..0 = {}
    OBVIOUS
  <2> QED
    BY <1>0, <2>1
<1>2. ASSUME NEW i \in 0..(n - 1) PROVE iter[1..i] \in V => iter[1..(i + 1)] = F[<<iter[1..i], i + 1>>]
  <2>1. 1..(i + 1) \in SUBSET (1..n) /\ i + 1 \in 1..(i + 1) /\ (1..(i + 1)) \ {i + 1} = 1..i
    OBVIOUS
  <2>2. Max(1..(i + 1)) = i + 1
    BY <2>1, MaxIs
  <2> QED
    BY <1>0, <2>1, <2>2
<1>3. ASSUME NEW i \in 0..(n - 1), i \in T PROVE i + 1 \in T
  <2>1. i + 1 \in 1..n /\ i + 1 \in 0..n /\ iter[1..i] \in V
    BY <1>3
  <2>2. F[<<iter[1..i], i + 1>>] \in V
    BY <2>1
  <2>3. iter[1..(i + 1)] \in V
    BY <1>2, <2>1, <2>2
  <2> QED
    BY <2>1, <2>3
<1>4. 0..n \subseteq T
  <2> HIDE DEF T
  <2> QED
    BY <1>1, <1>3, Upwards
<1> DEFINE h == [i \in 0..n |-> iter[1..i]]
<1>5. h \in [0..n -> V] /\ h[0] = b
  <2>1. 1..0 = {}
    OBVIOUS
  <2> QED
    BY <1>0, <1>4, <2>1
<1>6. ASSUME NEW i \in 1..n PROVE h[i] = F[<<h[i - 1], i>>]
  <2>1. i - 1 \in 0..(n - 1) /\ i - 1 \in T /\ (i - 1) + 1 = i
    BY <1>4
  <2>2. iter[1..((i - 1) + 1)] = F[<<iter[1..(i - 1)], (i - 1) + 1>>]
    BY <1>2, <2>1
  <2> QED
    BY <2>1, <2>2
<1>7. iter[1..n] = h[n]
  OBVIOUS
<1> HIDE DEF h
<1> QED
  BY <1>5, <1>6, <1>7 DEF StepsOf

-----------------------------------------------------------------------------
Pick1(s) == CHOOSE x \in s : TRUE

\* g[s] is what a fold over the finite set s computes.
Gathers(g, V, S, b, F) ==
    /\ g \in [SUBSET S -> V] /\ g[{}] = b
    /\ \A s \in SUBSET S : s # {} =>
          /\ Pick1(s) \in s /\ g[s \ {Pick1(s)}] \in V
          /\ g[s] = F[<<Pick1(s), g[s \ {Pick1(s)}]>>]

FoldOverSet(V, S, b, F) == IsFiniteSet(S) /\ b \in V /\ F \in [S \X V -> V]

\* Such a function exists for a finite set and a typed step.
LEMMA Gathered ==
    ASSUME NEW V, NEW S, NEW b, NEW F, FoldOverSet(V, S, b, F)
    PROVE  \E g : Gathers(g, V, S, b, F)
<1> USE DEF FoldOverSet
<1> DEFINE n == Cardinality(S)
           Within(m) == {s \in SUBSET S : Cardinality(s) <= m}
           Step(g, s) == IF s = {} THEN b ELSE F[<<Pick1(s), g[s \ {Pick1(s)}]>>]
           OK(m, g) == g \in [Within(m) -> V] /\ \A s \in Within(m) : g[s] = Step(g, s)
           T == {m \in 0..n : \E g : OK(m, g)}
<1>1. n \in Nat /\ \A s \in SUBSET S : IsFiniteSet(s) /\ Cardinality(s) \in 0..n
  <2>1. n \in Nat
    BY FS_CardinalityType
  <2>2. ASSUME NEW s \in SUBSET S PROVE IsFiniteSet(s) /\ Cardinality(s) \in 0..n
    <3>1. IsFiniteSet(s) /\ Cardinality(s) <= n
      BY FS_Subset
    <3>2. Cardinality(s) \in Nat
      BY <3>1, FS_CardinalityType
    <3> QED
      BY <2>1, <3>1, <3>2
  <2> QED
    BY <2>1, <2>2
<1>2. ASSUME NEW s \in SUBSET S, s # {}
      PROVE  /\ Pick1(s) \in s /\ s \ {Pick1(s)} \in SUBSET S
             /\ Cardinality(s \ {Pick1(s)}) = Cardinality(s) - 1
  <2>1. Pick1(s) \in s
    BY <1>2 DEF Pick1
  <2>2. IsFiniteSet(s)
    BY <1>1
  <2> QED
    BY <2>1, <2>2, FS_RemoveElement
<1> HIDE DEF n
<1>3. 0 \in T
  <2> DEFINE g == [s \in Within(0) |-> b]
  <2>1. ASSUME NEW s \in Within(0) PROVE s = {}
    <3>1. IsFiniteSet(s) /\ Cardinality(s) = 0
      BY <1>1
    <3> QED
      BY <3>1, FS_EmptySet
  <2>2. OK(0, g)
    BY <2>1
  <2> HIDE DEF OK, g
  <2> QED
    BY <1>1, <2>2
<1>4. ASSUME NEW m \in 0..(n - 1), m \in T PROVE m + 1 \in T
  <2>1. PICK g : OK(m, g)
    BY <1>4
  <2> DEFINE h == [s \in Within(m + 1) |-> IF Cardinality(s) <= m THEN g[s] ELSE F[<<Pick1(s), g[s \ {Pick1(s)}]>>]]
  <2>2. ASSUME NEW s \in Within(m + 1), s # {}
        PROVE  s \ {Pick1(s)} \in Within(m) /\ h[s \ {Pick1(s)}] = g[s \ {Pick1(s)}]
               /\ s \ {Pick1(s)} \in Within(m + 1) /\ Pick1(s) \in S
    <3>1. Cardinality(s \ {Pick1(s)}) = Cardinality(s) - 1 /\ Pick1(s) \in s /\ s \ {Pick1(s)} \in SUBSET S
      BY <1>2, <2>2
    <3>2. Cardinality(s) \in Nat /\ m \in Nat /\ Cardinality(s) <= m + 1
      BY <1>1
    <3>3. Cardinality(s \ {Pick1(s)}) <= m /\ Cardinality(s \ {Pick1(s)}) <= m + 1
      BY <3>1, <3>2
    <3> QED
      BY <3>1, <3>3
  <2>3. ASSUME NEW s \in Within(m + 1) PROVE h[s] \in V /\ h[s] = Step(h, s)
    <3>0. Cardinality(s) \in Nat /\ m \in Nat
      BY <1>1
    <3>1. CASE Cardinality(s) <= m
      <4>1. s \in Within(m) /\ h[s] = g[s] /\ g[s] = Step(g, s) /\ g[s] \in V
        BY <2>1, <3>1
      <4>2. s # {} => h[s \ {Pick1(s)}] = g[s \ {Pick1(s)}]
        BY <2>2
      <4> HIDE DEF h
      <4> QED
        BY <4>1, <4>2
    <3>2. CASE ~(Cardinality(s) <= m)
      <4>1. s # {}
        BY <3>0, <3>2, FS_EmptySet
      <4>2. h[s] = F[<<Pick1(s), g[s \ {Pick1(s)}]>>]
        BY <3>2
      <4>3. g[s \ {Pick1(s)}] \in V /\ Pick1(s) \in S /\ h[s \ {Pick1(s)}] = g[s \ {Pick1(s)}]
        BY <2>1, <2>2, <4>1
      <4> HIDE DEF h
      <4> QED
        BY <4>1, <4>2, <4>3
    <3> QED
      BY <3>1, <3>2
  <2>4. OK(m + 1, h)
    BY <2>3
  <2> HIDE DEF OK, h
  <2> QED
    BY <1>1, <2>4
<1>5. n \in T
  <2>1. \A m \in 0..(n - 1) : m \in T => m + 1 \in T
    BY <1>4
  <2> HIDE DEF T
  <2>2. 0..n \subseteq T
    BY <1>1, <1>3, <2>1, Upwards
  <2> QED
    BY <1>1, <2>2
<1>6. PICK g : OK(n, g)
  BY <1>5
<1>7. Within(n) = SUBSET S
  BY <1>1
<1>8. g \in [SUBSET S -> V] /\ g[{}] = b
  BY <1>6, <1>7
<1>9. ASSUME NEW s \in SUBSET S, s # {}
      PROVE  Pick1(s) \in s /\ g[s \ {Pick1(s)}] \in V /\ g[s] = F[<<Pick1(s), g[s \ {Pick1(s)}]>>]
  <2>1. g[s] = Step(g, s)
    BY <1>6, <1>7
  <2> QED
    BY <1>2, <1>8, <1>9, <2>1
<1> QED
  BY <1>8, <1>9 DEF Gathers

\* What is left of the elements.
Gathering(iter, V, S, b, F) ==
    /\ iter[{}] = b
    /\ \A s \in SUBSET S :
          s # {} /\ iter[s \ {Pick1(s)}] \in V => iter[s] = F[<<Pick1(s), iter[s \ {Pick1(s)}]>>]

\* What holds of the base, and of one element more, holds of a fold: T is a set of
\* pairs of a set and the accumulator for its elements.
LEMMA GatheredBy ==
    ASSUME NEW V, NEW S, NEW b, NEW F, NEW iter, FoldOverSet(V, S, b, F), Gathering(iter, V, S, b, F),
           NEW T, <<{}, b>> \in T,
           \A s \in SUBSET S, v \in V : \A x \in S \ s : <<s, v>> \in T => <<s \cup {x}, F[<<x, v>>]>> \in T
    PROVE  iter[S] \in V /\ <<S, iter[S]>> \in T
<1> USE DEF FoldOverSet
<1> DEFINE n == Cardinality(S)
           Good(s) == iter[s] \in V /\ <<s, iter[s]>> \in T
           U == {m \in 0..n : \A s \in SUBSET S : Cardinality(s) <= m => Good(s)}
<1>1. n \in Nat /\ \A s \in SUBSET S : IsFiniteSet(s) /\ Cardinality(s) \in 0..n
  <2>1. n \in Nat
    BY FS_CardinalityType
  <2>2. ASSUME NEW s \in SUBSET S PROVE IsFiniteSet(s) /\ Cardinality(s) \in 0..n
    <3>1. IsFiniteSet(s) /\ Cardinality(s) <= n
      BY FS_Subset
    <3>2. Cardinality(s) \in Nat
      BY <3>1, FS_CardinalityType
    <3> QED
      BY <2>1, <3>1, <3>2
  <2> QED
    BY <2>1, <2>2
<1> HIDE DEF n
<1>2. Good({})
  BY DEF Gathering
<1>3. 0 \in U
  <2>1. ASSUME NEW s \in SUBSET S, Cardinality(s) <= 0 PROVE s = {}
    <3>1. IsFiniteSet(s) /\ Cardinality(s) = 0
      BY <1>1, <2>1
    <3> QED
      BY <3>1, FS_EmptySet
  <2>2. \A s \in SUBSET S : Cardinality(s) <= 0 => Good(s)
    <3> HIDE DEF Good
    <3> QED
      BY <1>2, <2>1, Zenon
  <2> HIDE DEF Good
  <2> QED
    BY <1>1, <2>2
<1>4. ASSUME NEW m \in 0..(n - 1), m \in U PROVE m + 1 \in U
  <2>1. ASSUME NEW s \in SUBSET S, Cardinality(s) <= m + 1 PROVE Good(s)
    <3>1. CASE s = {}
      BY <1>2, <3>1
    <3>2. CASE s # {}
      <4> DEFINE x == Pick1(s)
                 r == s \ {Pick1(s)}
      <4>1. x \in s /\ r \in SUBSET S /\ x \in S \ r /\ r \cup {x} = s
        BY <3>2 DEF Pick1
      <4>2. Cardinality(r) = Cardinality(s) - 1
        BY <1>1, <4>1, FS_RemoveElement
      <4>3. Good(r)
        <5>1. Cardinality(s) \in Nat /\ m \in Nat
          BY <1>1
        <5>2. Cardinality(r) <= m
          BY <2>1, <4>2, <5>1
        <5> QED
          BY <1>4, <4>1, <5>2
      <4>4. iter[s] = F[<<x, iter[r]>>]
        BY <3>2, <4>3 DEF Gathering
      <4>5. F[<<x, iter[r]>>] \in V
        BY <4>1, <4>3
      <4> HIDE DEF x, r
      <4>6. <<r \cup {x}, F[<<x, iter[r]>>]>> \in T
        BY <4>1, <4>3
      <4> QED
        BY <4>1, <4>4, <4>5, <4>6
    <3> QED
      BY <3>1, <3>2
  <2> HIDE DEF Good
  <2> QED
    BY <1>1, <2>1
<1>5. \A m \in 0..(n - 1) : m \in U => m + 1 \in U
  BY <1>4
<1>6. n \in U
  <2> HIDE DEF U
  <2>1. 0..n \subseteq U
    BY <1>1, <1>3, <1>5, Upwards
  <2> QED
    BY <1>1, <2>1
<1> QED
  BY <1>1, <1>6 DEF n

-----------------------------------------------------------------------------
Answers == {"ok", "down", "lost", "raced"}

\* The tries of Apply, one after the other.
LEMMA ApplySteps ==
    ASSUME NEW object, NEW version, NEW answers, Tries(answers) \in Seq(Answers)
    PROVE  \E h \in [0..Len(Tries(answers)) -> [object : {object, version, "absent", "other"}, ok : BOOLEAN, tries : Nat]] :
              /\ h[0] = [object |-> object, ok |-> FALSE, tries |-> 0]
              /\ \A i \in 1..Len(Tries(answers)) : h[i] = Try(h[i - 1], version, Tries(answers)[i])
              /\ Apply(object, version, answers) = h[Len(Tries(answers))]
<1> DEFINE V == [object : {object, version, "absent", "other"}, ok : BOOLEAN, tries : Nat]
           n == Len(Tries(answers))
           b == [object |-> object, ok |-> FALSE, tries |-> 0]
           F == [p \in V \X (1..n) |-> Try(p[1], version, Tries(answers)[p[2]])]
           Body(f) == [s \in SUBSET (DOMAIN Tries(answers)) |->
                          IF s = {} THEN b ELSE Try(f[s \ {Max(s)}], version, Tries(answers)[Max(s)])]
           iter == CHOOSE f : f = Body(f)
<1>1. n \in Nat /\ DOMAIN Tries(answers) = 1..n /\ b \in V
  OBVIOUS
<1>2. ASSUME NEW r \in V, NEW i \in 1..n PROVE Try(r, version, Tries(answers)[i]) \in V
  BY DEF Try, applyKubernetesResource, Answers
<1>3. Apply(object, version, answers) = iter[1..n]
  BY <1>1, Zenon DEF Apply, FoldLeft, MapThenFoldSet
<1> HIDE DEF V, n, b
<1>4. F \in [V \X (1..n) -> V] /\ \A r \in V, i \in 1..n : F[<<r, i>>] = Try(r, version, Tries(answers)[i])
  BY <1>2
<1>5. FoldOver(V, n, b, F)
  BY <1>1, <1>4 DEF FoldOver
<1> HIDE DEF F
<1>6. PICK g : Unrolls(g, V, n, b, F)
  BY <1>5, Unrolled
<1>7. ASSUME NEW s \in SUBSET (1..n), s # {} PROVE g[s] = Try(g[s \ {Max(s)}], version, Tries(answers)[Max(s)])
  BY <1>4, <1>6, <1>7 DEF Unrolls
<1>8. g = Body(g)
  BY <1>1, <1>6, <1>7 DEF Unrolls
<1>9. iter = Body(iter)
  BY <1>8, Zenon
<1> HIDE DEF iter
<1>10. ASSUME NEW s \in SUBSET (1..n), s # {}, iter[s \ {Max(s)}] \in V
       PROVE  iter[s] = F[<<iter[s \ {Max(s)}], Max(s)>>]
  BY <1>1, <1>4, <1>6, <1>9, <1>10 DEF Unrolls
<1>11. Follows(iter, V, n, b, F)
  BY <1>1, <1>9, <1>10 DEF Follows
<1>12. PICK h : StepsOf(h, V, n, b, F) /\ iter[1..n] = h[n]
  BY <1>5, <1>11, Folded
<1>13. h \in [0..n -> V] /\ h[0] = b
  BY <1>12 DEF StepsOf
<1>14. ASSUME NEW i \in 1..n PROVE h[i] = Try(h[i - 1], version, Tries(answers)[i])
  <2>1. h[i - 1] \in V /\ h[i] = F[<<h[i - 1], i>>]
    BY <1>1, <1>12 DEF StepsOf
  <2> QED
    BY <1>4, <2>1
<1> QED
  BY <1>3, <1>12, <1>13, <1>14 DEF V, n, b

\* At most MaxRetries + 1 answers are used.
LEMMA TriesOf ==
    ASSUME NEW answers \in Seq(Answers)
    PROVE  /\ Tries(answers) \in Seq(Answers)
           /\ Len(Tries(answers)) = IF Len(answers) > MaxRetries + 1 THEN MaxRetries + 1 ELSE Len(answers)
<1>1. MaxRetries + 1 \in Nat /\ Len(answers) \in Nat
  BY RetriesAssumption
<1>2. CASE Len(answers) > MaxRetries + 1
  <2>1. Tries(answers) = SubSeq(answers, 1, MaxRetries + 1)
    BY <1>2 DEF Tries
  <2>2. SubSeq(answers, 1, MaxRetries + 1) \in Seq(Answers) /\ Len(SubSeq(answers, 1, MaxRetries + 1)) = MaxRetries + 1
    BY <1>1, <1>2, SubSeqProperties
  <2> QED
    BY <1>2, <2>1, <2>2
<1>3. CASE ~(Len(answers) > MaxRetries + 1)
  BY <1>3 DEF Tries
<1> QED
  BY <1>2, <1>3

\* A manifest counts as applied only if a try was answered, and it is given up
\* only after all tries.
LEMMA ApplyRight ==
    ASSUME NEW object, NEW version, NEW answers \in Seq(Answers)
    PROVE  LET r == Apply(object, version, answers)
           IN  /\ r.ok \in BOOLEAN
               /\ r.ok => r.object = version
               /\ ~r.ok /\ Len(answers) > MaxRetries => r.tries = MaxRetries + 1
<1> DEFINE tries == Tries(answers)
           n == Len(tries)
           b == [object |-> object, ok |-> FALSE, tries |-> 0]
           V == [object : {object, version, "absent", "other"}, ok : BOOLEAN, tries : Nat]
<1>1. tries \in Seq(Answers) /\ n = IF Len(answers) > MaxRetries + 1 THEN MaxRetries + 1 ELSE Len(answers)
  BY TriesOf
<1>2. PICK h \in [0..n -> V] : /\ h[0] = b
                               /\ \A i \in 1..n : h[i] = Try(h[i - 1], version, tries[i])
                               /\ Apply(object, version, answers) = h[n]
  BY <1>1, ApplySteps
<1> HIDE DEF tries, n
<1> DEFINE T == {i \in 0..n : IF h[i].ok THEN h[i].object = version ELSE h[i].tries = i}
<1>3. n \in Nat /\ tries \in Seq(Answers) /\ n = Len(tries)
  BY <1>1 DEF n
<1>4. 0 \in T
  BY <1>2, <1>3
<1>5. ASSUME NEW i \in 0..(n - 1), i \in T PROVE i + 1 \in T
  <2>1. i + 1 \in 1..n /\ (i + 1) - 1 = i /\ h[i] \in V /\ tries[i + 1] \in Answers
    BY <1>3
  <2>2. h[i + 1] = Try(h[i], version, tries[i + 1])
    BY <1>2, <2>1
  <2> QED
    BY <1>5, <2>1, <2>2 DEF Try, applyKubernetesResource, Answers
<1>6. n \in T
  <2> HIDE DEF T
  <2>1. 0..n \subseteq T
    BY <1>3, <1>4, <1>5, Upwards
  <2> QED
    BY <1>3, <2>1
<1>7. h[n] \in V
  BY <1>3
<1>8. Len(answers) > MaxRetries => n = MaxRetries + 1
  <2>1. MaxRetries \in Nat /\ Len(answers) \in Nat
    BY RetriesAssumption
  <2> QED
    BY <1>1, <2>1 DEF n
<1> QED
  BY <1>2, <1>6, <1>7, <1>8

\* Who applies a manifest is told that it is applied only when it is, whatever
\* requests fail or are answered with an error although they were carried out,
\* and no manifest is given up before every retry was used (pkg/kubernetes/kubectl_apply.go).
THEOREM AppliedOrFailed ==
    ASSUME NEW c, NEW m, m.valid \in BOOLEAN, NEW object, NEW answers \in Seq(Answers)
    PROVE  AppliesOrFails(c, m, object, answers)
<1>1. /\ getRESTMappingFor(c, m.kind).ok \in BOOLEAN
      /\ m.kind \in c.kinds => getRESTMappingFor(c, m.kind).ok
      /\ m.kind \notin c.kinds \cup c.known => ~getRESTMappingFor(c, m.kind).ok
  BY DEF getRESTMappingFor, ResolveKind, resolveKind, Ok, Err
<1>2. CASE ~decodeAndValidate(m) \/ ~getRESTMappingFor(c, m.kind).ok
  BY <1>1, <1>2 DEF AppliesOrFails, applyKubernetesManifest, decodeAndValidate
<1>3. CASE decodeAndValidate(m) /\ getRESTMappingFor(c, m.kind).ok
  <2>1. applyKubernetesManifest(c, m, object, answers) = Apply(object, m.version, answers)
    BY <1>3 DEF applyKubernetesManifest
  <2>2. m.valid /\ m.kind \in c.kinds \cup c.known
    BY <1>1, <1>3 DEF decodeAndValidate
  <2> QED
    BY <2>1, <2>2, ApplyRight DEF AppliesOrFails
<1> QED
  BY <1>1, <1>2, <1>3 DEF decodeAndValidate

-----------------------------------------------------------------------------
\* Documents of a manifest; no version is called "absent".
Documents(of) ==
    [valid : BOOLEAN, kind : of.kinds, version : of.versions \ {"absent"}, apiVersion : of.apis, name : of.names, ns : of.spaces]

AnswersFor(docs, answers) == \A i \in 1..Len(docs) : answers[i] \in Seq(Answers)

Applied(of) == [ok : BOOLEAN, objects : SUBSET ((of.spaces \cup {"default"}) \X of.names)]

\* A manifest that is understood has a name, and a namespace or the default one.
LEMMA ParsedAt ==
    ASSUME NEW of,
           NEW docs \in Seq(Documents(of)),
           ParseResourceManifest(docs).ok, NEW i \in 1..Len(docs)
    PROVE  /\ ParseResourceManifest(docs).val[i].name = docs[i].name
           /\ docs[i].name \in of.names /\ docs[i].name # ""
           /\ ParseResourceManifest(docs).val[i].ns \in of.spaces \cup {"default"}
           /\ ParseResourceManifest(docs).val[i].ns # ""
<1>1. DOMAIN docs = 1..Len(docs) /\ docs[i] \in Documents(of)
  OBVIOUS
<1>2. CASE \E j \in DOMAIN docs : ~docs[j].valid \/ "" \in {docs[j].kind, docs[j].apiVersion, docs[j].name}
  BY <1>2, Zenon DEF ParseResourceManifest, Fails
<1>3. CASE ~\E j \in DOMAIN docs : ~docs[j].valid \/ "" \in {docs[j].kind, docs[j].apiVersion, docs[j].name}
  <2>1. ParseResourceManifest(docs).val[i] = [docs[i] EXCEPT !.ns = IF @ = "" THEN "default" ELSE @]
    BY <1>1, <1>3 DEF ParseResourceManifest, Ok
  <2>2. docs[i].name # ""
    BY <1>1, <1>3
  <2> QED
    BY <1>1, <2>1, <2>2 DEF Documents
<1> QED
  BY <1>2, <1>3

\* The documents of ApplyFile, one after the other.
LEMMA AppliedOK ==
    ASSUME NEW c, NEW m, NEW object, NEW answers \in Seq(Answers)
    PROVE  applyKubernetesManifest(c, m, object, answers).ok \in BOOLEAN
BY ApplyRight DEF applyKubernetesManifest

\* The manifests of a file are applied one after the other;
LEMMA FileSteps ==
    ASSUME NEW c, NEW of,
           NEW docs \in Seq(Documents(of)),
           ParseResourceManifest(docs).ok,
           NEW answers, AnswersFor(docs, answers)
    PROVE  \E h \in [0..Len(Positions(docs)) -> Applied(of)] :
              /\ h[0] = [ok |-> TRUE, objects |-> {}]
              /\ \A i \in 1..Len(Positions(docs)) : h[i] = ApplyNext(c, docs, answers, h[i - 1], Positions(docs)[i])
              /\ ApplyFile(c, docs, answers) = h[Len(Positions(docs))]
<1> DEFINE V == Applied(of)
           n == Len(Positions(docs))
           b == [ok |-> TRUE, objects |-> {}]
           F == [p \in V \X (1..n) |-> ApplyNext(c, docs, answers, p[1], Positions(docs)[p[2]])]
           Body(f) == [s \in SUBSET (DOMAIN Positions(docs)) |->
                          IF s = {} THEN b ELSE ApplyNext(c, docs, answers, f[s \ {Max(s)}], Positions(docs)[Max(s)])]
           iter == CHOOSE f : f = Body(f)
<1>1. n \in Nat /\ DOMAIN Positions(docs) = 1..n /\ b \in V
  BY DEF Applied, Positions
<1>2. ASSUME NEW r \in V, NEW i \in 1..n PROVE ApplyNext(c, docs, answers, r, Positions(docs)[i]) \in V
  <2>1. i \in 1..Len(docs) /\ Positions(docs)[i] = i
    BY DEF Positions
  <2>2. /\ ParseResourceManifest(docs).val[i].name \in of.names
        /\ ParseResourceManifest(docs).val[i].ns \in of.spaces \cup {"default"}
    BY <2>1, ParsedAt
  <2>3. applyKubernetesManifest(c, docs[i], "absent", answers[i]).ok \in BOOLEAN
    BY <2>1, AppliedOK DEF AnswersFor
  <2> QED
    BY <2>1, <2>2, <2>3 DEF ApplyNext, Applied
<1>3. ApplyFile(c, docs, answers) = iter[1..n]
  BY <1>1, Zenon DEF ApplyFile, FoldLeft, MapThenFoldSet
<1> HIDE DEF V, n, b
<1>4. F \in [V \X (1..n) -> V] /\ \A r \in V, i \in 1..n : F[<<r, i>>] = ApplyNext(c, docs, answers, r, Positions(docs)[i])
  BY <1>2
<1>5. FoldOver(V, n, b, F)
  BY <1>1, <1>4 DEF FoldOver
<1> HIDE DEF F
<1>6. PICK g : Unrolls(g, V, n, b, F)
  BY <1>5, Unrolled
<1>7. ASSUME NEW s \in SUBSET (1..n), s # {} PROVE g[s] = ApplyNext(c, docs, answers, g[s \ {Max(s)}], Positions(docs)[Max(s)])
  BY <1>4, <1>6, <1>7 DEF Unrolls
<1>8. g = Body(g)
  BY <1>1, <1>6, <1>7 DEF Unrolls
<1>9. iter = Body(iter)
  BY <1>8, Zenon
<1> HIDE DEF iter
<1>10. ASSUME NEW s \in SUBSET (1..n), s # {}, iter[s \ {Max(s)}] \in V
       PROVE  iter[s] = F[<<iter[s \ {Max(s)}], Max(s)>>]
  BY <1>1, <1>4, <1>6, <1>9, <1>10 DEF Unrolls
<1>11. Follows(iter, V, n, b, F)
  BY <1>1, <1>9, <1>10 DEF Follows
<1>12. PICK h : StepsOf(h, V, n, b, F) /\ iter[1..n] = h[n]
  BY <1>5, <1>11, Folded
<1>13. h \in [0..n -> V] /\ h[0] = b
  BY <1>12 DEF StepsOf
<1>14. ASSUME NEW i \in 1..n PROVE h[i] = ApplyNext(c, docs, answers, h[i - 1], Positions(docs)[i])
  <2>1. h[i - 1] \in V /\ h[i] = F[<<h[i - 1], i>>]
    BY <1>1, <1>12 DEF StepsOf
  <2> QED
    BY <1>4, <2>1
<1> QED
  BY <1>3, <1>12, <1>13, <1>14 DEF V, n, b

\* the same, by their numbers.
LEMMA FileStepsAt ==
    ASSUME NEW c, NEW of, NEW docs \in Seq(Documents(of)), ParseResourceManifest(docs).ok,
           NEW answers, AnswersFor(docs, answers)
    PROVE  \E h \in [0..Len(docs) -> Applied(of)] :
              /\ h[0] = [ok |-> TRUE, objects |-> {}]
              /\ \A i \in 1..Len(docs) : h[i] = ApplyNext(c, docs, answers, h[i - 1], i)
              /\ ApplyFile(c, docs, answers) = h[Len(docs)]
<1>1. Len(docs) \in Nat /\ Len(Positions(docs)) = Len(docs) /\ \A i \in 1..Len(docs) : Positions(docs)[i] = i
  BY DEF Positions
<1>2. PICK h \in [0..Len(Positions(docs)) -> Applied(of)] :
              /\ h[0] = [ok |-> TRUE, objects |-> {}]
              /\ \A i \in 1..Len(Positions(docs)) : h[i] = ApplyNext(c, docs, answers, h[i - 1], Positions(docs)[i])
              /\ ApplyFile(c, docs, answers) = h[Len(Positions(docs))]
  BY FileSteps
<1> QED
  BY <1>1, <1>2

-----------------------------------------------------------------------------
\* A manifest counts as applied only if its version is stored.
LEMMA AppliedVersion ==
    ASSUME NEW c, NEW m, NEW object, NEW answers \in Seq(Answers)
    PROVE  LET t == applyKubernetesManifest(c, m, object, answers)
           IN  t.ok \in BOOLEAN /\ (t.ok => t.object = m.version)
BY ApplyRight DEF applyKubernetesManifest

\* A file that is not understood changes nothing; of any other file every
\* document was applied, or an error is returned, for every number of
\* documents and whatever requests fail (clusterpyProvisioner.apply).
THEOREM FilesApplied ==
    ASSUME NEW c, NEW of, NEW docs \in Seq(Documents(of)),
           NEW answers, AnswersFor(docs, answers)
    PROVE  FileApplied(c, docs, answers)
<1> DEFINE r == ApplyFile(c, docs, answers)
<1>1. DOMAIN docs = 1..Len(docs) /\ Len(docs) \in Nat
  OBVIOUS
<1>2. CASE ~ParseResourceManifest(docs).ok
  BY <1>2 DEF FileApplied, ApplyFile
<1>3. CASE ParseResourceManifest(docs).ok
  <2> DEFINE n == Len(docs)
             all == ParseResourceManifest(docs).val
             V == Applied(of)
             Names(S) == {o[2] : o \in S}
  <2>1. n \in Nat
    BY <1>1
  <2>2. PICK h \in [0..n -> V] : /\ h[0] = [ok |-> TRUE, objects |-> {}]
                                 /\ \A i \in 1..n : h[i] = ApplyNext(c, docs, answers, h[i - 1], i)
                                 /\ r = h[n]
    BY <1>3, FileStepsAt
  <2>3. ASSUME NEW i \in 1..n
        PROVE  /\ all[i].name = docs[i].name /\ docs[i].name # "" /\ all[i].ns # ""
    BY <1>3, ParsedAt
  <2> HIDE DEF all, r
  <2> DEFINE P(i) == /\ \A o \in h[i].objects : o[1] # ""
                     /\ h[i].ok => Names(h[i].objects) = {docs[j].name : j \in 1..i}
             T == {i \in 0..n : P(i)}
  <2>4. P(0)
    <3>1. h[0].ok /\ h[0].objects = {} /\ 1..0 = {}
      BY <2>2
    <3> QED
      BY <3>1
  <2>5. ASSUME NEW i \in 0..(n - 1), P(i) PROVE P(i + 1)
    <3> DEFINE k == i + 1
               t == applyKubernetesManifest(c, docs[k], "absent", answers[k])
               at == <<all[k].ns, all[k].name>>
    <3>1. k \in 1..n /\ k - 1 = i /\ 1..k = (1..i) \cup {k}
      BY <2>1
    <3>2. h[i].ok \in BOOLEAN
      <4>1. h[i] \in V
        BY <2>1
      <4> QED
        BY <4>1 DEF Applied
    <3>3. h[k] = IF ~h[i].ok THEN h[i]
                 ELSE [ok |-> t.ok, objects |-> IF t.object = "absent" THEN h[i].objects ELSE h[i].objects \cup {at}]
      <4>1. h[k] = ApplyNext(c, docs, answers, h[i], k)
        BY <2>2, <3>1
      <4> QED
        BY <4>1 DEF ApplyNext, all
    <3>4. /\ t.ok \in BOOLEAN /\ (t.ok => t.object # "absent")
          /\ at[1] # "" /\ at[2] = docs[k].name
      <4>1. docs[k].version # "absent" /\ answers[k] \in Seq(Answers)
        <5>1. docs[k] \in Documents(of)
          BY <1>1, <3>1
        <5> QED
          BY <3>1, <5>1 DEF Documents, AnswersFor
      <4> QED
        BY <2>3, <3>1, <4>1, AppliedVersion
    <3> HIDE DEF t, at
    <3>5. CASE ~h[i].ok
      <4>1. h[k] = h[i]
        BY <3>3, <3>5
      <4> QED
        BY <2>5, <3>5, <4>1
    <3>6. CASE h[i].ok
      <4>1. h[k] = [ok |-> t.ok, objects |-> IF t.object = "absent" THEN h[i].objects ELSE h[i].objects \cup {at}]
        BY <3>3, <3>6
      <4>2. h[k].ok = t.ok /\ h[k].objects \in {h[i].objects, h[i].objects \cup {at}}
            /\ (t.ok => h[k].objects = h[i].objects \cup {at})
        <5> DEFINE next == IF t.object = "absent" THEN h[i].objects ELSE h[i].objects \cup {at}
        <5>1. h[k].ok = t.ok /\ h[k].objects = next
          <6> HIDE DEF next
          <6> QED
            BY <4>1 DEF next
        <5> QED
          BY <3>4, <5>1
      <4>3. \A o \in h[k].objects : o[1] # ""
        BY <2>5, <3>4, <4>2
      <4>4. ASSUME h[k].ok PROVE Names(h[k].objects) = {docs[j].name : j \in 1..k}
        <5>1. Names(h[k].objects) = Names(h[i].objects) \cup {docs[k].name}
          BY <3>4, <4>2, <4>4
        <5> QED
          BY <2>5, <3>1, <3>6, <5>1
      <4> QED
        BY <4>3, <4>4
    <3> QED
      BY <3>2, <3>5, <3>6
  <2> HIDE DEF P
  <2>6. P(n)
    <3>2. 0 \in T /\ \A i \in 0..(n - 1) : i \in T => i + 1 \in T
      BY <2>1, <2>4, <2>5
    <3> HIDE DEF T
    <3>1. 0..n \subseteq T
      BY <2>1, <3>2, Upwards
    <3> QED
      BY <2>1, <3>1 DEF T
  <2>7. ~\E i \in DOMAIN docs : docs[i].name = ""
    BY <1>1, <2>3
  <2> QED
    BY <1>1, <2>2, <2>6, <2>7 DEF FileApplied, r, P
<1> QED
  BY <1>2, <1>3

-----------------------------------------------------------------------------
\* The clusters of an API server: keys are unique, kinds and namespaces of its objects
\* exist, kinds that have no namespace have none, and neither they nor what
\* they are named after is a custom resource.
Objs(of) == [kind : of.kinds, ns : of.spaces, name : of.names, label : BOOLEAN, owned : BOOLEAN, marked : BOOLEAN]

Worlds(of) == [objs : SUBSET Objs(of), kinds : SUBSET of.kinds, known : SUBSET of.kinds]

Formed(c) ==
    /\ Global \subseteq c.kinds
    /\ \A o \in c.objs :
          /\ o.kind \in c.kinds
          /\ o.ns # "" => \E n \in c.objs : n.kind = "Namespace" /\ n.name = o.ns
          /\ o.kind \in Global => o.ns = ""
          /\ o.kind = "Namespace" => o.name # ""
          /\ o.kind = "CRD" => o.name \notin Global
    /\ \A o, p \in c.objs : Key(o) = Key(p) => o = p

Same(o, p) == Key(o) = Key(p) /\ o.label = p.label /\ o.owned = p.owned

\* What is left of c0 is in c, and the keys of what is not are in M.
Lost(c, c0, M) ==
    /\ Formed(c) /\ c.kinds \subseteq c0.kinds
    /\ \A o \in c.objs : \E p \in c0.objs : Same(o, p)
    /\ \A p \in c0.objs : Key(p) \in Keys(c.objs) \cup M
    /\ \A p \in c0.objs : p.kind = "CRD" /\ Key(p) \notin Keys(c.objs) => p.name \notin c.kinds

\* A key is made of these three fields.
LEMMA KeyFields ==
    ASSUME NEW o, NEW p
    PROVE  Key(o) = Key(p) <=> o.kind = p.kind /\ o.ns = p.ns /\ o.name = p.name
BY DEF Key

\* A key is used if an object has it.
LEMMA InKeys == ASSUME NEW S, NEW o PROVE Key(o) \in Keys(S) <=> \E p \in S : Key(p) = Key(o)
BY DEF Keys

\* A cluster has lost nothing since it was as it is,
LEMMA LostNothing ==
    ASSUME NEW c, Formed(c)
    PROVE  Lost(c, c, {})
BY DEF Lost, Same, Keys

\* and losses add up.
LEMMA LostMore ==
    ASSUME NEW c, NEW c1, NEW c2, NEW M, NEW N, Lost(c1, c, M), Lost(c2, c1, N)
    PROVE  Lost(c2, c, M \cup N)
<1>1. Formed(c2) /\ c2.kinds \subseteq c.kinds
  BY DEF Lost
<1>2. ASSUME NEW o \in c2.objs PROVE \E p \in c.objs : Same(o, p)
  BY DEF Lost, Same
<1>3. ASSUME NEW p \in c.objs
      PROVE  /\ Key(p) \in Keys(c2.objs) \cup M \cup N
             /\ p.kind = "CRD" /\ Key(p) \notin Keys(c2.objs) => p.name \notin c2.kinds
  <2>1. CASE Key(p) \in Keys(c1.objs)
    <3>1. PICK q \in c1.objs : Key(q) = Key(p)
      BY <2>1, InKeys
    <3>2. Key(q) \in Keys(c2.objs) \cup N /\ (q.kind = "CRD" /\ Key(q) \notin Keys(c2.objs) => q.name \notin c2.kinds)
      BY DEF Lost
    <3>3. q.kind = p.kind /\ q.name = p.name
      BY <3>1, KeyFields
    <3> QED
      BY <3>1, <3>2, <3>3
  <2>2. CASE Key(p) \notin Keys(c1.objs)
    <3>1. Key(p) \in M /\ (p.kind = "CRD" => p.name \notin c1.kinds) /\ c2.kinds \subseteq c1.kinds
      BY <2>2 DEF Lost
    <3> QED
      BY <3>1
  <2> QED
    BY <2>1, <2>2
<1> QED
  BY <1>1, <1>2, <1>3 DEF Lost

\* What goes with an object depends on keys only.
LEMMA RemovedKeys ==
    ASSUME NEW c, NEW c0, NEW M, Lost(c, c0, M), NEW o \in c.objs, NEW o0 \in c0.objs, Key(o) = Key(o0)
    PROVE  Keys(Removed(c, o)) \subseteq Keys(Removed(c0, o0))
<1> SUFFICES ASSUME NEW q \in Removed(c, o) PROVE Key(q) \in Keys(Removed(c0, o0))
  BY DEF Keys
<1>1. o.kind = o0.kind /\ o.name = o0.name
  BY KeyFields
<1>2. CASE q = o
  BY <1>2 DEF Removed, Keys
<1>3. CASE q \in c.objs /\ (\/ o.kind = "Namespace" /\ q.ns = o.name
                            \/ o.kind = "CRD" /\ q.kind = o.name)
  <2>1. PICK p \in c0.objs : Key(q) = Key(p)
    BY <1>3 DEF Lost, Same
  <2>2. q.kind = p.kind /\ q.ns = p.ns
    BY <2>1, KeyFields
  <2>3. p \in Removed(c0, o0)
    BY <1>1, <1>3, <2>2 DEF Removed
  <2> QED
    BY <2>1, <2>3 DEF Keys
<1> QED
  BY <1>2, <1>3 DEF Removed

\* A deletion of the API server.
LEMMA Served ==
    ASSUME NEW of, NEW c \in Worlds(of), Formed(c), NEW o \in c.objs
    PROVE  /\ ServerDelete(c, o) \in Worlds(of)
           /\ Lost(ServerDelete(c, o), c, Keys(Removed(c, o)))
           /\ Key(o) \notin Keys(ServerDelete(c, o).objs)
<1> DEFINE e == ServerDelete(c, o)
<1>1. /\ e \in Worlds(of) /\ e.objs = c.objs \ Removed(c, o)
      /\ e.kinds = IF o.kind = "CRD" THEN c.kinds \ {o.name} ELSE c.kinds
  BY DEF ServerDelete, Worlds
<1> HIDE DEF e
<1>2. o \in Removed(c, o)
  BY DEF Removed
<1>3. Key(o) \notin Keys(e.objs)
  <2> SUFFICES ASSUME NEW p \in e.objs, Key(p) = Key(o) PROVE FALSE
    BY InKeys
  <2> QED
    BY <1>1, <1>2 DEF Formed
<1>4. Formed(e)
  <2>1. Global \subseteq e.kinds
    BY <1>1 DEF Formed
  <2>2. ASSUME NEW p \in e.objs
        PROVE  /\ p.kind \in e.kinds
               /\ p.ns # "" => \E n \in e.objs : n.kind = "Namespace" /\ n.name = p.ns
    <3>1. p \in c.objs /\ p \notin Removed(c, o)
      BY <1>1
    <3>2. p.kind \in e.kinds
      BY <1>1, <3>1 DEF Removed, Formed
    <3>3. ASSUME p.ns # "" PROVE \E n \in e.objs : n.kind = "Namespace" /\ n.name = p.ns
      <4>1. PICK n \in c.objs : n.kind = "Namespace" /\ n.name = p.ns
        BY <3>1, <3>3 DEF Formed
      <4>2. n.ns = "" /\ "Namespace" \in Global
        BY <4>1 DEF Formed, Global
      <4>3. n # o
        <5> SUFFICES ASSUME n = o PROVE FALSE
          OBVIOUS
        <5> QED
          BY <3>1, <4>1 DEF Removed
      <4>4. ~(o.kind = "Namespace" /\ n.ns = o.name)
        BY <4>2 DEF Formed
      <4>5. ~(o.kind = "CRD" /\ n.kind = o.name)
        BY <4>1, <4>2 DEF Formed
      <4>6. n \notin Removed(c, o)
        BY <4>3, <4>4, <4>5 DEF Removed
      <4> QED
        BY <1>1, <4>1, <4>6
    <3> QED
      BY <3>2, <3>3
  <2>3. \A p \in e.objs : p \in c.objs
    BY <1>1
  <2> QED
    BY <2>1, <2>2, <2>3 DEF Formed
<1>5. \A p \in e.objs : \E q \in c.objs : Same(p, q)
  BY <1>1 DEF Same
<1>6. ASSUME NEW p \in c.objs
      PROVE  /\ Key(p) \in Keys(e.objs) \cup Keys(Removed(c, o))
             /\ p.kind = "CRD" /\ Key(p) \notin Keys(e.objs) => p.name \notin e.kinds
  <2>1. CASE p \in Removed(c, o)
    <3>1. Key(p) \in Keys(Removed(c, o))
      BY <2>1 DEF Keys
    <3>2. ASSUME p.kind = "CRD" PROVE p.name \notin e.kinds
      <4>1. p.ns = "" /\ "CRD" \in Global
        BY <3>2 DEF Formed, Global
      <4>2. ~(o.kind = "Namespace" /\ p.ns = o.name)
        BY <4>1 DEF Formed
      <4>3. ~(o.kind = "CRD" /\ p.kind = o.name)
        BY <3>2, <4>1 DEF Formed
      <4>4. p = o
        BY <2>1, <4>2, <4>3 DEF Removed
      <4> QED
        BY <1>1, <3>2, <4>4
    <3> QED
      BY <3>1, <3>2
  <2>2. CASE p \notin Removed(c, o)
    <3>1. p \in e.objs
      BY <1>1, <2>2
    <3> QED
      BY <3>1 DEF Keys
  <2> QED
    BY <2>1, <2>2
<1>7. e.kinds \subseteq c.kinds
  BY <1>1
<1>8. Lost(e, c, Keys(Removed(c, o)))
  BY <1>4, <1>5, <1>6, <1>7 DEF Lost
<1> QED
  BY <1>1, <1>3, <1>8 DEF e

-----------------------------------------------------------------------------
AllRemoved(c, S) == UNION {Removed(c, o) : o \in S}

\* What was lost is among more objects.
LEMMA LostWider ==
    ASSUME NEW c, NEW c0, NEW M, NEW N, Lost(c, c0, M), M \subseteq N
    PROVE  Lost(c, c0, N)
BY DEF Lost

\* q goes when someone deletes p.
Goes(p, q) ==
    \/ Key(q) = Key(p)
    \/ p.kind = "Namespace" /\ q.ns = p.name
    \/ p.kind = "CRD" /\ q.kind = p.name

\* Who goes is known from the keys that a client saw.
LEMMA GoesByKey ==
    ASSUME NEW c, NEW c0, NEW M, Lost(c, c0, M), NEW gone \in SUBSET c0.objs, NEW q \in c.objs
    PROVE  (\E p \in gone : Goes(p, q)) <=> Key(q) \in Keys(AllRemoved(c, gone))
<1>1. ASSUME NEW p \in gone, Goes(p, q) PROVE Key(q) \in Keys(AllRemoved(c, gone))
  <2>1. PICK q1 \in Removed(c, p) : Key(q1) = Key(q)
    BY <1>1 DEF Goes, Removed
  <2> QED
    BY <2>1 DEF Keys, AllRemoved
<1>2. ASSUME Key(q) \in Keys(AllRemoved(c, gone)) PROVE \E p \in gone : Goes(p, q)
  <2>1. PICK q1 \in AllRemoved(c, gone) : Key(q1) = Key(q)
    BY <1>2, InKeys
  <2>2. PICK p \in gone : q1 \in Removed(c, p)
    BY <2>1 DEF AllRemoved
  <2>3. q1.kind = q.kind /\ q1.ns = q.ns
    BY <2>1, KeyFields
  <2>4. Goes(p, q)
    BY <2>1, <2>2, <2>3 DEF Removed, Goes
  <2> QED
    BY <2>4
<1> QED
  BY <1>1, <1>2

\* What others delete, while the client has deleted nothing yet.
LEMMA LostMeanwhile ==
    ASSUME NEW of, NEW c \in Worlds(of), NEW c0, Formed(c0), Lost(c, c0, {}), NEW gone \in SUBSET c0.objs
    PROVE  /\ Meanwhile(c, gone) \in Worlds(of)
           /\ Lost(Meanwhile(c, gone), c0, Keys(AllRemoved(c0, gone)))
<1> DEFINE e == Meanwhile(c, gone)
<1>0. Formed(c)
  BY DEF Lost
<1>1. /\ e \in Worlds(of)
      /\ e.objs = {q \in c.objs : Key(q) \notin Keys(AllRemoved(c, gone))}
      /\ e.kinds = c.kinds \ {o.name : o \in {p \in gone : p.kind = "CRD"}}
  BY DEF Meanwhile, Worlds, AllRemoved
<1> HIDE DEF e
<1>2. ASSUME NEW q \in c.objs PROVE q \in e.objs <=> ~\E p \in gone : Goes(p, q)
  BY <1>1, GoesByKey
<1>3. ASSUME NEW k PROVE k \in e.kinds <=> k \in c.kinds /\ ~\E p \in gone : p.kind = "CRD" /\ p.name = k
  BY <1>1
<1>4. Formed(e)
  <2>1. Global \subseteq e.kinds
    <3> SUFFICES ASSUME NEW k \in Global PROVE k \in e.kinds
      OBVIOUS
    <3>1. k \in c.kinds
      BY <1>0 DEF Formed
    <3>2. \A p \in gone : p.kind = "CRD" => p.name # k
      BY DEF Formed
    <3> QED
      BY <1>3, <3>1, <3>2
  <2>2. ASSUME NEW q \in e.objs
        PROVE  /\ q.kind \in e.kinds
               /\ q.ns # "" => \E n \in e.objs : n.kind = "Namespace" /\ n.name = q.ns
    <3>1. q \in c.objs /\ ~\E p \in gone : Goes(p, q)
      BY <1>1, <1>2
    <3>2. q.kind \in e.kinds
      <4>1. q.kind \in c.kinds
        BY <1>0, <3>1 DEF Formed
      <4>2. ~\E p \in gone : p.kind = "CRD" /\ p.name = q.kind
        BY <3>1 DEF Goes
      <4> QED
        BY <1>3, <4>1, <4>2
    <3>3. ASSUME q.ns # "" PROVE \E n \in e.objs : n.kind = "Namespace" /\ n.name = q.ns
      <4>1. PICK n \in c.objs : n.kind = "Namespace" /\ n.name = q.ns
        BY <1>0, <3>1, <3>3 DEF Formed
      <4>2. "Namespace" \in Global
        BY DEF Global
      <4>3. n.ns = ""
        BY <1>0, <4>1, <4>2 DEF Formed
      <4>4. ASSUME NEW p \in gone PROVE ~Goes(p, n)
        <5>1. Key(n) # Key(p)
          <6> SUFFICES ASSUME Key(n) = Key(p) PROVE FALSE
            OBVIOUS
          <6>1. p.kind = "Namespace" /\ p.name = q.ns
            BY <4>1, KeyFields
          <6> QED
            BY <3>1, <6>1 DEF Goes
        <5>2. p.kind = "Namespace" => p.name # ""
          BY DEF Formed
        <5>3. p.kind = "CRD" => p.name \notin Global
          BY DEF Formed
        <5> QED
          BY <4>1, <4>2, <4>3, <5>1, <5>2, <5>3 DEF Goes
      <4> QED
        BY <1>2, <4>1, <4>4
    <3> QED
      BY <3>2, <3>3
  <2>3. \A q \in e.objs : q \in c.objs
    BY <1>1
  <2> QED
    BY <1>0, <2>1, <2>2, <2>3 DEF Formed
<1>5. \A q \in e.objs : \E p \in c0.objs : Same(q, p)
  BY <1>1 DEF Lost
<1>6. ASSUME NEW p0 \in c0.objs
      PROVE  /\ Key(p0) \in Keys(e.objs) \cup Keys(AllRemoved(c0, gone))
             /\ p0.kind = "CRD" /\ Key(p0) \notin Keys(e.objs) => p0.name \notin e.kinds
  <2>1. PICK q \in c.objs : Key(q) = Key(p0)
    BY InKeys DEF Lost
  <2>2. q.kind = p0.kind /\ q.ns = p0.ns /\ q.name = p0.name
    BY <2>1, KeyFields
  <2>3. CASE q \in e.objs
    BY <2>1, <2>3 DEF Keys
  <2>4. CASE q \notin e.objs
    <3>1. PICK p \in gone : Goes(p, q)
      BY <1>2, <2>4
    <3>2. Goes(p, p0)
      BY <2>1, <2>2, <3>1 DEF Goes
    <3>3. Lost(c0, c0, {})
      BY LostNothing
    <3>4. Key(p0) \in Keys(AllRemoved(c0, gone))
      BY <3>2, <3>3, GoesByKey
    <3>5. ASSUME p0.kind = "CRD" PROVE p0.name \notin e.kinds
      <4>1. "CRD" \in Global
        BY DEF Global
      <4>2. p0.ns = ""
        BY <3>5, <4>1 DEF Formed
      <4>3. p.kind = "Namespace" => p.name # ""
        BY DEF Formed
      <4>4. p.kind = "CRD" => p.name \notin Global
        BY DEF Formed
      <4>5. Key(p0) = Key(p)
        BY <3>2, <3>5, <4>1, <4>2, <4>3, <4>4 DEF Goes
      <4>6. p.kind = "CRD" /\ p.name = p0.name
        BY <3>5, <4>5, KeyFields
      <4> QED
        BY <1>3, <4>6
    <3> QED
      BY <3>4, <3>5
  <2> QED
    BY <2>3, <2>4
<1>7. e.kinds \subseteq c0.kinds
  BY <1>1 DEF Lost
<1>8. Lost(e, c0, Keys(AllRemoved(c0, gone)))
  BY <1>4, <1>5, <1>6, <1>7 DEF Lost
<1> QED
  BY <1>1, <1>8 DEF e

\* A resource client changes what is known of the API server only.
LEMMA Resolved ==
    ASSUME NEW of, NEW c \in Worlds(of), NEW kind
    PROVE  LET r == getResourceClient(c, kind)
           IN  /\ r.val \in Worlds(of) /\ r.val.objs = c.objs /\ r.val.kinds = c.kinds
               /\ r.ok \in BOOLEAN /\ (r.ok <=> kind \in c.kinds /\ ResolveKind(c, kind).ok)
               /\ kind \in c.kinds => r.ok
               /\ ~r.ok => r.cause \in {"nomatch", "notfound"}
               /\ c.known = {} /\ ~r.ok => r.cause = "nomatch"
               /\ r = IF r.ok THEN Ok(r.val) ELSE Err(r.cause, r.val)
BY DEF getResourceClient, ResolveKind, resolveKind, Ok, Err, Worlds

-----------------------------------------------------------------------------
\* A result of the client that was at c0 before.
Result(of, r, c0, M) ==
    /\ r.ok \in BOOLEAN /\ r.val \in Worlds(of) /\ Lost(r.val, c0, M)
    /\ r = IF r.ok THEN Ok(r.val) ELSE Err(r.cause, r.val)
    /\ ~r.ok => r.cause \in {"nomatch", "notfound", "other"}

\* Clusters with the same objects and kinds differ by no loss.
LEMMA SameObjects ==
    ASSUME NEW c, NEW c1, Formed(c), c1.objs = c.objs, c1.kinds = c.kinds
    PROVE  Formed(c1) /\ Lost(c1, c, {})
BY DEF Formed, Lost, Same, Keys

\* deleteIfFound, for all objects of a cluster.
LEMMA DeletedIfFound ==
    ASSUME NEW of, NEW c \in Worlds(of), Formed(c), NEW down, NEW kind, NEW ns, NEW name
    PROVE  LET r == deleteIfFound(c, down, kind, ns, name)
           IN  /\ Result(of, r, c, Keys(AllRemoved(c, Addressed(c, kind, ns, name))))
               /\ r.ok => Addressed(r.val, kind, ns, name) = {}
               /\ Addressed(c, kind, ns, name) = {} => r.ok /\ r.val.objs = c.objs
<1> DEFINE r == getResourceClient(c, kind)
           found == Addressed(c, kind, ns, name)
           M == Keys(AllRemoved(c, found))
           e == deleteIfFound(c, down, kind, ns, name)
<1>1. /\ r.val \in Worlds(of) /\ r.val.objs = c.objs /\ r.val.kinds = c.kinds /\ r.ok \in BOOLEAN
      /\ kind \in c.kinds => r.ok
      /\ ~r.ok => r.cause \in {"nomatch", "notfound"}
  BY Resolved
<1>2. Formed(r.val) /\ Lost(r.val, c, {}) /\ Lost(r.val, c, M)
  <2>1. Formed(r.val) /\ Lost(r.val, c, {})
    BY <1>1, SameObjects
  <2> QED
    BY <2>1, LostWider
<1>3. found \subseteq c.objs /\ \A x, y \in found : x = y
  BY DEF Addressed, Formed, Key
<1>4. CASE ~r.ok \/ found = {}
  <2>1. e = Ok(r.val)
    BY <1>1, <1>4 DEF deleteIfFound, Delete, Err, Ok
  <2>2. found = {}
    BY <1>1, <1>4 DEF Addressed, Formed
  <2>3. Addressed(r.val, kind, ns, name) = {}
    BY <1>1, <2>2 DEF Addressed
  <2> HIDE DEF e, r, M
  <2>4. e.ok = TRUE /\ e.val = r.val
    BY <2>1 DEF Ok
  <2>5. Result(of, e, c, M)
    BY <1>1, <1>2, <2>1, <2>4 DEF Result
  <2> QED
    BY <1>1, <2>3, <2>4, <2>5 DEF e, M
<1>5. CASE r.ok /\ found # {}
  <2> DEFINE o == CHOOSE o \in found : TRUE
  <2>1. o \in found
    BY <1>5
  <2>2. CASE name \in down \/ Protected(o)
    <3>1. e = Err("other", r.val)
      BY <1>5, <2>2 DEF deleteIfFound, Delete, Err, Ok
    <3> HIDE DEF e, r, M
    <3>2. e.ok = FALSE /\ e.val = r.val /\ e.cause = "other"
      BY <3>1 DEF Err
    <3>3. Result(of, e, c, M)
      BY <1>1, <1>2, <3>1, <3>2 DEF Result
    <3> QED
      BY <1>5, <3>2, <3>3 DEF e, M
  <2>3. CASE ~(name \in down \/ Protected(o))
    <3>1. e = Ok(ServerDelete(r.val, o))
      BY <1>5, <2>3 DEF deleteIfFound, Delete, Err, Ok
    <3> HIDE DEF e, r, M, o
    <3>2. o \in r.val.objs
      BY <1>1, <1>3, <2>1
    <3>3. /\ ServerDelete(r.val, o) \in Worlds(of)
          /\ Lost(ServerDelete(r.val, o), r.val, Keys(Removed(r.val, o)))
          /\ Key(o) \notin Keys(ServerDelete(r.val, o).objs)
      BY <1>1, <1>2, <3>2, Served
    <3>4. Removed(r.val, o) = Removed(c, o)
      BY <1>1 DEF Removed
    <3>5. Keys(Removed(c, o)) \subseteq M
      BY <2>1 DEF Keys, M, AllRemoved
    <3>6. Lost(ServerDelete(r.val, o), c, M)
      <4>1. Lost(ServerDelete(r.val, o), c, {} \cup Keys(Removed(c, o)))
        BY <1>2, <3>3, <3>4, LostMore
      <4> QED
        BY <3>5, <4>1, LostWider
    <3>7. e.ok = TRUE /\ e.val = ServerDelete(r.val, o)
      BY <3>1 DEF Ok
    <3>8. Result(of, e, c, M)
      BY <3>1, <3>3, <3>6, <3>7 DEF Result
    <3>9. Addressed(e.val, kind, ns, name) = {}
      <4> SUFFICES ASSUME NEW q \in e.val.objs, q.kind = kind, q.ns = ns, q.name = name PROVE FALSE
        BY DEF Addressed
      <4>1. o.kind = kind /\ o.ns = ns /\ o.name = name
        BY <2>1 DEF Addressed
      <4>2. Key(q) = Key(o)
        BY <4>1, KeyFields
      <4> QED
        BY <3>3, <3>7, <4>2, InKeys
    <3> QED
      BY <1>5, <3>8, <3>9 DEF e, M
  <2> QED
    BY <2>2, <2>3
<1> QED
  BY <1>1, <1>4, <1>5

\* What overrideDeletionProtection answers.
Marks(of, c, kind, ns, name, r) ==
    /\ Result(of, r, c, {})
    /\ r.val.kinds = c.kinds
    /\ name # "" => r.ok
    /\ Addressed(c, kind, ns, name) = {} => r.val.objs = c.objs

\* overrideDeletionProtection marks and deletes nothing.
LEMMA Overridden ==
    ASSUME NEW of, NEW c \in Worlds(of), Formed(c), NEW kind, NEW ns, NEW name
    PROVE  Marks(of, c, kind, ns, name, overrideDeletionProtection(c, kind, ns, name))
<1> DEFINE g == getResourceClient(c, kind)
           found == Addressed(c, kind, ns, name)
           r == overrideDeletionProtection(c, kind, ns, name)
<1>1. /\ g.val \in Worlds(of) /\ g.val.objs = c.objs /\ g.val.kinds = c.kinds /\ g.ok \in BOOLEAN
      /\ kind \in c.kinds => g.ok
  BY Resolved
<1>2. CASE kind # "Namespace"
  <2>1. r = Ok(c)
    BY <1>2 DEF overrideDeletionProtection
  <2> HIDE DEF r
  <2>2. r.ok = TRUE /\ r.val = c
    BY <2>1 DEF Ok
  <2>3. Result(of, r, c, {})
    BY <2>1, <2>2, LostNothing DEF Result
  <2> QED
    BY <1>2, <2>1, <2>2, <2>3 DEF r, Marks
<1>3. CASE kind = "Namespace"
  <2>1. g.ok
    BY <1>1, <1>3 DEF Formed, Global
  <2>2. Formed(g.val) /\ Lost(g.val, c, {})
    BY <1>1, SameObjects
  <2>3. CASE name = ""
    <3>1. r = Err("other", g.val)
      BY <1>3, <2>1, <2>3 DEF overrideDeletionProtection
    <3> HIDE DEF r, g
    <3>2. r.ok = FALSE /\ r.val = g.val /\ r.cause = "other"
      BY <3>1 DEF Err
    <3>3. Result(of, r, c, {})
      BY <1>1, <2>2, <3>1, <3>2 DEF Result
    <3> QED
      BY <1>1, <1>3, <2>3, <3>2, <3>3 DEF r, Marks
  <2>4. CASE name # ""
    <3> DEFINE objs == (g.val.objs \ found) \cup {[o EXCEPT !.marked = TRUE] : o \in found}
               w == [g.val EXCEPT !.objs = objs]
    <3>1. r = Ok(w)
      <4>1. r = Ok([g.val EXCEPT !.objs = (@ \ found) \cup {[o EXCEPT !.marked = TRUE] : o \in found}])
        BY <1>3, <2>1, <2>4 DEF overrideDeletionProtection
      <4>2. [g.val EXCEPT !.objs = (@ \ found) \cup {[o EXCEPT !.marked = TRUE] : o \in found}] = w
        BY <1>1 DEF Worlds
      <4> QED
        BY <4>1, <4>2
    <3>2. found \subseteq c.objs /\ c.objs \subseteq Objs(of)
      BY DEF Addressed, Worlds
    <3>3. ASSUME NEW o \in Objs(of)
          PROVE  [o EXCEPT !.marked = TRUE] \in Objs(of) /\ Same([o EXCEPT !.marked = TRUE], o)
      BY DEF Objs, Same, Key
    <3>4. objs \subseteq Objs(of)
      BY <1>1, <3>2, <3>3
    <3>5. w \in Worlds(of) /\ w.objs = objs /\ w.kinds = c.kinds
      BY <1>1, <3>4 DEF Worlds
    <3>6. \A o \in objs : \E p \in c.objs : Same(o, p)
      <4>1. ASSUME NEW o \in g.val.objs PROVE Same(o, o) /\ o \in c.objs
        BY <1>1 DEF Same
      <4> QED
        BY <3>2, <3>3, <4>1
    <3>7. \A p \in c.objs : \E o \in objs : Same(o, p)
      <4>1. ASSUME NEW p \in c.objs, p \in found PROVE [p EXCEPT !.marked = TRUE] \in objs
        BY <4>1
      <4>2. ASSUME NEW p \in c.objs, p \notin found PROVE p \in objs /\ Same(p, p)
        BY <1>1, <4>2 DEF Same
      <4> QED
        BY <3>2, <3>3, <4>1, <4>2
    <3>8. \A o, p \in objs : Key(o) = Key(p) => o = p
      <4> SUFFICES ASSUME NEW o \in objs, NEW p \in objs, Key(o) = Key(p) PROVE o = p
        OBVIOUS
      <4>1. \A x, y \in c.objs : Key(x) = Key(y) => x = y
        BY DEF Formed
      <4>2. \E x \in c.objs : Key(x) = Key(o) /\ (IF x \in found THEN o = [x EXCEPT !.marked = TRUE] ELSE o = x)
        <5>1. CASE o \in g.val.objs \ found
          BY <1>1, <5>1
        <5>2. CASE o \in {[x EXCEPT !.marked = TRUE] : x \in found}
          <6>1. PICK x \in found : o = [x EXCEPT !.marked = TRUE]
            BY <5>2
          <6>2. Key(o) = Key(x)
            BY <3>2, <3>3, <6>1 DEF Same
          <6> QED
            BY <3>2, <6>1, <6>2
        <5> QED
          BY <5>1, <5>2
      <4>3. \E y \in c.objs : Key(y) = Key(p) /\ (IF y \in found THEN p = [y EXCEPT !.marked = TRUE] ELSE p = y)
        <5>1. CASE p \in g.val.objs \ found
          BY <1>1, <5>1
        <5>2. CASE p \in {[x EXCEPT !.marked = TRUE] : x \in found}
          <6>1. PICK x \in found : p = [x EXCEPT !.marked = TRUE]
            BY <5>2
          <6>2. Key(p) = Key(x)
            BY <3>2, <3>3, <6>1 DEF Same
          <6> QED
            BY <3>2, <6>1, <6>2
        <5> QED
          BY <5>1, <5>2
      <4> HIDE DEF objs
      <4> QED
        BY <4>1, <4>2, <4>3
    <3>9. found = {} => objs = c.objs
      BY <1>1
    <3> HIDE DEF objs
    <3>10. \A o \in objs : \E p \in c.objs : o.kind = p.kind /\ o.ns = p.ns /\ o.name = p.name
      BY <3>6, KeyFields DEF Same
    <3>11. \A p \in c.objs : \E o \in objs : o.kind = p.kind /\ o.ns = p.ns /\ o.name = p.name
      BY <3>7, KeyFields DEF Same
    <3>12. Formed(w)
      <4>1. Global \subseteq w.kinds
        BY <3>5 DEF Formed
      <4>2. ASSUME NEW o \in objs
            PROVE  /\ o.kind \in w.kinds
                   /\ o.ns # "" => \E n \in objs : n.kind = "Namespace" /\ n.name = o.ns
                   /\ o.kind \in Global => o.ns = ""
                   /\ o.kind = "Namespace" => o.name # ""
                   /\ o.kind = "CRD" => o.name \notin Global
        <5>1. PICK p \in c.objs : o.kind = p.kind /\ o.ns = p.ns /\ o.name = p.name
          BY <3>10
        <5>2. /\ p.kind \in c.kinds
              /\ p.ns # "" => \E n \in c.objs : n.kind = "Namespace" /\ n.name = p.ns
              /\ p.kind \in Global => p.ns = ""
              /\ p.kind = "Namespace" => p.name # ""
              /\ p.kind = "CRD" => p.name \notin Global
          BY DEF Formed
        <5> QED
          BY <3>5, <3>11, <5>1, <5>2
      <4> HIDE DEF w
      <4> QED
        BY <3>5, <3>8, <4>1, <4>2 DEF Formed
    <3>13. Lost(w, c, {})
      <4> HIDE DEF w
      <4>1. \A p \in c.objs : Key(p) \in Keys(w.objs)
        BY <3>5, <3>7 DEF Same, Keys
      <4> QED
        BY <3>5, <3>6, <3>12, <4>1 DEF Lost
    <3> HIDE DEF w, r
    <3>14. r.ok = TRUE /\ r.val = w
      BY <3>1 DEF Ok
    <3>15. Result(of, r, c, {})
      BY <3>1, <3>5, <3>13, <3>14 DEF Result
    <3> QED
      BY <1>3, <3>5, <3>9, <3>14, <3>15 DEF r, Marks
  <2> QED
    BY <2>3, <2>4
<1> QED
  BY <1>2, <1>3

-----------------------------------------------------------------------------
DeleteItems(down, d, b, S) == FoldSet(LAMBDA o, r : DeleteItem(down, d, o, r), b, S)

\* A property of the items deleted so far and the result, that each further item
\* keeps, holds of all items.
LEMMA ItemsDeleted ==
    ASSUME NEW V, NEW S, IsFiniteSet(S), NEW b \in V, NEW down, NEW d,
           \A o \in S, r \in V : DeleteItem(down, d, o, r) \in V,
           NEW T, <<{}, b>> \in T,
           \A s \in SUBSET S, v \in V : \A x \in S \ s :
               <<s, v>> \in T => <<s \cup {x}, DeleteItem(down, d, x, v)>> \in T
    PROVE  DeleteItems(down, d, b, S) \in V /\ <<S, DeleteItems(down, d, b, S)>> \in T
<1> DEFINE F == [p \in S \X V |-> DeleteItem(down, d, p[1], p[2])]
           Body(f) == [s \in SUBSET S |->
                          IF s = {} THEN b ELSE DeleteItem(down, d, Pick1(s), f[s \ {Pick1(s)}])]
           iter == CHOOSE f : f = Body(f)
           res == DeleteItems(down, d, b, S)
<1>1. res = iter[S]
  BY Zenon DEF DeleteItems, FoldSet, MapThenFoldSet, Pick1
<1> HIDE DEF res
<1>2. F \in [S \X V -> V] /\ \A o \in S, r \in V : F[<<o, r>>] = DeleteItem(down, d, o, r)
  OBVIOUS
<1>3. FoldOverSet(V, S, b, F)
  BY <1>2 DEF FoldOverSet
<1> HIDE DEF F
<1>4. PICK g : Gathers(g, V, S, b, F)
  BY <1>3, Gathered
<1>5. ASSUME NEW s \in SUBSET S, s # {} PROVE g[s] = DeleteItem(down, d, Pick1(s), g[s \ {Pick1(s)}])
  <2>1. Pick1(s) \in S /\ g[s \ {Pick1(s)}] \in V /\ g[s] = F[<<Pick1(s), g[s \ {Pick1(s)}]>>]
    BY <1>4, <1>5 DEF Gathers
  <2> QED
    BY <1>2, <2>1
<1>6. g = Body(g)
  <2>1. g \in [SUBSET S -> V] /\ g[{}] = b
    BY <1>4 DEF Gathers
  <2> QED
    BY <1>5, <2>1
<1>7. iter = Body(iter)
  BY <1>6, Zenon
<1> HIDE DEF iter
<1>8. iter[{}] = b
  BY <1>7
<1>9. ASSUME NEW s \in SUBSET S, s # {}, iter[s \ {Pick1(s)}] \in V
      PROVE  iter[s] = F[<<Pick1(s), iter[s \ {Pick1(s)}]>>]
  <2>1. Pick1(s) \in S
    BY <1>4, <1>9 DEF Gathers
  <2>2. iter[s] = DeleteItem(down, d, Pick1(s), iter[s \ {Pick1(s)}])
    BY <1>7, <1>9
  <2> QED
    BY <1>2, <1>9, <2>1, <2>2
<1>10. Gathering(iter, V, S, b, F)
  BY <1>8, <1>9 DEF Gathering
<1>11. \A s \in SUBSET S, v \in V : \A x \in S \ s : <<s, v>> \in T => <<s \cup {x}, F[<<x, v>>]>> \in T
  BY <1>2
<1>12. iter[S] \in V /\ <<S, iter[S]>> \in T
  BY <1>3, <1>10, <1>11, GatheredBy
<1> QED
  BY <1>1, <1>12 DEF res

Results(of, c0, M) ==
    {Ok(w) : w \in {v \in Worlds(of) : Lost(v, c0, M)}}
    \cup {Err(x, w) : x \in {"nomatch", "notfound", "other"}, w \in {v \in Worlds(of) : Lost(v, c0, M)}}

\* Results are a set, so that a fold can be typed.
LEMMA ResultsAre ==
    ASSUME NEW of, NEW c0, NEW M, NEW r
    PROVE  r \in Results(of, c0, M) <=> Result(of, r, c0, M)
<1>1. ASSUME r \in Results(of, c0, M) PROVE Result(of, r, c0, M)
  <2>1. PICK w \in {v \in Worlds(of) : Lost(v, c0, M)} :
               r = Ok(w) \/ \E x \in {"nomatch", "notfound", "other"} : r = Err(x, w)
    BY <1>1 DEF Results
  <2>2. CASE r = Ok(w)
    <3>1. r.ok = TRUE /\ r.val = w
      BY <2>2 DEF Ok
    <3> QED
      BY <2>2, <3>1 DEF Result
  <2>3. ASSUME NEW x \in {"nomatch", "notfound", "other"}, r = Err(x, w) PROVE Result(of, r, c0, M)
    <3>1. r.ok = FALSE /\ r.val = w /\ r.cause = x
      BY <2>3 DEF Err
    <3> QED
      BY <2>3, <3>1 DEF Result
  <2> QED
    BY <2>1, <2>2, <2>3
<1>2. ASSUME Result(of, r, c0, M) PROVE r \in Results(of, c0, M)
  <2>1. r.val \in {v \in Worlds(of) : Lost(v, c0, M)}
    BY <1>2 DEF Result
  <2>2. CASE r.ok
    <3>1. r = Ok(r.val)
      BY <1>2, <2>2 DEF Result
    <3> QED
      BY <2>1, <3>1 DEF Results
  <2>3. CASE ~r.ok
    <3>1. r = Err(r.cause, r.val) /\ r.cause \in {"nomatch", "notfound", "other"}
      BY <1>2, <2>3 DEF Result
    <3> QED
      BY <2>1, <3>1 DEF Results
  <2> QED
    BY <2>2, <2>3
<1> QED
  BY <1>1, <1>2

\* One of the objects that a selector lists.
LEMMA ItemDeleted ==
    ASSUME NEW of, NEW c, Formed(c), NEW N, NEW r, Result(of, r, c, N),
           NEW o \in c.objs, Keys(Removed(c, o)) \subseteq N, NEW down, NEW d, o.kind = d.kind
    PROVE  LET e == DeleteItem(down, d, o, r)
           IN  /\ Result(of, e, c, N)
               /\ e.ok => r.ok /\ Key(o) \notin Keys(e.val.objs) /\ Keys(e.val.objs) \subseteq Keys(r.val.objs)
<1> DEFINE p == overrideDeletionProtection(r.val, d.kind, d.ns, d.name)
           e == DeleteItem(down, d, o, r)
<1>0. r.val \in Worlds(of) /\ Formed(r.val) /\ Lost(r.val, c, N) /\ r.ok \in BOOLEAN
  BY DEF Result, Lost
<1>1. CASE ~r.ok
  <2>1. e = r
    BY <1>1 DEF DeleteItem
  <2> QED
    BY <1>1, <2>1
<1>2. CASE r.ok
  <2>1. Result(of, p, r.val, {})
    BY <1>0, Overridden DEF Marks
  <2>2. p.val \in Worlds(of) /\ Formed(p.val) /\ Lost(p.val, r.val, {}) /\ p.ok \in BOOLEAN
    BY <2>1 DEF Result, Lost
  <2>3. Lost(p.val, c, N)
    <3>1. Lost(p.val, c, N \cup {})
      BY <1>0, <2>2, LostMore
    <3> QED
      BY <3>1, LostWider
  <2>4. CASE ~p.ok
    <3>1. e = p
      BY <1>2, <2>4 DEF DeleteItem
    <3> HIDE DEF e, p
    <3>2. Result(of, e, c, N)
      BY <2>1, <2>3, <3>1 DEF Result
    <3> QED
      BY <2>4, <3>1, <3>2 DEF e
  <2>5. CASE p.ok
    <3> DEFINE found == Addressed(p.val, d.kind, o.ns, o.name)
               M == Keys(AllRemoved(p.val, found))
    <3>1. e = deleteIfFound(p.val, down, d.kind, o.ns, o.name)
      BY <1>2, <2>5 DEF DeleteItem
    <3> HIDE DEF e, p
    <3>2. Result(of, e, p.val, M) /\ (e.ok => Addressed(e.val, d.kind, o.ns, o.name) = {})
      BY <2>2, <3>1, DeletedIfFound
    <3>3. M \subseteq N
      <4>1. ASSUME NEW x \in found PROVE Keys(Removed(p.val, x)) \subseteq N
        <5>1. x \in p.val.objs /\ Key(x) = Key(o)
          BY KeyFields DEF Addressed
        <5> QED
          BY <2>3, <5>1, RemovedKeys
      <4> QED
        BY <4>1 DEF Keys, AllRemoved
    <3> HIDE DEF M
    <3>4. Lost(e.val, p.val, M)
      BY <3>2 DEF Result
    <3>5. Lost(e.val, c, N)
      <4>1. Lost(e.val, c, N \cup M)
        BY <2>3, <3>4, LostMore
      <4> QED
        BY <3>3, <4>1, LostWider
    <3>6. Result(of, e, c, N)
      BY <3>2, <3>5 DEF Result
    <3>7. ASSUME e.ok PROVE Key(o) \notin Keys(e.val.objs)
      <4> SUFFICES ASSUME NEW x \in e.val.objs, Key(x) = Key(o) PROVE FALSE
        BY InKeys
      <4>1. x.kind = d.kind /\ x.ns = o.ns /\ x.name = o.name
        BY KeyFields
      <4> QED
        BY <3>2, <3>7, <4>1 DEF Addressed
    <3>8. Keys(e.val.objs) \subseteq Keys(r.val.objs)
      <4> SUFFICES ASSUME NEW x \in e.val.objs PROVE Key(x) \in Keys(r.val.objs)
        BY DEF Keys
      <4>1. PICK y \in p.val.objs : Key(x) = Key(y)
        BY <3>4 DEF Lost, Same
      <4>2. PICK z \in r.val.objs : Key(y) = Key(z)
        BY <2>2 DEF Lost, Same
      <4> QED
        BY <4>1, <4>2 DEF Keys
    <3> QED
      BY <1>2, <3>6, <3>7, <3>8 DEF e
  <2> QED
    BY <2>2, <2>4, <2>5
<1> QED
  BY <1>0, <1>1, <1>2

-----------------------------------------------------------------------------
\* A deletion removes only what it matches and what others remove, and all that it
\* matches if there is no error.
LEMMA ResourceDeleted ==
    ASSUME NEW of, NEW c \in Worlds(of), Formed(c), IsFiniteSet(c.objs), NEW gone \in SUBSET c.objs, NEW down, NEW d
    PROVE  LET r == DeleteResource(c, gone, down, d)
           IN  /\ Result(of, r, c, Keys(AllRemoved(c, Matches(c, d))) \cup Keys(AllRemoved(c, gone)))
               /\ r.ok => \A o \in Matches(c, d) : Key(o) \notin Keys(r.val.objs)
<1> DEFINE r == DeleteResource(c, gone, down, d)
           M == Keys(AllRemoved(c, Matches(c, d)))
           G == Keys(AllRemoved(c, gone))
           N == M \cup G
<1>0. Lost(c, c, {}) /\ Lost(c, c, N)
  <2>1. Lost(c, c, {})
    BY LostNothing
  <2> QED
    BY <2>1, LostWider
<1>1. CASE Cardinality(Identifiers(d)) # 1 \/ (d.hasOwner # {} /\ ~d.selector /\ ~d.labels)
  <2>1. r = Err("other", c)
    BY <1>1 DEF DeleteResource
  <2> HIDE DEF r, N
  <2>2. r.ok = FALSE /\ r.val = c /\ r.cause = "other"
    BY <2>1 DEF Err
  <2>3. Result(of, r, c, N)
    BY <1>0, <2>1, <2>2 DEF Result
  <2> QED
    BY <2>2, <2>3 DEF r, N
<1>2. CASE ~(Cardinality(Identifiers(d)) # 1 \/ (d.hasOwner # {} /\ ~d.selector /\ ~d.labels)) /\ d.name # ""
  <2> DEFINE p == overrideDeletionProtection(c, d.kind, d.ns, d.name)
             w == Meanwhile(p.val, gone)
             e == deleteIfFound(w, down, d.kind, d.ns, d.name)
             found == Addressed(w, d.kind, d.ns, d.name)
  <2>1. Result(of, p, c, {}) /\ p.ok
    BY <1>2, Overridden DEF Marks
  <2>2. p.val \in Worlds(of) /\ Lost(p.val, c, {})
    BY <2>1 DEF Result
  <2>3. r = e
    BY <1>2, <2>1 DEF DeleteResource
  <2> HIDE DEF p
  <2>4. w \in Worlds(of) /\ Lost(w, c, G)
    BY <2>2, LostMeanwhile
  <2>5. Formed(w)
    BY <2>4 DEF Lost
  <2> HIDE DEF w, G
  <2>6. Result(of, e, w, Keys(AllRemoved(w, found))) /\ (e.ok => Addressed(e.val, d.kind, d.ns, d.name) = {})
    BY <2>4, <2>5, DeletedIfFound
  <2>7. Keys(AllRemoved(w, found)) \subseteq M
    <3>1. ASSUME NEW x \in found PROVE Keys(Removed(w, x)) \subseteq M
      <4>1. x \in w.objs /\ x.kind = d.kind /\ x.ns = d.ns /\ x.name = d.name
        BY DEF Addressed
      <4>2. PICK y \in c.objs : Same(x, y)
        BY <2>4, <4>1 DEF Lost
      <4>3. Key(x) = Key(y) /\ y.kind = d.kind /\ y.ns = d.ns /\ y.name = d.name
        BY <4>1, <4>2, KeyFields DEF Same
      <4>4. y \in Matches(c, d)
        BY <1>2, <4>3 DEF Matches, Addressed
      <4>5. Keys(Removed(w, x)) \subseteq Keys(Removed(c, y))
        BY <2>4, <4>1, <4>3, RemovedKeys
      <4>6. Keys(Removed(c, y)) \subseteq M
        BY <4>4 DEF Keys, AllRemoved
      <4> QED
        BY <4>5, <4>6
    <3> HIDE DEF M, found
    <3> QED
      BY <3>1 DEF Keys, AllRemoved
  <2> HIDE DEF e, M
  <2>8. Lost(e.val, c, N)
    <3>1. Lost(e.val, w, Keys(AllRemoved(w, found)))
      BY <2>6 DEF Result
    <3>2. Lost(e.val, c, G \cup Keys(AllRemoved(w, found)))
      BY <2>4, <3>1, LostMore
    <3> QED
      BY <2>7, <3>2, LostWider
  <2>9. Result(of, e, c, N)
    BY <2>6, <2>8 DEF Result
  <2>10. ASSUME e.ok, NEW o \in Matches(c, d) PROVE Key(o) \notin Keys(e.val.objs)
    <3> SUFFICES ASSUME NEW x \in e.val.objs, Key(x) = Key(o) PROVE FALSE
      BY InKeys
    <3>1. o.kind = d.kind /\ o.ns = d.ns /\ o.name = d.name
      BY <1>2 DEF Matches, Addressed
    <3>2. x.kind = d.kind /\ x.ns = d.ns /\ x.name = d.name
      BY <3>1, KeyFields
    <3> QED
      BY <2>6, <2>10, <3>2 DEF Addressed
  <2> QED
    BY <2>3, <2>9, <2>10 DEF M, G
<1>3. CASE ~(Cardinality(Identifiers(d)) # 1 \/ (d.hasOwner # {} /\ ~d.selector /\ ~d.labels)) /\ d.name = ""
  <2> DEFINE g == getResourceClient(c, d.kind)
             l == ListResources(c, d)
             b == Ok(Meanwhile(g.val, gone))
             S == Matches(c, d)
  <2>1. /\ g.val \in Worlds(of) /\ g.val.objs = c.objs /\ g.val.kinds = c.kinds /\ g.ok \in BOOLEAN
        /\ d.kind \in c.kinds => g.ok
        /\ ~g.ok => g.cause \in {"nomatch", "notfound"}
        /\ g = IF g.ok THEN Ok(g.val) ELSE Err(g.cause, g.val)
    BY Resolved
  <2>2. l.r = g /\ (g.ok => l.items = S)
    <3>1. g.ok => l.items = S
      BY <1>3 DEF ListResources, Matches
    <3> QED
      BY <3>1 DEF ListResources
  <2>3. Lost(g.val, c, {}) /\ Lost(g.val, c, N)
    <3>1. Lost(g.val, c, {})
      BY <2>1, SameObjects
    <3> QED
      BY <3>1, LostWider
  <2>4. CASE ~g.ok
    <3>1. S = {}
      BY <1>3, <2>1, <2>4 DEF Matches, Formed
    <3>2. r = IF g.cause = "nomatch" THEN Ok(g.val) ELSE g
      BY <1>3, <2>2, <2>4 DEF DeleteResource
    <3> HIDE DEF r, g, N
    <3>3. r.ok \in BOOLEAN /\ r.val = g.val /\ (~r.ok => r = g)
      BY <2>1, <2>4, <3>2 DEF Ok
    <3>4. r = IF r.ok THEN Ok(r.val) ELSE Err(r.cause, r.val)
      BY <2>1, <2>4, <3>2 DEF Ok
    <3>5. Result(of, r, c, N)
      BY <2>1, <2>3, <2>4, <3>3, <3>4 DEF Result
    <3> QED
      BY <3>1, <3>5 DEF r, N
  <2>5. CASE g.ok
    <3>1. r = DeleteItems(down, d, b, S)
      BY <1>3, <2>2, <2>5, Zenon DEF DeleteResource, DeleteItems
    <3> DEFINE V == Results(of, c, N)
               T == {p \in (SUBSET S) \X V : p[2].ok => \A o \in p[1] : Key(o) \notin Keys(p[2].val.objs)}
    <3>2. S \subseteq c.objs /\ IsFiniteSet(S)
      <4>1. S \subseteq c.objs
        BY DEF Matches, Addressed
      <4> QED
        BY <4>1, FS_Subset
    <3>3. b \in V
      <4>1. Meanwhile(g.val, gone) \in Worlds(of) /\ Lost(Meanwhile(g.val, gone), c, G)
        BY <2>1, <2>3, LostMeanwhile
      <4>2. Lost(Meanwhile(g.val, gone), c, N)
        BY <4>1, LostWider
      <4> HIDE DEF N
      <4> QED
        BY <4>1, <4>2 DEF Results
    <3> HIDE DEF b, g
    <3>4. ASSUME NEW o \in S, NEW v \in V
          PROVE  /\ DeleteItem(down, d, o, v) \in V
                 /\ DeleteItem(down, d, o, v).ok =>
                       /\ v.ok /\ Key(o) \notin Keys(DeleteItem(down, d, o, v).val.objs)
                       /\ Keys(DeleteItem(down, d, o, v).val.objs) \subseteq Keys(v.val.objs)
      <4>1. Result(of, v, c, N)
        BY ResultsAre
      <4>2. o \in c.objs /\ o.kind = d.kind
        BY <1>3 DEF Matches
      <4>3. Keys(Removed(c, o)) \subseteq N
        BY DEF Keys, AllRemoved
      <4> HIDE DEF N, S
      <4>4. Result(of, DeleteItem(down, d, o, v), c, N)
        BY <4>1, <4>2, <4>3, ItemDeleted
      <4> QED
        BY <4>1, <4>2, <4>3, <4>4, ItemDeleted, ResultsAre
    <3> HIDE DEF V, S, N, r
    <3>5. <<{}, b>> \in T
      BY <3>3
    <3>6. ASSUME NEW s \in SUBSET S, NEW v \in V, NEW x \in S \ s, <<s, v>> \in T
          PROVE  <<s \cup {x}, DeleteItem(down, d, x, v)>> \in T
      <4> DEFINE e == DeleteItem(down, d, x, v)
      <4>1. e \in V /\ (e.ok => v.ok /\ Key(x) \notin Keys(e.val.objs) /\ Keys(e.val.objs) \subseteq Keys(v.val.objs))
        BY <3>4
      <4> HIDE DEF e
      <4>2. <<s \cup {x}, e>> \in T
        BY <3>6, <4>1
      <4> QED
        BY <4>2 DEF e
    <3> HIDE DEF T
    <3>7. r \in V /\ <<S, r>> \in T
      <4>1. \A o \in S, v \in V : DeleteItem(down, d, o, v) \in V
        BY <3>4
      <4>2. \A s \in SUBSET S, v \in V : \A x \in S \ s :
                <<s, v>> \in T => <<s \cup {x}, DeleteItem(down, d, x, v)>> \in T
        BY <3>6
      <4> QED
        BY <3>1, <3>2, <3>3, <3>5, <4>1, <4>2, ItemsDeleted
    <3>8. Result(of, r, c, N)
      BY <3>7, ResultsAre DEF V
    <3> QED
      BY <3>7, <3>8 DEF T, r, N, S
  <2> QED
    BY <2>1, <2>4, <2>5
<1> QED
  BY <1>1, <1>2, <1>3

-----------------------------------------------------------------------------
\* A deletion that matches nothing any more, by a new client.
LEMMA NothingDeleted ==
    ASSUME NEW of, NEW c \in Worlds(of), Formed(c), c.known = {}, NEW d, Matches(c, d) = {},
           ~(Cardinality(Identifiers(d)) # 1 \/ (d.hasOwner # {} /\ ~d.selector /\ ~d.labels))
    PROVE  LET r == DeleteResource(c, {}, {}, d)
           IN  r.ok /\ r.val.objs = c.objs
<1> DEFINE r == DeleteResource(c, {}, {}, d)
<1>1. ASSUME NEW w \in Worlds(of), w.objs = c.objs, w.kinds = c.kinds
      PROVE  Meanwhile(w, {}) \in Worlds(of) /\ Meanwhile(w, {}).objs = c.objs /\ Meanwhile(w, {}).kinds = c.kinds
  <2>1. Meanwhile(w, {}) = [w EXCEPT !.objs = {o \in @ : Key(o) \notin Keys(UNION {Removed(w, p) : p \in {}})},
                                      !.kinds = @ \ {o.name : o \in {p \in {} : p.kind = "CRD"}}]
    BY DEF Meanwhile
  <2>2. Keys(UNION {Removed(w, p) : p \in {}}) = {}
    BY DEF Keys
  <2>3. {o.name : o \in {p \in {} : p.kind = "CRD"}} = {}
    OBVIOUS
  <2>4. Meanwhile(w, {}) = [w EXCEPT !.objs = {o \in @ : Key(o) \notin {}}, !.kinds = @ \ {}]
    BY <2>1, <2>2, <2>3, Zenon
  <2>5. /\ Meanwhile(w, {}).objs = {o \in w.objs : Key(o) \notin {}}
        /\ Meanwhile(w, {}).kinds = w.kinds \ {}
        /\ Meanwhile(w, {}).known = w.known /\ DOMAIN Meanwhile(w, {}) = DOMAIN w
    BY <2>4 DEF Worlds
  <2>6. {o \in w.objs : Key(o) \notin {}} = c.objs /\ w.kinds \ {} = c.kinds
    BY <1>1
  <2> QED
    BY <1>1, <2>4, <2>5, <2>6 DEF Worlds
<1>2. CASE d.name # ""
  <2> DEFINE p == overrideDeletionProtection(c, d.kind, d.ns, d.name)
             w == Meanwhile(p.val, {})
             e == deleteIfFound(w, {}, d.kind, d.ns, d.name)
  <2>1. Result(of, p, c, {}) /\ p.ok
    BY <1>2, Overridden DEF Marks
  <2>2. Addressed(c, d.kind, d.ns, d.name) = {}
    BY <1>2 DEF Matches
  <2>3. p.val.objs = c.objs /\ p.val.kinds = c.kinds /\ p.val \in Worlds(of)
    <3>1. p.val.objs = c.objs /\ p.val.kinds = c.kinds
      <4>1. Marks(of, c, d.kind, d.ns, d.name, p)
        BY Overridden
      <4> HIDE DEF p
      <4> QED
        BY <2>2, <4>1 DEF Marks
    <3> QED
      BY <2>1, <3>1 DEF Result
  <2>4. r = e
    BY <1>2, <2>1 DEF DeleteResource
  <2> HIDE DEF p
  <2>5. w \in Worlds(of) /\ w.objs = c.objs /\ w.kinds = c.kinds
    BY <1>1, <2>3
  <2> HIDE DEF w
  <2>6. Formed(w)
    BY <2>5, SameObjects
  <2>7. Addressed(w, d.kind, d.ns, d.name) = {}
    BY <2>2, <2>5 DEF Addressed
  <2>8. e.ok /\ e.val.objs = w.objs
    BY <2>5, <2>6, <2>7, DeletedIfFound
  <2> QED
    BY <2>4, <2>5, <2>8
<1>3. CASE d.name = ""
  <2> DEFINE g == getResourceClient(c, d.kind)
             l == ListResources(c, d)
             b == Ok(Meanwhile(g.val, {}))
  <2>1. /\ g.val \in Worlds(of) /\ g.val.objs = c.objs /\ g.val.kinds = c.kinds /\ g.ok \in BOOLEAN
        /\ ~g.ok => g.cause = "nomatch"
    BY Resolved
  <2>2. l.r = g /\ (g.ok => l.items = Matches(c, d))
    <3>1. g.ok => l.items = Matches(c, d)
      BY <1>3 DEF ListResources, Matches
    <3> QED
      BY <3>1 DEF ListResources
  <2>3. CASE ~g.ok
    <3>1. r = Ok(g.val)
      BY <1>3, <2>1, <2>2, <2>3 DEF DeleteResource
    <3> QED
      BY <2>1, <3>1 DEF Ok
  <2>4. CASE g.ok
    <3>1. r = DeleteItems({}, d, b, {})
      BY <1>3, <2>2, <2>4, Zenon DEF DeleteResource, DeleteItems
    <3>2. Meanwhile(g.val, {}).objs = c.objs
      BY <1>1, <2>1
    <3>3. b.ok = TRUE /\ b.val = Meanwhile(g.val, {})
      BY DEF Ok
    <3> HIDE DEF b, r
    <3> DEFINE V == {b}
               T == {<<{}, b>>}
    <3>4. IsFiniteSet({}) /\ b \in V /\ <<{}, b>> \in T
      BY FS_EmptySet
    <3>5. \A o \in {}, v \in V : DeleteItem({}, d, o, v) \in V
      OBVIOUS
    <3>6. \A s \in SUBSET {}, v \in V : \A x \in {} \ s : <<s, v>> \in T => <<s \cup {x}, DeleteItem({}, d, x, v)>> \in T
      OBVIOUS
    <3> HIDE DEF V, T
    <3>7. r \in V
      BY <3>1, <3>4, <3>5, <3>6, ItemsDeleted
    <3>8. r = b
      BY <3>7 DEF V
    <3> QED
      BY <3>2, <3>3, <3>8 DEF r
  <2> QED
    BY <2>1, <2>3, <2>4
<1> QED
  BY <1>2, <1>3

\* A list of one deletion
LEMMA OneDeletion ==
    ASSUME NEW c, NEW d
    PROVE  Deletions(c, {}, {}, <<d>>) = DeleteResource([c EXCEPT !.known = {}], {}, {}, d)
<1> DEFINE b == Ok([c EXCEPT !.known = {}])
           e == DeleteResource([c EXCEPT !.known = {}], {}, {}, d)
           Op(r, x) == IF ~r.ok THEN r ELSE DeleteResource(r.val, {}, {}, x)
           Body(f) == [s \in SUBSET (DOMAIN <<d>>) |->
                          IF s = {} THEN b ELSE Op(f[s \ {Max(s)}], <<d>>[Max(s)])]
           iter == CHOOSE f : f = Body(f)
           g == [s \in SUBSET {1} |-> IF s = {} THEN b ELSE e]
<1>1. DOMAIN <<d>> = {1} /\ <<d>>[1] = d
  OBVIOUS
<1>2. Deletions(c, {}, {}, <<d>>) = iter[DOMAIN <<d>>]
  BY Zenon DEF Deletions, FoldLeft, MapThenFoldSet
<1>3. Op(b, d) = e
  BY DEF Ok
<1> HIDE DEF b, e, Op
<1>4. Max({1}) = 1
  <2>1. 1 \in Nat /\ {1} \in SUBSET (1..1) /\ 1 \in {1}
    OBVIOUS
  <2> QED
    BY <2>1, MaxIs
<1>5. ASSUME NEW f, f[{}] = b, NEW s \in SUBSET {1}
      PROVE  (IF s = {} THEN b ELSE Op(f[s \ {Max(s)}], <<d>>[Max(s)])) = IF s = {} THEN b ELSE e
  <2>1. CASE s = {}
    BY <2>1
  <2>2. CASE s = {1}
    <3>1. s \ {Max(s)} = {} /\ <<d>>[Max(s)] = d
      BY <1>1, <1>4, <2>2
    <3> QED
      BY <1>3, <1>5, <2>2, <3>1
  <2> QED
    BY <2>1, <2>2
<1>6. g[{}] = b
  OBVIOUS
<1>7. g = Body(g)
  BY <1>1, <1>5, <1>6
<1>8. iter = Body(iter)
  BY <1>7, Zenon
<1> HIDE DEF iter, g
<1>9. iter[{}] = b
  BY <1>8
<1>10. iter[{1}] = e
  <2>1. iter[{1}] = Op(iter[{1} \ {Max({1})}], <<d>>[Max({1})])
    BY <1>1, <1>8
  <2>2. {1} \ {Max({1})} = {}
    BY <1>4
  <2> QED
    BY <1>1, <1>3, <1>4, <1>9, <2>1, <2>2
<1> QED
  BY <1>1, <1>2, <1>10 DEF e

\* What a deletion described has gone with all that goes with it, and nothing else
\* unless somebody else deleted it, whatever the server fails; and doing the
\* deletion again is no error and changes nothing (pkg/kubernetes/kubernetes.go).
THEOREM DeletionsMatch ==
    ASSUME NEW of, NEW c \in Worlds(of), Formed(c), IsFiniteSet(c.objs), NEW gone \in SUBSET c.objs, NEW down, NEW d
    PROVE  DeletesMatching(c, gone, down, d)
<1> DEFINE r == DeleteResource(c, gone, down, d)
           e == r.val
           M == Keys(AllRemoved(c, Matches(c, d)))
           G == Keys(AllRemoved(c, gone))
<1>1. Result(of, r, c, M \cup G) /\ (r.ok => \A o \in Matches(c, d) : Key(o) \notin Keys(e.objs))
  BY ResourceDeleted
<1>2. r.ok \in BOOLEAN /\ e \in Worlds(of) /\ Lost(e, c, M \cup G) /\ Formed(e)
  BY <1>1 DEF Result, Lost
<1>3. r.ok => ~(Cardinality(Identifiers(d)) # 1 \/ (d.hasOwner # {} /\ ~d.selector /\ ~d.labels))
  BY DEF DeleteResource, Err
<1> HIDE DEF r
<1>4. Keys(c.objs) \ Keys(e.objs) \subseteq M \cup G
  <2>1. \A p \in c.objs : Key(p) \in Keys(e.objs) \cup M \cup G
    BY <1>2 DEF Lost
  <2> QED
    BY <2>1 DEF Keys
<1>5. ASSUME r.ok PROVE Keys(e.objs) \cap M = {}
  <2> SUFFICES ASSUME NEW p \in e.objs, NEW o \in Matches(c, d), NEW q \in Removed(c, o), Key(p) = Key(q) PROVE FALSE
    BY DEF Keys, AllRemoved
  <2>1. o \in c.objs /\ Key(o) \notin Keys(e.objs)
    BY <1>1, <1>5 DEF Matches, Addressed
  <2>2. p.kind = q.kind /\ p.ns = q.ns
    BY KeyFields
  <2>3. CASE q = o
    BY <2>1, <2>3 DEF Keys
  <2>4. CASE o.kind = "Namespace" /\ q.ns = o.name
    <3>1. "Namespace" \in Global /\ o.ns = "" /\ p.ns # ""
      <4>1. "Namespace" \in Global
        BY DEF Global
      <4> QED
        BY <2>1, <2>2, <2>4, <4>1 DEF Formed
    <3>2. PICK n \in e.objs : n.kind = "Namespace" /\ n.name = p.ns
      BY <1>2, <3>1 DEF Formed
    <3>3. n.ns = ""
      BY <1>2, <3>1, <3>2 DEF Formed
    <3>4. Key(n) = Key(o)
      BY <2>2, <2>4, <3>1, <3>2, <3>3, KeyFields
    <3> QED
      BY <2>1, <3>4, InKeys
  <2>5. CASE o.kind = "CRD" /\ q.kind = o.name
    <3>1. o.name \notin e.kinds
      BY <1>2, <2>1, <2>5 DEF Lost
    <3> QED
      BY <1>2, <2>2, <2>5, <3>1 DEF Formed
  <2> QED
    BY <2>3, <2>4, <2>5 DEF Removed
<1>6. ASSUME r.ok PROVE Deletions(e, {}, {}, <<d>>).ok /\ Deletions(e, {}, {}, <<d>>).val.objs = e.objs
  <2> DEFINE w == [e EXCEPT !.known = {}]
  <2>1. w \in Worlds(of) /\ w.objs = e.objs /\ w.kinds = e.kinds /\ w.known = {}
    BY <1>2 DEF Worlds
  <2>2. Deletions(e, {}, {}, <<d>>) = DeleteResource(w, {}, {}, d)
    BY OneDeletion
  <2> HIDE DEF w
  <2>3. Formed(w)
    BY <1>2, <2>1, SameObjects
  <2>4. Matches(w, d) = {}
    <3> SUFFICES ASSUME NEW q \in Matches(w, d) PROVE FALSE
      OBVIOUS
    <3>1. q \in e.objs
      BY <2>1 DEF Matches, Addressed
    <3>2. PICK p \in c.objs : Same(q, p)
      BY <1>2, <3>1 DEF Lost
    <3>3. q.kind = p.kind /\ q.ns = p.ns /\ q.name = p.name /\ q.label = p.label /\ q.owned = p.owned
      BY <3>2, KeyFields DEF Same
    <3>4. p \in Matches(c, d)
      BY <3>3 DEF Matches, Addressed
    <3> QED
      BY <1>1, <1>6, <3>1, <3>2, <3>4, InKeys DEF Same
  <2> QED
    BY <1>3, <1>6, <2>1, <2>2, <2>3, <2>4, NothingDeleted
<1> QED
  BY <1>4, <1>5, <1>6, Zenon DEF DeletesMatching, r, AllRemoved

-----------------------------------------------------------------------------
\* The tries of Terminate, one after the other.
LEMMA TerminateSteps ==
    ASSUME NEW X, "running" \in X, NEW states \in Seq(X)
    PROVE  \E h \in [0..Len(states) -> [done : BOOLEAN, calls : Nat, last : X]] :
              /\ h[0] = [done |-> FALSE, calls |-> 0, last |-> "running"]
              /\ \A i \in 1..Len(states) : h[i] = TerminateTry(h[i - 1], states[i])
              /\ TerminateTries(states) = h[Len(states)]
<1> DEFINE V == [done : BOOLEAN, calls : Nat, last : X]
           n == Len(states)
           b == [done |-> FALSE, calls |-> 0, last |-> "running"]
           F == [p \in V \X (1..n) |-> TerminateTry(p[1], states[p[2]])]
           Body(f) == [s \in SUBSET (DOMAIN states) |->
                          IF s = {} THEN b ELSE TerminateTry(f[s \ {Max(s)}], states[Max(s)])]
           iter == CHOOSE f : f = Body(f)
<1>1. n \in Nat /\ DOMAIN states = 1..n /\ b \in V
  OBVIOUS
<1>2. ASSUME NEW r \in V, NEW i \in 1..n PROVE TerminateTry(r, states[i]) \in V
  BY DEF TerminateTry, terminateAsgInstance
<1>3. TerminateTries(states) = iter[1..n]
  BY <1>1, Zenon DEF TerminateTries, FoldLeft, MapThenFoldSet
<1> HIDE DEF V, n, b
<1>4. F \in [V \X (1..n) -> V] /\ \A r \in V, i \in 1..n : F[<<r, i>>] = TerminateTry(r, states[i])
  BY <1>2
<1>5. FoldOver(V, n, b, F)
  BY <1>1, <1>4 DEF FoldOver
<1> HIDE DEF F
<1>6. PICK g : Unrolls(g, V, n, b, F)
  BY <1>5, Unrolled
<1>7. ASSUME NEW s \in SUBSET (1..n), s # {} PROVE g[s] = TerminateTry(g[s \ {Max(s)}], states[Max(s)])
  BY <1>4, <1>6, <1>7 DEF Unrolls
<1>8. g = Body(g)
  BY <1>1, <1>6, <1>7 DEF Unrolls
<1>9. iter = Body(iter)
  BY <1>8, Zenon
<1> HIDE DEF iter
<1>10. ASSUME NEW s \in SUBSET (1..n), s # {}, iter[s \ {Max(s)}] \in V
       PROVE  iter[s] = F[<<iter[s \ {Max(s)}], Max(s)>>]
  BY <1>1, <1>4, <1>6, <1>9, <1>10 DEF Unrolls
<1>11. Follows(iter, V, n, b, F)
  BY <1>1, <1>9, <1>10 DEF Follows
<1>12. PICK h : StepsOf(h, V, n, b, F) /\ iter[1..n] = h[n]
  BY <1>5, <1>11, Folded
<1>13. h \in [0..n -> V] /\ h[0] = b
  BY <1>12 DEF StepsOf
<1>14. ASSUME NEW i \in 1..n PROVE h[i] = TerminateTry(h[i - 1], states[i])
  <2>1. h[i - 1] \in V /\ h[i] = F[<<h[i - 1], i>>]
    BY <1>1, <1>12 DEF StepsOf
  <2> QED
    BY <1>4, <2>1
<1> QED
  BY <1>3, <1>12, <1>13, <1>14 DEF V, n, b


\* Terminate reports success only for an instance that has ended, and one found
\* running has been told to (pkg/updatestrategy/aws_asg.go).
THEOREM TerminatedEnds ==
    ASSUME NEW X, "running" \in X, NEW states \in Seq(X), states # << >>
    PROVE  Terminated(states)
<1> DEFINE n == Len(states)
           V == [done : BOOLEAN, calls : Nat, last : X]
<1>1. PICK h \in [0..n -> V] :
         /\ h[0] = [done |-> FALSE, calls |-> 0, last |-> "running"]
         /\ \A i \in 1..n : h[i] = TerminateTry(h[i - 1], states[i])
         /\ TerminateTries(states) = h[n]
  BY TerminateSteps
<1>2. n \in Nat /\ n > 0
  OBVIOUS
<1> HIDE DEF n
<1> DEFINE P(i) == /\ h[i].done => h[i].last \in {"terminated", "stopped", "unknown"}
                   /\ i > 0 /\ states[1] = "running" => h[i].calls > 0
           T == {i \in 0..n : P(i)}
<1>3. 0 \in T
  <2>1. 0 \in 0..n /\ h[0].done = FALSE
    BY <1>1, <1>2
  <2> QED
    BY <2>1
<1>4. ASSUME NEW i \in 0..(n - 1), i \in T PROVE i + 1 \in T
  <2>1. i \in 0..n /\ i + 1 \in 0..n /\ i + 1 \in 1..n /\ (i + 1) - 1 = i
    BY <1>2
  <2>2. h[i + 1] = TerminateTry(h[i], states[i + 1]) /\ h[i] \in V
    BY <1>1, <2>1
  <2>3. P(i)
    BY <1>4
  <2>4. h[i + 1].done => h[i + 1].last \in {"terminated", "stopped", "unknown"}
    BY <2>2, <2>3 DEF TerminateTry, terminateAsgInstance
  <2>5. ASSUME states[1] = "running" PROVE h[i + 1].calls > 0
    <3>1. CASE i = 0
      <4>1. h[i] = [done |-> FALSE, calls |-> 0, last |-> "running"] /\ states[i + 1] = "running"
        BY <1>1, <2>5, <3>1
      <4> QED
        BY <2>2, <4>1 DEF TerminateTry, terminateAsgInstance
    <3>2. CASE i # 0
      <4>1. h[i].calls > 0 /\ h[i].calls \in Nat
        BY <2>1, <2>2, <2>3, <2>5, <3>2
      <4> QED
        BY <2>2, <4>1 DEF TerminateTry
    <3> QED
      BY <3>1, <3>2
  <2> QED
    BY <2>1, <2>4, <2>5
<1>5. P(n)
  <2> HIDE DEF P
  <2>1. 0..n \subseteq T
    BY <1>2, <1>3, <1>4, Upwards
  <2>2. n \in T
    BY <1>2, <2>1
  <2> QED
    BY <2>2
<1>6. Head(states) = states[1]
  OBVIOUS
<1>7. \A m \in {[id |-> 1, zone |-> 1], [id |-> 2, zone |-> 1]} :
         instanceIDFromProviderID(ProviderID(m), m.zone) = <<m.id>>
  BY DEF instanceIDFromProviderID, ProviderID
<1> QED
  BY <1>1, <1>2, <1>5, <1>6, <1>7 DEF Terminated

-----------------------------------------------------------------------------
\* What EC2 tells of an instance type, and what is kept of it.
Told(of) == [type : of.types, archs : of.archs, vcpu : Nat, memory : Nat, disks : Seq([count : Nat, size : Nat])]

Sized(i) == i.vcpu \in Nat /\ i.memory \in Nat /\ i.devices \in Nat /\ i.deviceSize \in Nat

\* What is kept of the types has sizes.
LEMMA TypesSized ==
    ASSUME NEW of, NEW answers \in Seq(Told(of)), NewInstanceTypesFromAWS(answers).ok,
           NEW t \in DOMAIN NewInstanceTypesFromAWS(answers).val
    PROVE  Sized(NewInstanceTypesFromAWS(answers).val[t])
<1> DEFINE used == {a \in Range(answers) : getCompatibleCPUArchitecture(a).ok}
           a == CHOOSE a \in used : a.type = t
           disk == IF a.disks = <<>> THEN [count |-> 0, size |-> 0] ELSE a.disks[1]
           kept == [vcpu |-> a.vcpu, memory |-> a.memory, devices |-> disk.count,
                    deviceSize |-> disk.size, arch |-> getCompatibleCPUArchitecture(a).val]
<1>1. /\ ~ \E i \in DOMAIN answers : Len(answers[i].disks) > 1
      /\ t \in {x.type : x \in used}
      /\ NewInstanceTypesFromAWS(answers).val[t] = kept
  BY Zenon DEF NewInstanceTypesFromAWS, Fails, Ok
<1>2. a \in used /\ a.type = t
  BY <1>1
<1>3. a \in Told(of)
  <2>1. \A x \in Range(answers) : x \in Told(of)
    BY DEF Range
  <2> HIDE DEF a
  <2> QED
    BY <1>2, <2>1
<1>4. disk.count \in Nat /\ disk.size \in Nat
  <2> HIDE DEF a
  <2>1. a.disks \in Seq([count : Nat, size : Nat])
    BY <1>3 DEF Told
  <2>2. \A X, d : d \in Seq(X) /\ d # <<>> => d[1] \in X
    BY EmptySeq, LenProperties
  <2>3. ASSUME a.disks # <<>> PROVE a.disks[1] \in [count : Nat, size : Nat]
    BY <2>1, <2>2, <2>3, Zenon
  <2> QED
    BY <2>3
<1> HIDE DEF a, disk
<1> QED
  BY <1>1, <1>3, <1>4 DEF Told, Sized

\* The smallest of some natural numbers.
LEMMA MinOf == ASSUME NEW X \in SUBSET Nat, X # {} PROVE Min(X) \in X /\ \A x \in X : Min(X) <= x
BY Least DEF Min

\* Products grow with their factors.
LEMMA Times == ASSUME NEW a \in Nat, NEW b \in Nat, NEW c \in Nat, NEW d \in Nat, a <= c, b <= d PROVE a * b <= c * d
<1>1. a * b <= c * b
  OBVIOUS
<1>2. c * b <= c * d
  OBVIOUS
<1> QED
  BY <1>1, <1>2

\* What several instance types have in common is available on each of them, for
\* any number of types of any sizes (InstanceTypes.SyntheticInstanceInfo).
THEOREM SizesInCommon ==
    ASSUME NEW types, \A t \in DOMAIN types : Sized(types[t]), NEW X, NEW list \in Seq(X)
    PROVE  CommonToAll(types, list)
<1> DEFINE r == SyntheticInstanceInfo(types, list)
<1> SUFFICES ASSUME r.ok, NEW t \in Range(list)
             PROVE  /\ r.val.vcpu <= types[t].vcpu /\ r.val.memory <= types[t].memory
                    /\ r.val.devices * r.val.deviceSize <= types[t].devices * types[t].deviceSize
                    /\ MemoryFraction(r.val, 50) <= MemoryFraction(types[t], 50)
                    /\ r.val.devices > 0 => AvailableStorage(r.val, 95, 40, 50) <= AvailableStorage(types[t], 95, 40, 50)
  BY Zenon DEF CommonToAll
<1>1. list # <<>> /\ \A i \in DOMAIN list : InstanceInfo(types, list[i]).ok
  BY DEF SyntheticInstanceInfo, Fails
<1>2. ASSUME NEW x \in Range(list) PROVE x \in DOMAIN types
  BY <1>1 DEF Range, InstanceInfo, Fails
<1>3. /\ r.val.vcpu = Min({types[x].vcpu : x \in Range(list)})
      /\ r.val.memory = Min({types[x].memory : x \in Range(list)})
      /\ r.val.devices = Min({types[x].devices : x \in Range(list)})
      /\ r.val.deviceSize = Min({types[x].deviceSize : x \in Range(list)})
  BY <1>1 DEF SyntheticInstanceInfo, Ok
<1> HIDE DEF r
<1>4. \A x \in Range(list) : Sized(types[x])
  BY <1>2
<1>5. r.val.vcpu \in Nat /\ r.val.vcpu <= types[t].vcpu
  <2> DEFINE Y == {types[x].vcpu : x \in Range(list)}
  <2>1. Y \in SUBSET Nat /\ types[t].vcpu \in Y /\ r.val.vcpu = Min(Y)
    BY <1>3, <1>4 DEF Sized
  <2> HIDE DEF Y
  <2> QED
    BY <2>1, MinOf
<1>6. r.val.memory \in Nat /\ r.val.memory <= types[t].memory
  <2> DEFINE Y == {types[x].memory : x \in Range(list)}
  <2>1. Y \in SUBSET Nat /\ types[t].memory \in Y /\ r.val.memory = Min(Y)
    BY <1>3, <1>4 DEF Sized
  <2> HIDE DEF Y
  <2> QED
    BY <2>1, MinOf
<1>7. r.val.devices \in Nat /\ r.val.devices <= types[t].devices
  <2> DEFINE Y == {types[x].devices : x \in Range(list)}
  <2>1. Y \in SUBSET Nat /\ types[t].devices \in Y /\ r.val.devices = Min(Y)
    BY <1>3, <1>4 DEF Sized
  <2> HIDE DEF Y
  <2> QED
    BY <2>1, MinOf
<1>8. r.val.deviceSize \in Nat /\ r.val.deviceSize <= types[t].deviceSize
  <2> DEFINE Y == {types[x].deviceSize : x \in Range(list)}
  <2>1. Y \in SUBSET Nat /\ types[t].deviceSize \in Y /\ r.val.deviceSize = Min(Y)
    BY <1>3, <1>4 DEF Sized
  <2> HIDE DEF Y
  <2> QED
    BY <2>1, MinOf
<1>9. types[t].memory \in Nat /\ types[t].devices \in Nat /\ types[t].deviceSize \in Nat
  BY <1>4 DEF Sized
<1>10. r.val.devices * r.val.deviceSize <= types[t].devices * types[t].deviceSize
  BY <1>7, <1>8, <1>9, Times
<1>11. MemoryFraction(r.val, 50) <= MemoryFraction(types[t], 50)
  <2>1. \A a, b \in Nat : a <= b => (50 * a) \div 100 <= (50 * b) \div 100
    OBVIOUS
  <2> QED
    BY <1>6, <1>9, <2>1 DEF MemoryFraction
<1>12. ASSUME r.val.devices > 0
       PROVE  AvailableStorage(r.val, 95, 40, 50) <= AvailableStorage(types[t], 95, 40, 50)
  <2>1. \A a, b \in Nat : a <= b => a \div 100 <= b \div 100
    OBVIOUS
  <2>2. 95 * r.val.devices \in Nat /\ 95 * types[t].devices \in Nat /\ 95 * r.val.devices <= 95 * types[t].devices
    BY <1>7, <1>9
  <2>3. 95 * r.val.devices * r.val.deviceSize <= 95 * types[t].devices * types[t].deviceSize
    BY <1>8, <1>9, <2>2, Times
  <2>4. 95 * r.val.devices * r.val.deviceSize \in Nat /\ 95 * types[t].devices * types[t].deviceSize \in Nat
    <3>1. \A a, b \in Nat : a * b \in Nat
      OBVIOUS
    <3> QED
      BY <1>8, <1>9, <2>2, <3>1
  <2>5. r.val.devices # 0 /\ types[t].devices # 0
    BY <1>7, <1>9, <1>12
  <2> QED
    BY <2>1, <2>3, <2>4, <2>5 DEF AvailableStorage
<1> QED
  BY <1>5, <1>6, <1>10, <1>11, <1>12

-----------------------------------------------------------------------------
\* Groups with a mixed instances policy and groups with a launch template only.
GroupsOf(of) ==
    [mixed : {TRUE}, policy : of.versions, overrides : SUBSET of.types, onDemandBase : Nat,
     onDemandPercent : 0..100, instances : of.instances]
    \cup [mixed : {FALSE}, template : of.versions, instances : of.instances]

\* The instances of a group do not matter for what it launches.
LEMMA LaunchesAsConfigured ==
    ASSUME NEW of, NEW g \in GroupsOf(of), NEW I, NEW templates
    PROVE  asgLaunchParameters([g EXCEPT !.instances = I], templates) = asgLaunchParameters(g, templates)
<1> DEFINE k == [g EXCEPT !.instances = I]
<1>1. CASE g \in [mixed : {TRUE}, policy : of.versions, overrides : SUBSET of.types, onDemandBase : Nat,
                  onDemandPercent : 0..100, instances : of.instances]
  <2>1. /\ k.mixed = TRUE /\ g.mixed = TRUE /\ k.policy = g.policy /\ k.overrides = g.overrides
        /\ k.onDemandBase = g.onDemandBase /\ k.onDemandPercent = g.onDemandPercent
    BY <1>1
  <2> HIDE DEF k
  <2>2. asgLaunchParameters(k, templates) = asgLaunchParameters(g, templates)
    BY <2>1, Zenon DEF asgLaunchParameters
  <2> QED
    BY <2>2 DEF k
<1>2. CASE g \in [mixed : {FALSE}, template : of.versions, instances : of.instances]
  <2>1. k.mixed = FALSE /\ g.mixed = FALSE /\ k.template = g.template
    BY <1>2
  <2> HIDE DEF k
  <2>2. asgLaunchParameters(k, templates) = asgLaunchParameters(g, templates)
    BY <2>1, Zenon DEF asgLaunchParameters
  <2> QED
    BY <2>2 DEF k
<1> QED
  BY <1>1, <1>2 DEF GroupsOf

\* An instance is to be replaced exactly if what its group launches now could not be
\* it, for groups and templates of every kind (ASGNodePoolsBackend.Get).
THEOREM OutdatedByLaunch ==
    ASSUME NEW of, NEW before \in GroupsOf(of), NEW now \in GroupsOf(of), NEW templates
    PROVE  OutdatedASG(before, now, templates)
<1> SUFFICES ASSUME asgLaunchParameters(before, templates).ok, asgLaunchParameters(now, templates).ok,
                    NEW i \in LaunchedASG(1, before, templates)
             PROVE  LET old == getInstancesToUpdate([now EXCEPT !.instances = {i}], templates, {1})
                        same == [i EXCEPT !.id = 1] \in LaunchedASG(1, now, templates)
                    IN  old.ok /\ (i \in old.val <=> ~same)
  BY Zenon DEF OutdatedASG
<1> DEFINE p == asgLaunchParameters(before, templates).val
           q == asgLaunchParameters(now, templates).val
           g == [now EXCEPT !.instances = {i}]
           old == getInstancesToUpdate(g, templates, {1})
<1>1. PICK t \in p.types : i = [id |-> 1, template |-> p.template, type |-> t, spot |-> p.spot]
  BY DEF LaunchedASG
<1>2. g.instances = {i} /\ asgLaunchParameters(g, templates) = asgLaunchParameters(now, templates)
  <2>1. g.instances = {i}
    BY DEF GroupsOf
  <2> QED
    BY <2>1, LaunchesAsConfigured
<1> HIDE DEF g
<1>3. old = Ok({x \in {i} : x.template # q.template \/ (x.id \in {1} /\ (x.type \notin q.types \/ x.spot # q.spot))})
  BY <1>2, Zenon DEF getInstancesToUpdate
<1>4. old.ok /\ (i \in old.val <=> i.template # q.template \/ (i.id \in {1} /\ (i.type \notin q.types \/ i.spot # q.spot)))
  BY <1>3 DEF Ok
<1> HIDE DEF old
<1>5. LaunchedASG(1, now, templates) = {[id |-> 1, template |-> q.template, type |-> u, spot |-> q.spot] : u \in q.types}
  BY Zenon DEF LaunchedASG
<1> HIDE DEF p, q
<1>6. i.template = p.template /\ i.id = 1 /\ i.type = t /\ i.spot = p.spot /\ [i EXCEPT !.id = 1] = i
  BY <1>1
<1>7. [i EXCEPT !.id = 1] \in LaunchedASG(1, now, templates) <=> i.template = q.template /\ i.type \in q.types /\ i.spot = q.spot
  <2>1. ASSUME NEW u \in q.types, i = [id |-> 1, template |-> q.template, type |-> u, spot |-> q.spot]
        PROVE  i.template = q.template /\ i.type \in q.types /\ i.spot = q.spot
    BY <2>1
  <2>2. ASSUME i.template = q.template, i.type \in q.types, i.spot = q.spot
        PROVE  i = [id |-> 1, template |-> q.template, type |-> t, spot |-> q.spot] /\ t \in q.types
    BY <1>1, <1>6, <2>2
  <2> QED
    BY <1>5, <1>6, <2>1, <2>2, Zenon
<1>8. old.ok /\ (i \in old.val <=> ~([i EXCEPT !.id = 1] \in LaunchedASG(1, now, templates)))
  BY <1>4, <1>6, <1>7
<1> QED
  BY <1>8, Zenon DEF old, g

-----------------------------------------------------------------------------
\* Truth values are equal if one is as true as the other.
LEMMA SameTruth == ASSUME NEW a \in BOOLEAN, NEW b \in BOOLEAN, a <=> b PROVE a = b
BY Zenon

\* An instance of Karpenter's is outdated exactly if its user data, its image or a tag
\* that the node class still has is no longer what would be launched; without a node
\* class every instance is (EC2NodePoolBackend.Get).
THEOREM OutdatedByClass ==
    ASSUME NEW before, NEW now
    PROVE  OutdatedEC2(before, now)
<1> DEFINE pool == [name |-> 1, items |-> [k \in {} |-> ""]]
           L == LaunchedEC2(1, before, 1, 1)
           Outdated(i, class) == ~InstanceConfigUpToDate(getInstanceConfig(i), NodePoolConfigGetter(class))
           SameBut(i) == [i EXCEPT !.tags = now.tags] \in LaunchedEC2(1, now, 1, 1)
                         /\ \A k \in DOMAIN now.tags : Carries(i.tags, k, now.tags[k])
<1>1. ASSUME NEW i \in L
      PROVE  /\ i.id = 1 /\ i.cluster = 1 /\ i.pool = 1 /\ i.state = "running" /\ i.ami # ""
             /\ \E u, m, t : i = [id |-> 1, state |-> "running", cluster |-> 1, pool |-> 1, userData |-> u, ami |-> m, tags |-> t]
  <2> DEFINE U == Base64(before.userData)
  <2>1. PICK a \in getAMIsFromSpec(before) :
            i = [id |-> 1, state |-> "running", cluster |-> 1, pool |-> 1, userData |-> U, ami |-> a, tags |-> before.tags]
    BY DEF LaunchedEC2
  <2>2. a # ""
    BY DEF getAMIsFromSpec
  <2> HIDE DEF U
  <2> QED
    BY <2>1, <2>2
<1>2. ASSUME NEW S \in SUBSET L, NEW class
      PROVE  EC2Nodes(S, 1, pool, class) = {[id |-> i.id, outdated |-> Outdated(i, class)] : i \in S}
  <2>1. getInstances(S, 1, pool.name) = S
    BY <1>1 DEF getInstances, filterWithNodePool
  <2> QED
    BY <2>1, Zenon DEF EC2Nodes
<1> HIDE DEF L
<1>3. ASSUME NEW i \in L PROVE Outdated(i, <<>>)
  <2>1. getAMIsFromSpec(NoClass) = {}
    BY DEF getAMIsFromSpec, NoClass, Range
  <2>2. NodePoolConfigGetter(<<>>).imageID = {}
    BY <2>1, Zenon DEF NodePoolConfigGetter
  <2>3. getInstanceConfig(i).imageID # ""
    BY <1>1 DEF getInstanceConfig
  <2> QED
    BY <2>2, <2>3 DEF InstanceConfigUpToDate
<1>4. ASSUME NEW i \in L PROVE Outdated(i, <<now>>) = ~SameBut(i)
  <2> DEFINE U == Base64(now.userData)
             A == getAMIsFromSpec(now)
             Launched(a) == [id |-> 1, state |-> "running", cluster |-> 1, pool |-> 1, userData |-> U, ami |-> a, tags |-> now.tags]
             Carried == \A k \in DOMAIN now.tags : Carries(i.tags, k, now.tags[k])
  <2>1. NodePoolConfigGetter(<<now>>) = [userData |-> U, imageID |-> A, tags |-> now.tags]
    BY DEF NodePoolConfigGetter
  <2>2. Outdated(i, <<now>>) <=> ~(i.userData = U /\ i.ami \in A /\ Carried)
    <3> HIDE DEF U, A
    <3>1. NodePoolConfigGetter(<<now>>).userData = U /\ NodePoolConfigGetter(<<now>>).imageID = A
          /\ NodePoolConfigGetter(<<now>>).tags = now.tags
      BY <2>1
    <3>2. getInstanceConfig(i).userData = i.userData /\ getInstanceConfig(i).imageID = i.ami /\ getInstanceConfig(i).tags = i.tags
      BY DEF getInstanceConfig
    <3> QED
      BY <1>1, <3>1, <3>2 DEF InstanceConfigUpToDate
  <2>3. [i EXCEPT !.tags = now.tags] = [id |-> 1, state |-> "running", cluster |-> 1, pool |-> 1, userData |-> i.userData,
                                        ami |-> i.ami, tags |-> now.tags]
    <3>1. PICK u, a, t :
              i = [id |-> 1, state |-> "running", cluster |-> 1, pool |-> 1, userData |-> u, ami |-> a, tags |-> t]
      BY <1>1
    <3> QED
      BY <3>1
  <2>4. LaunchedEC2(1, now, 1, 1) = {Launched(a) : a \in A}
    BY Zenon DEF LaunchedEC2
  <2> HIDE DEF U, A
  <2>5. ASSUME NEW a \in A, [i EXCEPT !.tags = now.tags] = Launched(a) PROVE i.userData = U /\ i.ami \in A
    BY <2>3, <2>5
  <2>6. ASSUME i.userData = U, i.ami \in A PROVE [i EXCEPT !.tags = now.tags] = Launched(i.ami)
    BY <2>3, <2>6
  <2>7. [i EXCEPT !.tags = now.tags] \in LaunchedEC2(1, now, 1, 1) <=> i.userData = U /\ i.ami \in A
    BY <2>4, <2>5, <2>6, Zenon
  <2>8. Outdated(i, <<now>>) <=> ~SameBut(i)
    <3> HIDE DEF U, A
    <3> QED
      BY <2>2, <2>7
  <2> QED
    BY <2>8, SameTruth, Zenon
<1> HIDE DEF Outdated, SameBut
<1>5. \A n \in EC2Nodes(L, 1, pool, <<>>) : n.outdated
  <2>1. EC2Nodes(L, 1, pool, <<>>) = {[id |-> i.id, outdated |-> Outdated(i, <<>>)] : i \in L}
    BY <1>2
  <2> QED
    BY <1>3, <2>1
<1>6. ASSUME NEW i \in L PROVE EC2Nodes({i}, 1, pool, <<now>>) = {[id |-> 1, outdated |-> ~SameBut(i)]}
  <2>1. EC2Nodes({i}, 1, pool, <<now>>) = {[id |-> j.id, outdated |-> Outdated(j, <<now>>)] : j \in {i}}
    BY <1>2
  <2>2. EC2Nodes({i}, 1, pool, <<now>>) = {[id |-> i.id, outdated |-> Outdated(i, <<now>>)]}
    BY <2>1, Zenon
  <2> QED
    BY <1>1, <1>4, <2>2, Zenon
<1> QED
  BY <1>5, <1>6, Zenon DEF OutdatedEC2, SameBut, L

-----------------------------------------------------------------------------
\* The hashes that Karpenter writes on pools and node classes are not empty.
HashesOf(X) == [pool : [{"poolHash", "poolVersion"} -> X \ {""}], class : [{"classHash"} -> X \ {""}]]

\* The annotations of a claim are those of its pool and class.
Annotations(before) ==
    [k \in DOMAIN before.pool \cup DOMAIN before.class |->
        IF k \in DOMAIN before.pool THEN before.pool[k] ELSE before.class[k]]

Changed(before, now) ==
    \/ before.pool["poolHash"] # now.pool["poolHash"]
    \/ before.class["classHash"] # now.class["classHash"]
    \/ before.pool["poolVersion"] # now.pool["poolVersion"]

\* A claim is behind exactly if one of them changed.
LEMMA BehindIfChanged ==
    ASSUME NEW X, NEW before \in HashesOf(X), NEW now \in HashesOf(X), NEW claim, claim.annotations = Annotations(before)
    PROVE  isNodeClaimBehindObservedTemplates(claim, now.pool, now.class) <=> Changed(before, now)
<1> DEFINE H == {"poolHash", "poolVersion"}
           C == {"classHash"}
           a == Annotations(before)
<1>1. /\ before.pool \in [H -> X \ {""}] /\ before.class \in [C -> X \ {""}]
      /\ now.pool \in [H -> X \ {""}] /\ now.class \in [C -> X \ {""}]
  BY DEF HashesOf
<1>2. /\ DOMAIN a = {"poolHash", "poolVersion", "classHash"} /\ a["poolHash"] = before.pool["poolHash"]
      /\ a["poolVersion"] = before.pool["poolVersion"] /\ a["classHash"] = before.class["classHash"]
  BY <1>1 DEF Annotations
<1> HIDE DEF a
<1>3. /\ DOMAIN now.pool = H /\ DOMAIN now.class = C
      /\ before.pool["poolHash"] # "" /\ now.pool["poolHash"] # "" /\ before.class["classHash"] # "" /\ now.class["classHash"] # ""
  BY <1>1
<1>4. hasHashMismatch(a, now.pool, "poolHash", "poolVersion") <=>
          (before.pool["poolHash"] # now.pool["poolHash"] \/ before.pool["poolVersion"] # now.pool["poolVersion"])
  BY <1>2, <1>3 DEF hasHashMismatch
<1>5. hasHashMismatch(a, now.class, "classHash", "classVersion") <=> before.class["classHash"] # now.class["classHash"]
  BY <1>2, <1>3 DEF hasHashMismatch
<1>6. isNodeClaimBehindObservedTemplates(claim, now.pool, now.class) <=>
          (hasHashMismatch(a, now.pool, "poolHash", "poolVersion") \/ hasHashMismatch(a, now.class, "classHash", "classVersion"))
  BY DEF isNodeClaimBehindObservedTemplates, a
<1> QED
  BY <1>4, <1>5, <1>6 DEF Changed

\* A node is outdated exactly if a hash of its claim's pool or class changed since or
\* Karpenter found it drifted, whether the claim names the node or owns it
\* (EC2NodePoolBackend.GetUsingKubernetesObjects).
THEOREM OutdatedByClaim ==
    ASSUME NEW X, NEW before \in HashesOf(X), NEW now \in HashesOf(X),
           NEW drifted \in BOOLEAN, NEW named \in BOOLEAN, NEW owned \in BOOLEAN
    PROVE  OutdatedClaims(before, now, drifted, named, owned)
<1> DEFINE claim == [name |-> "claim", node |-> IF named THEN "node" ELSE "", drifted |-> drifted,
                     annotations |-> Annotations(before)]
           node == [name |-> "node", provider |-> TRUE, labels |-> [l \in {} |-> ""],
                    owners |-> IF owned THEN <<[kind |-> "NodeClaim", name |-> "claim"]>> ELSE <<>>]
           found == [pool |-> <<now.pool>>, class |-> <<now.class>>]
           r == GetUsingKubernetesObjects(found, {node}, {claim})
           behind == {c \in {claim} : c.drifted \/ isNodeClaimBehindObservedTemplates(c, now.pool, now.class)}
           drift == nodeClaimDriftMaps({claim}, now.pool, now.class)
           Outdated == node.name \in drift.nodes \/ Range(nodeClaimNameFromOwnerReferences(node)) \cap drift.claims # {}
<1>1. claim.name = "claim" /\ claim.node = (IF named THEN "node" ELSE "") /\ claim.drifted = drifted
      /\ claim.annotations = Annotations(before)
  OBVIOUS
<1>2. node.name = "node" /\ node.provider = TRUE /\ node.owners = (IF owned THEN <<[kind |-> "NodeClaim", name |-> "claim"]>> ELSE <<>>)
  OBVIOUS
<1>3. found.pool = <<now.pool>> /\ found.class = <<now.class>> /\ found.pool # <<>> /\ found.class # <<>>
      /\ found.pool[1] = now.pool /\ found.class[1] = now.class
  OBVIOUS
<1> HIDE DEF claim, node, found
<1>4. r = Ok({[id |-> node.name, zone |-> nodeFailureDomain(node), outdated |-> Outdated]})
  <2>1. {m \in {node} : m.provider} = {node}
    BY <1>2
  <2>2. r = Ok({[id |-> n.name, zone |-> nodeFailureDomain(n),
                 outdated |-> n.name \in drift.nodes \/ Range(nodeClaimNameFromOwnerReferences(n)) \cap drift.claims # {}]
                   : n \in {node}})
    BY <1>3, <2>1, Zenon DEF GetUsingKubernetesObjects
  <2> QED
    BY <2>2, Zenon
<1>5. behind = IF drifted \/ Changed(before, now) THEN {claim} ELSE {}
  <2>1. isNodeClaimBehindObservedTemplates(claim, now.pool, now.class) <=> Changed(before, now)
    BY <1>1, BehindIfChanged
  <2> QED
    BY <1>1, <2>1, Zenon
<1>6. drift.claims = {c.name : c \in behind} /\ drift.nodes = {c.node : c \in behind} \ {""}
  BY Zenon DEF nodeClaimDriftMaps
<1> HIDE DEF behind, drift
<1>7. "claim" \in drift.claims <=> drifted \/ Changed(before, now)
  BY <1>1, <1>5, <1>6
<1>8. "node" \in drift.nodes <=> named /\ (drifted \/ Changed(before, now))
  BY <1>1, <1>5, <1>6
<1>9. nodeClaimNameFromOwnerReferences(node) = IF owned THEN <<"claim">> ELSE <<>>
  <2> DEFINE refs == {i \in DOMAIN node.owners : node.owners[i].kind = "NodeClaim" /\ node.owners[i].name # ""}
  <2>1. nodeClaimNameFromOwnerReferences(node) = IF refs = {} THEN <<>> ELSE <<node.owners[Min(refs)].name>>
    BY Zenon DEF nodeClaimNameFromOwnerReferences
  <2>2. CASE owned
    <3>1. refs = {1} /\ node.owners[1].name = "claim"
      <4> DEFINE o == [kind |-> "NodeClaim", name |-> "claim"]
      <4>1. o.kind = "NodeClaim" /\ o.name = "claim" /\ node.owners = <<o>>
        BY <1>2, <2>2
      <4> HIDE DEF o
      <4>2. DOMAIN <<o>> = {1} /\ <<o>>[1] = o
        OBVIOUS
      <4>3. DOMAIN node.owners = {1} /\ node.owners[1] = o
        BY <4>1, <4>2, Zenon
      <4>4. \A i \in DOMAIN node.owners : node.owners[i].kind = "NodeClaim" /\ node.owners[i].name # ""
        BY <4>1, <4>3
      <4> QED
        BY <4>1, <4>3, <4>4
    <3>2. Min({1}) = 1
      BY DEF Min
    <3> HIDE DEF refs
    <3> QED
      BY <2>1, <2>2, <3>1, <3>2
  <2>3. CASE ~owned
    <3>1. refs = {}
      BY <1>2, <2>3
    <3> QED
      BY <2>1, <2>3, <3>1
  <2> QED
    BY <2>2, <2>3
<1>10. Range(nodeClaimNameFromOwnerReferences(node)) = IF owned THEN {"claim"} ELSE {}
  BY <1>9 DEF Range
<1>11. Outdated <=> (named \/ owned) /\ (drifted \/ Changed(before, now))
  <2>1. Range(nodeClaimNameFromOwnerReferences(node)) \cap drift.claims # {} <=> owned /\ (drifted \/ Changed(before, now))
    BY <1>7, <1>10
  <2> QED
    BY <1>2, <1>8, <2>1
<1> HIDE DEF r, Outdated
<1>12. r.ok /\ (named \/ owned => \A n \in r.val : n.outdated = (drifted \/ Changed(before, now)))
  <2>1. named \/ owned => Outdated = (drifted \/ Changed(before, now))
    <3>1. Outdated \in BOOLEAN
      BY DEF Outdated
    <3>2. (drifted \/ Changed(before, now)) \in BOOLEAN
      OBVIOUS
    <3> QED
      BY <1>11, <3>1, <3>2, SameTruth, Zenon
  <2>2. r.ok /\ r.val = {[id |-> node.name, zone |-> nodeFailureDomain(node), outdated |-> Outdated]}
    BY <1>4, Zenon DEF Ok
  <2>3. \A n \in r.val : n.outdated = Outdated
    BY <2>2
  <2> QED
    BY <2>1, <2>2, <2>3, Zenon
<1> QED
  BY <1>12, Zenon DEF OutdatedClaims, r, claim, node, found, Annotations, Changed

-----------------------------------------------------------------------------
SumOfMins(G) == MapThenSumSet(LAMBDA g : g.min, G)

\* The minimum of a pool is the sum over its groups.
LEMMA MinsAdded ==
    ASSUME NEW S, IsFiniteSet(S), NEW m \in Nat, \A g \in S : g.min = m
    PROVE  SumOfMins(S) = m * Cardinality(S)
<1> DEFINE F == [p \in S \X Nat |-> p[1].min + p[2]]
           Body(f) == [s \in SUBSET S |-> IF s = {} THEN 0 ELSE Pick1(s).min + f[s \ {Pick1(s)}]]
           iter == CHOOSE f : f = Body(f)
           res == SumOfMins(S)
           Q == [s \in SUBSET S |-> m * Cardinality(s)]
           T == {<<s, Q[s]>> : s \in SUBSET S}
<1>1. res = iter[S]
  BY Zenon DEF SumOfMins, MapThenSumSet, MapThenFoldSet, Pick1
<1> HIDE DEF res
<1>2. F \in [S \X Nat -> Nat] /\ \A g \in S, v \in Nat : F[<<g, v>>] = g.min + v
  OBVIOUS
<1>3. FoldOverSet(Nat, S, 0, F)
  BY <1>2 DEF FoldOverSet
<1> HIDE DEF F
<1>4. PICK g : Gathers(g, Nat, S, 0, F)
  BY <1>3, Gathered
<1>5. ASSUME NEW s \in SUBSET S, s # {} PROVE g[s] = Pick1(s).min + g[s \ {Pick1(s)}]
  <2>1. Pick1(s) \in S /\ g[s \ {Pick1(s)}] \in Nat /\ g[s] = F[<<Pick1(s), g[s \ {Pick1(s)}]>>]
    BY <1>4, <1>5 DEF Gathers
  <2> QED
    BY <1>2, <2>1
<1>6. g = Body(g)
  <2>1. g \in [SUBSET S -> Nat] /\ g[{}] = 0
    BY <1>4 DEF Gathers
  <2> QED
    BY <1>5, <2>1
<1>7. iter = Body(iter)
  BY <1>6, Zenon
<1> HIDE DEF iter
<1>8. iter[{}] = 0
  BY <1>7
<1>9. ASSUME NEW s \in SUBSET S, s # {}, iter[s \ {Pick1(s)}] \in Nat
      PROVE  iter[s] = F[<<Pick1(s), iter[s \ {Pick1(s)}]>>]
  <2>1. Pick1(s) \in S
    BY <1>4, <1>9 DEF Gathers
  <2>2. iter[s] = Pick1(s).min + iter[s \ {Pick1(s)}]
    BY <1>7, <1>9
  <2> QED
    BY <1>2, <1>9, <2>1, <2>2
<1>10. Gathering(iter, Nat, S, 0, F)
  BY <1>8, <1>9 DEF Gathering
<1>11. Q[{}] = 0
  <2>1. Cardinality({}) = 0
    BY FS_EmptySet
  <2> QED
    BY <2>1
<1>12. ASSUME NEW s \in SUBSET S, NEW x \in S \ s PROVE Q[s \cup {x}] = m + Q[s] /\ Q[s] \in Nat
  <2>1. IsFiniteSet(s) /\ Cardinality(s) \in Nat
    BY FS_Subset, FS_CardinalityType
  <2>2. Cardinality(s \cup {x}) = Cardinality(s) + 1
    BY <2>1, FS_AddElement
  <2>3. \A k \in Nat : m * (k + 1) = m + m * k /\ m * k \in Nat
    OBVIOUS
  <2> QED
    BY <2>1, <2>2, <2>3
<1> HIDE DEF Q
<1>13. \A s \in SUBSET S : \A v : <<s, v>> \in T <=> v = Q[s]
  <2>1. ASSUME NEW s \in SUBSET S, NEW v, NEW u \in SUBSET S, <<s, v>> = <<u, Q[u]>> PROVE v = Q[s]
    BY <2>1
  <2> QED
    BY <2>1, Zenon
<1> HIDE DEF T
<1>14. ASSUME NEW s \in SUBSET S, NEW v \in Nat, NEW x \in S \ s, <<s, v>> \in T
       PROVE  <<s \cup {x}, F[<<x, v>>]>> \in T
  <2>1. v = Q[s] /\ F[<<x, v>>] = x.min + v /\ x.min = m
    BY <1>2, <1>14, <1>13
  <2>2. F[<<x, v>>] = Q[s \cup {x}]
    BY <1>12, <2>1
  <2>3. s \cup {x} \in SUBSET S
    OBVIOUS
  <2> QED
    BY <1>13, <2>2, <2>3, Zenon
<1>15. <<{}, 0>> \in T
  <2>1. {} \in SUBSET S
    OBVIOUS
  <2> QED
    BY <1>11, <1>13, <2>1, Zenon
<1>16. \A s \in SUBSET S, v \in Nat : \A x \in S \ s : <<s, v>> \in T => <<s \cup {x}, F[<<x, v>>]>> \in T
  BY <1>14
<1>17. <<S, iter[S]>> \in T
  <2> DEFINE V == Nat
             b == 0
  <2>1. /\ FoldOverSet(V, S, b, F) /\ Gathering(iter, V, S, b, F) /\ <<{}, b>> \in T
        /\ \A s \in SUBSET S, v \in V : \A x \in S \ s : <<s, v>> \in T => <<s \cup {x}, F[<<x, v>>]>> \in T
    BY <1>3, <1>10, <1>15, <1>16
  <2> HIDE DEF T, V, b, F
  <2> QED
    BY <2>1, GatheredBy, SMTT(30)
<1> QED
  <2>1. S \in SUBSET S
    OBVIOUS
  <2> QED
    BY <1>1, <1>17, <1>13, <2>1 DEF res, Q

\* A load balancer has an opinion about its own instances only.
LEMMA BalancerAdded ==
    ASSUME NEW Ids, NEW States, NEW r \in Partial(Ids, BOOLEAN), NEW b \in Partial(Ids, States)
    PROVE  AddBalancer(r, b) \in Partial(Ids, BOOLEAN)
<1>1. PICK R \in SUBSET Ids : r \in [R -> BOOLEAN]
  BY DEF Partial
<1>2. PICK B \in SUBSET Ids : b \in [B -> States]
  BY DEF Partial
<1>3. DOMAIN r = R /\ DOMAIN b = B /\ \A id \in R : r[id] \in BOOLEAN
  BY <1>1, <1>2
<1>4. \A id \in R \cup B : (IF id \notin B \/ (id \in R /\ ~r[id]) THEN r[id] ELSE b[id] = "InService") \in BOOLEAN
  <2> SUFFICES ASSUME NEW id \in R \cup B
               PROVE  (IF id \notin B \/ (id \in R /\ ~r[id]) THEN r[id] ELSE b[id] = "InService") \in BOOLEAN
    OBVIOUS
  <2>1. CASE id \notin B \/ (id \in R /\ ~r[id])
    BY <1>3, <2>1, Zenon
  <2>2. CASE ~(id \notin B \/ (id \in R /\ ~r[id]))
    <3>1. (b[id] = "InService") \in BOOLEAN
      OBVIOUS
    <3> QED
      BY <2>2, <3>1, Zenon
  <2> QED
    BY <2>1, <2>2
<1>5. AddBalancer(r, b) \in [R \cup B -> BOOLEAN]
  BY <1>3, <1>4, Zenon DEF AddBalancer
<1> QED
  BY <1>5 DEF Partial

\* The load balancers of a group, one after the other.
LEMMA BalancerSteps ==
    ASSUME NEW Ids, NEW States, NEW balancers \in Seq(Partial(Ids, States))
    PROVE  \E h \in [0..Len(balancers) -> Partial(Ids, BOOLEAN)] :
              /\ h[0] = [id \in {} |-> TRUE]
              /\ \A i \in 1..Len(balancers) : h[i] = AddBalancer(h[i - 1], balancers[i])
              /\ getLoadBalancerAttachedInstancesReadiness(balancers) = h[Len(balancers)]
<1> DEFINE V == Partial(Ids, BOOLEAN)
           n == Len(balancers)
           b == [id \in {} |-> TRUE]
           F == [p \in V \X (1..n) |-> AddBalancer(p[1], balancers[p[2]])]
           Body(f) == [s \in SUBSET (DOMAIN balancers) |->
                          IF s = {} THEN b ELSE AddBalancer(f[s \ {Max(s)}], balancers[Max(s)])]
           iter == CHOOSE f : f = Body(f)
<1>1. n \in Nat /\ DOMAIN balancers = 1..n /\ b \in V
  <2>1. n \in Nat /\ DOMAIN balancers = 1..n
    OBVIOUS
  <2>2. b \in [{} -> BOOLEAN] /\ {} \in SUBSET Ids
    OBVIOUS
  <2> HIDE DEF b
  <2> QED
    BY <2>1, <2>2 DEF Partial
<1>2. ASSUME NEW r \in V, NEW i \in 1..n PROVE AddBalancer(r, balancers[i]) \in V
  <2>1. balancers[i] \in Partial(Ids, States)
    OBVIOUS
  <2> QED
    BY <2>1, BalancerAdded
<1>3. getLoadBalancerAttachedInstancesReadiness(balancers) = iter[1..n]
  BY <1>1, Zenon DEF getLoadBalancerAttachedInstancesReadiness, FoldLeft, MapThenFoldSet
<1> HIDE DEF V, n, b
<1>4. F \in [V \X (1..n) -> V] /\ \A r \in V, i \in 1..n : F[<<r, i>>] = AddBalancer(r, balancers[i])
  BY <1>2
<1>5. FoldOver(V, n, b, F)
  BY <1>1, <1>4 DEF FoldOver
<1> HIDE DEF F
<1>6. PICK g : Unrolls(g, V, n, b, F)
  BY <1>5, Unrolled
<1>7. ASSUME NEW s \in SUBSET (1..n), s # {} PROVE g[s] = AddBalancer(g[s \ {Max(s)}], balancers[Max(s)])
  BY <1>4, <1>6, <1>7 DEF Unrolls
<1>8. g = Body(g)
  BY <1>1, <1>6, <1>7 DEF Unrolls
<1>9. iter = Body(iter)
  BY <1>8, Zenon
<1> HIDE DEF iter
<1>10. ASSUME NEW s \in SUBSET (1..n), s # {}, iter[s \ {Max(s)}] \in V
       PROVE  iter[s] = F[<<iter[s \ {Max(s)}], Max(s)>>]
  BY <1>1, <1>4, <1>6, <1>9, <1>10 DEF Unrolls
<1>11. Follows(iter, V, n, b, F)
  BY <1>1, <1>9, <1>10 DEF Follows
<1>12. PICK h : StepsOf(h, V, n, b, F) /\ iter[1..n] = h[n]
  BY <1>5, <1>11, Folded
<1>13. h \in [0..n -> V] /\ h[0] = b
  BY <1>12 DEF StepsOf
<1>14. ASSUME NEW i \in 1..n PROVE h[i] = AddBalancer(h[i - 1], balancers[i])
  <2>1. h[i - 1] \in V /\ h[i] = F[<<h[i - 1], i>>]
    BY <1>1, <1>12 DEF StepsOf
  <2> QED
    BY <1>4, <2>1
<1> QED
  BY <1>3, <1>12, <1>13, <1>14 DEF V, n, b


\* An instance that a load balancer has is ready only if it is in service there.
InServiceIn(ready, b) == \A id \in DOMAIN b : id \in DOMAIN ready /\ (ready[id] => b[id] = "InService")

\* It is in service at every load balancer that has it.
LEMMA ReadyInAll ==
    ASSUME NEW Ids, NEW States, NEW balancers \in Seq(Partial(Ids, States)), NEW b \in Range(balancers)
    PROVE  InServiceIn(getLoadBalancerAttachedInstancesReadiness(balancers), b)
<1> DEFINE n == Len(balancers)
<1>1. PICK h \in [0..n -> Partial(Ids, BOOLEAN)] :
         /\ h[0] = [id \in {} |-> TRUE]
         /\ \A i \in 1..n : h[i] = AddBalancer(h[i - 1], balancers[i])
         /\ getLoadBalancerAttachedInstancesReadiness(balancers) = h[n]
  BY BalancerSteps
<1>2. n \in Nat /\ DOMAIN balancers = 1..n
  OBVIOUS
<1> HIDE DEF n
<1> DEFINE P(i) == \A j \in 1..i : InServiceIn(h[i], balancers[j])
           T == {i \in 0..n : P(i)}
<1>3. 0 \in T
  BY <1>2
<1>4. ASSUME NEW i \in 0..(n - 1), i \in T PROVE i + 1 \in T
  <2>1. i \in 0..n /\ i + 1 \in 0..n /\ i + 1 \in 1..n /\ (i + 1) - 1 = i
    BY <1>2
  <2>2. h[i + 1] = AddBalancer(h[i], balancers[i + 1])
    BY <1>1, <2>1
  <2>3. P(i)
    BY <1>4
  <2>4. ASSUME NEW j \in 1..(i + 1) PROVE InServiceIn(h[i + 1], balancers[j])
    <3>1. CASE j = i + 1
      BY <2>2, <3>1, Zenon DEF AddBalancer, InServiceIn
    <3>2. CASE j # i + 1
      <4>1. j \in 1..i
        BY <2>1, <3>2
      <4>2. InServiceIn(h[i], balancers[j])
        BY <2>3, <4>1
      <4> QED
        BY <2>2, <4>2, Zenon DEF AddBalancer, InServiceIn
    <3> QED
      BY <3>1, <3>2
  <2> HIDE DEF P
  <2>5. P(i + 1)
    BY <2>4 DEF P
  <2> QED
    BY <2>1, <2>5
<1>5. P(n)
  <2> HIDE DEF P
  <2>1. 0..n \subseteq T
    BY <1>2, <1>3, <1>4, Upwards
  <2>2. n \in T
    BY <1>2, <2>1
  <2> QED
    BY <2>2
<1>6. PICK j \in 1..n : b = balancers[j]
  BY <1>2 DEF Range
<1> QED
  BY <1>1, <1>5, <1>6

-----------------------------------------------------------------------------
\* No launch template is read for the groups of this theorem.
NoTemplates == [v \in {} |-> 0]

\* The nodes of a pool are the instances of all its groups and of no other pool's, its
\* minimum is the sum, and an instance that any load balancer has out of service is
\* not ready; for any number of groups, instances and load balancers
\* (ASGNodePoolsBackend.Get).
THEOREM NodesOfAllGroups ==
    ASSUME NEW Pools, NEW groups, IsFiniteSet(groups),
           \A g \in groups : /\ g.tags \in [cluster : Pools, pool : Pools] /\ g.min = 2
                             /\ asgLaunchParameters(g, NoTemplates).ok,
           NEW Ids, NEW States, NEW balancers \in Seq(Partial(Ids, States))
    PROVE  NodesOfPool(groups, balancers)
<1> DEFINE ready == getLoadBalancerAttachedInstancesReadiness(balancers)
           mine == {g \in groups : g.tags = [cluster |-> "c", pool |-> "p"]}
           Old(g) == getInstancesToUpdate(g, NoTemplates, {})
           r == ASGGet(groups, "c", "p", NoTemplates, {}, balancers)
<1>1. {g \in groups : asgHasAllTags([cluster |-> "c", pool |-> "p"], g.tags)} = mine
  <2> SUFFICES ASSUME NEW g \in groups
               PROVE  asgHasAllTags([cluster |-> "c", pool |-> "p"], g.tags) <=> g.tags = [cluster |-> "c", pool |-> "p"]
    BY Zenon
  <2> DEFINE t == g.tags
             e == [cluster |-> "c", pool |-> "p"]
  <2>1. t \in [cluster : Pools, pool : Pools]
    OBVIOUS
  <2>2. DOMAIN e = {"cluster", "pool"} /\ e["cluster"] = "c" /\ e["pool"] = "p" /\ DOMAIN t = {"cluster", "pool"}
    BY <2>1
  <2>3. asgHasAllTags(e, t) <=> t.cluster = "c" /\ t.pool = "p"
    <3> HIDE DEF e, t
    <3> QED
      BY <2>2 DEF asgHasAllTags, Carries
  <2>4. t = [cluster |-> "c", pool |-> "p"] <=> t.cluster = "c" /\ t.pool = "p"
    <3> HIDE DEF t
    <3> QED
      BY <2>1
  <2> QED
    BY <2>3, <2>4, Zenon DEF e, t
<1>2. getNodePoolASGs(groups, "c", "p") = IF mine = {} THEN Fails ELSE Ok(mine)
  BY <1>1, Zenon DEF getNodePoolASGs
<1>3. ASSUME NEW g \in groups PROVE Old(g).ok
  BY <1>3 DEF getInstancesToUpdate, Ok
<1> HIDE DEF Old, ready
<1>4. mine = {} => r = Fails
  <2> HIDE DEF mine
  <2>1. mine = {} => getNodePoolASGs(groups, "c", "p") = Fails
    BY <1>2
  <2> QED
    BY <2>1 DEF ASGGet, Fails
<1>5. ASSUME mine # {}
      PROVE  r = Ok([min |-> SumOfMins(mine), nodes |-> UNION {Nodes(g, Old(g).val, ready) : g \in mine}])
  <2> DEFINE found == getNodePoolASGs(groups, "c", "p")
  <2>0. found = Ok(mine)
    BY <1>2, <1>5, Zenon
  <2>1. found.ok = TRUE /\ found.val = mine
    BY <2>0 DEF Ok
  <2>2. \A g \in mine : Old(g).ok
    BY <1>3
  <2> HIDE DEF found, mine
  <2> QED
    BY <2>1, <2>2, Zenon DEF ASGGet, SumOfMins, Old, ready, found
<1>6. IsFiniteSet(mine) /\ SumOfMins(mine) = 2 * Cardinality(mine)
  <2>1. IsFiniteSet(mine)
    BY FS_Subset
  <2>2. \A g \in mine : g.min = 2
    OBVIOUS
  <2> HIDE DEF mine
  <2> QED
    BY <2>1, <2>2, MinsAdded
<1> HIDE DEF mine
<1> DEFINE all == UNION {Nodes(g, Old(g).val, ready) : g \in mine}
           node(g, i) == [id |-> i.id, zone |-> i.zone, outdated |-> i \in Old(g).val,
                          ready |-> i.health = "Healthy" /\ i.state = "InService" /\ (i.id \in DOMAIN ready => ready[i.id])]
<1>7. \A n : n \in all <=> \E g \in mine : \E i \in g.instances : n = node(g, i)
  <2> DEFINE of(g) == Nodes(g, Old(g).val, ready)
  <2>1. \A g : of(g) = {node(g, i) : i \in g.instances}
    BY Zenon DEF Nodes
  <2>2. \A n : n \in all <=> \E g \in mine : n \in of(g)
    BY Zenon
  <2> HIDE DEF node, all, of
  <2>3. ASSUME NEW n, NEW g PROVE n \in of(g) <=> \E i \in g.instances : n = node(g, i)
    <3>1. of(g) = {node(g, i) : i \in g.instances}
      BY <2>1
    <3> QED
      BY <3>1
  <2> QED
    BY <2>2, <2>3, Zenon
<1> HIDE DEF all
<1>8. {n.id : n \in all} = {i.id : i \in UNION {g.instances : g \in mine}}
  <2>1. \A g, i : node(g, i).id = i.id
    OBVIOUS
  <2> HIDE DEF node
  <2> QED
    BY <1>7, <2>1
<1>9. ASSUME NEW n \in all, n.ready, NEW b \in Range(balancers), n.id \in DOMAIN b PROVE b[n.id] = "InService"
  <2>1. PICK g \in mine : \E i \in g.instances : n = node(g, i)
    BY <1>7
  <2>2. PICK i \in g.instances : n = node(g, i)
    BY <2>1
  <2>3. n.id = i.id /\ (n.ready => (i.id \in DOMAIN ready => ready[i.id]))
    BY <2>2
  <2>4. InServiceIn(ready, b)
    BY ReadyInAll DEF ready
  <2> QED
    BY <1>9, <2>3, <2>4 DEF InServiceIn
<1> DEFINE s == SumOfMins(mine)
<1>10. (r.ok <=> mine # {}) /\ (r.ok => r.val.min = s /\ r.val.nodes = all)
  <2> HIDE DEF r, s
  <2>1. mine = {} => ~r.ok
    BY <1>4 DEF Fails
  <2>2. mine # {} => r = Ok([min |-> s, nodes |-> all])
    BY <1>5 DEF s, all
  <2>3. mine # {} => r.ok /\ r.val.min = s /\ r.val.nodes = all
    BY <2>2 DEF Ok
  <2> QED
    BY <2>1, <2>3
<1> HIDE DEF r, s
<1>11. /\ r.ok <=> mine # {}
       /\ r.ok => /\ {n.id : n \in r.val.nodes} = {i.id : i \in UNION {g.instances : g \in mine}}
                  /\ r.val.min = 2 * Cardinality(mine)
                  /\ \A n \in r.val.nodes : n.ready => \A b \in Range(balancers) : n.id \in DOMAIN b => b[n.id] = "InService"
  BY <1>6, <1>8, <1>9, <1>10 DEF s
<1> QED
  BY <1>11, Zenon DEF NodesOfPool, r, mine, NoTemplates

-----------------------------------------------------------------------------
\* The hashes of a template, one after the other.
LEMMA HashSteps ==
    ASSUME NEW ctx, NEW X, NEW hashes \in Seq(X)
    PROVE  \E h : /\ h[0] = Ok([ctx |-> ctx, sums |-> <<>>])
                  /\ \A i \in 1..Len(hashes) : h[i] = AddHash(h[i - 1], hashes[i])
                  /\ AllHashes(ctx, hashes) = h[Len(hashes)]
<1> DEFINE n == Len(hashes)
           b == Ok([ctx |-> ctx, sums |-> <<>>])
           Body(f) == [s \in SUBSET (DOMAIN hashes) |-> IF s = {} THEN b ELSE AddHash(f[s \ {Max(s)}], hashes[Max(s)])]
           iter == CHOOSE f : f = Body(f)
           Of(m, g) == /\ DOMAIN g = SUBSET (1..m) /\ g = [s \in SUBSET (1..m) |-> g[s]]
                       /\ \A s \in SUBSET (1..m) : g[s] = IF s = {} THEN b ELSE AddHash(g[s \ {Max(s)}], hashes[Max(s)])
           T == {m \in 0..n : \E g : Of(m, g)}
<1>1. n \in Nat /\ DOMAIN hashes = 1..n
  OBVIOUS
<1>2. AllHashes(ctx, hashes) = iter[1..n]
  BY <1>1, Zenon DEF AllHashes, FoldLeft, MapThenFoldSet
<1> HIDE DEF n, b
<1>3. 0 \in T
  <2> DEFINE g == [s \in SUBSET (1..0) |-> b]
  <2>1. g = [s \in SUBSET (1..0) |-> g[s]] /\ DOMAIN g = SUBSET (1..0)
    OBVIOUS
  <2>2. \A s \in SUBSET (1..0) : s = {} /\ g[s] = b
    OBVIOUS
  <2> HIDE DEF g
  <2>3. Of(0, g)
    BY <2>1, <2>2
  <2>4. 0 \in 0..n
    BY <1>1
  <2> HIDE DEF Of
  <2> QED
    BY <2>3, <2>4
<1>4. ASSUME NEW m \in 0..(n - 1), m \in T PROVE m + 1 \in T
  <2>1. PICK g : Of(m, g)
    BY <1>4
  <2> DEFINE k == m + 1
             h == [s \in SUBSET (1..k) |-> IF k \in s THEN AddHash(g[s \ {k}], hashes[k]) ELSE g[s]]
  <2>2. k \in 1..n /\ 1..k = 1..m \cup {k} /\ k \notin 1..m /\ k \in Nat
    BY <1>1
  <2> HIDE DEF k
  <2>3. ASSUME NEW s \in SUBSET (1..k)
        PROVE  h[s] = IF s = {} THEN b ELSE AddHash(h[s \ {Max(s)}], hashes[Max(s)])
    <3>1. CASE k \in s
      <4>1. Max(s) = k
        BY <2>2, <3>1, MaxIs
      <4>2. h[s \ {k}] = g[s \ {k}] /\ h[s] = AddHash(g[s \ {k}], hashes[k])
        BY <2>2, <3>1
      <4> HIDE DEF h
      <4> QED
        BY <2>2, <3>1, <4>1, <4>2
    <3>2. CASE k \notin s
      <4>1. s \in SUBSET (1..m) /\ h[s] = g[s]
        BY <2>2, <3>2
      <4>2. CASE s = {}
        BY <2>1, <4>1, <4>2
      <4>3. CASE s # {}
        <5>1. h[s \ {Max(s)}] = g[s \ {Max(s)}]
          BY <2>2, <4>1
        <5>2. g[s] = AddHash(g[s \ {Max(s)}], hashes[Max(s)])
          BY <2>1, <4>1, <4>3
        <5> HIDE DEF h
        <5> QED
          BY <4>1, <4>3, <5>1, <5>2
      <4> QED
        BY <4>2, <4>3
    <3> QED
      BY <3>1, <3>2
  <2>4. h = [s \in SUBSET (1..k) |-> h[s]] /\ DOMAIN h = SUBSET (1..k)
    OBVIOUS
  <2> HIDE DEF h
  <2>5. Of(k, h)
    BY <2>3, <2>4
  <2> HIDE DEF Of
  <2>6. k \in T
    BY <1>1, <2>2, <2>5
  <2> QED
    BY <2>6 DEF k
<1>5. n \in T
  <2> HIDE DEF T
  <2>1. 0..n \subseteq T
    BY <1>1, <1>3, <1>4, Upwards
  <2> QED
    BY <1>1, <2>1
<1>6. PICK g : Of(n, g)
  BY <1>5
<1>7. g = Body(g)
  BY <1>1, <1>6
<1>8. iter = Body(iter)
  BY <1>7, Zenon
<1> HIDE DEF iter
<1> DEFINE h == [i \in 0..n |-> iter[1..i]]
<1>9. h[0] = b
  <2>1. 1..0 = {} /\ {} \in SUBSET (1..n) /\ 0 \in 0..n
    BY <1>1
  <2>2. iter[{}] = b
    BY <1>1, <1>8, <2>1
  <2> QED
    BY <2>1, <2>2
<1>10. ASSUME NEW i \in 1..n PROVE h[i] = AddHash(h[i - 1], hashes[i])
  <2>1. 1..i \in SUBSET (1..n) /\ i \in 1..i /\ (1..i) \ {i} = 1..(i - 1) /\ i \in 0..n /\ i - 1 \in 0..n /\ i \in Nat
    BY <1>1
  <2>2. Max(1..i) = i /\ 1..i # {}
    BY <2>1, MaxIs
  <2>3. iter[1..i] = AddHash(iter[1..(i - 1)], hashes[i])
    BY <1>1, <1>8, <2>1, <2>2
  <2>4. h[i] = iter[1..i] /\ h[i - 1] = iter[1..(i - 1)]
    BY <2>1
  <2> HIDE DEF h
  <2> QED
    BY <2>3, <2>4
<1>11. AllHashes(ctx, hashes) = h[n]
  BY <1>1, <1>2
<1> HIDE DEF h
<1> QED
  BY <1>9, <1>10, <1>11 DEF n, b

\* The manifests of a component, one after the other.
LEMMA ManifestSteps ==
    ASSUME NEW files, NEW X, NEW order \in Seq(X)
    PROVE  \E h : /\ h[0] = Ok([ctx |-> newTemplateContext(files), texts |-> <<>>])
                  /\ \A i \in 1..Len(order) : h[i] = AddManifest(files, h[i - 1], order[i])
                  /\ RenderComponent(files, order) = h[Len(order)]
<1> DEFINE n == Len(order)
           b == Ok([ctx |-> newTemplateContext(files), texts |-> <<>>])
           Body(f) == [s \in SUBSET (DOMAIN order) |-> IF s = {} THEN b ELSE AddManifest(files, f[s \ {Max(s)}], order[Max(s)])]
           iter == CHOOSE f : f = Body(f)
           Of(m, g) == /\ DOMAIN g = SUBSET (1..m) /\ g = [s \in SUBSET (1..m) |-> g[s]]
                       /\ \A s \in SUBSET (1..m) : g[s] = IF s = {} THEN b ELSE AddManifest(files, g[s \ {Max(s)}], order[Max(s)])
           T == {m \in 0..n : \E g : Of(m, g)}
<1>1. n \in Nat /\ DOMAIN order = 1..n
  OBVIOUS
<1>2. RenderComponent(files, order) = iter[1..n]
  BY <1>1, Zenon DEF RenderComponent, FoldLeft, MapThenFoldSet
<1> HIDE DEF n, b
<1>3. 0 \in T
  <2> DEFINE g == [s \in SUBSET (1..0) |-> b]
  <2>1. g = [s \in SUBSET (1..0) |-> g[s]] /\ DOMAIN g = SUBSET (1..0)
    OBVIOUS
  <2>2. \A s \in SUBSET (1..0) : s = {} /\ g[s] = b
    OBVIOUS
  <2> HIDE DEF g
  <2>3. Of(0, g)
    BY <2>1, <2>2
  <2>4. 0 \in 0..n
    BY <1>1
  <2> HIDE DEF Of
  <2> QED
    BY <2>3, <2>4
<1>4. ASSUME NEW m \in 0..(n - 1), m \in T PROVE m + 1 \in T
  <2>1. PICK g : Of(m, g)
    BY <1>4
  <2> DEFINE k == m + 1
             h == [s \in SUBSET (1..k) |-> IF k \in s THEN AddManifest(files, g[s \ {k}], order[k]) ELSE g[s]]
  <2>2. k \in 1..n /\ 1..k = 1..m \cup {k} /\ k \notin 1..m /\ k \in Nat
    BY <1>1
  <2> HIDE DEF k
  <2>3. ASSUME NEW s \in SUBSET (1..k)
        PROVE  h[s] = IF s = {} THEN b ELSE AddManifest(files, h[s \ {Max(s)}], order[Max(s)])
    <3>1. CASE k \in s
      <4>1. Max(s) = k
        BY <2>2, <3>1, MaxIs
      <4>2. h[s \ {k}] = g[s \ {k}] /\ h[s] = AddManifest(files, g[s \ {k}], order[k])
        BY <2>2, <3>1
      <4> HIDE DEF h
      <4> QED
        BY <2>2, <3>1, <4>1, <4>2
    <3>2. CASE k \notin s
      <4>1. s \in SUBSET (1..m) /\ h[s] = g[s]
        BY <2>2, <3>2
      <4>2. CASE s = {}
        BY <2>1, <4>1, <4>2
      <4>3. CASE s # {}
        <5>1. h[s \ {Max(s)}] = g[s \ {Max(s)}]
          BY <2>2, <4>1
        <5>2. g[s] = AddManifest(files, g[s \ {Max(s)}], order[Max(s)])
          BY <2>1, <4>1, <4>3
        <5> HIDE DEF h
        <5> QED
          BY <4>1, <4>3, <5>1, <5>2
      <4> QED
        BY <4>2, <4>3
    <3> QED
      BY <3>1, <3>2
  <2>4. h = [s \in SUBSET (1..k) |-> h[s]] /\ DOMAIN h = SUBSET (1..k)
    OBVIOUS
  <2> HIDE DEF h
  <2>5. Of(k, h)
    BY <2>3, <2>4
  <2> HIDE DEF Of
  <2>6. k \in T
    BY <1>1, <2>2, <2>5
  <2> QED
    BY <2>6 DEF k
<1>5. n \in T
  <2> HIDE DEF T
  <2>1. 0..n \subseteq T
    BY <1>1, <1>3, <1>4, Upwards
  <2> QED
    BY <1>1, <2>1
<1>6. PICK g : Of(n, g)
  BY <1>5
<1>7. g = Body(g)
  BY <1>1, <1>6
<1>8. iter = Body(iter)
  BY <1>7, Zenon
<1> HIDE DEF iter
<1> DEFINE h == [i \in 0..n |-> iter[1..i]]
<1>9. h[0] = b
  <2>1. 1..0 = {} /\ {} \in SUBSET (1..n) /\ 0 \in 0..n
    BY <1>1
  <2>2. iter[{}] = b
    BY <1>1, <1>8, <2>1
  <2> QED
    BY <2>1, <2>2
<1>10. ASSUME NEW i \in 1..n PROVE h[i] = AddManifest(files, h[i - 1], order[i])
  <2>1. 1..i \in SUBSET (1..n) /\ i \in 1..i /\ (1..i) \ {i} = 1..(i - 1) /\ i \in 0..n /\ i - 1 \in 0..n /\ i \in Nat
    BY <1>1
  <2>2. Max(1..i) = i /\ 1..i # {}
    BY <2>1, MaxIs
  <2>3. iter[1..i] = AddManifest(files, iter[1..(i - 1)], order[i])
    BY <1>1, <1>8, <2>1, <2>2
  <2>4. h[i] = iter[1..i] /\ h[i - 1] = iter[1..(i - 1)]
    BY <2>1
  <2> HIDE DEF h
  <2> QED
    BY <2>3, <2>4
<1>11. RenderComponent(files, order) = h[n]
  BY <1>1, <1>2
<1> HIDE DEF h
<1> QED
  BY <1>9, <1>10, <1>11 DEF n, b

\* The components, one after the other.
LEMMA ComponentSteps ==
    ASSUME NEW X, NEW components \in Seq(X)
    PROVE  \E h : /\ h[0] = Ok(<<>>)
                  /\ \A i \in 1..Len(components) : h[i] = AddComponent(h[i - 1], components[i])
                  /\ renderManifests(components) = h[Len(components)]
<1> DEFINE n == Len(components)
           b == Ok(<<>>)
           Body(f) == [s \in SUBSET (DOMAIN components) |-> IF s = {} THEN b ELSE AddComponent(f[s \ {Max(s)}], components[Max(s)])]
           iter == CHOOSE f : f = Body(f)
           Of(m, g) == /\ DOMAIN g = SUBSET (1..m) /\ g = [s \in SUBSET (1..m) |-> g[s]]
                       /\ \A s \in SUBSET (1..m) : g[s] = IF s = {} THEN b ELSE AddComponent(g[s \ {Max(s)}], components[Max(s)])
           T == {m \in 0..n : \E g : Of(m, g)}
<1>1. n \in Nat /\ DOMAIN components = 1..n
  OBVIOUS
<1>2. renderManifests(components) = iter[1..n]
  BY <1>1, Zenon DEF renderManifests, FoldLeft, MapThenFoldSet
<1> HIDE DEF n, b
<1>3. 0 \in T
  <2> DEFINE g == [s \in SUBSET (1..0) |-> b]
  <2>1. g = [s \in SUBSET (1..0) |-> g[s]] /\ DOMAIN g = SUBSET (1..0)
    OBVIOUS
  <2>2. \A s \in SUBSET (1..0) : s = {} /\ g[s] = b
    OBVIOUS
  <2> HIDE DEF g
  <2>3. Of(0, g)
    BY <2>1, <2>2
  <2>4. 0 \in 0..n
    BY <1>1
  <2> HIDE DEF Of
  <2> QED
    BY <2>3, <2>4
<1>4. ASSUME NEW m \in 0..(n - 1), m \in T PROVE m + 1 \in T
  <2>1. PICK g : Of(m, g)
    BY <1>4
  <2> DEFINE k == m + 1
             h == [s \in SUBSET (1..k) |-> IF k \in s THEN AddComponent(g[s \ {k}], components[k]) ELSE g[s]]
  <2>2. k \in 1..n /\ 1..k = 1..m \cup {k} /\ k \notin 1..m /\ k \in Nat
    BY <1>1
  <2> HIDE DEF k
  <2>3. ASSUME NEW s \in SUBSET (1..k)
        PROVE  h[s] = IF s = {} THEN b ELSE AddComponent(h[s \ {Max(s)}], components[Max(s)])
    <3>1. CASE k \in s
      <4>1. Max(s) = k
        BY <2>2, <3>1, MaxIs
      <4>2. h[s \ {k}] = g[s \ {k}] /\ h[s] = AddComponent(g[s \ {k}], components[k])
        BY <2>2, <3>1
      <4> HIDE DEF h
      <4> QED
        BY <2>2, <3>1, <4>1, <4>2
    <3>2. CASE k \notin s
      <4>1. s \in SUBSET (1..m) /\ h[s] = g[s]
        BY <2>2, <3>2
      <4>2. CASE s = {}
        BY <2>1, <4>1, <4>2
      <4>3. CASE s # {}
        <5>1. h[s \ {Max(s)}] = g[s \ {Max(s)}]
          BY <2>2, <4>1
        <5>2. g[s] = AddComponent(g[s \ {Max(s)}], components[Max(s)])
          BY <2>1, <4>1, <4>3
        <5> HIDE DEF h
        <5> QED
          BY <4>1, <4>3, <5>1, <5>2
      <4> QED
        BY <4>2, <4>3
    <3> QED
      BY <3>1, <3>2
  <2>4. h = [s \in SUBSET (1..k) |-> h[s]] /\ DOMAIN h = SUBSET (1..k)
    OBVIOUS
  <2> HIDE DEF h
  <2>5. Of(k, h)
    BY <2>3, <2>4
  <2> HIDE DEF Of
  <2>6. k \in T
    BY <1>1, <2>2, <2>5
  <2> QED
    BY <2>6 DEF k
<1>5. n \in T
  <2> HIDE DEF T
  <2>1. 0..n \subseteq T
    BY <1>1, <1>3, <1>4, Upwards
  <2> QED
    BY <1>1, <2>1
<1>6. PICK g : Of(n, g)
  BY <1>5
<1>7. g = Body(g)
  BY <1>1, <1>6
<1>8. iter = Body(iter)
  BY <1>7, Zenon
<1> HIDE DEF iter
<1> DEFINE h == [i \in 0..n |-> iter[1..i]]
<1>9. h[0] = b
  <2>1. 1..0 = {} /\ {} \in SUBSET (1..n) /\ 0 \in 0..n
    BY <1>1
  <2>2. iter[{}] = b
    BY <1>1, <1>8, <2>1
  <2> QED
    BY <2>1, <2>2
<1>10. ASSUME NEW i \in 1..n PROVE h[i] = AddComponent(h[i - 1], components[i])
  <2>1. 1..i \in SUBSET (1..n) /\ i \in 1..i /\ (1..i) \ {i} = 1..(i - 1) /\ i \in 0..n /\ i - 1 \in 0..n /\ i \in Nat
    BY <1>1
  <2>2. Max(1..i) = i /\ 1..i # {}
    BY <2>1, MaxIs
  <2>3. iter[1..i] = AddComponent(iter[1..(i - 1)], components[i])
    BY <1>1, <1>8, <2>1, <2>2
  <2>4. h[i] = iter[1..i] /\ h[i - 1] = iter[1..(i - 1)]
    BY <2>1
  <2> HIDE DEF h
  <2> QED
    BY <2>3, <2>4
<1>11. renderManifests(components) = h[n]
  BY <1>1, <1>2
<1> HIDE DEF h
<1> QED
  BY <1>9, <1>10, <1>11 DEF n, b

\* The files of deletions, one after the other.
LEMMA DeletionSteps ==
    ASSUME NEW X, NEW files \in Seq(X)
    PROVE  \E h : /\ h[0] = Ok([preApply |-> <<>>, postApply |-> <<>>])
                  /\ \A i \in 1..Len(files) : h[i] = AddFile(h[i - 1], files[i])
                  /\ parseDeletions(files) = h[Len(files)]
<1> DEFINE n == Len(files)
           b == Ok([preApply |-> <<>>, postApply |-> <<>>])
           Body(f) == [s \in SUBSET (DOMAIN files) |-> IF s = {} THEN b ELSE AddFile(f[s \ {Max(s)}], files[Max(s)])]
           iter == CHOOSE f : f = Body(f)
           Of(m, g) == /\ DOMAIN g = SUBSET (1..m) /\ g = [s \in SUBSET (1..m) |-> g[s]]
                       /\ \A s \in SUBSET (1..m) : g[s] = IF s = {} THEN b ELSE AddFile(g[s \ {Max(s)}], files[Max(s)])
           T == {m \in 0..n : \E g : Of(m, g)}
<1>1. n \in Nat /\ DOMAIN files = 1..n
  OBVIOUS
<1>2. parseDeletions(files) = iter[1..n]
  BY <1>1, Zenon DEF parseDeletions, FoldLeft, MapThenFoldSet
<1> HIDE DEF n, b
<1>3. 0 \in T
  <2> DEFINE g == [s \in SUBSET (1..0) |-> b]
  <2>1. g = [s \in SUBSET (1..0) |-> g[s]] /\ DOMAIN g = SUBSET (1..0)
    OBVIOUS
  <2>2. \A s \in SUBSET (1..0) : s = {} /\ g[s] = b
    OBVIOUS
  <2> HIDE DEF g
  <2>3. Of(0, g)
    BY <2>1, <2>2
  <2>4. 0 \in 0..n
    BY <1>1
  <2> HIDE DEF Of
  <2> QED
    BY <2>3, <2>4
<1>4. ASSUME NEW m \in 0..(n - 1), m \in T PROVE m + 1 \in T
  <2>1. PICK g : Of(m, g)
    BY <1>4
  <2> DEFINE k == m + 1
             h == [s \in SUBSET (1..k) |-> IF k \in s THEN AddFile(g[s \ {k}], files[k]) ELSE g[s]]
  <2>2. k \in 1..n /\ 1..k = 1..m \cup {k} /\ k \notin 1..m /\ k \in Nat
    BY <1>1
  <2> HIDE DEF k
  <2>3. ASSUME NEW s \in SUBSET (1..k)
        PROVE  h[s] = IF s = {} THEN b ELSE AddFile(h[s \ {Max(s)}], files[Max(s)])
    <3>1. CASE k \in s
      <4>1. Max(s) = k
        BY <2>2, <3>1, MaxIs
      <4>2. h[s \ {k}] = g[s \ {k}] /\ h[s] = AddFile(g[s \ {k}], files[k])
        BY <2>2, <3>1
      <4> HIDE DEF h
      <4> QED
        BY <2>2, <3>1, <4>1, <4>2
    <3>2. CASE k \notin s
      <4>1. s \in SUBSET (1..m) /\ h[s] = g[s]
        BY <2>2, <3>2
      <4>2. CASE s = {}
        BY <2>1, <4>1, <4>2
      <4>3. CASE s # {}
        <5>1. h[s \ {Max(s)}] = g[s \ {Max(s)}]
          BY <2>2, <4>1
        <5>2. g[s] = AddFile(g[s \ {Max(s)}], files[Max(s)])
          BY <2>1, <4>1, <4>3
        <5> HIDE DEF h
        <5> QED
          BY <4>1, <4>3, <5>1, <5>2
      <4> QED
        BY <4>2, <4>3
    <3> QED
      BY <3>1, <3>2
  <2>4. h = [s \in SUBSET (1..k) |-> h[s]] /\ DOMAIN h = SUBSET (1..k)
    OBVIOUS
  <2> HIDE DEF h
  <2>5. Of(k, h)
    BY <2>3, <2>4
  <2> HIDE DEF Of
  <2>6. k \in T
    BY <1>1, <2>2, <2>5
  <2> QED
    BY <2>6 DEF k
<1>5. n \in T
  <2> HIDE DEF T
  <2>1. 0..n \subseteq T
    BY <1>1, <1>3, <1>4, Upwards
  <2> QED
    BY <1>1, <2>1
<1>6. PICK g : Of(n, g)
  BY <1>5
<1>7. g = Body(g)
  BY <1>1, <1>6
<1>8. iter = Body(iter)
  BY <1>7, Zenon
<1> HIDE DEF iter
<1> DEFINE h == [i \in 0..n |-> iter[1..i]]
<1>9. h[0] = b
  <2>1. 1..0 = {} /\ {} \in SUBSET (1..n) /\ 0 \in 0..n
    BY <1>1
  <2>2. iter[{}] = b
    BY <1>1, <1>8, <2>1
  <2> QED
    BY <2>1, <2>2
<1>10. ASSUME NEW i \in 1..n PROVE h[i] = AddFile(h[i - 1], files[i])
  <2>1. 1..i \in SUBSET (1..n) /\ i \in 1..i /\ (1..i) \ {i} = 1..(i - 1) /\ i \in 0..n /\ i - 1 \in 0..n /\ i \in Nat
    BY <1>1
  <2>2. Max(1..i) = i /\ 1..i # {}
    BY <2>1, MaxIs
  <2>3. iter[1..i] = AddFile(iter[1..(i - 1)], files[i])
    BY <1>1, <1>8, <2>1, <2>2
  <2>4. h[i] = iter[1..i] /\ h[i - 1] = iter[1..(i - 1)]
    BY <2>1
  <2> HIDE DEF h
  <2> QED
    BY <2>3, <2>4
<1>11. parseDeletions(files) = h[n]
  BY <1>1, <1>2
<1> HIDE DEF h
<1> QED
  BY <1>9, <1>10, <1>11 DEF n, b

-----------------------------------------------------------------------------
\* Every rendered file has its hashes of rendered files, as they are, and none of
\* them leads back to it.
HashedBy(files, R, f) == Text(f, [i \in 1..Len(files[f].hashes) |-> R[files[f].hashes[i]]])

Consistent(files, R) ==
    /\ DOMAIN R \subseteq DOMAIN files
    /\ \A f \in DOMAIN R : /\ \A i \in 1..Len(files[f].hashes) : files[f].hashes[i] \in DOMAIN R
                           /\ R[f] = HashedBy(files, R, f)
                           /\ f \notin Reaches(files, f)

\* The templates of a component.
TemplatesOf(X) == [hashes : Seq(X), objects : Int]

AllTemplates(files, X) == \A f \in DOMAIN files : files[f] \in TemplatesOf(X)

\* What is rendered already stays, and one more file may be.
Adds(R, Q, f) == DOMAIN Q = DOMAIN R \cup {f} /\ \A g \in DOMAIN R : Q[g] = R[g]

\* All that rendered files lead to is rendered.
LEMMA ReachesRendered ==
    ASSUME NEW files, NEW X, AllTemplates(files, X), NEW R, Consistent(files, R), NEW f \in DOMAIN files,
           \A i \in 1..Len(files[f].hashes) : files[f].hashes[i] \in DOMAIN R
    PROVE  Reaches(files, f) \subseteq DOMAIN R
<1> DEFINE Hashed(S) == S \cup UNION {Range(files[g].hashes) : g \in S \cap DOMAIN files}
<1>1. ASSUME NEW g \in DOMAIN files PROVE DOMAIN files[g].hashes = 1..Len(files[g].hashes)
  <2>1. files[g].hashes \in Seq(X)
    BY DEF AllTemplates, TemplatesOf
  <2> QED
    BY <2>1
<1>2. ASSUME NEW g \in DOMAIN R PROVE Range(files[g].hashes) \subseteq DOMAIN R
  <2>1. g \in DOMAIN files /\ \A i \in 1..Len(files[g].hashes) : files[g].hashes[i] \in DOMAIN R
    BY DEF Consistent
  <2> QED
    BY <1>1, <2>1 DEF Range
<1>3. ASSUME NEW S \in SUBSET DOMAIN R PROVE Hashed(S) \in SUBSET DOMAIN R
  BY <1>2
<1>4. Range(files[f].hashes) \in SUBSET DOMAIN R
  BY <1>1 DEF Range
<1>5. Reaches(files, f) = Hashed(Hashed(Hashed(Range(files[f].hashes))))
  BY Zenon DEF Reaches
<1> HIDE DEF Hashed
<1>6. Hashed(Hashed(Hashed(Range(files[f].hashes)))) \in SUBSET DOMAIN R
  BY <1>3, <1>4
<1> QED
  BY <1>5, <1>6

\* A file whose hashes are rendered can be.
LEMMA StaysConsistent ==
    ASSUME NEW files, NEW X, AllTemplates(files, X), NEW R, Consistent(files, R), NEW f \in DOMAIN files,
           \A i \in 1..Len(files[f].hashes) : files[f].hashes[i] \in DOMAIN R,
           NEW Q, DOMAIN Q = DOMAIN R \cup {f}, \A g \in DOMAIN R : g # f => Q[g] = R[g],
           Q[f] = HashedBy(files, R, f)
    PROVE  Consistent(files, Q) /\ Adds(R, Q, f)
<1>1. \A g \in DOMAIN R : Q[g] = R[g]
  BY DEF Consistent
<1>2. ASSUME NEW g \in DOMAIN Q
      PROVE  /\ \A i \in 1..Len(files[g].hashes) : files[g].hashes[i] \in DOMAIN R
             /\ Q[g] = HashedBy(files, R, g)
  BY <1>1 DEF Consistent
<1>3. ASSUME NEW g \in DOMAIN Q PROVE Q[g] = HashedBy(files, Q, g)
  <2>1. \A i \in 1..Len(files[g].hashes) : Q[files[g].hashes[i]] = R[files[g].hashes[i]]
    BY <1>1, <1>2
  <2>2. HashedBy(files, Q, g) = HashedBy(files, R, g)
    BY <2>1, Zenon DEF HashedBy
  <2> QED
    BY <1>2, <2>2
<1>4. ASSUME NEW g \in DOMAIN Q PROVE g \notin Reaches(files, g)
  <2>1. CASE g \in DOMAIN R
    BY <2>1 DEF Consistent
  <2>2. CASE g \notin DOMAIN R
    <3>1. g = f
      BY <2>2
    <3>2. Reaches(files, g) \subseteq DOMAIN R
      BY <3>1, ReachesRendered
    <3> QED
      BY <2>2, <3>2
  <2> QED
    BY <2>1, <2>2
<1>5. DOMAIN R \subseteq DOMAIN Q /\ DOMAIN Q \subseteq DOMAIN files
  BY DEF Consistent
<1> QED
  BY <1>1, <1>2, <1>3, <1>4, <1>5 DEF Consistent, Adds

\* A context in which some files are rendered already.
Context(files, R) == [files |-> files, rendered |-> R]

\* Remembering a text.
Puts(R, Q, f, text) == DOMAIN Q = DOMAIN R \cup {f} /\ Q[f] = text /\ \A g \in DOMAIN R : g # f => Q[g] = R[g]

\* Remember puts a text into the context.
LEMMA Remembered ==
    ASSUME NEW files, NEW R, NEW f, NEW text
    PROVE  \E Q : Remember(Context(files, R), f, text) = Context(files, Q) /\ Puts(R, Q, f, text)
<1> DEFINE Q == [g \in DOMAIN R \cup {f} |-> IF g = f THEN text ELSE R[g]]
<1>1. Remember(Context(files, R), f, text) = Context(files, Q)
  BY DEF Remember, Context
<1>2. Puts(R, Q, f, text)
  BY DEF Puts
<1> HIDE DEF Q
<1> QED
  BY <1>1, <1>2

\* The hash of a sibling: of its text if it is rendered, or it is rendered now, if it
\* has no hashes of its own.
LEMMA SiblingHash ==
    ASSUME NEW files, NEW X, AllTemplates(files, X), NEW R, Consistent(files, R), NEW g,
           manifestHash(Context(files, R), g).ok
    PROVE  \E Q : /\ manifestHash(Context(files, R), g).val = [ctx |-> Context(files, Q), text |-> Q[g]]
                  /\ Consistent(files, Q) /\ Adds(R, Q, g)
                  /\ g \notin DOMAIN R => files[g].hashes = << >>
<1> DEFINE ctx == Context(files, R)
<1>1. ctx = [files |-> files, rendered |-> R] /\ ctx.files = files /\ ctx.rendered = R
  BY DEF Context
<1> HIDE DEF ctx
<1>2. CASE g \in DOMAIN R
  <2>1. manifestHash(ctx, g).val = [ctx |-> ctx, text |-> R[g]]
    BY <1>1, <1>2 DEF manifestHash, Ok
  <2>2. Adds(R, R, g)
    BY <1>2 DEF Adds
  <2> QED
    BY <1>2, <2>1, <2>2 DEF ctx
<1>3. CASE g \notin DOMAIN R
  <2>1. manifestHash(ctx, g) = RenderSibling(ctx, g)
    BY <1>1, <1>3 DEF manifestHash
  <2>2. g \in DOMAIN files /\ files[g].hashes = << >>
        /\ RenderSibling(ctx, g).val = [ctx |-> Remember(ctx, g, Text(g, << >>)), text |-> Text(g, << >>)]
    BY <1>1, <2>1 DEF RenderSibling, Fails, Ok, ctx
  <2>3. PICK Q : Remember(ctx, g, Text(g, << >>)) = Context(files, Q) /\ Puts(R, Q, g, Text(g, << >>))
    BY Remembered, Zenon DEF ctx
  <2>4. Len(files[g].hashes) = 0 /\ 1..0 = {}
    BY <2>2
  <2>5. HashedBy(files, R, g) = Text(g, << >>)
    <3>1. [i \in 1..Len(files[g].hashes) |-> R[files[g].hashes[i]]] = << >>
      BY <2>4
    <3> QED
      BY <3>1 DEF HashedBy
  <2>6. \A i \in 1..Len(files[g].hashes) : files[g].hashes[i] \in DOMAIN R
    BY <2>4
  <2>7. Consistent(files, Q) /\ Adds(R, Q, g)
    BY <2>2, <2>3, <2>5, <2>6, StaysConsistent DEF Puts
  <2>8. manifestHash(ctx, g).val = [ctx |-> Context(files, Q), text |-> Q[g]]
    BY <2>1, <2>2, <2>3 DEF Puts
  <2> QED
    BY <2>2, <2>7, <2>8 DEF ctx
<1> QED
  BY <1>2, <1>3

-----------------------------------------------------------------------------
\* A sequence of i elements of any kind.
Listed(s, i) == DOMAIN s = 1..i /\ s = [j \in 1..i |-> s[j]]

\* A sequence that is one longer.
LEMMA Extended ==
    ASSUME NEW i \in Nat, NEW s, NEW t, Listed(s, i), Listed(t, i + 1), \A j \in 1..i : t[j] = s[j]
    PROVE  Append(s, t[i + 1]) = t
<1> DEFINE Y == {s[j] : j \in 1..i} \cup {t[j] : j \in 1..(i + 1)}
           a == Append(s, t[i + 1])
<1>1. s \in Seq(Y) /\ t \in Seq(Y) /\ Len(s) = i /\ Len(t) = i + 1 /\ t[i + 1] \in Y
  <2>1. s \in [1..i -> Y] /\ t \in [1..(i + 1) -> Y] /\ i + 1 \in Nat /\ t[i + 1] \in Y
    BY DEF Listed
  <2> HIDE DEF Y
  <2> QED
    BY <2>1
<1> HIDE DEF Y
<1>2. a \in Seq(Y) /\ Len(a) = i + 1 /\ a[i + 1] = t[i + 1] /\ \A j \in 1..i : a[j] = s[j]
  BY <1>1
<1> HIDE DEF a
<1>3. \A j \in 1..(i + 1) : a[j] = t[j]
  <2> TAKE j \in 1..(i + 1)
  <2>1. j \in 1..i \/ j = i + 1
    OBVIOUS
  <2> QED
    BY <1>2, <2>1
<1>4. a = t
  BY <1>1, <1>2, <1>3
<1> QED
  BY <1>4 DEF a

\* The first i of the hashes are known, and what was rendered before still is.
Summed(files, R, hashes, i, v) ==
    \E Q : /\ v = [ctx |-> Context(files, Q), sums |-> [j \in 1..i |-> Q[hashes[j]]]]
           /\ Consistent(files, Q) /\ DOMAIN R \subseteq DOMAIN Q
           /\ \A j \in 1..i : hashes[j] \in DOMAIN Q

\* One more hash.
LEMMA SummedNext ==
    ASSUME NEW files, NEW X, AllTemplates(files, X), NEW R, NEW hashes, NEW i \in Nat,
           NEW r, r.ok => Summed(files, R, hashes, i, r.val), AddHash(r, hashes[i + 1]).ok
    PROVE  Summed(files, R, hashes, i + 1, AddHash(r, hashes[i + 1]).val)
<1> DEFINE g == hashes[i + 1]
<1>1. r.ok
  BY DEF AddHash
<1>2. PICK Q : /\ r.val = [ctx |-> Context(files, Q), sums |-> [j \in 1..i |-> Q[hashes[j]]]]
               /\ Consistent(files, Q) /\ DOMAIN R \subseteq DOMAIN Q
               /\ \A j \in 1..i : hashes[j] \in DOMAIN Q
  BY <1>1 DEF Summed
<1> DEFINE s == [j \in 1..i |-> Q[hashes[j]]]
<1>3. r.val.ctx = Context(files, Q) /\ r.val.sums = s
  BY <1>2
<1>4. /\ manifestHash(Context(files, Q), g).ok
      /\ AddHash(r, g).val = [ctx |-> manifestHash(Context(files, Q), g).val.ctx,
                              sums |-> Append(s, manifestHash(Context(files, Q), g).val.text)]
  <2> HIDE DEF s, g
  <2>1. AddHash(r, g).ok
    BY DEF g
  <2> QED
    BY <1>1, <1>3, <2>1 DEF AddHash, Ok, Fails
<1>5. PICK P : /\ manifestHash(Context(files, Q), g).val = [ctx |-> Context(files, P), text |-> P[g]]
               /\ Consistent(files, P) /\ Adds(Q, P, g)
  BY <1>2, <1>4, SiblingHash
<1> DEFINE t == [j \in 1..(i + 1) |-> P[hashes[j]]]
<1>6. \A j \in 1..i : t[j] = s[j]
  BY <1>2, <1>5 DEF Adds
<1>7. Append(s, t[i + 1]) = t
  <2>1. Listed(s, i) /\ Listed(t, i + 1)
    BY DEF Listed
  <2> HIDE DEF s, t
  <2> QED
    BY <1>6, <2>1, Extended
<1>8. t[i + 1] = P[g]
  OBVIOUS
<1> HIDE DEF s, t
<1>9. AddHash(r, g).val = [ctx |-> Context(files, P), sums |-> t]
  <2>1. /\ manifestHash(Context(files, Q), g).val.ctx = Context(files, P)
        /\ manifestHash(Context(files, Q), g).val.text = P[g]
    BY <1>5
  <2> HIDE DEF g
  <2> QED
    BY <1>4, <1>7, <1>8, <2>1
<1>10. DOMAIN R \subseteq DOMAIN P /\ \A j \in 1..(i + 1) : hashes[j] \in DOMAIN P
  BY <1>2, <1>5 DEF Adds
<1> QED
  BY <1>5, <1>9, <1>10 DEF Summed, t

\* A template that can be rendered is, with the hashes of the others as they are.
LEMMA TemplateRendered ==
    ASSUME NEW files, NEW X, AllTemplates(files, X), NEW R, Consistent(files, R), NEW f,
           renderTemplate(Context(files, R), f).ok
    PROVE  \E Q : /\ renderTemplate(Context(files, R), f).val.ctx = Context(files, Q)
                  /\ Consistent(files, Q) /\ f \in DOMAIN Q /\ DOMAIN R \subseteq DOMAIN Q
<1> DEFINE ctx == Context(files, R)
           hashes == files[f].hashes
           n == Len(hashes)
           r == AllHashes(ctx, hashes)
<1>1. ctx.files = files
  BY DEF Context
<1> HIDE DEF ctx
<1>2. f \in DOMAIN files /\ r.ok
      /\ renderTemplate(ctx, f).val.ctx = Remember(r.val.ctx, f, Text(f, r.val.sums))
  BY <1>1 DEF renderTemplate, Fails, Ok, ctx
<1>3. hashes \in Seq(X) /\ n \in Nat
  BY <1>2 DEF AllTemplates, TemplatesOf
<1> HIDE DEF hashes
<1>4. PICK h : /\ h[0] = Ok([ctx |-> ctx, sums |-> <<>>])
               /\ \A i \in 1..n : h[i] = AddHash(h[i - 1], hashes[i])
               /\ r = h[n]
  BY <1>3, HashSteps
<1> HIDE DEF n, r
<1> DEFINE T == {i \in 0..n : h[i].ok => Summed(files, R, hashes, i, h[i].val)}
<1>5. 0 \in T
  <2>1. h[0].val = [ctx |-> ctx, sums |-> <<>>]
    BY <1>4 DEF Ok
  <2>2. [j \in 1..0 |-> R[hashes[j]]] = <<>> /\ 1..0 = {}
    OBVIOUS
  <2>3. Summed(files, R, hashes, 0, h[0].val)
    BY <2>1, <2>2 DEF Summed, ctx
  <2>4. 0 \in 0..n
    BY <1>3
  <2> QED
    BY <2>3, <2>4
<1>6. ASSUME NEW i \in 0..(n - 1), i \in T PROVE i + 1 \in T
  <2>1. i \in Nat /\ i + 1 \in 0..n /\ i + 1 \in 1..n /\ (i + 1) - 1 = i
    BY <1>3
  <2>2. h[i + 1] = AddHash(h[i], hashes[i + 1])
    BY <1>4, <2>1
  <2>3. h[i].ok => Summed(files, R, hashes, i, h[i].val)
    BY <1>6
  <2>4. h[i + 1].ok => Summed(files, R, hashes, i + 1, h[i + 1].val)
    BY <2>1, <2>2, <2>3, SummedNext
  <2> QED
    BY <2>1, <2>4
<1>7. h[n].ok => Summed(files, R, hashes, n, h[n].val)
  <2> HIDE DEF T
  <2>1. 0..n \subseteq T
    BY <1>3, <1>5, <1>6, Upwards
  <2>2. n \in T
    BY <1>3, <2>1
  <2> QED
    BY <2>2 DEF T
<1>8. PICK Q : /\ r.val = [ctx |-> Context(files, Q), sums |-> [j \in 1..n |-> Q[hashes[j]]]]
               /\ Consistent(files, Q) /\ DOMAIN R \subseteq DOMAIN Q
               /\ \A j \in 1..n : hashes[j] \in DOMAIN Q
  BY <1>2, <1>4, <1>7 DEF Summed
<1>9. Text(f, r.val.sums) = HashedBy(files, Q, f) /\ r.val.ctx = Context(files, Q)
  BY <1>8 DEF HashedBy, hashes, n
<1>10. PICK P : Remember(r.val.ctx, f, Text(f, r.val.sums)) = Context(files, P) /\ Puts(Q, P, f, HashedBy(files, Q, f))
  BY <1>9, Remembered, Zenon
<1>11. Consistent(files, P) /\ Adds(Q, P, f)
  BY <1>2, <1>8, <1>10, StaysConsistent DEF Puts, hashes, n
<1> QED
  BY <1>2, <1>8, <1>10, <1>11 DEF Adds, ctx

-----------------------------------------------------------------------------
\* The manifests that have objects.
Full(files, order, i) == {j \in 1..i : files[order[j]].objects > 0}

\* One more manifest with objects, or without.
LEMMA FullNext ==
    ASSUME NEW files, NEW order, NEW i \in Nat
    PROVE  /\ IsFiniteSet(Full(files, order, i)) /\ Cardinality(Full(files, order, i)) \in Nat
           /\ files[order[i + 1]].objects > 0 =>
                 Cardinality(Full(files, order, i + 1)) = Cardinality(Full(files, order, i)) + 1
           /\ ~(files[order[i + 1]].objects > 0) => Full(files, order, i + 1) = Full(files, order, i)
<1> DEFINE S == Full(files, order, i)
<1>1. IsFiniteSet(S)
  <2>1. IsFiniteSet(1..i) /\ S \subseteq 1..i
    BY FS_Interval DEF Full
  <2> QED
    BY <2>1, FS_Subset
<1>2. Cardinality(S) \in Nat
  BY <1>1, FS_CardinalityType
<1>3. 1..(i + 1) = 1..i \cup {i + 1} /\ i + 1 \notin 1..i
  OBVIOUS
<1>4. ASSUME files[order[i + 1]].objects > 0 PROVE Cardinality(Full(files, order, i + 1)) = Cardinality(S) + 1
  <2>1. Full(files, order, i + 1) = S \cup {i + 1} /\ i + 1 \notin S
    BY <1>3, <1>4 DEF Full
  <2> HIDE DEF S
  <2> QED
    BY <1>1, <2>1, FS_AddElement
<1>5. ASSUME ~(files[order[i + 1]].objects > 0) PROVE Full(files, order, i + 1) = S
  BY <1>3, <1>5 DEF Full
<1> QED
  BY <1>1, <1>2, <1>4, <1>5

\* A sequence of any kind with one more element.
LEMMA OneMore ==
    ASSUME NEW s, NEW Y, s \in Seq(Y), NEW e
    PROVE  /\ Append(s, e) \in Seq(Y \cup {e}) /\ Len(Append(s, e)) = Len(s) + 1 /\ Len(s) \in Nat
<1>1. s \in Seq(Y \cup {e})
  OBVIOUS
<1> QED
  BY <1>1

\* The first i manifests of a component are rendered.
Made(files, order, i, v) ==
    \E Q : /\ v.ctx = Context(files, Q) /\ Consistent(files, Q)
           /\ \A j \in 1..i : order[j] \in DOMAIN Q
           /\ \E Y : v.texts \in Seq(Y)
           /\ Len(v.texts) = Cardinality(Full(files, order, i))

\* One more manifest.
LEMMA MadeNext ==
    ASSUME NEW files, NEW X, AllTemplates(files, X), NEW order, NEW i \in Nat,
           NEW r, r.ok => Made(files, order, i, r.val), AddManifest(files, r, order[i + 1]).ok
    PROVE  Made(files, order, i + 1, AddManifest(files, r, order[i + 1]).val)
<1> DEFINE f == order[i + 1]
           q == AddManifest(files, r, f)
           t == renderTemplate(r.val.ctx, f)
<1>1. /\ r.ok /\ t.ok /\ ~(files[f].objects < 0) /\ q.val.ctx = t.val.ctx
      /\ q.val.texts = IF files[f].objects = 0 THEN r.val.texts ELSE Append(r.val.texts, t.val.text)
  <2>1. q.ok
    OBVIOUS
  <2> HIDE DEF f
  <2> QED
    BY <2>1 DEF AddManifest, Fails, Ok
<1>2. PICK Q : /\ r.val.ctx = Context(files, Q) /\ Consistent(files, Q)
               /\ \A j \in 1..i : order[j] \in DOMAIN Q
               /\ \E Y : r.val.texts \in Seq(Y)
               /\ Len(r.val.texts) = Cardinality(Full(files, order, i))
  BY <1>1 DEF Made
<1>3. PICK Y : r.val.texts \in Seq(Y)
  BY <1>2
<1>4. PICK P : /\ t.val.ctx = Context(files, P)
               /\ Consistent(files, P) /\ f \in DOMAIN P /\ DOMAIN Q \subseteq DOMAIN P
  BY <1>1, <1>2, TemplateRendered
<1>5. files[f].objects \in Int
  BY <1>4 DEF Consistent, AllTemplates, TemplatesOf
<1>6. \A j \in 1..(i + 1) : order[j] \in DOMAIN P
  BY <1>2, <1>4
<1>7. (\E Z : q.val.texts \in Seq(Z)) /\ Len(q.val.texts) = Cardinality(Full(files, order, i + 1))
  <2> DEFINE c == Cardinality(Full(files, order, i))
  <2>1. CASE files[f].objects = 0
    <3>1. q.val.texts = r.val.texts /\ ~(files[f].objects > 0)
      BY <1>1, <2>1
    <3>2. Full(files, order, i + 1) = Full(files, order, i)
      BY <3>1, FullNext
    <3> HIDE DEF q
    <3> QED
      BY <1>2, <3>1, <3>2
  <2>2. CASE files[f].objects # 0
    <3>1. q.val.texts = Append(r.val.texts, t.val.text)
      BY <1>1, <2>2
    <3>2. files[f].objects > 0
      BY <1>1, <1>5, <2>2
    <3>3. Cardinality(Full(files, order, i + 1)) = c + 1
      BY <3>2, FullNext
    <3> HIDE DEF q, t, c
    <3>4. q.val.texts \in Seq(Y \cup {t.val.text}) /\ Len(q.val.texts) = Len(r.val.texts) + 1
      BY <1>3, <3>1, OneMore
    <3> QED
      BY <1>2, <3>3, <3>4 DEF c
  <2> QED
    BY <2>1, <2>2
<1>8. q.val.ctx = Context(files, P)
  BY <1>1, <1>4
<1>9. Made(files, order, i + 1, q.val)
  <2> HIDE DEF q
  <2> QED
    BY <1>4, <1>6, <1>7, <1>8 DEF Made
<1> QED
  BY <1>9

\* All manifests of a component are rendered, or there is an error.
LEMMA ComponentMade ==
    ASSUME NEW X, NEW files, AllTemplates(files, X), NEW Z, NEW order \in Seq(Z), RenderComponent(files, order).ok
    PROVE  Made(files, order, Len(order), RenderComponent(files, order).val)
<1> DEFINE n == Len(order)
           r == RenderComponent(files, order)
<1>1. n \in Nat
  OBVIOUS
<1>2. PICK h : /\ h[0] = Ok([ctx |-> newTemplateContext(files), texts |-> <<>>])
               /\ \A i \in 1..n : h[i] = AddManifest(files, h[i - 1], order[i])
               /\ r = h[n]
  BY ManifestSteps
<1> HIDE DEF n, r
<1> DEFINE T == {i \in 0..n : h[i].ok => Made(files, order, i, h[i].val)}
<1>3. 0 \in T
  <2> DEFINE Q == [f \in {} |-> 0]
  <2>1. h[0].val.ctx = Context(files, Q) /\ h[0].val.texts = <<>>
    BY <1>2 DEF Ok, newTemplateContext, Context
  <2>2. DOMAIN Q = {}
    OBVIOUS
  <2> HIDE DEF Q
  <2>3. Consistent(files, Q)
    BY <2>2 DEF Consistent
  <2>4. <<>> \in Seq({}) /\ Len(<<>>) = 0 /\ 1..0 = {}
    OBVIOUS
  <2>5. Full(files, order, 0) = {} /\ Cardinality({}) = 0
    BY <2>4, FS_EmptySet DEF Full
  <2>6. Made(files, order, 0, h[0].val)
    BY <2>1, <2>3, <2>4, <2>5 DEF Made
  <2>7. 0 \in 0..n
    BY <1>1
  <2> QED
    BY <2>6, <2>7
<1>4. ASSUME NEW i \in 0..(n - 1), i \in T PROVE i + 1 \in T
  <2>1. i \in Nat /\ i + 1 \in 0..n /\ i + 1 \in 1..n /\ (i + 1) - 1 = i
    BY <1>1
  <2>2. h[i + 1] = AddManifest(files, h[i], order[i + 1])
    BY <1>2, <2>1
  <2>3. h[i].ok => Made(files, order, i, h[i].val)
    BY <1>4
  <2>4. h[i + 1].ok => Made(files, order, i + 1, h[i + 1].val)
    BY <2>1, <2>2, <2>3, MadeNext
  <2> QED
    BY <2>1, <2>4
<1>5. n \in T
  <2> HIDE DEF T
  <2>1. 0..n \subseteq T
    BY <1>1, <1>3, <1>4, Upwards
  <2> QED
    BY <1>1, <2>1
<1> QED
  BY <1>2, <1>5 DEF n, r

\* A manifest carries the hashes of the manifests as they are applied, for components
\* of any files that hash each other in any way (renderTemplate, manifestHash).
THEOREM HashesAlwaysCurrent ==
    ASSUME NEW X, NEW files, AllTemplates(files, X), NEW Z, NEW order \in Seq(Z)
    PROVE  HashesCurrent(files, order)
<1> DEFINE r == RenderComponent(files, order)
           n == Len(order)
<1> SUFFICES ASSUME r.ok
             PROVE  /\ \A f \in Range(order) : f \notin Reaches(files, f)
                    /\ \A f \in Range(order) :
                          /\ Len(r.val.ctx.rendered[f].sums) = Len(files[f].hashes)
                          /\ \A i \in DOMAIN r.val.ctx.rendered[f].sums :
                                /\ files[f].hashes[i] \in DOMAIN r.val.ctx.rendered
                                /\ r.val.ctx.rendered[f].sums[i] = r.val.ctx.rendered[files[f].hashes[i]]
                    /\ Len(r.val.texts) = Cardinality({i \in DOMAIN order : files[order[i]].objects > 0})
  BY Zenon DEF HashesCurrent
<1>1. PICK Q : /\ r.val.ctx = Context(files, Q) /\ Consistent(files, Q)
               /\ \A j \in 1..n : order[j] \in DOMAIN Q
               /\ Len(r.val.texts) = Cardinality(Full(files, order, n))
  BY ComponentMade DEF Made
<1>2. r.val.ctx.rendered = Q
  BY <1>1 DEF Context
<1>3. DOMAIN order = 1..n
  OBVIOUS
<1> HIDE DEF r, n
<1>4. ASSUME NEW f \in Range(order)
      PROVE  /\ f \notin Reaches(files, f) /\ Len(Q[f].sums) = Len(files[f].hashes)
             /\ \A i \in DOMAIN Q[f].sums : files[f].hashes[i] \in DOMAIN Q /\ Q[f].sums[i] = Q[files[f].hashes[i]]
  <2> DEFINE k == Len(files[f].hashes)
             s == [i \in 1..k |-> Q[files[f].hashes[i]]]
  <2>1. f \in DOMAIN Q
    BY <1>1, <1>3 DEF Range
  <2>2. /\ f \notin Reaches(files, f) /\ Q[f] = HashedBy(files, Q, f) /\ f \in DOMAIN files
        /\ \A i \in 1..k : files[f].hashes[i] \in DOMAIN Q
    BY <1>1, <2>1 DEF Consistent
  <2>3. Q[f].sums = s
    BY <2>2 DEF HashedBy, Text
  <2>4. k \in Nat
    <3>1. files[f].hashes \in Seq(X)
      BY <2>2 DEF AllTemplates, TemplatesOf
    <3> QED
      BY <3>1
  <2>5. Len(s) = k /\ DOMAIN s = 1..k /\ \A i \in 1..k : s[i] = Q[files[f].hashes[i]]
    <3> HIDE DEF k
    <3> QED
      BY <2>4
  <2> HIDE DEF s
  <2> QED
    BY <2>2, <2>3, <2>5
<1>5. Full(files, order, n) = {i \in DOMAIN order : files[order[i]].objects > 0}
  BY <1>3 DEF Full
<1> QED
  BY <1>1, <1>2, <1>4, <1>5

-----------------------------------------------------------------------------
\* Parts put one after the other.
Joins(h, parts, n, X) ==
    /\ n \in Nat /\ parts \in [1..n -> Seq(X)] /\ h \in [0..n -> Seq(X)] /\ h[0] = <<>>
    /\ \A i \in 1..n : h[i] = h[i - 1] \o parts[i]

\* FlattenSeq does so.
LEMMA Flattened == ASSUME NEW X, NEW n, NEW parts, NEW h, Joins(h, parts, n, X) PROVE FlattenSeq(parts) = h[n]
<1>1. n \in Nat /\ parts \in [1..n -> Seq(X)] /\ h \in [0..n -> Seq(X)] /\ h[0] = <<>>
      /\ \A i \in 1..n : h[i] = h[i - 1] \o parts[i]
  BY DEF Joins
<1>2. Len(parts) = n
  <2> DEFINE Y == Seq(X)
  <2>1. parts \in [1..n -> Y] /\ n \in Nat
    BY <1>1
  <2> HIDE DEF Y
  <2> QED
    BY <2>1
<1>3. CASE n = 0
  <2>1. parts = <<>>
    BY <1>1, <1>3
  <2> QED
    BY <1>1, <1>2, <1>3, <2>1 DEF FlattenSeq
<1>4. CASE n # 0
  <2> DEFINE Body(f) == [i \in 1..n |-> IF i = 1 THEN parts[i] ELSE f[i - 1] \o parts[i]]
             flatten == CHOOSE f : f = Body(f)
             g == [i \in 1..n |-> h[i]]
  <2>1. FlattenSeq(parts) = flatten[n]
    BY <1>2, <1>4, Zenon DEF FlattenSeq
  <2>2. g = Body(g)
    <3>1. ASSUME NEW i \in 1..n PROVE h[i] = IF i = 1 THEN parts[i] ELSE g[i - 1] \o parts[i]
      <4>1. CASE i = 1
        <5>1. h[1] = <<>> \o parts[1] /\ parts[1] \in Seq(X)
          <6>1. 1 \in 1..n /\ 1 - 1 = 0
            BY <4>1
          <6>2. h[1] = h[1 - 1] \o parts[1]
            BY <1>1, <6>1
          <6>3. h[1 - 1] = <<>> /\ parts[1] \in Seq(X)
            BY <1>1, <6>1
          <6> QED
            BY <6>2, <6>3
        <5>2. <<>> \o parts[1] = parts[1]
          BY <5>1
        <5> QED
          BY <4>1, <5>1, <5>2
      <4>2. CASE i # 1
        <5>1. i - 1 \in 1..n
          BY <1>1, <4>2
        <5> QED
          BY <1>1, <4>2, <5>1
      <4> QED
        BY <4>1, <4>2
    <3> QED
      BY <3>1
  <2> HIDE DEF g
  <2>3. flatten = Body(flatten)
    BY <2>2, Zenon
  <2> HIDE DEF flatten
  <2> DEFINE T == {i \in 0..n : i > 0 => flatten[i] = h[i]}
  <2>4. 0 \in T
    BY <1>1
  <2>5. ASSUME NEW i \in 0..(n - 1), i \in T PROVE i + 1 \in T
    <3>1. i + 1 \in 1..n /\ (i + 1) - 1 = i /\ i \in Nat /\ i + 1 \in 0..n
      BY <1>1
    <3>2. flatten[i + 1] = IF i + 1 = 1 THEN parts[i + 1] ELSE flatten[i] \o parts[i + 1]
      BY <2>3, <3>1
    <3>3. h[i + 1] = h[i] \o parts[i + 1] /\ parts[i + 1] \in Seq(X)
      BY <1>1, <3>1
    <3>4. CASE i = 0
      <4>1. <<>> \o parts[i + 1] = parts[i + 1]
        BY <3>3
      <4>2. h[i] = <<>> /\ i + 1 = 1
        BY <1>1, <3>4
      <4>3. flatten[i + 1] = parts[i + 1] /\ h[i + 1] = parts[i + 1]
        BY <3>2, <3>3, <4>1, <4>2
      <4> QED
        BY <3>1, <4>3
    <3>5. CASE i # 0
      <4>1. flatten[i] = h[i] /\ i + 1 # 1
        BY <2>5, <3>1, <3>5
      <4> QED
        BY <3>1, <3>2, <3>3, <4>1
    <3> QED
      BY <3>4, <3>5
  <2>6. 0..n \subseteq T
    <3> HIDE DEF T
    <3> QED
      BY <1>1, <2>4, <2>5, Upwards
  <2>7. flatten[n] = h[n]
    BY <1>1, <1>4, <2>6
  <2> QED
    BY <2>1, <2>7
<1> QED
  BY <1>3, <1>4

\* The same of the first parts only.
LEMMA JoinsSome == ASSUME NEW X, NEW n, NEW parts, NEW h, Joins(h, parts, n, X), NEW m \in 0..n
                   PROVE  Joins([i \in 0..m |-> h[i]], [i \in 1..m |-> parts[i]], m, X)
<1>1. n \in Nat /\ parts \in [1..n -> Seq(X)] /\ h \in [0..n -> Seq(X)] /\ h[0] = <<>>
      /\ \A i \in 1..n : h[i] = h[i - 1] \o parts[i]
  BY DEF Joins
<1>2. m \in Nat /\ \A i \in 1..m : i \in 1..n /\ i - 1 \in 0..m /\ i \in 0..m
  BY <1>1
<1>3. \A i \in 0..m : i \in 0..n
  BY <1>1
<1> DEFINE g == [i \in 0..m |-> h[i]]
           p == [i \in 1..m |-> parts[i]]
<1>4. g \in [0..m -> Seq(X)] /\ p \in [1..m -> Seq(X)] /\ g[0] = <<>>
  <2> DEFINE Y == Seq(X)
  <2>1. \A i \in 0..m : h[i] \in Y
    BY <1>1, <1>3
  <2>2. \A i \in 1..m : parts[i] \in Y
    BY <1>1, <1>2
  <2>3. 0 \in 0..m
    BY <1>2
  <2> HIDE DEF Y
  <2>4. g \in [0..m -> Y] /\ p \in [1..m -> Y] /\ g[0] = <<>>
    BY <1>1, <2>1, <2>2, <2>3
  <2> QED
    BY <2>4 DEF Y
<1>5. \A i \in 1..m : g[i] = g[i - 1] \o p[i]
  BY <1>1, <1>2
<1> HIDE DEF g, p
<1>6. Joins(g, p, m, X)
  BY <1>2, <1>4, <1>5 DEF Joins
<1> QED
  BY <1>6 DEF g, p

\* What is put behind does not change what is before.
LEMMA PrefixStays == ASSUME NEW X, NEW s \in Seq(X), NEW t \in Seq(X), NEW u \in Seq(X), IsPrefix(s, t)
                     PROVE  IsPrefix(s, t \o u)
<1> DEFINE n == Len(s)
           v == t \o u
<1>1. n \in Nat /\ Len(t) \in Nat /\ Len(u) \in Nat /\ n <= Len(t) /\ SubSeq(s, 1, n) = SubSeq(t, 1, n)
  BY DEF IsPrefix
<1>2. v \in Seq(X) /\ Len(v) = Len(t) + Len(u) /\ \A i \in 1..Len(t) : v[i] = t[i]
  OBVIOUS
<1> HIDE DEF n, v
<1>3. SubSeq(t, 1, n) = [i \in 1..n |-> t[i]] /\ SubSeq(v, 1, n) = [i \in 1..n |-> v[i]]
  BY <1>1, <1>2
<1>4. [i \in 1..n |-> t[i]] = [i \in 1..n |-> v[i]]
  BY <1>1, <1>2
<1>5. n <= Len(v)
  BY <1>1, <1>2
<1> QED
  BY <1>1, <1>3, <1>4, <1>5 DEF IsPrefix, n, v

\* What is put together first is a prefix of all.
LEMMA PrefixOf == ASSUME NEW X, NEW n, NEW parts, NEW h, Joins(h, parts, n, X), NEW i \in 0..n
                  PROVE  IsPrefix(h[i], h[n])
<1>1. n \in Nat /\ parts \in [1..n -> Seq(X)] /\ h \in [0..n -> Seq(X)]
      /\ \A j \in 1..n : h[j] = h[j - 1] \o parts[j]
  BY DEF Joins
<1> DEFINE T == {j \in 0..n : i <= j => IsPrefix(h[i], h[j])}
<1>2. IsPrefix(h[i], h[i])
  <2>1. h[i] \in Seq(X)
    BY <1>1
  <2>2. Len(h[i]) \in Nat
    BY <2>1
  <2> QED
    BY <2>2 DEF IsPrefix
<1>3. 0 \in T
  <2>1. 0 \in 0..n /\ (i <= 0 => i = 0)
    BY <1>1
  <2> QED
    BY <1>2, <2>1
<1>4. ASSUME NEW j \in 0..(n - 1), j \in T PROVE j + 1 \in T
  <2>1. j + 1 \in 1..n /\ (j + 1) - 1 = j /\ j \in 0..n /\ j + 1 \in 0..n
    BY <1>1
  <2>2. h[j + 1] = h[j] \o parts[j + 1] /\ h[i] \in Seq(X) /\ h[j] \in Seq(X) /\ parts[j + 1] \in Seq(X)
    BY <1>1, <2>1
  <2>3. CASE i = j + 1
    BY <1>2, <2>1, <2>3
  <2>4. CASE i # j + 1
    <3>1. i <= j + 1 => i <= j
      BY <1>1, <2>1, <2>4
    <3>2. IsPrefix(h[i], h[j]) => IsPrefix(h[i], h[j] \o parts[j + 1])
      BY <2>2, PrefixStays
    <3> QED
      BY <1>4, <2>1, <2>2, <3>1, <3>2
  <2> QED
    BY <2>3, <2>4
<1>5. 0..n \subseteq T
  <2> HIDE DEF T
  <2> QED
    BY <1>1, <1>3, <1>4, Upwards
<1> QED
  BY <1>1, <1>5

-----------------------------------------------------------------------------
\* The deletions in files, of which some may be wrong.
DeletionFiles(X) == {Fails} \cup {Ok(v) : v \in [preApply : Seq(X), postApply : Seq(X)]}

Lists == {"preApply", "postApply"}

\* One more file.
Added(X, file, r, q) ==
    /\ file.ok \in BOOLEAN /\ q.ok \in BOOLEAN
    /\ q.ok <=> r.ok /\ file.ok
    /\ r.ok /\ file.ok => \A list \in Lists : file.val[list] \in Seq(X) /\ q.val[list] = r.val[list] \o file.val[list]

\* AddFile puts the deletions of a file behind the ones before, or fails.
LEMMA FileAdded == ASSUME NEW X, NEW file \in DeletionFiles(X), NEW r PROVE Added(X, file, r, AddFile(r, file))
<1> DEFINE q == AddFile(r, file)
           Y == Seq(X)
<1>1. file = Fails \/ \E v \in [preApply : Y, postApply : Y] : file = Ok(v)
  BY DEF DeletionFiles
<1> HIDE DEF Y
<1>2. file.ok \in BOOLEAN /\ (file.ok => \A list \in Lists : file.val[list] \in Y)
  <2>1. CASE file = Fails
    BY <2>1 DEF Fails
  <2>2. ASSUME NEW v \in [preApply : Y, postApply : Y], file = Ok(v) PROVE file.ok = TRUE /\ \A list \in Lists : file.val[list] \in Y
    BY <2>2 DEF Ok, Lists
  <2> QED
    BY <1>1, <2>1, <2>2
<1>3. CASE ~r.ok \/ ~file.ok
  <2>1. q.ok = FALSE
    BY <1>3 DEF AddFile, Fails
  <2> HIDE DEF q
  <2> QED
    BY <1>2, <1>3, <2>1 DEF Added, q
<1>4. CASE ~(~r.ok \/ ~file.ok)
  <2> DEFINE a == r.val.preApply \o file.val.preApply
             b == r.val.postApply \o file.val.postApply
  <2>1. q = [ok |-> TRUE, val |-> [preApply |-> a, postApply |-> b]]
    BY <1>4 DEF AddFile, Ok
  <2> HIDE DEF a, b, q
  <2>2. q.ok = TRUE /\ q.val.preApply = a /\ q.val.postApply = b
    BY <2>1
  <2>3. \A list \in Lists : q.val[list] = r.val[list] \o file.val[list]
    BY <2>2 DEF Lists, a, b
  <2> QED
    BY <1>2, <1>4, <2>2, <2>3 DEF Added, q, Y
<1> QED
  BY <1>3, <1>4

\* No deletion of a later file overtakes one of an earlier file or moves to the other
\* side of the apply, and a file with an error stops all of them; for any number of
\* files of any length (parseDeletions, parseCFDeletions).
THEOREM DeletionsKeepOrder == ASSUME NEW X, NEW files \in Seq(DeletionFiles(X)) PROVE DeletionsInOrder(files)
<1> DEFINE n == Len(files)
           r == parseDeletions(files)
<1>1. n \in Nat /\ DOMAIN files = 1..n /\ \A i \in 1..n : files[i] \in DeletionFiles(X)
  OBVIOUS
<1>2. PICK h : /\ h[0] = Ok([preApply |-> <<>>, postApply |-> <<>>])
               /\ \A i \in 1..n : h[i] = AddFile(h[i - 1], files[i])
               /\ r = h[n]
  BY DeletionSteps
<1> HIDE DEF n, r
<1>3. h[0].ok = TRUE /\ \A list \in Lists : h[0].val[list] = <<>>
  <2> DEFINE b == [preApply |-> <<>>, postApply |-> <<>>]
  <2>1. b.preApply = <<>> /\ b.postApply = <<>>
    OBVIOUS
  <2>2. \A list \in Lists : b[list] = <<>>
    BY <2>1 DEF Lists
  <2> HIDE DEF b
  <2>3. h[0] = Ok(b)
    BY <1>2 DEF b
  <2>4. h[0].ok = TRUE /\ h[0].val = b
    BY <2>3 DEF Ok
  <2> QED
    BY <2>2, <2>4
<1> DEFINE Right(i) == h[i].ok \in BOOLEAN /\ (h[i].ok <=> \A j \in 1..i : files[j].ok)
           T == {i \in 0..n : Right(i)}
<1>4. 0 \in T
  <2>1. 0 \in 0..n /\ 1..0 = {}
    BY <1>1
  <2> QED
    BY <1>3, <2>1
<1>5. ASSUME NEW i \in 0..(n - 1), i \in T PROVE i + 1 \in T
  <2>1. i + 1 \in 1..n /\ (i + 1) - 1 = i /\ i + 1 \in 0..n /\ 1..(i + 1) = 1..i \cup {i + 1}
    BY <1>1
  <2>2. h[i + 1] = AddFile(h[i], files[i + 1]) /\ files[i + 1] \in DeletionFiles(X)
    BY <1>1, <1>2, <2>1
  <2>3. Added(X, files[i + 1], h[i], h[i + 1])
    BY <2>2, FileAdded
  <2>4. h[i + 1].ok \in BOOLEAN /\ (h[i + 1].ok <=> h[i].ok /\ files[i + 1].ok)
    BY <2>3 DEF Added
  <2> QED
    BY <1>5, <2>1, <2>4
<1>6. 0..n \subseteq T
  <2> HIDE DEF T
  <2> QED
    BY <1>1, <1>4, <1>5, Upwards
<1>7. \A i \in 0..n : h[i].ok <=> \A j \in 1..i : files[j].ok
  BY <1>6
<1>8. ASSUME r.ok, NEW i \in 1..n, NEW list \in Lists
      PROVE  IsPrefix(FlattenSeq([j \in 1..(i - 1) |-> files[j].val[list]]) \o files[i].val[list], r.val[list])
  <2>1. (\A j \in 1..n : files[j].ok) /\ \A j \in 0..n : h[j].ok
    <3>1. n \in 0..n /\ \A j \in 0..n : 1..j \subseteq 1..n
      BY <1>1
    <3>2. \A j \in 1..n : files[j].ok
      BY <1>2, <1>7, <1>8, <3>1
    <3> QED
      BY <1>7, <3>1, <3>2
  <2> DEFINE g == [j \in 0..n |-> h[j].val[list]]
             parts == [j \in 1..n |-> files[j].val[list]]
  <2>2. \A j \in 1..n : parts[j] \in Seq(X) /\ g[j] = g[j - 1] \o parts[j]
    <3> TAKE j \in 1..n
    <3>1. j - 1 \in 0..n /\ j \in 0..n
      BY <1>1
    <3>2. h[j] = AddFile(h[j - 1], files[j]) /\ files[j] \in DeletionFiles(X) /\ h[j - 1].ok /\ files[j].ok
      BY <1>1, <1>2, <2>1, <3>1
    <3>3. Added(X, files[j], h[j - 1], h[j])
      BY <3>2, FileAdded
    <3>4. files[j].val[list] \in Seq(X) /\ h[j].val[list] = h[j - 1].val[list] \o files[j].val[list]
      BY <3>2, <3>3 DEF Added
    <3> QED
      BY <3>1, <3>4
  <2>3. g[0] = <<>>
    BY <1>1, <1>3
  <2> DEFINE U == {j \in 0..n : g[j] \in Seq(X)}
  <2>4. 0 \in U
    <3>1. 0 \in 0..n /\ <<>> \in Seq(X)
      BY <1>1
    <3> HIDE DEF g
    <3> QED
      BY <2>3, <3>1
  <2>5. ASSUME NEW j \in 0..(n - 1), j \in U PROVE j + 1 \in U
    <3>1. j + 1 \in 1..n /\ (j + 1) - 1 = j /\ j + 1 \in 0..n
      BY <1>1
    <3> HIDE DEF g, parts
    <3>2. parts[j + 1] \in Seq(X) /\ g[j + 1] = g[j] \o parts[j + 1] /\ g[j] \in Seq(X)
      BY <2>2, <2>5, <3>1
    <3>3. \A p \in Seq(X), q \in Seq(X) : p \o q \in Seq(X)
      OBVIOUS
    <3>4. g[j + 1] \in Seq(X)
      BY <3>2, <3>3
    <3> QED
      BY <3>1, <3>4
  <2>6. 0..n \subseteq U
    <3> HIDE DEF U
    <3> QED
      BY <1>1, <2>4, <2>5, Upwards
  <2>7. g \in [0..n -> Seq(X)] /\ parts \in [1..n -> Seq(X)]
    <3> DEFINE Y == Seq(X)
    <3>1. (\A j \in 0..n : g[j] \in Y) /\ \A j \in 1..n : parts[j] \in Y
      BY <2>2, <2>6
    <3> HIDE DEF Y
    <3>2. g \in [0..n -> Y] /\ parts \in [1..n -> Y]
      BY <3>1
    <3> QED
      BY <3>2 DEF Y
  <2>8. Joins(g, parts, n, X)
    <3> HIDE DEF g, parts
    <3> QED
      BY <1>1, <2>2, <2>3, <2>7 DEF Joins
  <2>9. i - 1 \in 0..n /\ i \in 0..n /\ (i - 1) \in 0..(i - 1) /\ n \in 0..n /\ \A j \in 1..(i - 1) : j \in 1..n
    BY <1>1
  <2> DEFINE p == [j \in 1..(i - 1) |-> parts[j]]
             k == [j \in 0..(i - 1) |-> g[j]]
  <2>10. p = [j \in 1..(i - 1) |-> files[j].val[list]] /\ k[i - 1] = g[i - 1]
         /\ parts[i] = files[i].val[list] /\ g[n] = r.val[list]
    BY <1>2, <2>9
  <2>11. g[i] = g[i - 1] \o parts[i]
    BY <2>2
  <2> HIDE DEF g, parts
  <2>12. Joins(k, p, i - 1, X)
    BY <2>8, <2>9, JoinsSome
  <2> HIDE DEF k, p
  <2>13. FlattenSeq(p) = g[i - 1]
    BY <2>10, <2>12, Flattened
  <2>14. IsPrefix(g[i], g[n])
    BY <2>8, <2>9, PrefixOf
  <2> QED
    BY <2>10, <2>11, <2>13, <2>14
<1>9. r.ok <=> \A i \in DOMAIN files : files[i].ok
  <2>1. n \in 0..n
    BY <1>1
  <2> QED
    BY <1>1, <1>2, <1>7, <2>1
<1> QED
  BY <1>1, <1>8, <1>9, Zenon DEF DeletionsInOrder, parseCFDeletions, r, Lists

-----------------------------------------------------------------------------
\* A component of templates has objects.
OfTemplates(c, X) == AllTemplates(c.files, X) /\ \E Z : c.order \in Seq(Z)

HasObjects(c) == \E f \in Range(c.order) : c.files[f].objects > 0

Rendered(c) == RenderComponent(c.files, c.order)

\* A component that is rendered has texts if it has objects.
LEMMA TextsOfObjects ==
    ASSUME NEW X, NEW c, OfTemplates(c, X), Rendered(c).ok
    PROVE  Rendered(c).val.texts = <<>> <=> ~HasObjects(c)
<1> DEFINE n == Len(c.order)
           S == Full(c.files, c.order, n)
<1>1. PICK Z : c.order \in Seq(Z)
  BY DEF OfTemplates
<1>2. Made(c.files, c.order, n, Rendered(c).val)
  BY <1>1, ComponentMade DEF OfTemplates, Rendered
<1>3. PICK Y : Rendered(c).val.texts \in Seq(Y) /\ Len(Rendered(c).val.texts) = Cardinality(S)
  BY <1>2 DEF Made
<1>4. IsFiniteSet(S)
  <2>1. n \in Nat
    BY <1>1
  <2> HIDE DEF n
  <2> QED
    BY <2>1, FullNext
<1>5. S = {} <=> ~HasObjects(c)
  <2>1. DOMAIN c.order = 1..n
    BY <1>1
  <2> HIDE DEF n
  <2> QED
    BY <2>1 DEF HasObjects, Range, Full
<1> HIDE DEF S
<1>6. Cardinality(S) = 0 <=> S = {}
  BY <1>4, FS_EmptySet
<1>7. Rendered(c).val.texts = <<>> <=> Len(Rendered(c).val.texts) = 0
  BY <1>3
<1> QED
  BY <1>3, <1>5, <1>6, <1>7

\* The packages of the first i components.
Kept(components, i, l) ==
    /\ \E Y : l \in Seq(Y)
    /\ {p.name : p \in Range(l)} = {j \in 1..i : HasObjects(components[j])}
    /\ \A a, b \in DOMAIN l : a < b => l[a].name < l[b].name

\* One more package.
LEMMA Packed ==
    ASSUME NEW components, NEW i \in Nat, NEW l, Kept(components, i, l), NEW p, p.name = i + 1,
           HasObjects(components[i + 1])
    PROVE  Kept(components, i + 1, Append(l, p))
<1> DEFINE m == Append(l, p)
           N == {q.name : q \in Range(l)}
<1>1. PICK Y : l \in Seq(Y)
  BY DEF Kept
<1>2. /\ m \in Seq(Y \cup {p}) /\ Len(l) \in Nat /\ DOMAIN l = 1..Len(l) /\ DOMAIN m = 1..(Len(l) + 1)
      /\ m[Len(l) + 1] = p /\ \A a \in 1..Len(l) : m[a] = l[a]
  <2>1. l \in Seq(Y \cup {p}) /\ p \in Y \cup {p}
    BY <1>1
  <2> QED
    BY <2>1
<1> HIDE DEF m
<1>3. Range(m) = Range(l) \cup {p}
  <2>1. 1..(Len(l) + 1) = 1..Len(l) \cup {Len(l) + 1} /\ Len(l) + 1 \notin 1..Len(l)
    BY <1>2
  <2> QED
    BY <1>2, <2>1 DEF Range
<1>4. {q.name : q \in Range(m)} = N \cup {i + 1}
  BY <1>3
<1>5. N = {j \in 1..i : HasObjects(components[j])}
  BY DEF Kept
<1> HIDE DEF N
<1>6. {j \in 1..(i + 1) : HasObjects(components[j])} = N \cup {i + 1}
  <2>1. 1..(i + 1) = 1..i \cup {i + 1}
    OBVIOUS
  <2> QED
    BY <1>5, <2>1
<1>7. ASSUME NEW a \in DOMAIN m, NEW b \in DOMAIN m, a < b PROVE m[a].name < m[b].name
  <2>1. a \in 1..Len(l) /\ m[a] = l[a] /\ l[a] \in Range(l)
    BY <1>2, <1>7 DEF Range
  <2>2. l[a].name \in 1..i
    BY <1>5, <2>1 DEF N
  <2>3. CASE b = Len(l) + 1
    BY <1>2, <2>1, <2>2, <2>3
  <2>4. CASE b # Len(l) + 1
    <3>1. b \in 1..Len(l) /\ m[b] = l[b]
      BY <1>2, <2>4
    <3> QED
      BY <1>2, <1>7, <2>1, <3>1 DEF Kept
  <2> QED
    BY <2>3, <2>4
<1>8. Kept(components, i + 1, m)
  BY <1>2, <1>4, <1>6, <1>7 DEF Kept
<1> QED
  BY <1>8 DEF m

\* All that is kept of n components.
AllKept(components, n, r) ==
    /\ r.ok <=> \A i \in 1..n : Rendered(components[i]).ok
    /\ r.ok => Kept(components, n, r.val)

\* One more component.
LEMMA KeptNext ==
    ASSUME NEW X, NEW components, NEW i \in Nat, NEW r, AllKept(components, i, r),
           OfTemplates(components[i + 1], X), components[i + 1].name = i + 1
    PROVE  AllKept(components, i + 1, AddComponent(r, components[i + 1]))
<1> DEFINE c == components[i + 1]
           t == Rendered(c)
           q == AddComponent(r, c)
           p == [name |-> c.name, texts |-> t.val.texts]
<1>1. 1..(i + 1) = 1..i \cup {i + 1}
  OBVIOUS
<1>2. (\A j \in 1..(i + 1) : Rendered(components[j]).ok) <=> r.ok /\ t.ok
  BY <1>1 DEF AllKept
<1>3. t = RenderComponent(c.files, c.order)
  BY DEF Rendered
<1> HIDE DEF t
<1>4. CASE ~r.ok
  <2>1. q = r
    BY <1>4 DEF AddComponent
  <2> HIDE DEF q
  <2> QED
    BY <1>2, <1>4, <2>1 DEF AllKept, q
<1>5. CASE r.ok /\ ~t.ok
  <2>1. q = Fails
    BY <1>3, <1>5 DEF AddComponent
  <2>2. q.ok = FALSE
    BY <2>1 DEF Fails
  <2> HIDE DEF q
  <2> QED
    BY <1>2, <1>5, <2>2 DEF AllKept, q
<1>6. CASE r.ok /\ t.ok /\ t.val.texts = <<>>
  <2>1. q = r
    BY <1>3, <1>6 DEF AddComponent
  <2>2. ~HasObjects(c)
    BY <1>6, TextsOfObjects DEF t
  <2> HIDE DEF q
  <2>3. {j \in 1..(i + 1) : HasObjects(components[j])} = {j \in 1..i : HasObjects(components[j])}
    BY <1>1, <2>2
  <2>4. Kept(components, i + 1, r.val)
    BY <1>6, <2>3 DEF AllKept, Kept
  <2> QED
    BY <1>2, <1>6, <2>1, <2>4 DEF AllKept, q
<1>7. CASE r.ok /\ t.ok /\ t.val.texts # <<>>
  <2>1. q = Ok(Append(r.val, p))
    BY <1>3, <1>7 DEF AddComponent
  <2>2. HasObjects(c)
    BY <1>7, TextsOfObjects DEF t
  <2>3. p.name = i + 1
    OBVIOUS
  <2> HIDE DEF p, q
  <2>4. Kept(components, i + 1, Append(r.val, p))
    BY <1>7, <2>2, <2>3, Packed DEF AllKept
  <2>5. q.ok = TRUE /\ q.val = Append(r.val, p)
    BY <2>1 DEF Ok
  <2> QED
    BY <1>2, <1>7, <2>4, <2>5 DEF AllKept, q
<1> QED
  BY <1>4, <1>5, <1>6, <1>7

\* Any number of components.
LEMMA ComponentsKept ==
    ASSUME NEW X, NEW W, NEW components \in Seq(W),
           \A i \in 1..Len(components) : OfTemplates(components[i], X) /\ components[i].name = i
    PROVE  AllKept(components, Len(components), renderManifests(components))
<1> DEFINE n == Len(components)
           r == renderManifests(components)
<1>1. n \in Nat
  OBVIOUS
<1>2. PICK h : /\ h[0] = Ok(<<>>)
               /\ \A i \in 1..n : h[i] = AddComponent(h[i - 1], components[i])
               /\ r = h[n]
  BY ComponentSteps
<1> HIDE DEF n, r
<1> DEFINE T == {i \in 0..n : AllKept(components, i, h[i])}
<1>3. 0 \in T
  <2>1. h[0].ok = TRUE /\ h[0].val = <<>>
    BY <1>2 DEF Ok
  <2>2. <<>> \in Seq({}) /\ DOMAIN <<>> = {} /\ 1..0 = {} /\ 0 \in 0..n
    BY <1>1
  <2>3. Kept(components, 0, <<>>)
    BY <2>2 DEF Kept, Range
  <2> QED
    BY <2>1, <2>2, <2>3 DEF AllKept
<1>4. ASSUME NEW i \in 0..(n - 1), i \in T PROVE i + 1 \in T
  <2>1. i \in Nat /\ i + 1 \in 0..n /\ i + 1 \in 1..n /\ (i + 1) - 1 = i
    BY <1>1
  <2>2. h[i + 1] = AddComponent(h[i], components[i + 1])
    BY <1>2, <2>1
  <2>3. OfTemplates(components[i + 1], X) /\ components[i + 1].name = i + 1
    BY <2>1 DEF n
  <2>4. AllKept(components, i + 1, h[i + 1])
    <3>1. AllKept(components, i, h[i])
      BY <1>4
    <3> HIDE DEF T
    <3>2. AllKept(components, i + 1, AddComponent(h[i], components[i + 1]))
      BY <2>1, <2>3, <3>1, KeptNext
    <3> QED
      BY <2>2, <3>2
  <2> QED
    BY <2>1, <2>4
<1>5. n \in T
  <2> HIDE DEF T
  <2>1. 0..n \subseteq T
    BY <1>1, <1>3, <1>4, Upwards
  <2> QED
    BY <1>1, <2>1
<1> QED
  BY <1>2, <1>5 DEF n, r

\* The same manifests in reverse order.
LEMMA Reversed == ASSUME NEW Z, NEW s \in Seq(Z) PROVE Reverse(s) \in Seq(Z)
<1> DEFINE n == Len(s)
           g == [i \in 1..n |-> s[n - i + 1]]
<1>1. n \in Nat /\ \A i \in 1..n : n - i + 1 \in 1..n /\ s[n - i + 1] \in Z
  OBVIOUS
<1>2. Reverse(s) = [i \in 1..n |-> s[(n - i) + 1]]
  BY Zenon DEF Reverse
<1>3. g \in [1..n -> Z]
  BY <1>1
<1> HIDE DEF n
<1>4. g \in Seq(Z)
  BY <1>1, <1>3
<1> QED
  BY <1>2, <1>4

\* All components are rendered or none, and those with objects keep their order
\* (renderManifests).
THEOREM ComponentsAlwaysKept ==
    ASSUME NEW X, NEW files, AllTemplates(files, X), NEW Z, NEW order \in Seq(Z)
    PROVE  AllRendered(files, order)
<1> DEFINE orders(i) == IF i = 1 THEN order ELSE IF i = 2 THEN <<"b">> ELSE Reverse(order)
           c1 == [name |-> 1, files |-> files, order |-> order]
           c2 == [name |-> 2, files |-> files, order |-> <<"b">>]
           c3 == [name |-> 3, files |-> files, order |-> Reverse(order)]
           components == <<c1, c2, c3>>
           r == renderManifests(components)
<1>1. OfTemplates(c1, X) /\ c1.name = 1
  <2>1. c1.files = files /\ c1.order = order /\ c1.name = 1
    OBVIOUS
  <2> HIDE DEF c1
  <2> QED
    BY <2>1 DEF OfTemplates
<1>2. OfTemplates(c2, X) /\ c2.name = 2
  <2>1. c2.files = files /\ c2.order = <<"b">> /\ c2.name = 2
    OBVIOUS
  <2>2. <<"b">> \in Seq({"b"})
    OBVIOUS
  <2> HIDE DEF c2
  <2> QED
    BY <2>1, <2>2 DEF OfTemplates
<1>3. OfTemplates(c3, X) /\ c3.name = 3
  <2>1. c3.files = files /\ c3.order = Reverse(order) /\ c3.name = 3
    OBVIOUS
  <2> HIDE DEF c3
  <2> QED
    BY <2>1, Reversed DEF OfTemplates
<1>4. \A i \in 1..3 : Rendered(components[i]) = RenderComponent(files, components[i].order)
                      /\ (HasObjects(components[i]) <=> \E f \in Range(components[i].order) : files[f].objects > 0)
  <2>1. \A i \in 1..3 : components[i].files = files
    OBVIOUS
  <2> HIDE DEF components
  <2> QED
    BY <2>1 DEF Rendered, HasObjects
<1> HIDE DEF c1, c2, c3
<1>5. /\ components \in Seq({c1, c2, c3}) /\ Len(components) = 3
      /\ components[1] = c1 /\ components[2] = c2 /\ components[3] = c3
  OBVIOUS
<1>6. \A i \in 1..3 : OfTemplates(components[i], X) /\ components[i].name = i
  <2> HIDE DEF components
  <2>1. \A i \in 1..3 : i = 1 \/ i = 2 \/ i = 3
    OBVIOUS
  <2> QED
    BY <1>1, <1>2, <1>3, <1>5, <2>1
<1> HIDE DEF components
<1>7. AllKept(components, 3, r)
  BY <1>5, <1>6, ComponentsKept
<1>8. /\ r.ok <=> \A i \in 1..3 : RenderComponent(files, components[i].order).ok
      /\ r.ok => /\ {p.name : p \in Range(r.val)} = {i \in 1..3 : \E f \in Range(components[i].order) : files[f].objects > 0}
                 /\ \A i, j \in DOMAIN r.val : i < j => r.val[i].name < r.val[j].name
  BY <1>4, <1>7 DEF AllKept, Kept
<1> QED
  BY <1>8, Zenon DEF AllRendered, components, c1, c2, c3

-----------------------------------------------------------------------------
\* The files of the nodes of all pools.
Uploaded(pools) == FoldLeft(UploadPool, [n \in {} |-> 0], pools)

\* The pools, one after the other.
LEMMA UploadSteps ==
    ASSUME NEW X, NEW pools \in Seq(X)
    PROVE  \E h : /\ h[0] = [x \in {} |-> 0]
                  /\ \A i \in 1..Len(pools) : h[i] = UploadPool(h[i - 1], pools[i])
                  /\ Uploaded(pools) = h[Len(pools)]
<1> DEFINE n == Len(pools)
           b == [x \in {} |-> 0]
           Body(f) == [s \in SUBSET (DOMAIN pools) |-> IF s = {} THEN b ELSE UploadPool(f[s \ {Max(s)}], pools[Max(s)])]
           iter == CHOOSE f : f = Body(f)
           Of(m, g) == /\ DOMAIN g = SUBSET (1..m) /\ g = [s \in SUBSET (1..m) |-> g[s]]
                       /\ \A s \in SUBSET (1..m) : g[s] = IF s = {} THEN b ELSE UploadPool(g[s \ {Max(s)}], pools[Max(s)])
           T == {m \in 0..n : \E g : Of(m, g)}
<1>1. n \in Nat /\ DOMAIN pools = 1..n
  OBVIOUS
<1>2. Uploaded(pools) = iter[1..n]
  BY <1>1, Zenon DEF Uploaded, FoldLeft, MapThenFoldSet
<1> HIDE DEF n, b
<1>3. 0 \in T
  <2> DEFINE g == [s \in SUBSET (1..0) |-> b]
  <2>1. g = [s \in SUBSET (1..0) |-> g[s]] /\ DOMAIN g = SUBSET (1..0)
    OBVIOUS
  <2>2. \A s \in SUBSET (1..0) : s = {} /\ g[s] = b
    OBVIOUS
  <2> HIDE DEF g
  <2>3. Of(0, g)
    BY <2>1, <2>2
  <2>4. 0 \in 0..n
    BY <1>1
  <2> HIDE DEF Of
  <2> QED
    BY <2>3, <2>4
<1>4. ASSUME NEW m \in 0..(n - 1), m \in T PROVE m + 1 \in T
  <2>1. PICK g : Of(m, g)
    BY <1>4
  <2> DEFINE k == m + 1
             h == [s \in SUBSET (1..k) |-> IF k \in s THEN UploadPool(g[s \ {k}], pools[k]) ELSE g[s]]
  <2>2. k \in 1..n /\ 1..k = 1..m \cup {k} /\ k \notin 1..m /\ k \in Nat
    BY <1>1
  <2> HIDE DEF k
  <2>3. ASSUME NEW s \in SUBSET (1..k)
        PROVE  h[s] = IF s = {} THEN b ELSE UploadPool(h[s \ {Max(s)}], pools[Max(s)])
    <3>1. CASE k \in s
      <4>1. Max(s) = k
        BY <2>2, <3>1, MaxIs
      <4>2. h[s \ {k}] = g[s \ {k}] /\ h[s] = UploadPool(g[s \ {k}], pools[k])
        BY <2>2, <3>1
      <4> HIDE DEF h
      <4> QED
        BY <2>2, <3>1, <4>1, <4>2
    <3>2. CASE k \notin s
      <4>1. s \in SUBSET (1..m) /\ h[s] = g[s]
        BY <2>2, <3>2
      <4>2. CASE s = {}
        BY <2>1, <4>1, <4>2
      <4>3. CASE s # {}
        <5>1. h[s \ {Max(s)}] = g[s \ {Max(s)}]
          BY <2>2, <4>1
        <5>2. g[s] = UploadPool(g[s \ {Max(s)}], pools[Max(s)])
          BY <2>1, <4>1, <4>3
        <5> HIDE DEF h
        <5> QED
          BY <4>1, <4>3, <5>1, <5>2
      <4> QED
        BY <4>2, <4>3
    <3> QED
      BY <3>1, <3>2
  <2>4. h = [s \in SUBSET (1..k) |-> h[s]] /\ DOMAIN h = SUBSET (1..k)
    OBVIOUS
  <2> HIDE DEF h
  <2>5. Of(k, h)
    BY <2>3, <2>4
  <2> HIDE DEF Of
  <2>6. k \in T
    BY <1>1, <2>2, <2>5
  <2> QED
    BY <2>6 DEF k
<1>5. n \in T
  <2> HIDE DEF T
  <2>1. 0..n \subseteq T
    BY <1>1, <1>3, <1>4, Upwards
  <2> QED
    BY <1>1, <2>1
<1>6. PICK g : Of(n, g)
  BY <1>5
<1>7. g = Body(g)
  BY <1>1, <1>6
<1>8. iter = Body(iter)
  BY <1>7, Zenon
<1> HIDE DEF iter
<1> DEFINE h == [i \in 0..n |-> iter[1..i]]
<1>9. h[0] = b
  <2>1. 1..0 = {} /\ {} \in SUBSET (1..n) /\ 0 \in 0..n
    BY <1>1
  <2>2. iter[{}] = b
    BY <1>1, <1>8, <2>1
  <2> QED
    BY <2>1, <2>2
<1>10. ASSUME NEW i \in 1..n PROVE h[i] = UploadPool(h[i - 1], pools[i])
  <2>1. 1..i \in SUBSET (1..n) /\ i \in 1..i /\ (1..i) \ {i} = 1..(i - 1) /\ i \in 0..n /\ i - 1 \in 0..n /\ i \in Nat
    BY <1>1
  <2>2. Max(1..i) = i /\ 1..i # {}
    BY <2>1, MaxIs
  <2>3. iter[1..i] = UploadPool(iter[1..(i - 1)], pools[i])
    BY <1>1, <1>8, <2>1, <2>2
  <2>4. h[i] = iter[1..i] /\ h[i - 1] = iter[1..(i - 1)]
    BY <2>1
  <2> HIDE DEF h
  <2> QED
    BY <2>3, <2>4
<1>11. Uploaded(pools) = h[n]
  BY <1>1, <1>2
<1> HIDE DEF h
<1> QED
  BY <1>9, <1>10, <1>11 DEF n, b

\* The nodes of a pool, and their files under the name that is in the user data.
NodeOf(pool) == [account |-> pool.account, cluster |-> pool.cluster, kind |-> PoolKind(pool), files |-> pool.files]

NameOf(pool) == ObjectName(NodeOf(pool))

ArchiveOf(pool) == makeArchive(pool.files, KMSKey(NodeOf(pool)))

\* What is made for a pool, and its files are stored.
MadeFor(pool, made) ==
    /\ made.node = NodeOf(pool)
    /\ made.template.userData.path = NameOf(pool)
    /\ made.template.userData.init = pool.init
    /\ made.template.stack = pool.stack

Having(s3, name, archive) == [n \in DOMAIN s3 \cup {name} |-> IF n = name THEN archive ELSE s3[n]]

\* generateNodePoolTemplate makes this, and UploadPool stores the files.
LEMMA PoolMade ==
    ASSUME NEW s3, NEW pool
    PROVE  /\ MadeFor(pool, generateNodePoolTemplate(s3, pool))
           /\ UploadPool(s3, pool) = Having(s3, NameOf(pool), ArchiveOf(pool))
<1> DEFINE node == NodeOf(pool)
           s == RenderAndUploadFiles(s3, node)
           prepared == [s3 |-> s, node |-> node, userData |-> [path |-> ObjectName(node), init |-> pool.init]]
           made == generateNodePoolTemplate(s3, pool)
<1>1. prepareCloudInit(s3, pool) = prepared
  BY Zenon DEF prepareCloudInit, NodeOf
<1>2. made = [s3 |-> prepared.s3, node |-> prepared.node, template |-> [userData |-> prepared.userData, stack |-> pool.stack]]
  BY <1>1, Zenon DEF generateNodePoolTemplate
<1>3. node.files = pool.files
  BY DEF NodeOf
<1>4. s = Having(s3, NameOf(pool), ArchiveOf(pool))
  BY <1>3, Zenon DEF RenderAndUploadFiles, NameOf, ArchiveOf, Having
<1> HIDE DEF s, made, node
<1>5. /\ made.node = node /\ made.s3 = s /\ made.template.userData.path = ObjectName(node)
      /\ made.template.userData.init = pool.init /\ made.template.stack = pool.stack
  BY <1>2
<1> QED
  BY <1>4, <1>5, Zenon DEF NameOf, UploadPool, MadeFor, made, node

\* Nodes that find their files under the same name can read the same.
LEMMA NamesTell ==
    ASSUME NEW p, NEW q, NameOf(p) = NameOf(q)
    PROVE  p.files = q.files /\ KMSKey(NodeOf(p)) = KMSKey(NodeOf(q)) /\ ArchiveOf(p) = ArchiveOf(q)
<1>1. \A x : NameOf(x) = [bucket |-> x.account, key |-> <<x.cluster, PoolKind(x), x.files>>]
             /\ KMSKey(NodeOf(x)) = <<x.cluster, PoolKind(x)>>
  BY DEF NameOf, ObjectName, NodeOf, KMSKey
<1>2. NameOf(p).key = <<p.cluster, PoolKind(p), p.files>> /\ NameOf(q).key = <<q.cluster, PoolKind(q), q.files>>
  BY <1>1
<1>3. p.cluster = q.cluster /\ PoolKind(p) = PoolKind(q) /\ p.files = q.files
  BY <1>2
<1>4. KMSKey(NodeOf(p)) = KMSKey(NodeOf(q))
  BY <1>1, <1>3
<1> QED
  BY <1>3, <1>4 DEF ArchiveOf

\* The files of the first i pools are as their nodes need them.
Readable(pools, i, s3) == \A j \in 1..i : NameOf(pools[j]) \in DOMAIN s3 /\ s3[NameOf(pools[j])] = ArchiveOf(pools[j])

\* Nodes of different pools, kinds or clusters never overwrite each other's files with
\* something that they cannot read, and a template tells what its nodes are set up
\* with; for any pools in any order (RenderAndUploadFiles, prepareCloudInit).
THEOREM UploadsAlwaysReadable == ASSUME NEW X, NEW pools \in Seq(X) PROVE UploadsReadable(pools)
<1> DEFINE n == Len(pools)
           s3 == Uploaded(pools)
           made(i) == generateNodePoolTemplate(s3, pools[i])
<1>1. n \in Nat /\ DOMAIN pools = 1..n
  OBVIOUS
<1>2. PICK h : /\ h[0] = [x \in {} |-> 0]
               /\ \A i \in 1..n : h[i] = UploadPool(h[i - 1], pools[i])
               /\ s3 = h[n]
  BY UploadSteps
<1> HIDE DEF n, s3
<1> DEFINE T == {i \in 0..n : Readable(pools, i, h[i])}
<1>3. 0 \in T
  <2>1. 0 \in 0..n /\ 1..0 = {}
    BY <1>1
  <2> QED
    BY <2>1 DEF Readable
<1>4. ASSUME NEW i \in 0..(n - 1), i \in T PROVE i + 1 \in T
  <2>1. i + 1 \in 1..n /\ (i + 1) - 1 = i /\ i + 1 \in 0..n /\ 1..(i + 1) = 1..i \cup {i + 1}
    BY <1>1
  <2> DEFINE p == pools[i + 1]
  <2>2. h[i + 1] = UploadPool(h[i], p)
    BY <1>2, <2>1
  <2>3. h[i + 1] = [x \in DOMAIN h[i] \cup {NameOf(p)} |-> IF x = NameOf(p) THEN ArchiveOf(p) ELSE h[i][x]]
    <3> HIDE DEF p
    <3>1. h[i + 1] = Having(h[i], NameOf(p), ArchiveOf(p))
      BY <2>2, PoolMade
    <3> QED
      BY <3>1 DEF Having
  <2>4. Readable(pools, i, h[i])
    BY <1>4
  <2>5. ASSUME NEW j \in 1..(i + 1)
        PROVE  NameOf(pools[j]) \in DOMAIN h[i + 1] /\ h[i + 1][NameOf(pools[j])] = ArchiveOf(pools[j])
    <3>1. CASE NameOf(pools[j]) = NameOf(p)
      <4>1. ArchiveOf(pools[j]) = ArchiveOf(p)
        BY <3>1, NamesTell
      <4> HIDE DEF p
      <4> QED
        BY <2>3, <3>1, <4>1
    <3>2. CASE NameOf(pools[j]) # NameOf(p)
      <4>1. j \in 1..i
        BY <2>1, <3>2
      <4> HIDE DEF p
      <4> QED
        BY <2>3, <2>4, <3>2, <4>1 DEF Readable
    <3> QED
      BY <3>1, <3>2
  <2> QED
    BY <2>1, <2>5 DEF Readable
<1>5. Readable(pools, n, s3)
  <2> HIDE DEF T
  <2>1. 0..n \subseteq T
    BY <1>1, <1>3, <1>4, Upwards
  <2>2. n \in T
    BY <1>1, <2>1
  <2> QED
    BY <1>2, <2>2 DEF T
<1>6. \A i \in DOMAIN pools : MadeFor(pools[i], made(i))
  BY PoolMade
<1>7. ASSUME NEW i \in DOMAIN pools
      PROVE  s3[made(i).template.userData.path] = makeArchive(pools[i].files, KMSKey(made(i).node))
  <2>1. made(i).template.userData.path = NameOf(pools[i]) /\ made(i).node = NodeOf(pools[i])
    BY <1>6 DEF MadeFor
  <2>2. s3[NameOf(pools[i])] = ArchiveOf(pools[i])
    BY <1>1, <1>5 DEF Readable
  <2> QED
    BY <2>1, <2>2, Zenon DEF ArchiveOf
<1>8. ASSUME NEW i \in DOMAIN pools, NEW j \in DOMAIN pools, made(i).template = made(j).template
      PROVE  /\ pools[i].files = pools[j].files
             /\ pools[i].init = pools[j].init /\ pools[i].stack = pools[j].stack
             /\ KMSKey(made(i).node) = KMSKey(made(j).node)
  <2>1. \A k \in DOMAIN pools : /\ made(k).template.userData.path = NameOf(pools[k]) /\ made(k).node = NodeOf(pools[k])
                                /\ made(k).template.userData.init = pools[k].init
                                /\ made(k).template.stack = pools[k].stack
    BY <1>6 DEF MadeFor
  <2> HIDE DEF made
  <2>2. NameOf(pools[i]) = NameOf(pools[j]) /\ pools[i].init = pools[j].init /\ pools[i].stack = pools[j].stack
    BY <1>8, <2>1
  <2> QED
    BY <2>1, <2>2, NamesTell
<1> QED
  BY <1>7, <1>8, Zenon DEF UploadsReadable, s3, Uploaded

-----------------------------------------------------------------------------
\* The lengths of the prefixes of a path, and of those below a root.
AllLevels(path, levels) == levels = Positions(path)

LevelsBelow(root, destDir, levels) == levels = [i \in 1..(Len(destDir) - Len(root)) |-> Len(root) + i]

\* The names of a path, one after the other.
LEMMA NameSteps ==
    ASSUME NEW X, NEW path \in Seq(X)
    PROVE  \E h : /\ h[0] = <<>>
                  /\ \A i \in 1..Len(path) : h[i] = Enter(h[i - 1], path[i])
                  /\ Clean(path) = h[Len(path)]
<1> DEFINE n == Len(path)
           b == <<>>
           Body(f) == [s \in SUBSET (DOMAIN path) |-> IF s = {} THEN b ELSE Enter(f[s \ {Max(s)}], path[Max(s)])]
           iter == CHOOSE f : f = Body(f)
           Of(m, g) == /\ DOMAIN g = SUBSET (1..m) /\ g = [s \in SUBSET (1..m) |-> g[s]]
                       /\ \A s \in SUBSET (1..m) : g[s] = IF s = {} THEN b ELSE Enter(g[s \ {Max(s)}], path[Max(s)])
           T == {m \in 0..n : \E g : Of(m, g)}
<1>1. n \in Nat /\ DOMAIN path = 1..n
  OBVIOUS
<1>2. Clean(path) = iter[1..n]
  BY <1>1, Zenon DEF Clean, FoldLeft, MapThenFoldSet
<1> HIDE DEF n, b
<1>3. 0 \in T
  <2> DEFINE g == [s \in SUBSET (1..0) |-> b]
  <2>1. g = [s \in SUBSET (1..0) |-> g[s]] /\ DOMAIN g = SUBSET (1..0)
    OBVIOUS
  <2>2. \A s \in SUBSET (1..0) : s = {} /\ g[s] = b
    OBVIOUS
  <2> HIDE DEF g
  <2>3. Of(0, g)
    BY <2>1, <2>2
  <2>4. 0 \in 0..n
    BY <1>1
  <2> HIDE DEF Of
  <2> QED
    BY <2>3, <2>4
<1>4. ASSUME NEW m \in 0..(n - 1), m \in T PROVE m + 1 \in T
  <2>1. PICK g : Of(m, g)
    BY <1>4
  <2> DEFINE k == m + 1
             h == [s \in SUBSET (1..k) |-> IF k \in s THEN Enter(g[s \ {k}], path[k]) ELSE g[s]]
  <2>2. k \in 1..n /\ 1..k = 1..m \cup {k} /\ k \notin 1..m /\ k \in Nat
    BY <1>1
  <2> HIDE DEF k
  <2>3. ASSUME NEW s \in SUBSET (1..k)
        PROVE  h[s] = IF s = {} THEN b ELSE Enter(h[s \ {Max(s)}], path[Max(s)])
    <3>1. CASE k \in s
      <4>1. Max(s) = k
        BY <2>2, <3>1, MaxIs
      <4>2. h[s \ {k}] = g[s \ {k}] /\ h[s] = Enter(g[s \ {k}], path[k])
        BY <2>2, <3>1
      <4> HIDE DEF h
      <4> QED
        BY <2>2, <3>1, <4>1, <4>2
    <3>2. CASE k \notin s
      <4>1. s \in SUBSET (1..m) /\ h[s] = g[s]
        BY <2>2, <3>2
      <4>2. CASE s = {}
        BY <2>1, <4>1, <4>2
      <4>3. CASE s # {}
        <5>1. h[s \ {Max(s)}] = g[s \ {Max(s)}]
          BY <2>2, <4>1
        <5>2. g[s] = Enter(g[s \ {Max(s)}], path[Max(s)])
          BY <2>1, <4>1, <4>3
        <5> HIDE DEF h
        <5> QED
          BY <4>1, <4>3, <5>1, <5>2
      <4> QED
        BY <4>2, <4>3
    <3> QED
      BY <3>1, <3>2
  <2>4. h = [s \in SUBSET (1..k) |-> h[s]] /\ DOMAIN h = SUBSET (1..k)
    OBVIOUS
  <2> HIDE DEF h
  <2>5. Of(k, h)
    BY <2>3, <2>4
  <2> HIDE DEF Of
  <2>6. k \in T
    BY <1>1, <2>2, <2>5
  <2> QED
    BY <2>6 DEF k
<1>5. n \in T
  <2> HIDE DEF T
  <2>1. 0..n \subseteq T
    BY <1>1, <1>3, <1>4, Upwards
  <2> QED
    BY <1>1, <2>1
<1>6. PICK g : Of(n, g)
  BY <1>5
<1>7. g = Body(g)
  BY <1>1, <1>6
<1>8. iter = Body(iter)
  BY <1>7, Zenon
<1> HIDE DEF iter
<1> DEFINE h == [i \in 0..n |-> iter[1..i]]
<1>9. h[0] = b
  <2>1. 1..0 = {} /\ {} \in SUBSET (1..n) /\ 0 \in 0..n
    BY <1>1
  <2>2. iter[{}] = b
    BY <1>1, <1>8, <2>1
  <2> QED
    BY <2>1, <2>2
<1>10. ASSUME NEW i \in 1..n PROVE h[i] = Enter(h[i - 1], path[i])
  <2>1. 1..i \in SUBSET (1..n) /\ i \in 1..i /\ (1..i) \ {i} = 1..(i - 1) /\ i \in 0..n /\ i - 1 \in 0..n /\ i \in Nat
    BY <1>1
  <2>2. Max(1..i) = i /\ 1..i # {}
    BY <2>1, MaxIs
  <2>3. iter[1..i] = Enter(iter[1..(i - 1)], path[i])
    BY <1>1, <1>8, <2>1, <2>2
  <2>4. h[i] = iter[1..i] /\ h[i - 1] = iter[1..(i - 1)]
    BY <2>1
  <2> HIDE DEF h
  <2> QED
    BY <2>3, <2>4
<1>11. Clean(path) = h[n]
  BY <1>1, <1>2
<1> HIDE DEF h
<1> QED
  BY <1>9, <1>10, <1>11 DEF n, b

\* The entries of a tree, one after the other.
LEMMA EntrySteps ==
    ASSUME NEW fs, NEW dir, NEW X, NEW tree \in Seq(X)
    PROVE  \E h : /\ h[0] = Ok(fs)
                  /\ \A i \in 1..Len(tree) : h[i] = AddEntry(dir, h[i - 1], tree[i])
                  /\ writeTree(fs, tree, dir) = h[Len(tree)]
<1> DEFINE n == Len(tree)
           b == Ok(fs)
           Body(f) == [s \in SUBSET (DOMAIN tree) |-> IF s = {} THEN b ELSE AddEntry(dir, f[s \ {Max(s)}], tree[Max(s)])]
           iter == CHOOSE f : f = Body(f)
           Of(m, g) == /\ DOMAIN g = SUBSET (1..m) /\ g = [s \in SUBSET (1..m) |-> g[s]]
                       /\ \A s \in SUBSET (1..m) : g[s] = IF s = {} THEN b ELSE AddEntry(dir, g[s \ {Max(s)}], tree[Max(s)])
           T == {m \in 0..n : \E g : Of(m, g)}
<1>1. n \in Nat /\ DOMAIN tree = 1..n
  OBVIOUS
<1>2. writeTree(fs, tree, dir) = iter[1..n]
  BY <1>1, Zenon DEF writeTree, FoldLeft, MapThenFoldSet
<1> HIDE DEF n, b
<1>3. 0 \in T
  <2> DEFINE g == [s \in SUBSET (1..0) |-> b]
  <2>1. g = [s \in SUBSET (1..0) |-> g[s]] /\ DOMAIN g = SUBSET (1..0)
    OBVIOUS
  <2>2. \A s \in SUBSET (1..0) : s = {} /\ g[s] = b
    OBVIOUS
  <2> HIDE DEF g
  <2>3. Of(0, g)
    BY <2>1, <2>2
  <2>4. 0 \in 0..n
    BY <1>1
  <2> HIDE DEF Of
  <2> QED
    BY <2>3, <2>4
<1>4. ASSUME NEW m \in 0..(n - 1), m \in T PROVE m + 1 \in T
  <2>1. PICK g : Of(m, g)
    BY <1>4
  <2> DEFINE k == m + 1
             h == [s \in SUBSET (1..k) |-> IF k \in s THEN AddEntry(dir, g[s \ {k}], tree[k]) ELSE g[s]]
  <2>2. k \in 1..n /\ 1..k = 1..m \cup {k} /\ k \notin 1..m /\ k \in Nat
    BY <1>1
  <2> HIDE DEF k
  <2>3. ASSUME NEW s \in SUBSET (1..k)
        PROVE  h[s] = IF s = {} THEN b ELSE AddEntry(dir, h[s \ {Max(s)}], tree[Max(s)])
    <3>1. CASE k \in s
      <4>1. Max(s) = k
        BY <2>2, <3>1, MaxIs
      <4>2. h[s \ {k}] = g[s \ {k}] /\ h[s] = AddEntry(dir, g[s \ {k}], tree[k])
        BY <2>2, <3>1
      <4> HIDE DEF h
      <4> QED
        BY <2>2, <3>1, <4>1, <4>2
    <3>2. CASE k \notin s
      <4>1. s \in SUBSET (1..m) /\ h[s] = g[s]
        BY <2>2, <3>2
      <4>2. CASE s = {}
        BY <2>1, <4>1, <4>2
      <4>3. CASE s # {}
        <5>1. h[s \ {Max(s)}] = g[s \ {Max(s)}]
          BY <2>2, <4>1
        <5>2. g[s] = AddEntry(dir, g[s \ {Max(s)}], tree[Max(s)])
          BY <2>1, <4>1, <4>3
        <5> HIDE DEF h
        <5> QED
          BY <4>1, <4>3, <5>1, <5>2
      <4> QED
        BY <4>2, <4>3
    <3> QED
      BY <3>1, <3>2
  <2>4. h = [s \in SUBSET (1..k) |-> h[s]] /\ DOMAIN h = SUBSET (1..k)
    OBVIOUS
  <2> HIDE DEF h
  <2>5. Of(k, h)
    BY <2>3, <2>4
  <2> HIDE DEF Of
  <2>6. k \in T
    BY <1>1, <2>2, <2>5
  <2> QED
    BY <2>6 DEF k
<1>5. n \in T
  <2> HIDE DEF T
  <2>1. 0..n \subseteq T
    BY <1>1, <1>3, <1>4, Upwards
  <2> QED
    BY <1>1, <2>1
<1>6. PICK g : Of(n, g)
  BY <1>5
<1>7. g = Body(g)
  BY <1>1, <1>6
<1>8. iter = Body(iter)
  BY <1>7, Zenon
<1> HIDE DEF iter
<1> DEFINE h == [i \in 0..n |-> iter[1..i]]
<1>9. h[0] = b
  <2>1. 1..0 = {} /\ {} \in SUBSET (1..n) /\ 0 \in 0..n
    BY <1>1
  <2>2. iter[{}] = b
    BY <1>1, <1>8, <2>1
  <2> QED
    BY <2>1, <2>2
<1>10. ASSUME NEW i \in 1..n PROVE h[i] = AddEntry(dir, h[i - 1], tree[i])
  <2>1. 1..i \in SUBSET (1..n) /\ i \in 1..i /\ (1..i) \ {i} = 1..(i - 1) /\ i \in 0..n /\ i - 1 \in 0..n /\ i \in Nat
    BY <1>1
  <2>2. Max(1..i) = i /\ 1..i # {}
    BY <2>1, MaxIs
  <2>3. iter[1..i] = AddEntry(dir, iter[1..(i - 1)], tree[i])
    BY <1>1, <1>8, <2>1, <2>2
  <2>4. h[i] = iter[1..i] /\ h[i - 1] = iter[1..(i - 1)]
    BY <2>1
  <2> HIDE DEF h
  <2> QED
    BY <2>3, <2>4
<1>11. writeTree(fs, tree, dir) = h[n]
  BY <1>1, <1>2
<1> HIDE DEF h
<1> QED
  BY <1>9, <1>10, <1>11 DEF n, b

\* A path is followed level by level.
Led(fs, path, levels) ==
    \E at : /\ at[0] = <<>>
            /\ \A i \in 1..Len(levels) : at[i] = Into(fs, path, at[i - 1], levels[i])
            /\ Follow(fs, path) = at[Len(levels)]

\* The levels of a path, one after the other.
LEMMA LevelSteps ==
    ASSUME NEW fs, NEW path, NEW levels \in Seq(Nat), AllLevels(path, levels)
    PROVE  Led(fs, path, levels)
<1> DEFINE n == Len(levels)
           b == <<>>
           Body(f) == [s \in SUBSET (DOMAIN levels) |-> IF s = {} THEN b ELSE Into(fs, path, f[s \ {Max(s)}], levels[Max(s)])]
           iter == CHOOSE f : f = Body(f)
           Of(m, g) == /\ DOMAIN g = SUBSET (1..m) /\ g = [s \in SUBSET (1..m) |-> g[s]]
                       /\ \A s \in SUBSET (1..m) : g[s] = IF s = {} THEN b ELSE Into(fs, path, g[s \ {Max(s)}], levels[Max(s)])
           T == {m \in 0..n : \E g : Of(m, g)}
<1>1. n \in Nat /\ DOMAIN levels = 1..n
  OBVIOUS
<1>2. Follow(fs, path) = iter[1..n]
  BY <1>1, Zenon DEF Follow, AllLevels, FoldLeft, MapThenFoldSet
<1> HIDE DEF n, b
<1>3. 0 \in T
  <2> DEFINE g == [s \in SUBSET (1..0) |-> b]
  <2>1. g = [s \in SUBSET (1..0) |-> g[s]] /\ DOMAIN g = SUBSET (1..0)
    OBVIOUS
  <2>2. \A s \in SUBSET (1..0) : s = {} /\ g[s] = b
    OBVIOUS
  <2> HIDE DEF g
  <2>3. Of(0, g)
    BY <2>1, <2>2
  <2>4. 0 \in 0..n
    BY <1>1
  <2> HIDE DEF Of
  <2> QED
    BY <2>3, <2>4
<1>4. ASSUME NEW m \in 0..(n - 1), m \in T PROVE m + 1 \in T
  <2>1. PICK g : Of(m, g)
    BY <1>4
  <2> DEFINE k == m + 1
             h == [s \in SUBSET (1..k) |-> IF k \in s THEN Into(fs, path, g[s \ {k}], levels[k]) ELSE g[s]]
  <2>2. k \in 1..n /\ 1..k = 1..m \cup {k} /\ k \notin 1..m /\ k \in Nat
    BY <1>1
  <2> HIDE DEF k
  <2>3. ASSUME NEW s \in SUBSET (1..k)
        PROVE  h[s] = IF s = {} THEN b ELSE Into(fs, path, h[s \ {Max(s)}], levels[Max(s)])
    <3>1. CASE k \in s
      <4>1. Max(s) = k
        BY <2>2, <3>1, MaxIs
      <4>2. h[s \ {k}] = g[s \ {k}] /\ h[s] = Into(fs, path, g[s \ {k}], levels[k])
        BY <2>2, <3>1
      <4> HIDE DEF h
      <4> QED
        BY <2>2, <3>1, <4>1, <4>2
    <3>2. CASE k \notin s
      <4>1. s \in SUBSET (1..m) /\ h[s] = g[s]
        BY <2>2, <3>2
      <4>2. CASE s = {}
        BY <2>1, <4>1, <4>2
      <4>3. CASE s # {}
        <5>1. h[s \ {Max(s)}] = g[s \ {Max(s)}]
          BY <2>2, <4>1
        <5>2. g[s] = Into(fs, path, g[s \ {Max(s)}], levels[Max(s)])
          BY <2>1, <4>1, <4>3
        <5> HIDE DEF h
        <5> QED
          BY <4>1, <4>3, <5>1, <5>2
      <4> QED
        BY <4>2, <4>3
    <3> QED
      BY <3>1, <3>2
  <2>4. h = [s \in SUBSET (1..k) |-> h[s]] /\ DOMAIN h = SUBSET (1..k)
    OBVIOUS
  <2> HIDE DEF h
  <2>5. Of(k, h)
    BY <2>3, <2>4
  <2> HIDE DEF Of
  <2>6. k \in T
    BY <1>1, <2>2, <2>5
  <2> QED
    BY <2>6 DEF k
<1>5. n \in T
  <2> HIDE DEF T
  <2>1. 0..n \subseteq T
    BY <1>1, <1>3, <1>4, Upwards
  <2> QED
    BY <1>1, <2>1
<1>6. PICK g : Of(n, g)
  BY <1>5
<1>7. g = Body(g)
  BY <1>1, <1>6
<1>8. iter = Body(iter)
  BY <1>7, Zenon
<1> HIDE DEF iter
<1> DEFINE h == [i \in 0..n |-> iter[1..i]]
<1>9. h[0] = b
  <2>1. 1..0 = {} /\ {} \in SUBSET (1..n) /\ 0 \in 0..n
    BY <1>1
  <2>2. iter[{}] = b
    BY <1>1, <1>8, <2>1
  <2> QED
    BY <2>1, <2>2
<1>10. ASSUME NEW i \in 1..n PROVE h[i] = Into(fs, path, h[i - 1], levels[i])
  <2>1. 1..i \in SUBSET (1..n) /\ i \in 1..i /\ (1..i) \ {i} = 1..(i - 1) /\ i \in 0..n /\ i - 1 \in 0..n /\ i \in Nat
    BY <1>1
  <2>2. Max(1..i) = i /\ 1..i # {}
    BY <2>1, MaxIs
  <2>3. iter[1..i] = Into(fs, path, iter[1..(i - 1)], levels[i])
    BY <1>1, <1>8, <2>1, <2>2
  <2>4. h[i] = iter[1..i] /\ h[i - 1] = iter[1..(i - 1)]
    BY <2>1
  <2> HIDE DEF h
  <2> QED
    BY <2>3, <2>4
<1>11. Follow(fs, path) = h[n]
  BY <1>1, <1>2
<1> HIDE DEF h
<1>12. \E at : /\ at[0] = <<>>
               /\ \A i \in 1..Len(levels) : at[i] = Into(fs, path, at[i - 1], levels[i])
               /\ Follow(fs, path) = at[Len(levels)]
  BY <1>9, <1>10, <1>11 DEF n, b
<1> QED
  BY <1>12 DEF Led

\* The directories of a path, one after the other.
LEMMA DirectorySteps ==
    ASSUME NEW fs, NEW root, NEW destDir, NEW levels \in Seq(Nat), LevelsBelow(root, destDir, levels)
    PROVE  \E h : /\ h[0] = Ok(With(fs, root, Dir))
                  /\ \A i \in 1..Len(levels) : h[i] = Mkdir(SubSeq(destDir, 1, levels[i]), h[i - 1])
                  /\ safeMkdirAll(fs, root, destDir) = h[Len(levels)]
<1> DEFINE n == Len(levels)
           b == Ok(With(fs, root, Dir))
           Body(f) == [s \in SUBSET (DOMAIN levels) |-> IF s = {} THEN b ELSE Mkdir(SubSeq(destDir, 1, levels[Max(s)]), f[s \ {Max(s)}])]
           iter == CHOOSE f : f = Body(f)
           Of(m, g) == /\ DOMAIN g = SUBSET (1..m) /\ g = [s \in SUBSET (1..m) |-> g[s]]
                       /\ \A s \in SUBSET (1..m) : g[s] = IF s = {} THEN b ELSE Mkdir(SubSeq(destDir, 1, levels[Max(s)]), g[s \ {Max(s)}])
           T == {m \in 0..n : \E g : Of(m, g)}
<1>1. n \in Nat /\ DOMAIN levels = 1..n
  OBVIOUS
<1>2. safeMkdirAll(fs, root, destDir) = iter[1..n]
  BY <1>1, Zenon DEF safeMkdirAll, LevelsBelow, FoldLeft, MapThenFoldSet
<1> HIDE DEF n, b
<1>3. 0 \in T
  <2> DEFINE g == [s \in SUBSET (1..0) |-> b]
  <2>1. g = [s \in SUBSET (1..0) |-> g[s]] /\ DOMAIN g = SUBSET (1..0)
    OBVIOUS
  <2>2. \A s \in SUBSET (1..0) : s = {} /\ g[s] = b
    OBVIOUS
  <2> HIDE DEF g
  <2>3. Of(0, g)
    BY <2>1, <2>2
  <2>4. 0 \in 0..n
    BY <1>1
  <2> HIDE DEF Of
  <2> QED
    BY <2>3, <2>4
<1>4. ASSUME NEW m \in 0..(n - 1), m \in T PROVE m + 1 \in T
  <2>1. PICK g : Of(m, g)
    BY <1>4
  <2> DEFINE k == m + 1
             h == [s \in SUBSET (1..k) |-> IF k \in s THEN Mkdir(SubSeq(destDir, 1, levels[k]), g[s \ {k}]) ELSE g[s]]
  <2>2. k \in 1..n /\ 1..k = 1..m \cup {k} /\ k \notin 1..m /\ k \in Nat
    BY <1>1
  <2> HIDE DEF k
  <2>3. ASSUME NEW s \in SUBSET (1..k)
        PROVE  h[s] = IF s = {} THEN b ELSE Mkdir(SubSeq(destDir, 1, levels[Max(s)]), h[s \ {Max(s)}])
    <3>1. CASE k \in s
      <4>1. Max(s) = k
        BY <2>2, <3>1, MaxIs
      <4>2. h[s \ {k}] = g[s \ {k}] /\ h[s] = Mkdir(SubSeq(destDir, 1, levels[k]), g[s \ {k}])
        BY <2>2, <3>1
      <4> HIDE DEF h
      <4> QED
        BY <2>2, <3>1, <4>1, <4>2
    <3>2. CASE k \notin s
      <4>1. s \in SUBSET (1..m) /\ h[s] = g[s]
        BY <2>2, <3>2
      <4>2. CASE s = {}
        BY <2>1, <4>1, <4>2
      <4>3. CASE s # {}
        <5>1. h[s \ {Max(s)}] = g[s \ {Max(s)}]
          BY <2>2, <4>1
        <5>2. g[s] = Mkdir(SubSeq(destDir, 1, levels[Max(s)]), g[s \ {Max(s)}])
          BY <2>1, <4>1, <4>3
        <5> HIDE DEF h
        <5> QED
          BY <4>1, <4>3, <5>1, <5>2
      <4> QED
        BY <4>2, <4>3
    <3> QED
      BY <3>1, <3>2
  <2>4. h = [s \in SUBSET (1..k) |-> h[s]] /\ DOMAIN h = SUBSET (1..k)
    OBVIOUS
  <2> HIDE DEF h
  <2>5. Of(k, h)
    BY <2>3, <2>4
  <2> HIDE DEF Of
  <2>6. k \in T
    BY <1>1, <2>2, <2>5
  <2> QED
    BY <2>6 DEF k
<1>5. n \in T
  <2> HIDE DEF T
  <2>1. 0..n \subseteq T
    BY <1>1, <1>3, <1>4, Upwards
  <2> QED
    BY <1>1, <2>1
<1>6. PICK g : Of(n, g)
  BY <1>5
<1>7. g = Body(g)
  BY <1>1, <1>6
<1>8. iter = Body(iter)
  BY <1>7, Zenon
<1> HIDE DEF iter
<1> DEFINE h == [i \in 0..n |-> iter[1..i]]
<1>9. h[0] = b
  <2>1. 1..0 = {} /\ {} \in SUBSET (1..n) /\ 0 \in 0..n
    BY <1>1
  <2>2. iter[{}] = b
    BY <1>1, <1>8, <2>1
  <2> QED
    BY <2>1, <2>2
<1>10. ASSUME NEW i \in 1..n PROVE h[i] = Mkdir(SubSeq(destDir, 1, levels[i]), h[i - 1])
  <2>1. 1..i \in SUBSET (1..n) /\ i \in 1..i /\ (1..i) \ {i} = 1..(i - 1) /\ i \in 0..n /\ i - 1 \in 0..n /\ i \in Nat
    BY <1>1
  <2>2. Max(1..i) = i /\ 1..i # {}
    BY <2>1, MaxIs
  <2>3. iter[1..i] = Mkdir(SubSeq(destDir, 1, levels[i]), iter[1..(i - 1)])
    BY <1>1, <1>8, <2>1, <2>2
  <2>4. h[i] = iter[1..i] /\ h[i - 1] = iter[1..(i - 1)]
    BY <2>1
  <2> HIDE DEF h
  <2> QED
    BY <2>3, <2>4
<1>11. safeMkdirAll(fs, root, destDir) = h[n]
  BY <1>1, <1>2
<1> HIDE DEF h
<1> QED
  BY <1>9, <1>10, <1>11 DEF n, b

-----------------------------------------------------------------------------
\* The first n elements of a sequence.
LEMMA FirstOf ==
    ASSUME NEW X, NEW p \in Seq(X), NEW n \in 0..Len(p)
    PROVE  /\ SubSeq(p, 1, n) \in Seq(X) /\ Len(SubSeq(p, 1, n)) = n
           /\ \A i \in 1..n : SubSeq(p, 1, n)[i] = p[i]
<1>1. Len(p) \in Nat /\ 1 \in 1..(Len(p) + 1) /\ n \in Int
  OBVIOUS
<1>2. SubSeq(p, 1, n) = [i \in 1..n |-> p[i]]
  OBVIOUS
<1>3. \A i \in 1..n : p[i] \in X
  OBVIOUS
<1> QED
  BY <1>2, <1>3

\* One more element.
LEMMA FirstNext ==
    ASSUME NEW X, NEW p \in Seq(X), NEW n \in 1..Len(p)
    PROVE  Append(SubSeq(p, 1, n - 1), p[n]) = SubSeq(p, 1, n)
<1> DEFINE s == SubSeq(p, 1, n - 1)
           t == SubSeq(p, 1, n)
           a == Append(s, p[n])
<1>1. n - 1 \in 0..Len(p) /\ n \in 0..Len(p) /\ Len(p) \in Nat /\ p[n] \in X
  OBVIOUS
<1>2. s \in Seq(X) /\ Len(s) = n - 1 /\ \A i \in 1..(n - 1) : s[i] = p[i]
  BY <1>1, FirstOf
<1>3. t \in Seq(X) /\ Len(t) = n /\ \A i \in 1..n : t[i] = p[i]
  BY <1>1, FirstOf
<1> HIDE DEF s, t
<1>4. a \in Seq(X) /\ Len(a) = n /\ a[n] = p[n] /\ \A i \in 1..(n - 1) : a[i] = s[i]
  BY <1>1, <1>2
<1>5. \A i \in 1..n : a[i] = t[i]
  <2> HIDE DEF a
  <2> TAKE i \in 1..n
  <2>1. i \in 1..(n - 1) \/ i = n
    BY <1>1
  <2> QED
    BY <1>2, <1>3, <1>4, <2>1
<1> HIDE DEF a
<1>6. a = t
  BY <1>3, <1>4, <1>5, SeqEqual
<1> QED
  BY <1>6 DEF a, s, t

\* The first of the first elements.
LEMMA FirstOfFirst ==
    ASSUME NEW X, NEW p \in Seq(X), NEW m \in 0..Len(p), NEW n \in 0..m
    PROVE  SubSeq(SubSeq(p, 1, m), 1, n) = SubSeq(p, 1, n)
<1> DEFINE s == SubSeq(p, 1, m)
           t == SubSeq(p, 1, n)
           u == SubSeq(s, 1, n)
<1>1. n \in 0..Len(p) /\ Len(p) \in Nat /\ \A i \in 1..n : i \in 1..m
  OBVIOUS
<1>2. s \in Seq(X) /\ Len(s) = m /\ \A i \in 1..m : s[i] = p[i]
  BY FirstOf
<1>3. t \in Seq(X) /\ Len(t) = n /\ \A i \in 1..n : t[i] = p[i]
  BY <1>1, FirstOf
<1> HIDE DEF s, t
<1>4. u \in Seq(X) /\ Len(u) = n /\ \A i \in 1..n : u[i] = s[i]
  BY <1>2, FirstOf
<1> HIDE DEF u
<1>5. \A i \in 1..n : u[i] = t[i]
  BY <1>1, <1>2, <1>3, <1>4
<1>6. u = t
  BY <1>3, <1>4, <1>5, SeqEqual
<1> QED
  BY <1>6 DEF u, t, s

\* All elements.
LEMMA FirstAll == ASSUME NEW X, NEW p \in Seq(X) PROVE SubSeq(p, 1, Len(p)) = p /\ SubSeq(p, 1, 0) = <<>>
<1>1. Len(p) \in 0..Len(p) /\ 0 \in 0..Len(p) /\ Len(p) \in Nat
  OBVIOUS
<1>2. /\ SubSeq(p, 1, Len(p)) \in Seq(X) /\ Len(SubSeq(p, 1, Len(p))) = Len(p)
      /\ \A i \in 1..Len(p) : SubSeq(p, 1, Len(p))[i] = p[i]
      /\ SubSeq(p, 1, 0) \in Seq(X) /\ Len(SubSeq(p, 1, 0)) = 0
  BY <1>1, FirstOf
<1>3. SubSeq(p, 1, Len(p)) = p
  BY <1>2, SeqEqual
<1>4. \A s \in Seq(X) : Len(s) = 0 => s = <<>>
  OBVIOUS
<1> QED
  BY <1>2, <1>3, <1>4

\* No link on the way to a path.
LinkAt(fs, p) == p \in DOMAIN fs /\ fs[p].type = "link"

Plain(fs, path) == \A i \in 1..(Len(path) - 1) : ~LinkAt(fs, SubSeq(path, 1, i))

\* Such a path leads to itself.
LEMMA LeadsThere == ASSUME NEW X, NEW fs, NEW path \in Seq(X), Plain(fs, path) PROVE Follow(fs, path) = path
<1> DEFINE n == Len(path)
           levels == Positions(path)
<1>1. n \in Nat /\ DOMAIN path = 1..n
  OBVIOUS
<1>2. levels \in Seq(Nat) /\ Len(levels) = n /\ \A i \in 1..n : levels[i] = i
  <2>1. levels = [i \in 1..n |-> i]
    BY <1>1 DEF Positions
  <2> HIDE DEF levels, n
  <2> QED
    BY <1>1, <2>1
<1>3. AllLevels(path, levels)
  BY DEF AllLevels
<1> HIDE DEF levels
<1>4. PICK h : /\ h[0] = <<>>
               /\ \A i \in 1..Len(levels) : h[i] = Into(fs, path, h[i - 1], levels[i])
               /\ Follow(fs, path) = h[Len(levels)]
  <2>1. Led(fs, path, levels)
    BY <1>2, <1>3, LevelSteps
  <2> QED
    BY <2>1 DEF Led
<1>5. SubSeq(path, 1, n) = path /\ SubSeq(path, 1, 0) = <<>>
  BY FirstAll
<1> HIDE DEF n
<1> DEFINE T == {i \in 0..n : h[i] = SubSeq(path, 1, i)}
<1>6. 0 \in T
  <2>1. 0 \in 0..n
    BY <1>1
  <2> QED
    BY <1>4, <1>5, <2>1
<1>7. ASSUME NEW i \in 0..(n - 1), i \in T PROVE i + 1 \in T
  <2> DEFINE p == SubSeq(path, 1, i + 1)
  <2>1. i + 1 \in 1..n /\ (i + 1) - 1 = i /\ i + 1 \in 0..n
    BY <1>1
  <2>2. h[i + 1] = Into(fs, path, SubSeq(path, 1, i), i + 1)
    BY <1>2, <1>4, <1>7, <2>1
  <2>3. Append(SubSeq(path, 1, i), path[i + 1]) = p
    BY <2>1, FirstNext DEF n
  <2>4. i + 1 < Len(path) => ~LinkAt(fs, p)
    BY <1>1, <2>1 DEF Plain, n
  <2> HIDE DEF p
  <2>5. Into(fs, path, SubSeq(path, 1, i), i + 1) = p
    BY <2>3, <2>4, Zenon DEF Into, LinkAt
  <2>6. h[i + 1] = p
    BY <2>2, <2>5
  <2> QED
    BY <2>1, <2>6 DEF p
<1>8. n \in T
  <2> HIDE DEF T
  <2>1. 0..n \subseteq T
    BY <1>1, <1>6, <1>7, Upwards
  <2> QED
    BY <1>1, <2>1
<1> QED
  BY <1>2, <1>4, <1>5, <1>8

-----------------------------------------------------------------------------
\* A directory can be written to: it is one if it exists, and no link leads there.
Base(fs, root) == (root \in DOMAIN fs => fs[root] = Dir) /\ Plain(fs, root)

\* What is there stays, and only directories below the root are new.
Grown(fs, f, root) ==
    /\ DOMAIN fs \subseteq DOMAIN f /\ \A p \in DOMAIN fs : f[p] = fs[p]
    /\ \A p \in DOMAIN f \ DOMAIN fs : f[p] = Dir /\ IsPrefix(root, p)

\* The first prefixes of a path from the root down are directories.
Dirs(f, root, dest, n) ==
    \A i \in Len(root)..n : SubSeq(dest, 1, i) \in DOMAIN f /\ f[SubSeq(dest, 1, i)].type = "dir"

\* A path below a root.
Below(X, root, dest) == root \in Seq(X) /\ dest \in Seq(X) /\ Len(root) <= Len(dest) /\ SubSeq(dest, 1, Len(root)) = root

\* Its longer prefixes are below the root, too, and its shorter ones are the root's.
LEMMA PrefixesBelow ==
    ASSUME NEW X, NEW root, NEW dest, Below(X, root, dest), NEW n \in 0..Len(dest)
    PROVE  /\ SubSeq(dest, 1, n) \in Seq(X) /\ Len(SubSeq(dest, 1, n)) = n
           /\ n >= Len(root) => IsPrefix(root, SubSeq(dest, 1, n))
           /\ n < Len(root) => SubSeq(dest, 1, n) = SubSeq(root, 1, n)
<1> DEFINE p == SubSeq(dest, 1, n)
           k == Len(root)
<1>1. root \in Seq(X) /\ dest \in Seq(X) /\ k <= Len(dest) /\ SubSeq(dest, 1, k) = root /\ k \in Nat /\ Len(dest) \in Nat
  BY DEF Below
<1>2. p \in Seq(X) /\ Len(p) = n
  BY <1>1, FirstOf
<1>3. ASSUME n >= k PROVE IsPrefix(root, p)
  <2>1. k \in 0..n
    BY <1>1, <1>3
  <2>2. SubSeq(p, 1, k) = SubSeq(dest, 1, k)
    BY <1>1, <2>1, FirstOfFirst
  <2>3. SubSeq(root, 1, k) = root
    BY <1>1, FirstAll
  <2> HIDE DEF p
  <2> QED
    BY <1>1, <1>2, <1>3, <2>2, <2>3, Zenon DEF IsPrefix, k
<1>4. ASSUME n < k PROVE p = SubSeq(root, 1, n)
  <2>1. n \in 0..k /\ k \in 0..Len(dest)
    BY <1>1, <1>4
  <2>2. SubSeq(SubSeq(dest, 1, k), 1, n) = SubSeq(dest, 1, n)
    BY <1>1, <2>1, FirstOfFirst
  <2> QED
    BY <1>1, <2>2
<1> QED
  BY <1>2, <1>3, <1>4

\* A path whose directories exist leads to itself.
LEMMA DirsLead ==
    ASSUME NEW X, NEW root, NEW dest, Below(X, root, dest), NEW f, Base(f, root), NEW n \in Nat, Dirs(f, root, dest, n),
           NEW m \in 0..Len(dest), m <= n + 1
    PROVE  Follow(f, SubSeq(dest, 1, m)) = SubSeq(dest, 1, m)
<1> DEFINE p == SubSeq(dest, 1, m)
           k == Len(root)
<1>1. root \in Seq(X) /\ dest \in Seq(X) /\ k <= Len(dest) /\ k \in Nat /\ Len(dest) \in Nat
  BY DEF Below
<1>2. p \in Seq(X) /\ Len(p) = m
  BY <1>1, FirstOf
<1>3. ASSUME NEW i \in 1..(m - 1) PROVE ~LinkAt(f, SubSeq(p, 1, i))
  <2>1. i \in 0..m /\ i \in 0..Len(dest) /\ i <= n
    BY <1>1
  <2>2. SubSeq(p, 1, i) = SubSeq(dest, 1, i)
    BY <1>1, <2>1, FirstOfFirst
  <2>3. CASE i < k
    <3>1. SubSeq(dest, 1, i) = SubSeq(root, 1, i)
      BY <2>1, <2>3, PrefixesBelow
    <3>2. i \in 1..(k - 1)
      BY <1>1, <2>3
    <3> QED
      BY <2>2, <3>1, <3>2 DEF Base, Plain
  <2>4. CASE ~(i < k)
    <3>1. i \in k..n
      BY <1>1, <2>1, <2>4
    <3>2. f[SubSeq(dest, 1, i)].type = "dir"
      BY <3>1 DEF Dirs
    <3>3. "dir" # "link"
      OBVIOUS
    <3> QED
      BY <2>2, <3>2, <3>3, Zenon DEF LinkAt
  <2> QED
    BY <2>3, <2>4
<1> HIDE DEF p
<1>4. Plain(f, p)
  BY <1>2, <1>3 DEF Plain
<1>5. Follow(f, p) = p
  BY <1>2, <1>4, LeadsThere
<1> QED
  BY <1>5 DEF p

\* What is written below a directory does not make it another one.
LEMMA BaseStays ==
    ASSUME NEW X, NEW root \in Seq(X), NEW f, Base(f, root), NEW p, IsPrefix(root, p), Len(p) \in Nat,
           NEW node, p # root \/ node = Dir
    PROVE  Base(With(f, p, node), root)
<1> DEFINE g == With(f, p, node)
<1>1. DOMAIN g = DOMAIN f \cup {p} /\ g[p] = node /\ \A q \in DOMAIN f : q # p => g[q] = f[q]
  BY DEF With
<1> HIDE DEF g
<1>2. root \in DOMAIN g => g[root] = Dir
  BY <1>1 DEF Base
<1>3. ASSUME NEW i \in 1..(Len(root) - 1) PROVE ~LinkAt(g, SubSeq(root, 1, i))
  <2>1. Len(root) <= Len(p) /\ Len(root) \in Nat
    BY DEF IsPrefix
  <2>2. i \in 0..Len(root) /\ i < Len(root)
    BY <2>1
  <2>3. Len(SubSeq(root, 1, i)) = i
    BY <2>2, FirstOf
  <2>4. SubSeq(root, 1, i) # p
    BY <2>1, <2>2, <2>3
  <2>5. ~LinkAt(f, SubSeq(root, 1, i))
    BY DEF Base, Plain
  <2> QED
    BY <1>1, <2>4, <2>5 DEF LinkAt
<1> QED
  BY <1>2, <1>3 DEF Base, Plain, g

\* So far the directories are made.
MadeSo(fs, root, dest, n, r) ==
    r.ok => Base(r.val, root) /\ Grown(fs, r.val, root) /\ Dirs(r.val, root, dest, n)

\* One more directory.
LEMMA MkdirNext ==
    ASSUME NEW X, NEW root, NEW dest, Below(X, root, dest), NEW fs, NEW n \in Len(root)..(Len(dest) - 1),
           NEW r, MadeSo(fs, root, dest, n, r)
    PROVE  MadeSo(fs, root, dest, n + 1, Mkdir(SubSeq(dest, 1, n + 1), r))
<1> DEFINE f == r.val
           p == SubSeq(dest, 1, n + 1)
           q == Mkdir(p, r)
<1>1. root \in Seq(X) /\ dest \in Seq(X) /\ Len(root) \in Nat /\ Len(dest) \in Nat /\ n \in Nat
      /\ n + 1 \in 0..Len(dest) /\ Len(root) <= n + 1
  BY DEF Below
<1>2. p \in Seq(X) /\ Len(p) = n + 1 /\ IsPrefix(root, p)
  BY <1>1, PrefixesBelow
<1>3. CASE ~r.ok
  <2>1. q = r
    BY <1>3 DEF Mkdir
  <2> HIDE DEF q, p
  <2> QED
    BY <1>3, <2>1 DEF MadeSo, p, q
<1>4. CASE r.ok
  <2>1. Base(f, root) /\ Grown(fs, f, root) /\ Dirs(f, root, dest, n)
    BY <1>4 DEF MadeSo
  <2>2. Follow(f, p) = p
    BY <1>1, <2>1, DirsLead
  <2>3. Len(root)..(n + 1) = Len(root)..n \cup {n + 1}
    BY <1>1
  <2> HIDE DEF p
  <2>4. Lstat(f, p) <=> p \in DOMAIN f
    BY <2>2 DEF Lstat
  <2>5. CASE p \notin DOMAIN f
    <3> DEFINE g == With(f, p, Dir)
    <3>1. q = Ok(g)
      BY <1>4, <2>2, <2>4, <2>5 DEF Mkdir
    <3>2. DOMAIN g = DOMAIN f \cup {p} /\ g[p] = Dir /\ \A x \in DOMAIN f : x # p => g[x] = f[x]
      BY DEF With
    <3>3. Base(g, root)
      BY <1>1, <1>2, <2>1, BaseStays
    <3> HIDE DEF g
    <3>4. Grown(fs, g, root)
      BY <1>2, <2>1, <2>5, <3>2 DEF Grown
    <3>5. Dir.type = "dir"
      BY DEF Dir
    <3>6. Dirs(g, root, dest, n + 1)
      <4>1. ASSUME NEW i \in Len(root)..(n + 1)
            PROVE  SubSeq(dest, 1, i) \in DOMAIN g /\ g[SubSeq(dest, 1, i)].type = "dir"
        <5>1. CASE i = n + 1
          BY <3>2, <3>5, <5>1 DEF p
        <5>2. CASE i # n + 1
          <6>1. SubSeq(dest, 1, i) \in DOMAIN f /\ f[SubSeq(dest, 1, i)].type = "dir"
            BY <2>1, <2>3, <5>2 DEF Dirs
          <6> QED
            BY <2>5, <3>2, <6>1
        <5> QED
          BY <5>1, <5>2
      <4> QED
        BY <4>1 DEF Dirs
    <3>7. q.val = g
      BY <3>1 DEF Ok
    <3> HIDE DEF q
    <3> QED
      BY <3>3, <3>4, <3>6, <3>7 DEF MadeSo, p, q
  <2>6. CASE p \in DOMAIN f
    <3>1. q.ok => q = r /\ f[p].type = "dir"
      BY <1>4, <2>2, <2>4, <2>6 DEF Mkdir, Fails
    <3> HIDE DEF q
    <3>2. q.ok => Dirs(f, root, dest, n + 1)
      <4>1. ASSUME q.ok, NEW i \in Len(root)..(n + 1)
            PROVE  SubSeq(dest, 1, i) \in DOMAIN f /\ f[SubSeq(dest, 1, i)].type = "dir"
        <5>1. CASE i = n + 1
          BY <2>6, <3>1, <4>1, <5>1 DEF p
        <5>2. CASE i # n + 1
          BY <2>1, <2>3, <5>2 DEF Dirs
        <5> QED
          BY <5>1, <5>2
      <4> QED
        BY <4>1 DEF Dirs
    <3> QED
      BY <2>1, <3>1, <3>2 DEF MadeSo, p, q
  <2> QED
    BY <2>5, <2>6
<1> QED
  BY <1>3, <1>4

-----------------------------------------------------------------------------
\* The directories of a file below a root are there when safeMkdirAll succeeds.
LEMMA DirectoriesMade ==
    ASSUME NEW X, NEW root, NEW dest, Below(X, root, dest), NEW fs, Base(fs, root), safeMkdirAll(fs, root, Front(dest)).ok
    PROVE  \E n \in Nat : Len(dest) <= n + 1 /\ MadeSo(fs, root, dest, n, safeMkdirAll(fs, root, Front(dest)))
                          /\ n >= Len(root)
<1> DEFINE k == Len(root)
           destDir == Front(dest)
           levels == [i \in 1..(Len(destDir) - k) |-> k + i]
           r == safeMkdirAll(fs, root, destDir)
           m == IF Len(dest) > k THEN Len(dest) - 1 - k ELSE 0
<1>1. root \in Seq(X) /\ dest \in Seq(X) /\ k \in Nat /\ Len(dest) \in Nat /\ k <= Len(dest) /\ SubSeq(dest, 1, k) = root
  BY DEF Below
<1>2. Len(dest) > 0 => Len(destDir) = Len(dest) - 1 /\ \A n \in 0..(Len(dest) - 1) : SubSeq(destDir, 1, n) = SubSeq(dest, 1, n)
  <2> SUFFICES ASSUME Len(dest) > 0
               PROVE  Len(destDir) = Len(dest) - 1 /\ \A n \in 0..(Len(dest) - 1) : SubSeq(destDir, 1, n) = SubSeq(dest, 1, n)
    OBVIOUS
  <2>1. Len(dest) - 1 \in 0..Len(dest)
    BY <1>1
  <2>2. destDir = SubSeq(dest, 1, Len(dest) - 1)
    BY DEF Front
  <2> HIDE DEF destDir
  <2> QED
    BY <1>1, <2>1, <2>2, FirstOf, FirstOfFirst
<1>3. Len(dest) = 0 => Len(destDir) = 0
  <2>1. Len(dest) = 0 => dest = <<>>
    BY <1>1
  <2>2. SubSeq(<<>>, 1, 0 - 1) = <<>> /\ Len(<<>>) = 0
    OBVIOUS
  <2> QED
    BY <2>1, <2>2 DEF Front
<1> HIDE DEF destDir
<1>4. 1..(Len(destDir) - k) = 1..m /\ m \in Nat
  BY <1>1, <1>2, <1>3
<1>5. levels \in Seq(Nat) /\ Len(levels) = m /\ \A i \in 1..m : levels[i] = k + i
  <2>1. levels = [i \in 1..m |-> k + i]
    BY <1>4
  <2> HIDE DEF levels, m, k
  <2> QED
    BY <1>1, <1>4, <2>1
<1>6. LevelsBelow(root, destDir, levels)
  BY DEF LevelsBelow
<1> HIDE DEF levels
<1>7. PICK h : /\ h[0] = Ok(With(fs, root, Dir))
               /\ \A i \in 1..Len(levels) : h[i] = Mkdir(SubSeq(destDir, 1, levels[i]), h[i - 1])
               /\ r = h[Len(levels)]
  BY <1>5, <1>6, DirectorySteps
<1> DEFINE T == {i \in 0..m : MadeSo(fs, root, dest, k + i, h[i])}
<1>8. 0 \in T
  <2> DEFINE g == With(fs, root, Dir)
  <2>1. DOMAIN g = DOMAIN fs \cup {root} /\ g[root] = Dir /\ \A x \in DOMAIN fs : x # root => g[x] = fs[x]
    BY DEF With
  <2>2. IsPrefix(root, root)
    BY <1>1 DEF IsPrefix
  <2>3. Base(g, root)
    BY <1>1, <2>2, BaseStays
  <2> HIDE DEF g
  <2>4. Grown(fs, g, root)
    BY <2>1, <2>2 DEF Grown, Base
  <2>5. Dirs(g, root, dest, k)
    <3> HIDE DEF k
    <3>1. \A i \in k..k : i = k
      BY <1>1
    <3>2. g[root].type = "dir"
      BY <2>1 DEF Dir
    <3> QED
      BY <1>1, <2>1, <3>1, <3>2 DEF Dirs, k
  <2>6. h[0].val = g /\ k + 0 = k /\ 0 \in 0..m
    BY <1>1, <1>4, <1>7 DEF Ok, g
  <2> QED
    BY <2>3, <2>4, <2>5, <2>6 DEF MadeSo
<1>9. ASSUME NEW i \in 0..(m - 1), i \in T PROVE i + 1 \in T
  <2>1. i + 1 \in 1..m /\ (i + 1) - 1 = i /\ i + 1 \in 0..m /\ k + (i + 1) = (k + i) + 1
        /\ k + i \in k..(Len(dest) - 1) /\ k + (i + 1) \in 0..(Len(dest) - 1) /\ Len(dest) > 0
    BY <1>1, <1>4
  <2> DEFINE n == k + i
  <2>2. levels[i + 1] = n + 1
    BY <1>5, <2>1
  <2>3. SubSeq(destDir, 1, n + 1) = SubSeq(dest, 1, n + 1)
    BY <1>2, <2>1
  <2>4. n \in Len(root)..(Len(dest) - 1) /\ MadeSo(fs, root, dest, n, h[i])
    BY <1>9, <2>1
  <2> HIDE DEF n
  <2>5. h[i + 1] = Mkdir(SubSeq(dest, 1, n + 1), h[i])
    BY <1>5, <1>7, <2>1, <2>2, <2>3
  <2>6. MadeSo(fs, root, dest, n + 1, h[i + 1])
    BY <2>4, <2>5, MkdirNext
  <2> QED
    BY <2>1, <2>6 DEF n
<1>10. m \in T
  <2> HIDE DEF T
  <2>1. 0..m \subseteq T
    BY <1>4, <1>8, <1>9, Upwards
  <2> QED
    BY <1>4, <2>1
<1>11. MadeSo(fs, root, dest, k + m, r)
  BY <1>5, <1>7, <1>10
<1>12. k + m \in Nat /\ k + m >= k /\ Len(dest) <= (k + m) + 1
  BY <1>1, <1>4
<1> HIDE DEF r, m, k
<1> QED
  BY <1>11, <1>12 DEF r, k, destDir

\* A cleaned path is a path.
LEMMA Cleaned == ASSUME NEW X, NEW path \in Seq(X) PROVE Clean(path) \in Seq(X)
<1> DEFINE n == Len(path)
           Y == Seq(X)
<1>1. n \in Nat /\ \A i \in 1..n : path[i] \in X
  OBVIOUS
<1>2. PICK h : /\ h[0] = <<>>
               /\ \A i \in 1..n : h[i] = Enter(h[i - 1], path[i])
               /\ Clean(path) = h[n]
  BY NameSteps
<1>3. <<>> \in Y /\ \A p \in Y, x \in X : Append(p, x) \in Y
  OBVIOUS
<1>4. \A p \in Y : p = <<>> \/ Front(p) \in Y
  <2> TAKE p \in Y
  <2>1. p = <<>> \/ Len(p) - 1 \in 0..Len(p)
    OBVIOUS
  <2> QED
    BY <2>1, FirstOf DEF Front
<1> HIDE DEF n, Y
<1> DEFINE T == {i \in 0..n : h[i] \in Y}
<1>5. 0 \in T
  BY <1>1, <1>2, <1>3
<1>6. ASSUME NEW i \in 0..(n - 1), i \in T PROVE i + 1 \in T
  <2>1. i + 1 \in 1..n /\ (i + 1) - 1 = i /\ i + 1 \in 0..n
    BY <1>1
  <2>2. h[i + 1] = Enter(h[i], path[i + 1]) /\ h[i] \in Y /\ path[i + 1] \in X
    BY <1>1, <1>2, <1>6, <2>1
  <2>3. Enter(h[i], path[i + 1]) \in {h[i], Front(h[i]), Append(h[i], path[i + 1])}
        /\ (h[i] = <<>> => Enter(h[i], path[i + 1]) \in {h[i], Append(h[i], path[i + 1])})
    BY Zenon DEF Enter
  <2>4. h[i + 1] \in Y
    BY <1>3, <1>4, <2>2, <2>3
  <2> QED
    BY <2>1, <2>4
<1>7. n \in T
  <2> HIDE DEF T
  <2>1. 0..n \subseteq T
    BY <1>1, <1>5, <1>6, Upwards
  <2> QED
    BY <1>1, <2>1
<1> QED
  BY <1>2, <1>7 DEF Y

-----------------------------------------------------------------------------
\* A file or link is written at a new place, with the directories above it.
Writes(f, g, dir, dest, node) ==
    /\ DOMAIN f \subseteq DOMAIN g /\ \A p \in DOMAIN f : g[p] = f[p]
    /\ dest \in DOMAIN g \ DOMAIN f /\ g[dest] = node
    /\ \A p \in DOMAIN g \ DOMAIN f : IsPrefix(dir, p) /\ (p = dest \/ g[p] = Dir)

\* What an entry becomes, and where.
NodeOfEntry(e) == IF e.mode = "link" THEN Link(e.data) ELSE File(e.data)

PlaceOf(dir, e) == Clean(dir \o e.path)

\* An entry that is written without an error.
LEMMA EntryWritten ==
    ASSUME NEW X, NEW dir \in Seq(X), NEW f, Base(f, dir), NEW e, e.path \in Seq(X), e.mode # "submodule",
           writeTreeEntry(f, dir, e).ok
    PROVE  /\ Base(writeTreeEntry(f, dir, e).val, dir)
           /\ Writes(f, writeTreeEntry(f, dir, e).val, dir, PlaceOf(dir, e), NodeOfEntry(e))
<1> DEFINE dest == PlaceOf(dir, e)
           made == safeMkdirAll(f, dir, Front(dest))
           d == made.val
           q == writeTreeEntry(f, dir, e)
           node == NodeOfEntry(e)
<1>1. dest \in Seq(X)
  <2>1. dir \o e.path \in Seq(X)
    OBVIOUS
  <2> QED
    BY <2>1, Cleaned DEF PlaceOf
<1>2. safeJoin(dir, e.path) = IF IsPrefix(dir, dest) THEN Ok(dest) ELSE Fails
  BY Zenon DEF safeJoin, PlaceOf
<1>3. Fails.ok = FALSE
  BY DEF Fails
<1>4. IsPrefix(dir, dest)
  <2> SUFFICES ASSUME ~IsPrefix(dir, dest) PROVE FALSE
    OBVIOUS
  <2>1. safeJoin(dir, e.path) = Fails
    BY <1>2
  <2>2. q = Fails
    BY <1>3, <2>1, Zenon DEF writeTreeEntry
  <2> QED
    BY <1>3, <2>2
<1>5. safeJoin(dir, e.path).ok /\ safeJoin(dir, e.path).val = dest
  BY <1>2, <1>4 DEF Ok
<1> HIDE DEF dest
<1>6. Below(X, dir, dest)
  <2>1. Len(dir) <= Len(dest) /\ SubSeq(dir, 1, Len(dir)) = SubSeq(dest, 1, Len(dir))
    BY <1>4, Zenon DEF IsPrefix
  <2>2. SubSeq(dir, 1, Len(dir)) = dir
    BY FirstAll
  <2> QED
    BY <1>1, <2>1, <2>2, Zenon DEF Below
<1>7. /\ made.ok
      /\ q = IF e.mode = "link" THEN writeSymlink(d, dest, e.data) ELSE writeBlob(d, dest, e.data)
  <2>1. q = IF ~made.ok \/ e.mode = "broken" THEN Fails
            ELSE IF e.mode = "link" THEN writeSymlink(d, dest, e.data)
            ELSE writeBlob(d, dest, e.data)
    BY <1>5, Zenon DEF writeTreeEntry
  <2> HIDE DEF made, d
  <2> QED
    BY <1>3, <2>1
<1>8. PICK n \in Nat : Len(dest) <= n + 1 /\ MadeSo(f, dir, dest, n, made) /\ n >= Len(dir)
  BY <1>6, <1>7, DirectoriesMade
<1>9. Base(d, dir) /\ Grown(f, d, dir) /\ Dirs(d, dir, dest, n)
  BY <1>7, <1>8 DEF MadeSo
<1> HIDE DEF made, d
<1>10. Len(dest) \in Nat /\ Len(dest) \in 0..Len(dest) /\ Len(dir) \in Nat
  BY <1>1
<1>11. Follow(d, dest) = dest
  <2>1. Follow(d, SubSeq(dest, 1, Len(dest))) = SubSeq(dest, 1, Len(dest))
    BY <1>6, <1>8, <1>9, <1>10, DirsLead
  <2> QED
    BY <1>1, <2>1, FirstAll
<1>12. Lstat(d, dest) <=> dest \in DOMAIN d
  BY <1>11 DEF Lstat
<1>13. dest \notin DOMAIN d /\ q = Ok(With(d, dest, node))
  BY <1>3, <1>7, <1>11, <1>12, Zenon DEF writeSymlink, writeBlob, node, NodeOfEntry, q
<1>14. dest # dir
  <2>1. Len(dir) \in Len(dir)..n
    BY <1>8, <1>10
  <2>2. SubSeq(dest, 1, Len(dir)) \in DOMAIN d
    BY <1>9, <2>1 DEF Dirs
  <2> QED
    BY <1>6, <1>13, <2>2 DEF Below
<1> DEFINE g == With(d, dest, node)
<1>15. DOMAIN g = DOMAIN d \cup {dest} /\ g[dest] = node /\ \A p \in DOMAIN d : p # dest => g[p] = d[p]
  BY DEF With
<1>16. Base(g, dir)
  BY <1>4, <1>9, <1>10, <1>14, BaseStays
<1> HIDE DEF g, node
<1>17. Writes(f, g, dir, dest, node)
  BY <1>4, <1>9, <1>13, <1>15 DEF Writes, Grown
<1>18. q.val = g
  BY <1>13 DEF Ok, g
<1> QED
  BY <1>16, <1>17, <1>18 DEF q, dest, node

\* The entries of a tree.
EntriesOf(X) == [path : Seq(X), mode : {"file", "link", "submodule", "broken"}, data : Seq(X)]

\* The first n entries are checked out.
CheckedOut(fs, tree, dir, n, f) ==
    /\ Base(f, dir)
    /\ DOMAIN fs \subseteq DOMAIN f /\ \A p \in DOMAIN fs : f[p] = fs[p]
    /\ \A p \in DOMAIN f \ DOMAIN fs :
          IsPrefix(dir, p) /\ (f[p] = Dir \/ \E i \in 1..n : tree[i].mode # "submodule" /\ p = PlaceOf(dir, tree[i]))
    /\ \A i \in 1..n : tree[i].mode # "submodule" =>
          PlaceOf(dir, tree[i]) \in DOMAIN f \ DOMAIN fs /\ f[PlaceOf(dir, tree[i])] = NodeOfEntry(tree[i])

\* One more entry.
LEMMA CheckedOutNext ==
    ASSUME NEW X, NEW dir \in Seq(X), NEW fs, NEW tree, NEW n \in Nat, tree[n + 1].path \in Seq(X),
           NEW r, r.ok => CheckedOut(fs, tree, dir, n, r.val), AddEntry(dir, r, tree[n + 1]).ok
    PROVE  CheckedOut(fs, tree, dir, n + 1, AddEntry(dir, r, tree[n + 1]).val)
<1> DEFINE e == tree[n + 1]
           f == r.val
           q == AddEntry(dir, r, e)
           g == q.val
<1>1. r.ok /\ q = writeTreeEntry(f, dir, e)
  BY Zenon DEF AddEntry
<1>2. CheckedOut(fs, tree, dir, n, f)
  BY <1>1
<1>3. 1..(n + 1) = 1..n \cup {n + 1}
  OBVIOUS
<1>4. CASE e.mode = "submodule"
  <2>1. g = f
    BY <1>1, <1>4 DEF writeTreeEntry, Ok
  <2> HIDE DEF g
  <2>2. \A i \in 1..(n + 1) : tree[i].mode # "submodule" => i \in 1..n
    BY <1>3, <1>4
  <2>3. CheckedOut(fs, tree, dir, n + 1, f)
    BY <1>2, <1>3, <2>2 DEF CheckedOut
  <2> QED
    BY <2>1, <2>3 DEF g
<1>5. CASE e.mode # "submodule"
  <2> DEFINE dest == PlaceOf(dir, e)
             node == NodeOfEntry(e)
  <2>1. Base(f, dir)
    BY <1>2 DEF CheckedOut
  <2>2. Base(g, dir) /\ Writes(f, g, dir, dest, node)
    BY <1>1, <1>5, <2>1, EntryWritten
  <2> HIDE DEF g, f
  <2>3. DOMAIN fs \subseteq DOMAIN g /\ \A p \in DOMAIN fs : g[p] = fs[p]
    BY <1>2, <2>2 DEF CheckedOut, Writes
  <2>4. ASSUME NEW p \in DOMAIN g \ DOMAIN fs
        PROVE  IsPrefix(dir, p) /\ (g[p] = Dir \/ \E i \in 1..(n + 1) : tree[i].mode # "submodule" /\ p = PlaceOf(dir, tree[i]))
    <3>1. CASE p \in DOMAIN f
      BY <1>2, <1>3, <2>2, <3>1 DEF CheckedOut, Writes
    <3>2. CASE p \notin DOMAIN f
      BY <1>3, <1>5, <2>2, <3>2 DEF Writes
    <3> QED
      BY <3>1, <3>2
  <2>5. ASSUME NEW i \in 1..(n + 1), tree[i].mode # "submodule"
        PROVE  PlaceOf(dir, tree[i]) \in DOMAIN g \ DOMAIN fs /\ g[PlaceOf(dir, tree[i])] = NodeOfEntry(tree[i])
    <3>1. CASE i = n + 1
      BY <1>2, <2>2, <3>1 DEF CheckedOut, Writes
    <3>2. CASE i # n + 1
      BY <1>2, <1>3, <2>2, <2>5, <3>2 DEF CheckedOut, Writes
    <3> QED
      BY <3>1, <3>2
  <2>6. CheckedOut(fs, tree, dir, n + 1, g)
    BY <2>2, <2>3, <2>4, <2>5, Zenon DEF CheckedOut
  <2> QED
    BY <2>6 DEF g
<1> QED
  BY <1>4, <1>5

\* A checkout that succeeds has every entry of the tree with its content and nothing
\* else, and what is outside its directory is as before; for trees with any entries, also
\* ones that lead out of the directory or through links that the tree has itself, and
\* any file system in which the directory can be written to (writeTree, safeJoin,
\* safeMkdirAll).
THEOREM CheckoutAlwaysRight ==
    ASSUME NEW X, NEW dir \in Seq(X), NEW fs, Base(fs, dir), NEW tree \in Seq(EntriesOf(X))
    PROVE  CheckoutRight(fs, tree, dir)
<1> DEFINE n == Len(tree)
           r == writeTree(fs, tree, dir)
<1>1. n \in Nat /\ DOMAIN tree = 1..n /\ \A i \in 1..n : tree[i].path \in Seq(X)
  <2>1. \A i \in 1..Len(tree) : tree[i] \in EntriesOf(X)
    OBVIOUS
  <2>2. \A e \in EntriesOf(X) : e.path \in Seq(X)
    BY DEF EntriesOf
  <2> QED
    BY <2>1, <2>2
<1>2. PICK h : /\ h[0] = Ok(fs)
               /\ \A i \in 1..n : h[i] = AddEntry(dir, h[i - 1], tree[i])
               /\ r = h[n]
  BY EntrySteps
<1> HIDE DEF n, r
<1> DEFINE T == {i \in 0..n : h[i].ok => CheckedOut(fs, tree, dir, i, h[i].val)}
<1>3. 0 \in T
  <2>1. h[0].val = fs /\ 0 \in 0..n /\ 1..0 = {}
    BY <1>1, <1>2 DEF Ok
  <2> QED
    BY <2>1 DEF CheckedOut
<1>4. ASSUME NEW i \in 0..(n - 1), i \in T PROVE i + 1 \in T
  <2>1. i \in Nat /\ i + 1 \in 1..n /\ (i + 1) - 1 = i /\ i + 1 \in 0..n
    BY <1>1
  <2>2. h[i + 1] = AddEntry(dir, h[i], tree[i + 1]) /\ tree[i + 1].path \in Seq(X)
    BY <1>1, <1>2, <2>1
  <2>3. h[i].ok => CheckedOut(fs, tree, dir, i, h[i].val)
    BY <1>4
  <2>4. h[i + 1].ok => CheckedOut(fs, tree, dir, i + 1, h[i + 1].val)
    BY <2>1, <2>2, <2>3, CheckedOutNext
  <2> QED
    BY <2>1, <2>4
<1>5. r.ok => CheckedOut(fs, tree, dir, n, r.val)
  <2> HIDE DEF T
  <2>1. 0..n \subseteq T
    BY <1>1, <1>3, <1>4, Upwards
  <2>2. n \in T
    BY <1>1, <2>1
  <2> QED
    BY <1>2, <2>2 DEF T
<1> DEFINE written == {i \in DOMAIN tree : tree[i].mode # "submodule"}
           new == DOMAIN r.val \ DOMAIN fs
<1>6. ASSUME r.ok
      PROVE  /\ \A p \in DOMAIN fs : r.val[p] = fs[p]
             /\ \A p \in new : IsPrefix(dir, p) /\ (r.val[p].type = "dir" \/ \E i \in written : p = Clean(dir \o tree[i].path))
             /\ \A i \in written :
                   /\ Clean(dir \o tree[i].path) \in new
                   /\ r.val[Clean(dir \o tree[i].path)] = IF tree[i].mode = "link" THEN Link(tree[i].data) ELSE File(tree[i].data)
  <2>1. CheckedOut(fs, tree, dir, n, r.val)
    BY <1>5, <1>6
  <2>2. Dir.type = "dir"
    BY DEF Dir
  <2>3. \A p \in DOMAIN fs : r.val[p] = fs[p]
    BY <2>1, Zenon DEF CheckedOut
  <2>4. ASSUME NEW p \in new
        PROVE  IsPrefix(dir, p) /\ (r.val[p].type = "dir" \/ \E i \in written : p = Clean(dir \o tree[i].path))
    <3>1. IsPrefix(dir, p)
      BY <2>1, <2>4, Zenon DEF CheckedOut
    <3>2. CASE r.val[p] = Dir
      BY <2>2, <3>1, <3>2
    <3>3. CASE \E i \in 1..n : tree[i].mode # "submodule" /\ p = PlaceOf(dir, tree[i])
      BY <1>1, <3>1, <3>3, Zenon DEF PlaceOf
    <3> QED
      BY <2>1, <2>4, <3>2, <3>3, Zenon DEF CheckedOut
  <2>5. ASSUME NEW i \in written
        PROVE  /\ Clean(dir \o tree[i].path) \in new
               /\ r.val[Clean(dir \o tree[i].path)] = IF tree[i].mode = "link" THEN Link(tree[i].data) ELSE File(tree[i].data)
    <3>1. i \in 1..n /\ tree[i].mode # "submodule"
      BY <1>1, <2>5
    <3>2. PlaceOf(dir, tree[i]) \in new /\ r.val[PlaceOf(dir, tree[i])] = NodeOfEntry(tree[i])
      BY <2>1, <3>1, Zenon DEF CheckedOut
    <3> QED
      BY <3>2, Zenon DEF PlaceOf, NodeOfEntry
  <2> QED
    BY <2>3, <2>4, <2>5, Zenon
<1> QED
  BY <1>6, Zenon DEF CheckoutRight, r

-----------------------------------------------------------------------------
\* The files of defaults, one after the other.
LEMMA DefaultSteps ==
    ASSUME NEW X, NEW files \in Seq(X)
    PROVE  \E h : /\ h[0] = NoItems
                  /\ \A i \in 1..Len(files) : h[i] = Over(files[i], h[i - 1])
                  /\ AllDefaults(files) = h[Len(files)]
<1> DEFINE n == Len(files)
           b == NoItems
           Body(f) == [s \in SUBSET (DOMAIN files) |-> IF s = {} THEN b ELSE Over(files[Max(s)], f[s \ {Max(s)}])]
           iter == CHOOSE f : f = Body(f)
           Of(m, g) == /\ DOMAIN g = SUBSET (1..m) /\ g = [s \in SUBSET (1..m) |-> g[s]]
                       /\ \A s \in SUBSET (1..m) : g[s] = IF s = {} THEN b ELSE Over(files[Max(s)], g[s \ {Max(s)}])
           T == {m \in 0..n : \E g : Of(m, g)}
<1>1. n \in Nat /\ DOMAIN files = 1..n
  OBVIOUS
<1>2. AllDefaults(files) = iter[1..n]
  BY <1>1, Zenon DEF AllDefaults, FoldLeft, MapThenFoldSet
<1> HIDE DEF n, b
<1>3. 0 \in T
  <2> DEFINE g == [s \in SUBSET (1..0) |-> b]
  <2>1. g = [s \in SUBSET (1..0) |-> g[s]] /\ DOMAIN g = SUBSET (1..0)
    OBVIOUS
  <2>2. \A s \in SUBSET (1..0) : s = {} /\ g[s] = b
    OBVIOUS
  <2> HIDE DEF g
  <2>3. Of(0, g)
    BY <2>1, <2>2
  <2>4. 0 \in 0..n
    BY <1>1
  <2> HIDE DEF Of
  <2> QED
    BY <2>3, <2>4
<1>4. ASSUME NEW m \in 0..(n - 1), m \in T PROVE m + 1 \in T
  <2>1. PICK g : Of(m, g)
    BY <1>4
  <2> DEFINE k == m + 1
             h == [s \in SUBSET (1..k) |-> IF k \in s THEN Over(files[k], g[s \ {k}]) ELSE g[s]]
  <2>2. k \in 1..n /\ 1..k = 1..m \cup {k} /\ k \notin 1..m /\ k \in Nat
    BY <1>1
  <2> HIDE DEF k
  <2>3. ASSUME NEW s \in SUBSET (1..k)
        PROVE  h[s] = IF s = {} THEN b ELSE Over(files[Max(s)], h[s \ {Max(s)}])
    <3>1. CASE k \in s
      <4>1. Max(s) = k
        BY <2>2, <3>1, MaxIs
      <4>2. h[s \ {k}] = g[s \ {k}] /\ h[s] = Over(files[k], g[s \ {k}])
        BY <2>2, <3>1
      <4> HIDE DEF h
      <4> QED
        BY <2>2, <3>1, <4>1, <4>2
    <3>2. CASE k \notin s
      <4>1. s \in SUBSET (1..m) /\ h[s] = g[s]
        BY <2>2, <3>2
      <4>2. CASE s = {}
        BY <2>1, <4>1, <4>2
      <4>3. CASE s # {}
        <5>1. h[s \ {Max(s)}] = g[s \ {Max(s)}]
          BY <2>2, <4>1
        <5>2. g[s] = Over(files[Max(s)], g[s \ {Max(s)}])
          BY <2>1, <4>1, <4>3
        <5> HIDE DEF h
        <5> QED
          BY <4>1, <4>3, <5>1, <5>2
      <4> QED
        BY <4>2, <4>3
    <3> QED
      BY <3>1, <3>2
  <2>4. h = [s \in SUBSET (1..k) |-> h[s]] /\ DOMAIN h = SUBSET (1..k)
    OBVIOUS
  <2> HIDE DEF h
  <2>5. Of(k, h)
    BY <2>3, <2>4
  <2> HIDE DEF Of
  <2>6. k \in T
    BY <1>1, <2>2, <2>5
  <2> QED
    BY <2>6 DEF k
<1>5. n \in T
  <2> HIDE DEF T
  <2>1. 0..n \subseteq T
    BY <1>1, <1>3, <1>4, Upwards
  <2> QED
    BY <1>1, <2>1
<1>6. PICK g : Of(n, g)
  BY <1>5
<1>7. g = Body(g)
  BY <1>1, <1>6
<1>8. iter = Body(iter)
  BY <1>7, Zenon
<1> HIDE DEF iter
<1> DEFINE h == [i \in 0..n |-> iter[1..i]]
<1>9. h[0] = b
  <2>1. 1..0 = {} /\ {} \in SUBSET (1..n) /\ 0 \in 0..n
    BY <1>1
  <2>2. iter[{}] = b
    BY <1>1, <1>8, <2>1
  <2> QED
    BY <2>1, <2>2
<1>10. ASSUME NEW i \in 1..n PROVE h[i] = Over(files[i], h[i - 1])
  <2>1. 1..i \in SUBSET (1..n) /\ i \in 1..i /\ (1..i) \ {i} = 1..(i - 1) /\ i \in 0..n /\ i - 1 \in 0..n /\ i \in Nat
    BY <1>1
  <2>2. Max(1..i) = i /\ 1..i # {}
    BY <2>1, MaxIs
  <2>3. iter[1..i] = Over(files[i], iter[1..(i - 1)])
    BY <1>1, <1>8, <2>1, <2>2
  <2>4. h[i] = iter[1..i] /\ h[i - 1] = iter[1..(i - 1)]
    BY <2>1
  <2> HIDE DEF h
  <2> QED
    BY <2>3, <2>4
<1>11. AllDefaults(files) = h[n]
  BY <1>1, <1>2
<1> HIDE DEF h
<1> QED
  BY <1>9, <1>10, <1>11 DEF n, b

-----------------------------------------------------------------------------
\* The last of the first n files that has a key.
LastWith(files, n, k, i) ==
    i \in 1..n /\ Has(files[i], k) /\ \A j \in 1..n : Has(files[j], k) => j <= i

\* The defaults of the first n files: every key that one of them has, with the value of
\* the last of them.
LastDefaults(files, n, all) ==
    /\ \A k : k \in DOMAIN all <=> \E i \in 1..n : Has(files[i], k)
    /\ \A k \in DOMAIN all : \E i : LastWith(files, n, k, i) /\ all[k] = files[i][k]

\* One more file.
LEMMA LastDefaultsNext ==
    ASSUME NEW files, NEW n \in Nat, NEW all, LastDefaults(files, n, all)
    PROVE  LastDefaults(files, n + 1, Over(files[n + 1], all))
<1> DEFINE file == files[n + 1]
           new == Over(file, all)
<1>1. n + 1 \in 1..(n + 1) /\ \A i : i \in 1..(n + 1) <=> i \in 1..n \/ i = n + 1
  OBVIOUS
<1>2. /\ DOMAIN new = DOMAIN file \cup DOMAIN all
      /\ \A k \in DOMAIN file : new[k] = file[k]
      /\ \A k \in DOMAIN all \ DOMAIN file : new[k] = all[k]
  BY DEF Over, Has
<1> HIDE DEF new
<1>3. ASSUME NEW k PROVE k \in DOMAIN new <=> \E i \in 1..(n + 1) : Has(files[i], k)
  <2>1. k \in DOMAIN all <=> \E i \in 1..n : Has(files[i], k)
    BY Zenon DEF LastDefaults
  <2> QED
    BY <1>1, <1>2, <2>1, Zenon DEF Has
<1>4. ASSUME NEW k \in DOMAIN new PROVE \E i : LastWith(files, n + 1, k, i) /\ new[k] = files[i][k]
  <2>1. CASE k \in DOMAIN file
    <3>1. \A j \in 1..(n + 1) : j <= n + 1
      OBVIOUS
    <3>2. LastWith(files, n + 1, k, n + 1)
      BY <1>1, <2>1, <3>1, Zenon DEF LastWith, Has
    <3> QED
      BY <1>2, <2>1, <3>2, Zenon
  <2>2. CASE k \notin DOMAIN file
    <3>1. k \in DOMAIN all /\ new[k] = all[k]
      BY <1>2, <2>2
    <3>2. PICK i : LastWith(files, n, k, i) /\ all[k] = files[i][k]
      BY <3>1, Zenon DEF LastDefaults
    <3>3. LastWith(files, n + 1, k, i)
      BY <1>1, <2>2, <3>2, Zenon DEF LastWith, Has
    <3> QED
      BY <3>1, <3>2, <3>3, Zenon
  <2> QED
    BY <2>1, <2>2
<1>5. LastDefaults(files, n + 1, new)
  BY <1>3, <1>4, Zenon DEF LastDefaults
<1> QED
  BY <1>5 DEF new

\* All files.
LEMMA DefaultsOfAll ==
    ASSUME NEW X, NEW files \in Seq(X)
    PROVE  LastDefaults(files, Len(files), AllDefaults(files))
<1> DEFINE n == Len(files)
<1>1. n \in Nat
  OBVIOUS
<1>2. PICK h : /\ h[0] = NoItems
               /\ \A i \in 1..n : h[i] = Over(files[i], h[i - 1])
               /\ AllDefaults(files) = h[n]
  BY DefaultSteps
<1> HIDE DEF n
<1> DEFINE T == {i \in 0..n : LastDefaults(files, i, h[i])}
<1>3. 0 \in T
  <2>1. DOMAIN h[0] = {} /\ 0 \in 0..n /\ 1..0 = {}
    BY <1>1, <1>2 DEF NoItems
  <2> QED
    BY <2>1 DEF LastDefaults
<1>4. ASSUME NEW i \in 0..(n - 1), i \in T PROVE i + 1 \in T
  <2>1. i \in Nat /\ i + 1 \in 1..n /\ (i + 1) - 1 = i /\ i + 1 \in 0..n
    BY <1>1
  <2>2. h[i + 1] = Over(files[i + 1], h[i])
    BY <1>2, <2>1
  <2>3. LastDefaults(files, i + 1, h[i + 1])
    BY <1>4, <2>1, <2>2, LastDefaultsNext
  <2> QED
    BY <2>1, <2>3
<1>5. n \in T
  <2> HIDE DEF T
  <2>1. 0..n \subseteq T
    BY <1>1, <1>3, <1>4, Upwards
  <2> QED
    BY <1>1, <2>1
<1> QED
  BY <1>2, <1>5 DEF n

\* A pool's own value wins over the cluster's, that over the default of the last source
\* that has one, and nothing is rendered if a value cannot be decrypted: for any
\* number of sources with any keys (updateDefaults, decryptConfigItems,
\* propagateConfigItemsToNodePools).
THEOREM ItemsAlwaysLayered ==
    ASSUME NEW X, NEW files \in Seq(X), NEW items, NEW poolItems
    PROVE  ItemsLayered(items, poolItems, files)
<1> DEFINE n == Len(files)
           defaults == AllDefaults(files)
           all == updateDefaults(items, files)
           having(k) == {i \in DOMAIN files : Has(files[i], k)}
           raw(k) == IF Has(items, k) THEN items[k] ELSE files[CHOOSE i \in having(k) : \A j \in having(k) : j <= i][k]
           keys == DOMAIN items \cup UNION {DOMAIN files[i] : i \in DOMAIN files}
           r == applyDefaultsToManifests(items, poolItems, files)
<1>1. n \in Nat /\ DOMAIN files = 1..n
  OBVIOUS
<1>2. LastDefaults(files, n, defaults)
  BY DefaultsOfAll
<1> HIDE DEF n, defaults
<1>3. /\ DOMAIN all = DOMAIN items \cup DOMAIN defaults
      /\ \A k \in DOMAIN items : all[k] = items[k]
      /\ \A k \in DOMAIN defaults \ DOMAIN items : all[k] = defaults[k]
  BY DEF updateDefaults, Over, Has, defaults
<1>4. DOMAIN all = keys
  <2>1. ASSUME NEW k PROVE k \in DOMAIN defaults <=> k \in UNION {DOMAIN files[i] : i \in DOMAIN files}
    <3>1. k \in DOMAIN defaults <=> \E i \in 1..n : Has(files[i], k)
      BY <1>2, Zenon DEF LastDefaults
    <3> QED
      BY <1>1, <3>1 DEF Has
  <2> QED
    BY <1>3, <2>1
<1>5. ASSUME NEW k \in keys PROVE all[k] = raw(k)
  <2>1. CASE Has(items, k)
    BY <1>3, <2>1 DEF Has
  <2>2. CASE ~Has(items, k)
    <3>1. k \in DOMAIN defaults /\ all[k] = defaults[k]
      BY <1>3, <1>4, <1>5, <2>2, Zenon DEF Has
    <3>2. PICK i : LastWith(files, n, k, i) /\ defaults[k] = files[i][k]
      BY <1>2, <3>1, Zenon DEF LastDefaults
    <3>3. i \in having(k) /\ \A j \in having(k) : j <= i
      BY <1>1, <3>2, Zenon DEF LastWith
    <3>4. \A j \in having(k) : j \in Nat
      BY <1>1
    <3> DEFINE last == CHOOSE j \in having(k) : \A m \in having(k) : m <= j
    <3>5. last \in having(k) /\ \A m \in having(k) : m <= last
      BY <3>3, Zenon
    <3> HIDE DEF last
    <3>6. last = i
      <4> HIDE DEF having
      <4> QED
        BY <3>3, <3>4, <3>5
    <3> QED
      BY <2>2, <3>1, <3>2, <3>6, Zenon DEF last
  <2> QED
    BY <2>1, <2>2
<1> HIDE DEF all, raw, keys
<1> DEFINE bad == \E k \in DOMAIN all : all[k][1] = "bad"
           plain == [k \in DOMAIN all |-> <<"plain", all[k][2]>>]
<1>6. r = IF bad THEN Fails ELSE Ok([cluster |-> plain, pool |-> Over(poolItems, plain)])
  BY DEF applyDefaultsToManifests, decryptConfigItems, propagateConfigItemsToNodePools, Ok, Fails, all
<1>7. bad <=> ~\A k \in keys : raw(k)[1] # "bad"
  BY <1>4, <1>5, Zenon
<1> HIDE DEF bad, r
<1>8. (r.ok <=> ~bad) /\ (r.ok => r.val.cluster = plain /\ r.val.pool = Over(poolItems, plain))
  BY <1>6 DEF Ok, Fails
<1>9. ASSUME NEW k \in keys \cup DOMAIN poolItems, r.ok
      PROVE  /\ k \in keys => r.val.cluster[k] = <<"plain", raw(k)[2]>>
             /\ r.val.pool[k] = IF Has(poolItems, k) THEN poolItems[k] ELSE <<"plain", raw(k)[2]>>
  <2>1. DOMAIN plain = keys /\ \A m \in keys : plain[m] = <<"plain", raw(m)[2]>>
    BY <1>4, <1>5
  <2> HIDE DEF plain
  <2>2. Over(poolItems, plain)[k] = IF Has(poolItems, k) THEN poolItems[k] ELSE plain[k]
    BY <1>9, <2>1 DEF Over
  <2>3. ~Has(poolItems, k) => k \in keys
    BY <1>9 DEF Has
  <2> QED
    BY <1>8, <1>9, <2>1, <2>2, <2>3, Zenon
<1>10. r.ok <=> \A k \in keys : raw(k)[1] # "bad"
  BY <1>7, <1>8, Zenon
<1> QED
  BY <1>9, <1>10, Zenon DEF ItemsLayered, r, raw, keys

\* What is recorded for a cluster is in its registry: for any items, and any calls that fail
\* or whose answers are lost (httpRegistry.UpdateConfigItems).
THEOREM ItemsAlwaysStored == ASSUME NEW X, NEW keys \in Seq(X), NEW answers PROVE ItemsStored(keys, answers)
<1> DEFINE sent == {i \in DOMAIN keys : \A j \in 1..(i - 1) : answers[j] = "ok"}
           r == UpdateConfigItems({}, keys, answers)
<1>1. r = [local |-> {} \cup {keys[i] : i \in {j \in sent : answers[j] = "ok"}},
           stored |-> {keys[i] : i \in {j \in sent : answers[j] # "failed"}},
           ok |-> \A i \in DOMAIN keys : answers[i] = "ok"]
  BY DEF UpdateConfigItems
<1>2. \A j \in sent : answers[j] = "ok" => answers[j] # "failed"
  OBVIOUS
<1>3. r.local \subseteq r.stored
  BY <1>1, <1>2
<1>4. ASSUME r.ok PROVE r.local = Range(keys)
  <2>1. \A i \in DOMAIN keys : answers[i] = "ok"
    BY <1>1, <1>4
  <2>2. \A i \in DOMAIN keys : i \in sent
    BY <2>1
  <2> QED
    BY <1>1, <2>1, <2>2 DEF Range
<1> QED
  BY <1>3, <1>4, Zenon DEF ItemsStored, r

-----------------------------------------------------------------------------
\* The subnets, one after the other.
LEMMA SubnetSteps ==
    ASSUME NEW tag, NEW X, NEW subnets \in Seq(X)
    PROVE  \E h : /\ h[0] = [az \in {} |-> 0]
                  /\ \A i \in 1..Len(subnets) : h[i] = AddSubnet(h[i - 1], subnets[i], tag)
                  /\ selectSubnetIDs(subnets, tag) = h[Len(subnets)]
<1> DEFINE n == Len(subnets)
           b == [az \in {} |-> 0]
           Body(f) == [s \in SUBSET (DOMAIN subnets) |-> IF s = {} THEN b ELSE AddSubnet(f[s \ {Max(s)}], subnets[Max(s)], tag)]
           iter == CHOOSE f : f = Body(f)
           Of(m, g) == /\ DOMAIN g = SUBSET (1..m) /\ g = [s \in SUBSET (1..m) |-> g[s]]
                       /\ \A s \in SUBSET (1..m) : g[s] = IF s = {} THEN b ELSE AddSubnet(g[s \ {Max(s)}], subnets[Max(s)], tag)
           T == {m \in 0..n : \E g : Of(m, g)}
<1>1. n \in Nat /\ DOMAIN subnets = 1..n
  OBVIOUS
<1>2. selectSubnetIDs(subnets, tag) = iter[1..n]
  BY <1>1, Zenon DEF selectSubnetIDs, FoldLeft, MapThenFoldSet
<1> HIDE DEF n, b
<1>3. 0 \in T
  <2> DEFINE g == [s \in SUBSET (1..0) |-> b]
  <2>1. g = [s \in SUBSET (1..0) |-> g[s]] /\ DOMAIN g = SUBSET (1..0)
    OBVIOUS
  <2>2. \A s \in SUBSET (1..0) : s = {} /\ g[s] = b
    OBVIOUS
  <2> HIDE DEF g
  <2>3. Of(0, g)
    BY <2>1, <2>2
  <2>4. 0 \in 0..n
    BY <1>1
  <2> HIDE DEF Of
  <2> QED
    BY <2>3, <2>4
<1>4. ASSUME NEW m \in 0..(n - 1), m \in T PROVE m + 1 \in T
  <2>1. PICK g : Of(m, g)
    BY <1>4
  <2> DEFINE k == m + 1
             h == [s \in SUBSET (1..k) |-> IF k \in s THEN AddSubnet(g[s \ {k}], subnets[k], tag) ELSE g[s]]
  <2>2. k \in 1..n /\ 1..k = 1..m \cup {k} /\ k \notin 1..m /\ k \in Nat
    BY <1>1
  <2> HIDE DEF k
  <2>3. ASSUME NEW s \in SUBSET (1..k)
        PROVE  h[s] = IF s = {} THEN b ELSE AddSubnet(h[s \ {Max(s)}], subnets[Max(s)], tag)
    <3>1. CASE k \in s
      <4>1. Max(s) = k
        BY <2>2, <3>1, MaxIs
      <4>2. h[s \ {k}] = g[s \ {k}] /\ h[s] = AddSubnet(g[s \ {k}], subnets[k], tag)
        BY <2>2, <3>1
      <4> HIDE DEF h
      <4> QED
        BY <2>2, <3>1, <4>1, <4>2
    <3>2. CASE k \notin s
      <4>1. s \in SUBSET (1..m) /\ h[s] = g[s]
        BY <2>2, <3>2
      <4>2. CASE s = {}
        BY <2>1, <4>1, <4>2
      <4>3. CASE s # {}
        <5>1. h[s \ {Max(s)}] = g[s \ {Max(s)}]
          BY <2>2, <4>1
        <5>2. g[s] = AddSubnet(g[s \ {Max(s)}], subnets[Max(s)], tag)
          BY <2>1, <4>1, <4>3
        <5> HIDE DEF h
        <5> QED
          BY <4>1, <4>3, <5>1, <5>2
      <4> QED
        BY <4>2, <4>3
    <3> QED
      BY <3>1, <3>2
  <2>4. h = [s \in SUBSET (1..k) |-> h[s]] /\ DOMAIN h = SUBSET (1..k)
    OBVIOUS
  <2> HIDE DEF h
  <2>5. Of(k, h)
    BY <2>3, <2>4
  <2> HIDE DEF Of
  <2>6. k \in T
    BY <1>1, <2>2, <2>5
  <2> QED
    BY <2>6 DEF k
<1>5. n \in T
  <2> HIDE DEF T
  <2>1. 0..n \subseteq T
    BY <1>1, <1>3, <1>4, Upwards
  <2> QED
    BY <1>1, <2>1
<1>6. PICK g : Of(n, g)
  BY <1>5
<1>7. g = Body(g)
  BY <1>1, <1>6
<1>8. iter = Body(iter)
  BY <1>7, Zenon
<1> HIDE DEF iter
<1> DEFINE h == [i \in 0..n |-> iter[1..i]]
<1>9. h[0] = b
  <2>1. 1..0 = {} /\ {} \in SUBSET (1..n) /\ 0 \in 0..n
    BY <1>1
  <2>2. iter[{}] = b
    BY <1>1, <1>8, <2>1
  <2> QED
    BY <2>1, <2>2
<1>10. ASSUME NEW i \in 1..n PROVE h[i] = AddSubnet(h[i - 1], subnets[i], tag)
  <2>1. 1..i \in SUBSET (1..n) /\ i \in 1..i /\ (1..i) \ {i} = 1..(i - 1) /\ i \in 0..n /\ i - 1 \in 0..n /\ i \in Nat
    BY <1>1
  <2>2. Max(1..i) = i /\ 1..i # {}
    BY <2>1, MaxIs
  <2>3. iter[1..i] = AddSubnet(iter[1..(i - 1)], subnets[i], tag)
    BY <1>1, <1>8, <2>1, <2>2
  <2>4. h[i] = iter[1..i] /\ h[i - 1] = iter[1..(i - 1)]
    BY <2>1
  <2> HIDE DEF h
  <2> QED
    BY <2>3, <2>4
<1>11. selectSubnetIDs(subnets, tag) = h[n]
  BY <1>1, <1>2
<1> HIDE DEF h
<1> QED
  BY <1>9, <1>10, <1>11 DEF n, b

-----------------------------------------------------------------------------
\* A subnet that is chosen rather than another one of its zone, in whatever order they come.
Preferred(s, other, tag) ==
    \/ tag \in s.tags /\ tag \notin other.tags
    \/ (tag \in s.tags <=> tag \in other.tags) /\ s.id <= other.id

\* The best of the first n subnets in a zone.
BestOf(subnets, n, tag, az, i) ==
    i \in 1..n /\ subnets[i].az = az /\ \A j \in 1..n : subnets[j].az = az => Preferred(subnets[i], subnets[j], tag)

\* Every zone of the first n subnets has its best one.
BestChosen(subnets, n, tag, info) ==
    /\ \A az : az \in DOMAIN info <=> \E i \in 1..n : subnets[i].az = az
    /\ \A az \in DOMAIN info : \E i : BestOf(subnets, n, tag, az, i) /\ info[az] = subnets[i]

\* Better chooses the preferred one.
LEMMA BetterPreferred ==
    ASSUME NEW s, NEW t, NEW tag, s.id \in Int, t.id \in Int
    PROVE  \/ Better(s, t, tag) = s /\ Preferred(s, t, tag)
           \/ Better(s, t, tag) = t /\ Preferred(t, s, tag)
<1>1. CASE tag \in s.tags /\ tag \notin t.tags
  BY <1>1 DEF Better, Preferred
<1>2. CASE tag \notin s.tags /\ tag \in t.tags
  BY <1>2 DEF Better, Preferred
<1>3. CASE (tag \in s.tags <=> tag \in t.tags) /\ s.id > t.id
  <2>1. t.id <= s.id
    BY <1>3
  <2> QED
    BY <1>3, <2>1 DEF Better, Preferred
<1>4. CASE (tag \in s.tags <=> tag \in t.tags) /\ ~(s.id > t.id)
  <2>1. s.id <= t.id
    BY <1>4
  <2> QED
    BY <1>4, <2>1 DEF Better, Preferred
<1> QED
  BY <1>1, <1>2, <1>3, <1>4

\* What is preferred to a preferred one is preferred.
LEMMA PreferredOver ==
    ASSUME NEW s, NEW t, NEW u, NEW tag, s.id \in Int, t.id \in Int, u.id \in Int,
           Preferred(s, t, tag), Preferred(t, u, tag)
    PROVE  Preferred(s, u, tag)
<1>1. s.id <= t.id /\ t.id <= u.id => s.id <= u.id
  OBVIOUS
<1> QED
  BY <1>1, Zenon DEF Preferred

\* One more subnet.
LEMMA BestNext ==
    ASSUME NEW tag, NEW subnets, NEW n \in Nat, \A i \in 1..(n + 1) : subnets[i].id \in Int,
           NEW info, info = [az \in DOMAIN info |-> info[az]], BestChosen(subnets, n, tag, info)
    PROVE  LET new == AddSubnet(info, subnets[n + 1], tag)
           IN  new = [az \in DOMAIN new |-> new[az]] /\ BestChosen(subnets, n + 1, tag, new)
<1> DEFINE s == subnets[n + 1]
           new == AddSubnet(info, s, tag)
<1>1. n + 1 \in 1..(n + 1) /\ \A i : i \in 1..(n + 1) <=> i \in 1..n \/ i = n + 1
  OBVIOUS
<1>2. /\ new = [az \in DOMAIN new |-> new[az]] /\ DOMAIN new = DOMAIN info \cup {s.az}
      /\ \A az \in DOMAIN info \ {s.az} : new[az] = info[az]
      /\ new[s.az] = IF s.az \in DOMAIN info THEN Better(info[s.az], s, tag) ELSE s
  <2>1. CASE s.az \in DOMAIN info
    BY <2>1 DEF AddSubnet
  <2>2. CASE s.az \notin DOMAIN info
    BY <2>2 DEF AddSubnet
  <2> QED
    BY <2>1, <2>2
<1>3. Preferred(s, s, tag)
  <2>1. s.id <= s.id
    BY <1>1
  <2> QED
    BY <2>1 DEF Preferred
<1>4. /\ \A az : az \in DOMAIN info <=> \E i \in 1..n : subnets[i].az = az
      /\ \A az \in DOMAIN info : \E i : BestOf(subnets, n, tag, az, i) /\ info[az] = subnets[i]
  BY Zenon DEF BestChosen
<1> HIDE DEF new
<1>5. ASSUME NEW az PROVE az \in DOMAIN new <=> \E i \in 1..(n + 1) : subnets[i].az = az
  <2>1. az \in DOMAIN new <=> az \in DOMAIN info \/ az = s.az
    BY <1>2
  <2> QED
    BY <1>1, <1>4, <2>1, Zenon
<1>6. ASSUME NEW az \in DOMAIN new PROVE \E i : BestOf(subnets, n + 1, tag, az, i) /\ new[az] = subnets[i]
  <2>1. CASE az # s.az
    <3>1. az \in DOMAIN info /\ new[az] = info[az]
      BY <1>2, <1>6, <2>1
    <3>2. PICK i : BestOf(subnets, n, tag, az, i) /\ info[az] = subnets[i]
      BY <1>4, <3>1
    <3>3. BestOf(subnets, n + 1, tag, az, i)
      BY <1>1, <2>1, <3>2, Zenon DEF BestOf
    <3> QED
      BY <3>1, <3>2, <3>3
  <2>2. CASE az = s.az /\ az \notin DOMAIN info
    <3>1. \A j \in 1..n : subnets[j].az # az
      BY <1>4, <2>2, Zenon
    <3>2. BestOf(subnets, n + 1, tag, az, n + 1)
      BY <1>1, <1>3, <2>2, <3>1, Zenon DEF BestOf
    <3>3. new[az] = s
      BY <1>2, <2>2
    <3> QED
      BY <3>2, <3>3
  <2>3. CASE az = s.az /\ az \in DOMAIN info
    <3>1. PICK i : BestOf(subnets, n, tag, az, i) /\ info[az] = subnets[i]
      BY <1>4, <2>3
    <3> DEFINE t == subnets[i]
    <3>2. i \in 1..n /\ t.az = az /\ \A j \in 1..n : subnets[j].az = az => Preferred(t, subnets[j], tag)
      BY <3>1, Zenon DEF BestOf
    <3>3. t.id \in Int /\ s.id \in Int
      BY <1>1, <3>2
    <3>4. Preferred(t, t, tag)
      BY <3>2
    <3>5. new[az] = Better(t, s, tag)
      BY <1>2, <2>3, <3>1
    <3>6. \/ Better(t, s, tag) = t /\ Preferred(t, s, tag)
          \/ Better(t, s, tag) = s /\ Preferred(s, t, tag)
      BY <3>3, BetterPreferred
    <3>7. CASE Better(t, s, tag) = t /\ Preferred(t, s, tag)
      <4>1. BestOf(subnets, n + 1, tag, az, i)
        BY <1>1, <3>2, <3>7, Zenon DEF BestOf
      <4> QED
        BY <3>5, <3>7, <4>1
    <3>8. CASE Better(t, s, tag) = s /\ Preferred(s, t, tag)
      <4>1. ASSUME NEW j \in 1..n, subnets[j].az = az PROVE Preferred(s, subnets[j], tag)
        <5>1. Preferred(t, subnets[j], tag) /\ subnets[j].id \in Int
          BY <1>1, <3>2, <4>1
        <5> QED
          BY <3>3, <3>8, <5>1, PreferredOver
      <4>2. BestOf(subnets, n + 1, tag, az, n + 1)
        BY <1>1, <1>3, <2>3, <4>1, Zenon DEF BestOf
      <4> QED
        BY <3>5, <3>8, <4>2
    <3> QED
      BY <3>6, <3>7, <3>8
  <2> QED
    BY <2>1, <2>2, <2>3
<1>7. BestChosen(subnets, n + 1, tag, new)
  BY <1>5, <1>6, Zenon DEF BestChosen
<1> QED
  BY <1>2, <1>7 DEF new

\* Every zone gets its tagged subnet with the smallest ID, or the one with the smallest
\* ID if none is tagged, for any number of subnets in whatever order AWS lists
\* them (selectSubnetIDs).
THEOREM SubnetsAlwaysBest ==
    ASSUME NEW tag, NEW X, \A s \in X : s.id \in Int, NEW subnets \in Seq(X)
    PROVE  BestChosen(subnets, Len(subnets), tag, selectSubnetIDs(subnets, tag))
<1> DEFINE n == Len(subnets)
<1>1. n \in Nat
  OBVIOUS
<1>2. \A i \in 1..n : subnets[i].id \in Int
  OBVIOUS
<1>3. PICK h : /\ h[0] = [az \in {} |-> 0]
               /\ \A i \in 1..n : h[i] = AddSubnet(h[i - 1], subnets[i], tag)
               /\ selectSubnetIDs(subnets, tag) = h[n]
  BY SubnetSteps
<1> HIDE DEF n
<1> DEFINE T == {i \in 0..n : h[i] = [az \in DOMAIN h[i] |-> h[i][az]] /\ BestChosen(subnets, i, tag, h[i])}
<1>4. 0 \in T
  <2>1. h[0] = [az \in DOMAIN h[0] |-> h[0][az]] /\ DOMAIN h[0] = {} /\ 0 \in 0..n /\ 1..0 = {}
    BY <1>1, <1>3
  <2> QED
    BY <2>1 DEF BestChosen
<1>5. ASSUME NEW i \in 0..(n - 1), i \in T PROVE i + 1 \in T
  <2>1. i \in Nat /\ i + 1 \in 1..n /\ (i + 1) - 1 = i /\ i + 1 \in 0..n
    BY <1>1
  <2>2. h[i + 1] = AddSubnet(h[i], subnets[i + 1], tag)
    BY <1>3, <2>1
  <2>3. \A j \in 1..(i + 1) : subnets[j].id \in Int
    BY <1>1, <1>2, <2>1
  <2>4. h[i] = [az \in DOMAIN h[i] |-> h[i][az]] /\ BestChosen(subnets, i, tag, h[i])
    BY <1>5
  <2>5. h[i + 1] = [az \in DOMAIN h[i + 1] |-> h[i + 1][az]] /\ BestChosen(subnets, i + 1, tag, h[i + 1])
    BY <2>1, <2>2, <2>3, <2>4, BestNext
  <2> QED
    BY <2>1, <2>5
<1>6. n \in T
  <2> HIDE DEF T
  <2>1. 0..n \subseteq T
    BY <1>1, <1>4, <1>5, Upwards
  <2> QED
    BY <1>1, <2>1
<1> QED
  BY <1>3, <1>6 DEF n

-----------------------------------------------------------------------------
\* Port ranges as they may be configured: any fields and ports, with a protocol and a
\* CIDR that may not be understood.
AnyRanges ==
    [fields : Nat, protocol : {"tcp", "udp", "icmp"}, cidr : [ok : {TRUE}, val : [ip : Nat, ones : 0..AddrBits]] \cup {Fails},
     ports : Seq(Int)]

\* The first and the last port of a range.
Ports16(from, to) == from \in 0..highestPossiblePort /\ to \in 0..highestPossiblePort /\ from <= to

GoodRange(r) ==
    /\ r.fields \in {2, 3} /\ (r.fields = 3 => r.protocol # "icmp") /\ r.cidr.ok
    /\ Len(r.ports) \in {1, 2} /\ Ports16(r.ports[1], r.ports[Len(r.ports)])

\* Two ports are accepted if they are a range of ports.
LEMMA PortsInRange ==
    ASSUME NEW ports \in Seq(Int)
    PROVE  /\ Len(ports) = 2 /\ Ports16(ports[1], ports[2]) => PortRange(ports) = Ok([from |-> ports[1], to |-> ports[2]])
           /\ ~(Len(ports) = 2 /\ Ports16(ports[1], ports[2])) => PortRange(ports) = Fails
<1> highestPossiblePort \in Int
  BY SMT DEF highestPossiblePort
<1>1. CASE Len(ports) = 2
  <2>1. ports[1] \in Int /\ ports[2] \in Int
    BY <1>1
  <2>2. CASE Ports16(ports[1], ports[2])
    <3>1. validPortRange(ports[1], ports[2])
      BY <2>1, <2>2 DEF validPortRange, Ports16
    <3>2. ports[1] # -1 /\ ports[2] # -1
      BY <2>1, <2>2 DEF Ports16
    <3> QED
      BY <1>1, <2>2, <3>1, <3>2 DEF PortRange
  <2>3. CASE ~Ports16(ports[1], ports[2])
    <3>1. ~validPortRange(ports[1], ports[2])
      BY <2>1, <2>3 DEF validPortRange, Ports16
    <3> QED
      BY <2>3, <3>1, Zenon DEF PortRange
  <2> QED
    BY <2>2, <2>3
<1>2. CASE Len(ports) # 2
  BY <1>2, Zenon DEF PortRange
<1> QED
  BY <1>1, <1>2

\* One range.
LEMMA RangeWhole ==
    ASSUME NEW r \in AnyRanges
    PROVE  /\ GoodRange(r) => SGIngressRange(r).ok /\ SGIngressRange(r).val.to = r.ports[Len(r.ports)]
           /\ ~GoodRange(r) => ~SGIngressRange(r).ok
<1> DEFINE both == IF Len(r.ports) = 1 THEN r.ports \o r.ports ELSE r.ports
           ports == PortRange(both)
           protocol == IF r.fields = 2 THEN "tcp" ELSE r.protocol
           fine == r.fields \in {2, 3} /\ protocol \in {"tcp", "udp"} /\ r.cidr.ok
           last == r.ports[Len(r.ports)]
           range == Len(r.ports) \in {1, 2} /\ Ports16(r.ports[1], last)
<1>1. r.ports \in Seq(Int) /\ r.protocol \in {"tcp", "udp", "icmp"} /\ r.fields \in Nat
  BY DEF AnyRanges
<1>2. SGIngressRange(r) =
          IF r.fields \in {2, 3} /\ protocol \in {"tcp", "udp"} /\ r.cidr.ok /\ ports.ok
          THEN Ok([cidr |-> Masked(r.cidr.val.ip, r.cidr.val.ones), from |-> ports.val.from,
                   to |-> ports.val.to, protocol |-> protocol])
          ELSE Fails
  BY Zenon DEF SGIngressRange
<1>3. GoodRange(r) <=> fine /\ range
  <2>1. r.fields \in {2, 3} => ((r.fields = 3 => r.protocol # "icmp") <=> protocol \in {"tcp", "udp"})
    BY <1>1
  <2> HIDE DEF protocol
  <2> QED
    BY <2>1, Zenon DEF GoodRange
<1>4. /\ range => ports.ok /\ ports.val.to = last
      /\ ~range => ~ports.ok
  <2>1. CASE Len(r.ports) = 1
    <3>1. both \in Seq(Int) /\ Len(both) = 2 /\ both[1] = r.ports[1] /\ both[2] = r.ports[1]
      <4> DEFINE one == r.ports
                 two == one \o one
      <4>1. /\ two \in Seq(Int) /\ Len(two) = Len(one) + Len(one)
            /\ \A i \in 1..(Len(one) + Len(one)) : two[i] = IF i <= Len(one) THEN one[i] ELSE one[i - Len(one)]
        BY <1>1, ConcatProperties
      <4>2. both = two
        BY <2>1
      <4> HIDE DEF both, two, one
      <4>3. Len(one) = 1
        BY <2>1 DEF one
      <4> QED
        BY <4>1, <4>2, <4>3 DEF one
    <3>2. last = r.ports[1]
      BY <2>1
    <3> HIDE DEF both, last
    <3>3. CASE Ports16(r.ports[1], r.ports[1])
      <4>1. PortRange(both) = Ok([from |-> both[1], to |-> both[2]])
        BY <3>1, <3>3, PortsInRange
      <4> QED
        BY <2>1, <3>1, <3>2, <3>3, <4>1 DEF Ok
    <3>4. CASE ~Ports16(r.ports[1], r.ports[1])
      <4>1. PortRange(both) = Fails
        BY <3>1, <3>4, PortsInRange
      <4> QED
        BY <3>2, <3>4, <4>1 DEF Fails
    <3> QED
      BY <3>3, <3>4
  <2>2. CASE Len(r.ports) = 2
    <3>1. both = r.ports /\ last = r.ports[2]
      BY <2>2
    <3> HIDE DEF both, last
    <3>2. CASE Ports16(r.ports[1], r.ports[2])
      <4>1. PortRange(both) = Ok([from |-> r.ports[1], to |-> r.ports[2]])
        BY <1>1, <2>2, <3>1, <3>2, PortsInRange
      <4> QED
        BY <2>2, <3>1, <3>2, <4>1 DEF Ok
    <3>3. CASE ~Ports16(r.ports[1], r.ports[2])
      <4>1. PortRange(both) = Fails
        BY <1>1, <3>1, <3>3, PortsInRange
      <4> QED
        BY <3>1, <3>3, <4>1 DEF Fails
    <3> QED
      BY <3>2, <3>3
  <2>3. CASE Len(r.ports) \notin {1, 2}
    <3>1. both = r.ports /\ Len(r.ports) # 2
      BY <2>3
    <3> HIDE DEF both
    <3>2. PortRange(both) = Fails
      BY <1>1, <3>1, PortsInRange
    <3> QED
      BY <2>3, <3>2 DEF Fails
  <2> QED
    BY <2>1, <2>2, <2>3
<1> HIDE DEF ports, protocol, range, last
<1>5. CASE fine /\ range
  <2>1. SGIngressRange(r) = Ok([cidr |-> Masked(r.cidr.val.ip, r.cidr.val.ones), from |-> ports.val.from,
                                to |-> ports.val.to, protocol |-> protocol])
    BY <1>2, <1>4, <1>5, Zenon
  <2>2. SGIngressRange(r).ok /\ SGIngressRange(r).val.to = ports.val.to
    BY <2>1 DEF Ok
  <2> QED
    BY <1>3, <1>4, <1>5, <2>2, Zenon DEF last
<1>6. CASE ~(fine /\ range)
  <2>1. SGIngressRange(r) = Fails
    BY <1>2, <1>4, <1>6, Zenon
  <2> QED
    BY <1>3, <1>6, <2>1 DEF Fails
<1> QED
  BY <1>5, <1>6

\* Either every range is returned with its ports or none is, and a range without its two
\* ports is refused: for any number of ranges with any fields (sgIngressRanges,
\* portRanges).
THEOREM RangesAlwaysWhole == ASSUME NEW ranges \in Seq(AnyRanges) PROVE RangesWhole(ranges)
<1> DEFINE result == sgIngressRanges(ranges)
           ports == [i \in DOMAIN ranges |-> ranges[i].ports]
           all == \A i \in DOMAIN ranges : SGIngressRange(ranges[i]).ok
           good(r) == /\ r.fields \in {2, 3} /\ (r.fields = 3 => r.protocol # "icmp") /\ r.cidr.ok
                      /\ Len(r.ports) \in {1, 2} /\ \A i \in DOMAIN r.ports : r.ports[i] \in 0..highestPossiblePort
                      /\ r.ports[1] <= Last(r.ports)
<1>1. \A i \in DOMAIN ranges : ranges[i] \in AnyRanges /\ ranges[i].ports \in Seq(Int)
  <2>1. \A i \in DOMAIN ranges : ranges[i] \in AnyRanges
    OBVIOUS
  <2>2. \A r \in AnyRanges : r.ports \in Seq(Int)
    BY DEF AnyRanges
  <2> QED
    BY <2>1, <2>2
<1>2. DOMAIN ranges = 1..Len(ranges) /\ Len(ranges) \in Nat
  OBVIOUS
<1>3. result = IF all THEN Ok([i \in DOMAIN ranges |-> SGIngressRange(ranges[i]).val]) ELSE Fails
  BY Zenon DEF sgIngressRanges, EachItem
<1>4. ASSUME NEW r, r.ports \in Seq(Int) PROVE good(r) <=> GoodRange(r)
  <2>1. Last(r.ports) = r.ports[Len(r.ports)]
    BY Zenon DEF Last
  <2>2. CASE Len(r.ports) = 1
    <3>1. DOMAIN r.ports = {1} /\ r.ports[1] \in Int
      BY <1>4, <2>2
    <3>2. Ports16(r.ports[1], r.ports[1]) <=> r.ports[1] \in 0..highestPossiblePort /\ r.ports[1] <= r.ports[1]
      BY <3>1 DEF Ports16
    <3>3. (\A i \in DOMAIN r.ports : r.ports[i] \in 0..highestPossiblePort) <=> r.ports[1] \in 0..highestPossiblePort
      BY <3>1
    <3> QED
      BY <2>1, <2>2, <3>2, <3>3, Zenon DEF GoodRange
  <2>3. CASE Len(r.ports) = 2
    <3>1. DOMAIN r.ports = {1, 2}
      BY <1>4, <2>3
    <3>2. (\A i \in DOMAIN r.ports : r.ports[i] \in 0..highestPossiblePort) <=> r.ports[1] \in 0..highestPossiblePort /\ r.ports[2] \in 0..highestPossiblePort
      BY <3>1
    <3> QED
      BY <2>1, <2>3, <3>2, Zenon DEF GoodRange, Ports16
  <2>4. CASE Len(r.ports) \notin {1, 2}
    BY <2>4, Zenon DEF GoodRange
  <2> QED
    BY <2>2, <2>3, <2>4
<1> HIDE DEF good
<1>5. ASSUME NEW i \in DOMAIN ranges
      PROVE  /\ SGIngressRange(ranges[i]).ok <=> good(ranges[i])
             /\ good(ranges[i]) => SGIngressRange(ranges[i]).val.to = Last(ranges[i].ports)
  <2>1. Last(ranges[i].ports) = ranges[i].ports[Len(ranges[i].ports)]
    BY Zenon DEF Last
  <2>2. good(ranges[i]) <=> GoodRange(ranges[i])
    BY <1>1, <1>4, <1>5
  <2>3. /\ GoodRange(ranges[i]) => SGIngressRange(ranges[i]).ok /\ SGIngressRange(ranges[i]).val.to = ranges[i].ports[Len(ranges[i].ports)]
        /\ ~GoodRange(ranges[i]) => ~SGIngressRange(ranges[i]).ok
    BY <1>1, <1>5, RangeWhole
  <2> QED
    BY <2>1, <2>2, <2>3, Zenon
<1>6. ASSUME all
      PROVE  (result.ok <=> \A i \in DOMAIN ranges : good(ranges[i]))
               /\ (result.ok => /\ Len(result.val) = Len(ranges)
                                /\ \A i \in DOMAIN ranges : result.val[i].to = Last(ranges[i].ports))
  <2> HIDE DEF all
  <2>1. /\ result.ok /\ Len(result.val) = Len(ranges)
        /\ \A i \in DOMAIN ranges : result.val[i] = SGIngressRange(ranges[i]).val
    <3>1. result = Ok([i \in DOMAIN ranges |-> SGIngressRange(ranges[i]).val])
      BY <1>3, <1>6, Zenon DEF all
    <3> HIDE DEF result
    <3> QED
      BY <1>2, <3>1 DEF Ok
  <2> HIDE DEF result
  <2> QED
    BY <1>5, <1>6, <2>1, Zenon DEF all
<1>7. ASSUME ~all
      PROVE  (result.ok <=> \A i \in DOMAIN ranges : good(ranges[i]))
               /\ (result.ok => /\ Len(result.val) = Len(ranges)
                                /\ \A i \in DOMAIN ranges : result.val[i].to = Last(ranges[i].ports))
  <2>1. ~result.ok
    BY <1>3, <1>7 DEF Fails
  <2> HIDE DEF result
  <2> QED
    BY <1>5, <1>7, <2>1, Zenon
<1>8. ASSUME portRanges(ports).ok PROVE \A i \in DOMAIN ranges : Len(ranges[i].ports) = 2
  <2>1. DOMAIN ports = DOMAIN ranges /\ \A i \in DOMAIN ranges : ports[i] = ranges[i].ports
    OBVIOUS
  <2> HIDE DEF ports
  <2>2. portRanges(ports) = IF \A i \in DOMAIN ports : PortRange(ports[i]).ok
                            THEN Ok([i \in DOMAIN ports |-> PortRange(ports[i]).val]) ELSE Fails
    BY Zenon DEF portRanges, EachItem
  <2>3. ~Fails.ok
    BY DEF Fails
  <2>4. ASSUME NEW i \in DOMAIN ranges, Len(ranges[i].ports) # 2 PROVE FALSE
    <3>1. PortRange(ranges[i].ports) = Fails
      BY <1>1, <2>4, PortsInRange
    <3> QED
      BY <1>8, <2>1, <2>2, <2>3, <2>4, <3>1, Zenon
  <2> QED
    BY <2>4
<1> QED
  BY <1>6, <1>7, <1>8, Zenon DEF RangesWhole, good

-----------------------------------------------------------------------------
\* What the actions pick.
DeletionInputs == Clusters \X SomeDeletions
DocsInputs == {l \in Upto(Docs, 2) : \A i, j \in DOMAIN l : i # j => l[i].name # l[j].name}
              \X [1..2 -> {<<"ok">>, <<"down", "ok">>, <<"down", "down", "down", "ok">>}]
ApplyInputs == [valid : BOOLEAN, kind : {"Pod", "Stack"}, version : {"new"}]
               \X {"absent", "old"} \X [1..(MaxRetries + 2) -> {"ok", "down", "lost", "raced"}]
GroupInputs == Groups \X Groups
BalancerInputs == (SUBSET {GroupOf("p", 1), GroupOf("p", 2), GroupOf("q", 3)})
                  \X Upto(Partial({1, 2}, {"InService", "OutOfService"}), 3)
ClaimInputs == Hashes \X Hashes \X BOOLEAN \X BOOLEAN \X BOOLEAN
TerminationInputs == [1..4 -> {"pending", "running", "shutting-down", "terminated", "stopped", "unknown"}]
TypeInputs == {<<x, y>> : x \in {e \in EC2Types : e.type = "m"}, y \in {e \in EC2Types : e.type = "r"}}
              \X {<<"m">>, <<"m", "r">>, <<"r", "m">>}
TemplateInputs == Files \X {<<x, y, z>> : x, y, z \in {"a", "b", "c"}}
UploadInputs == Upto(
    [account : {1}, cluster : {1, 2}, master : BOOLEAN, files : NodeFiles, init : {1}, stack : {1}]
    \cup [account : {1}, cluster : {1}, master : {FALSE}, files : NodeFiles, init : {1, 2}, stack : {1, 2}], 3)
FileInputs == Upto(DeletionSources, 3)

\* A case has an input of its kind.
Known ==
    /\ case.kind = "deletion" => case.in \in DeletionInputs
    /\ case.kind = "apply" => case.in \in ApplyInputs
    /\ case.kind = "docs" => case.in \in DocsInputs
    /\ case.kind = "groups" => case.in \in GroupInputs
    /\ case.kind = "balancers" => case.in \in BalancerInputs
    /\ case.kind = "claims" => case.in \in ClaimInputs
    /\ case.kind = "termination" => case.in \in TerminationInputs
    /\ case.kind = "types" => case.in \in TypeInputs
    /\ case.kind = "templates" => case.in \in TemplateInputs
    /\ case.kind = "uploads" => case.in \in UploadInputs
    /\ case.kind = "deletionFiles" => case.in \in FileInputs

\* An action picks an input of its kind.
LEMMA Picked ==
    ASSUME NEW kind, NEW inputs, Pick(kind, inputs)
    PROVE  case'.kind = kind /\ case'.in \in inputs
BY DEF Pick

\* No step gives a case another input.
LEMMA Keeps ==
    ASSUME Known, [Next]_case
    PROVE  Known'
<1> USE DEF Known
<1>1. ASSUME NEW kind, NEW inputs, Pick(kind, inputs),
             kind = "deletion" => inputs = DeletionInputs,
             kind = "apply" => inputs = ApplyInputs,
             kind = "docs" => inputs = DocsInputs,
             kind = "groups" => inputs = GroupInputs,
             kind = "balancers" => inputs = BalancerInputs,
             kind = "claims" => inputs = ClaimInputs,
             kind = "termination" => inputs = TerminationInputs,
             kind = "types" => inputs = TypeInputs,
             kind = "templates" => inputs = TemplateInputs,
             kind = "uploads" => inputs = UploadInputs,
             kind = "deletionFiles" => inputs = FileInputs
      PROVE  Known'
  BY <1>1, Picked
<1>2. CASE UNCHANGED case
  BY <1>2
<1>3. CASE PickDeletion
  BY <1>1, <1>3 DEF PickDeletion, DeletionInputs
<1>4. CASE PickApply
  BY <1>1, <1>4 DEF PickApply, ApplyInputs
<1>5. CASE PickDocs
  BY <1>1, <1>5 DEF PickDocs, DocsInputs
<1>6. CASE PickNetwork
  BY <1>1, <1>6 DEF PickNetwork
<1>7. CASE PickRanges
  BY <1>1, <1>7 DEF PickRanges
<1>8. CASE PickSubnets
  BY <1>1, <1>8 DEF PickSubnets
<1>9. CASE PickPercent
  BY <1>1, <1>9 DEF PickPercent
<1>10. CASE PickTemplates
  BY <1>1, <1>10 DEF PickTemplates, TemplateInputs
<1>11. CASE PickUploads
  BY <1>1, <1>11 DEF PickUploads, UploadInputs
<1>12. CASE PickDeletionFiles
  BY <1>1, <1>12 DEF PickDeletionFiles, FileInputs
<1>13. CASE PickCluster
  BY <1>1, <1>13 DEF PickCluster
<1>14. CASE PickRegistry
  BY <1>1, <1>14 DEF PickRegistry
<1>15. CASE PickFile
  BY <1>1, <1>15 DEF PickFile
<1>16. CASE PickAnswers
  BY <1>1, <1>16 DEF PickAnswers
<1>17. CASE PickItems
  BY <1>1, <1>17 DEF PickItems
<1>18. CASE PickPools
  BY <1>1, <1>18 DEF PickPools
<1>19. CASE PickCommand
  BY <1>1, <1>19 DEF PickCommand
<1>20. CASE PickUpdater
  BY <1>1, <1>20 DEF PickUpdater
<1>21. CASE PickAccount
  BY <1>1, <1>21 DEF PickAccount
<1>22. CASE PickOpen
  BY <1>1, <1>22 DEF PickOpen
<1>23. CASE PickTermination
  BY <1>1, <1>23 DEF PickTermination, TerminationInputs
<1>24. CASE PickTree
  BY <1>1, <1>24 DEF PickTree
<1>25. CASE PickConfigs
  BY <1>1, <1>25 DEF PickConfigs
<1>26. CASE PickGroups
  BY <1>1, <1>26 DEF PickGroups, GroupInputs
<1>27. CASE PickBalancers
  BY <1>1, <1>27 DEF PickBalancers, BalancerInputs
<1>28. CASE PickClasses
  BY <1>1, <1>28 DEF PickClasses
<1>29. CASE PickClaims
  BY <1>1, <1>29 DEF PickClaims, ClaimInputs
<1>30. CASE PickTypes
  BY <1>1, <1>30 DEF PickTypes, TypeInputs
<1> QED
  BY <1>2, <1>3, <1>4, <1>5, <1>6, <1>7, <1>8, <1>9, <1>10, <1>11, <1>12, <1>13, <1>14, <1>15, <1>16, 
     <1>17, <1>18, <1>19, <1>20, <1>21, <1>22, <1>23, <1>24, <1>25, <1>26, <1>27, <1>28, <1>29, <1>30 DEF Next

-----------------------------------------------------------------------------
\* A cluster of these inputs has unique keys, namespaces and kinds.
LEMMA ClustersFormed ==
    ASSUME NEW c \in Clusters
    PROVE  /\ \E of : c \in Worlds(of)
           /\ Formed(c) /\ IsFiniteSet(c.objs)
<1> DEFINE of == [kinds |-> {"Namespace", "CRD", "Pod", "Stack"}, spaces |-> {"", "kube-system", "x"},
                  names |-> {"kube-system", "x", "Stack", "a", "b"}]
<1>1. PICK S \in SUBSET Objects, k \in {{}, {"Namespace", "CRD", "Pod", "Stack"}} :
         /\ c = [objs |-> S, kinds |-> Kinds(S), known |-> k]
         /\ \A o \in S : o.kind \in Kinds(S) /\ (o.ns = "" \/ \E n \in S : n.kind = "Namespace" /\ n.name = o.ns)
  <2>1. PICK S \in Stored, k \in {{}, {"Namespace", "CRD", "Pod", "Stack"}} :
            c = [objs |-> S, kinds |-> Kinds(S), known |-> k]
    BY DEF Clusters
  <2>2. S \in SUBSET Objects /\ \A o \in S : o.kind \in Kinds(S) /\ (o.ns = "" \/ \E n \in S : n.kind = "Namespace" /\ n.name = o.ns)
    BY DEF Stored
  <2> QED
    BY <2>1, <2>2, Zenon
<1>2. ASSUME NEW o \in Objects
      PROVE  /\ o \in Objs(of)
             /\ o.kind \in {"Namespace", "CRD"} => o.ns = ""
             /\ o.kind = "Namespace" => o.name # ""
             /\ o.kind = "CRD" => o.name = "Stack"
             /\ o.label <=> o.name \notin {"kube-system", "Stack"}
             /\ o.owned <=> o.kind = "Pod" /\ o.ns = "kube-system"
             /\ o.marked = FALSE
  <2>1. CASE o = Object("Namespace", "", "kube-system", FALSE, FALSE)
    BY <2>1 DEF Object, Objs
  <2>2. CASE o = Object("Namespace", "", "x", TRUE, FALSE)
    BY <2>2 DEF Object, Objs
  <2>3. CASE o = Object("CRD", "", "Stack", FALSE, FALSE)
    BY <2>3 DEF Object, Objs
  <2>4. CASE o = Object("Pod", "kube-system", "a", TRUE, TRUE)
    BY <2>4 DEF Object, Objs
  <2>5. CASE o = Object("Pod", "x", "a", TRUE, FALSE)
    BY <2>5 DEF Object, Objs
  <2>6. CASE o = Object("Stack", "x", "a", TRUE, FALSE)
    BY <2>6 DEF Object, Objs
  <2>7. CASE o = Object("Stack", "kube-system", "b", TRUE, FALSE)
    BY <2>7 DEF Object, Objs
  <2> QED
    BY <2>1, <2>2, <2>3, <2>4, <2>5, <2>6, <2>7 DEF Objects
<1>3. ASSUME NEW o \in Objects, NEW p \in Objects, Key(o) = Key(p) PROVE o = p
  <2>1. o.kind = p.kind /\ o.ns = p.ns /\ o.name = p.name
    BY <1>3, KeyFields
  <2>2. o \in Objs(of) /\ p \in Objs(of) /\ (o.label <=> p.label) /\ (o.owned <=> p.owned) /\ o.marked = p.marked
    BY <1>2, <2>1
  <2>3. o.label \in BOOLEAN /\ p.label \in BOOLEAN /\ o.owned \in BOOLEAN /\ p.owned \in BOOLEAN
    BY <2>2 DEF Objs
  <2>4. o.label = p.label /\ o.owned = p.owned
    BY <2>2, <2>3, Zenon
  <2>5. \A x \in Objs(of) : x = [kind |-> x.kind, ns |-> x.ns, name |-> x.name, label |-> x.label,
                               owned |-> x.owned, marked |-> x.marked]
    <3> HIDE DEF of
    <3> QED
      BY DEF Objs
  <2> HIDE DEF of
  <2> QED
    BY <2>1, <2>2, <2>4, <2>5
<1>4. Kinds(S) \subseteq of.kinds
  BY <1>2 DEF Kinds
<1>5. c \in Worlds(of)
  <2>1. S \subseteq Objs(of)
    BY <1>2
  <2> QED
    BY <1>1, <1>4, <2>1 DEF Worlds
<1>6. Formed(c)
  <2>1. Global \subseteq c.kinds
    BY <1>1 DEF Kinds, Global
  <2>2. "Stack" \notin Global
    BY DEF Global
  <2> QED
    <3>1. \A o \in Objects : o.kind \in Global => o.ns = ""
      BY <1>2 DEF Global
    <3>2. \A o \in S : o \in Objects
      OBVIOUS
    <3> QED
      BY <1>1, <1>2, <1>3, <2>1, <2>2, <3>1, <3>2 DEF Formed
<1>7. IsFiniteSet(Objects)
  <2> DEFINE F1 == {Object("Namespace", "", "kube-system", FALSE, FALSE), Object("Namespace", "", "x", TRUE, FALSE)}
             F2 == F1 \cup {Object("CRD", "", "Stack", FALSE, FALSE)}
             F3 == F2 \cup {Object("Pod", "kube-system", "a", TRUE, TRUE)}
             F4 == F3 \cup {Object("Pod", "x", "a", TRUE, FALSE)}
             F5 == F4 \cup {Object("Stack", "x", "a", TRUE, FALSE)}
             F6 == F5 \cup {Object("Stack", "kube-system", "b", TRUE, FALSE)}
  <2>0. F6 = Objects
    BY DEF Objects
  <2>1. IsFiniteSet({Object("Namespace", "", "kube-system", FALSE, FALSE)})
    BY FS_Singleton
  <2>2. IsFiniteSet({Object("Namespace", "", "kube-system", FALSE, FALSE)} \cup {Object("Namespace", "", "x", TRUE, FALSE)})
    BY <2>1, FS_AddElement
  <2>3. F1 = {Object("Namespace", "", "kube-system", FALSE, FALSE)} \cup {Object("Namespace", "", "x", TRUE, FALSE)}
    OBVIOUS
  <2>4. IsFiniteSet(F1)
    BY <2>2, <2>3
  <2> HIDE DEF F1
  <2>5. IsFiniteSet(F2)
    BY <2>4, FS_AddElement
  <2> HIDE DEF F2
  <2>6. IsFiniteSet(F3)
    BY <2>5, FS_AddElement
  <2> HIDE DEF F3
  <2>7. IsFiniteSet(F4)
    BY <2>6, FS_AddElement
  <2> HIDE DEF F4
  <2>8. IsFiniteSet(F5)
    BY <2>7, FS_AddElement
  <2> HIDE DEF F5
  <2>9. IsFiniteSet(F6)
    BY <2>8, FS_AddElement
  <2> QED
    BY <2>0, <2>9
<1>8. IsFiniteSet(S)
  BY <1>7, FS_Subset
<1> QED
  BY <1>1, <1>5, <1>6, <1>8

\* Each part holds of every input of its kind.
LEMMA KubernetesCaseRight == ASSUME Known PROVE KubernetesRight
<1>1. ASSUME case.kind = "deletion", NEW gone \in {{}} \cup {{o} : o \in case.in[1].objs}, NEW down \in {{}, {"a"}}
      PROVE  DeletesMatching(case.in[1], gone, down, case.in[2])
  <2> DEFINE c == case.in[1]
  <2>1. c \in Clusters
    BY <1>1 DEF Known, DeletionInputs
  <2>2. gone \in SUBSET c.objs
    OBVIOUS
  <2> HIDE DEF c
  <2>3. PICK of : c \in Worlds(of)
    BY <2>1, ClustersFormed
  <2>4. Formed(c) /\ IsFiniteSet(c.objs)
    BY <2>1, ClustersFormed
  <2>5. DeletesMatching(c, gone, down, case.in[2])
    BY <2>2, <2>3, <2>4, DeletionsMatch
  <2> QED
    BY <2>5 DEF c
<1>2. ASSUME case.kind = "apply"
      PROVE  AppliesOrFails([kinds |-> {"Pod"}, known |-> {}], case.in[1], case.in[2], case.in[3])
  <2>1. case.in[1].valid \in BOOLEAN
    BY <1>2 DEF Known, ApplyInputs
  <2>2. case.in[3] \in [1..(MaxRetries + 2) -> Answers]
    BY <1>2 DEF Known, ApplyInputs, Answers
  <2>3. MaxRetries + 2 \in Nat
    BY RetriesAssumption
  <2>4. case.in[3] \in Seq(Answers)
    BY <2>2, <2>3
  <2> QED
    BY <2>1, <2>4, AppliedOrFailed
<1>3. ASSUME case.kind = "docs"
      PROVE  FileApplied([kinds |-> {"Pod"}, known |-> {}], case.in[1], case.in[2])
  <2> DEFINE of == [kinds |-> {"Pod", "Stack"}, versions |-> {"new"}, apis |-> {"v1"}, names |-> {"", "a", "b"}, spaces |-> {"", "x"}]
  <2>1. /\ case.in[1] \in Upto(Docs, 2)
        /\ case.in[2] \in [1..2 -> {<<"ok">>, <<"down", "ok">>, <<"down", "down", "down", "ok">>}]
    BY <1>3 DEF Known, DocsInputs
  <2>2. Docs = Documents(of)
    BY DEF Docs, Documents
  <2> HIDE DEF of
  <2>3. case.in[1] \in Seq(Documents(of)) /\ Len(case.in[1]) \in 0..2
    <3>1. PICK k \in 0..2 : case.in[1] \in [1..k -> Docs]
      BY <2>1 DEF Upto
    <3>2. k \in Nat /\ k <= 2 /\ case.in[1] \in Seq(Docs) /\ Len(case.in[1]) = k
      BY <3>1
    <3> QED
      BY <2>2, <3>2
  <2>4. AnswersFor(case.in[1], case.in[2])
    <3>1. ASSUME NEW i \in 1..Len(case.in[1]) PROVE case.in[2][i] \in Seq(Answers)
      <4>1. case.in[2][i] \in {<<"ok">>, <<"down", "ok">>, <<"down", "down", "down", "ok">>}
        BY <2>1, <2>3
      <4>2. "ok" \in Answers /\ "down" \in Answers
        BY DEF Answers
      <4>3. \A a, b, c, d \in Answers : <<a>> \in Seq(Answers) /\ <<a, b>> \in Seq(Answers) /\ <<a, b, c, d>> \in Seq(Answers)
        OBVIOUS
      <4> QED
        BY <4>1, <4>2, <4>3
    <3> QED
      BY <3>1 DEF AnswersFor
  <2> QED
    BY <2>3, <2>4, FilesApplied
<1> QED
  BY <1>1, <1>2, <1>3 DEF KubernetesRight

\* Whatever input a behaviour picks, deletions and manifests are right for it.
THEOREM KubernetesAlwaysRight == Spec => []KubernetesRight
<1>1. Init => Known
  BY DEF Init, Known
<1>2. Known /\ [Next]_case => Known'
  BY Keeps
<1>3. Known => KubernetesRight
  BY KubernetesCaseRight
<1> QED
  BY <1>1, <1>2, <1>3, PTL DEF Spec

-----------------------------------------------------------------------------
\* A sequence of at most n elements is one.
LEMMA UptoSeq == ASSUME NEW S, NEW n \in Nat, NEW l \in Upto(S, n) PROVE l \in Seq(S) /\ Len(l) \in 0..n
<1>1. PICK k \in 0..n : l \in [1..k -> S]
  BY DEF Upto
<1>2. k \in Nat /\ l \in Seq(S) /\ Len(l) = k
  BY <1>1
<1> QED
  BY <1>2

\* The groups of these inputs have a launch template of a fixed version.
LEMMA GroupsLaunch ==
    ASSUME NEW g \in {GroupOf("p", 1), GroupOf("p", 2), GroupOf("q", 3)}
    PROVE  /\ g.tags \in [cluster : {"c", "p", "q"}, pool : {"c", "p", "q"}] /\ g.min = 2
           /\ asgLaunchParameters(g, NoTemplates).ok
<1>1. PICK p \in {"p", "q"}, i \in {1, 2, 3} : g = GroupOf(p, i)
  OBVIOUS
<1> DEFINE t == [cluster |-> "c", pool |-> p]
           v == [name |-> "t", version |-> "1"]
<1>2. /\ g.tags = t /\ g.min = 2 /\ g.mixed = TRUE /\ g.policy = v /\ g.onDemandBase = 0 /\ g.onDemandPercent = 0
  BY <1>1 DEF GroupOf
<1>3. t \in [cluster : {"c", "p", "q"}, pool : {"c", "p", "q"}] /\ v.version = "1"
  OBVIOUS
<1> HIDE DEF t, v
<1>4. asgLaunchParameters(g, NoTemplates) = Ok([template |-> v, types |-> g.overrides, spot |-> g.onDemandPercent = 0])
  BY <1>2, <1>3 DEF asgLaunchParameters
<1> QED
  BY <1>2, <1>3, <1>4 DEF Ok

\* The answers of EC2 in these inputs.
AnswersOf == [types |-> {"m", "r"}, archs |-> {{"x86_64"}, {"i386"}}]

\* They have at most one size of disks.
LEMMA TypesTold ==
    ASSUME NEW x \in EC2Types
    PROVE  x \in Told(AnswersOf) /\ Len(x.disks) <= 1
<1>1. PICK t \in {"m", "r"}, a \in {{"x86_64"}, {"i386"}}, v \in {2, 4},
           d \in {<<>>, <<[count |-> 1, size |-> 80]>>, <<[count |-> 2, size |-> 30]>>} :
        x = [type |-> t, archs |-> a, vcpu |-> v, memory |-> 3 * v, disks |-> d]
  BY DEF EC2Types
<1>2. d \in Seq([count : Nat, size : Nat]) /\ Len(d) <= 1
  <2> DEFINE R == [count : Nat, size : Nat]
             r == [count |-> 1, size |-> 80]
             q == [count |-> 2, size |-> 30]
  <2>1. r \in R /\ q \in R
    OBVIOUS
  <2>2. d = <<>> \/ d = <<r>> \/ d = <<q>>
    BY <1>1, Zenon
  <2> HIDE DEF R, r, q
  <2>3. CASE d = << >>
    BY <2>3
  <2>4. CASE d = <<r>>
    BY <2>1, <2>4
  <2>5. CASE d = <<q>>
    BY <2>1, <2>5
  <2> QED
    BY <2>2, <2>3, <2>4, <2>5
<1>3. a \in AnswersOf.archs /\ t \in AnswersOf.types
  BY <1>1 DEF AnswersOf
<1>4. v \in Nat /\ 3 * v \in Nat
  BY <1>1
<1> DEFINE n == 3 * v
           D == Seq([count : Nat, size : Nat])
<1>5. x = [type |-> t, archs |-> a, vcpu |-> v, memory |-> n, disks |-> d]
  BY <1>1, Zenon
<1>6. Told(AnswersOf) = [type : AnswersOf.types, archs : AnswersOf.archs, vcpu : Nat, memory : Nat, disks : D]
  BY Zenon DEF Told
<1>7. d \in D /\ n \in Nat
  BY <1>2, <1>4, Zenon
<1> HIDE DEF n, D
<1>8. x \in Told(AnswersOf)
  BY <1>3, <1>4, <1>5, <1>6, <1>7
<1>9. x.disks = d
  BY <1>5
<1> QED
  BY <1>2, <1>8, <1>9

\* Each part holds of every input of its kind.
LEMMA BackendsCaseRight == ASSUME Known PROVE BackendsRight
<1>1. ASSUME case.kind = "groups" PROVE OutdatedASG(case.in[1], case.in[2], Templates)
  <2> DEFINE of == [versions |-> Versions, types |-> {"m", "r"}, instances |-> {{}}]
  <2>1. of.versions = Versions /\ of.types = {"m", "r"} /\ of.instances = {{}}
    OBVIOUS
  <2>2. case.in[1] \in Groups /\ case.in[2] \in Groups
    BY <1>1 DEF Known, GroupInputs
  <2> HIDE DEF of
  <2>3. ASSUME NEW g \in Groups PROVE g \in GroupsOf(of)
    <3>1. CASE g \in [mixed : {TRUE}, policy : Versions, overrides : {{"m"}, {"m", "r"}}, onDemandBase : {0},
                       onDemandPercent : {0, 50, 100}, instances : {{}}]
      <4>1. {0, 50, 100} \subseteq 0..100 /\ {{"m"}, {"m", "r"}} \subseteq SUBSET {"m", "r"}
        OBVIOUS
      <4>2. 0 \in Nat
        OBVIOUS
      <4>3. g \in [mixed : {TRUE}, policy : of.versions, overrides : SUBSET of.types, onDemandBase : Nat,
                   onDemandPercent : 0..100, instances : of.instances]
        <5> DEFINE P == {0, 50, 100}
                   O == {{"m"}, {"m", "r"}}
                   Q == 0..100
        <5>1. P \subseteq Q /\ O \subseteq SUBSET of.types
          BY <2>1, <4>1
        <5>2. g \in [mixed : {TRUE}, policy : of.versions, overrides : O, onDemandBase : {0},
                     onDemandPercent : P, instances : of.instances]
          BY <2>1, <3>1, Zenon
        <5> HIDE DEF P, O, Q
        <5>3. g \in [mixed : {TRUE}, policy : of.versions, overrides : SUBSET of.types, onDemandBase : Nat,
                     onDemandPercent : Q, instances : of.instances]
          BY <4>2, <5>1, <5>2
        <5> QED
          BY <5>3, Zenon DEF Q
      <4> QED
        BY <4>3, Zenon DEF GroupsOf
    <3>2. CASE g \in [mixed : {FALSE}, template : Versions, instances : {{}}]
      BY <2>1, <3>2 DEF GroupsOf
    <3> QED
      BY <3>1, <3>2 DEF Groups
  <2> QED
    BY <2>2, <2>3, OutdatedByLaunch
<1>2. ASSUME case.kind = "balancers" PROVE NodesOfPool(case.in[1], case.in[2])
  <2> DEFINE G == {GroupOf("p", 1), GroupOf("p", 2), GroupOf("q", 3)}
             S == {"InService", "OutOfService"}
             Pools == {"c", "p", "q"}
  <2>1. case.in[1] \in SUBSET G /\ case.in[2] \in Upto(Partial({1, 2}, S), 3)
    BY <1>2 DEF Known, BalancerInputs
  <2>2. IsFiniteSet(G)
    <3>1. IsFiniteSet({GroupOf("p", 1)})
      BY FS_Singleton
    <3>2. IsFiniteSet({GroupOf("p", 1)} \cup {GroupOf("p", 2)})
      BY <3>1, FS_AddElement
    <3>3. IsFiniteSet({GroupOf("p", 1)} \cup {GroupOf("p", 2)} \cup {GroupOf("q", 3)})
      BY <3>2, FS_AddElement
    <3>4. G = {GroupOf("p", 1)} \cup {GroupOf("p", 2)} \cup {GroupOf("q", 3)}
      OBVIOUS
    <3> QED
      BY <3>3, <3>4
  <2>3. \A g \in G : /\ g.tags \in [cluster : Pools, pool : Pools] /\ g.min = 2
                     /\ asgLaunchParameters(g, NoTemplates).ok
    BY GroupsLaunch
  <2>4. case.in[2] \in Seq(Partial({1, 2}, S))
    BY <2>1, UptoSeq
  <2> HIDE DEF G, S, Pools
  <2>5. IsFiniteSet(case.in[1])
    BY <2>1, <2>2, FS_Subset
  <2> QED
    BY <2>1, <2>3, <2>4, <2>5, NodesOfAllGroups
<1>3. OutdatedEC2(case.in[1], case.in[2])
  BY OutdatedByClass
<1>4. ASSUME case.kind = "claims" PROVE OutdatedClaims(case.in[1], case.in[2], case.in[3], case.in[4], case.in[5])
  <2> DEFINE X == {"1", "2"}
  <2>1. /\ case.in[1] \in Hashes /\ case.in[2] \in Hashes
        /\ case.in[3] \in BOOLEAN /\ case.in[4] \in BOOLEAN /\ case.in[5] \in BOOLEAN
    BY <1>4 DEF Known, ClaimInputs
  <2>2. Hashes \subseteq HashesOf(X)
    <3>1. X \ {""} = X
      OBVIOUS
    <3> QED
      BY <3>1, Zenon DEF Hashes, HashesOf
  <2> HIDE DEF X
  <2>3. case.in[1] \in HashesOf(X) /\ case.in[2] \in HashesOf(X)
    BY <2>1, <2>2
  <2> QED
    BY <2>1, <2>3, OutdatedByClaim
<1>5. ASSUME case.kind = "termination" PROVE Terminated(case.in)
  <2> DEFINE X == {"pending", "running", "shutting-down", "terminated", "stopped", "unknown"}
  <2>1. case.in \in [1..4 -> X] /\ "running" \in X
    BY <1>5 DEF Known, TerminationInputs
  <2> HIDE DEF X
  <2>2. 4 \in Nat /\ 4 # 0
    OBVIOUS
  <2>3. ASSUME NEW l, l \in [1..4 -> X] PROVE l \in Seq(X) /\ l # << >>
    <3>1. \A n \in Nat : l \in [1..n -> X] => l \in Seq(X) /\ Len(l) = n
      OBVIOUS
    <3>2. Len(<< >>) = 0
      OBVIOUS
    <3> QED
      BY <2>2, <2>3, <3>1, <3>2, Zenon
  <2> QED
    BY <2>1, <2>3, TerminatedEnds
<1>6. ASSUME case.kind = "types" PROVE CommonToAll(NewInstanceTypesFromAWS(case.in[1]).val, case.in[2])
  <2> DEFINE answers == case.in[1]
             list == case.in[2]
  <2>1. /\ answers \in {<<x, y>> : x \in {e \in EC2Types : e.type = "m"}, y \in {e \in EC2Types : e.type = "r"}}
        /\ list \in {<<"m">>, <<"m", "r">>, <<"r", "m">>}
    BY <1>6 DEF Known, TypeInputs
  <2>2. list \in Seq({"m", "r"})
    <3>3. list \in {<<"m">>, <<"m", "r">>, <<"r", "m">>}
      BY <2>1
    <3> HIDE DEF list
    <3>4. list = <<"m">> \/ list = <<"m", "r">> \/ list = <<"r", "m">>
      BY <3>3
    <3>5. ASSUME NEW X, NEW a \in X, NEW b \in X PROVE <<a>> \in Seq(X) /\ <<a, b>> \in Seq(X)
      OBVIOUS
    <3>6. "m" \in {"m", "r"} /\ "r" \in {"m", "r"}
      OBVIOUS
    <3>7. <<"m">> \in Seq({"m", "r"}) /\ <<"m", "r">> \in Seq({"m", "r"}) /\ <<"r", "m">> \in Seq({"m", "r"})
      BY <3>5, <3>6, Zenon
    <3> QED
      BY <3>4, <3>7, Zenon
  <2> HIDE DEF answers, list
  <2>3. PICK x \in EC2Types, y \in EC2Types : answers = <<x, y>>
    BY <2>1
  <2>4. answers \in Seq(Told(AnswersOf)) /\ DOMAIN answers = 1..2 /\ answers[1] = x /\ answers[2] = y
    BY <2>3, TypesTold
  <2>5. \A i \in DOMAIN answers : ~(Len(answers[i].disks) > 1)
    <3>1. \A z \in EC2Types : Len(z.disks) \in Nat /\ Len(z.disks) <= 1
      BY TypesTold DEF Told
    <3>2. \A i \in 1..2 : answers[i] \in EC2Types
      BY <2>4
    <3> QED
      BY <2>4, <3>1, <3>2
  <2>6. NewInstanceTypesFromAWS(answers).ok
    BY <2>5 DEF NewInstanceTypesFromAWS, Ok
  <2>7. \A t \in DOMAIN NewInstanceTypesFromAWS(answers).val : Sized(NewInstanceTypesFromAWS(answers).val[t])
    BY <2>4, <2>6, TypesSized
  <2>8. CommonToAll(NewInstanceTypesFromAWS(answers).val, list)
    BY <2>2, <2>7, SizesInCommon
  <2> QED
    BY <2>8 DEF answers, list
<1> QED
  BY <1>1, <1>2, <1>3, <1>4, <1>5, <1>6, Zenon DEF BackendsRight

\* Whatever input a behaviour picks, the nodes that are outdated and ready, the end of
\* an instance and the sizes of instance types are right for it.
THEOREM BackendsAlwaysRight == Spec => []BackendsRight
<1>1. Init => Known
  BY DEF Init, Known
<1>2. Known /\ [Next]_case => Known'
  BY Keeps
<1>3. Known => BackendsRight
  BY BackendsCaseRight
<1> QED
  BY <1>1, <1>2, <1>3, PTL DEF Spec

-----------------------------------------------------------------------------
\* Sequences of at most two elements.
LEMMA FewSeq == ASSUME NEW X, NEW a \in X, NEW b \in X PROVE <<>> \in Seq(X) /\ <<a>> \in Seq(X) /\ <<a, b>> \in Seq(X)
OBVIOUS

\* The files of these inputs are templates.
LEMMA FilesTyped == ASSUME NEW files \in Files PROVE AllTemplates(files, {"a", "b", "c", "d"})
<1> DEFINE X == {"a", "b", "c", "d"}
           D == {"a", "b", "c"}
           Y == Seq(X)
<1>1. HashLists \subseteq Y
  <2> DEFINE a == "a"
             b == "b"
             c == "c"
             d == "d"
  <2>1. a \in X /\ b \in X /\ c \in X /\ d \in X
    OBVIOUS
  <2>2. HashLists = {<<>>, <<a>>, <<b>>, <<c>>, <<d>>, <<b, c>>, <<c, b>>}
    BY Zenon DEF HashLists
  <2> HIDE DEF X, a, b, c, d
  <2>3. /\ <<>> \in Y /\ <<a>> \in Y /\ <<b>> \in Y /\ <<c>> \in Y /\ <<d>> \in Y
        /\ <<b, c>> \in Y /\ <<c, b>> \in Y
    BY <2>1, FewSeq
  <2> HIDE DEF Y
  <2> QED
    BY <2>2, <2>3, Zenon
<1>2. PICK h \in [D -> HashLists], n \in {-1, 0} :
         files = [f \in D |-> [hashes |-> h[f], objects |-> IF f = "b" THEN n ELSE 1]]
  BY DEF Files
<1> HIDE DEF D, Y
<1>3. ASSUME NEW f \in DOMAIN files PROVE files[f] \in [hashes : Y, objects : Int]
  <2>1. f \in D
    BY <1>2
  <2>2. h[f] \in Y
    BY <1>1, <1>2, <2>1
  <2> DEFINE k == IF f = "b" THEN n ELSE 1
  <2>3. k \in Int
    BY <1>2
  <2>4. files[f] = [hashes |-> h[f], objects |-> k]
    BY <1>2, <2>1
  <2> HIDE DEF k
  <2> QED
    BY <2>2, <2>3, <2>4
<1> QED
  BY <1>3, Zenon DEF AllTemplates, TemplatesOf, Y

\* The lists of deletions of these inputs.
LEMMA FilesOfDeletions == DeletionSources \subseteq DeletionFiles(Nat)
<1> DEFINE Y == Seq(Nat)
<1>1. DeletionLists \subseteq Y
  <2> DEFINE a == 1
             b == 2
  <2>1. a \in Nat /\ b \in Nat
    OBVIOUS
  <2>2. \A l \in DeletionLists : l = <<>> \/ l = <<a>> \/ l = <<b, a>>
    BY DEF DeletionLists
  <2> HIDE DEF a, b
  <2>3. <<>> \in Y /\ <<a>> \in Y /\ <<b, a>> \in Y
    BY <2>1, FewSeq
  <2> HIDE DEF Y
  <2> QED
    BY <2>2, <2>3
<1> HIDE DEF Y
<1>2. [preApply : DeletionLists, postApply : DeletionLists] \subseteq [preApply : Y, postApply : Y]
  BY <1>1
<1> DEFINE V == [preApply : DeletionLists, postApply : DeletionLists]
           W == [preApply : Y, postApply : Y]
<1>3. DeletionSources = {Fails} \cup {Ok(v) : v \in V}
  BY DEF DeletionSources
<1>4. DeletionFiles(Nat) = {Fails} \cup {Ok(v) : v \in W}
  BY DEF DeletionFiles, Y
<1>5. V \subseteq W
  BY <1>2
<1> HIDE DEF V, W
<1> QED
  BY <1>3, <1>4, <1>5

\* Each part holds of every input of its kind.
LEMMA RenderingCaseRight == ASSUME Known PROVE RenderingRight
<1>1. ASSUME case.kind = "templates"
      PROVE  HashesCurrent(case.in[1], case.in[2]) /\ AllRendered(case.in[1], case.in[2])
  <2> DEFINE D == {"a", "b", "c"}
             X == {"a", "b", "c", "d"}
  <2>1. case.in[1] \in Files /\ case.in[2] \in {<<x, y, z>> : x, y, z \in D}
    BY <1>1 DEF Known, TemplateInputs
  <2> HIDE DEF D
  <2>2. case.in[2] \in Seq(D)
    <3>1. PICK x \in D, y \in D, z \in D : case.in[2] = <<x, y, z>>
      BY <2>1
    <3> QED
      BY <3>1
  <2>3. AllTemplates(case.in[1], X)
    BY <2>1, FilesTyped
  <2> HIDE DEF X
  <2> QED
    BY <2>2, <2>3, HashesAlwaysCurrent, ComponentsAlwaysKept
<1>2. ASSUME case.kind = "uploads" PROVE UploadsReadable(case.in)
  <2> DEFINE S == [account : {1}, cluster : {1, 2}, master : BOOLEAN, files : NodeFiles, init : {1}, stack : {1}]
                  \cup [account : {1}, cluster : {1}, master : {FALSE}, files : NodeFiles, init : {1, 2}, stack : {1, 2}]
  <2>1. case.in \in Upto(S, 3)
    BY <1>2 DEF Known, UploadInputs
  <2> HIDE DEF S
  <2>2. case.in \in Seq(S)
    BY <2>1, UptoSeq
  <2> QED
    BY <2>2, UploadsAlwaysReadable
<1>3. ASSUME case.kind = "deletionFiles" PROVE DeletionsInOrder(case.in)
  <2> DEFINE S == DeletionSources
             Y == DeletionFiles(Nat)
  <2>1. case.in \in Upto(S, 3)
    BY <1>3 DEF Known, FileInputs
  <2>2. S \subseteq Y
    BY FilesOfDeletions
  <2> HIDE DEF S, Y
  <2>3. case.in \in Seq(S)
    BY <2>1, UptoSeq
  <2>4. case.in \in Seq(Y)
    BY <2>2, <2>3
  <2> QED
    BY <2>4, DeletionsKeepOrder DEF Y
<1> QED
  BY <1>1, <1>2, <1>3, Zenon DEF RenderingRight

\* Whatever input a behaviour picks, manifests have the hashes of the manifests that are
\* applied with them, nodes can read their files, and deletions keep their order.
THEOREM RenderingAlwaysRight == Spec => []RenderingRight
<1>1. Init => Known
  BY DEF Init, Known
<1>2. Known /\ [Next]_case => Known'
  BY Keeps
<1>3. Known => RenderingRight
  BY RenderingCaseRight
<1> QED
  BY <1>1, <1>2, <1>3, PTL DEF Spec
=============================================================================
