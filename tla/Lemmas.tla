------------------------------- MODULE Lemmas -------------------------------
(***************************************************************************)
(* Facts about sequences, sums and natural numbers that the proofs of      *)
(* several components need.                                                *)
(***************************************************************************)
EXTENDS Integers, SequencesExt, FiniteSetTheorems, WellFoundedInduction, TLAPS

-----------------------------------------------------------------------------
(* Sequences                                                               *)

\* What is under way is the same wherever one puts the parentheses.
LEMMA ConcatAssociates ==
    ASSUME NEW S, NEW a \in Seq(S), NEW b \in Seq(S), NEW c \in Seq(S)
    PROVE  (a \o b) \o c = a \o (b \o c)
OBVIOUS

\* Appending to the last part is appending to the whole.
LEMMA AppendToLast ==
    ASSUME NEW S, NEW a \in Seq(S), NEW b \in Seq(S), NEW x \in S
    PROVE  a \o Append(b, x) = Append(a \o b, x)
OBVIOUS

\* Putting sequences one behind the other, in whatever groups.
LEMMA ConcatenationGroups ==
    ASSUME NEW S, NEW a \in Seq(S), NEW b \in Seq(S), NEW c \in Seq(S)
    PROVE  (a \o (b \o c)) \o <<>> = (a \o b) \o c
OBVIOUS

\* Handing on the head of a sequence leaves what is under way as it is.
LEMMA HandOn ==
    ASSUME NEW S, NEW p \in Seq(S), NEW q \in Seq(S), q # <<>>
    PROVE  /\ Head(q) \in S /\ Tail(q) \in Seq(S) /\ Append(p, Head(q)) \in Seq(S)
           /\ Append(p, Head(q)) \o Tail(q) = p \o q
           /\ Len(Tail(q)) = Len(q) - 1 /\ Len(Append(p, Head(q))) = Len(p) + 1
OBVIOUS

\* A prefix, element by element.
LEMMA PrefixElements ==
    ASSUME NEW S, NEW a \in Seq(S), NEW b \in Seq(S)
    PROVE  IsPrefix(a, b) <=> /\ Len(a) <= Len(b)
                              /\ \A i \in 1 .. Len(a) : a[i] = b[i]
<1>1. ASSUME IsPrefix(a, b) PROVE Len(a) <= Len(b) /\ \A i \in 1 .. Len(a) : a[i] = b[i]
  <2>1. SUFFICES ASSUME NEW i \in 1 .. Len(a) PROVE a[i] = b[i]
    BY <1>1 DEF IsPrefix
  <2>2. SubSeq(a, 1, Len(a))[i] = a[i] /\ SubSeq(b, 1, Len(a))[i] = b[i]
    BY <1>1 DEF IsPrefix
  <2> QED
    BY <1>1, <2>2 DEF IsPrefix
<1>2. ASSUME Len(a) <= Len(b), \A i \in 1 .. Len(a) : a[i] = b[i] PROVE IsPrefix(a, b)
  BY <1>2 DEF IsPrefix
<1> QED
  BY <1>1, <1>2

\* What was a prefix stays one when more is written.
LEMMA PrefixOfAppend ==
    ASSUME NEW S, NEW a \in Seq(S), NEW b \in Seq(S), NEW x \in S, IsPrefix(a, b)
    PROVE  IsPrefix(a, Append(b, x))
<1>1. Len(a) <= Len(b) /\ \A i \in 1 .. Len(a) : a[i] = b[i]
  BY PrefixElements
<1>2. Append(b, x) \in Seq(S) /\ Len(Append(b, x)) = Len(b) + 1
  OBVIOUS
<1>3. \A i \in 1 .. Len(a) : a[i] = Append(b, x)[i]
  BY <1>1
<1>4. Len(a) <= Len(Append(b, x))
  BY <1>1, <1>2
<1> QED
  BY <1>2, <1>3, <1>4, PrefixElements

\* The beginning of a prefix is a prefix.
LEMMA PrefixOfPrefix ==
    ASSUME NEW S, NEW a \in Seq(S), NEW b \in Seq(S), NEW c \in Seq(S), IsPrefix(a \o b, c)
    PROVE  IsPrefix(a, c)
<1>1. /\ a \o b \in Seq(S) /\ Len(a \o b) = Len(a) + Len(b)
      /\ \A i \in 1 .. Len(a) : (a \o b)[i] = a[i]
  OBVIOUS
<1>2. Len(a \o b) <= Len(c) /\ \A i \in 1 .. Len(a \o b) : (a \o b)[i] = c[i]
  BY <1>1, PrefixElements, ZenonT(30)
<1>3. Len(a) <= Len(c)
  BY <1>1, <1>2
<1>4. \A i \in 1 .. Len(a) : a[i] = c[i]
  BY <1>1, <1>2
<1> QED
  BY <1>3, <1>4, PrefixElements

\* Every sequence begins any longer one.
LEMMA PrefixOfConcatenation ==
    ASSUME NEW S, NEW a \in Seq(S), NEW b \in Seq(S)
    PROVE  IsPrefix(a, a \o b)
<1>1. /\ a \o b \in Seq(S) /\ Len(a) <= Len(a \o b)
      /\ \A i \in 1 .. Len(a) : a[i] = (a \o b)[i]
  OBVIOUS
<1> QED
  BY <1>1, PrefixElements

\* The next element makes a prefix longer by one.
LEMMA PrefixGrows ==
    ASSUME NEW S, NEW a \in Seq(S), NEW b \in Seq(S), IsPrefix(a, b), Len(a) + 1 <= Len(b)
    PROVE  IsPrefix(Append(a, b[Len(a) + 1]), b)
<1>1. Len(a) <= Len(b) /\ \A i \in 1 .. Len(a) : a[i] = b[i]
  BY PrefixElements
<1> DEFINE c == Append(a, b[Len(a) + 1])
<1>2. c \in Seq(S) /\ Len(c) = Len(a) + 1
  OBVIOUS
<1>3. \A i \in 1 .. Len(c) : c[i] = b[i]
  BY <1>1, <1>2
<1> HIDE DEF c
<1>4. IsPrefix(c, b)
  BY <1>2, <1>3, PrefixElements
<1> QED
  BY <1>4 DEF c

-----------------------------------------------------------------------------
(* Natural numbers                                                         *)

\* A set of natural numbers has a least element.  Proofs by induction take the
\* least counterexample.
LEMMA LeastElement ==
    ASSUME NEW T \in SUBSET Nat, T # {}
    PROVE  \E x \in T : \A y \in T : x <= y
<1> DEFINE R == {ss \in Nat \X Nat : ss[1] < ss[2]}
<1>1. IsWellFoundedOn(R, Nat)
  BY NatLessThanWellFounded DEF OpToRel
<1>2. PICK x \in T : \A y \in T : ~ (<<y, x>> \in R)
  <2> HIDE DEF R
  <2> QED
    BY <1>1, WFMin
<1>3. ASSUME NEW y \in T PROVE x <= y
  <2>1. x \in Nat /\ y \in Nat
    OBVIOUS
  <2>2. y < x => <<y, x>> \in R
    BY <2>1
  <2> QED
    BY <1>2, <2>1, <2>2
<1> QED
  BY <1>3

\* A bounded set of natural numbers has a greatest element.
LEMMA GreatestElement ==
    ASSUME NEW N \in Nat, NEW T \in SUBSET (0 .. N), T # {}
    PROVE  \E x \in T : \A y \in T : x >= y
<1> DEFINE Below == {N - y : y \in T}
<1>1. Below \in SUBSET Nat /\ Below # {}
  <2>1. PICK y : y \in T
    OBVIOUS
  <2>2. N - y \in Below
    BY <2>1
  <2>3. \A z \in T : N - z \in Nat
    OBVIOUS
  <2> QED
    BY <2>2, <2>3
<1>2. PICK b \in Below : \A c \in Below : b <= c
  <2> HIDE DEF Below
  <2> QED
    BY <1>1, LeastElement
<1>3. PICK x \in T : b = N - x
  OBVIOUS
<1>4. \A y \in T : N - x <= N - y
  BY <1>2, <1>3
<1> QED
  BY <1>4

-----------------------------------------------------------------------------
(* Recursive functions                                                     *)

\* A recursion on D with values in V: the step for an element looks only at
\* elements of lower rank, and the rank is bounded by K.
IsRecursion(D, V, K, rank, step) ==
    /\ V # {} /\ K \in Nat
    /\ rank \in [D -> 0 .. K]
    /\ step \in [D -> [[D -> V] -> V]]
    /\ \A x \in D : \A g, h \in [D -> V] :
          (\A y \in D : rank[y] < rank[x] => g[y] = h[y]) => step[x][g] = step[x][h]

\* A recursion whose rank is bounded defines a function.  Each round of
\* approximation gets the elements of one more rank right.
LEMMA RecursionExists ==
    ASSUME NEW D, NEW V, NEW K, NEW rank, NEW step, IsRecursion(D, V, K, rank, step)
    PROVE  \E f \in [D -> V] : \A x \in D : f[x] = step[x][f]
<1> USE DEF IsRecursion
<1> DEFINE Right(g, n) == \A x \in D : rank[x] < n => g[x] = step[x][g]
           Missing == {n \in Nat : ~ \E g \in [D -> V] : Right(g, n)}
<1>r. \A x \in D : rank[x] \in Nat /\ rank[x] < K + 1
  OBVIOUS
<1>1. Missing = {}
  <2> SUFFICES ASSUME Missing # {} PROVE FALSE
    OBVIOUS
  <2>1. Missing \in SUBSET Nat
    OBVIOUS
  <2>2. PICK n \in Missing : \A k \in Missing : n <= k
    <3> HIDE DEF Missing
    <3> QED
      BY <2>1, LeastElement
  <2>3. n # 0
    <3>1. PICK v : v \in V
      OBVIOUS
    <3>2. [x \in D |-> v] \in [D -> V]
      BY <3>1
    <3>3. Right([x \in D |-> v], 0)
      BY <1>r
    <3> QED
      BY <3>2, <3>3
  <2>4. n - 1 \in Nat /\ n - 1 \notin Missing
    <3>1. n \in Nat /\ n - 1 \in Nat
      BY <2>3
    <3> HIDE DEF Missing
    <3> QED
      BY <2>2, <3>1
  <2>5. PICK g \in [D -> V] : Right(g, n - 1)
    BY <2>4
  <2> DEFINE h == [x \in D |-> step[x][g]]
  <2>6. h \in [D -> V]
    OBVIOUS
  <2>7. \A x \in D : rank[x] < n - 1 => h[x] = g[x]
    BY <2>5
  <2>8. ASSUME NEW x \in D, rank[x] < n PROVE h[x] = step[x][h]
    <3>1. \A y \in D : rank[y] < rank[x] => g[y] = h[y]
      BY <1>r, <2>7, <2>8, <2>4
    <3>2. h[x] = step[x][g]
      OBVIOUS
    <3> HIDE DEF h
    <3>3. step[x][g] = step[x][h]
      BY <2>6, <3>1
    <3> QED
      BY <3>2, <3>3
  <2> QED
    BY <2>6, <2>8
<1>2. PICK f \in [D -> V] : Right(f, K + 1)
  <2>1. K + 1 \in Nat
    OBVIOUS
  <2>2. K + 1 \notin Missing
    BY <1>1
  <2> QED
    BY <2>1, <2>2
<1> QED
  BY <1>2, <1>r

-----------------------------------------------------------------------------
(* Sums                                                                    *)

\* The numbers that one gets by adding the elements of q one after the other
\* end in their sum.
LEMMA SumOfSteps ==
    ASSUME NEW q \in Seq(Int), NEW h \in [0 .. Len(q) -> Int],
           \A i \in 1 .. Len(q) : h[i] = h[i - 1] + q[i]
    PROVE  h[0] + FoldLeft(LAMBDA sum, i : sum + i, 0, q) = h[Len(q)]
<1> DEFINE N == Len(q)
           D == SUBSET DOMAIN q
           Body(s, g) == IF s = {} THEN 0 ELSE g[s \ {Max(s)}] + q[Max(s)]
           IsFold(it) == it = [s \in D |-> Body(s, it)]
           rank == [s \in D |-> Cardinality(s)]
           step == [s \in D |-> [g \in [D -> Int] |-> Body(s, g)]]
<1>n. N \in Nat /\ DOMAIN q = 1 .. N
  OBVIOUS
<1>f. \A s \in D : IsFiniteSet(s) /\ Cardinality(s) \in 0 .. N
  <2>1. IsFiniteSet(DOMAIN q) /\ Cardinality(DOMAIN q) <= N
    BY <1>n, FS_Interval, SMTT(30)
  <2>2. ASSUME NEW s \in D PROVE IsFiniteSet(s) /\ Cardinality(s) \in 0 .. N
    <3>1. IsFiniteSet(s) /\ Cardinality(s) <= Cardinality(DOMAIN q)
      BY <2>1, FS_Subset
    <3>2. Cardinality(s) \in Nat /\ Cardinality(DOMAIN q) \in Nat
      BY <2>1, <3>1, FS_CardinalityType
    <3> QED
      BY <1>n, <2>1, <3>1, <3>2
  <2> QED
    BY <2>2
<1>m. ASSUME NEW s \in D, s # {}
      PROVE  Max(s) \in s /\ \A y \in s : Max(s) >= y
  <2>1. s \in SUBSET (0 .. N)
    BY <1>n
  <2>2. \E x \in s : \A y \in s : x >= y
    <3> HIDE DEF N, D
    <3> QED
      BY <1>n, <1>m, <2>1, GreatestElement
  <2> QED
    BY <2>2 DEF Max
<1>e. PICK it \in [D -> Int] : IsFold(it)
  <2>1. rank \in [D -> 0 .. N]
    BY <1>f
  <2>2. step \in [D -> [[D -> Int] -> Int]]
    <3>1. ASSUME NEW s \in D, NEW g \in [D -> Int] PROVE Body(s, g) \in Int
      <4>1. CASE s = {}
        BY <4>1
      <4>2. CASE s # {}
        <5>1. Max(s) \in DOMAIN q /\ s \ {Max(s)} \in D
          BY <1>m, <4>2
        <5>2. q[Max(s)] \in Int /\ g[s \ {Max(s)}] \in Int
          <6> HIDE DEF D
          <6> QED
            BY <5>1
        <5> QED
          BY <4>2, <5>2
      <4> QED
        BY <4>1, <4>2
    <3> QED
      BY <3>1
  <2>3. ASSUME NEW x \in D, NEW g \in [D -> Int], NEW k \in [D -> Int],
               \A y \in D : rank[y] < rank[x] => g[y] = k[y]
        PROVE  step[x][g] = step[x][k]
    <3>1. CASE x = {}
      BY <3>1
    <3>2. CASE x # {}
      <4> DEFINE y == x \ {Max(x)}
      <4>1. y \in D /\ Cardinality(y) = Cardinality(x) - 1
        BY <1>m, <1>f, <3>2, FS_RemoveElement
      <4>2. rank[y] < rank[x]
        <5>1. rank[y] = Cardinality(y) /\ rank[x] = Cardinality(x) /\ Cardinality(x) \in Int
          BY <1>f, <4>1
        <5> QED
          BY <4>1, <5>1
      <4>3. g[y] = k[y]
        BY <2>3, <4>1, <4>2
      <4> QED
        BY <3>2, <4>3
    <3> QED
      BY <3>1, <3>2
  <2>c. IsRecursion(D, Int, N, rank, step)
    <3> HIDE DEF D, rank, step, N
    <3>1. Int # {} /\ N \in Nat
      BY <1>n
    <3>2. \A x \in D : \A g, k \in [D -> Int] :
             (\A y \in D : rank[y] < rank[x] => g[y] = k[y]) => step[x][g] = step[x][k]
      BY <2>3, Zenon
    <3> QED
      BY <2>1, <2>2, <3>1, <3>2, Zenon DEF IsRecursion
  <2>4. PICK it \in [D -> Int] : \A s \in D : it[s] = step[s][it]
    <3> HIDE DEF D, rank, step, N
    <3> QED
      BY <2>c, RecursionExists
  <2>5. \A s \in D : it[s] = Body(s, it)
    BY <2>4
  <2>6. it = [s \in D |-> it[s]]
    OBVIOUS
  <2> QED
    BY <2>5, <2>6
<1> DEFINE fold == CHOOSE g : IsFold(g)
<1>1. FoldLeft(LAMBDA sum, i : sum + i, 0, q) = fold[DOMAIN q]
  BY DEF FoldLeft, MapThenFoldSet
<1>2. IsFold(fold)
  BY <1>e
<1> HIDE DEF fold
<1>3. fold[{}] = 0
  BY <1>2
<1>4. \A n \in 1 .. N : fold[1 .. n] = fold[1 .. n - 1] + q[n]
  <2> SUFFICES ASSUME NEW n \in 1 .. N PROVE fold[1 .. n] = fold[1 .. n - 1] + q[n]
    OBVIOUS
  <2>1. 1 .. n \in D /\ n \in 1 .. n
    BY <1>n
  <2>2. Max(1 .. n) = n
    <3>1. Max(1 .. n) \in 1 .. n /\ Max(1 .. n) >= n
      BY <1>m, <2>1
    <3> QED
      BY <3>1, <1>n
  <2>3. (1 .. n) \ {n} = 1 .. n - 1
    BY <1>n
  <2> QED
    BY <1>2, <2>1, <2>2, <2>3, ZenonT(30)
<1> DEFINE Sum(n) == fold[1 .. n]
           Wrong == {n \in 0 .. N : ~(Sum(n) \in Int /\ h[0] + Sum(n) = h[n])}
<1>5. Wrong = {}
  <2> SUFFICES ASSUME Wrong # {} PROVE FALSE
    OBVIOUS
  <2>1. Wrong \in SUBSET Nat
    BY <1>n
  <2>2. PICK n \in Wrong : \A k \in Wrong : n <= k
    <3> HIDE DEF Wrong
    <3> QED
      BY <2>1, LeastElement
  <2>3. n # 0
    <3>1. 1 .. 0 = {} /\ 0 \in 0 .. N
      BY <1>n
    <3>2. Sum(0) = 0 /\ h[0] \in Int
      BY <1>3, <3>1
    <3> QED
      BY <3>2
  <2>4. n \in 1 .. N /\ n - 1 \in 0 .. N /\ ~(n <= n - 1)
    BY <1>n, <2>3
  <2>5. Sum(n - 1) \in Int /\ h[0] + Sum(n - 1) = h[n - 1]
    BY <2>2, <2>4
  <2>6. Sum(n) = Sum(n - 1) + q[n] /\ q[n] \in Int
    BY <1>4, <2>4, SMTT(30)
  <2>7. h[n] = h[n - 1] + q[n] /\ h[0] \in Int
    BY <2>4
  <2>8. Sum(n) \in Int /\ h[0] + Sum(n) = h[n]
    <3> HIDE DEF Sum
    <3> QED
      BY <2>5, <2>6, <2>7, SMTT(30)
  <2> QED
    BY <2>8
<1>6. h[0] + Sum(N) = h[N]
  BY <1>5, <1>n
<1> QED
  BY <1>1, <1>6, <1>n

\* The sum of f over the finite set S, the way the community modules compute it.
SumOver(f, S) == MapThenSumSet(LAMBDA x : f[x], S)

\* The element the fold takes from a set first.
Pick(s) == CHOOSE x \in s : TRUE

\* One step of the fold: the element picked and the sum of the others.
SumStep(f, it, s) == IF s = {} THEN 0 ELSE f[Pick(s)] + it[s \ {Pick(s)}]

\* it holds the sums of f over all the subsets of S.
IsSumTable(f, S, it) == it = [s \in SUBSET S |-> SumStep(f, it, s)]

\* Taking the picked element from a set makes it smaller.
LEMMA PickSmaller ==
    ASSUME NEW s, IsFiniteSet(s), s # {}
    PROVE  /\ Pick(s) \in s /\ IsFiniteSet(s \ {Pick(s)})
           /\ Cardinality(s) \in Nat /\ Cardinality(s \ {Pick(s)}) \in Nat
           /\ Cardinality(s \ {Pick(s)}) < Cardinality(s)
<1>1. Pick(s) \in s
  BY DEF Pick
<1>2. IsFiniteSet(s \ {Pick(s)}) /\ Cardinality(s \ {Pick(s)}) = Cardinality(s) - 1
  BY <1>1, FS_RemoveElement
<1> QED
  BY <1>1, <1>2, FS_CardinalityType

\* There is such a table, so MapThenSumSet looks up the sum in one.
LEMMA SumTable ==
    ASSUME NEW S, IsFiniteSet(S), NEW f, \A x \in S : f[x] \in Nat
    PROVE  \E it : IsSumTable(f, S, it) /\ SumOver(f, S) = it[S]
<1> DEFINE D == SUBSET S
           N == Cardinality(S)
           rank == [s \in D |-> Cardinality(s)]
           step == [s \in D |-> [g \in [D -> Nat] |-> SumStep(f, g, s)]]
<1>n. N \in Nat /\ \A s \in D : IsFiniteSet(s) /\ Cardinality(s) \in 0 .. N
  <2>1. ASSUME NEW s \in D PROVE IsFiniteSet(s) /\ Cardinality(s) \in 0 .. N
    <3>1. IsFiniteSet(s) /\ Cardinality(s) <= N
      BY FS_Subset
    <3> QED
      BY <3>1, FS_CardinalityType
  <2> QED
    BY <2>1, FS_CardinalityType
<1>1. rank \in [D -> 0 .. N]
  BY <1>n
<1>2. step \in [D -> [[D -> Nat] -> Nat]]
  <2>1. ASSUME NEW s \in D, NEW g \in [D -> Nat] PROVE SumStep(f, g, s) \in Nat
    <3>1. CASE s = {}
      BY <3>1 DEF SumStep
    <3>2. CASE s # {}
      <4>1. Pick(s) \in S /\ s \ {Pick(s)} \in D
        BY <1>n, <3>2, PickSmaller
      <4>2. f[Pick(s)] \in Nat /\ g[s \ {Pick(s)}] \in Nat
        <5> HIDE DEF D
        <5> QED
          BY <4>1
      <4> QED
        BY <3>2, <4>2 DEF SumStep
    <3> QED
      BY <3>1, <3>2
  <2> QED
    BY <2>1
<1>3. ASSUME NEW x \in D, NEW g \in [D -> Nat], NEW h \in [D -> Nat],
             \A y \in D : rank[y] < rank[x] => g[y] = h[y]
      PROVE  step[x][g] = step[x][h]
  <2>1. CASE x = {}
    BY <2>1 DEF SumStep
  <2>2. CASE x # {}
    <3> DEFINE y == x \ {Pick(x)}
    <3>1. y \in D /\ Cardinality(y) < Cardinality(x)
      BY <1>n, <2>2, PickSmaller
    <3>2. g[y] = h[y]
      BY <1>3, <3>1
    <3> QED
      BY <2>2, <3>2 DEF SumStep
  <2> QED
    BY <2>1, <2>2
<1>4. IsRecursion(D, Nat, N, rank, step)
  <2> HIDE DEF D, rank, step, N
  <2>1. Nat # {} /\ N \in Nat
    BY <1>n
  <2>2. \A x \in D : \A g, h \in [D -> Nat] :
           (\A y \in D : rank[y] < rank[x] => g[y] = h[y]) => step[x][g] = step[x][h]
    BY <1>3, Zenon
  <2> QED
    BY <1>1, <1>2, <2>1, <2>2, Zenon DEF IsRecursion
<1>5. PICK it \in [D -> Nat] : \A s \in D : it[s] = step[s][it]
  <2> HIDE DEF D, rank, step, N
  <2> QED
    BY <1>4, RecursionExists
<1>6. \A s \in D : it[s] = SumStep(f, it, s)
  BY <1>5
<1>7. it = [s \in D |-> it[s]]
  OBVIOUS
<1>8. IsSumTable(f, S, it)
  BY <1>6, <1>7 DEF IsSumTable
<1> DEFINE fold == CHOOSE g : IsSumTable(f, S, g)
<1>9. IsSumTable(f, S, fold)
  BY <1>8
<1>10. SumOver(f, S) = fold[S]
  BY DEF SumOver, MapThenSumSet, MapThenFoldSet, IsSumTable, SumStep, Pick
<1> QED
  BY <1>9, <1>10

\* Two tables agree on a set if the functions agree on it.
LEMMA SumTablesAgree ==
    ASSUME NEW S, NEW T, NEW f, NEW g, NEW a, NEW b, NEW U, IsFiniteSet(U),
           U \subseteq S, U \subseteq T, \A x \in U : f[x] = g[x],
           IsSumTable(f, S, a), IsSumTable(g, T, b)
    PROVE  a[U] = b[U]
<1> DEFINE Wrong == {Cardinality(s) : s \in {r \in SUBSET U : a[r] # b[r]}}
<1>f. \A s \in SUBSET U : IsFiniteSet(s) /\ Cardinality(s) \in Nat
  BY FS_Subset, FS_CardinalityType
<1>1. Wrong = {}
  <2> SUFFICES ASSUME Wrong # {} PROVE FALSE
    OBVIOUS
  <2>1. Wrong \in SUBSET Nat
    BY <1>f
  <2>2. PICK n \in Wrong : \A k \in Wrong : n <= k
    <3> HIDE DEF Wrong
    <3> QED
      BY <2>1, LeastElement
  <2>3. PICK s \in SUBSET U : a[s] # b[s] /\ n = Cardinality(s)
    OBVIOUS
  <2>4. a[s] = SumStep(f, a, s) /\ b[s] = SumStep(g, b, s)
    BY DEF IsSumTable
  <2>5. s # {}
    BY <2>3, <2>4 DEF SumStep
  <2> DEFINE r == s \ {Pick(s)}
  <2>6. Pick(s) \in s /\ r \in SUBSET U /\ Cardinality(r) \in Nat /\ Cardinality(r) < n
    BY <1>f, <2>3, <2>5, PickSmaller
  <2>7. Cardinality(r) \notin Wrong
    <3>1. n \in Nat
      BY <1>f, <2>3
    <3> HIDE DEF Wrong, r
    <3> QED
      BY <2>2, <2>6, <3>1
  <2>8. a[r] = b[r]
    BY <2>6, <2>7
  <2>9. f[Pick(s)] = g[Pick(s)]
    BY <2>6
  <2> QED
    BY <2>3, <2>4, <2>5, <2>8, <2>9 DEF SumStep
<1> QED
  BY <1>1

\* The sum depends on the values in the set only.
LEMMA SumSame ==
    ASSUME NEW S, IsFiniteSet(S), NEW f, NEW g, \A x \in S : f[x] \in Nat /\ g[x] = f[x]
    PROVE  SumOver(f, S) = SumOver(g, S)
<1>1. PICK a : IsSumTable(f, S, a) /\ SumOver(f, S) = a[S]
  BY SumTable
<1>2. \A x \in S : g[x] \in Nat
  OBVIOUS
<1>3. PICK b : IsSumTable(g, S, b) /\ SumOver(g, S) = b[S]
  BY <1>2, SumTable
<1>4. a[S] = b[S]
  BY <1>1, <1>3, SumTablesAgree
<1> QED
  BY <1>1, <1>3, <1>4

\* The sum over nothing, and over a set of which one element is picked.
LEMMA SumPicks ==
    ASSUME NEW S, IsFiniteSet(S), NEW f, \A x \in S : f[x] \in Nat
    PROVE  /\ S = {} => SumOver(f, S) = 0
           /\ S # {} => SumOver(f, S) = f[Pick(S)] + SumOver(f, S \ {Pick(S)})
<1>1. PICK a : IsSumTable(f, S, a) /\ SumOver(f, S) = a[S]
  BY SumTable
<1>2. a[S] = SumStep(f, a, S)
  BY <1>1 DEF IsSumTable
<1>3. CASE S = {}
  BY <1>1, <1>2, <1>3 DEF SumStep
<1>4. CASE S # {}
  <2> DEFINE T == S \ {Pick(S)}
  <2>1. IsFiniteSet(T) /\ T \subseteq S /\ \A x \in T : f[x] \in Nat
    BY <1>4, PickSmaller
  <2>2. PICK b : IsSumTable(f, T, b) /\ SumOver(f, T) = b[T]
    <3> HIDE DEF T
    <3> QED
      BY <2>1, SumTable
  <2>3. a[T] = b[T]
    <3> HIDE DEF T
    <3> QED
      BY <1>1, <2>1, <2>2, SumTablesAgree
  <2> QED
    BY <1>1, <1>2, <1>4, <2>2, <2>3 DEF SumStep
<1> QED
  BY <1>3, <1>4

\* A sum of natural numbers is one, and any element can be taken out of it.
LEMMA SumTakesAny ==
    ASSUME NEW S, IsFiniteSet(S), NEW f, \A x \in S : f[x] \in Nat
    PROVE  /\ SumOver(f, S) \in Nat
           /\ \A x \in S : SumOver(f, S) = f[x] + SumOver(f, S \ {x})
<1> DEFINE Holds(s) == /\ SumOver(f, s) \in Nat
                       /\ \A x \in s : SumOver(f, s) = f[x] + SumOver(f, s \ {x})
           Wrong == {Cardinality(s) : s \in {r \in SUBSET S : ~Holds(r)}}
<1>f. \A s \in SUBSET S : IsFiniteSet(s) /\ Cardinality(s) \in Nat /\ \A x \in s : f[x] \in Nat
  BY FS_Subset, FS_CardinalityType
<1>1. Wrong = {}
  <2> SUFFICES ASSUME Wrong # {} PROVE FALSE
    OBVIOUS
  <2>1. Wrong \in SUBSET Nat
    BY <1>f
  <2>2. PICK n \in Wrong : \A k \in Wrong : n <= k
    <3> HIDE DEF Wrong
    <3> QED
      BY <2>1, LeastElement
  <2>3. PICK s \in SUBSET S : ~Holds(s) /\ n = Cardinality(s)
    OBVIOUS
  <2>4. \A r \in SUBSET S : Cardinality(r) < n => Holds(r)
    <3> SUFFICES ASSUME NEW r \in SUBSET S, Cardinality(r) < n, ~Holds(r) PROVE FALSE
      BY Zenon
    <3>1. Cardinality(r) \in Wrong
      OBVIOUS
    <3>2. Cardinality(r) \in Nat /\ n \in Nat
      BY <1>f, <2>3
    <3> HIDE DEF Wrong, Holds
    <3> QED
      BY <2>2, <3>1, <3>2
  <2>5. /\ s = {} => SumOver(f, s) = 0
        /\ s # {} => SumOver(f, s) = f[Pick(s)] + SumOver(f, s \ {Pick(s)})
    BY <1>f, SumPicks
  <2>6. s # {}
    BY <2>3, <2>5
  <2> DEFINE c == Pick(s)
  <2>7. ASSUME NEW x \in s PROVE Holds(s \ {x})
    <3>1. Cardinality(s \ {x}) = Cardinality(s) - 1
      BY <1>f, FS_RemoveElement
    <3>2. s \ {x} \in SUBSET S /\ Cardinality(s \ {x}) < n
      BY <1>f, <2>3, <3>1
    <3> HIDE DEF Holds
    <3> QED
      BY <2>4, <3>2
  <2>8. c \in s /\ f[c] \in Nat
    BY <1>f, <2>6, PickSmaller
  <2>9. SumOver(f, s \ {c}) \in Nat /\ SumOver(f, s) = f[c] + SumOver(f, s \ {c})
    BY <2>5, <2>6, <2>7, <2>8
  <2>10. ASSUME NEW x \in s PROVE SumOver(f, s) = f[x] + SumOver(f, s \ {x})
    <3>1. CASE x = c
      BY <2>9, <3>1
    <3>2. CASE x # c
      <4> DEFINE rest == SumOver(f, (s \ {c}) \ {x})
      <4>1. x \in s \ {c} /\ c \in s \ {x} /\ (s \ {x}) \ {c} = (s \ {c}) \ {x}
        BY <2>8, <3>2
      <4>2. SumOver(f, s \ {c}) = f[x] + rest
        BY <2>7, <2>8, <4>1
      <4>3. SumOver(f, s \ {x}) = f[c] + rest /\ SumOver(f, s \ {x}) \in Nat
        <5>1. SumOver(f, s \ {x}) = f[c] + SumOver(f, (s \ {x}) \ {c})
          BY <2>7, <4>1
        <5> QED
          BY <2>7, <4>1, <5>1
      <4>4. f[x] \in Nat
        BY <1>f
      <4>5. rest \in Nat
        <5> DEFINE r == (s \ {c}) \ {x}
        <5>1. Cardinality(s \ {c}) = n - 1 /\ IsFiniteSet(s \ {c})
          BY <1>f, <2>3, <2>8, FS_RemoveElement
        <5>2. Cardinality(r) = n - 1 - 1
          <6> DEFINE t == s \ {c}
          <6>1. x \in t /\ IsFiniteSet(t) /\ Cardinality(t) = n - 1
            BY <4>1, <5>1
          <6> HIDE DEF t
          <6>2. Cardinality(t \ {x}) = Cardinality(t) - 1
            BY <6>1, FS_RemoveElement
          <6> QED
            BY <6>1, <6>2 DEF t
        <5>3. r \in SUBSET S /\ n \in Nat
          BY <1>f, <2>3
        <5>4. Holds(r)
          <6> HIDE DEF Holds, r
          <6> QED
            BY <2>4, <5>2, <5>3
        <5> QED
          BY <5>4
      <4> HIDE DEF rest, c
      <4> QED
        BY <2>8, <2>9, <4>2, <4>3, <4>4, <4>5
    <3> QED
      BY <3>1, <3>2
  <2>11. SumOver(f, s) \in Nat
    <3> HIDE DEF c
    <3> QED
      BY <2>8, <2>9
  <2> QED
    BY <2>3, <2>10, <2>11
<1>2. Holds(S)
  <2> HIDE DEF Holds
  <2> QED
    BY <1>1
<1> QED
  BY <1>2

\* Sums over two sets of which only the element c differs.
LEMMA SumExcept ==
    ASSUME NEW S, IsFiniteSet(S), NEW f, \A x \in S : f[x] \in Nat,
           NEW T, IsFiniteSet(T), NEW g, \A x \in T : g[x] \in Nat,
           NEW c, S \ {c} = T \ {c}, \A x \in S \ {c} : g[x] = f[x]
    PROVE  \E r \in Nat : /\ SumOver(f, S) = r + (IF c \in S THEN f[c] ELSE 0)
                          /\ SumOver(g, T) = r + (IF c \in T THEN g[c] ELSE 0)
<1>1. ASSUME NEW U, IsFiniteSet(U), NEW h, \A x \in U : h[x] \in Nat
      PROVE  /\ SumOver(h, U \ {c}) \in Nat
             /\ SumOver(h, U) = SumOver(h, U \ {c}) + (IF c \in U THEN h[c] ELSE 0)
  <2> DEFINE V == U \ {c}
  <2>1. IsFiniteSet(V) /\ \A x \in V : h[x] \in Nat
    BY <1>1, FS_RemoveElement
  <2>2. SumOver(h, V) \in Nat
    <3> HIDE DEF V
    <3> QED
      BY <2>1, SumTakesAny
  <2>3. CASE c \in U
    <3>1. SumOver(h, U) = h[c] + SumOver(h, V) /\ h[c] \in Nat
      BY <1>1, <2>3, SumTakesAny
    <3> QED
      BY <2>2, <2>3, <3>1
  <2>4. CASE c \notin U
    <3>1. V = U
      BY <2>4
    <3> HIDE DEF V
    <3>2. SumOver(h, U) = SumOver(h, V) + 0
      BY <2>2, <3>1
    <3> QED
      BY <2>2, <2>4, <3>2 DEF V
  <2> QED
    BY <2>2, <2>3, <2>4
<1>2. /\ SumOver(f, S \ {c}) \in Nat
      /\ SumOver(f, S) = SumOver(f, S \ {c}) + (IF c \in S THEN f[c] ELSE 0)
  BY <1>1
<1>3. SumOver(g, T) = SumOver(g, T \ {c}) + (IF c \in T THEN g[c] ELSE 0)
  BY <1>1
<1>4. SumOver(f, S \ {c}) = SumOver(g, S \ {c})
  <2> DEFINE V == S \ {c}
  <2>1. IsFiniteSet(V) /\ \A x \in V : f[x] \in Nat /\ g[x] = f[x]
    BY FS_RemoveElement
  <2> HIDE DEF V
  <2>2. SumOver(f, V) = SumOver(g, V)
    BY <2>1, SumSame
  <2> QED
    BY <2>2 DEF V
<1> QED
  BY <1>2, <1>3, <1>4

-----------------------------------------------------------------------------
(* FlattenSeq of the community modules                                     *)

\* One step of its recursion.
FlattenStep(seqs, g, i) == IF i = 1 THEN seqs[i] ELSE g[i - 1] \o seqs[i]

\* g is the function FlattenSeq computes with.
IsFlatten(seqs, g) == g = [i \in 1 .. Len(seqs) |-> FlattenStep(seqs, g, i)]

\* Putting sequences one behind the other gives a sequence of their elements.
LEMMA FlattenType ==
    ASSUME NEW C, NEW seqs \in Seq(Seq(C))
    PROVE  FlattenSeq(seqs) \in Seq(C)
<1>1. CASE Len(seqs) = 0
  <2>1. seqs = <<>>
    BY <1>1
  <2> QED
    BY <1>1, <2>1 DEF FlattenSeq
<1>2. CASE Len(seqs) # 0
  <2> DEFINE D == 1 .. Len(seqs)
             V == Seq(C)
             N == Len(seqs)
             rank == [i \in D |-> i]
             step == [i \in D |-> [g \in [D -> V] |-> FlattenStep(seqs, g, i)]]
  <2>1. N \in Nat /\ rank \in [D -> 0 .. N] /\ N \in D
    BY <1>2
  <2>2. step \in [D -> [[D -> V] -> V]]
    <3>1. ASSUME NEW i \in D, NEW g \in [D -> V] PROVE FlattenStep(seqs, g, i) \in V
      <4>1. seqs[i] \in Seq(C)
        OBVIOUS
      <4>2. CASE i = 1
        BY <4>1, <4>2 DEF FlattenStep
      <4>3. CASE i # 1
        <5>1. i - 1 \in D
          BY <4>3
        <5>2. g[i - 1] \in Seq(C)
          BY <5>1
        <5> QED
          BY <4>1, <4>3, <5>2 DEF FlattenStep
      <4> QED
        BY <4>2, <4>3
    <3> QED
      BY <3>1
  <2>3. ASSUME NEW x \in D, NEW g \in [D -> V], NEW h \in [D -> V],
               \A y \in D : rank[y] < rank[x] => g[y] = h[y]
        PROVE  step[x][g] = step[x][h]
    <3>1. x # 1 => x - 1 \in D /\ rank[x - 1] < rank[x]
      OBVIOUS
    <3> QED
      BY <2>3, <3>1 DEF FlattenStep
  <2>4. IsRecursion(D, V, N, rank, step)
    <3> HIDE DEF D, V, rank, step, N
    <3>1. V # {}
      BY DEF V
    <3>2. \A x \in D : \A g, h \in [D -> V] :
             (\A y \in D : rank[y] < rank[x] => g[y] = h[y]) => step[x][g] = step[x][h]
      BY <2>3, Zenon
    <3> QED
      BY <2>1, <2>2, <3>1, <3>2, Zenon DEF IsRecursion
  <2>5. PICK f \in [D -> V] : \A i \in D : f[i] = step[i][f]
    <3> HIDE DEF D, V, rank, step, N
    <3> QED
      BY <2>4, RecursionExists
  <2>6. IsFlatten(seqs, f)
    <3>1. f = [i \in D |-> f[i]] /\ \A i \in D : f[i] = FlattenStep(seqs, f, i)
      BY <2>5
    <3> QED
      BY <3>1 DEF IsFlatten
  <2> DEFINE flatten == CHOOSE g : IsFlatten(seqs, g)
  <2>7. IsFlatten(seqs, flatten)
    BY <2>6
  <2>8. FlattenSeq(seqs) = flatten[N]
    BY <1>2 DEF FlattenSeq, IsFlatten, FlattenStep
  <2> HIDE DEF flatten
  <2>9. \A i \in D : flatten[i] = FlattenStep(seqs, flatten, i)
    BY <2>7 DEF IsFlatten
  <2> DEFINE Wrong == {i \in D : flatten[i] \notin Seq(C)}
  <2>10. Wrong = {}
    <3> SUFFICES ASSUME Wrong # {} PROVE FALSE
      OBVIOUS
    <3>1. PICK i \in Wrong : \A j \in Wrong : i <= j
      <4>1. Wrong \in SUBSET Nat
        OBVIOUS
      <4> HIDE DEF Wrong
      <4> QED
        BY <4>1, LeastElement
    <3>2. i \in D /\ flatten[i] \notin Seq(C) /\ seqs[i] \in Seq(C)
      BY <3>1
    <3>3. CASE i = 1
      BY <2>9, <3>2, <3>3 DEF FlattenStep
    <3>4. CASE i # 1
      <4>1. i - 1 \in D /\ i - 1 \notin Wrong
        BY <3>1, <3>2, <3>4
      <4>2. flatten[i - 1] \in Seq(C)
        BY <4>1
      <4>3. flatten[i] = flatten[i - 1] \o seqs[i]
        BY <2>9, <3>2, <3>4 DEF FlattenStep
      <4> QED
        BY <3>2, <4>2, <4>3
    <3> QED
      BY <3>3, <3>4
  <2> QED
    BY <2>1, <2>8, <2>10
<1> QED
  BY <1>1, <1>2

=============================================================================
