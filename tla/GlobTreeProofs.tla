--------------------------- MODULE GlobTreeProofs ---------------------------
(***************************************************************************)
(* Proofs about GlobTree: what the walk of check() through the tree finds, *)
(* and what insert() and remove() do to the counts.  They hold for every   *)
(* tree that has the shape insert() and remove() give it, and for patterns *)
(* and strings of every length.                                            *)
(***************************************************************************)
EXTENDS GlobTree, Lemmas, TLAPS

-----------------------------------------------------------------------------
(* The reference matcher, one character at a time                          *)

\* Character i of p stands for the part of s after position a and up to b.
Segment(p, i, s, a, b) ==
    \/ p[i] = Star /\ b - a >= 1
    \/ p[i] = QMark /\ b - a = 1
    \/ p[i] \notin {Star, QMark} /\ b - a = 1 /\ s[b] = p[i]

\* The characters of p after the i-th one stand for what follows position pos.
Fits(p, i, s, pos) ==
    \E cut \in [i .. Len(p) -> 0 .. Len(s)] :
        /\ cut[i] = pos /\ cut[Len(p)] = Len(s)
        /\ \A j \in i + 1 .. Len(p) : Segment(p, j, s, cut[j - 1], cut[j])

\* A pattern matches if all of it stands for the whole string.
LEMMA MatchesFits ==
    ASSUME NEW C, NEW p \in Seq(C), NEW s \in Seq(C)
    PROVE  GlobMatches(p, s) <=> Fits(p, 0, s, 0)
BY DEF GlobMatches, GlobFits, Fits, Segment

\* Nothing is left of the pattern: nothing is left of the string.
LEMMA FitsEnd ==
    ASSUME NEW C, NEW p \in Seq(C), NEW s \in Seq(C), NEW pos \in 0 .. Len(s)
    PROVE  Fits(p, Len(p), s, pos) <=> pos = Len(s)
<1>1. ASSUME pos = Len(s) PROVE Fits(p, Len(p), s, pos)
  <2> DEFINE cut == [i \in Len(p) .. Len(p) |-> Len(s)]
  <2>1. cut \in [Len(p) .. Len(p) -> 0 .. Len(s)] /\ cut[Len(p)] = Len(s)
    OBVIOUS
  <2>2. Len(p) + 1 .. Len(p) = {}
    OBVIOUS
  <2> QED
    BY <1>1, <2>1, <2>2 DEF Fits
<1> QED
  BY <1>1 DEF Fits

\* The next character stands for a part of the string that is not empty, and
\* the rest of the pattern for what follows.
LEMMA FitsNext ==
    ASSUME NEW C, NEW p \in Seq(C), NEW s \in Seq(C), NEW pos \in 0 .. Len(s),
           NEW i \in 0 .. Len(p) - 1
    PROVE  Fits(p, i, s, pos) <=>
               \E q \in pos + 1 .. Len(s) : Segment(p, i + 1, s, pos, q) /\ Fits(p, i + 1, s, q)
<1>n. Len(p) \in Nat /\ Len(s) \in Nat /\ i \in Nat /\ i < Len(p)
  OBVIOUS
<1>1. ASSUME Fits(p, i, s, pos)
      PROVE  \E q \in pos + 1 .. Len(s) : Segment(p, i + 1, s, pos, q) /\ Fits(p, i + 1, s, q)
  <2>1. PICK cut \in [i .. Len(p) -> 0 .. Len(s)] :
              /\ cut[i] = pos /\ cut[Len(p)] = Len(s)
              /\ \A j \in i + 1 .. Len(p) : Segment(p, j, s, cut[j - 1], cut[j])
    BY <1>1 DEF Fits
  <2> DEFINE q == cut[i + 1]
             rest == [j \in i + 1 .. Len(p) |-> cut[j]]
  <2>2. i + 1 \in i + 1 .. Len(p) /\ (i + 1) - 1 = i
    BY <1>n
  <2>3. Segment(p, i + 1, s, pos, q) /\ q \in 0 .. Len(s)
    BY <2>1, <2>2
  <2>4. q \in pos + 1 .. Len(s)
    BY <1>n, <2>3 DEF Segment
  <2>5. /\ rest \in [i + 1 .. Len(p) -> 0 .. Len(s)] /\ rest[i + 1] = q /\ rest[Len(p)] = Len(s)
    BY <1>n, <2>1
  <2>6. ASSUME NEW j \in i + 1 + 1 .. Len(p) PROVE Segment(p, j, s, rest[j - 1], rest[j])
    <3>1. j \in i + 1 .. Len(p) /\ j - 1 \in i + 1 .. Len(p)
      BY <1>n
    <3>2. rest[j - 1] = cut[j - 1] /\ rest[j] = cut[j]
      BY <3>1
    <3> QED
      BY <2>1, <3>1, <3>2
  <2>7. Fits(p, i + 1, s, q)
    <3> HIDE DEF rest, q
    <3> QED
      BY <2>5, <2>6 DEF Fits
  <2> QED
    BY <2>3, <2>4, <2>7
<1>2. ASSUME NEW q \in pos + 1 .. Len(s), Segment(p, i + 1, s, pos, q), Fits(p, i + 1, s, q)
      PROVE  Fits(p, i, s, pos)
  <2>1. PICK rest \in [i + 1 .. Len(p) -> 0 .. Len(s)] :
              /\ rest[i + 1] = q /\ rest[Len(p)] = Len(s)
              /\ \A j \in i + 1 + 1 .. Len(p) : Segment(p, j, s, rest[j - 1], rest[j])
    BY <1>2 DEF Fits
  <2> DEFINE cut == [j \in i .. Len(p) |-> IF j = i THEN pos ELSE rest[j]]
  <2>2. cut \in [i .. Len(p) -> 0 .. Len(s)] /\ cut[i] = pos /\ cut[Len(p)] = Len(s)
    BY <1>n, <2>1
  <2>3. ASSUME NEW j \in i + 1 .. Len(p) PROVE Segment(p, j, s, cut[j - 1], cut[j])
    <3>1. CASE j = i + 1
      <4>1. cut[j - 1] = pos /\ cut[j] = q
        BY <1>n, <2>1, <3>1
      <4> QED
        BY <1>2, <3>1, <4>1
    <3>2. CASE j # i + 1
      <4>1. j \in i + 1 + 1 .. Len(p) /\ cut[j - 1] = rest[j - 1] /\ cut[j] = rest[j]
        BY <1>n, <3>2
      <4> QED
        BY <2>1, <4>1
    <3> QED
      BY <3>1, <3>2
  <2> HIDE DEF cut
  <2> QED
    BY <2>2, <2>3 DEF Fits
<1> QED
  BY <1>1, <1>2

\* What is left of the pattern stands for at least one byte each.
LEMMA FitsNothing ==
    ASSUME NEW C, NEW p \in Seq(C), NEW s \in Seq(C), NEW i \in 0 .. Len(p),
           Fits(p, i, s, Len(s))
    PROVE  i = Len(p)
<1>1. Len(s) \in Nat /\ Len(s) \in 0 .. Len(s) /\ Len(s) + 1 .. Len(s) = {}
  OBVIOUS
<1> SUFFICES ASSUME i # Len(p) PROVE FALSE
  OBVIOUS
<1>2. i \in 0 .. Len(p) - 1
  OBVIOUS
<1>3. \E q \in Len(s) + 1 .. Len(s) : TRUE
  BY <1>1, <1>2, FitsNext
<1> QED
  BY <1>1, <1>3

\* The wildcards are characters.
LEMMA Wildcards == Star \in STRING /\ QMark \in STRING
<1>1. <<Star>> \in Seq(STRING) /\ <<QMark>> \in Seq(STRING)
  BY WildcardsAreAscii
<1> QED
  BY <1>1

-----------------------------------------------------------------------------
(* The walk                                                                *)

\* A child is not the root.
LEMMA AppendIsNotRoot ==
    ASSUME NEW C, NEW n \in Seq(C), NEW c \in C
    PROVE  Append(n, c) # Root
<1>1. Len(Append(n, c)) = Len(n) + 1 /\ Len(n) \in Nat /\ Len(<<>>) = 0
  OBVIOUS
<1> QED
  BY <1>1 DEF Root

\* Where the worker may stand: a node and a position of the string.
Places(tree, s) == (DOMAIN tree) \X (0 .. Len(s))

\* The position after the node's own character; the root has none.
NextPos(at) == IF at[1] = Root THEN at[2] ELSE at[2] + 1

\* The walk goes on to the child for c.
Via(tree, w, at, c) ==
    /\ Append(at[1], c) \in DOMAIN tree
    /\ w[<<Append(at[1], c), NextPos(at)>>]

\* _match_string_worker at one place, given its results at the others.
WorkerStep(tree, s, w, at) ==
    /\ at[1] # Root => at[2] < Len(s) /\ Last(at[1]) \in {s[at[2] + 1], Star, QMark}
    /\ IF NextPos(at) < Len(s)
       THEN \/ Via(tree, w, at, s[NextPos(at) + 1])
            \/ Via(tree, w, at, QMark)
            \/ at[1] # Root /\ Last(at[1]) = Star /\ w[<<at[1], NextPos(at)>>]
            \/ Via(tree, w, at, Star)
       ELSE IsTerminal(tree, at[1])

\* w holds the results of the worker at all places.
IsWorker(tree, s, w) == w = [at \in Places(tree, s) |-> WorkerStep(tree, s, w, at)]

\* The recursion of the worker ends: it moves on in the string, or down from
\* the root.
LEMMA WorkerExists ==
    ASSUME NEW s \in Seq(STRING), NEW tree, DOMAIN tree \subseteq Seq(STRING)
    PROVE  \E w : IsWorker(tree, s, w) /\ MatchString(tree, s) = w[<<Root, 0>>]
<1> DEFINE D == Places(tree, s)
           N == Len(s) + 1
           rank == [at \in D |-> IF at[1] = Root THEN Len(s) - at[2] + 1 ELSE Len(s) - at[2]]
           step == [at \in D |-> [g \in [D -> BOOLEAN] |-> WorkerStep(tree, s, g, at)]]
<1>1. rank \in [D -> 0 .. N] /\ N \in Nat
  BY DEF Places
<1>2. step \in [D -> [[D -> BOOLEAN] -> BOOLEAN]]
  <2>1. \A at \in D : \A g \in [D -> BOOLEAN] : WorkerStep(tree, s, g, at) \in BOOLEAN
    BY DEF WorkerStep
  <2> QED
    BY <2>1
<1>3. ASSUME NEW x \in D, NEW g \in [D -> BOOLEAN], NEW h \in [D -> BOOLEAN],
             \A y \in D : rank[y] < rank[x] => g[y] = h[y]
      PROVE  step[x][g] = step[x][h]
  <2>1. PICK n \in DOMAIN tree, pos \in 0 .. Len(s) : x = <<n, pos>>
    BY DEF Places
  <2>2. ASSUME n # Root => pos < Len(s), NEW m \in DOMAIN tree, m # Root
        PROVE  g[<<m, NextPos(x)>>] = h[<<m, NextPos(x)>>]
    <3> DEFINE y == <<m, NextPos(x)>>
    <3>1. y \in D /\ rank[y] < rank[x]
      BY <2>1, <2>2 DEF NextPos, Places
    <3> QED
      BY <1>3, <3>1
  <2>3. ASSUME n # Root => pos < Len(s), NEW c \in STRING
        PROVE  Via(tree, g, x, c) = Via(tree, h, x, c)
    <3>1. n \in Seq(STRING) /\ c \in STRING
      BY <2>3
    <3>2. Append(n, c) # Root
      BY <3>1, AppendIsNotRoot
    <3> QED
      BY <2>1, <2>2, <2>3, <3>2 DEF Via
  <2>5. CASE ~(n # Root => pos < Len(s))
    BY <2>1, <2>5 DEF WorkerStep
  <2>6. CASE (n # Root => pos < Len(s)) /\ ~(NextPos(x) < Len(s))
    BY <2>1, <2>6 DEF WorkerStep
  <2>7. CASE (n # Root => pos < Len(s)) /\ NextPos(x) < Len(s)
    <3>1. NextPos(x) \in Nat /\ s[NextPos(x) + 1] \in STRING
      BY <2>1, <2>7 DEF NextPos
    <3>2. /\ Via(tree, g, x, s[NextPos(x) + 1]) = Via(tree, h, x, s[NextPos(x) + 1])
          /\ Via(tree, g, x, QMark) = Via(tree, h, x, QMark)
          /\ Via(tree, g, x, Star) = Via(tree, h, x, Star)
      BY <2>3, <2>7, <3>1, Wildcards
    <3>3. x[1] # Root => g[<<x[1], NextPos(x)>>] = h[<<x[1], NextPos(x)>>]
      BY <2>1, <2>2, <2>7
    <3> QED
      BY <3>2, <3>3 DEF WorkerStep
  <2> QED
    BY <2>5, <2>6, <2>7
<1>4. IsRecursion(D, BOOLEAN, N, rank, step)
  <2> HIDE DEF D, rank, step, N
  <2>1. BOOLEAN # {} /\ N \in Nat
    BY <1>1
  <2>2. \A x \in D : \A g, h \in [D -> BOOLEAN] :
           (\A y \in D : rank[y] < rank[x] => g[y] = h[y]) => step[x][g] = step[x][h]
    BY <1>3, Zenon
  <2> QED
    BY <1>1, <1>2, <2>1, <2>2, Zenon DEF IsRecursion
<1>5. PICK w \in [D -> BOOLEAN] : \A at \in D : w[at] = step[at][w]
  <2> HIDE DEF D, rank, step, N
  <2> QED
    BY <1>4, RecursionExists
<1>6. \A at \in D : w[at] = WorkerStep(tree, s, w, at)
  BY <1>5
<1>7. w = [at \in D |-> w[at]]
  OBVIOUS
<1>8. IsWorker(tree, s, w)
  BY <1>6, <1>7 DEF IsWorker
<1> DEFINE worker == CHOOSE v : IsWorker(tree, s, v)
<1>9. IsWorker(tree, s, worker)
  BY <1>8
<1>10. MatchString(tree, s) = worker[<<Root, 0>>]
  BY DEF MatchString, IsWorker, WorkerStep, Via, NextPos, Places
<1> QED
  BY <1>9, <1>10

\* What one step of the worker asks for, below the root and at the root.
LEMMA WorkerAt ==
    ASSUME NEW s \in Seq(STRING), NEW tree, DOMAIN tree \subseteq Seq(STRING),
           NEW w, IsWorker(tree, s, w)
    PROVE  /\ \A n \in DOMAIN tree \ {Root} : \A pos \in 0 .. Len(s) :
                 w[<<n, pos>>] <=>
                    /\ pos < Len(s) /\ Last(n) \in {s[pos + 1], Star, QMark}
                    /\ IF pos + 1 < Len(s)
                       THEN \/ \E c \in {s[pos + 2], QMark, Star} :
                                  Append(n, c) \in DOMAIN tree /\ w[<<Append(n, c), pos + 1>>]
                            \/ Last(n) = Star /\ w[<<n, pos + 1>>]
                       ELSE IsTerminal(tree, n)
           /\ Root \in DOMAIN tree =>
                (w[<<Root, 0>>] <=>
                    IF 0 < Len(s)
                    THEN \E c \in {s[1], QMark, Star} :
                            Append(Root, c) \in DOMAIN tree /\ w[<<Append(Root, c), 0>>]
                    ELSE IsTerminal(tree, Root))
<1>1. ASSUME NEW n \in DOMAIN tree, NEW pos \in 0 .. Len(s)
      PROVE  w[<<n, pos>>] = WorkerStep(tree, s, w, <<n, pos>>)
  BY DEF IsWorker, Places
<1>2. ASSUME NEW n \in DOMAIN tree \ {Root}, NEW pos \in 0 .. Len(s)
      PROVE  w[<<n, pos>>] <=>
                    /\ pos < Len(s) /\ Last(n) \in {s[pos + 1], Star, QMark}
                    /\ IF pos + 1 < Len(s)
                       THEN \/ \E c \in {s[pos + 2], QMark, Star} :
                                  Append(n, c) \in DOMAIN tree /\ w[<<Append(n, c), pos + 1>>]
                            \/ Last(n) = Star /\ w[<<n, pos + 1>>]
                       ELSE IsTerminal(tree, n)
  <2>1. NextPos(<<n, pos>>) = pos + 1 /\ (pos + 1) + 1 = pos + 2
    BY DEF NextPos
  <2>2. WorkerStep(tree, s, w, <<n, pos>>) <=>
            /\ n # Root => pos < Len(s) /\ Last(n) \in {s[pos + 1], Star, QMark}
            /\ IF pos + 1 < Len(s)
               THEN \/ Via(tree, w, <<n, pos>>, s[(pos + 1) + 1])
                    \/ Via(tree, w, <<n, pos>>, QMark)
                    \/ n # Root /\ Last(n) = Star /\ w[<<n, pos + 1>>]
                    \/ Via(tree, w, <<n, pos>>, Star)
               ELSE IsTerminal(tree, n)
    BY <2>1 DEF WorkerStep
  <2>3. \A c : Via(tree, w, <<n, pos>>, c) <=>
                   Append(n, c) \in DOMAIN tree /\ w[<<Append(n, c), pos + 1>>]
    BY <2>1 DEF Via
  <2> QED
    BY <1>1, <2>1, <2>2, <2>3
<1>3. ASSUME Root \in DOMAIN tree
      PROVE  w[<<Root, 0>>] <=>
                    IF 0 < Len(s)
                    THEN \E c \in {s[1], QMark, Star} :
                            Append(Root, c) \in DOMAIN tree /\ w[<<Append(Root, c), 0>>]
                    ELSE IsTerminal(tree, Root)
  <2>1. NextPos(<<Root, 0>>) = 0 /\ 0 \in 0 .. Len(s)
    BY DEF NextPos
  <2>2. WorkerStep(tree, s, w, <<Root, 0>>) <=>
            IF 0 < Len(s)
            THEN \/ Via(tree, w, <<Root, 0>>, s[0 + 1])
                 \/ Via(tree, w, <<Root, 0>>, QMark)
                 \/ Via(tree, w, <<Root, 0>>, Star)
            ELSE IsTerminal(tree, Root)
    BY <2>1 DEF WorkerStep
  <2>3. \A c : Via(tree, w, <<Root, 0>>, c) <=>
                   Append(Root, c) \in DOMAIN tree /\ w[<<Append(Root, c), 0>>]
    BY <2>1 DEF Via
  <2>4. w[<<Root, 0>>] = WorkerStep(tree, s, w, <<Root, 0>>)
    BY <1>1, <1>3, <2>1
  <2>5. CASE 0 < Len(s)
    <3>1. w[<<Root, 0>>] <=> \E c \in {s[0 + 1], QMark, Star} : Via(tree, w, <<Root, 0>>, c)
      BY <2>2, <2>4, <2>5
    <3>2. 0 + 1 = 1
      OBVIOUS
    <3> QED
      BY <2>3, <2>5, <3>1, <3>2
  <2>6. CASE ~(0 < Len(s))
    BY <2>2, <2>4, <2>6
  <2> QED
    BY <2>5, <2>6
<1> QED
  BY <1>2, <1>3

-----------------------------------------------------------------------------
(* Paths                                                                   *)

\* The nodes on the way to p.
LEMMA PrefixesAre ==
    ASSUME NEW C, NEW p \in Seq(C)
    PROVE  \A n : n \in Prefixes(p) <=> n \in Seq(C) /\ IsPrefix(n, p)
<1>1. ASSUME NEW l \in 0 .. Len(p)
      PROVE  SubSeq(p, 1, l) \in Seq(C) /\ Len(SubSeq(p, 1, l)) = l /\ IsPrefix(SubSeq(p, 1, l), p)
  <2>1. SubSeq(p, 1, l) \in Seq(C) /\ Len(SubSeq(p, 1, l)) = l
    OBVIOUS
  <2>2. \A i \in 1 .. l : SubSeq(p, 1, l)[i] = p[i]
    OBVIOUS
  <2> DEFINE n == SubSeq(p, 1, l)
  <2>3. n \in Seq(C) /\ Len(n) <= Len(p) /\ \A i \in 1 .. Len(n) : n[i] = p[i]
    BY <2>1, <2>2
  <2> HIDE DEF n
  <2>4. IsPrefix(n, p)
    BY <2>3, PrefixElements
  <2> QED
    BY <2>1, <2>4 DEF n
<1>2. ASSUME NEW n \in Seq(C), IsPrefix(n, p) PROVE n \in Prefixes(p)
  <2>1. Len(n) \in 0 .. Len(p) /\ n = SubSeq(n, 1, Len(n))
    BY <1>2 DEF IsPrefix
  <2> QED
    BY <1>2, <2>1 DEF IsPrefix, Prefixes
<1> QED
  BY <1>1, <1>2 DEF Prefixes

\* A prefix of full length is the whole.
LEMMA WholePrefix ==
    ASSUME NEW C, NEW n \in Seq(C), NEW p \in Seq(C), IsPrefix(n, p), Len(n) = Len(p)
    PROVE  n = p
<1>1. \A i \in 1 .. Len(n) : n[i] = p[i]
  BY PrefixElements
<1> QED
  BY <1>1

\* A prefix of a prefix is one; two prefixes of the same are one of the other.
LEMMA PrefixOrder ==
    ASSUME NEW C, NEW a \in Seq(C), NEW b \in Seq(C), NEW c \in Seq(C)
    PROVE  /\ IsPrefix(a, b) /\ IsPrefix(b, c) => IsPrefix(a, c)
           /\ IsPrefix(a, c) /\ IsPrefix(b, c) /\ Len(a) <= Len(b) => IsPrefix(a, b)
<1>1. /\ IsPrefix(a, b) <=> Len(a) <= Len(b) /\ \A i \in 1 .. Len(a) : a[i] = b[i]
      /\ IsPrefix(b, c) <=> Len(b) <= Len(c) /\ \A i \in 1 .. Len(b) : b[i] = c[i]
      /\ IsPrefix(a, c) <=> Len(a) <= Len(c) /\ \A i \in 1 .. Len(a) : a[i] = c[i]
  BY PrefixElements
<1>2. Len(a) \in Nat /\ Len(b) \in Nat /\ Len(c) \in Nat
  OBVIOUS
<1> QED
  BY <1>1, <1>2

\* One character further on the way to p.
LEMMA NextOnPath ==
    ASSUME NEW C, NEW n \in Seq(C), NEW p \in Seq(C), IsPrefix(n, p), Len(n) < Len(p)
    PROVE  /\ p[Len(n) + 1] \in C
           /\ Append(n, p[Len(n) + 1]) \in Seq(C)
           /\ IsPrefix(Append(n, p[Len(n) + 1]), p)
<1>1. p[Len(n) + 1] \in C
  OBVIOUS
<1>2. Append(n, p[Len(n) + 1]) \in Seq(C)
  BY <1>1
<1>3. IsPrefix(Append(n, p[Len(n) + 1]), p)
  BY PrefixGrows
<1> QED
  BY <1>1, <1>2, <1>3

\* The parent of a node, and the node's own character.
LEMMA ParentPrefix ==
    ASSUME NEW C, NEW n \in Seq(C), NEW c \in C, NEW p \in Seq(C), IsPrefix(Append(n, c), p)
    PROVE  IsPrefix(n, p) /\ Len(n) < Len(p)
<1> DEFINE m == Append(n, c)
<1>1. m \in Seq(C) /\ Len(m) = Len(n) + 1 /\ \A i \in 1 .. Len(n) : m[i] = n[i]
  OBVIOUS
<1>2. Len(m) <= Len(p) /\ \A i \in 1 .. Len(m) : m[i] = p[i]
  <2> HIDE DEF m
  <2>1. IsPrefix(m, p)
    BY DEF m
  <2> QED
    BY <1>1, <2>1, PrefixElements
<1>3. Len(n) < Len(p) /\ \A i \in 1 .. Len(n) : n[i] = p[i]
  BY <1>1, <1>2
<1> QED
  BY <1>3, PrefixElements

-----------------------------------------------------------------------------
(* What the walk finds                                                     *)

\* The nodes of a tree: with a node come all those on the way to it.
IsTree(tree) ==
    /\ DOMAIN tree \subseteq Seq(STRING) /\ Root \in DOMAIN tree
    /\ \A n \in DOMAIN tree : Prefixes(n) \subseteq DOMAIN tree

\* A pattern that goes through node n matches from position i of the pattern
\* and pos of the string on.
Found(tree, s, n, i, pos) ==
    \E p \in TreeList(tree) : IsPrefix(n, p) /\ Fits(p, i, s, pos)

\* If there is more of the string, a pattern that matches goes on to the child
\* for the next byte, for a question mark or for a star.
LEMMA FoundBelow ==
    ASSUME NEW tree, IsTree(tree), NEW s \in Seq(STRING), NEW n \in DOMAIN tree,
           NEW pos \in 0 .. Len(s), pos < Len(s)
    PROVE  Found(tree, s, n, Len(n), pos) <=>
               \E c \in {s[pos + 1], QMark, Star} :
                   /\ Append(n, c) \in DOMAIN tree
                   /\ Found(tree, s, Append(n, c), Len(Append(n, c)) - 1, pos)
<1>n. n \in Seq(STRING) /\ Len(n) \in Nat
  BY DEF IsTree
<1>1. ASSUME NEW p \in TreeList(tree), IsPrefix(n, p), Fits(p, Len(n), s, pos)
      PROVE  \E c \in {s[pos + 1], QMark, Star} :
                   /\ Append(n, c) \in DOMAIN tree
                   /\ Found(tree, s, Append(n, c), Len(Append(n, c)) - 1, pos)
  <2>1. p \in DOMAIN tree /\ p \in Seq(STRING) /\ Len(n) <= Len(p)
    BY <1>1 DEF IsTree, TreeList, IsPrefix
  <2>2. Len(n) < Len(p)
    <3>1. Len(n) # Len(p)
      BY <1>1, <2>1, FitsEnd
    <3> QED
      BY <1>n, <2>1, <3>1
  <2> DEFINE c == p[Len(n) + 1]
  <2>3. c \in STRING /\ Append(n, c) \in Seq(STRING) /\ IsPrefix(Append(n, c), p)
    BY <1>n, <1>1, <2>1, <2>2, NextOnPath
  <2>4. Append(n, c) \in DOMAIN tree
    BY <2>1, <2>3, PrefixesAre DEF IsTree
  <2>5. Len(n) \in 0 .. Len(p) - 1
    BY <1>n, <2>1, <2>2
  <2>6. PICK q \in pos + 1 .. Len(s) : Segment(p, Len(n) + 1, s, pos, q)
    BY <1>1, <2>1, <2>5, FitsNext
  <2>7. c \in {s[pos + 1], QMark, Star}
    <3>1. c = Star \/ c = QMark \/ (q - pos = 1 /\ s[q] = c)
      BY <2>6 DEF Segment
    <3>2. q - pos = 1 => q = pos + 1
      OBVIOUS
    <3> QED
      BY <3>1, <3>2
  <2>8. Len(Append(n, c)) - 1 = Len(n)
    BY <1>n, <2>3
  <2> HIDE DEF c
  <2>9. Found(tree, s, Append(n, c), Len(Append(n, c)) - 1, pos)
    BY <1>1, <2>3, <2>8 DEF Found
  <2> QED
    BY <2>4, <2>7, <2>9
<1>2. ASSUME NEW c \in {s[pos + 1], QMark, Star},
             Found(tree, s, Append(n, c), Len(Append(n, c)) - 1, pos)
      PROVE  Found(tree, s, n, Len(n), pos)
  <2>1. c \in STRING
    <3>1. s[pos + 1] \in STRING
      OBVIOUS
    <3> QED
      BY <3>1, Wildcards
  <2>2. PICK p \in TreeList(tree) :
           IsPrefix(Append(n, c), p) /\ Fits(p, Len(Append(n, c)) - 1, s, pos)
    BY <1>2 DEF Found
  <2>3. p \in Seq(STRING) /\ Len(Append(n, c)) - 1 = Len(n)
    BY <1>n, <2>1 DEF IsTree, TreeList
  <2>4. IsPrefix(n, p)
    BY <1>n, <2>1, <2>2, <2>3, ParentPrefix
  <2> QED
    BY <2>2, <2>3, <2>4 DEF Found
<1> QED
  BY <1>1, <1>2 DEF Found

\* The own character of node n, at the beginning of what it stands for.
LEMMA OwnCharacter ==
    ASSUME NEW s \in Seq(STRING), NEW n \in Seq(STRING), NEW p \in Seq(STRING), Len(n) >= 1,
           IsPrefix(n, p), NEW pos \in 0 .. Len(s)
    PROVE  /\ Last(n) = p[Len(n)] /\ Len(n) - 1 \in 0 .. Len(p) - 1 /\ (Len(n) - 1) + 1 = Len(n)
           /\ Last(n) \in {s[pos + 1], Star, QMark} => Segment(p, Len(n), s, pos, pos + 1)
           /\ \A q \in pos + 1 .. Len(s) : Segment(p, Len(n), s, pos, q) =>
                 Last(n) \in {s[pos + 1], Star, QMark}
           /\ \A q \in pos + 2 .. Len(s) :
                 Segment(p, Len(n), s, pos, q) <=>
                    Last(n) = Star /\ Segment(p, Len(n), s, pos + 1, q)
<1>1. Len(n) \in Nat /\ Len(n) <= Len(p) /\ n[Len(n)] = p[Len(n)] /\ Len(p) \in Nat
  BY PrefixElements
<1>2. Last(n) = p[Len(n)] /\ Len(n) - 1 \in 0 .. Len(p) - 1 /\ (Len(n) - 1) + 1 = Len(n)
  BY <1>1 DEF Last
<1>3. (pos + 1) - pos = 1
  OBVIOUS
<1>4. ASSUME Last(n) \in {s[pos + 1], Star, QMark} PROVE Segment(p, Len(n), s, pos, pos + 1)
  BY <1>2, <1>3, <1>4 DEF Segment
<1>5. ASSUME NEW q \in pos + 1 .. Len(s), Segment(p, Len(n), s, pos, q)
      PROVE  Last(n) \in {s[pos + 1], Star, QMark}
  <2>1. q - pos = 1 => q = pos + 1
    OBVIOUS
  <2> QED
    BY <1>2, <1>5, <2>1 DEF Segment
<1>6. ASSUME NEW q \in pos + 2 .. Len(s)
      PROVE  Segment(p, Len(n), s, pos, q) <=>
                 Last(n) = Star /\ Segment(p, Len(n), s, pos + 1, q)
  <2>1. q - pos # 1 /\ q - pos >= 1 /\ q - (pos + 1) >= 1
    OBVIOUS
  <2> QED
    BY <1>2, <2>1 DEF Segment, Star, QMark
<1> QED
  BY <1>2, <1>4, <1>5, <1>6

\* If the worker is right at the next position, it is right at this one.
LEMMA WorkerStepRight ==
    ASSUME NEW tree, IsTree(tree), NEW s \in Seq(STRING), NEW w, IsWorker(tree, s, w),
           NEW n \in DOMAIN tree \ {Root}, NEW pos \in 0 .. Len(s),
           pos < Len(s) => \A m \in DOMAIN tree \ {Root} :
               w[<<m, pos + 1>>] <=> Found(tree, s, m, Len(m) - 1, pos + 1)
    PROVE  w[<<n, pos>>] <=> Found(tree, s, n, Len(n) - 1, pos)
<1>n. n \in Seq(STRING) /\ Len(n) \in Nat /\ Len(n) >= 1 /\ DOMAIN tree \subseteq Seq(STRING)
  BY DEF IsTree, Root
<1>l. Len(s) \in Nat /\ pos \in Nat
  OBVIOUS
<1>p. \A p \in TreeList(tree) : p \in Seq(STRING)
  BY DEF TreeList, IsTree
<1>w. w[<<n, pos>>] <=>
          /\ pos < Len(s) /\ Last(n) \in {s[pos + 1], Star, QMark}
          /\ IF pos + 1 < Len(s)
             THEN \/ \E c \in {s[pos + 2], QMark, Star} :
                        Append(n, c) \in DOMAIN tree /\ w[<<Append(n, c), pos + 1>>]
                  \/ Last(n) = Star /\ w[<<n, pos + 1>>]
             ELSE IsTerminal(tree, n)
  BY <1>n, WorkerAt
\* The rest of the pattern starts right after the next byte.
<1>1. ASSUME pos + 1 < Len(s)
      PROVE  Found(tree, s, n, Len(n), pos + 1) <=>
                 \E c \in {s[pos + 2], QMark, Star} :
                        Append(n, c) \in DOMAIN tree /\ w[<<Append(n, c), pos + 1>>]
  <2>1. pos + 1 \in 0 .. Len(s) /\ (pos + 1) + 1 = pos + 2 /\ pos < Len(s)
    BY <1>1, <1>l
  <2>2. ASSUME NEW c \in {s[pos + 2], QMark, Star}, Append(n, c) \in DOMAIN tree
        PROVE  w[<<Append(n, c), pos + 1>>] <=>
                   Found(tree, s, Append(n, c), Len(Append(n, c)) - 1, pos + 1)
    <3>1. s[pos + 2] \in STRING
      BY <1>1, <1>l
    <3>2. c \in STRING
      BY <3>1, Wildcards
    <3>3. Append(n, c) # Root
      BY <1>n, <3>2, AppendIsNotRoot
    <3> DEFINE m == Append(n, c)
    <3>4. m \in DOMAIN tree \ {Root}
      BY <2>2, <3>3
    <3> HIDE DEF m
    <3>5. w[<<m, pos + 1>>] <=> Found(tree, s, m, Len(m) - 1, pos + 1)
      BY <2>1, <3>4
    <3> QED
      BY <3>5 DEF m
  <2>3. Found(tree, s, n, Len(n), pos + 1) <=>
               \E c \in {s[pos + 2], QMark, Star} :
                   /\ Append(n, c) \in DOMAIN tree
                   /\ Found(tree, s, Append(n, c), Len(Append(n, c)) - 1, pos + 1)
    BY <1>1, <2>1, FoundBelow
  <2> QED
    BY <2>2, <2>3
<1>2. ASSUME pos < Len(s), Last(n) \in {s[pos + 1], Star, QMark}, Found(tree, s, n, Len(n), pos + 1)
      PROVE  Found(tree, s, n, Len(n) - 1, pos)
  <2>1. PICK p \in TreeList(tree) : IsPrefix(n, p) /\ Fits(p, Len(n), s, pos + 1)
    BY <1>2 DEF Found
  <2>2. /\ Len(n) - 1 \in 0 .. Len(p) - 1 /\ (Len(n) - 1) + 1 = Len(n)
        /\ Segment(p, Len(n), s, pos, pos + 1)
    BY <1>2, <1>n, <1>p, <2>1, OwnCharacter
  <2>3. pos + 1 \in pos + 1 .. Len(s)
    BY <1>2, <1>l
  <2>4. Fits(p, Len(n) - 1, s, pos)
    BY <1>p, <2>1, <2>2, <2>3, FitsNext
  <2> QED
    BY <2>1, <2>4 DEF Found
<1>3. ASSUME w[<<n, pos>>] PROVE Found(tree, s, n, Len(n) - 1, pos)
  <2>1. pos < Len(s) /\ Last(n) \in {s[pos + 1], Star, QMark}
    BY <1>3, <1>w
  <2>2. CASE ~(pos + 1 < Len(s))
    <3>1. n \in TreeList(tree) /\ IsPrefix(n, n)
      BY <1>3, <1>w, <1>n, <2>2 DEF TreeList, IsPrefix
    <3>2. pos + 1 = Len(s) /\ pos + 1 \in 0 .. Len(s)
      BY <1>l, <2>1, <2>2
    <3>3. Fits(n, Len(n), s, pos + 1)
      BY <1>n, <3>2, FitsEnd
    <3> QED
      BY <1>2, <2>1, <3>1, <3>3 DEF Found
  <2>3. CASE /\ pos + 1 < Len(s)
             /\ \E c \in {s[pos + 2], QMark, Star} :
                   Append(n, c) \in DOMAIN tree /\ w[<<Append(n, c), pos + 1>>]
    BY <1>1, <1>2, <2>1, <2>3
  <2>4. CASE pos + 1 < Len(s) /\ Last(n) = Star /\ w[<<n, pos + 1>>]
    <3>1. Found(tree, s, n, Len(n) - 1, pos + 1)
      BY <2>1, <2>4
    <3>2. PICK p \in TreeList(tree) : IsPrefix(n, p) /\ Fits(p, Len(n) - 1, s, pos + 1)
      BY <3>1 DEF Found
    <3>3. /\ Len(n) - 1 \in 0 .. Len(p) - 1 /\ (Len(n) - 1) + 1 = Len(n)
          /\ pos + 1 \in 0 .. Len(s) /\ (pos + 1) + 1 = pos + 2
      BY <1>n, <1>l, <1>p, <2>4, <3>2, OwnCharacter
    <3>4. PICK q \in pos + 2 .. Len(s) :
             Segment(p, Len(n), s, pos + 1, q) /\ Fits(p, Len(n), s, q)
      BY <1>p, <3>2, <3>3, FitsNext
    <3>5. Segment(p, Len(n), s, pos, q)
      BY <1>n, <1>p, <2>4, <3>2, <3>4, OwnCharacter
    <3>6. q \in pos + 1 .. Len(s)
      BY <1>l
    <3>7. Fits(p, Len(n) - 1, s, pos)
      BY <1>p, <3>2, <3>3, <3>4, <3>5, <3>6, FitsNext
    <3> QED
      BY <3>2, <3>7 DEF Found
  <2> QED
    BY <1>3, <1>w, <2>2, <2>3, <2>4
<1>4. ASSUME Found(tree, s, n, Len(n) - 1, pos) PROVE w[<<n, pos>>]
  <2>1. PICK p \in TreeList(tree) : IsPrefix(n, p) /\ Fits(p, Len(n) - 1, s, pos)
    BY <1>4 DEF Found
  <2>2. Len(n) - 1 \in 0 .. Len(p) - 1 /\ (Len(n) - 1) + 1 = Len(n) /\ p \in Seq(STRING)
    BY <1>n, <1>p, <2>1, OwnCharacter
  <2>3. PICK q \in pos + 1 .. Len(s) : Segment(p, Len(n), s, pos, q) /\ Fits(p, Len(n), s, q)
    BY <2>1, <2>2, FitsNext
  <2>4. pos < Len(s) /\ Last(n) \in {s[pos + 1], Star, QMark}
    BY <1>n, <1>l, <2>1, <2>2, <2>3, OwnCharacter
  <2>5. CASE ~(pos + 1 < Len(s))
    <3>1. q = Len(s) /\ Len(n) \in 0 .. Len(p)
      BY <1>l, <1>n, <2>2, <2>5
    <3>2. Len(n) = Len(p)
      BY <2>2, <2>3, <3>1, FitsNothing
    <3>3. n = p
      BY <1>n, <2>1, <2>2, <3>2, WholePrefix
    <3>4. IsTerminal(tree, n)
      BY <3>3 DEF TreeList
    <3> QED
      BY <1>w, <2>4, <2>5, <3>4
  <2>6. CASE pos + 1 < Len(s) /\ q = pos + 1
    <3>1. Found(tree, s, n, Len(n), pos + 1)
      BY <2>1, <2>3, <2>6 DEF Found
    <3> QED
      BY <1>1, <1>w, <2>4, <2>6, <3>1
  <2>7. CASE pos + 1 < Len(s) /\ q # pos + 1
    <3>1. q \in pos + 2 .. Len(s) /\ (pos + 1) + 1 = pos + 2 /\ pos + 1 \in 0 .. Len(s)
      BY <1>l, <2>7
    <3>2. Last(n) = Star /\ Segment(p, Len(n), s, pos + 1, q)
      BY <1>n, <2>1, <2>2, <2>3, <3>1, OwnCharacter
    <3>3. Fits(p, Len(n) - 1, s, pos + 1)
      BY <2>2, <2>3, <3>1, <3>2, FitsNext
    <3>4. Found(tree, s, n, Len(n) - 1, pos + 1)
      BY <2>1, <3>3 DEF Found
    <3>5. w[<<n, pos + 1>>]
      BY <2>4, <3>4
    <3> QED
      BY <1>w, <2>4, <2>7, <3>2, <3>5
  <2> QED
    BY <2>5, <2>6, <2>7
<1> QED
  BY <1>3, <1>4

\* The worker is right everywhere below the root: a wrong answer closest to the
\* end of the string would come from none.
LEMMA WorkerRight ==
    ASSUME NEW tree, IsTree(tree), NEW s \in Seq(STRING), NEW w, IsWorker(tree, s, w)
    PROVE  \A n \in DOMAIN tree \ {Root} : \A pos \in 0 .. Len(s) :
               w[<<n, pos>>] <=> Found(tree, s, n, Len(n) - 1, pos)
<1> DEFINE Right(pos) == \A n \in DOMAIN tree \ {Root} :
                            w[<<n, pos>>] <=> Found(tree, s, n, Len(n) - 1, pos)
           Wrong == {k \in 0 .. Len(s) : ~Right(Len(s) - k)}
<1>l. Len(s) \in Nat
  OBVIOUS
<1>1. Wrong = {}
  <2> SUFFICES ASSUME Wrong # {} PROVE FALSE
    OBVIOUS
  <2>1. Wrong \in SUBSET Nat
    BY <1>l
  <2>2. PICK k \in Wrong : \A j \in Wrong : k <= j
    <3> HIDE DEF Wrong
    <3> QED
      BY <2>1, LeastElement
  <2> DEFINE pos == Len(s) - k
  <2>3. pos \in 0 .. Len(s) /\ ~Right(pos)
    BY <1>l
  <2>4. ASSUME pos < Len(s) PROVE Right(pos + 1)
    <3>1. k - 1 \in 0 .. Len(s) /\ ~(k <= k - 1) /\ Len(s) - (k - 1) = pos + 1
      BY <1>l, <2>4
    <3>2. k - 1 \notin Wrong
      <4> HIDE DEF Wrong
      <4> QED
        BY <2>2, <3>1
    <3>3. Right(Len(s) - (k - 1))
      <4> HIDE DEF Right
      <4> QED
        BY <3>1, <3>2
    <3> HIDE DEF Right, pos
    <3> QED
      BY <3>1, <3>3
  <2>5. Right(pos)
    <3> HIDE DEF pos
    <3> QED
      BY <2>3, <2>4, WorkerStepRight
  <2> QED
    BY <2>3, <2>5
<1>2. ASSUME NEW pos \in 0 .. Len(s) PROVE Right(pos)
  <2>1. Len(s) - pos \in 0 .. Len(s) /\ Len(s) - (Len(s) - pos) = pos
    BY <1>l
  <2> HIDE DEF Right
  <2>2. Right(Len(s) - (Len(s) - pos))
    BY <1>1, <2>1
  <2> QED
    BY <2>1, <2>2
<1> QED
  BY <1>2

\* check() on a tree finds a match exactly when one of the patterns that list()
\* returns matches the string by the reference definition: sharing the walk
\* between the patterns and backtracking over "?" and "*" neither misses nor
\* invents a match, for patterns and strings of every length.
THEOREM MatchStringIsRight ==
    ASSUME NEW tree, IsTree(tree), NEW s \in Seq(STRING)
    PROVE  MatchString(tree, s) <=> \E p \in TreeList(tree) : GlobMatches(p, s)
<1>1. DOMAIN tree \subseteq Seq(STRING) /\ Root \in DOMAIN tree
  BY DEF IsTree
<1>2. PICK w : IsWorker(tree, s, w) /\ (MatchString(tree, s) <=> w[<<Root, 0>>])
  BY <1>1, WorkerExists
<1>3. w[<<Root, 0>>] <=>
          IF 0 < Len(s)
          THEN \E c \in {s[1], QMark, Star} :
                  Append(Root, c) \in DOMAIN tree /\ w[<<Append(Root, c), 0>>]
          ELSE IsTerminal(tree, Root)
  BY <1>1, <1>2, WorkerAt
<1>4. ASSUME NEW p \in TreeList(tree)
      PROVE  /\ p \in Seq(STRING) /\ IsPrefix(Root, p)
             /\ GlobMatches(p, s) <=> Fits(p, 0, s, 0)
  <2>1. p \in Seq(STRING)
    BY <1>1 DEF TreeList
  <2>2. IsPrefix(Root, p)
    BY <2>1 DEF Root, IsPrefix
  <2> QED
    BY <2>1, <2>2, MatchesFits
<1>5. (\E p \in TreeList(tree) : GlobMatches(p, s)) <=> Found(tree, s, Root, 0, 0)
  BY <1>4 DEF Found
<1>6. CASE 0 < Len(s)
  <2>1. 0 \in 0 .. Len(s) /\ 0 + 1 = 1 /\ s[1] \in STRING /\ Len(Root) = 0
    BY <1>6 DEF Root
  <2>2. Found(tree, s, Root, Len(Root), 0) <=>
            \E c \in {s[0 + 1], QMark, Star} :
                /\ Append(Root, c) \in DOMAIN tree
                /\ Found(tree, s, Append(Root, c), Len(Append(Root, c)) - 1, 0)
    BY <1>1, <1>6, <2>1, FoundBelow
  <2>3. ASSUME NEW c \in {s[1], QMark, Star}, Append(Root, c) \in DOMAIN tree
        PROVE  w[<<Append(Root, c), 0>>] <=>
                   Found(tree, s, Append(Root, c), Len(Append(Root, c)) - 1, 0)
    <3>1. c \in STRING /\ Root \in Seq(STRING)
      BY <1>1, <2>1, Wildcards
    <3> DEFINE m == Append(Root, c)
    <3>2. m \in DOMAIN tree \ {Root}
      BY <2>3, <3>1, AppendIsNotRoot
    <3> HIDE DEF m
    <3>3. w[<<m, 0>>] <=> Found(tree, s, m, Len(m) - 1, 0)
      BY <1>2, <2>1, <3>2, WorkerRight
    <3> QED
      BY <3>3 DEF m
  <2>4. Found(tree, s, Root, 0, 0) <=>
            \E c \in {s[1], QMark, Star} :
                Append(Root, c) \in DOMAIN tree /\ w[<<Append(Root, c), 0>>]
    BY <2>1, <2>2, <2>3
  <2> QED
    BY <1>2, <1>3, <1>5, <1>6, <2>4
<1>7. CASE ~(0 < Len(s))
  <2>1. Len(s) = 0 /\ 0 \in 0 .. Len(s)
    BY <1>7
  <2>2. ASSUME IsTerminal(tree, Root) PROVE Found(tree, s, Root, 0, 0)
    <3>1. Root \in TreeList(tree) /\ Root \in Seq(STRING) /\ Len(Root) = 0
      BY <1>1, <2>2 DEF TreeList, Root
    <3>2. Fits(Root, Len(Root), s, 0)
      BY <2>1, <3>1, FitsEnd
    <3> QED
      BY <1>4, <3>1, <3>2 DEF Found
  <2>3. ASSUME Found(tree, s, Root, 0, 0) PROVE IsTerminal(tree, Root)
    <3>1. PICK p \in TreeList(tree) : Fits(p, 0, s, 0)
      BY <2>3 DEF Found
    <3>2. p \in Seq(STRING) /\ 0 \in 0 .. Len(p)
      BY <1>4
    <3>3. 0 = Len(p)
      BY <2>1, <3>1, <3>2, FitsNothing
    <3>4. p = Root
      BY <3>2, <3>3 DEF Root
    <3> QED
      BY <3>4 DEF TreeList
  <2> QED
    BY <1>2, <1>3, <1>5, <1>7, <2>2, <2>3
<1> QED
  BY <1>6, <1>7

-----------------------------------------------------------------------------
(* Counts                                                                  *)

\* A tree as insert() and remove() leave it.
WellCounted(tree) ==
    /\ IsTree(tree) /\ IsFiniteSet(DOMAIN tree)
    /\ \A n \in DOMAIN tree : tree[n] \in Nat /\ (n # Root => tree[n] >= 1)

\* The count of a node, zero if there is none.
CountAt(tree, n) == IF n \in DOMAIN tree THEN tree[n] ELSE 0

\* The path to a pattern: what begins it, but for the root.
LEMMA PathToIs ==
    ASSUME NEW p \in Seq(STRING)
    PROVE  /\ \A n : n \in PathTo(p) <=> n \in Seq(STRING) /\ IsPrefix(n, p) /\ n # Root
           /\ IsFiniteSet(PathTo(p)) /\ Root \notin PathTo(p)
           /\ p # Root => p \in PathTo(p)
<1>1. \A n : n \in Prefixes(p) <=> n \in Seq(STRING) /\ IsPrefix(n, p)
  BY PrefixesAre
<1>2. IsFiniteSet(PathTo(p))
  <2> DEFINE f == [l \in 0 .. Len(p) |-> SubSeq(p, 1, l)]
  <2>1. IsFiniteSet(0 .. Len(p))
    BY FS_Interval
  <2>2. f \in Surjection(0 .. Len(p), Prefixes(p))
    BY DEF Surjection, Prefixes
  <2>3. IsFiniteSet(Prefixes(p))
    <3> HIDE DEF f
    <3> QED
      BY <2>1, <2>2, FS_Surjection DEF ExistsSurjection
  <2> QED
    BY <2>3, FS_Subset DEF PathTo
<1>3. IsPrefix(p, p)
  BY DEF IsPrefix
<1> QED
  BY <1>1, <1>2, <1>3 DEF PathTo

\* Of the children of a node at most one is on the path.
LEMMA ChildOnPath ==
    ASSUME NEW n \in Seq(STRING), NEW m \in Seq(STRING), NEW p \in Seq(STRING),
           Len(m) = Len(n) + 1, IsPrefix(n, m), IsPrefix(m, p)
    PROVE  IsPrefix(n, p) /\ Len(n) < Len(p) /\ m = Append(n, p[Len(n) + 1])
<1>1. IsPrefix(n, p)
  BY PrefixOrder
<1>2. Len(m) <= Len(p) /\ Len(n) < Len(p)
  BY DEF IsPrefix
<1> DEFINE c == Append(n, p[Len(n) + 1])
<1>3. p[Len(n) + 1] \in STRING /\ c \in Seq(STRING) /\ IsPrefix(c, p)
  BY <1>1, <1>2, NextOnPath
<1>4. Len(c) = Len(m)
  BY <1>3
<1> HIDE DEF c
<1>5. IsPrefix(m, c)
  BY <1>3, <1>4, PrefixOrder
<1>6. m = c
  BY <1>3, <1>4, <1>5, WholePrefix
<1> QED
  BY <1>1, <1>2, <1>6 DEF c

\* The child of n on the way to p.
LEMMA ChildToPath ==
    ASSUME NEW n \in Seq(STRING), NEW p \in Seq(STRING), IsPrefix(n, p), n # p
    PROVE  \E c \in PathTo(p) : /\ Len(c) = Len(n) + 1 /\ IsPrefix(n, c)
                                /\ c = Append(n, p[Len(n) + 1]) /\ c \in Seq(STRING)
<1>1. Len(n) <= Len(p) /\ Len(n) # Len(p)
  BY WholePrefix DEF IsPrefix
<1>2. Len(n) < Len(p) /\ Len(n) \in Nat
  BY <1>1
<1> DEFINE x == p[Len(n) + 1]
           c == Append(n, x)
<1>3. x \in STRING /\ c \in Seq(STRING) /\ IsPrefix(c, p)
  BY <1>2, NextOnPath
<1>4. c # Root /\ Len(c) = Len(n) + 1
  <2>1. x \in STRING
    BY <1>3
  <2> HIDE DEF x
  <2>2. Append(n, x) # Root
    BY <2>1, AppendIsNotRoot
  <2>3. Len(Append(n, x)) = Len(n) + 1
    BY <2>1
  <2> QED
    BY <2>2, <2>3
<1>5. IsPrefix(n, c)
  <2> HIDE DEF c
  <2> QED
    BY <1>2, <1>3, <1>4, PrefixOrder
<1>6. c \in PathTo(p)
  <2> HIDE DEF c
  <2> QED
    BY <1>3, <1>4, PathToIs
<1> QED
  BY <1>3, <1>4, <1>5, <1>6

\* The children of a node are finitely many, and their counts are numbers.
LEMMA ChildrenAre ==
    ASSUME NEW tree, WellCounted(tree), NEW n
    PROVE  /\ IsFiniteSet(Children(tree, n)) /\ \A m \in Children(tree, n) : tree[m] \in Nat
           /\ ChildCount(tree, n) = SumOver(tree, Children(tree, n))
           /\ ChildCount(tree, n) \in Nat
           /\ Children(tree, n) = {} => ChildCount(tree, n) = 0
<1>1. IsFiniteSet(Children(tree, n)) /\ \A m \in Children(tree, n) : tree[m] \in Nat
  BY FS_Subset DEF WellCounted, Children
<1>2. ChildCount(tree, n) = SumOver(tree, Children(tree, n))
  BY DEF ChildCount, SumOver
<1> QED
  BY <1>1, <1>2, SumTakesAny, SumPicks

\* A change of the tree that touches only nodes on the way to p: the counts of
\* the children of n change by what happens to the child on the path.
LEMMA ChildCountChanges ==
    ASSUME NEW a, WellCounted(a), NEW b, WellCounted(b), NEW n, NEW c,
           Children(a, n) \ {c} = Children(b, n) \ {c},
           \A m \in Children(a, n) \ {c} : b[m] = a[m]
    PROVE  \E r \in Nat :
              /\ ChildCount(a, n) = r + (IF c \in Children(a, n) THEN a[c] ELSE 0)
              /\ ChildCount(b, n) = r + (IF c \in Children(b, n) THEN b[c] ELSE 0)
<1> DEFINE S == Children(a, n)
           T == Children(b, n)
<1>1. /\ IsFiniteSet(S) /\ (\A m \in S : a[m] \in Nat) /\ ChildCount(a, n) = SumOver(a, S)
      /\ IsFiniteSet(T) /\ (\A m \in T : b[m] \in Nat) /\ ChildCount(b, n) = SumOver(b, T)
  BY ChildrenAre
<1>2. S \ {c} = T \ {c} /\ \A m \in S \ {c} : b[m] = a[m]
  OBVIOUS
<1> HIDE DEF S, T
<1>3. \E r \in Nat : /\ SumOver(a, S) = r + (IF c \in S THEN a[c] ELSE 0)
                     /\ SumOver(b, T) = r + (IF c \in T THEN b[c] ELSE 0)
  BY <1>1, <1>2, SumExcept
<1> QED
  BY <1>1, <1>3 DEF S, T

\* insert() counts the nodes on the way, and nothing else.
CountsInserted(tree, p, t) ==
    /\ DOMAIN t = DOMAIN tree \cup PathTo(p)
    /\ \A n \in DOMAIN t : t[n] = CountAt(tree, n) + (IF n \in PathTo(p) THEN 1 ELSE 0)
                                                   + (IF n = p THEN 1 ELSE 0)
    /\ \A n : CountAt(tree, n) \in Nat

\* TreeInsert, element by element.
LEMMA InsertCounts ==
    ASSUME NEW tree, WellCounted(tree), NEW p \in Seq(STRING)
    PROVE  CountsInserted(tree, p, TreeInsert(tree, p))
<1>1. PICK t : t = TreeInsert(tree, p)
  OBVIOUS
<1>2. t = [n \in DOMAIN tree \cup PathTo(p) |->
               CountAt(tree, n) + (IF n \in PathTo(p) THEN 1 ELSE 0) + (IF n = p THEN 1 ELSE 0)]
  BY <1>1 DEF TreeInsert, CountAt
<1>3. ASSUME NEW n PROVE CountAt(tree, n) \in Nat
  BY DEF CountAt, WellCounted
<1>4. DOMAIN t = DOMAIN tree \cup PathTo(p)
  BY <1>2
<1>5. ASSUME NEW n \in DOMAIN t
      PROVE  t[n] = CountAt(tree, n) + (IF n \in PathTo(p) THEN 1 ELSE 0)
                                     + (IF n = p THEN 1 ELSE 0)
  BY <1>2, <1>4, <1>5
<1>6. CountsInserted(tree, p, t)
  BY <1>3, <1>4, <1>5 DEF CountsInserted
<1> QED
  BY <1>1, <1>6

\* insert() leaves a tree.
LEMMA InsertWellCounted ==
    ASSUME NEW tree, WellCounted(tree), NEW p \in Seq(STRING)
    PROVE  WellCounted(TreeInsert(tree, p))
<1> DEFINE t == TreeInsert(tree, p)
<1>1. /\ DOMAIN t = DOMAIN tree \cup PathTo(p)
      /\ \A n \in DOMAIN t : t[n] = CountAt(tree, n) + (IF n \in PathTo(p) THEN 1 ELSE 0)
                                                     + (IF n = p THEN 1 ELSE 0)
      /\ \A n : CountAt(tree, n) \in Nat
  <2>1. CountsInserted(tree, p, t)
    BY InsertCounts
  <2> HIDE DEF t
  <2> QED
    BY <2>1 DEF CountsInserted
<1>2. /\ \A n : n \in PathTo(p) <=> n \in Seq(STRING) /\ IsPrefix(n, p) /\ n # Root
      /\ IsFiniteSet(PathTo(p))
  BY PathToIs
<1> HIDE DEF t
<1>3. DOMAIN t \subseteq Seq(STRING) /\ Root \in DOMAIN t /\ IsFiniteSet(DOMAIN t)
  <2>1. IsFiniteSet(DOMAIN tree) /\ IsFiniteSet(PathTo(p)) /\ DOMAIN t = DOMAIN tree \cup PathTo(p)
    BY <1>1, <1>2 DEF WellCounted
  <2>2. IsFiniteSet(DOMAIN t)
    BY <2>1, FS_Union, ZenonT(30)
  <2> QED
    BY <1>1, <1>2, <2>1, <2>2 DEF WellCounted, IsTree
<1>4. ASSUME NEW n \in DOMAIN t, NEW m \in Prefixes(n) PROVE m \in DOMAIN t
  <2>1. CASE n \in DOMAIN tree
    BY <1>1, <1>4, <2>1 DEF WellCounted, IsTree
  <2>2. CASE n \in PathTo(p)
    <3>1. m \in Seq(STRING) /\ IsPrefix(m, n) /\ n \in Seq(STRING) /\ IsPrefix(n, p)
      BY <1>2, <1>4, <2>2, PrefixesAre
    <3>2. IsPrefix(m, p)
      BY <3>1, PrefixOrder
    <3> QED
      BY <1>1, <1>2, <1>3, <3>1, <3>2
  <2> QED
    BY <1>1, <1>4, <2>1, <2>2
<1>5. ASSUME NEW n \in DOMAIN t PROVE t[n] \in Nat /\ (n # Root => t[n] >= 1)
  <2>1. CASE n \in PathTo(p)
    BY <1>1, <2>1
  <2>2. CASE n \notin PathTo(p)
    <3>1. n \in DOMAIN tree /\ CountAt(tree, n) = tree[n]
      BY <1>1, <2>2 DEF CountAt
    <3>2. tree[n] \in Nat /\ (n # Root => tree[n] >= 1)
      BY <3>1 DEF WellCounted
    <3> QED
      BY <1>1, <2>2, <3>1, <3>2
  <2> QED
    BY <2>1, <2>2
<1> QED
  BY <1>3, <1>4, <1>5 DEF WellCounted, IsTree, t

\* insert() adds the pattern, and no other.
LEMMA InsertAddsOne ==
    ASSUME NEW tree, WellCounted(tree), NEW p \in Seq(STRING),
           NEW n \in TreeList(TreeInsert(tree, p)), n # p
    PROVE  n \in TreeList(tree)
<1> DEFINE t == TreeInsert(tree, p)
<1>1. /\ DOMAIN t = DOMAIN tree \cup PathTo(p)
      /\ \A m \in DOMAIN t : t[m] = CountAt(tree, m) + (IF m \in PathTo(p) THEN 1 ELSE 0)
                                                     + (IF m = p THEN 1 ELSE 0)
      /\ \A m : CountAt(tree, m) \in Nat
  <2>1. CountsInserted(tree, p, t)
    BY InsertCounts
  <2> HIDE DEF t
  <2> QED
    BY <2>1 DEF CountsInserted
<1>2. \A m : m \in PathTo(p) <=> m \in Seq(STRING) /\ IsPrefix(m, p) /\ m # Root
  BY PathToIs
<1>3. WellCounted(t) /\ n \in DOMAIN t /\ ChildCount(t, n) < t[n]
  BY InsertWellCounted DEF TreeList, IsTerminal
<1> HIDE DEF t
<1>4. n \in Seq(STRING) /\ ChildCount(tree, n) \in Nat /\ ChildCount(t, n) \in Nat
  BY <1>3, ChildrenAre DEF WellCounted, IsTree
<1>5. ASSUME NEW m \in Children(t, n), m \in PathTo(p) \/ m = p
      PROVE  IsPrefix(n, p) /\ m = Append(n, p[Len(n) + 1])
  <2>1. m \in Seq(STRING) /\ Len(m) = Len(n) + 1 /\ IsPrefix(n, m)
    BY <1>3, <1>5 DEF Children, WellCounted, IsTree
  <2>2. IsPrefix(m, p)
    BY <1>2, <1>5 DEF IsPrefix
  <2> QED
    BY <1>4, <2>1, <2>2, ChildOnPath
<1>6. ASSUME NEW c, \A m \in Children(t, n) : m \in PathTo(p) \/ m = p => m = c
      PROVE  /\ Children(tree, n) \ {c} = Children(t, n) \ {c}
             /\ \A m \in Children(tree, n) \ {c} : t[m] = tree[m]
  <2>1. Children(tree, n) \subseteq Children(t, n)
    BY <1>1 DEF Children
  <2>2. ASSUME NEW m \in Children(t, n) \ {c}
        PROVE  m \in Children(tree, n) /\ t[m] = tree[m]
    <3>1. m \notin PathTo(p) /\ m # p /\ m \in DOMAIN t
      BY <1>6, <2>2 DEF Children
    <3>2. m \in DOMAIN tree /\ CountAt(tree, m) = tree[m]
      BY <1>1, <3>1 DEF CountAt
    <3>3. CountAt(tree, m) + 0 + 0 = CountAt(tree, m)
      BY <1>1
    <3> QED
      BY <1>1, <2>2, <3>1, <3>2, <3>3 DEF Children
  <2> QED
    BY <2>1, <2>2
<1>7. CASE IsPrefix(n, p)
  <2>1. PICK c \in PathTo(p) : /\ Len(c) = Len(n) + 1 /\ IsPrefix(n, c)
                               /\ c = Append(n, p[Len(n) + 1])
    BY <1>4, <1>7, ChildToPath
  <2>2. c \in Children(t, n) /\ t[c] >= CountAt(tree, c) + 1 /\ t[c] \in Nat
    BY <1>1, <1>3, <2>1 DEF Children, WellCounted
  <2>3. PICK r \in Nat :
          /\ ChildCount(tree, n) = r + (IF c \in Children(tree, n) THEN tree[c] ELSE 0)
          /\ ChildCount(t, n) = r + (IF c \in Children(t, n) THEN t[c] ELSE 0)
    <3>1. \A m \in Children(t, n) : m \in PathTo(p) \/ m = p => m = c
      BY <1>5, <2>1
    <3>2. /\ Children(tree, n) \ {c} = Children(t, n) \ {c}
          /\ \A m \in Children(tree, n) \ {c} : t[m] = tree[m]
      BY <1>6, <3>1
    <3> QED
      BY <1>3, <3>2, ChildCountChanges
  <2>4. (IF c \in Children(tree, n) THEN tree[c] ELSE 0) = CountAt(tree, c)
    BY <2>1 DEF Children, CountAt
  <2>5. ChildCount(tree, n) = r + CountAt(tree, c) /\ ChildCount(t, n) = r + t[c]
    BY <2>2, <2>3, <2>4
  <2>6. t[n] <= CountAt(tree, n) + 1
    BY <1>1, <1>3
  <2>7. ChildCount(tree, n) < CountAt(tree, n)
    <3>1. CountAt(tree, c) \in Nat /\ CountAt(tree, n) \in Nat /\ t[n] \in Nat
      BY <1>1, <1>3 DEF WellCounted
    <3> QED
      BY <1>3, <2>2, <2>5, <2>6, <3>1
  <2>8. n \in DOMAIN tree
    BY <1>4, <2>7 DEF CountAt
  <2> QED
    BY <2>7, <2>8 DEF CountAt, TreeList, IsTerminal
<1>8. CASE ~IsPrefix(n, p)
  <2>1. n \notin PathTo(p)
    BY <1>2, <1>8
  <2>2. n \in DOMAIN tree /\ t[n] = tree[n]
    <3>1. n \in DOMAIN tree /\ CountAt(tree, n) = tree[n]
      BY <1>1, <1>3, <2>1 DEF CountAt
    <3>2. CountAt(tree, n) + 0 + 0 = CountAt(tree, n)
      BY <1>1
    <3> QED
      BY <1>1, <1>3, <2>1, <3>1, <3>2
  <2>3. PICK r \in Nat :
          /\ ChildCount(tree, n) = r + (IF n \in Children(tree, n) THEN tree[n] ELSE 0)
          /\ ChildCount(t, n) = r + (IF n \in Children(t, n) THEN t[n] ELSE 0)
    <3>1. \A m \in Children(t, n) : m \in PathTo(p) \/ m = p => m = n
      BY <1>5, <1>8
    <3>2. /\ Children(tree, n) \ {n} = Children(t, n) \ {n}
          /\ \A m \in Children(tree, n) \ {n} : t[m] = tree[m]
      BY <1>6, <3>1
    <3>3. WellCounted(tree) /\ WellCounted(t)
      BY <1>3
    <3> QED
      BY <3>2, <3>3, ChildCountChanges
  <2>4. n \notin Children(tree, n) /\ n \notin Children(t, n)
    BY <1>4 DEF Children
  <2>5. ChildCount(tree, n) = ChildCount(t, n)
    BY <2>3, <2>4
  <2> QED
    BY <1>3, <2>2, <2>5 DEF TreeList, IsTerminal
<1> QED
  BY <1>7, <1>8

\* insert() takes no other pattern out of the list: what a node on the way gets
\* is what its child gets, except for the parent of the last node and the root.
LEMMA InsertKeeps ==
    ASSUME NEW tree, WellCounted(tree), NEW p \in Seq(STRING),
           NEW n \in TreeList(tree), n # Root, Len(n) # Len(p) - 1 \/ ~IsPrefix(n, p)
    PROVE  n \in TreeList(TreeInsert(tree, p))
<1> DEFINE t == TreeInsert(tree, p)
<1>1. /\ DOMAIN t = DOMAIN tree \cup PathTo(p)
      /\ \A m \in DOMAIN t : t[m] = CountAt(tree, m) + (IF m \in PathTo(p) THEN 1 ELSE 0)
                                                     + (IF m = p THEN 1 ELSE 0)
      /\ \A m : CountAt(tree, m) \in Nat
  <2>1. CountsInserted(tree, p, t)
    BY InsertCounts
  <2> HIDE DEF t
  <2> QED
    BY <2>1 DEF CountsInserted
<1>2. \A m : m \in PathTo(p) <=> m \in Seq(STRING) /\ IsPrefix(m, p) /\ m # Root
  BY PathToIs
<1>3. WellCounted(t) /\ n \in DOMAIN tree /\ ChildCount(tree, n) < tree[n]
  BY InsertWellCounted DEF TreeList, IsTerminal
<1> HIDE DEF t
<1>4. /\ n \in Seq(STRING) /\ ChildCount(tree, n) \in Nat /\ ChildCount(t, n) \in Nat
      /\ n \in DOMAIN t /\ CountAt(tree, n) = tree[n] /\ tree[n] \in Nat /\ t[n] \in Nat
  BY <1>1, <1>3, ChildrenAre DEF WellCounted, IsTree, CountAt
<1>5. \A m \in Children(t, n) : m \in PathTo(p) \/ m = p =>
          IsPrefix(n, p) /\ Len(n) < Len(p) /\ m = Append(n, p[Len(n) + 1])
  <2> SUFFICES ASSUME NEW m \in Children(t, n), m \in PathTo(p) \/ m = p
               PROVE  IsPrefix(n, p) /\ Len(n) < Len(p) /\ m = Append(n, p[Len(n) + 1])
    OBVIOUS
  <2>1. m \in Seq(STRING) /\ Len(m) = Len(n) + 1 /\ IsPrefix(n, m)
    BY <1>3 DEF Children, WellCounted, IsTree
  <2>2. IsPrefix(m, p)
    BY <1>2 DEF IsPrefix
  <2> QED
    BY <1>4, <2>1, <2>2, ChildOnPath
<1>6. ASSUME NEW c, \A m \in Children(t, n) : m \in PathTo(p) \/ m = p => m = c
      PROVE  \E r \in Nat :
               /\ ChildCount(tree, n) = r + (IF c \in Children(tree, n) THEN tree[c] ELSE 0)
               /\ ChildCount(t, n) = r + (IF c \in Children(t, n) THEN t[c] ELSE 0)
  <2>1. Children(tree, n) \subseteq Children(t, n)
    BY <1>1 DEF Children
  <2>2. ASSUME NEW m \in Children(t, n) \ {c}
        PROVE  m \in Children(tree, n) /\ t[m] = tree[m]
    <3>1. m \notin PathTo(p) /\ m # p /\ m \in DOMAIN t
      BY <1>6, <2>2 DEF Children
    <3>2. m \in DOMAIN tree /\ CountAt(tree, m) = tree[m]
      BY <1>1, <3>1 DEF CountAt
    <3>3. CountAt(tree, m) + 0 + 0 = CountAt(tree, m)
      BY <1>1
    <3> QED
      BY <1>1, <2>2, <3>1, <3>2, <3>3 DEF Children
  <2>3. /\ Children(tree, n) \ {c} = Children(t, n) \ {c}
        /\ \A m \in Children(tree, n) \ {c} : t[m] = tree[m]
    BY <2>1, <2>2
  <2> QED
    BY <1>3, <2>3, ChildCountChanges
<1>7. CASE IsPrefix(n, p) /\ n # p
  <2>1. PICK c \in PathTo(p) : /\ Len(c) = Len(n) + 1 /\ IsPrefix(n, c)
                               /\ c = Append(n, p[Len(n) + 1]) /\ c \in Seq(STRING)
    BY <1>4, <1>7, ChildToPath
  <2>2. c # p /\ n \in PathTo(p)
    <3>1. Len(n) \in Nat /\ Len(p) \in Nat
      BY <1>4
    <3> QED
      BY <1>2, <1>4, <1>7, <2>1, <3>1
  <2>3. c \in Children(t, n) /\ t[c] = CountAt(tree, c) + 1 /\ CountAt(tree, c) \in Nat
    <3>1. c \in DOMAIN t /\ t[c] = CountAt(tree, c) + 1 + 0 /\ CountAt(tree, c) \in Nat
      BY <1>1, <2>1, <2>2
    <3> QED
      BY <2>1, <3>1 DEF Children
  <2>4. t[n] = tree[n] + 1
    <3>1. t[n] = CountAt(tree, n) + 1 + 0
      BY <1>1, <1>4, <1>7, <2>2
    <3> QED
      BY <1>4, <3>1
  <2>5. PICK r \in Nat :
          /\ ChildCount(tree, n) = r + (IF c \in Children(tree, n) THEN tree[c] ELSE 0)
          /\ ChildCount(t, n) = r + (IF c \in Children(t, n) THEN t[c] ELSE 0)
    BY <1>5, <1>6, <2>1
  <2>6. (IF c \in Children(tree, n) THEN tree[c] ELSE 0) = CountAt(tree, c)
    BY <2>1 DEF Children, CountAt
  <2>7. ChildCount(tree, n) = r + CountAt(tree, c) /\ ChildCount(t, n) = r + (CountAt(tree, c) + 1)
    BY <2>3, <2>5, <2>6
  <2>8. ChildCount(t, n) < t[n]
    BY <1>3, <1>4, <2>3, <2>4, <2>7
  <2> QED
    BY <1>4, <2>8 DEF TreeList, IsTerminal, t
<1>8. CASE ~IsPrefix(n, p) \/ n = p
  <2>1. \A m \in Children(t, n) : m \notin PathTo(p) /\ m # p
    <3>1. n = p => ~(Len(n) < Len(p))
      BY <1>4
    <3> QED
      BY <1>5, <1>8, <3>1
  <2>2. PICK r \in Nat :
          /\ ChildCount(tree, n) = r + (IF n \in Children(tree, n) THEN tree[n] ELSE 0)
          /\ ChildCount(t, n) = r + (IF n \in Children(t, n) THEN t[n] ELSE 0)
    BY <1>6, <2>1
  <2>3. n \notin Children(tree, n) /\ n \notin Children(t, n)
    BY <1>4 DEF Children
  <2>4. ChildCount(t, n) = ChildCount(tree, n)
    BY <2>2, <2>3
  <2>5. t[n] >= tree[n]
    BY <1>1, <1>4
  <2>6. ChildCount(t, n) < t[n]
    BY <1>3, <1>4, <2>4, <2>5
  <2> QED
    BY <1>4, <2>6 DEF TreeList, IsTerminal, t
<1> QED
  BY <1>7, <1>8

\* remove() counts down on the way, and cuts off what is at one and all below.
CountsRemoved(tree, p, t) ==
    /\ DOMAIN t = {n \in DOMAIN tree : \A m \in PathTo(p) : tree[m] = 1 => ~IsPrefix(m, n)}
    /\ \A n \in DOMAIN t : t[n] = IF n \in PathTo(p) THEN tree[n] - 1 ELSE tree[n]

\* TreeRemove of a pattern that is there, element by element.
LEMMA RemoveCounts ==
    ASSUME NEW tree, NEW p, TreeContains(tree, p)
    PROVE  CountsRemoved(tree, p, TreeRemove(tree, p))
<1> DEFINE cut  == {n \in PathTo(p) : tree[n] = 1}
           gone == {n \in DOMAIN tree : \E m \in cut : IsPrefix(m, n)}
<1>1. PICK t : t = TreeRemove(tree, p)
  OBVIOUS
<1>2. t = [n \in DOMAIN tree \ gone |-> IF n \in PathTo(p) THEN tree[n] - 1 ELSE tree[n]]
  BY <1>1 DEF TreeRemove
<1>3. DOMAIN t = {n \in DOMAIN tree : \A m \in PathTo(p) : tree[m] = 1 => ~IsPrefix(m, n)}
  BY <1>2
<1>4. ASSUME NEW n \in DOMAIN t PROVE t[n] = IF n \in PathTo(p) THEN tree[n] - 1 ELSE tree[n]
  <2> HIDE DEF gone
  <2> QED
    BY <1>2, <1>4
<1>5. CountsRemoved(tree, p, t)
  BY <1>3, <1>4 DEF CountsRemoved
<1> QED
  BY <1>1, <1>5

\* remove() leaves a tree.
LEMMA RemoveWellCounted ==
    ASSUME NEW tree, WellCounted(tree), NEW p \in Seq(STRING)
    PROVE  WellCounted(TreeRemove(tree, p))
<1>1. CASE ~TreeContains(tree, p)
  BY <1>1 DEF TreeRemove
<1>2. CASE TreeContains(tree, p)
  <2> DEFINE t == TreeRemove(tree, p)
  <2>1. CountsRemoved(tree, p, t)
    BY <1>2, RemoveCounts
  <2>2. \A n : n \in PathTo(p) <=> n \in Seq(STRING) /\ IsPrefix(n, p) /\ n # Root
    BY PathToIs
  <2> HIDE DEF t
  <2>3. DOMAIN t \subseteq DOMAIN tree
    BY <2>1 DEF CountsRemoved
  <2>4. IsFiniteSet(DOMAIN t) /\ DOMAIN t \subseteq Seq(STRING)
    BY <2>3, FS_Subset DEF WellCounted, IsTree
  <2>5. Root \in DOMAIN t
    <3>1. ASSUME NEW m \in PathTo(p), IsPrefix(m, Root) PROVE FALSE
      <4>1. m \in Seq(STRING) /\ m # Root /\ Len(m) <= 0
        BY <2>2, <3>1 DEF IsPrefix, Root
      <4> QED
        BY <4>1 DEF Root
    <3> QED
      BY <2>1, <3>1 DEF CountsRemoved, WellCounted, IsTree
  <2>6. ASSUME NEW n \in DOMAIN t, NEW k \in Prefixes(n) PROVE k \in DOMAIN t
    <3>1. n \in Seq(STRING) /\ k \in Seq(STRING) /\ IsPrefix(k, n)
      BY <2>4, <2>6, PrefixesAre
    <3>2. k \in DOMAIN tree
      BY <2>3, <2>6 DEF WellCounted, IsTree
    <3>3. ASSUME NEW m \in PathTo(p), tree[m] = 1, IsPrefix(m, k) PROVE FALSE
      <4>1. IsPrefix(m, n)
        BY <2>2, <3>1, <3>3, PrefixOrder
      <4> QED
        BY <2>1, <2>6, <3>3, <4>1 DEF CountsRemoved
    <3> QED
      BY <2>1, <3>2, <3>3 DEF CountsRemoved
  <2>7. ASSUME NEW n \in DOMAIN t PROVE t[n] \in Nat /\ (n # Root => t[n] >= 1)
    <3>1. n \in DOMAIN tree /\ tree[n] \in Nat /\ (n # Root => tree[n] >= 1)
      BY <2>3 DEF WellCounted
    <3>2. CASE n \in PathTo(p)
      <4>1. IsPrefix(n, n) /\ n # Root
        BY <2>2, <3>2 DEF IsPrefix
      <4>2. tree[n] # 1
        BY <2>1, <2>7, <3>2, <4>1 DEF CountsRemoved
      <4>3. t[n] = tree[n] - 1
        BY <2>1, <2>7, <3>2 DEF CountsRemoved
      <4> QED
        BY <3>1, <4>1, <4>2, <4>3
    <3>3. CASE n \notin PathTo(p)
      <4>1. t[n] = tree[n]
        BY <2>1, <2>7, <3>3 DEF CountsRemoved
      <4> QED
        BY <3>1, <4>1
    <3> QED
      BY <3>2, <3>3
  <2> QED
    BY <2>4, <2>5, <2>6, <2>7 DEF WellCounted, IsTree, t
<1> QED
  BY <1>1, <1>2

\* remove() adds no pattern, except the empty one, whose node is the root, if
\* that was inserted.
LEMMA RemoveAddsNone ==
    ASSUME NEW tree, WellCounted(tree), NEW p \in Seq(STRING),
           NEW n \in TreeList(TreeRemove(tree, p)), n # Root \/ tree[Root] = 0
    PROVE  n \in TreeList(tree)
<1>1. CASE ~TreeContains(tree, p)
  BY <1>1 DEF TreeRemove
<1>2. CASE TreeContains(tree, p)
  <2> DEFINE t == TreeRemove(tree, p)
  <2>1. CountsRemoved(tree, p, t) /\ WellCounted(t)
    BY <1>2, RemoveCounts, RemoveWellCounted
  <2>2. n \in DOMAIN t /\ ChildCount(t, n) < t[n]
    BY DEF TreeList, IsTerminal
  <2> HIDE DEF t
  <2>3. \A m : m \in PathTo(p) <=> m \in Seq(STRING) /\ IsPrefix(m, p) /\ m # Root
    BY PathToIs
  <2>4. /\ n \in DOMAIN tree /\ n \in Seq(STRING) /\ tree[n] \in Nat /\ t[n] \in Nat
        /\ ChildCount(tree, n) \in Nat /\ ChildCount(t, n) \in Nat
        /\ DOMAIN t \subseteq DOMAIN tree
    BY <2>1, <2>2, ChildrenAre DEF CountsRemoved, WellCounted, IsTree
  \* A child off the path stays as it is: what cuts it off cuts n off.
  <2>5. ASSUME NEW m \in Children(tree, n), m \notin PathTo(p)
        PROVE  m \in Children(t, n) /\ t[m] = tree[m]
    <3>1. m \in DOMAIN tree /\ m \in Seq(STRING) /\ Len(m) = Len(n) + 1 /\ IsPrefix(n, m)
      BY <2>5 DEF Children, WellCounted, IsTree
    <3>2. ASSUME NEW k \in PathTo(p), tree[k] = 1, IsPrefix(k, m) PROVE FALSE
      <4>1. k \in Seq(STRING) /\ IsPrefix(k, p) /\ Len(k) <= Len(m) /\ k # m
        BY <2>3, <2>5, <3>2 DEF IsPrefix
      <4>2. Len(k) # Len(m)
        BY <3>1, <3>2, <4>1, WholePrefix
      <4>3. Len(k) <= Len(n)
        BY <2>4, <3>1, <4>1, <4>2
      <4>4. IsPrefix(k, n)
        BY <2>4, <3>1, <3>2, <4>1, <4>3, PrefixOrder
      <4> QED
        BY <2>1, <2>2, <3>2, <4>4 DEF CountsRemoved
    <3>3. m \in DOMAIN t
      BY <2>1, <3>1, <3>2 DEF CountsRemoved
    <3> QED
      BY <2>1, <2>5, <3>1, <3>3 DEF CountsRemoved, Children
  <2>6. Children(t, n) \subseteq Children(tree, n)
    BY <2>4 DEF Children
  <2>7. ASSUME NEW m \in Children(tree, n), m \in PathTo(p)
        PROVE  IsPrefix(n, p) /\ n # p /\ m = Append(n, p[Len(n) + 1])
    <3>1. m \in Seq(STRING) /\ Len(m) = Len(n) + 1 /\ IsPrefix(n, m) /\ IsPrefix(m, p)
      BY <2>3, <2>7 DEF Children
    <3>2. IsPrefix(n, p) /\ Len(n) < Len(p) /\ m = Append(n, p[Len(n) + 1])
      BY <2>4, <3>1, ChildOnPath
    <3> QED
      BY <2>4, <3>2
  <2>8. ASSUME NEW c, \A m \in Children(tree, n) : m \in PathTo(p) => m = c
        PROVE  \E r \in Nat :
                 /\ ChildCount(tree, n) = r + (IF c \in Children(tree, n) THEN tree[c] ELSE 0)
                 /\ ChildCount(t, n) = r + (IF c \in Children(t, n) THEN t[c] ELSE 0)
    <3>1. /\ Children(tree, n) \ {c} = Children(t, n) \ {c}
          /\ \A m \in Children(tree, n) \ {c} : t[m] = tree[m]
      BY <2>5, <2>6, <2>8
    <3> QED
      BY <2>1, <3>1, ChildCountChanges
  <2>9. CASE n = p
    BY <1>2, <2>4, <2>9 DEF TreeContains, TreeList
  <2>10. CASE IsPrefix(n, p) /\ n # p
    <3>1. PICK c \in PathTo(p) : /\ Len(c) = Len(n) + 1 /\ IsPrefix(n, c)
                                 /\ c = Append(n, p[Len(n) + 1])
      BY <2>4, <2>10, ChildToPath
    <3>2. c \in DOMAIN tree /\ c \in Children(tree, n) /\ tree[c] \in Nat /\ tree[c] >= 1
      BY <1>2, <2>3, <3>1 DEF TreeContains, Children, WellCounted
    <3>3. PICK r \in Nat :
            /\ ChildCount(tree, n) = r + (IF c \in Children(tree, n) THEN tree[c] ELSE 0)
            /\ ChildCount(t, n) = r + (IF c \in Children(t, n) THEN t[c] ELSE 0)
      BY <2>7, <2>8, <3>1
    <3>4. (IF c \in Children(t, n) THEN t[c] ELSE 0) = tree[c] - 1
      <4>1. CASE c \in DOMAIN t
        <5>1. t[c] = tree[c] - 1 /\ c \in Children(t, n)
          BY <2>1, <3>1, <4>1 DEF CountsRemoved, Children
        <5> QED
          BY <5>1
      <4>2. CASE c \notin DOMAIN t
        <5>1. PICK k \in PathTo(p) : tree[k] = 1 /\ IsPrefix(k, c)
          BY <2>1, <3>2, <4>2 DEF CountsRemoved
        <5>2. k \in Seq(STRING) /\ c \in Seq(STRING) /\ ~IsPrefix(k, n) /\ Len(k) <= Len(c)
          BY <2>1, <2>2, <2>3, <5>1 DEF CountsRemoved, IsPrefix
        <5>3. ~(Len(k) <= Len(n))
          <6>1. IsPrefix(k, c) /\ IsPrefix(n, c) /\ n \in Seq(STRING)
            BY <2>4, <3>1, <5>1
          <6>2. Len(k) <= Len(n) => IsPrefix(k, n)
            BY <5>2, <6>1, PrefixOrder
          <6> QED
            BY <5>2, <6>2
        <5>4. Len(k) = Len(c)
          BY <2>4, <3>1, <5>2, <5>3
        <5>5. k = c
          BY <5>1, <5>2, <5>4, WholePrefix
        <5>6. c \notin Children(t, n) /\ tree[c] = 1
          BY <4>2, <5>1, <5>5 DEF Children
        <5> QED
          BY <5>6
      <4> QED
        BY <4>1, <4>2
    <3>5. ChildCount(tree, n) = r + tree[c] /\ ChildCount(t, n) = r + (tree[c] - 1)
      BY <3>2, <3>3, <3>4
    <3>6. CASE n = Root
      <4>1. t[n] = tree[n] /\ tree[n] = 0
        BY <2>1, <2>2, <2>3, <3>6 DEF CountsRemoved
      <4> QED
        BY <2>2, <2>4, <4>1
    <3>7. CASE n # Root
      <4>1. t[n] = tree[n] - 1
        BY <2>1, <2>2, <2>3, <2>4, <2>10, <3>7 DEF CountsRemoved
      <4>2. ChildCount(tree, n) < tree[n]
        BY <2>2, <2>4, <3>2, <3>5, <4>1
      <4> QED
        BY <2>4, <4>2 DEF TreeList, IsTerminal
    <3> QED
      BY <3>6, <3>7
  <2>11. CASE ~IsPrefix(n, p)
    <3>1. \A m \in Children(tree, n) : m \in PathTo(p) => m = n
      BY <2>7, <2>11
    <3>2. PICK r \in Nat :
            /\ ChildCount(tree, n) = r + (IF n \in Children(tree, n) THEN tree[n] ELSE 0)
            /\ ChildCount(t, n) = r + (IF n \in Children(t, n) THEN t[n] ELSE 0)
      BY <2>8, <3>1
    <3>3. n \notin Children(tree, n) /\ n \notin Children(t, n)
      BY <2>4 DEF Children
    <3>4. t[n] = tree[n]
      BY <2>1, <2>2, <2>3, <2>11 DEF CountsRemoved
    <3> QED
      BY <2>2, <2>4, <3>2, <3>3, <3>4 DEF TreeList, IsTerminal
  <2> QED
    BY <2>9, <2>10, <2>11
<1> QED
  BY <1>1, <1>2

-----------------------------------------------------------------------------
(* The pattern tree of a connection                                        *)

\* A new tree has only its root, and no pattern.
LEMMA NewTreeIs == WellCounted(NewTree) /\ NewTree[Root] = 0 /\ TreeList(NewTree) = {}
<1>1. PICK t : t = NewTree
  OBVIOUS
<1>2. DOMAIN t = {Root} /\ t[Root] = 0
  BY <1>1 DEF NewTree
<1>3. Root \in Seq(STRING)
  BY DEF Root
<1>4. Prefixes(Root) \subseteq {Root}
  <2>1. \A n : n \in Prefixes(Root) => n \in Seq(STRING) /\ IsPrefix(n, Root)
    BY <1>3, PrefixesAre
  <2>2. \A n \in Seq(STRING) : Len(n) <= 0 => n = <<>>
    OBVIOUS
  <2> QED
    BY <2>1, <2>2 DEF IsPrefix, Root
<1>5. IsTree(t) /\ IsFiniteSet(DOMAIN t)
  BY <1>2, <1>3, <1>4, FS_Singleton DEF IsTree
<1>6. WellCounted(t)
  BY <1>2, <1>5 DEF WellCounted
<1>7. TreeList(t) = {}
  <2>1. ChildCount(t, Root) \in Nat
    BY <1>6, ChildrenAre
  <2> QED
    BY <1>2, <2>1 DEF TreeList, IsTerminal
<1> QED
  BY <1>1, <1>2, <1>6, <1>7

\* The bytes of a string, each read back as a character.
LEMMA BytesAre ==
    ASSUME NEW s \in Seq(DOMAIN Utf8)
    PROVE  AsBytes(s) \in Seq(STRING)
<1> DEFINE seqs == [i \in 1 .. Len(s) |-> Utf8[s[i]]]
<1>1. seqs \in Seq(Seq(STRING))
  <2>1. \A i \in 1 .. Len(s) : Utf8[s[i]] \in Seq(STRING)
    BY WildcardsAreAscii
  <2>2. Len(s) \in Nat
    OBVIOUS
  <2> QED
    BY <2>1, <2>2
<1> HIDE DEF seqs
<1>2. FlattenSeq(seqs) \in Seq(STRING)
  BY <1>1, FlattenType
<1> QED
  BY <1>2 DEF AsBytes, seqs

\* The empty pattern matches the empty string alone.
LEMMA RootMatches ==
    ASSUME NEW s \in Seq(STRING), GlobMatches(Root, s)
    PROVE  s = <<>>
<1>1. Len(Root) = 0
  BY DEF Root
<1>2. Len(s) = 0
  BY <1>1 DEF GlobMatches, GlobFits
<1> QED
  BY <1>2

\* check() on a tree is matching the listed patterns one by one.
LEMMA CheckIs ==
    ASSUME NEW tree, WellCounted(tree), NEW s \in Seq(DOMAIN Utf8)
    PROVE  /\ TreeCheck(tree, s) \in BOOLEAN
           /\ TreeCheck(tree, s) <=> \E p \in TreeList(tree) : GlobMatches(p, AsBytes(s))
<1>1. IsTree(tree)
  BY DEF WellCounted
<1>2. PICK b : b = AsBytes(s)
  OBVIOUS
<1>3. b \in Seq(STRING)
  BY <1>2, BytesAre
<1>4. MatchString(tree, b) <=> \E p \in TreeList(tree) : GlobMatches(p, b)
  BY <1>1, <1>3, MatchStringIsRight
<1>5. MatchString(tree, b) \in BOOLEAN
  <2>1. PICK w : IsWorker(tree, b, w) /\ MatchString(tree, b) = w[<<Root, 0>>]
    BY <1>1, <1>3, WorkerExists DEF IsTree
  <2>2. <<Root, 0>> \in Places(tree, b)
    BY <1>1, <1>3 DEF Places, IsTree
  <2>3. w[<<Root, 0>>] = WorkerStep(tree, b, w, <<Root, 0>>)
    BY <2>1, <2>2 DEF IsWorker
  <2>4. WorkerStep(tree, b, w, <<Root, 0>>) \in BOOLEAN
    BY DEF WorkerStep
  <2> QED
    BY <2>1, <2>3, <2>4
<1> QED
  BY <1>2, <1>4, <1>5 DEF TreeCheck

\* remove() makes no string match that did not match before, the empty string
\* excepted if the empty pattern was inserted: the root is counted only then.
LEMMA RemoveShrinks ==
    ASSUME NEW tree, WellCounted(tree), NEW p \in Seq(STRING), NEW s \in Seq(DOMAIN Utf8),
           AsBytes(s) # <<>> \/ tree[Root] = 0, TreeCheck(TreeRemove(tree, p), s)
    PROVE  TreeCheck(tree, s)
<1>1. PICK t : t = TreeRemove(tree, p)
  OBVIOUS
<1>2. WellCounted(t)
  BY <1>1, RemoveWellCounted
<1>3. PICK n \in TreeList(t) : GlobMatches(n, AsBytes(s))
  BY <1>1, <1>2, CheckIs
<1>4. n # Root \/ tree[Root] = 0
  <2>1. PICK b : b = AsBytes(s)
    OBVIOUS
  <2>2. n = Root => b = <<>>
    BY <1>3, <2>1, BytesAre, RootMatches
  <2> QED
    BY <2>1, <2>2
<1>5. n \in TreeList(tree)
  BY <1>1, <1>4, RemoveAddsNone
<1> QED
  BY <1>3, <1>5, CheckIs

\* What a connection handler relies on, for every tree insert() and remove()
\* can build: a new one matches no topic, both leave such a tree, and remove()
\* makes no topic match that did not.  This is the assumption SubsAreTrees
\* under which Broker is proved, for topics that are not the empty string.
THEOREM TreesAreSubs ==
    /\ WellCounted(NewTree)
    /\ \A tree : \A p \in Seq(STRING) : WellCounted(tree) =>
          WellCounted(TreeInsert(tree, p)) /\ WellCounted(TreeRemove(tree, p))
    /\ \A s \in Seq(DOMAIN Utf8) : ~TreeCheck(NewTree, s)
    /\ \A tree : \A s \in Seq(DOMAIN Utf8) : WellCounted(tree) =>
          TreeCheck(tree, s) \in BOOLEAN
    /\ \A tree : \A p \in Seq(STRING), s \in Seq(DOMAIN Utf8) :
          WellCounted(tree) /\ AsBytes(s) # <<>> /\ TreeCheck(TreeRemove(tree, p), s)
             => TreeCheck(tree, s)
<1>1. WellCounted(NewTree)
  BY NewTreeIs
<1>2. ASSUME NEW tree, NEW p \in Seq(STRING), WellCounted(tree)
      PROVE  WellCounted(TreeInsert(tree, p)) /\ WellCounted(TreeRemove(tree, p))
  BY <1>2, InsertWellCounted, RemoveWellCounted
<1>3. ASSUME NEW s \in Seq(DOMAIN Utf8) PROVE ~TreeCheck(NewTree, s)
  <2>1. PICK t : t = NewTree
    OBVIOUS
  <2>2. WellCounted(t) /\ TreeList(t) = {}
    BY <2>1, NewTreeIs
  <2> QED
    BY <2>1, <2>2, CheckIs
<1>4. ASSUME NEW tree, NEW s \in Seq(DOMAIN Utf8), WellCounted(tree)
      PROVE  TreeCheck(tree, s) \in BOOLEAN
  BY <1>4, CheckIs
<1>5. ASSUME NEW tree, NEW p \in Seq(STRING), NEW s \in Seq(DOMAIN Utf8), WellCounted(tree),
             AsBytes(s) # <<>>, TreeCheck(TreeRemove(tree, p), s)
      PROVE  TreeCheck(tree, s)
  BY <1>5, RemoveShrinks
<1> QED
  BY <1>1, <1>2, <1>3, <1>4, <1>5

=============================================================================
