------------------------- MODULE PatternStoreProofs -------------------------
(***************************************************************************)
(* Proofs about PatternStore: any number of insert() and remove() calls,   *)
(* for any patterns and strings and any bounds.                            *)
(***************************************************************************)
EXTENDS PatternStore, GlobTreeProofs, TLAPS

\* The root counts the empty pattern alone.
RootCounts == Root \notin inserted => tree[Root] = 0

\* The inductive invariant.
Inv == TypeOK /\ WellCounted(tree) /\ NoPhantomPatterns /\ RootCounts

-----------------------------------------------------------------------------
(* The initial tree                                                        *)

\* new() gives a tree with a root and no pattern.
LEMMA InitInv == Init => Inv
<1> SUFFICES ASSUME Init PROVE Inv
  OBVIOUS
<1>1. tree = NewTree /\ DOMAIN tree = {Root}
  BY DEF Init, NewTree
<1>2. WellCounted(tree) /\ tree[Root] = 0 /\ TreeList(tree) = {}
  BY <1>1, NewTreeIs
<1>3. TypeOK
  <2>1. Prefixes(Root) \subseteq DOMAIN tree
    BY <1>1, <1>2 DEF WellCounted, IsTree
  <2> QED
    BY <1>1, <1>2, <2>1, PatternsAreStrings DEF TypeOK, Init
<1> QED
  BY <1>2, <1>3 DEF Inv, NoPhantomPatterns, RootCounts

-----------------------------------------------------------------------------
(* insert() and remove()                                                   *)

\* insert() keeps the invariant: the new counts stay within the bound, the
\* pattern is the only one that is new, and the root is counted for the empty
\* pattern only.
LEMMA InsertInv ==
    ASSUME Inv, NEW p \in Patterns, InsertPattern(p)
    PROVE  Inv'
<1>1. p \in Seq(STRING) /\ MaxCount \in Nat /\ MaxCount >= 2 /\ MaxHeld \in Nat
  BY PatternsAreStrings
<1>2. PICK t : t = TreeInsert(tree, p)
  OBVIOUS
<1>3. tree' = t /\ WellCounted(tree)
  BY <1>2 DEF InsertPattern, Inv
<1>4. CountsInserted(tree, p, t) /\ WellCounted(t)
  BY <1>1, <1>2, <1>3, InsertCounts, InsertWellCounted
<1>5. Root \notin PathTo(p) /\ Root \in DOMAIN tree
  BY <1>1, <1>3, PathToIs DEF WellCounted, IsTree
<1>6. TypeOK'
  <2>1. ASSUME NEW n \in DOMAIN t PROVE t[n] \in 0 .. MaxCount
    <3>1. /\ n \in DOMAIN tree \cup PathTo(p)
          /\ t[n] = CountAt(tree, n) + (IF n \in PathTo(p) THEN 1 ELSE 0)
                                     + (IF n = p THEN 1 ELSE 0)
          /\ CountAt(tree, n) \in Nat
      BY <1>4, <2>1 DEF CountsInserted
    <3>2. CASE n \in (PathTo(p) \cup {p}) \cap DOMAIN tree
      <4>1. tree[n] + 2 <= MaxCount /\ CountAt(tree, n) = tree[n]
        BY <3>2 DEF InsertPattern, CountAt
      <4> QED
        BY <1>1, <3>1, <4>1
    <3>3. CASE n \notin DOMAIN tree
      <4>1. CountAt(tree, n) = 0
        BY <3>3 DEF CountAt
      <4> QED
        BY <1>1, <3>1, <4>1
    <3>4. CASE n \in DOMAIN tree /\ n \notin PathTo(p) /\ n # p
      <4>1. CountAt(tree, n) = tree[n] /\ tree[n] \in 0 .. MaxCount
        BY <3>4 DEF CountAt, Inv, TypeOK
      <4> QED
        BY <1>1, <3>1, <3>4, <4>1
    <3> QED
      BY <3>2, <3>3, <3>4
  <2>2. \A n \in DOMAIN t : Prefixes(n) \subseteq DOMAIN t
    BY <1>4 DEF WellCounted, IsTree
  <2>3. balance' \in [Patterns -> 0 .. MaxHeld]
    BY <1>1 DEF Inv, TypeOK, InsertPattern
  <2>4. inserted' \subseteq Patterns
    BY DEF Inv, TypeOK, InsertPattern
  <2> QED
    BY <1>3, <2>1, <2>2, <2>3, <2>4 DEF TypeOK
<1>7. NoPhantomPatterns'
  <2>1. ASSUME NEW n \in TreeList(t), n # p PROVE n \in inserted
    <3>1. n \in TreeList(tree)
      BY <1>1, <1>2, <1>3, <2>1, InsertAddsOne
    <3> QED
      BY <3>1 DEF Inv, NoPhantomPatterns
  <2> QED
    BY <1>3, <2>1 DEF NoPhantomPatterns, InsertPattern
<1>8. RootCounts'
  <2> SUFFICES ASSUME Root \notin inserted' PROVE t[Root] = 0
    BY <1>3 DEF RootCounts
  <2>1. Root # p /\ tree[Root] = 0
    BY DEF InsertPattern, Inv, RootCounts
  <2> QED
    BY <1>4, <1>5, <2>1 DEF CountsInserted, CountAt
<1> QED
  BY <1>3, <1>4, <1>6, <1>7, <1>8 DEF Inv

\* remove() keeps the invariant: it lowers counts, and no pattern is new; the
\* root can come to end a pattern again only if the empty one was inserted.
LEMMA RemoveInv ==
    ASSUME Inv, NEW p \in Patterns, RemovePattern(p)
    PROVE  Inv'
<1>1. p \in Seq(STRING) /\ MaxCount \in Nat /\ MaxHeld \in Nat
  BY PatternsAreStrings
<1>2. PICK t : t = TreeRemove(tree, p)
  OBVIOUS
<1>3. tree' = t /\ WellCounted(tree) /\ inserted' = inserted
  BY <1>2 DEF RemovePattern, Inv
<1>4. WellCounted(t)
  BY <1>1, <1>2, <1>3, RemoveWellCounted
<1>5. Root \in DOMAIN t /\ Root \notin PathTo(p)
  BY <1>1, <1>4, PathToIs DEF WellCounted, IsTree
<1>6. ASSUME NEW n \in DOMAIN t
      PROVE  /\ n \in DOMAIN tree /\ t[n] \in Nat /\ tree[n] \in Nat /\ t[n] <= tree[n]
             /\ n \notin PathTo(p) => t[n] = tree[n]
  <2>1. CASE ~TreeContains(tree, p)
    BY <1>2, <1>3, <1>6, <2>1 DEF TreeRemove, WellCounted
  <2>2. CASE TreeContains(tree, p)
    <3>1. CountsRemoved(tree, p, t)
      BY <1>2, <2>2, RemoveCounts
    <3>2. n \in DOMAIN tree /\ t[n] = IF n \in PathTo(p) THEN tree[n] - 1 ELSE tree[n]
      BY <1>6, <3>1 DEF CountsRemoved
    <3>3. t[n] \in Nat /\ tree[n] \in Nat
      BY <1>3, <1>4, <3>2 DEF WellCounted
    <3> QED
      BY <3>2, <3>3
  <2> QED
    BY <2>1, <2>2
<1>7. TypeOK'
  <2>1. ASSUME NEW n \in DOMAIN t PROVE t[n] \in 0 .. MaxCount
    <3>1. tree[n] \in 0 .. MaxCount
      BY <1>6 DEF Inv, TypeOK
    <3> QED
      BY <1>1, <1>6, <3>1
  <2>2. \A n \in DOMAIN t : Prefixes(n) \subseteq DOMAIN t
    BY <1>4 DEF WellCounted, IsTree
  <2>3. balance' \in [Patterns -> 0 .. MaxHeld]
    <3>1. balance \in [Patterns -> 0 .. MaxHeld]
      BY DEF Inv, TypeOK
    <3>2. \A b \in 0 .. MaxHeld : b > 0 => b - 1 \in 0 .. MaxHeld
      BY <1>1
    <3> QED
      BY <3>1, <3>2 DEF RemovePattern
  <2> QED
    BY <1>3, <2>1, <2>2, <2>3 DEF TypeOK, Inv
<1>8. NoPhantomPatterns'
  <2>1. ASSUME NEW n \in TreeList(t) PROVE n \in inserted
    <3>1. CASE n = Root /\ Root \in inserted
      BY <3>1
    <3>2. CASE n # Root \/ Root \notin inserted
      <4>1. n # Root \/ tree[Root] = 0
        BY <3>2 DEF Inv, RootCounts
      <4>2. n \in TreeList(tree)
        BY <1>1, <1>2, <1>3, <4>1, RemoveAddsNone
      <4> QED
        BY <4>2 DEF Inv, NoPhantomPatterns
    <3> QED
      BY <3>1, <3>2
  <2> QED
    BY <1>3, <2>1 DEF NoPhantomPatterns
<1>9. RootCounts'
  <2>1. t[Root] = tree[Root]
    BY <1>5, <1>6
  <2> QED
    BY <1>3, <2>1 DEF RootCounts, Inv
<1> QED
  BY <1>3, <1>4, <1>7, <1>8, <1>9 DEF Inv

\* Every step keeps the invariant.
LEMMA InvStep == Inv /\ [Next]_vars => Inv'
<1> SUFFICES ASSUME Inv, [Next]_vars PROVE Inv'
  OBVIOUS
<1>1. ASSUME NEW p \in Patterns, InsertPattern(p) PROVE Inv'
  BY <1>1, InsertInv
<1>2. ASSUME NEW p \in Patterns, RemovePattern(p) PROVE Inv'
  BY <1>2, RemoveInv
<1>3. CASE UNCHANGED vars
  BY <1>3 DEF vars, Inv, TypeOK, NoPhantomPatterns, RootCounts
<1> QED
  BY <1>1, <1>2, <1>3 DEF Next

\* The invariant holds throughout.
LEMMA Invariance == Spec => []Inv
  BY InitInv, InvStep, PTL DEF Spec

-----------------------------------------------------------------------------
(* The theorems                                                            *)

\* The parent of every node is a node, and the counts keep to the bound.
THEOREM TypesHold == Spec => []TypeOK
<1>1. Inv => TypeOK
  BY DEF Inv
<1> QED
  BY <1>1, Invariance, PTL

\* The tree never holds a pattern nobody inserted, for any patterns and any
\* order of insert() and remove().
THEOREM NoPhantomPatternsHolds == Spec => []NoPhantomPatterns
<1>1. Inv => NoPhantomPatterns
  BY DEF Inv
<1> QED
  BY <1>1, Invariance, PTL

\* No count reaches zero, and a node without children ends a stored pattern.
THEOREM NoDeadBranchesHolds == Spec => []NoDeadBranches
<1>1. Inv => NoDeadBranches
  <2> SUFFICES ASSUME Inv, NEW n \in DOMAIN tree \ {Root}
               PROVE  tree[n] >= 1 /\ (Children(tree, n) = {} => n \in TreeList(tree))
    BY DEF NoDeadBranches
  <2>1. WellCounted(tree) /\ tree[n] \in Nat /\ tree[n] >= 1
    BY DEF Inv, WellCounted
  <2>2. Children(tree, n) = {} => ChildCount(tree, n) = 0
    BY <2>1, ChildrenAre
  <2> QED
    BY <2>1, <2>2 DEF TreeList, IsTerminal
<1> QED
  BY <1>1, Invariance, PTL

\* check() finds a match exactly when a pattern of list() matches, for every
\* string and every set of patterns.
THEOREM CheckAgreesHolds == Spec => []CheckAgreesWithList
<1>1. Inv => CheckAgreesWithList
  BY PatternsAreStrings, CheckIs DEF Inv, CheckAgreesWithList
<1> QED
  BY <1>1, Invariance, PTL

\* No call of remove() makes a string match that did not match before, the
\* empty string after the empty pattern was inserted excepted.
THEOREM RemoveOnlyShrinksHolds == Spec => RemoveOnlyShrinks
<1> DEFINE Shrinks ==
      \A p \in Patterns : RemovePattern(p) =>
          \A s \in Strings :
              /\ AsBytes(s) # <<>> \/ Root \notin inserted
              /\ TreeCheck(tree', s)
              => TreeCheck(tree, s)
<1>1. Inv => Shrinks
  <2> SUFFICES ASSUME Inv, NEW p \in Patterns, RemovePattern(p), NEW s \in Strings,
                      AsBytes(s) # <<>> \/ Root \notin inserted, TreeCheck(tree', s)
               PROVE  TreeCheck(tree, s)
    OBVIOUS
  <2>1. WellCounted(tree) /\ p \in Seq(STRING) /\ s \in Seq(DOMAIN Utf8)
    BY PatternsAreStrings DEF Inv
  <2>2. AsBytes(s) # <<>> \/ tree[Root] = 0
    BY DEF Inv, RootCounts
  <2>3. TreeCheck(TreeRemove(tree, p), s)
    BY DEF RemovePattern
  <2> QED
    BY <2>1, <2>2, <2>3, RemoveShrinks
<1>2. Spec => [][Shrinks]_vars
  <2>1. Inv => [Shrinks]_vars
    BY <1>1
  <2> HIDE DEF Shrinks
  <2> QED
    BY <2>1, Invariance, PTL DEF Spec
<1> QED
  BY <1>2 DEF RemoveOnlyShrinks

\* No call of insert() takes another pattern out of the list, the one a
\* character shorter and the empty one excepted, whatever was called before.
THEOREM InsertKeepsOthersHolds == Spec => InsertKeepsOthers
<1> DEFINE Keeps ==
      \A p \in Patterns : InsertPattern(p) =>
          \A q \in TreeList(tree) \ {Root} :
              Len(q) # Len(p) - 1 \/ ~IsPrefix(q, p) => q \in TreeList(tree')
<1>1. Inv => Keeps
  BY PatternsAreStrings, InsertKeeps DEF Inv, InsertPattern
<1>2. Spec => [][Keeps]_vars
  <2>1. Inv => [Keeps]_vars
    BY <1>1
  <2> HIDE DEF Keeps
  <2> QED
    BY <2>1, Invariance, PTL DEF Spec
<1> QED
  BY <1>2 DEF InsertKeepsOthers

=============================================================================
