------------------------------ MODULE GlobTree ------------------------------
(***************************************************************************)
(* The pattern tree of the glob_tree crate as a value, and its operations  *)
(* as operators.  glob_tree/src/lib.rs                                     *)
(*                                                                         *)
(* A pattern is a sequence of characters.  A node of the tree is named by  *)
(* the path that leads to it (the root is <<>>, its token is None; the     *)
(* token of any other node is the last character of its path), so a tree   *)
(* is a function from its nodes to their reference counts.                 *)
(***************************************************************************)
EXTENDS Integers, Sequences, FiniteSetsExt, SequencesExt

CONSTANT Utf8   \* the UTF-8 encoding: character -> its bytes, each `as char`

Star  == "*"    \* MULTI_CHARACTER_WILDCARD
QMark == "?"    \* SINGLE_CHARACTER_WILDCARD

\* The wildcards are ASCII: one byte, and that byte is the character.
ASSUME WildcardsAreAscii ==
    /\ \A c \in DOMAIN Utf8 : Utf8[c] \in Seq(STRING)
    /\ {Star, QMark} \subseteq DOMAIN Utf8
    /\ Utf8[Star] = <<Star>> /\ Utf8[QMark] = <<QMark>>

Root == <<>>

-----------------------------------------------------------------------------
(* Node                                                                    *)

Children(tree, n) ==
    {m \in DOMAIN tree : Len(m) = Len(n) + 1 /\ IsPrefix(n, m)}

ChildCount(tree, n) == MapThenSumSet(LAMBDA m : tree[m], Children(tree, n))

IsTerminal(tree, n) == ChildCount(tree, n) < tree[n]

\* match_string works on the bytes of the topic, one `as char` at a time.
AsBytes(topic) == FlattenSeq([i \in 1 .. Len(topic) |-> Utf8[topic[i]]])

\* Fault: a star stands for exactly one character, as a question mark does.
MatchStringStarOnce(tree, s) ==
    LET worker[n \in DOMAIN tree, pos \in 0 .. Len(s)] ==
          /\ n # Root => Last(n) \in {s[pos], Star, QMark}
          /\ IF pos < Len(s)
             THEN \E c \in {s[pos + 1], QMark, Star} :
                     Append(n, c) \in DOMAIN tree /\ worker[Append(n, c), pos + 1]
             ELSE IsTerminal(tree, n)
    IN  worker[Root, 0]

\* _match_string_worker, from node n and position pos (counted from 0) of s.
MatchString(tree, s) ==
    LET worker[at \in (DOMAIN tree) \X (0 .. Len(s))] ==
          LET n      == at[1]
              pos    == at[2]
              next   == IF n = Root THEN pos ELSE pos + 1
              via(c) == /\ Append(n, c) \in DOMAIN tree
                        /\ worker[<<Append(n, c), next>>]
          IN  /\ n # Root => /\ pos < Len(s)
                             /\ Last(n) \in {s[pos + 1], Star, QMark}
              /\ IF next < Len(s)
                 THEN \/ via(s[next + 1])
                      \/ via(QMark)
                      \/ n # Root /\ Last(n) = Star /\ worker[<<n, next>>]
                      \/ via(Star)
                 ELSE IsTerminal(tree, n)
    IN  worker[<<Root, 0>>]

-----------------------------------------------------------------------------
(* GlobTree                                                                *)

NewTree == [n \in {Root} |-> 0]

\* The nodes below the root on the way to a pattern.
PathTo(p) == Prefixes(p) \ {Root}

\* Fault: a node that is there already is not counted again.
TreeInsertNewOnly(tree, p) ==
    [n \in DOMAIN tree \cup PathTo(p) |->
        (IF n \in DOMAIN tree THEN tree[n] ELSE 1) + (IF n = p THEN 1 ELSE 0)]

\* Every node on the way is created with count 1 or incremented; the last
\* one (the root for the empty pattern) is then incremented once more.
TreeInsert(tree, p) ==
    [n \in DOMAIN tree \cup PathTo(p) |->
        (IF n \in DOMAIN tree THEN tree[n] ELSE 0)
          + (IF n \in PathTo(p) THEN 1 ELSE 0)
          + (IF n = p THEN 1 ELSE 0)]

TreeCheck(tree, topic) == MatchString(tree, AsBytes(topic))

TreeContains(tree, p) ==
    PathTo(p) \subseteq DOMAIN tree /\ IsTerminal(tree, p)

TreeList(tree) == {n \in DOMAIN tree : IsTerminal(tree, n)}

\* Fault: the node is cut off, what is below it stays.
TreeRemoveOrphans(tree, p) ==
    LET cut == {n \in PathTo(p) : tree[n] = 1}
    IN  IF ~TreeContains(tree, p)
        THEN tree
        ELSE [n \in DOMAIN tree \ cut |->
                 IF n \in PathTo(p) THEN tree[n] - 1 ELSE tree[n]]

\* Fault: counts go down to zero and nothing is cut off.
TreeRemoveKeepsNodes(tree, p) ==
    IF ~TreeContains(tree, p)
    THEN tree
    ELSE [n \in DOMAIN tree |-> IF n \in PathTo(p) THEN tree[n] - 1 ELSE tree[n]]

\* Fault: only the last node of the pattern is decremented or cut off.
TreeRemoveLastOnly(tree, p) ==
    LET gone == {n \in DOMAIN tree : IsPrefix(p, n) /\ tree[p] = 1}
    IN  IF p = Root \/ ~TreeContains(tree, p)
        THEN tree
        ELSE [n \in DOMAIN tree \ gone |-> IF n = p THEN tree[n] - 1 ELSE tree[n]]

\* Walks down the pattern decrementing counts, up to the first node whose
\* count is 1: that one is cut off with everything below it.
TreeRemove(tree, p) ==
    LET cut  == {n \in PathTo(p) : tree[n] = 1}
        gone == {n \in DOMAIN tree : \E m \in cut : IsPrefix(m, n)}
    IN  IF ~TreeContains(tree, p)
        THEN tree                                        \* Err("Not found")
        ELSE [n \in DOMAIN tree \ gone |->
                 IF n \in PathTo(p) THEN tree[n] - 1 ELSE tree[n]]

-----------------------------------------------------------------------------
(* Reference matcher: p matches s when s can be cut into one segment per   *)
(* character of p, each segment allowed by its character.                  *)

\* A star stands for `least` bytes or more.
GlobFits(p, s, least) ==
    \E cut \in [0 .. Len(p) -> 0 .. Len(s)] :
        /\ cut[0] = 0 /\ cut[Len(p)] = Len(s)
        /\ \A i \in 1 .. Len(p) :
              LET width == cut[i] - cut[i - 1]
              IN  \/ p[i] = Star /\ width >= least
                  \/ p[i] = QMark /\ width = 1
                  \/ p[i] \notin {Star, QMark} /\ width = 1 /\ s[cut[i]] = p[i]

\* What the walk implements: a node takes at least the byte it is entered
\* with, so a star stands for one byte or more.  The docs of the crate say
\* otherwise, see PatternStore!CheckAsDocumented.
GlobMatches(p, s) == GlobFits(p, s, 1)

=============================================================================
