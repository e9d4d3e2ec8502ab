------------------------------ MODULE MCBroker ------------------------------
(* Small instances of Broker, with GlobTree as the connections' pattern    *)
(* tree.                                                                   *)
EXTENDS Broker, GlobTree

CONSTANTS MaxCount       \* bound: no reference count of a tree exceeds it

AB == <<"a", "b">>
AC == <<"a", "c">>

MCUtf8 == [c \in {"a", "b", "c", Star, QMark} |-> <<c>>]

OneTopic  == {AB}
TwoTopics == {AB, AC}

OnePattern  == {<<"a", Star>>}
TwoPatterns == {<<"a", Star>>, AB}

\* The trees that subscribing and unsubscribing lead to within MaxCount; ten
\* steps reach all of them (SubsAreTrees asks for a set closed under remove).
Trees[k \in 0 .. 10] ==
    IF k = 0
    THEN {NewTree}
    ELSE LET prev  == Trees[k - 1]
             grown == {TreeInsert(s, p) : s \in prev, p \in Patterns}
             cut   == {TreeRemove(s, p) : s \in prev, p \in Patterns}
         IN  {s \in prev \cup grown \cup cut : \A n \in DOMAIN s : s[n] <= MaxCount}

AllTrees == {s : s \in Trees[10]}
MCSubs == AllTrees

\* TreeCheck, evaluated once for every tree and topic.
Matches == {m \in AllTrees \X Topics : TreeCheck(m[1], m[2])}

MCSubsCheck(s, t) == <<s, t>> \in Matches

=============================================================================
