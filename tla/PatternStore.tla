---------------------------- MODULE PatternStore ----------------------------
(***************************************************************************)
(* One GlobTree under any sequence of insert() and remove() calls, the way *)
(* a connection uses its `subscriptions`: the properties of glob_tree.     *)
(***************************************************************************)
EXTENDS GlobTree

CONSTANTS Patterns,   \* patterns the client subscribes to and unsubscribes from
          Strings,    \* strings handed to check()
          MaxCount,   \* bound of the model: no reference count exceeds it
          MaxHeld     \* bound of the model: a pattern is held that often at most

ASSUME PatternsAreStrings ==
    /\ Patterns \subseteq Seq(STRING) /\ Strings \subseteq Seq(DOMAIN Utf8)
    /\ MaxCount \in Nat /\ MaxCount >= 2 /\ MaxHeld \in Nat

VARIABLES tree,       \* GlobTree.root
          balance,    \* ghost: inserts of a pattern minus its removes that were Ok
          inserted    \* ghost: every pattern ever inserted

vars == <<tree, balance, inserted>>

Init ==
    /\ tree = NewTree
    /\ balance = [p \in Patterns |-> 0]
    /\ inserted = {}

InsertPattern(p) ==
    /\ balance[p] < MaxHeld
    /\ \A n \in (PathTo(p) \cup {p}) \cap DOMAIN tree : tree[n] + 2 <= MaxCount
    /\ tree' = TreeInsert(tree, p)
    /\ balance' = [balance EXCEPT ![p] = @ + 1]
    /\ inserted' = inserted \cup {p}

RemovePattern(p) ==
    /\ tree' = TreeRemove(tree, p)
    /\ balance' = [balance EXCEPT ![p] =
                      IF TreeContains(tree, p) /\ @ > 0 THEN @ - 1 ELSE @]
    /\ UNCHANGED inserted

Next == \E p \in Patterns : InsertPattern(p) \/ RemovePattern(p)

Spec == Init /\ [][Next]_vars

-----------------------------------------------------------------------------
(* Properties that hold                                                    *)

\* Types, and the shape of a tree: the parent of every node is a node.
TypeOK ==
    /\ \A n \in DOMAIN tree : tree[n] \in 0 .. MaxCount /\ Prefixes(n) \subseteq DOMAIN tree
    /\ balance \in [Patterns -> 0 .. MaxHeld]
    /\ inserted \subseteq Patterns

\* decrement_count() never reaches zero, so the u64 counts cannot wrap, and a
\* node without children always ends a stored pattern: remove() leaves no
\* dead branch behind, whatever the order of the calls.
NoDeadBranches ==
    \A n \in DOMAIN tree \ {Root} :
        /\ tree[n] >= 1
        /\ Children(tree, n) = {} => n \in TreeList(tree)

\* check() finds a match exactly when a pattern that list() returns matches
\* the bytes of the string: the shared walk with its backtracking over "?" and
\* "*" agrees with matching the patterns one by one.  A star is taken as the
\* code takes it, for one byte or more; CheckAsDocumented takes it as the docs.
CheckAgreesWithList ==
    \A s \in Strings :
        TreeCheck(tree, s) <=>
            \E p \in TreeList(tree) : GlobMatches(p, AsBytes(s))

\* The tree never holds a pattern nobody inserted: no interleaving of the
\* counts of other patterns makes an inner node look terminal.
NoPhantomPatterns == TreeList(tree) \subseteq inserted

\* remove() never makes a string match that did not match before.  The
\* connection relies on it: handle_unsubscribe only drops topic streams.  The
\* exception is the empty string once the empty pattern was inserted: its node
\* is the root, whose count does not include the patterns below.
RemoveOnlyShrinks ==
    [][\A p \in Patterns : RemovePattern(p) =>
          \A s \in Strings :
              /\ AsBytes(s) # <<>> \/ Root \notin inserted
              /\ TreeCheck(tree', s)
              => TreeCheck(tree, s)]_vars

\* insert() takes no other pattern out of the list, however the counts of the
\* shared nodes have drifted.  The exceptions are the pattern one character
\* shorter, whose node gets 1 for the 2 of its child, and the empty one, whose
\* node gets nothing.
InsertKeepsOthers ==
    [][\A p \in Patterns : InsertPattern(p) =>
          \A q \in TreeList(tree) \ {Root} :
              Len(q) # Len(p) - 1 \/ ~IsPrefix(q, p) => q \in TreeList(tree')]_vars

-----------------------------------------------------------------------------
(* What the crate's docs and tests say and the code does not do            *)

\* The tree contains the patterns that were inserted more often than removed,
\* and no others (test_contains, test_check_with_overlapping, test_remove).
ContainsWhatIsHeld ==
    \A p \in Patterns : TreeContains(tree, p) <=> balance[p] > 0

\* "The asterisk "*" is a wildcard character, matching any characters any
\* number of times" (the docs of the crate): a star stands for none, too.
CheckAsDocumented ==
    \A s \in Strings :
        TreeCheck(tree, s) <=>
            \E p \in TreeList(tree) : GlobFits(p, AsBytes(s), 0)

=============================================================================
