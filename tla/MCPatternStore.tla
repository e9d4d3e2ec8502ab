--------------------------- MODULE MCPatternStore ---------------------------
(* Small instances of PatternStore.                                        *)
EXTENDS PatternStore

\* Two ASCII letters, and e-acute, whose two bytes read back as two chars.
MCUtf8 ==
    [c \in {"a", "b", Star, QMark} |-> <<c>>]
      @@ [c \in {"e-acute"} |-> <<"A-tilde", "copyright">>]

\* The empty pattern, prefixes of one another, siblings, both wildcards, a star
\* at the end and in the middle.
MCPatterns ==
    {<<>>, <<"a">>, <<"a", Star>>, <<Star, "b">>, <<"a", QMark, "b">>}

MCNonEmptyPatterns == MCPatterns \ {<<>>}

\* The empty string, strings that only some of the patterns match, and two
\* that are longer in bytes than in characters.
MCStrings ==
    {<<>>, <<"a">>, <<"b">>, <<"a", "b">>, <<"b", "b">>,
     <<"a", "a", "b">>, <<"a", "b", "a">>, <<"b", "a", "b">>,
     <<"a", "e-acute">>, <<"a", "e-acute", "b">>}

\* The strings in which every character is one byte.
MCAsciiStrings == {s \in MCStrings : \A i \in DOMAIN s : s[i] # "e-acute"}

=============================================================================
