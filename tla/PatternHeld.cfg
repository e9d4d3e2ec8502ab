SPECIFICATION Spec
CONSTANTS
    Utf8 <- MCUtf8
    Patterns <- MCNonEmptyPatterns
    Strings <- MCStrings
    MaxCount = 4
    MaxHeld = 2
INVARIANT ContainsWhatIsHeld
