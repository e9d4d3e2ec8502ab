SPECIFICATION Spec
CONSTANTS
    Utf8 <- MCUtf8
    Patterns <- MCNonEmptyPatterns
    Strings <- MCAsciiStrings
    MaxCount = 4
    MaxHeld = 1
INVARIANT CheckAsDocumented
