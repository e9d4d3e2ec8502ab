SPECIFICATION Spec
CONSTANTS
    Utf8 <- MCUtf8
    Patterns <- MCPatterns
    Strings <- MCStrings
    MaxCount = 4
    MaxHeld = 1
INVARIANTS
    TypeOK
    NoDeadBranches
    CheckAgreesWithList
    NoPhantomPatterns
PROPERTIES
    RemoveOnlyShrinks
    InsertKeepsOthers
