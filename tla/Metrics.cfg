SPECIFICATION FairSpec
CONSTANTS
    Conns = {c1, c2, c3}
    Throughputs = {commands}
    Cap = 2
    Modulus = 16
    MaxUpdates = 2
INVARIANTS
    TypeOK
    CountAgrees
    RatesAgree
PROPERTIES
    Unblocked
    AllLogged
CHECK_DEADLOCK FALSE
