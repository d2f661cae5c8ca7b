SPECIFICATION FairSpec
CONSTANTS
    MaxBytes = 8
    Inputs <- MCStreams
    ASCIITokens = FALSE
    Carry = 2
    Probe = 4
    Target = 5
    BufSize = 5
    MaxLine = 6
INVARIANTS
    TypeOK
    NothingLost
    RunesWhole
    FormFromInput
    WithinLimits
PROPERTY Finishes
CHECK_DEADLOCK FALSE
