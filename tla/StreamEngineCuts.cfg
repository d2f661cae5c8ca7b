SPECIFICATION Spec
CONSTANTS
    MaxBytes = 1
    Inputs <- MCCuts
    ASCIITokens = FALSE
    Carry = 2
    Probe = 4
    Target = 5
    BufSize = 5
    MaxLine = 6
INVARIANT CutsClean
CHECK_DEADLOCK FALSE
