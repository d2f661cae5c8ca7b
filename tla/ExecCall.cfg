SPECIFICATION Spec
CONSTANTS
    c1 = c1
    c2 = c2
    Calls = {c1, c2}
    Word <- MCWord
    Lower <- MCLower
    Base <- MCLower
    Marks <- MCMarks
    Requests <- MCRequests
    Token <- MCToken
    Value <- MCValue
    Bare <- MCBare
    Name <- MCName
    Environ <- MCEnviron
    MaxFaults = 2
SYMMETRY MCSymmetry
INVARIANTS
    TypeOK
    RunsApproved
    AnswersTrue
PROPERTY HonoursContract
CHECK_DEADLOCK FALSE
