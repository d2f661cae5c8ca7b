SPECIFICATION FairSpec
CONSTANTS
    u = u  v = v
    MaxCalls = 2
    Values = {u, v}
    Types = {"ip", "host"}
    Problems = {"INPUT_TOO_LARGE"}
    TypeOf <- MCTypeOf
    Requests <- MCRequests
    ExecCodes = {"EXEC_POLICY_DENIED"}
    DefaultLimit = 1
    MaxLimit = 1
    Stamps = {0, 1}
    MaxFaults = 1
    NoRow = NoRow
    Nobody = Nobody
INVARIANTS
    TypeOK
    AnswersTrue
PROPERTY Answered
CHECK_DEADLOCK FALSE
