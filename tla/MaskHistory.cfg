SPECIFICATION HistorySpec
CONSTANTS
    p1 = p1
    w1 = w1  w2 = w2
    a = a
    t1 = t1
    email = email
    Procs = {p1}
    Workers = {w1, w2}
    ProcOf <- MCProcOf
    Values = {a}
    Batches <- MCBatches
    Token <- MCToken
    TypeOf <- MCTypeOf
    AnyType = AnyType
    NoWorker = NoWorker
    Pruner = Pruner
    MaxClock = 1
    MaxTries = 1
INVARIANT RememberedWhenMasked
