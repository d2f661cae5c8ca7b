SPECIFICATION StoreSpec
CONSTANTS
    p1 = p1  p2 = p2
    w1 = w1  w2 = w2
    a = a  b = b  c = c
    t1 = t1  t2 = t2
    email = email  host = host
    Procs = {p1, p2}
    Workers = {w1, w2}
    ProcOf <- MCTwoProcesses
    Values = {a, b, c}
    Batches <- MCBatches
    Token <- MCToken
    TypeOf <- MCTypeOf
    AnyType = AnyType
    NoWorker = NoWorker
    Pruner = Pruner
    MaxClock = 1
    MaxTries = 2
INVARIANT TokensUnambiguous
PROPERTIES
    BatchAtomic
    RowsStable
