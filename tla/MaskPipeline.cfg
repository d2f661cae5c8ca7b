SPECIFICATION FairSpec
CONSTANTS
    p1 = p1
    w1 = w1  w2 = w2
    a = a  b = b
    t1 = t1  t2 = t2
    email = email
    Procs = {p1}
    Workers = {w1, w2}
    ProcOf <- MCOneProcess
    Values = {a, b}
    Batches <- MCBatches
    Token <- MCToken
    TypeOf <- MCTypeOf
    AnyType = AnyType
    NoWorker = NoWorker
    Pruner = Pruner
    MaxClock = 1
    MaxTries = 2
INVARIANTS
    TypeOK
    ShownRestores
PROPERTIES
    ImplementsMap
    SegmentsEnd
