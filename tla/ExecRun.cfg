SPECIFICATION FairSpec
CONSTANTS
    stdout = stdout  stderr = stderr
    Child = child
    Helpers = {helper}
    Parent = opsmask
    Streams = {stdout, stderr}
    Capacity = 1
    MaxSent <- MCMaxSent
INVARIANTS
    TypeOK
    ReturnsClean
    OutputComplete
    ResultTrue
PROPERTIES
    WritersAdvance
    ReturnsWhenAlone
    StopKills
CHECK_DEADLOCK FALSE
