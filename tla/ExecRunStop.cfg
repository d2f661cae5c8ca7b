SPECIFICATION FairSpec
CONSTANTS
    stdout = stdout  stderr = stderr
    Child = child
    Helpers = {helper}
    Parent = opsmask
    Streams = {stdout}
    Capacity = 1
    MaxSent <- MCMaxSentOnly
PROPERTY StopReturns
CHECK_DEADLOCK FALSE
