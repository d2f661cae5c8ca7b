SPECIFICATION Spec
CONSTANTS
    a1 = a1  a2 = a2
    p1 = p1  p2 = p2
    lint = lint
    Project = {p1, p2}
    Actor = {a1, a2}
    Call = {c1}
    Entry = {lint}
    InitSettings <- MCInitSettings
    NoKey = NoKey
    CutKey = CutKey
    LostKey = LostKey
    NoProject = NoProject
    Exclusive = TRUE
    MaxFaults = 1
SYMMETRY MCSymmetry
INVARIANTS
    TypeOK
    HookHasShim
    StandsAsAnswered
PROPERTIES
    TheirsKept
    CallsSafe
