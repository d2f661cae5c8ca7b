SPECIFICATION MCSpec
CONSTANTS
    m1 = m1
    m2 = m2
    m3 = m3
    q1 = q1
    q2 = q2
    Proc = {m1, m2, m3}
    Project = {q1, q2}
    Text = {"rules", "typo"}
    Bad = {"typo"}
    NoProc = NoProc
    MaxEdits = 1
    MaxFaults = 1
INVARIANTS
    TypeOK
    OneSecret
    TakesTrusted
PROPERTY SecretArrives
CHECK_DEADLOCK FALSE
