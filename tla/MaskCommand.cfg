SPECIFICATION Spec
CONSTANTS
    key = key  noun = noun  Noun = Noun  blank = blank  x = x  y = y
    left = left  right = right  inert = inert
    Rules <- MCRules
    Blank = {blank}
    MinWindow = 2
    Symbols = {key, noun, Noun, blank, x, y, left, right, inert}
    Inputs <- MCInputs
    Left = left
    Right = right
    Inert = inert
    Literal <- MCLiteral
    DenyList <- MCDenyList
    Limit = 2
INVARIANTS
    TypeOK
    CanaryComplete
    MatchesCover
    RoundTrip
CHECK_DEADLOCK FALSE
