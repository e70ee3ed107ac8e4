\* A conditional with a parallel block in a branch, crashed and resumed at will.
SPECIFICATION FairSpec
CONSTANTS
    a = a  b = b  c = c  d = d  e = e  f = f  g = g  P = P  C = C
    NoCheckpoint = NoCheckpoint  Torn = Torn
    Leaf = {a, b, c, d, e, f, g}
    Par = {P}
    Cond = {C}
    Then <- DeepThen
    Else <- DeepElse
    Body <- DeepBody
    Tries = 2
    OnFailure = "fallback"
    HasFallback = TRUE
    MaxSteps = 3
    MaxCost = 1
    MaxRuns = 2
INVARIANTS
    TypeOK
    BranchSticks
    SuccessIsWhole
PROPERTIES
    ImplementsJournal
    KeptNotRepeated
    RunEnds
\* after the last run nothing need be resumed
CHECK_DEADLOCK FALSE
