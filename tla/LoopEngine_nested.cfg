\* A branch that is one parallel block.
SPECIFICATION Spec
CONSTANTS
    a = a  b = b  c = c  d = d  e = e  f = f  g = g  P = P  C = C
    NoCheckpoint = NoCheckpoint  Torn = Torn
    Leaf = {a, b, d}
    Par = {P}
    Cond = {C}
    Then <- NestedThen
    Else <- NestedElse
    Body <- NestedBody
    Tries = 2
    OnFailure = "fallback"
    HasFallback = TRUE
    MaxSteps = 4
    MaxCost = 4
    MaxRuns = 1
INVARIANTS
    BranchSticks
\* after the last run nothing need be resumed
CHECK_DEADLOCK FALSE
