\* A code step whose process never reads its payload.
SPECIFICATION ProcSpec
CONSTANTS
    Kind = {"code"}
PROPERTIES
    DeadlineHolds
\* a call that returned is the end
CHECK_DEADLOCK FALSE
