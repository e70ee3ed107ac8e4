\* One server process: two threads share JobStore._lock.
SPECIFICATION Spec
CONSTANTS
    p1 = p1  p2 = p2  p3 = p3
    t1 = t1  t2 = t2  t3 = t3
    Proc = {p1}
    Thread = {t1, t2}
    Home <- OneServer
    Step = {s1, s2}
    Job = {j1}
    Totals = {2}
    NoPid = NoPid
    NoRow = NoRow
    Free = Free
PROPERTIES
    ResultsKept
\* every server may have exited for good
CHECK_DEADLOCK FALSE
