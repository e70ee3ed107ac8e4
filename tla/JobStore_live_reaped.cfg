\* A sweep against a job that was taken over by a live process.
SPECIFICATION Spec
CONSTANTS
    p1 = p1  p2 = p2  p3 = p3
    t1 = t1  t2 = t2  t3 = t3
    Proc = {p1, p2, p3}
    Thread = {t1, t2, t3}
    Home <- ThreeServers
    Step = {}
    Job = {j1}
    Totals = {0}
    NoPid = NoPid
    NoRow = NoRow
    Free = Free
PROPERTIES
    LiveJobsNotReaped
\* every server may have exited for good
CHECK_DEADLOCK FALSE
