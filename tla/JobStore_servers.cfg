\* Two server processes and one job: every race of two writers, every crash, and the boot after it.
SPECIFICATION FairSpec
CONSTANTS
    p1 = p1  p2 = p2  p3 = p3
    t1 = t1  t2 = t2  t3 = t3
    Proc = {p1, p2}
    Thread = {t1, t2}
    Home <- TwoServers
    Step = {s1}
    Job = {j1}
    Totals = {1}
    NoPid = NoPid
    NoRow = NoRow
    Free = Free
INVARIANTS
    TypeOK
    CompletionStamped
PROPERTIES
    ImplementsLifecycle
    VerdictKept
    OrphansReaped
\* every server may have exited for good
CHECK_DEADLOCK FALSE
