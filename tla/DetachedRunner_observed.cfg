\* loop_cancel in a server that does not run the job.
SPECIFICATION Spec
CONSTANTS
    p1 = p1  p2 = p2  j1 = j1  j2 = j2  r1 = r1  r2 = r2
    s1 = s1  s2 = s2  stray = stray
    Proc = {p1, p2}
    Job = {j1, j2}
    Run = {r1, r2}
    JobOf <- FreshIds
    HomeOf <- OneServer
    MaxConcurrent = 2
    Plan = {s1}
    Total = 1
    Step = {s1}
    NoPid = NoPid
    NoRow = NoRow
    NoRun = NoRun
    NoJob = NoJob
INVARIANTS
    CancelObserved
\* submissions, processes and jobs all come to an end
CHECK_DEADLOCK FALSE
