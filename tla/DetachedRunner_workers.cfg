\* One job of two steps with a second server beside it, or two jobs under a limit of one worker.
SPECIFICATION WorkersSpec
CONSTANTS
    p1 = p1  p2 = p2  j1 = j1  j2 = j2  r1 = r1  r2 = r2
    s1 = s1  s2 = s2  stray = stray
    Proc = {p1, p2}
    Job = {j1, j2}
    Run = {r1, r2}
    JobOf <- FreshIds
    HomeOf <- OneServer
    MaxConcurrent = 1
    Plan = {s1, s2}
    Total = 2
    Step = {s1, s2, stray}
    NoPid = NoPid
    NoRow = NoRow
    NoRun = NoRun
    NoJob = NoJob
INVARIANTS
    IsRunningTruthful
    CapacityKept
    AnnouncedVerdict
    CancelStops
PROPERTIES
    EngineOwnsVerdict
    ImplementsLifecycle
    WorkerSettles
\* submissions, processes and jobs all come to an end
CHECK_DEADLOCK FALSE
