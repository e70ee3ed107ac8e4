\* Human steps and event streams, where answers must come, and the retention of messages.
SPECIFICATION PartsSpec
CONSTANTS
    Awake = {"human", "protocol", "emitter", "outbox"}
    \* HumanInput: one job, every kind of human step, submitted or retried up to twice
    Job = {j1}
    Agent = {a1, a2}
    Answer = {yes, no}
    NoAnswer = NoAnswer
    MaxEscalations = 3
    MaxRuns = 2
    \* Outbox
    Note = {n1}
    Critical = {}
    Asking = {{n1}}
    Letter = {m1}
    Caller = {c1, c2}
    ListLimit = 1
    NoNote = NoNote
    \* EventStreams
    Subscriber = {u1, u2}
    Stream = {v1, v2}
    SyncStream = {v2}
    QueueSize = 1
    HistorySize = 2
    MaxEvents = 4
    \* SpanExport
    Span = {x1, x2, x3}
    Thread = {t1, t2}
    QueueLimit = 2
    BatchSize = 2
    Sentinel = Sentinel
    \* LLMStream
    Dialogue <- Dialogues
    \* CodeBlocks
    Ref = {f1}
    Source = {src1, src2}
    Capability = {net}
    CodeStep = {k1, k2}
    NoBlock = NoBlock
    NoSource = NoSource
    \* ChildProcess
    Kind = {"shell", "code", "mcp"}
    \* AgentRun
    s1 = s1
    s2 = s2
    Plan <- TwoSteps
    Stray = {stray}
    Client = {g1, g2}
    Server = server
    NoServer = NoServer
    NoJobRow = NoJobRow
    \* AgentConfig
    md1 = md1
    md2 = md2
    Prompts <- TwoPrompts
    Settings = {settings}
    NoFile = NoFile
    MaxEdits = 1
    \* SpecRules
    Name = {ref1, ref2}
    Key = {key}
    MaxNodes = 4
    MaxOpen = 3
    \* Migration
    Version <- Versions
    StepName = {s1, s2}
    Executed <- TwoSteps
    Raises = Raises
    MaxEdges = 2
PROPERTIES
    FirstCloseWins
    AnswerInTimeCounts
    WaitEnds
    SubscriptionEnds
    QueuedEndEndsStream
\* a component may be done
CHECK_DEADLOCK FALSE
