\* An answer against the default at the timeout.
SPECIFICATION Spec
CONSTANTS
    Job = {j1}
    Agent = {a1}
    Answer = {yes, no}
    NoAnswer = NoAnswer
    MaxEscalations = 3
    MaxRuns = 1
INVARIANTS
    AnswerBeatsDefault
\* every run may be over, or its step wait for an answer that never comes
CHECK_DEADLOCK FALSE
