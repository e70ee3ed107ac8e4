----------------------------- MODULE LLMStream -----------------------------
(***************************************************************************)
(* One LLM call of a step: the request and its errors (llm/client.py), the *)
(* reader thread and the generator that consumes what it read              *)
(* (llm/streaming.py), the three providers' protocols, and the step that   *)
(* collects the chunks (core/step_executor.py).                            *)
(*                                                                         *)
(* A line is what it does to the parser: "start" (the prompt's tokens),    *)
(* "delta" (text), "usage" (token counts), "finish", "done" ([DONE]) or    *)
(* "noise" (blank, comment, bad JSON).  The generator's test that the list *)
(* holds nothing new and its test that the thread is dead are two steps.   *)
(***************************************************************************)
EXTENDS Naturals, Sequences

CONSTANTS
    Dialogue      \* what servers answer: records [provider, lines]

Line     == {"start", "delta", "usage", "finish", "done", "noise"}
Provider == {"openai", "anthropic", "google"}

ASSUME DialogueAssumption == \A d \in Dialogue : d.provider \in Provider /\ d.lines \in Seq(Line)

VARIABLES
    dialogue,   \* the server's answer
    mode,       \* stream or sync
    reader,     \* the thread: off, reading, dead
    appended,   \* lines it has read and appended
    fault,      \* what it raised: none, timeout, broken
    consumer,   \* the generator: connect, loop, join, looked, ended
    idx,        \* lines the generator has taken
    parser,     \* the token counts the parser has seen
    counted,    \* the token counts the step has seen
    answer      \* what the call comes to, see CallAnswer

llmVars == <<dialogue, mode, reader, appended, fault, consumer, idx, parser, counted, answer>>

\* which of the counts, prompt and completion, are the provider's
Counts == SUBSET {"in", "out"}

CallAnswer == {"none", "ok", "StepTimeout", "RateLimit", "Authentication", "Timeout", "ProviderAPI"}

LLMTypeOK ==
    /\ dialogue \in Dialogue /\ mode \in {"stream", "sync"}
    /\ reader \in {"off", "reading", "dead"}
    /\ appended \in 0..Len(dialogue.lines) /\ idx \in 0..appended
    /\ fault \in {"none", "timeout", "broken"}
    /\ consumer \in {"connect", "loop", "join", "looked", "ended"}
    /\ parser \in Counts /\ counted \in Counts
    /\ answer \in CallAnswer

LLMInit ==
    /\ dialogue \in Dialogue /\ mode \in {"stream", "sync"}
    /\ reader = "off" /\ appended = 0 /\ fault = "none"
    /\ consumer = "connect" /\ idx = 0
    /\ parser = {} /\ counted = {} /\ answer = "none"

---------------------------------------------------------------------------
\* _handle_http_error: what an HTTP status becomes
HttpError(code) ==
    CASE code = 429          -> "RateLimit"
      [] code \in {401, 403} -> "Authentication"
      [] code \in {408, 504} -> "Timeout"
      [] OTHER               -> "ProviderAPI"

\* the except clauses of complete and stream_complete: an HTTP error, a URLError
\* that timed out or did not, and any other.  TimeoutError in client.py is the
\* LLMError of that name: the built-in one that a read raises is "any other"
Raised(kind) == IF kind = "urlTimedOut" THEN "Timeout" ELSE "ProviderAPI"

RequestError == {HttpError(code) : code \in {429, 401, 403, 408, 504, 500}}
                  \union {Raised(kind) : kind \in {"urlTimedOut", "urlOther"}}

\* the counts the parser knows after a line
AfterLine(provider, line, known) ==
    CASE provider = "openai"    /\ line = "usage"  -> {"in", "out"}
      [] provider = "anthropic" /\ line = "start"  -> known \union {"in"}
      [] provider = "anthropic" /\ line = "usage"  -> known \union {"out"}
      [] provider = "google" /\ line \in {"delta", "finish"} -> {"in", "out"}
      [] OTHER -> known

\* the lines that make the generator yield a chunk
YieldsChunk(provider, line) ==
    \/ line \in {"delta", "finish"}
    \/ provider = "openai" /\ line = "usage"

---------------------------------------------------------------------------
\* urlopen fails
RequestFails ==
    /\ consumer = "connect"
    /\ answer' \in RequestError
    /\ consumer' = "ended"
    /\ UNCHANGED <<dialogue, mode, reader, appended, fault, idx, parser, counted>>

\* complete(): the body is read at once, or reading it fails, or the step's own
\* timeout has passed when it is there
SyncCall ==
    /\ consumer = "connect" /\ mode = "sync"
    /\ \/ /\ fault' \in {"timeout", "broken"} /\ answer' = Raised(fault')
          /\ UNCHANGED <<appended, idx, counted>>
       \/ /\ appended' = Len(dialogue.lines) /\ idx' = appended'
          /\ answer' \in {"ok", "StepTimeout"} /\ counted' = {"in", "out"}
          /\ UNCHANGED fault
    /\ consumer' = "ended"
    /\ UNCHANGED <<dialogue, mode, reader, parser>>

\* the stream opens and the reader thread starts
StreamOpen ==
    /\ consumer = "connect" /\ mode = "stream"
    /\ consumer' = "loop" /\ reader' = "reading"
    /\ UNCHANGED <<dialogue, mode, appended, fault, idx, parser, counted, answer>>

\* the thread: a line, the end of the body, or an exception of the socket, which
\* has the request's timeout
ReaderReads ==
    /\ reader = "reading" /\ appended < Len(dialogue.lines)
    /\ appended' = appended + 1
    /\ UNCHANGED <<dialogue, mode, reader, fault, consumer, idx, parser, counted, answer>>

ReaderEnds ==
    /\ reader = "reading" /\ appended = Len(dialogue.lines)
    /\ reader' = "dead"
    /\ UNCHANGED <<dialogue, mode, appended, fault, consumer, idx, parser, counted, answer>>

ReaderRaises ==
    /\ reader = "reading"
    /\ reader' = "dead" /\ fault' \in {"timeout", "broken"}
    /\ UNCHANGED <<dialogue, mode, appended, consumer, idx, parser, counted, answer>>

\* Mutant: what the reader raised stays in its thread.
EndCallQuietly == answer' = "ok" /\ consumer' = "ended" /\ UNCHANGED <<idx, parser, counted>>

\* the generator is done: the reader's exception, if any, is raised
EndCall ==
    /\ answer' = IF fault # "none" THEN Raised(fault) ELSE "ok"
    /\ consumer' = "ended"
    /\ UNCHANGED <<idx, parser, counted>>

\* the next line: [DONE] ends the generator; a chunk goes to the step, whose own
\* timeout may have passed
TakeLine ==
    LET line  == dialogue.lines[idx + 1]
        known == AfterLine(dialogue.provider, line, parser)
    IN  /\ idx' = idx + 1
        /\ parser' = known
        /\ \/ /\ line = "done" /\ dialogue.provider = "openai"
              /\ answer' = "ok" /\ consumer' = "ended" /\ UNCHANGED counted
           \/ /\ line # "done" /\ YieldsChunk(dialogue.provider, line)
              /\ \/ /\ counted' = counted \union known
                    /\ UNCHANGED <<answer, consumer>>
                 \/ /\ answer' = "StepTimeout" /\ consumer' = "ended"
                    /\ UNCHANGED counted
           \/ /\ ~YieldsChunk(dialogue.provider, line)
              /\ line # "done" \/ dialogue.provider # "openai"
              /\ UNCHANGED <<counted, answer, consumer>>

\* while reader_thread.is_alive() or idx < len(result)
ConsumerLoops ==
    /\ consumer = "loop"
    /\ \/ idx < appended /\ TakeLine
       \/ idx = appended /\ reader = "reading" /\ consumer' = "join"
            /\ UNCHANGED <<idx, parser, counted, answer>>
       \/ idx = appended /\ reader = "dead" /\ EndCall
    /\ UNCHANGED <<dialogue, mode, reader, appended, fault>>

\* join(timeout) returned: the first half of the test, "not result[idx:]"
ConsumerLooks ==
    /\ consumer = "join"
    /\ consumer' = IF idx < appended THEN "loop" ELSE "looked"
    /\ UNCHANGED <<dialogue, mode, reader, appended, fault, idx, parser, counted, answer>>

\* the second half, "not reader_thread.is_alive()"
ConsumerDecides ==
    /\ consumer = "looked"
    /\ IF reader = "dead" THEN EndCall
       ELSE consumer' = "loop" /\ UNCHANGED <<idx, parser, counted, answer>>
    /\ UNCHANGED <<dialogue, mode, reader, appended, fault>>

ReaderStep   == ReaderReads \/ ReaderEnds \/ ReaderRaises
ConsumerStep == SyncCall \/ StreamOpen \/ ConsumerLoops \/ ConsumerLooks \/ ConsumerDecides

LLMNext == RequestFails \/ ReaderStep \/ ConsumerStep

LLMSpec == LLMInit /\ [][LLMNext]_llmVars

---------------------------------------------------------------------------
LastTaken == IF idx = 0 THEN "noise" ELSE dialogue.lines[idx]
SaidDone  == dialogue.provider = "openai" /\ LastTaken = "done"

\* An answer is honest: a stream whose connection failed before its [DONE] never
\* looks like one, and one whose every line was taken is accounted with the
\* provider's own token counts, whichever lines its protocol spreads them over.
AnswerHonest ==
    answer = "ok" =>
        /\ fault = "none" \/ SaidDone
        /\ idx = Len(dialogue.lines) => counted = {"in", "out"}
=============================================================================
