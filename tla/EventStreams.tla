--------------------------- MODULE EventStreams ---------------------------
(***************************************************************************)
(* Two event sources and their subscribers: LoopProtocol                   *)
(* (mcp/__init__.py), whose subscribers wait with a timeout and look at    *)
(* the job's status, and the engine's EventEmitter (events/__init__.py),   *)
(* whose SSE streams (events/sse.py) wait without one.                     *)
(*                                                                         *)
(* One job of each; events are told apart by their type.  An event put by  *)
(* call_soon_threadsafe lands in a later step; a full queue drops it.      *)
(***************************************************************************)
EXTENDS Naturals, Sequences

CONSTANTS
    Subscriber,   \* readers of LoopProtocol.subscribe_events
    Stream,       \* SSE clients
    SyncStream,   \* those that use the synchronous iterator
    QueueSize,    \* maxsize of every queue
    HistorySize,  \* maxlen of the emitter's history
    MaxEvents     \* bound: the events of a source

ASSUME StreamAssumption ==
    /\ SyncStream \subseteq Stream
    /\ QueueSize \in Nat \ {0}
    /\ HistorySize \in Nat \ {0}
    /\ MaxEvents \in Nat \ {0}

VARIABLES
    job,      \* status of the protocol's job
    events,   \* LoopJob.events
    sub,      \* sub[s]: a subscriber, see Reader
    engine,   \* the engine's run: idle, running or over
    history,  \* the emitter's history
    emitted,  \* history variable: events emitted so far
    stream    \* stream[s]: an SSE client, see Reader

protocolVars == <<job, events, sub>>
emitterVars  == <<engine, history, emitted, stream>>
streamVars   == <<job, events, sub, engine, history, emitted, stream>>

\* the end of a run as the engine emits it
EngineEnd == {"loop_completed", "loop_failed", "loop_interrupted"}

\* Mutant: an interrupted run is not thought of.
CompletedFailedCancelled == {"loop_completed", "loop_failed", "loop_cancelled"}

\* SSEStream.TERMINAL_EVENTS
TERMINAL_EVENTS == EngineEnd \union {"loop_cancelled"}

\* what ends a subscription, and the statuses that do
SubscriptionEnd == {"completed", "failed", "cancelled",
                    "loop_completed", "loop_failed", "loop_cancelled"}

\* Mutant: cancelled is not thought of.
CompletedOrFailed == {"completed", "failed"}

EndedStatus == {"completed", "failed", "cancelled"}

ProtocolEvent == {"loop_started", "loop_paused", "loop_resumed", "loop_cancelled"}
EmitterEvent  == {"step_chunk", "step_completed"} \union EngineEnd

\* listed: the source knows the queue; landing: put by call_soon, not yet run
Reader(E) == [ at      : {"off", "reading", "ended"},
               listed  : BOOLEAN,
               landing : Seq(E),
               queue   : Seq(E) ]

NoReader == [at |-> "off", listed |-> FALSE, landing |-> <<>>, queue |-> <<>>]

StreamTypeOK ==
    /\ job \in {"absent", "running", "paused", "cancelled"}
    /\ events \in Seq(ProtocolEvent)
    /\ sub \in [Subscriber -> Reader(ProtocolEvent)]
    /\ engine \in {"idle", "running", "over"}
    /\ history \in Seq(EmitterEvent \ {"step_chunk"}) /\ Len(history) <= HistorySize
    /\ emitted \in 0..MaxEvents
    /\ stream \in [Stream -> Reader(EmitterEvent)]
    /\ \A s \in Subscriber : Len(sub[s].queue) <= QueueSize
    /\ \A s \in Stream : Len(stream[s].queue) <= QueueSize

StreamInit ==
    /\ job = "absent" /\ events = <<>> /\ sub = [s \in Subscriber |-> NoReader]
    /\ engine = "idle" /\ history = <<>> /\ emitted = 0
    /\ stream = [s \in Stream |-> NoReader]

---------------------------------------------------------------------------
\* Mutant: an unbounded queue.
PutAlways(r, e) == [r EXCEPT !.queue = Append(@, e)]

\* put_nowait where a full queue drops the event
SafePut(r, e) == IF Len(r.queue) < QueueSize THEN [r EXCEPT !.queue = Append(@, e)] ELSE r

Soon(r, e) == [r EXCEPT !.landing = Append(@, e)]

\* the event loop runs the oldest callback
Landed(r) == SafePut([r EXCEPT !.landing = Tail(@)], Head(r.landing))

\* the generator takes an event, and ends after a terminal one: its finally
\* clause takes the queue or the listener off the source
AtEnd(r) == [r EXCEPT !.at = "ended", !.listed = FALSE]

Taken(r, ends) == LET rest == [r EXCEPT !.queue = Tail(@)]
                  IN  IF Head(r.queue) \in ends THEN AtEnd(rest) ELSE rest

---------------------------------------------------------------------------
\* LoopProtocol._emit_event.  Its callers are the tools of MCPServer, coroutines:
\* the emitting thread has a running loop, and every put is a callback of it.
EmitProtocol(e) ==
    /\ Len(events) < MaxEvents
    /\ events' = Append(events, e)
    /\ sub' = [s \in Subscriber |-> IF sub[s].listed THEN Soon(sub[s], e) ELSE sub[s]]
    /\ UNCHANGED emitterVars

start_loop  == job = "absent"  /\ job' = "running" /\ EmitProtocol("loop_started")
pause_loop  == job = "running" /\ job' = "paused"  /\ EmitProtocol("loop_paused")
resume_loop == job = "paused"  /\ job' = "running" /\ EmitProtocol("loop_resumed")
cancel_loop ==
    /\ job \notin {"absent"} \union EndedStatus
    /\ job' = "cancelled"
    /\ EmitProtocol("loop_cancelled")

\* subscribe_events, up to its first wait; the job need not exist (yet)
Subscribe(s) ==
    /\ sub[s].at = "off"
    /\ sub' = [sub EXCEPT ![s].at = "reading", ![s].listed = TRUE]
    /\ UNCHANGED <<job, events, emitterVars>>

SubLands(s) ==
    /\ sub[s].landing # <<>>
    /\ sub' = [sub EXCEPT ![s] = Landed(@)]
    /\ UNCHANGED <<job, events, emitterVars>>

\* an event arrives in time
SubTakes(s) ==
    /\ sub[s].at = "reading" /\ sub[s].queue # <<>>
    /\ sub' = [sub EXCEPT ![s] = Taken(@, SubscriptionEnd)]
    /\ UNCHANGED <<job, events, emitterVars>>

\* a second without an event: the job's status decides
SubTimesOut(s) ==
    /\ sub[s].at = "reading" /\ sub[s].queue = <<>>
    /\ job \in EndedStatus
    /\ sub' = [sub EXCEPT ![s] = AtEnd(@)]
    /\ UNCHANGED <<job, events, emitterVars>>

ProtocolNext ==
    \/ start_loop \/ pause_loop \/ resume_loop \/ cancel_loop
    \/ \E s \in Subscriber : Subscribe(s) \/ SubLands(s) \/ SubTakes(s) \/ SubTimesOut(s)

---------------------------------------------------------------------------
\* deque.append with a maxlen
Remember(h, e) == LET all == Append(h, e)
                  IN  IF Len(all) > HistorySize THEN Tail(all) ELSE all

\* EventEmitter.emit: history, then every '*' listener in turn
emit(e) ==
    /\ emitted < MaxEvents
    /\ emitted' = emitted + 1
    /\ history' = IF e = "step_chunk" THEN history ELSE Remember(history, e)
    /\ stream' = [s \in Stream |->
                    IF ~stream[s].listed THEN stream[s]
                    ELSE IF s \in SyncStream THEN SafePut(stream[s], e) ELSE Soon(stream[s], e)]
    /\ UNCHANGED protocolVars

RunStarts ==
    /\ engine = "idle" /\ engine' = "running"
    /\ UNCHANGED <<history, emitted, stream, protocolVars>>

RunEmits(e) == engine = "running" /\ e \notin EngineEnd /\ emit(e) /\ UNCHANGED engine

RunEnds(e) == engine = "running" /\ e \in EngineEnd /\ emit(e) /\ engine' = "over"

\* the client starts to iterate: the listener is registered
StreamOpens(s) ==
    /\ stream[s].at = "off"
    /\ stream' = [stream EXCEPT ![s].at = "reading", ![s].listed = TRUE]
    /\ UNCHANGED <<engine, history, emitted, protocolVars>>

StreamLands(s) ==
    /\ stream[s].landing # <<>>
    /\ stream' = [stream EXCEPT ![s] = Landed(@)]
    /\ UNCHANGED <<engine, history, emitted, protocolVars>>

StreamTakes(s) ==
    /\ stream[s].at = "reading" /\ stream[s].queue # <<>>
    /\ stream' = [stream EXCEPT ![s] = Taken(@, TERMINAL_EVENTS)]
    /\ UNCHANGED <<engine, history, emitted, protocolVars>>

\* the client goes away: the generator is closed
StreamCloses(s) ==
    /\ stream[s].at = "reading"
    /\ stream' = [stream EXCEPT ![s] = AtEnd(@)]
    /\ UNCHANGED <<engine, history, emitted, protocolVars>>

EmitterNext ==
    \/ RunStarts
    \/ \E e \in EmitterEvent : RunEmits(e) \/ RunEnds(e)
    \/ \E s \in Stream : StreamOpens(s) \/ StreamLands(s) \/ StreamTakes(s) \/ StreamCloses(s)

StreamNext == ProtocolNext \/ EmitterNext

\* callbacks run, a timeout expires, a client that reads goes on reading
StreamFairness ==
    /\ \A s \in Subscriber : /\ WF_streamVars(SubLands(s))
                             /\ WF_streamVars(SubTakes(s))
                             /\ WF_streamVars(SubTimesOut(s))
    /\ \A s \in Stream : WF_streamVars(StreamLands(s)) /\ WF_streamVars(StreamTakes(s))

StreamSpec == StreamInit /\ [][StreamNext]_streamVars /\ StreamFairness

---------------------------------------------------------------------------
\* After cancel_loop a subscription ends, though its queue may have been full
\* when the terminal event came, or it may have started after it.
SubscriptionEnds ==
    \A s \in Subscriber : (job = "cancelled" /\ sub[s].at = "reading") ~> (sub[s].at = "ended")

\* A stream whose queue took the end of the run, whichever end it was, ends.
QueuedEndEndsStream ==
    \A s \in Stream : (\E i \in DOMAIN stream[s].queue : stream[s].queue[i] \in EngineEnd)
                         ~> (stream[s].at = "ended")
=============================================================================
