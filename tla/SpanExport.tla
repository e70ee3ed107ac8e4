---------------------------- MODULE SpanExport ----------------------------
(***************************************************************************)
(* Spans: threads open and close them as a stack (telemetry/tracer.py),    *)
(* the provider hands each closed span to the OTLP exporter, and the       *)
(* exporter's worker thread takes them from a bounded queue in batches     *)
(* (telemetry/exporter.py).                                                *)
(*                                                                         *)
(* The worker's test of the queue and the get that follows are two steps,  *)
(* so a flush can empty the queue in between.  Sending never fails the     *)
(* caller: an error is logged and the batch counts as sent.                *)
(***************************************************************************)
EXTENDS Naturals, Sequences, FiniteSets, Functions

CONSTANTS
    Span,         \* the spans that are opened
    Thread,       \* threads that trace; each may also call flush or shutdown
    QueueLimit,   \* maxsize of the queue
    BatchSize,    \* batch_size
    Sentinel      \* the None that shutdown puts

ASSUME SpanAssumption ==
    /\ Sentinel \notin Span
    /\ QueueLimit \in Nat \ {0}
    /\ BatchSize \in Nat \ {0}

VARIABLES
    open,      \* open[t]: the active spans of a thread, innermost last
    fresh,     \* spans not started yet
    spans,     \* the exporter's queue
    worker,    \* the worker thread: where it is, and its batch
    stopping,  \* the stop event is set
    user,      \* user[t]: a call of flush or shutdown: where it is, what it drained
    sent,      \* spans given to the collector
    dropped,   \* spans a full queue refused
    raced      \* spans the worker let go of when a get found the queue empty

spanVars == <<open, fresh, spans, worker, stopping, user, sent, dropped, raced>>

SpanTypeOK ==
    /\ open    \in [Thread -> Seq(Span)]
    /\ fresh   \subseteq Span
    /\ spans   \in Seq(Span \union {Sentinel}) /\ Len(spans) <= QueueLimit
    /\ worker  \in [at : {"test", "wait", "more", "take", "send", "gone"}, batch : SUBSET Span]
    /\ stopping \in BOOLEAN
    /\ user    \in [Thread -> [at    : {"off", "stop", "join", "drain", "get", "send"},
                                batch : SUBSET Span]]
    /\ sent \subseteq Span /\ dropped \subseteq Span /\ raced \subseteq Span

Away == [at |-> "off", batch |-> {}]

SpanInit ==
    /\ open = [t \in Thread |-> <<>>]
    /\ fresh = Span /\ spans = <<>>
    /\ worker = [at |-> "test", batch |-> {}] /\ stopping = FALSE
    /\ user = [t \in Thread |-> Away]
    /\ sent = {} /\ dropped = {} /\ raced = {}

Active(t) == open[t][Len(open[t])]

---------------------------------------------------------------------------
\* start_as_current_span: the span becomes the thread's current one
Start(t, s) ==
    /\ s \in fresh /\ user[t].at = "off"
    /\ fresh' = fresh \ {s}
    /\ open' = [open EXCEPT ![t] = Append(@, s)]
    /\ UNCHANGED <<spans, worker, stopping, user, sent, dropped, raced>>

\* its end, with or without an exception: the current span is restored, and
\* the exporter takes the span or, full, drops it
End(t) ==
    /\ open[t] # <<>> /\ user[t].at = "off"
    /\ open' = [open EXCEPT ![t] = SubSeq(@, 1, Len(@) - 1)]
    /\ IF Len(spans) < QueueLimit
       THEN spans' = Append(spans, Active(t)) /\ UNCHANGED dropped
       ELSE dropped' = dropped \union {Active(t)} /\ UNCHANGED spans
    /\ UNCHANGED <<fresh, worker, stopping, user, sent, raced>>

---------------------------------------------------------------------------
untouched == <<open, fresh, stopping, user, dropped>>

\* while not stop_event.is_set()
WorkerTests ==
    /\ worker.at = "test"
    /\ worker' = [at |-> IF stopping THEN "gone" ELSE "wait", batch |-> {}]
    /\ UNCHANGED <<untouched, spans, sent, raced>>

\* queue.get(timeout): an item, the sentinel, or a second without either
WorkerWaits ==
    /\ worker.at = "wait"
    /\ IF spans = <<>>
       THEN worker' = [worker EXCEPT !.at = "test"] /\ UNCHANGED spans
       ELSE /\ spans' = Tail(spans)
            /\ worker' = IF Head(spans) = Sentinel
                         THEN [worker EXCEPT !.at = "gone"]
                         ELSE [at |-> "more", batch |-> {Head(spans)}]
    /\ UNCHANGED <<untouched, sent, raced>>

\* the test for another item of the batch
WorkerLooks ==
    /\ worker.at = "more"
    /\ worker' = [worker EXCEPT !.at = IF Cardinality(worker.batch) < BatchSize /\ spans # <<>>
                                       THEN "take" ELSE "send"]
    /\ UNCHANGED <<untouched, spans, sent, raced>>

\* Mutant: the sentinel ends the worker at once.
LeavesAtSentinel == [at |-> "gone", batch |-> {}]

\* the sentinel in mid-batch: the batch is sent
AtSentinel == [worker EXCEPT !.at = "send"]

\* get_nowait: queue.Empty goes back to the outer loop, without the batch
WorkerTakes ==
    /\ worker.at = "take"
    /\ IF spans = <<>>
       THEN /\ raced' = raced \union worker.batch
            /\ worker' = [at |-> "test", batch |-> {}]
            /\ UNCHANGED spans
       ELSE /\ spans' = Tail(spans)
            /\ worker' = IF Head(spans) = Sentinel
                         THEN AtSentinel
                         ELSE [at |-> "more", batch |-> worker.batch \union {Head(spans)}]
            /\ UNCHANGED raced
    /\ UNCHANGED <<untouched, sent>>

WorkerSends ==
    /\ worker.at = "send"
    /\ sent' = sent \union worker.batch
    /\ worker' = [at |-> "test", batch |-> {}]
    /\ UNCHANGED <<untouched, spans, raced>>

---------------------------------------------------------------------------
UserAt(t, place) == user' = [user EXCEPT ![t].at = place]

\* flush: drain the queue, then send
CallFlush(t) ==
    /\ user[t].at = "off" /\ open[t] = <<>>
    /\ user' = [user EXCEPT ![t] = [Away EXCEPT !.at = "drain"]]
    /\ UNCHANGED <<open, fresh, spans, worker, stopping, sent, dropped, raced>>

\* shutdown (called once): the stop event, the sentinel, at most two seconds for the worker, a flush
CallShutdown(t) ==
    /\ user[t].at = "off" /\ open[t] = <<>> /\ ~stopping
    /\ stopping' = TRUE
    /\ user' = [user EXCEPT ![t] = [Away EXCEPT !.at = "stop"]]
    /\ UNCHANGED <<open, fresh, spans, worker, sent, dropped, raced>>

\* queue.put(None) waits for room
PutSentinel(t) ==
    /\ user[t].at = "stop" /\ Len(spans) < QueueLimit
    /\ spans' = Append(spans, Sentinel)
    /\ UserAt(t, "join")
    /\ UNCHANGED <<open, fresh, worker, stopping, sent, dropped, raced>>

\* join(timeout=2.0) gives up only on a worker that is sending
Join(t) ==
    /\ user[t].at = "join" /\ worker.at \in {"gone", "send"}
    /\ UserAt(t, "drain")
    /\ UNCHANGED <<open, fresh, spans, worker, stopping, sent, dropped, raced>>

\* while not queue.empty()
Drain(t) ==
    /\ user[t].at = "drain"
    /\ UserAt(t, IF spans = <<>> THEN "send" ELSE "get")
    /\ UNCHANGED <<open, fresh, spans, worker, stopping, sent, dropped, raced>>

\* get_nowait; queue.Empty ends the drain and keeps what it has
DrainGet(t) ==
    /\ user[t].at = "get"
    /\ IF spans = <<>>
       THEN UserAt(t, "send") /\ UNCHANGED spans
       ELSE /\ spans' = Tail(spans)
            /\ user' = [user EXCEPT ![t].at = "drain",
                                    ![t].batch = @ \union ({Head(spans)} \ {Sentinel})]
    /\ UNCHANGED <<open, fresh, worker, stopping, sent, dropped, raced>>

\* _send_batch of what was drained; the call returns
FlushSends(t) ==
    /\ user[t].at = "send"
    /\ sent' = sent \union user[t].batch
    /\ user' = [user EXCEPT ![t] = Away]
    /\ UNCHANGED <<open, fresh, spans, worker, stopping, dropped, raced>>

WorkerStep == WorkerTests \/ WorkerWaits \/ WorkerLooks \/ WorkerTakes \/ WorkerSends
UserStep(t) == PutSentinel(t) \/ Join(t) \/ Drain(t) \/ DrainGet(t) \/ FlushSends(t)

SpanNext ==
    \/ WorkerStep
    \/ \E t \in Thread : \/ \E s \in Span : Start(t, s)
                         \/ End(t) \/ CallFlush(t) \/ CallShutdown(t) \/ UserStep(t)

SpanSpec == SpanInit /\ [][SpanNext]_spanVars

---------------------------------------------------------------------------
Held == worker.batch \union UNION {user[t].batch : t \in Thread}

Finished == {s \in Span : s \notin fresh /\ \A t \in Thread : s \notin Range(open[t])}

\* A span that ended is sent, waiting, refused by a full queue, or went with the
\* batch of a worker whose get found the queue emptied by a flush: nothing else
\* loses one, and none is sent before it ends.
SpansAccounted ==
    Finished = sent \union Held \union (Range(spans) \ {Sentinel}) \union dropped \union raced
=============================================================================
