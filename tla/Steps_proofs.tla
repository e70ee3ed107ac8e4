---------------------------- MODULE Steps_proofs ----------------------------
(***************************************************************************)
(* Proofs about what one step does, for any blocks, sources, capabilities, *)
(* steps, threads, spans, batch sizes and provider dialogues: only the     *)
(* pinned source runs, what a success and a timeout of a process promise,  *)
(* no span is lost, and an LLM answer is what the provider sent.  The      *)
(* deadline of a process is a matter of liveness, and does not hold.       *)
(***************************************************************************)
EXTENDS CodeBlocks, ChildProcess, SpanExport, LLMStream, TLAPS

-----------------------------------------------------------------------------
(* Code blocks: from the check of a spec to the start of its script *)

Loaded == {"extract", "truncate", "fill", "spawn", "ran"}

\* What the spec of step s asks of a block.
Allowed(b, s) ==
    /\ b \in Block
    /\ codeSpec[s].sha256 \in {NoSource, b.sha256}
    /\ b.capabilities \intersect codeSpec[s].deny = {}
    /\ codeSpec[s].ref \notin edited => b.sha256 = b.source

\* A step past its second check has an allowed block; the file it is about to
\* start is that source, or was cut off by another execution of the same source.
LoadedAllowed  == \A s \in CodeStep : exec[s] \in Loaded => Allowed(loaded[s], s)
SpawnSeesWhole == \A s \in CodeStep :
                     exec[s] = "spawn" => cache[loaded[s].source] \in {"source", "empty"}
RanWasSource   == \A s \in CodeStep :
                     /\ ran[s] \in {"nothing", "source", "empty"}
                     /\ ran[s] # "nothing" => exec[s] = "ran"

\* A row is whole until its source is edited.
RowsWhole      == \A f \in Ref : block[f] = NoBlock \/ f \in edited
                                 \/ block[f].sha256 = block[f].source

BlockInv == BlockTypeOK /\ LoadedAllowed /\ SpawnSeesWhole /\ RanWasSource /\ RowsWhole

LEMMA InitBlocks == BlockInit => BlockInv
BY DEF BlockInit, BlockInv, BlockTypeOK, LoadedAllowed, SpawnSeesWhole, RanWasSource, RowsWhole,
       Loaded, Content

\* A step that moves to a place before the block is loaded, or stays, keeps the rest.
LEMMA MoveKeeps ==
    ASSUME BlockInv, NEW s \in CodeStep, NEW place \in {"refused", "admitted", "failed"},
           exec[s] \in {"submitted", "admitted"}, Move(s, place),
           UNCHANGED <<codeSpec, block, cache, loaded, ran, edited>>
    PROVE  BlockInv'
BY DEF BlockInv, BlockTypeOK, LoadedAllowed, SpawnSeesWhole, RanWasSource, RowsWhole, Loaded,
       Allowed, Move

LEMMA StepBlocks == BlockInv /\ [BlockNext]_blockVars => BlockInv'
<1> SUFFICES ASSUME BlockInv, [BlockNext]_blockVars PROVE BlockInv'
  OBVIOUS
<1> USE DEF BlockInv
<1>0. ASSUME UNCHANGED <<block, edited>> PROVE RowsWhole'
  BY <1>0 DEF RowsWhole
<1>1. ASSUME NEW f \in Ref, SaveCodeBlock(f) \/ DeleteCodeBlock(f) PROVE BlockInv'
  BY <1>1 DEF SaveCodeBlock, DeleteCodeBlock, BlockTypeOK, LoadedAllowed, SpawnSeesWhole,
              RanWasSource, RowsWhole, Allowed, Block
<1>10. ASSUME NEW f \in Ref, NEW src \in Source, EditSource(f, src) PROVE BlockInv'
  <2>1. block[f] \in Block /\ [block[f] EXCEPT !.source = src] \in Block
    BY <1>10 DEF EditSource, BlockTypeOK, Block
  <2>2. block' = [block EXCEPT ![f] = [block[f] EXCEPT !.source = src]]
    BY <1>10 DEF EditSource
  <2>3. BlockTypeOK'
    BY <1>10, <2>1, <2>2 DEF EditSource, BlockTypeOK
  <2>4. LoadedAllowed' /\ SpawnSeesWhole' /\ RanWasSource'
    BY <1>10 DEF EditSource, LoadedAllowed, SpawnSeesWhole, RanWasSource, Allowed
  <2>5. RowsWhole'
    BY <1>10, <2>2 DEF EditSource, RowsWhole, BlockTypeOK
  <2> QED
    BY <2>3, <2>4, <2>5
<1>2. ASSUME NEW s \in CodeStep, VerifyBlocks(s) PROVE BlockInv'
  BY <1>2, MoveKeeps DEF VerifyBlocks
<1>3. ASSUME NEW s \in CodeStep, LoadBlock(s) PROVE BlockInv'
  <2> DEFINE b == block[codeSpec[s].ref]
  <2>1. b \in Block \union {NoBlock}
    BY DEF BlockTypeOK, CodeSpec
  <2>2. CASE Acceptable(b, s) /\ loaded' = [loaded EXCEPT ![s] = b] /\ Move(s, "extract")
    <3>1. Allowed(b, s)
      BY <2>1, <2>2 DEF Acceptable, Allowed, RowsWhole, BlockTypeOK, CodeSpec
    <3>2. BlockTypeOK'
      BY <1>3, <2>1, <2>2 DEF LoadBlock, Move, BlockTypeOK
    <3>3. LoadedAllowed' /\ SpawnSeesWhole' /\ RanWasSource'
      BY <1>3, <2>2, <3>1 DEF LoadBlock, Move, BlockTypeOK, LoadedAllowed, SpawnSeesWhole,
                              RanWasSource, Loaded, Allowed
    <3> QED
      BY <1>0, <1>3, <3>2, <3>3 DEF LoadBlock
  <2>3. CASE Move(s, "failed") /\ UNCHANGED loaded
    BY <1>3, <2>3, MoveKeeps DEF LoadBlock
  <2> QED
    BY <1>3, <2>2, <2>3 DEF LoadBlock
<1>4. ASSUME NEW s \in CodeStep, Extract(s) PROVE BlockInv'
  BY <1>0, <1>4 DEF Extract, Reusable, Move, BlockTypeOK, LoadedAllowed, SpawnSeesWhole, RanWasSource,
              Loaded, Allowed
<1>5. ASSUME NEW s \in CodeStep, NEW text \in {"empty", "source"}, NEW place \in {"fill", "spawn"},
             exec[s] \in {"truncate", "fill"}, Move(s, place),
             text = "source" \/ place = "fill",
             cache' = [cache EXCEPT ![loaded[s].source] = text],
             UNCHANGED <<codeSpec, block, loaded, ran, edited>>
      PROVE  BlockInv'
  <2>1. loaded[s].source \in Source
    BY <1>5 DEF LoadedAllowed, Loaded, Allowed, Block
  <2>2. BlockTypeOK'
    BY <1>5, <2>1 DEF Move, BlockTypeOK, Content
  <2>3. LoadedAllowed' /\ RanWasSource'
    BY <1>5 DEF Move, BlockTypeOK, LoadedAllowed, RanWasSource, Loaded, Allowed
  <2>4. SpawnSeesWhole'
    BY <1>5, <2>1 DEF Move, BlockTypeOK, SpawnSeesWhole
  <2> QED
    BY <1>0, <1>5, <2>2, <2>3, <2>4
<1>6. ASSUME NEW s \in CodeStep, Truncate(s) \/ Fill(s) PROVE BlockInv'
  BY <1>5, <1>6 DEF Truncate, Fill
<1>7. ASSUME NEW s \in CodeStep, Spawn(s) PROVE BlockInv'
  <2>1. cache[loaded[s].source] \in {"source", "empty"}
    BY <1>7 DEF Spawn, SpawnSeesWhole
  <2>2. BlockTypeOK'
    BY <1>7, <2>1 DEF Spawn, Move, BlockTypeOK, Content
  <2>3. RanWasSource'
    BY <1>7, <2>1 DEF Spawn, Move, BlockTypeOK, RanWasSource
  <2>4. LoadedAllowed' /\ SpawnSeesWhole'
    BY <1>7 DEF Spawn, Move, BlockTypeOK, LoadedAllowed, SpawnSeesWhole, Loaded, Allowed
  <2> QED
    BY <1>0, <1>7, <2>2, <2>3, <2>4 DEF Spawn
<1>8. ASSUME NEW c \in Source, CacheTouched(c) PROVE BlockInv'
  <2>1. PICK x \in {"missing", "foreign"} : cache' = [cache EXCEPT ![c] = x]
    BY <1>8 DEF CacheTouched
  <2>2. BlockTypeOK'
    BY <1>8, <2>1 DEF CacheTouched, BlockTypeOK, Content
  <2>3. SpawnSeesWhole'
    BY <1>8, <2>1 DEF CacheTouched, BlockTypeOK, SpawnSeesWhole
  <2>4. LoadedAllowed' /\ RanWasSource'
    BY <1>8 DEF CacheTouched, LoadedAllowed, RanWasSource, Allowed
  <2> QED
    BY <1>0, <1>8, <2>2, <2>3, <2>4 DEF CacheTouched
<1>9. CASE UNCHANGED blockVars
  BY <1>9 DEF blockVars, BlockTypeOK, LoadedAllowed, SpawnSeesWhole, RanWasSource, RowsWhole,
              Allowed
<1> QED
  BY <1>1, <1>2, <1>3, <1>4, <1>6, <1>7, <1>8, <1>9, <1>10 DEF BlockNext

\* The inductive invariant holds in every reachable state.
THEOREM BlockInvariant == BlockSpec => []BlockInv
<1> QED
  BY InitBlocks, StepBlocks, PTL DEF BlockSpec

\* No execution runs anything but the pinned source of an allowed block, or
\* nothing of it (h_verify_blocks, CodeBlockExecutor.execute, _extract).
THEOREM PinnedCodeOnly == BlockSpec => []OnlyPinnedCode
<1>1. BlockInv => OnlyPinnedCode
  BY DEF BlockInv, OnlyPinnedCode, RanWasSource, LoadedAllowed, Allowed, Loaded
<1> QED
  BY <1>1, BlockInvariant, PTL

-----------------------------------------------------------------------------
(* One call that starts a process *)

\* Where the step's thread is, and what it has done by then.
CallerFits ==
    /\ caller = "spawn" => verdict = "none" /\ child = "none"
    /\ caller \in {"feed", "wait", "join"} => verdict = "none" /\ child \in {"running", "exited"}
    /\ caller = "feed" => world.kind = "code"
    /\ caller = "join" => Dead /\ world.kind = "code"
    /\ caller = "reap" => verdict = "none" /\ world.kind = "shell"
    /\ caller \in {"close", "terminate"} => IsServer

\* Which reading thread there is, and that it drains to the end of the pipe.
PumpFits ==
    /\ pump = "draining" => ~IsServer
    /\ pump \in {"hello", "calling", "awaiting"} => IsServer
    /\ pump = "over" /\ ~IsServer => PipeClosed

\* A good answer was written by the process.
CaughtWasWritten == caught = "ok" => wrote = "ok"

\* The group is gone from the kill on, not only in the end.
KilledStays ==
    /\ caller = "reap" => Dead /\ heir # "group"
    /\ caller = "returned" /\ verdict = "timeout" =>
          child # "running" /\ (~IsServer => Dead /\ heir # "group")

ProcInv ==
    /\ ProcTypeOK
    /\ CallerFits /\ PumpFits /\ CaughtWasWritten
    /\ SuccessWasAnswered /\ KilledStays

LEMMA WorldKinds == ProcTypeOK => /\ world.kind \in {"shell", "code", "mcp"}
                                  /\ world.leaves \in {"none", "group", "escaped"}
BY KindAssumption DEF ProcTypeOK, World

LEMMA InitProc == ProcInit => ProcInv
BY DEF ProcInit, ProcInv, ProcTypeOK, CallerPlace, Pump, CallerFits, PumpFits, CaughtWasWritten,
       SuccessWasAnswered, KilledStays

\* The process writes, ends or leaves its descendant.
LEMMA ProcessKeeps ==
    ASSUME ProcInv, ProcessReads \/ ProcessWrites \/ ProcessEnds \/ HeirEnds PROVE ProcInv'
<1> USE WorldKinds DEF ProcInv, IsServer, Dead, HeirHolds, PipeClosed
<1>1. CASE ProcessReads
  BY <1>1 DEF ProcessReads, ProcTypeOK, CallerFits, PumpFits, CaughtWasWritten, SuccessWasAnswered,
              KilledStays
<1>2. CASE ProcessWrites
  BY <1>2 DEF ProcessWrites, ProcTypeOK, CallerFits, PumpFits, CaughtWasWritten, SuccessWasAnswered,
              KilledStays
<1>3. CASE ProcessEnds
  BY <1>3 DEF ProcessEnds, ProcTypeOK, CallerFits, PumpFits, CaughtWasWritten, SuccessWasAnswered,
              KilledStays
<1>4. CASE HeirEnds
  BY <1>4 DEF HeirEnds, ProcTypeOK, CallerFits, PumpFits, CaughtWasWritten, SuccessWasAnswered,
              KilledStays
<1> QED
  BY <1>1, <1>2, <1>3, <1>4

\* The reading thread.
LEMMA PumpKeeps == ASSUME ProcInv, PumpStep PROVE ProcInv'
<1> USE WorldKinds DEF ProcInv, IsServer, Dead, HeirHolds, PipeClosed, Pump
<1>1. CASE PumpDrains
  BY <1>1 DEF PumpDrains, ProcTypeOK, CallerFits, PumpFits, CaughtWasWritten, SuccessWasAnswered,
              KilledStays
<1>2. CASE Handshake
  BY <1>2 DEF Handshake, ProcTypeOK, CallerFits, PumpFits, CaughtWasWritten, SuccessWasAnswered,
              KilledStays
<1>3. CASE SendCall
  BY <1>3 DEF SendCall, ProcTypeOK, CallerFits, PumpFits, CaughtWasWritten, SuccessWasAnswered,
              KilledStays
<1>4. CASE TakeResponse
  BY <1>4 DEF TakeResponse, ProcTypeOK, CallerFits, PumpFits, CaughtWasWritten, SuccessWasAnswered,
              KilledStays
<1> QED
  BY <1>1, <1>2, <1>3, <1>4 DEF PumpStep

\* The step's thread: the one that starts, kills, waits and reports.
LEMMA CallerKeeps == ASSUME ProcInv, CallerStep PROVE ProcInv'
<1> USE WorldKinds DEF ProcInv, IsServer, Dead, HeirHolds, PipeClosed, CallerPlace, Reports
<1>1. CASE Popen
  BY <1>1 DEF Popen, Pump, ProcTypeOK, CallerFits, PumpFits, CaughtWasWritten, SuccessWasAnswered,
              KilledStays
<1>2. CASE Feed
  BY <1>2 DEF Feed, ProcTypeOK, World, CallerFits, PumpFits, CaughtWasWritten, SuccessWasAnswered,
              KilledStays
<1>3. CASE Communicate
  <2>1. CASE Dead /\ pump = "over" /\ Reports(Interpret(caught, code)) /\ UNCHANGED <<child, heir>>
    BY <1>3, <2>1 DEF Communicate, Interpret, ProcTypeOK, CallerFits, PumpFits,
                      CaughtWasWritten, SuccessWasAnswered, KilledStays
  <2>2. CASE KillTree /\ caller' = "reap" /\ UNCHANGED verdict
    <3>1. /\ child' \in {"exited", "killed"} /\ heir' \in {"none", "escaped", "dead"}
          /\ heir' \in {"none", "dead"} \/ ~PipeClosed
      <4>1. CASE child = "running"
        BY <1>3, <2>2, <4>1 DEF Communicate, KillTree, KillGroup, ProcTypeOK, CallerFits
      <4>2. CASE child = "exited"
        BY <1>3, <2>2, <4>2 DEF Communicate, KillTree, KillGroup, ProcTypeOK, CallerFits
      <4> QED
        BY <1>3, <4>1, <4>2 DEF Communicate, CallerFits
    <3> QED
      BY <1>3, <2>2, <3>1 DEF Communicate, ProcTypeOK, CallerFits, PumpFits, CaughtWasWritten,
                              SuccessWasAnswered, KilledStays
  <2> QED
    BY <1>3, <2>1, <2>2 DEF Communicate
<1>4. CASE Reap
  BY <1>4 DEF Reap, ProcTypeOK, CallerFits, PumpFits, CaughtWasWritten, SuccessWasAnswered,
              KilledStays
<1>5. CASE WaitBlock
  BY <1>5 DEF WaitBlock, KillTree, KillGroup, ProcTypeOK, CallerFits, PumpFits,
              CaughtWasWritten, SuccessWasAnswered, KilledStays
<1>6. CASE JoinDrains
  BY <1>6 DEF JoinDrains, Interpret, ProcTypeOK, CallerFits, PumpFits, CaughtWasWritten,
              SuccessWasAnswered, KilledStays
<1>7. CASE JoinReader
  BY <1>7 DEF JoinReader, ProcTypeOK, CallerFits, PumpFits, CaughtWasWritten,
              SuccessWasAnswered, KilledStays
<1>8. CASE CloseStdin
  BY <1>8 DEF CloseStdin, ProcTypeOK, CallerFits, PumpFits, CaughtWasWritten,
              SuccessWasAnswered, KilledStays
<1>9. CASE Terminate
  BY <1>9 DEF Terminate, ProcTypeOK, CallerFits, PumpFits, CaughtWasWritten,
              SuccessWasAnswered, KilledStays
<1> QED
  BY <1>1, <1>2, <1>3, <1>4, <1>5, <1>6, <1>7, <1>8, <1>9 DEF CallerStep

LEMMA StepProc == ProcInv /\ [ProcNext]_procVars => ProcInv'
<1>1. ProcInv /\ UNCHANGED procVars => ProcInv'
  BY DEF procVars, ProcInv, ProcTypeOK, CallerFits, PumpFits, CaughtWasWritten, SuccessWasAnswered,
         KilledStays, IsServer, Dead, PipeClosed, HeirHolds
<1> QED
  BY <1>1, ProcessKeeps, PumpKeeps, CallerKeeps DEF ProcNext

\* The inductive invariant holds in every reachable state.
THEOREM ProcInvariant == ProcSpec => []ProcInv
<1> QED
  BY InitProc, StepProc, PTL DEF ProcSpec

\* A success is never made of a killed process, a pipe that was not read to its
\* end or a payload that did not get through (shell.py, code_block.py, mcp.py).
THEOREM SuccessMeansAnswer == ProcSpec => []SuccessWasAnswered
<1> QED
  BY ProcInvariant, PTL DEF ProcInv

LEMMA KilledShown == ProcInv => TimeoutKillsGroup
BY DEF ProcInv, KilledStays, TimeoutKillsGroup, IsServer

\* What is left of the process group is gone when a shell or a code step
\* reports a timeout (killpg in shell.py and code_block.py).
THEOREM TimeoutMeansKilled == ProcSpec => []TimeoutKillsGroup
<1> QED
  BY KilledShown, ProcInvariant, PTL

-----------------------------------------------------------------------------
(* Spans: every one that ended is somewhere *)

\* A span is open once, in one thread, and was started.
OpenOnce ==
    /\ \A t \in Thread : \A i \in DOMAIN open[t] : open[t][i] \notin fresh
    /\ \A t, u \in Thread : \A i \in DOMAIN open[t], j \in DOMAIN open[u] :
          open[t][i] = open[u][j] => t = u /\ i = j

\* Where a batch is let go of, there is none.
BatchesFit ==
    /\ worker.at \in {"test", "wait", "gone"} => worker.batch = {}
    /\ \A t \in Thread : user[t].at \in {"off", "stop", "join"} => user[t].batch = {}

UserCall == [at : {"off", "stop", "join", "drain", "get", "send"}, batch : SUBSET Span]

SpanInv == SpanTypeOK /\ OpenOnce /\ BatchesFit /\ SpansAccounted

\* What became of the spans that ended.
Accounted == sent \union Held \union (Range(spans) \ {Sentinel}) \union dropped \union raced

LEMMA InitSpans == SpanInit => SpanInv
<1> SUFFICES ASSUME SpanInit PROVE SpanInv
  OBVIOUS
<1>1. SpanTypeOK
  <2>1. /\ <<>> \in Seq(Span) /\ <<>> \in Seq(Span \union {Sentinel}) /\ Len(<<>>) = 0
        /\ QueueLimit \in Nat
    BY SpanAssumption
  <2>2. open \in [Thread -> Seq(Span)] /\ user \in [Thread -> UserCall]
    BY <2>1 DEF SpanInit, UserCall, Away
  <2>3. spans \in Seq(Span \union {Sentinel}) /\ Len(spans) <= QueueLimit
    BY <2>1 DEF SpanInit
  <2>4. worker \in [at : {"test", "wait", "more", "take", "send", "gone"}, batch : SUBSET Span]
    BY DEF SpanInit
  <2> QED
    BY <2>2, <2>3, <2>4 DEF SpanInit, SpanTypeOK, UserCall
<1>2. OpenOnce /\ BatchesFit
  BY DEF SpanInit, OpenOnce, BatchesFit, Away
<1>3. Finished = {} /\ Accounted = {}
  BY DEF SpanInit, Finished, Accounted, Held, Range, Away
<1> QED
  BY <1>1, <1>2, <1>3 DEF SpanInv, SpansAccounted, Accounted

\* The two ends of a queue.
LEMMA RangeAppend ==
    ASSUME NEW S, NEW q \in Seq(S), NEW x \in S
    PROVE  Append(q, x) \in Seq(S) /\ Range(Append(q, x)) = Range(q) \union {x}
<1>1. /\ Append(q, x) \in Seq(S) /\ DOMAIN q = 1..Len(q) /\ Len(q) \in Nat
      /\ DOMAIN Append(q, x) = 1..(Len(q) + 1)
      /\ \A i \in 1..(Len(q) + 1) : Append(q, x)[i] = IF i = Len(q) + 1 THEN x ELSE q[i]
  OBVIOUS
<1> QED
  BY <1>1 DEF Range

LEMMA RangeHeadTail ==
    ASSUME NEW S, NEW q \in Seq(S), q # <<>>
    PROVE  /\ Head(q) \in S /\ Tail(q) \in Seq(S) /\ Len(Tail(q)) = Len(q) - 1
           /\ Range(q) = Range(Tail(q)) \union {Head(q)}
<1>1. /\ Head(q) = q[1] /\ Tail(q) \in Seq(S) /\ Len(Tail(q)) = Len(q) - 1 /\ Len(q) \in Nat \ {0}
      /\ DOMAIN q = 1..Len(q) /\ DOMAIN Tail(q) = 1..(Len(q) - 1)
      /\ \A i \in 1..(Len(q) - 1) : Tail(q)[i] = q[i + 1]
  OBVIOUS
<1>2. ASSUME NEW x \in Range(q) PROVE x \in Range(Tail(q)) \union {Head(q)}
  <2>1. PICK i \in 1..Len(q) : x = q[i]
    BY <1>1, <1>2 DEF Range
  <2>2. CASE i = 1
    BY <1>1, <2>1, <2>2
  <2>3. CASE i # 1
    <3>1. i - 1 \in 1..(Len(q) - 1) /\ Tail(q)[i - 1] = x
      BY <1>1, <2>1, <2>3
    <3> QED
      BY <1>1, <3>1 DEF Range
  <2> QED
    BY <2>2, <2>3
<1>3. ASSUME NEW x \in Range(Tail(q)) \union {Head(q)} PROVE x \in Range(q)
  BY <1>1, <1>3 DEF Range
<1> QED
  BY <1>1, <1>2, <1>3

\* A step that neither starts nor ends a span finishes none.
LEMMA FinishedKept == ASSUME UNCHANGED <<open, fresh>> PROVE Finished' = Finished
BY DEF Finished

\* What the threads and the worker hold, span by span.
LEMMA HeldBy ==
    \A x : x \in Held <=> x \in worker.batch \/ \E t \in Thread : x \in user[t].batch
BY DEF Held

\* The worker moves spans from the queue to the collector.
LEMMA WorkerKeeps == ASSUME SpanInv, WorkerStep PROVE SpanInv'
<1> USE SpanAssumption
<1>0. SpanTypeOK /\ OpenOnce /\ BatchesFit /\ Finished = Accounted
  BY DEF SpanInv, SpansAccounted, Accounted
<1>1. UNCHANGED <<open, fresh, stopping, user, dropped>>
  BY DEF WorkerStep, WorkerTests, WorkerWaits, WorkerLooks, WorkerTakes, WorkerSends, untouched
<1>2. OpenOnce' /\ Finished' = Finished
  BY <1>0, <1>1 DEF OpenOnce, Finished
<1>3. /\ worker.at \in {"test", "wait", "more", "take", "send", "gone"} /\ worker.batch \subseteq Span
      /\ spans \in Seq(Span \union {Sentinel}) /\ Len(spans) <= QueueLimit /\ Len(spans) \in Nat
  BY <1>0 DEF SpanTypeOK
<1>4. ASSUME spans # <<>>
      PROVE  /\ Head(spans) \in Span \union {Sentinel} /\ Tail(spans) \in Seq(Span \union {Sentinel})
             /\ Len(Tail(spans)) <= QueueLimit
             /\ Range(spans) = Range(Tail(spans)) \union {Head(spans)}
  BY <1>3, <1>4, RangeHeadTail
<1>5. /\ SpanTypeOK' /\ BatchesFit'
      /\ sent' \union worker.batch' \union (Range(spans)' \ {Sentinel}) \union raced'
            = sent \union worker.batch \union (Range(spans) \ {Sentinel}) \union raced
  <2>1. CASE WorkerTests
    BY <1>0, <1>1, <1>3, <2>1 DEF WorkerTests, SpanTypeOK, BatchesFit
  <2>2. CASE WorkerWaits
    <3>1. CASE spans = <<>>
      BY <1>0, <1>1, <1>3, <2>2, <3>1 DEF WorkerWaits, SpanTypeOK, BatchesFit
    <3>2. CASE spans # <<>>
      <4>1. worker' = IF Head(spans) = Sentinel THEN [at |-> "gone", batch |-> {}]
                                                ELSE [at |-> "more", batch |-> {Head(spans)}]
        BY <1>0, <2>2, <3>2 DEF WorkerWaits, BatchesFit, SpanTypeOK
      <4>2. worker.batch = {} /\ spans' = Tail(spans) /\ UNCHANGED <<sent, raced>>
        BY <1>0, <2>2, <3>2 DEF WorkerWaits, BatchesFit
      <4> QED
        BY <1>0, <1>1, <1>4, <3>2, <4>1, <4>2 DEF SpanTypeOK, BatchesFit
    <3> QED
      BY <3>1, <3>2
  <2>3. CASE WorkerLooks
    BY <1>0, <1>1, <1>3, <2>3 DEF WorkerLooks, SpanTypeOK, BatchesFit
  <2>4. CASE WorkerTakes
    <3>1. CASE spans = <<>>
      BY <1>0, <1>1, <1>3, <2>4, <3>1 DEF WorkerTakes, SpanTypeOK, BatchesFit
    <3>2. CASE spans # <<>>
      <4>1. worker' = IF Head(spans) = Sentinel
                      THEN [at |-> "send", batch |-> worker.batch]
                      ELSE [at |-> "more", batch |-> worker.batch \union {Head(spans)}]
        BY <1>0, <2>4, <3>2 DEF WorkerTakes, AtSentinel, SpanTypeOK
      <4>2. spans' = Tail(spans) /\ UNCHANGED <<sent, raced>>
        BY <2>4, <3>2 DEF WorkerTakes
      <4> QED
        BY <1>0, <1>1, <1>3, <1>4, <3>2, <4>1, <4>2 DEF SpanTypeOK, BatchesFit
    <3> QED
      BY <3>1, <3>2
  <2>5. CASE WorkerSends
    BY <1>0, <1>1, <1>3, <2>5 DEF WorkerSends, SpanTypeOK, BatchesFit
  <2> QED
    BY <2>1, <2>2, <2>3, <2>4, <2>5 DEF WorkerStep
<1>6. Accounted' = Accounted
  BY <1>1, <1>5, HeldBy DEF Accounted, Held
<1> QED
  BY <1>0, <1>2, <1>5, <1>6 DEF SpanInv, SpansAccounted, Accounted

\* A thread's call goes on as u; it, the queue and the collector share what they had.
GoesOn(t, u) ==
    /\ u \in UserCall /\ user' = [user EXCEPT ![t] = u]
    /\ u.at \in {"off", "stop", "join"} => u.batch = {}
    /\ sent' \union u.batch \union (Range(spans') \ {Sentinel})
          = sent \union user[t].batch \union (Range(spans) \ {Sentinel})
    /\ spans' \in Seq(Span \union {Sentinel}) /\ Len(spans') <= QueueLimit
    /\ sent' \subseteq Span /\ stopping' \in BOOLEAN
    /\ UNCHANGED <<open, fresh, worker, dropped, raced>>

LEMMA GoesOnKeeps == ASSUME SpanInv, NEW t \in Thread, NEW u, GoesOn(t, u) PROVE SpanInv'
<1>0. SpanTypeOK /\ OpenOnce /\ BatchesFit /\ Finished = Accounted
  BY DEF SpanInv, SpansAccounted, Accounted
<1>1. OpenOnce' /\ Finished' = Finished
  BY <1>0 DEF GoesOn, OpenOnce, Finished
<1>2. user'[t] = u /\ \A v \in Thread \ {t} : user'[v] = user[v]
  BY <1>0 DEF GoesOn, SpanTypeOK
<1>3. SpanTypeOK' /\ BatchesFit'
  BY <1>0, <1>2 DEF GoesOn, UserCall, SpanTypeOK, BatchesFit
<1>4. \A x : x \in Accounted' <=> x \in Accounted
  <2>1. \A x : x \in Held' <=> x \in worker.batch \/ x \in u.batch
                                \/ \E v \in Thread \ {t} : x \in user[v].batch
    BY <1>2 DEF Held, GoesOn
  <2>2. \A x : x \in Held <=> x \in worker.batch \/ x \in user[t].batch
                               \/ \E v \in Thread \ {t} : x \in user[v].batch
    BY DEF Held
  <2> QED
    BY <2>1, <2>2 DEF Accounted, GoesOn
<1> QED
  BY <1>0, <1>1, <1>3, <1>4 DEF SpanInv, SpansAccounted, Accounted

\* The calls of flush and shutdown: of what they take, they give all to the collector.
LEMMA CallsKeep ==
    ASSUME SpanInv, NEW t \in Thread, CallFlush(t) \/ CallShutdown(t) \/ UserStep(t) PROVE SpanInv'
<1> USE SpanAssumption
<1>0. SpanTypeOK /\ BatchesFit
  BY DEF SpanInv
<1>1. UNCHANGED <<open, fresh, worker, dropped, raced>>
  BY DEF CallFlush, CallShutdown, UserStep, PutSentinel, Join, Drain, DrainGet, FlushSends
<1>2. /\ user \in [Thread -> UserCall] /\ user[t] \in UserCall
      /\ user[t] = [at |-> user[t].at, batch |-> user[t].batch] /\ user[t].batch \subseteq Span
      /\ spans \in Seq(Span \union {Sentinel}) /\ Len(spans) \in Nat /\ Len(spans) <= QueueLimit
      /\ sent \subseteq Span /\ stopping \in BOOLEAN
  BY <1>0 DEF SpanTypeOK, UserCall
<1>3. SUFFICES \E u : GoesOn(t, u)
  BY GoesOnKeeps
<1>4. CASE CallFlush(t) \/ CallShutdown(t)
  <2>1. user[t].batch = {}
    BY <1>0, <1>4 DEF CallFlush, CallShutdown, BatchesFit
  <2>2. PICK place \in {"drain", "stop"} :
           user' = [user EXCEPT ![t] = [at |-> place, batch |-> {}]]
    BY <1>4 DEF CallFlush, CallShutdown, Away
  <2>3. UNCHANGED <<spans, sent>> /\ stopping' \in BOOLEAN
    BY <1>2, <1>4 DEF CallFlush, CallShutdown
  <2>4. GoesOn(t, [at |-> place, batch |-> {}])
    BY <1>1, <1>2, <2>1, <2>2, <2>3 DEF GoesOn, UserCall
  <2> QED
    BY <2>4
<1>5. ASSUME NEW place \in {"join", "drain", "get", "send"}, UserAt(t, place),
             UNCHANGED <<stopping, sent>>, place = "join" => user[t].at \in {"stop", "join"},
             spans' = spans \/ (Len(spans) < QueueLimit /\ spans' = Append(spans, Sentinel))
      PROVE  \E u : GoesOn(t, u)
  <2> DEFINE u == [at |-> place, batch |-> user[t].batch]
  <2>1. user' = [user EXCEPT ![t] = u]
    <3>1. [user[t] EXCEPT !.at = place] = u
      BY <1>2
    <3> QED
      BY <1>5, <3>1 DEF UserAt
  <2>2. CASE spans' = spans
    BY <1>0, <1>1, <1>2, <1>5, <2>1, <2>2 DEF GoesOn, UserCall, BatchesFit
  <2>3. CASE Len(spans) < QueueLimit /\ spans' = Append(spans, Sentinel)
    <3>1. Range(spans') = Range(spans) \union {Sentinel} /\ spans' \in Seq(Span \union {Sentinel})
      BY <1>2, <2>3, RangeAppend
    <3>2. Len(spans') = Len(spans) + 1
      BY <1>2, <2>3
    <3>3. GoesOn(t, u)
      BY <1>0, <1>1, <1>2, <1>5, <2>1, <2>3, <3>1, <3>2 DEF GoesOn, UserCall, BatchesFit
    <3> QED
      BY <3>3
  <2> QED
    BY <1>5, <2>2, <2>3
<1>6. CASE PutSentinel(t) \/ Join(t) \/ Drain(t)
  BY <1>5, <1>6 DEF PutSentinel, Join, Drain
<1>7. CASE DrainGet(t)
  <2>1. CASE spans = <<>>
    BY <1>5, <1>7, <2>1 DEF DrainGet
  <2>2. CASE spans # <<>>
    <3>1. /\ Head(spans) \in Span \union {Sentinel} /\ Tail(spans) \in Seq(Span \union {Sentinel})
          /\ Len(Tail(spans)) = Len(spans) - 1
          /\ Range(spans) = Range(Tail(spans)) \union {Head(spans)}
      BY <1>2, <2>2, RangeHeadTail
    <3> DEFINE u == [user[t] EXCEPT !.at = "drain", !.batch = @ \union ({Head(spans)} \ {Sentinel})]
    <3>2. user' = [user EXCEPT ![t] = u] /\ spans' = Tail(spans) /\ UNCHANGED <<sent, stopping>>
      BY <1>2, <1>7, <2>2 DEF DrainGet
    <3>3. u \in UserCall /\ u.at = "drain" /\ u.batch = user[t].batch \union ({Head(spans)} \ {Sentinel})
      BY <1>2, <3>1 DEF UserCall
    <3> HIDE DEF u
    <3>4. GoesOn(t, u)
      BY <1>1, <1>2, <3>1, <3>2, <3>3 DEF GoesOn
    <3> QED
      BY <3>4
  <2> QED
    BY <2>1, <2>2
<1>8. CASE FlushSends(t)
  <2>1. GoesOn(t, Away)
    BY <1>1, <1>2, <1>8 DEF FlushSends, GoesOn, UserCall, Away
  <2> QED
    BY <2>1
<1> QED
  BY <1>4, <1>6, <1>7, <1>8 DEF UserStep

\* A span starts.
LEMMA StartKeeps == ASSUME SpanInv, NEW t \in Thread, NEW s \in Span, Start(t, s) PROVE SpanInv'
<1> USE SpanAssumption
<1>0. SpanTypeOK /\ OpenOnce /\ BatchesFit /\ Finished = Accounted
  BY DEF SpanInv, SpansAccounted, Accounted
<1> DEFINE stack == Append(open[t], s)
<1>1. /\ open[t] \in Seq(Span) /\ open' = [open EXCEPT ![t] = stack] /\ stack \in Seq(Span)
      /\ open'[t] = stack /\ \A u \in Thread \ {t} : open'[u] = open[u]
      /\ s \in fresh /\ fresh' = fresh \ {s}
      /\ UNCHANGED <<spans, worker, user, sent, dropped, raced, stopping>>
  BY <1>0 DEF Start, SpanTypeOK
<1>2. /\ DOMAIN stack = 1..(Len(open[t]) + 1) /\ DOMAIN open[t] = 1..Len(open[t])
      /\ Len(open[t]) \in Nat
      /\ \A i \in DOMAIN stack : stack[i] = IF i = Len(open[t]) + 1 THEN s ELSE open[t][i]
  BY <1>1
<1>3. Range(stack) = Range(open[t]) \union {s}
  BY <1>1, RangeAppend
<1> HIDE DEF stack
<1>4. SpanTypeOK'
  BY <1>0, <1>1 DEF SpanTypeOK
<1>5. OpenOnce'
  <2>1. \A u \in Thread : \A i \in DOMAIN open'[u] :
           \/ u = t /\ i = Len(open[t]) + 1 /\ open'[u][i] = s
           \/ i \in DOMAIN open[u] /\ open'[u][i] = open[u][i] /\ open[u][i] # s
    BY <1>0, <1>1, <1>2 DEF OpenOnce
  <2> QED
    BY <1>0, <1>1, <2>1 DEF OpenOnce
<1>6. Finished' = Finished
  <2>1. ASSUME NEW x \in Span
        PROVE  (\E u \in Thread : x \in Range(open'[u]))
                  <=> x = s \/ \E u \in Thread : x \in Range(open[u])
    <3>1. x \in Range(open'[t]) <=> x = s \/ x \in Range(open[t])
      BY <1>1, <1>3
    <3>2. \A u \in Thread \ {t} : Range(open'[u]) = Range(open[u])
      BY <1>1
    <3> QED
      BY <3>1, <3>2
  <2> QED
    BY <1>0, <1>1, <2>1 DEF Finished, SpanTypeOK
<1>7. BatchesFit' /\ Accounted' = Accounted
  BY <1>0, <1>1 DEF BatchesFit, Accounted, Held
<1> QED
  BY <1>0, <1>4, <1>5, <1>6, <1>7 DEF SpanInv, SpansAccounted, Accounted

\* The innermost span ends, and is queued or refused.
LEMMA EndKeeps == ASSUME SpanInv, NEW t \in Thread, End(t) PROVE SpanInv'
<1> USE SpanAssumption
<1>0. SpanTypeOK /\ OpenOnce /\ BatchesFit /\ Finished = Accounted
  BY DEF SpanInv, SpansAccounted, Accounted
<1> DEFINE n == Len(open[t])
           stack == SubSeq(open[t], 1, n - 1)
           s == open[t][n]
<1>1. /\ open[t] \in Seq(Span) /\ n \in Nat \ {0} /\ DOMAIN open[t] = 1..n /\ s \in Span
      /\ stack \in Seq(Span) /\ DOMAIN stack = 1..(n - 1)
      /\ \A i \in 1..(n - 1) : stack[i] = open[t][i]
  BY <1>0 DEF End, SpanTypeOK
<1>2. /\ open'[t] = stack /\ \A u \in Thread \ {t} : open'[u] = open[u]
      /\ open' \in [Thread -> Seq(Span)]
      /\ UNCHANGED <<fresh, worker, stopping, user, sent, raced>>
  BY <1>0, <1>1 DEF End, SpanTypeOK
<1>3. \/ Len(spans) < QueueLimit /\ spans' = Append(spans, s) /\ dropped' = dropped
      \/ spans' = spans /\ dropped' = dropped \union {s}
  BY DEF End, Active
<1> HIDE DEF stack, s, n
<1>3a. s \in Span \union {Sentinel} /\ spans \in Seq(Span \union {Sentinel}) /\ Len(spans) \in Nat
  BY <1>0, <1>1 DEF SpanTypeOK
<1>4. SpanTypeOK'
  <2>1. spans' \in Seq(Span \union {Sentinel}) /\ Len(spans') <= QueueLimit /\ dropped' \subseteq Span
    <3>1. CASE Len(spans) < QueueLimit /\ spans' = Append(spans, s) /\ dropped' = dropped
      <4>1. Append(spans, s) \in Seq(Span \union {Sentinel}) /\ Len(Append(spans, s)) = Len(spans) + 1
        BY <1>3a
      <4> QED
        BY <1>0, <1>3a, <3>1, <4>1 DEF SpanTypeOK
    <3>2. CASE spans' = spans /\ dropped' = dropped \union {s}
      BY <1>0, <1>1, <3>2 DEF SpanTypeOK
    <3> QED
      BY <1>3, <3>1, <3>2
  <2> QED
    BY <1>0, <1>2, <2>1 DEF SpanTypeOK
<1>5. OpenOnce'
  <2>1. \A u \in Thread : \A i \in DOMAIN open'[u] : i \in DOMAIN open[u] /\ open'[u][i] = open[u][i]
    BY <1>1, <1>2
  <2> QED
    BY <1>0, <1>2, <2>1 DEF OpenOnce
<1>6. Finished' = Finished \union {s}
  <2>1. Range(open[t]) = Range(stack) \union {s}
    BY <1>1 DEF Range, s
  <2>2. s \notin Range(stack) /\ s \notin fresh
    BY <1>0, <1>1 DEF OpenOnce, Range, s
  <2>3. \A u \in Thread \ {t} : s \notin Range(open[u])
    BY <1>0, <1>1 DEF OpenOnce, Range, s
  <2> QED
    BY <1>1, <1>2, <2>1, <2>2, <2>3 DEF Finished
<1>7. Accounted' = Accounted \union {s}
  <2>1. (Range(spans)' \ {Sentinel}) \union dropped'
           = (Range(spans) \ {Sentinel}) \union dropped \union {s}
    <3>1. Range(Append(spans, s)) = Range(spans) \union {s}
      BY <1>3a, RangeAppend
    <3>2. s # Sentinel
      BY <1>1
    <3> QED
      BY <1>3, <3>1, <3>2
  <2> QED
    BY <1>2, <2>1 DEF Accounted, Held
<1>8. BatchesFit'
  BY <1>0, <1>2 DEF BatchesFit
<1> QED
  BY <1>0, <1>4, <1>5, <1>6, <1>7, <1>8 DEF SpanInv, SpansAccounted, Accounted

LEMMA StepSpans == SpanInv /\ [SpanNext]_spanVars => SpanInv'
<1>1. SpanInv /\ UNCHANGED spanVars => SpanInv'
  BY DEF spanVars, SpanInv, SpanTypeOK, OpenOnce, BatchesFit, SpansAccounted, Finished, Held
<1> QED
  BY <1>1, WorkerKeeps, CallsKeep, StartKeeps, EndKeeps DEF SpanNext

\* The inductive invariant holds in every reachable state.
THEOREM SpanInvariant == SpanSpec => []SpanInv
<1> QED
  BY InitSpans, StepSpans, PTL DEF SpanSpec

\* No finished span is lost but by a full queue or by the worker whose get found
\* the queue emptied, for any threads and any sizes of queue and batch (exporter.py).
THEOREM NoSpanLost == SpanSpec => []SpansAccounted
<1> QED
  BY SpanInvariant, PTL DEF SpanInv

-----------------------------------------------------------------------------
(* One LLM call *)

Both == {"in", "out"}

\* A chunk that carries both counts is among lines 1..n.
CountsBy(d, n) ==
    CASE d.provider = "openai"    -> \E k \in 1..n : d.lines[k] = "usage"
      [] d.provider = "anthropic" -> \E k \in 1..n : /\ d.lines[k] \in {"delta", "finish"}
                                                     /\ \E i \in 1..(k - 1) : d.lines[i] = "start"
                                                     /\ \E i \in 1..(k - 1) : d.lines[i] = "usage"
      [] d.provider = "google"    -> \E k \in 1..n : d.lines[k] \in {"delta", "finish"}

\* The answer of a server that reports its token counts, as the providers' protocols do.
Complete(d) == CountsBy(d, Len(d.lines))

\* Where the call is, and what the reader and the answer are by then.
CallFits ==
    /\ consumer = "connect" => /\ reader = "off" /\ idx = 0 /\ appended = 0 /\ fault = "none"
                               /\ answer = "none"
    /\ answer # "none" <=> consumer = "ended"
    /\ mode = "sync" => reader = "off" /\ consumer \in {"connect", "ended"}
    /\ fault # "none" => reader # "reading"

\* An answer that was not ended by [DONE] was given when the reader was through.
EndedQuietly == answer = "ok" => SaidDone \/ (fault = "none" /\ reader # "reading")

\* The parser knows what the lines it took said, and the step what the chunks carried.
ParserKnows ==
    mode = "stream" /\ dialogue.provider = "anthropic" =>
        /\ (\E k \in 1..idx : dialogue.lines[k] = "start") => "in" \in parser
        /\ (\E k \in 1..idx : dialogue.lines[k] = "usage") => "out" \in parser

StepKnows ==
    IF mode = "stream" THEN answer # "StepTimeout" /\ CountsBy(dialogue, idx) => counted = Both
                       ELSE answer = "ok" => counted = Both

LLMInv == LLMTypeOK /\ CallFits /\ EndedQuietly /\ ParserKnows /\ StepKnows

LEMMA NothingTaken == ASSUME NEW d \in Dialogue PROVE ~CountsBy(d, 0)
<1>1. d.provider \in {"openai", "anthropic", "google"} /\ 1..0 = {}
  BY DialogueAssumption DEF Provider
<1> QED
  BY <1>1 DEF CountsBy

LEMMA InitLLM == LLMInit => LLMInv
<1> SUFFICES ASSUME LLMInit PROVE LLMInv
  OBVIOUS
<1>1. dialogue.lines \in Seq(Line) /\ Len(dialogue.lines) \in Nat
  BY DialogueAssumption DEF LLMInit
<1>2. LLMTypeOK
  BY <1>1 DEF LLMInit, LLMTypeOK, Counts, CallAnswer
<1> QED
  BY <1>2, NothingTaken DEF LLMInit, LLMInv, CallFits, EndedQuietly, ParserKnows, StepKnows

LEMMA Errors ==
    /\ RequestError \subseteq CallAnswer \ {"none", "ok", "StepTimeout"}
    /\ \A kind : Raised(kind) \in CallAnswer \ {"none", "ok", "StepTimeout"}
BY DEF RequestError, HttpError, Raised, CallAnswer

\* The next line takes the counts with it.
LEMMA TakeKeeps == ASSUME LLMInv, ConsumerLoops, idx < appended, TakeLine PROVE LLMInv'
<1> DEFINE line == dialogue.lines[idx + 1]
           known == AfterLine(dialogue.provider, line, parser)
<1>0. LLMTypeOK /\ CallFits /\ EndedQuietly /\ ParserKnows /\ StepKnows
  BY DEF LLMInv
<1>1. /\ idx \in Nat /\ appended \in Nat /\ idx + 1 \in 1..Len(dialogue.lines) /\ idx + 1 <= appended
      /\ line \in Line /\ dialogue.provider \in Provider /\ Len(dialogue.lines) \in Nat
      /\ idx + 1 \in 0..appended
  BY <1>0, DialogueAssumption DEF LLMTypeOK
<1>2. /\ consumer = "loop" /\ mode = "stream" /\ answer = "none"
      /\ UNCHANGED <<dialogue, mode, reader, appended, fault>>
      /\ idx' = idx + 1 /\ parser' = known
  BY <1>0 DEF ConsumerLoops, CallFits, LLMTypeOK, TakeLine
<1>3. known \in Counts
  BY <1>0, <1>1 DEF AfterLine, Counts, LLMTypeOK
<1>4. counted' \in Counts /\ answer' \in {"none", "ok", "StepTimeout"}
      /\ consumer' \in {"loop", "ended"} /\ (answer' # "none" <=> consumer' = "ended")
  BY <1>0, <1>2, <1>3 DEF TakeLine, LLMTypeOK, Counts
<1>5. LLMTypeOK' /\ CallFits'
  BY <1>0, <1>1, <1>2, <1>3, <1>4 DEF LLMTypeOK, CallFits, CallAnswer
<1>6. EndedQuietly'
  <2>1. answer' = "ok" => line = "done" /\ dialogue.provider = "openai"
    BY <1>2 DEF TakeLine
  <2> QED
    BY <1>1, <1>2, <2>1 DEF EndedQuietly, SaidDone, LastTaken
<1>7. \A k \in 1..idx' : k \in 1..idx \/ k = idx + 1
  BY <1>1, <1>2
<1>8. ParserKnows'
  BY <1>0, <1>2, <1>7 DEF ParserKnows, AfterLine
<1>9. StepKnows'
  <2> SUFFICES ASSUME answer' # "StepTimeout", CountsBy(dialogue, idx + 1) PROVE counted' = Both
    BY <1>2 DEF StepKnows
  <2>1. CASE CountsBy(dialogue, idx)
    <3>1. counted = Both
      BY <1>0, <1>2, <2>1 DEF StepKnows
    <3> QED
      BY <1>2, <1>3, <3>1 DEF TakeLine, Counts, Both
  <2>2. CASE ~CountsBy(dialogue, idx)
    <3>1. YieldsChunk(dialogue.provider, line) /\ line # "done" /\ known = Both
      <4>1. CASE dialogue.provider = "openai"
        BY <1>2, <1>7, <2>2, <4>1 DEF CountsBy, YieldsChunk, AfterLine, Both
      <4>2. CASE dialogue.provider = "anthropic"
        <5>1. /\ line \in {"delta", "finish"}
              /\ \E k \in 1..idx : dialogue.lines[k] = "start"
              /\ \E k \in 1..idx : dialogue.lines[k] = "usage"
          <6>1. PICK k \in 1..(idx + 1) : /\ dialogue.lines[k] \in {"delta", "finish"}
                                          /\ \E i \in 1..(k - 1) : dialogue.lines[i] = "start"
                                          /\ \E i \in 1..(k - 1) : dialogue.lines[i] = "usage"
            BY <4>2 DEF CountsBy
          <6>2. k \notin 1..idx
            BY <2>2, <4>2, <6>1 DEF CountsBy
          <6>3. k = idx + 1 /\ 1..(k - 1) = 1..idx
            BY <1>1, <6>2
          <6> QED
            BY <6>1, <6>3
        <5>2. Both \subseteq parser
          BY <1>0, <1>2, <4>2, <5>1 DEF ParserKnows, Both
        <5> QED
          BY <1>0, <4>2, <5>1, <5>2 DEF YieldsChunk, AfterLine, LLMTypeOK, Counts, Both
      <4>3. CASE dialogue.provider = "google"
        BY <1>2, <1>7, <2>2, <4>3 DEF CountsBy, YieldsChunk, AfterLine, Both
      <4> QED
        BY <1>1, <4>1, <4>2, <4>3 DEF Provider
    <3>2. counted' = counted \union known
      BY <1>2, <3>1 DEF TakeLine
    <3> QED
      BY <1>0, <3>1, <3>2 DEF LLMTypeOK, Counts, Both
  <2> QED
    BY <2>1, <2>2
<1> QED
  BY <1>5, <1>6, <1>8, <1>9 DEF LLMInv

LEMMA StepLLM == LLMInv /\ [LLMNext]_llmVars => LLMInv'
<1> SUFFICES ASSUME LLMInv, [LLMNext]_llmVars PROVE LLMInv'
  OBVIOUS
<1>0. LLMTypeOK /\ CallFits /\ EndedQuietly /\ ParserKnows /\ StepKnows
  BY DEF LLMInv
<1>1. /\ dialogue \in Dialogue /\ dialogue.lines \in Seq(Line) /\ Len(dialogue.lines) \in Nat
      /\ appended \in Nat /\ idx \in Nat /\ appended <= Len(dialogue.lines) /\ idx <= appended
  BY <1>0, DialogueAssumption DEF LLMTypeOK
<1>2. CASE RequestFails
  BY <1>0, <1>2, Errors DEF RequestFails, LLMInv, LLMTypeOK, CallFits, EndedQuietly, ParserKnows,
                            StepKnows
<1>3. CASE SyncCall
  <2>1. /\ consumer' = "ended" /\ mode = "sync" /\ fault' \in {"none", "timeout", "broken"}
        /\ UNCHANGED <<dialogue, mode, reader, parser>> /\ reader = "off"
    BY <1>0, <1>3 DEF SyncCall, LLMTypeOK, CallFits
  <2>2. CASE fault' \in {"timeout", "broken"} /\ answer' = Raised(fault')
             /\ UNCHANGED <<appended, idx, counted>>
    BY <1>0, <2>1, <2>2, Errors DEF LLMInv, LLMTypeOK, CallFits, EndedQuietly, ParserKnows, StepKnows
  <2>3. CASE appended' = Len(dialogue.lines) /\ idx' = appended'
             /\ answer' \in {"ok", "StepTimeout"} /\ counted' = Both /\ UNCHANGED fault
    <3>1. fault = "none"
      BY <1>0, <1>3 DEF SyncCall, CallFits
    <3>2. LLMTypeOK'
      BY <1>0, <1>1, <2>1, <2>3 DEF LLMTypeOK, CallAnswer, Counts, Both
    <3> QED
      BY <2>1, <2>3, <3>1, <3>2 DEF LLMInv, CallFits, EndedQuietly, ParserKnows, StepKnows
  <2> QED
    BY <1>3, <2>2, <2>3 DEF SyncCall, Both
<1>4. CASE StreamOpen
  BY <1>0, <1>4 DEF StreamOpen, LLMInv, LLMTypeOK, CallFits, EndedQuietly, ParserKnows, StepKnows,
                    SaidDone, LastTaken
<1>5. CASE ReaderStep
  <2>1. /\ UNCHANGED <<dialogue, mode, consumer, idx, parser, counted, answer>>
        /\ reader = "reading" /\ reader' \in {"reading", "dead"}
        /\ appended' \in 0..Len(dialogue.lines) /\ appended <= appended'
        /\ fault' \in {"none", "timeout", "broken"} /\ (fault' # "none" => reader' = "dead")
    BY <1>0, <1>1, <1>5 DEF ReaderStep, ReaderReads, ReaderEnds, ReaderRaises, LLMTypeOK, CallFits
  <2>2. LLMTypeOK'
    BY <1>0, <1>1, <2>1 DEF LLMTypeOK
  <2>3. CallFits' /\ EndedQuietly'
    BY <1>0, <2>1 DEF CallFits, EndedQuietly, SaidDone, LastTaken
  <2> QED
    BY <1>0, <2>1, <2>2, <2>3 DEF LLMInv, ParserKnows, StepKnows
<1>6. ASSUME consumer \in {"loop", "looked"}, reader = "dead", EndCall,
             UNCHANGED <<dialogue, mode, reader, appended, fault>>
      PROVE  LLMInv'
  <2>1. answer' \in CallAnswer \ {"none", "StepTimeout"} /\ (answer' = "ok" => fault = "none")
    BY <1>6, Errors DEF EndCall, CallAnswer
  <2>2. mode = "stream" /\ answer = "none"
    BY <1>0, <1>6 DEF CallFits, LLMTypeOK
  <2>3. LLMTypeOK' /\ CallFits' /\ EndedQuietly'
    BY <1>0, <1>6, <2>1, <2>2 DEF EndCall, LLMTypeOK, CallFits, EndedQuietly
  <2> QED
    BY <1>0, <1>6, <2>1, <2>2, <2>3 DEF EndCall, LLMInv, ParserKnows, StepKnows
<1>7. ASSUME consumer \in {"loop", "join", "looked"}, consumer' \in {"loop", "join", "looked"},
             UNCHANGED <<dialogue, mode, reader, appended, fault, idx, parser, counted, answer>>
      PROVE  LLMInv'
  BY <1>0, <1>7 DEF LLMInv, LLMTypeOK, CallFits, EndedQuietly, SaidDone, LastTaken, ParserKnows,
                    StepKnows
<1>8. CASE ConsumerLoops
  BY <1>6, <1>7, <1>8, TakeKeeps DEF ConsumerLoops
<1>9. CASE ConsumerLooks \/ ConsumerDecides
  BY <1>6, <1>7, <1>9 DEF ConsumerLooks, ConsumerDecides
<1>10. CASE UNCHANGED llmVars
  BY <1>0, <1>10 DEF llmVars, LLMInv, LLMTypeOK, CallFits, EndedQuietly, SaidDone, LastTaken,
                     ParserKnows, StepKnows
<1> QED
  BY <1>2, <1>3, <1>4, <1>5, <1>8, <1>9, <1>10 DEF LLMNext, ConsumerStep

\* The inductive invariant holds in every reachable state.
THEOREM LLMInvariant == LLMSpec => []LLMInv
<1> QED
  BY InitLLM, StepLLM, PTL DEF LLMSpec

\* Whatever lines a server sends, an answer that looks good never came over a
\* stream that failed before its [DONE] (streaming.py, _stream_lines).
THEOREM BrokenStreamFails == LLMSpec => [](answer = "ok" => fault = "none" \/ SaidDone)
<1> QED
  BY LLMInvariant, PTL DEF LLMInv, EndedQuietly

\* An answer that looks good is honest, if its server reported the token counts:
\* the stream did not fail before its [DONE], and the counts of an answer whose
\* lines were all taken are the provider's own (streaming.py, step_executor.py).
\* Of a server that leaves the counts out, only the stream can be vouched for.
THEOREM AnswersAreHonest == LLMSpec => [](Complete(dialogue) => AnswerHonest)
<1>1. LLMInv => (Complete(dialogue) => AnswerHonest)
  <2> SUFFICES ASSUME LLMInv, Complete(dialogue), answer = "ok" PROVE AnswerHonest
    BY DEF AnswerHonest
  <2>1. fault = "none" \/ SaidDone
    BY DEF LLMInv, EndedQuietly
  <2>2. ASSUME idx = Len(dialogue.lines) PROVE counted = Both
    <3>1. CountsBy(dialogue, idx)
      BY <2>2 DEF Complete
    <3> QED
      BY <3>1 DEF LLMInv, StepKnows, LLMTypeOK
  <2> QED
    BY <2>1, <2>2 DEF AnswerHonest, Both
<1> QED
  BY <1>1, LLMInvariant, PTL
=============================================================================
