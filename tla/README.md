# LoopMaster in TLA+

Specifications of LoopMaster (`src/src/loopmaster`), model-checked with TLC and
proved with TLAPS as far as safety goes. Paths below are relative to `src/src/loopmaster/`.

## 1. The system

LoopMaster runs *loops*: lists of steps (LLM, shell, HTTP, code block, human
input), parallel blocks and conditionals. A loop is run by the command line, or
by an MCP server, one process per connected agent. All servers of a workspace
share one SQLite file and one checkpoint directory. No server supervises
another: what they know of each other is in the rows and in the liveness of a
pid.

| Component | State it keeps | Operations | What makes it correct |
| --- | --- | --- | --- |
| Jobs table (`mcp/job_ops.py`, `job_store.py`) | one row per job: status, results, total, host_pid, completed_at | create (upsert), update, record step, cancel, delete, touch, startup sweep | a verdict stands; statuses move along a lifecycle; no result is lost; orphans are written off, live jobs are not |
| Detached worker (`mcp/worker.py`) | `_events` (job id to cancel event), worker and watcher threads | submit, request_cancel, is_running, watcher poll, finalize | the limit holds; a cancel reaches the engine; every started job ends with one verdict, and the notification announces that one |
| Human step (`executors/human_input.py`) | the position of the waiting thread, its deadline | ask, poll, escalate, default, expire | an answer in time is the result; a wait ends; status and inbox tell the truth |
| Messages (`mcp/message_store.py`, `tools_hitl.py`) | one row per question | create, answer, sweep, cancel with the job | whoever closes a question first wins |
| Outbox (`mcp/notification_store.py`, `tools_notifications.py`) | notifications, `critical.json` | create (deduplicated), list, mark read, retention | nothing unread is lost or marked read unseen; the file agrees with the table |
| Engine (`core/engine.py`, `runner.py`, `state.py`, `step_executor.py`, `heartbeat.py`) | executed steps, results, context, totals, heartbeat | run, resume, step, retry, fallback, checkpoint | completed steps are not repeated; a branch sticks; budgets hold; success means success; runs end |
| Checkpoint files (`checkpoint/__init__.py`) | `<loop>_latest.json` and hashed copies | save, load | a resumed run continues the run that wrote the file |
| Checkpoint migration (`checkpoint/migration.py`) | registry of migrations | compatible?, path, migrate, rename | a migrated checkpoint agrees with itself |
| Run tools (`mcp/tools_run.py`, `tools_loops.py`) | saved loops, the plan an agent works through | loop_run, loop_record, loop_get, loop_result, loop_save, loop_delete, loop_status, loop_cancel | the job completes when the plan is covered; an agent is led through it in order |
| Hooks (`hooks.py`, `hooks_builtin.py`) | a list of hooks per event | register, load user hooks, trigger, veto | no builtin rule is passed over |
| Loop protocol, events, SSE (`mcp/__init__.py`, `events/`) | bounded queues of subscribers, a bounded history | emit, subscribe, pause, resume, cancel, stream | a subscriber learns of the end |
| Code blocks (`mcp/code_store.py`, `tools_blocks.py`, `executors/code_block.py`) | versions of blocks, the extraction cache | register, delete, verify, extract, execute | only the pinned source of an allowed block runs |
| Process executors (`executors/shell.py`, `code_block.py`, `mcp.py`) | a child process, its descendants, pipes, a reading thread | spawn, feed, drain, time out, kill | success means an answer; a timeout leaves nothing behind, and comes |
| LLM client (`llm/client.py`, `streaming.py`) | the lines read, the parser, token counts | request, stream, error mapping | an answer is complete and accounted |
| Telemetry (`telemetry/`) | spans per thread, the exporter's queue | start, end, flush, shutdown | a finished span is sent or accounted for |
| Spec loader (`spec/loader.py`, `compiler.py`) | scopes of names | load, validate, compile | an accepted reference resolves when it is reached |
| Agents (`agents/`) | snapshots of files, created files | inject, write, verify, roll back, restore | the user's files come back |
| Command line (`cli/app.py`) | none beyond a run | run, resume, dry run | the same policy as the tools |
| Replay, supervisor, model registry, cost, metrics | - | - | see section 6 |

How they meet: a tool call passes the hooks and submits a job (row `running`, an
entry in `_events`, a thread); the thread runs the engine, which calls back
after each step; the callback records the result in the row; a human step writes
a question and a notification and polls; a code, shell or MCP step starts a
process and waits for it; other tools, of this or another server, cancel the
row, answer the question or write the job off; the worker finally writes the
verdict and announces it. Agents that run a loop themselves use the same row
through loop_record or loop_result.

What is hard here: every update of a row is a SELECT and an UPDATE without a
transaction around both, and the lock covers one process; a cancel is written
first and signalled second; the same status is written by the worker, the human
step, the tools and the sweep; a question has four parties that may close it;
checks are made on what was read earlier (a block, a queue, a listing, a list of
processes); bounded queues drop; a child process may hang, ignore its input or
leave descendants that hold its pipes; processes die at any of these points and
the next one has to put things right. The list, with lines, is `hazards` in
`PROJECT.json`.

## 2. Modules

    JobTable            one row, and what each statement does to it (pure)
      JobTable_proofs     what those operators keep
      JobStore            several processes and threads around the table
        JobLifecycle        what the table promises; JobStore, DetachedRunner,
                            HumanInput and AgentRun implement it
        JobStore_proofs
        MCJobStore          instances
      DetachedRunner      workers, watchers and tools over the same rows
        DetachedRunner_proofs
        MCDetachedRunner, MCWorkers
      AgentRun            agents that work through a plan over the same row,
                          and AgentConfig, an agent's files, given back
    LoopEngine          one loop, its checkpoint file, crashes, resumed runs
      RunJournal          what runs and their checkpoint promise
      LoopEngine_proofs
      MCLoopEngine
    HumanInput          one human step, its question, the agents (MCHumanInput)
    Outbox              notifications and critical.json
    EventStreams        two event sources and their bounded queues
      Messages_proofs     all three
    CodeBlocks          registration, check, cache, start
    ChildProcess        one call of a process executor
    SpanExport          the exporter's queue, worker, flush and shutdown
    LLMStream           one call, streamed or not
      Steps_proofs        all four
    RunPolicy           the hooks a request passes
    SpecRules           what a reference in a document may name
    Migration           a checkpoint on its way to another version
      Agents_proofs       all three, AgentRun and AgentConfig
    MCParts             HumanInput, AgentRun and all that follow, side by side
      Parts_proofs        the composition

**JobTable** holds what the SQL does to one row: `Upsert` is create_job's
`ON CONFLICT ... WHERE`, `UpdateAllowed`/`Updated` are the guard and the
assignments of update_job, `WithResult`/`RecordStatus` those of
record_step_result, `CancelAllowed` and `Orphan` the conditions of cancel_job
and the sweep. Of a row the model keeps the status, which step has which kind
of result, total_steps, host_pid, whether it is an agent-mode job, and whether
completed_at is set. Output texts, error texts and times are left out.

**JobStore** opens the window between SELECT and UPDATE. `UpdateRead` takes the
process's lock and reads, `UpdateWrite` commits and releases; likewise record,
cancel and sweep. `create_job` and `delete_job` are one statement. `UpdateCalls`
lists every call of update_job in the repository with its arguments. `Boot` and
`Die` are the life of a server; a server sweeps before it takes calls, and
later again from the stale-reaper hook.

**JobLifecycle** is the abstract specification: a status per job, and
`Start`, `Advance`, `Finish`, `Cancel`, `Reap`, `Forget`. `JobStore` implements
it under `status <- [j |-> the status in row[j]]` (`ImplementsLifecycle`), and
`DetachedRunner`, whose rows are written by workers and tools, does so under the
same mapping. `HumanInput` and `AgentRun`, which see a job from a step that
waits and from the agents that report, implement it too; that is proved only
(`HumanRefines`, `AgentRefines`).

**DetachedRunner** follows `submit` call by call (`SubmitCheck`, `SubmitCreate`,
`SubmitRegister`, `StartThread`), then the worker thread (`EnterEngine` to
`Finish`), the watcher (`WatchPoll`), the tools that meet them in the row, and
processes that exit and sweep. Store calls are single steps here, and a tool
with two of them is two steps: loop_cancel (`CancelPersist`, `CancelSignal`),
loop_status (`StatusJudges`, `StatusFails`), a loop_record that finalizes
(`Report`, `Finalize`); loop_result is a `Report`. Both tools that report take
any job that exists, a detached one with its engine running too (section 4). The
check of the cancel event (`StepCleared`) and the start of the step
(`StepBegin`) are two steps as well, since the budget is compared and a checkpoint
written in between. That `WatchPoll` has no branch that sets the
cancel event is the code's doing: see finding *observed*.

**AgentRun** is a job after its admission, one row of JobTable in one server:
executed by a worker, by agents that report with loop_record, or by an agent
that loop_get started and loop_result leads on. What a tool does between two
store calls is a step boundary: `RecordChecks`/`RecordWrites`/`Finalizes`, and
`ResultWrites`/`ResultAnswers`. loop_record takes the steps of the plan;
loop_result takes any job and any name, also one outside the plan (`Stray`), and
hands out the next step of a loop_get job unless a failure came with its text.
`unasked` remembers what it took without having handed it out.

**LoopEngine** walks the tree of blocks with a list of what is left (`todo`).
A step is: passed over if executed, else cancel check, budget check, pre-step
checkpoint, attempts, result, post-step checkpoint. A checkpoint is two actions,
because `write_text` truncates the file first; it may also fail, which the code
logs and ignores. `Crash` loses the memory, `Resume` restores it from the file,
`Start` begins anew and later overwrites the file. Conditions are free: each
step that ends may change what they evaluate to.

**RunJournal** is the engine's abstract specification: a run, the list of what
it has done and at most one record of it, with `Begin`, `Continue`, `Execute`,
`Tear`, `Save` and `End`. Blocks, conditions, retries and phases are gone; what
stays is that a step is new when it is executed, that there is a limit, and that
a run continues with exactly what the record holds. LoopEngine implements it
(`ImplementsJournal`) with `executed` for the list and the `_latest` file for the
record, which is empty while the file is missing or torn.

**HumanInput** follows `HumanInputExecutor.execute` call by call, one job with
one human step. Time is two facts: the question's `expires_at` has passed
(`due`) and the executor's deadline has passed (`late`); only the second is
renewed by an escalation. `Respond` and `RespondClose` are the two store calls
of loop_respond. `Retry` is the engine's: a step that failed is executed again
before its result is recorded, and finds the question, the status and the
notification as the first try left them. `MaxRuns` counts runs and retries.

**Outbox**: each store call holds the lock for one step; what follows outside
the lock - gathering what is unread for `critical.json` (`Gather`), writing that
file (`WriteMirror`), fetching the row again (`Confirm`) - are steps of their
own. loop_inbox is a sweep, a listing and a marking of what was listed. Messages
are here only for their retention: the archive and the deletion under one lock.
What follows the close of a question marks every waiting_input note of its job
(`MarkAnswered`); the notes of one job are a set of `Asking`.

**EventStreams** has the two event sources. A subscription of LoopProtocol waits
with a timeout and then looks at the job's status (`SubTimesOut`); an SSE stream
of the emitter waits without one. `call_soon_threadsafe` is a queue of callbacks
that land in a later step; a queue that is full when one lands drops it. The
protocol's callers are the tools of `MCPServer`, which are coroutines, so an
emission always finds a running loop; the direct `put_nowait` of a thread without
one has no caller in `src` and is left out.

**SpanExport**: spans open and close as a stack per thread; the exporter's worker
tests the queue (`WorkerLooks`) and gets from it (`WorkerTakes`) in two steps,
and so does a flush. shutdown is the stop event, the sentinel (which waits for
room), at most two seconds for the worker, and a flush.

**LLMStream**: the reader thread appends lines while the generator consumes
them; the two halves of the generator's test, "nothing new" and "thread dead",
are two steps. A line is what it does to the provider's parser. The errors of
the request, of the reader and of the step's own timeout are told apart as in
`client.py`.

**CodeBlocks**: a source stands for its own sha256; a row has a source and a
sha256 column, which agree when the block is registered. A version may be deleted
and registered again between the hook's check and the executor's, and two
executions share the cache file of a source, which is truncated and filled in
two steps. Two actions are the environment: `EditSource` edits the source in the
table and leaves the column, `CacheTouched` cleans or edits the temporary
directory, though not in the instant between a digest check and the start.

**ChildProcess**: the process (external: it reads, writes, ends or does not, and
may leave a descendant inside or outside its group), the thread that reads its
output, and the step's thread with its timeouts and kills. Three executors, told
apart by `world.kind`, share the module because they share the hazards.

**RunPolicy**: what a request passes before anything runs. The registry is a
list of hooks; a user module may add, replace or remove one, and a hook may
pass, veto or raise. loop_run by document and by name, loop_get, loop_save,
loop_delete and the command line differ in what payload, if any, they show the
hooks (`Round`).

**AgentConfig**: an adapter's snapshots, settings, injection and restoring, a
ConfigManager's atomic write, verification and rollback, and a user who edits
the same files at any moment. Text 0 and up is the user's, -1 is LoopMaster's.

**SpecRules** writes a document node by node; the loader and an execution of it
read along, since both walk depth first. The loader's scopes (`known`) and what
a run would have in its context are compared at every reference. The run starts
with the context of its caller, which replaces the document's when it is not
empty, so any set of names may be there and any key of the document may be
missing (`unset`); a step that fails leaves None under its name (`failed`).

**Migration**: registered functions rename a step or raise; `Paths` are the
shortest chains (which of several is found depends on the order of
registration); `Compatible` is the version policy; `Renamed` changes the
executed list, the results and the context under their different conditions. The
saved context may know any of the executed steps by its name, or none: the
engine merges a dict under its own keys and stores nothing for None.

**MCParts** puts the components that share no state side by side, so that one
run explores them all: `active` says which one steps, the others rest in one of
their initial states, and fairness is asked of the active one only. The state
space is the sum of the parts' and not their product, and no property relates
two parts. EventStreams counts as two parts, its protocol and its emitter. A
run names in `Awake` the parts that take their turn in it.

Each module ends with its properties. A definition called *Mutant* is a
plausible mistake in the definition below it; putting it in that definition's
place makes the property listed with it in `PROJECT.json` fail.

## 3. Runs

| Run | Instance | Shows |
| --- | --- | --- |
| servers | 2 processes, 1 thread each, 1 job, 1 step, fairness | `TypeOK`, `CompletionStamped`, `VerdictKept`, `ImplementsLifecycle`, `OrphansReaped` |
| threads | 1 process, 2 threads, 1 job, 2 steps | `ResultsKept`: the lock keeps results |
| live_reaped | 3 processes, 1 job | `LiveJobsNotReaped` is violated |
| workers | 2 processes and 1 job, or 1 process and 2 jobs under a limit of 1; 2 steps, 1 name outside the plan, fairness | `AnnouncedVerdict`, `CancelStops`, `EngineOwnsVerdict`, `ImplementsLifecycle`, `IsRunningTruthful`, `CapacityKept`, `WorkerSettles` |
| observed | 2 processes, 2 jobs of 1 step | `CancelObserved` is violated |
| default_answer | 1 job, 1 agent | `AnswerBeatsDefault` is violated |
| resume | 7 steps, a conditional with a parallel block in a branch, 2 fresh runs, any number of resumed ones, fairness | `TypeOK`, `KeptNotRepeated`, `BranchSticks`, `SuccessIsWhole`, `ImplementsJournal`, `RunEnds` |
| nested | 3 steps, a parallel block inside a branch | `BranchSticks` is violated |
| deadline | one code step, fairness | `DeadlineHolds` is violated |
| edited | 1 version, 2 sources, 1 code step | `PinStopsEdits` is violated |
| parts | all parts, see below | `PartsTypeOK` and the invariants of the parts |
| live | human steps and event streams, the outbox for its messages, fairness | their action properties and what must happen in the end |

The parts, their instances and what is shown of them, in *parts* where *live* is
not named:

| Part | Instance | Properties |
| --- | --- | --- |
| HumanInput | 1 job, two runs or tries in all, 2 agents, 2 answers, 3 escalations | `AnsweredLeavesInbox`, `WaitingShown`; live: `FirstCloseWins`, `AnswerInTimeCounts`, `WaitEnds` |
| Outbox | 3 notifications (a critical one, two questions of one job), 2 callers, listings of 1; live: 1 message, 1 notification | `ReadWasShown`, `MirrorExactUncrossed` |
| EventStreams | 2 subscribers, 2 streams (one synchronous), queues of 1, history of 2, 4 events | live: `SubscriptionEnds`, `QueuedEndEndsStream` |
| SpanExport | 3 spans, 2 threads, queue of 2, batches of 2 | `SpansAccounted` |
| LLMStream | one dialogue per provider, streamed or not, cut off anywhere | `AnswerHonest` |
| CodeBlocks | 1 version, 2 sources, 1 capability, 2 code steps | `OnlyPinnedCode` |
| ChildProcess | shell, code and MCP processes of every behaviour | `SuccessWasAnswered`, `TimeoutKillsGroup` |
| RunPolicy | every request, four builtin rules, one user hook at a time | `PolicyHolds` |
| AgentRun | a plan of 2 steps and a name outside it, 2 clients | `PlanWhole`, `GuidedInOrder` |
| AgentConfig | 2 prompt candidates, 1 settings file, 1 edit by the user | `RestoreExact` |
| SpecRules | 2 names, 1 context key, 4 nodes, 3 open lists | `RefsResolve` |
| Migration | 3 versions, 2 steps, 2 registered functions | `ResumeAgrees` |

Why these bounds are enough. Rows do not refer to each other, so one job shows
every race; two writers are the smallest race, and a third adds only another
loser, except where one job changes hands twice (live_reaped). A second job is
needed where jobs share something: `_events` and the limit. `workers` has both
instances in one run (`MCWorkers`): with two jobs there is no second server and
nobody reports a step, which concern each job by itself. Two results are needed
for one to overwrite the other (threads). One step per job is
enough in `servers`, where results matter only through completion; total_steps
0 never completes by itself, which the other rows of the run do as well. In
`resume` the budget (3 steps, cost 1) is below the longest path (4 steps) and
lets the shorter one (3 steps) end well, two tries give one retry, the `else`
branch has four steps so that a run can stop inside it at several places, and
the `then` branch goes on with a parallel pair, so that one of its steps can be
all that is left of the branch; all four combinations of pre- and post-step
checkpoints and disabled protection are initial states. A queue of one is full
after one event and a listing of one leaves one out; two callers are the
smallest crossing of `critical.json`, and two questions of one job the smallest
set that is marked together; one name outside the plan is enough to stand for a
step that nobody reported; two code steps share one cache file; two
renames make a chain, and a merge of two steps; four nodes are a conditional
with a step in each branch and one after it. `MaxRuns`, `MaxEvents`, `MaxEdits`,
`MaxNodes`, `MaxOpen` and `MaxEdges` bound what would go on for ever; everything
else is finite by itself.

Symmetry is used in `parts` only: the callers of the outbox, the notes of one
job, the agents of AgentRun. Their modules treat what is exchanged alike, and the
run has no liveness property.

`CHECK_DEADLOCK FALSE` is set in every run but `edited`: servers may all have
exited, submissions, steps, runs and calls come to an end.

Fairness, and why the code justifies it:

* `servers`: a process that is up gets through the import of `runtime` (the
  sweep) and through `with self._lock` blocks, which are straight-line code.
* `workers`: the straight-line part of a worker thread, its steps included. That
  a step ends is an assumption here; run `deadline` shows where the code does
  not deliver it. Nothing is assumed of callers, the watcher or exits.
* `live`: the polling thread of a human step goes on and clocks advance, but
  nobody has to answer; callbacks of an event loop run, waits with a timeout
  time out, and a subscriber or a client that reads goes on reading.
* `resume`: the engine goes on; crashes, cancels and resumes are free.
* `deadline`: the threads of the step run, their timeouts included, and a
  process that reads its input does so; whether it ends is its own affair.

## 4. Findings

* **live_reaped** - the sweep's UPDATE names only the job id. A job that another
  process restarted between the sweep's SELECT and its UPDATE is interrupted
  although its owner lives (`mcp/job_ops.py:345-371`, docstring at 335).
* **observed** - `cancelled` is a terminal status, so the watcher returns before
  the branch that sets the cancel event (`mcp/worker.py:232-236`). A loop
  cancelled from another server runs all its remaining steps.
* **default_answer** - an answer accepted just before the default is written is
  overruled by the default, and the question still says it was answered
  (`executors/human_input.py:191-201`).
* **nested** - branch stickiness looks at the direct children of a branch only
  (`core/runner.py:85-91`). A branch made of a Parallel block is evaluated again
  on resume, and both branches run.
* **deadline** - a code step writes its payload before its timed wait begins
  (`executors/code_block.py:217`); a process that does not read a payload bigger
  than the pipe holds the step for as long as it lives. `shell.py:140` and
  `mcp.py:161` block alike: a second `communicate()` without a timeout, and a
  `close()` behind a writer that holds the buffer's lock. The docs promise that
  the timeout kills the process tree (`src/docs/BLOCKS.md:98`).
* **edited** - the pin of a code block is compared with the sha256 column of its
  row (`executors/code_block.py:116`) and the source is not hashed, so a source
  edited in the table runs under its old pin; `verify_code_block` would notice
  and is not asked. The docs say that a run fails when the stored source no
  longer matches (`src/docs/BLOCKS.md:78-79`).

Noticed on the way, without a run of their own because no text of the repository
says otherwise, because the step that shows it is a single line, or because a
property excepts it by name:

* jobs and engine: `on_failure=ABORT` does not stop a loop; a cancel before
  `create_question` leaves a pending question; a refused submission leaves a
  running row; totals restart on resume; a crash inside `write_text` makes the
  latest checkpoint unreadable; status `error` is neither active nor terminal;
* reports: loop_record and loop_result write the row of a detached job with
  `auto_complete` left on (`mcp/tools_loops.py:108`, `mcp/tools_run.py:170`), so a
  caller who reports its steps completes it while its engine runs; what the engine
  finds out afterwards is dropped, and loop_failed may be announced beside
  `completed` (`EngineOwnsVerdict` and `AnnouncedVerdict` except it). The store's
  docstring gives terminal status to the finalize step of the worker, which passes
  False (`mcp/job_ops.py:181-183`), and the answer to a detached loop_run names
  loop_result among the tools to poll with (`mcp/tools_run.py:86`);
* named loops: the rule that wants the `loopmaster` marker vetoes every payload
  without it (`hooks_builtin.py:145`), and a loop run by name has none
  (`mcp/tools_run.py:345`); `RunPolicy` has both lines. The test that expects it to
  run (`tests/test_mcp_unified.py:81`) passes only after another test has emptied
  the registry (`tests/test_hooks.py:24`);
* tools: `validate_code_refs` looks at no step, because it is handed a list
  where it expects objects (`mcp/tools_blocks.py:14-47`); loop_result answers
  with a next step although the job is terminal, and finds it by counting the names
  that have results, so a Python loop that names two steps alike is led past the
  second (`mcp/tools_loops.py:120-121`; the loader rejects such documents); a result
  for a name outside the plan counts like one of the plan, so an agent's job may
  complete with a step that nobody reported (`PlanWhole` excepts it); a cancel that
  returns while a step is between its check and its start does not stop that step
  (`core/runner.py:125-149`; `CancelStops` allows one);
  loop_save's message advises
  loop_run by name, which only finds Python files; the command line's dry run of
  a Python loop executes it without hooks;
* inbox: closing a question marks all waiting_input notes of its job, so the one
  of the job's next human step is taken along when it comes before the mark
  (`mcp/notification_store.py:173-188`); the question stays listed;
* events: an SSE queue that is full when the run ends drops the end, and the
  client waits for ever;
* telemetry: a flush between the worker's test and its get makes the get raise,
  and the worker's batch is lost; shutdown's `put` waits for room in a full queue;
* agents: a settings file that was new is not removed by restoring;
* loader: a reference to a step of a branch that may not be taken, and to the
  name of a group, is accepted; a caller's context replaces the document's keys,
  against which references were checked (`mcp/tools_run.py:73`);
* registry and versions: unknown models are added as approved; a release sorts
  before its own pre-releases.

## 5. Proofs

Every safety property that a passing run checks is a theorem: the type
invariants, the other invariants, the action properties and the three refinements
alike, for every value of the constants under the assumptions named in the
modules that declare them. Eight modules hold the theorems. Each
follows one scheme: an inductive invariant, one lemma per action or group of
actions, and the property from it. What had to be added to the property is the
interesting part.

Some results rest on a hypothesis of their own, named at the theorem:

| Hypothesis | Says | Why the code justifies it |
| --- | --- | --- |
| `OwnJobs` | no two submissions share a job id | submit generates the id; an explicit one is passed by tests only |
| `OneProcess` | the threads belong to one server | `JobStore._lock` is a lock of one process; `ResultsKept` is about it and fails between processes, where no lock covers SELECT and UPDATE |
| `Tree` | blocks nest finitely and are of one class | a loop is built from the inside out |
| `OncePlaced` | what is inside a branch has no other place in the loop | the loader rejects documents that repeat a name; a Python loop may, and then a step done elsewhere makes the branch look taken |
| `LedByStep` | every branch begins with a plain step | a real restriction; run `nested` shows that it is needed |
| `Distinct` | no name is twice in a plan | the loader rejects documents that repeat a name; a Python loop may, see section 4 |
| `Complete` | the lines of the call at hand carry both token counts | the three protocols say so; a server that leaves them out leaves nothing to account, and other calls may have such servers |

### The jobs table

* `JobTable_proofs`: what the row operators keep. A record neither changes who
  owns a row nor revives it (`WithResultGoesOn`); every operator maps rows to
  rows. Cited by the two modules below.
* `JobStore_proofs`: `TypeCorrect` needs `PendingRows`, since `txn[t].rows` may
  hold the "no row" value and a pending writer writes it back. `StampCorrect`
  proves `CompletionStamped` from `StampInv`, which adds that the copy a pending
  writer is going to write back also agrees with its status. `VerdictsStand` is
  the action property `VerdictKept`. `Refinement` is `ImplementsLifecycle`: each
  step is one abstract step or a stutter; its extra invariant `PendingOne` says
  that a pending writer names one job, because only `Reap` moves many.
  `NoResultLost` is `ResultsKept`: `LockHeld` says that an operation between its
  SELECT and its UPDATE has the lock, so there is one such operation, and
  `CopyKeeps` that its copy has every result the row has, or ends the job. A
  restart or a deletion may still get between; it leaves a row without results.
* `DetachedRunner_proofs`: `RunnerTypes` needs no assumption beyond the types of
  the constants, and is the only check of this module's `TypeOK`: run `workers`
  asks for the refinement instead, which a status outside the lifecycle would
  break. The addition `VerdictKnown` says that a submission about to be announced
  has a verdict. `RunnerRefines`, the second refinement of JobLifecycle, needs
  only the types, so it holds for shared job ids too. The others assume `OwnJobs`.
  `RunningKnown` and `WorkersFew` rest on `Tracks` (a submission has its entry
  from its registration until its own finally block) and `TrackedFew` (the
  limit is one of entries). `CancelReaches` adds `StoppedSignalled` (who was
  stopped has its event set) and `LateOnce` (a stopped submission that is cleared
  has begun nothing since). `VerdictAnnounced` and `VerdictIsEngines` rest on
  `RowsFit`: for each place of a worker, what its row may be while sweeps, status
  polls, cancels, reports and other workers go on, and for each tool between its
  two calls (`CallsFit`), that what it is about to write is still due: only a job
  that was reported is finalized, only one without a thread is failed.

### The engine

* `LoopEngine_proofs`: `EngineTypes`, `BudgetHolds` and `NothingRepeated` from one
  invariant, for any tree of blocks. `Admitted` says that between the budget
  check and its result a step is new and within the budget, which is what the
  checkpoint between the two might spoil; a resumed run inherits the bound from
  the file. `KeptInv` says that what a complete checkpoint held is of this run or
  an earlier one, that the run that goes on has it, and that the file is never
  older: fresh runs are numbered upwards, a resume goes back to the number in the
  file, and nothing of a higher number may be left behind it. `StepsWithinBudget`
  is proved only: run `resume` asks for `ImplementsJournal`, which implies it.
* `EngineRefines` is `ImplementsJournal`, from the same invariant: `Admitted` makes
  every result that is applied a new step within the limit, and what happens
  between two results, two saves or a save and the end is a stutter. It assumes
  that no checkpoint is one of the two marks for a missing and a torn file.
* `LedBranchesStick` is `BranchSticks` for trees of any depth, under `OncePlaced`
  and `LedByStep`. Its invariant `WalkInv` says that in what is left (`todo`)
  nothing of a branch stands behind a block that it is in as well (`Apart`), that
  no conditional has both sides in what is left or done (`OneSide`), and that of
  a branch that has begun the first step was executed before anything else in it
  (`Led`, `LeadsOn`), in this run or in the one that wrote the checkpoint. What is inside a branch
  is the least closed set around it (`Under`), so that no induction over the tree
  is needed; `Leaves`, the recursive function by which the engine computes what
  is left of a block, has a value by the same device, and agrees with `Under` by
  a block of least rank (`StepsUnder`). Run `resume` is an instance of the
  theorem, run `nested` is not.
* `SuccessMeansWhole` is `SuccessIsWhole` for trees of any depth. A list of what
  is left (`todo`) forgets which block a step came from, so the invariant does
  not follow the walk: `NothingMissed` says that some set of blocks contains the
  body, and of each of its blocks either it is still ahead or its step has been
  executed, all its children are in the set, or one of its branches is. When
  nothing is left and every result is good, that set is whole. `Whole` is a
  recursive function on trees of any depth; that it has a value is shown by a
  fixed point (`Sustained`, the union of all sets that satisfy its rule), that the
  value is unique by a block of least rank on which two values would differ.

### Messages and events

* `InboxIsClean` and `WaitingIsTrue` come from one invariant,
  with `ResultPlaced` (a result that answers is there only after the wait),
  `NotifThere` (from the wait on there is a notification to close) and
  `ShownEarly` (waiting_input is written before the notification goes out).
  `FirstClose` and `AnswerCounts` are action properties over it.
* `HumanRefines`: the human step implements JobLifecycle. The abstract table has
  a row only for a job that was submitted, so the proof needs `RowThere`: a
  thread that has entered its step has a row to write to. Each write of the
  thread is one abstract step or none, because a final status stays.
* The outbox: `NothingReadUnseen` from `MarkingShown` (a call about to mark
  was given what it marks by a listing; the other way to be marked is to be a
  question of a job that was answered), `NothingGoneUnarchived` and
  `UnreadIsKept`, which are stated in the module and proved, not run.
  `MirrorKept` adds `MirrorFollows`: while nothing has crossed, what a thread is
  about to write is still what is unread and critical, and if the file is not,
  some thread is on its way to rewrite it.
* `StreamTypes`: queues keep to their sizes under any delay of the callbacks.
  `SubscriptionsEndTruly` and `EndComesLast` are invariants of their own, proved
  and not run: a subscription ends only with its job, and behind an end there is
  nothing. `ReaderFits` ties each reader's queue and its callbacks on the way to
  whether the job or run is over, and says that an end is the last of both
  together. `SyncLandsAtOnce` is needed because the synchronous iterator's queue
  is filled by the emitting thread, and would overtake a callback if it had any.

### Steps

* `PinnedCodeOnly` from `RowsWhole` (a row's column is its source's hash until the
  row is edited), `LoadedAllowed` (what a step has
  loaded stays allowed, whatever happens to the table), `SpawnSeesWhole` (the
  file about to be started is the source, or was cut off by another execution
  of the same source) and `RanWasSource`.
* `SuccessMeansAnswer` and `TimeoutMeansKilled` from
  `CallerFits` and `PumpFits` (what has happened by the time each thread is
  where it is), `CaughtWasWritten` and `KilledStays` (the group is gone from the
  kill on).
* `NoSpanLost` adds `OpenOnce` (a span is open in one place of one thread, or it
  would end twice) and `BatchesFit` (whoever is at a place where it lets go of its
  batch has an empty one, or the spans in it would be lost there).
* `BrokenStreamFails` needs no assumption on dialogues; `AnswersAreHonest` adds
  `EndedQuietly` (an answer that no [DONE] ended was given when the reader was
  through), `ParserKnows` and `StepKnows` (what the lines taken so far have told
  the parser, and what the chunks made of it).

### Agents

* `RestoreIsExact` from `Remembered` (what the snapshot of
  a touched file is, and which files count as created). `LastExists` finds the
  last prompt candidate, by well-founded induction on the candidates.
* `PlansAreWhole` adds `RowFits` (unless loop_result took a name outside the plan,
  the row has results for steps of the plan only), `ToolsFit` (what a tool that has
  read and not yet written may still write) and `OneKind` (a job is a worker's, an
  agent's or a guided one). The row completes by counting, and
  `CoveredMeansAll` is why counting will do: as many results as the plan is long
  are results for all of it.
* `AgentRefines`: the row of an agent's job implements JobLifecycle. The job is
  one, so the abstract table has one entry; `MayBecome` lists the moves that the
  store's statements can make, and none of them leaves a verdict, whichever calls
  of several agents cross.
* `GuidedKeepsOrder`: `OnlyHanded` says that only what was handed out has a
  result; with the order itself, `CountIsPlace` shows that the number of results is
  the place of the next step.

### Admission

These are in `Agents_proofs` as well.

* `PolicyEnforced` is inductive as it stands. `PolicyTypes` shows that what
  register and unregister leave is a list of hooks without gaps. `ReferencesResolve` adds, for every
  list of the document that is open, that where it would run the context holds
  what the loader knows (`KnownHeld`), and that what it makes known outside was
  stored (`RegisteredPut`), up to what the property excepts. `MigratedAgrees`
  follows `Agrees` and `Knows` (what the saved context knew by the old name, the
  migrated one knows by the new) through every rename; the index is set in the end
  (`Counted`).

### The composition

`Parts_proofs` is about MCParts, where the twelve components stand side by side.
`PartsAreTheirOwn` shows that each of them does there what its own specification
says: the initial states of the composition are its initial states, and a step
of the composition is a step of its own or leaves it alone (`Frozen`). So what
was proved of a component holds of the composition; `PartsTypes` and
`PartsAreSafe` say so for `PartsTypeOK` and for the safety properties of the runs
`parts` and `live`.
The fairness of MCParts is not needed.

### Only model-checked

Liveness (`OrphansReaped`, `WorkerSettles`, `WaitEnds`, `RunEnds`,
`SubscriptionEnds`, `QueuedEndEndsStream`) is out of the prover's reach and stays
with TLC. That `SelectSeq` and other recursive operators of the library return
what they should is induction over data and out of reach too; where a proof
needs such a fact, the model states the operator otherwise (`Without` in
RunPolicy cuts the one hook of a name out of the list). What the violation runs
show is TLC's alone.

## 6. Not modelled

* Replay is a sequential reader of recorded responses. The supervisor has no
  caller in `src`. Model registry: only that its error passes through retries.
  Cost and metrics: a step costs a unit or nothing; sums and exporters are
  arithmetic and I/O.
* An HTTP step is one library call: it ends well, badly or with an exception.
* The condition language is a pure evaluator: any outcome at any evaluation.
  The compiler to Python source and the loader's field checks translate data.
* Filters of an SSE client, list filters, the nonce of a question, notification
  kinds and texts, in-memory and file exporters, discovery of agents.
* SQLite errors inside the worker's last store call: after one the row stays
  `running` while the thread ends.
* Submissions with an explicit job id are possible in `JobOf` and left out of
  the runs; see `OwnJobs`.
* In DetachedRunner a server executes one tool call at a time, as its event loop
  does, and `CancelStops` is about the cancel of the server that runs the job: for
  another server's, see *observed*.
* `PlanWhole` says nothing of a job for which loop_result took a name outside the
  plan, `GuidedInOrder` nothing once an agent reports what it was not handed, and
  `OnlyPinnedCode` no more of an edited row than that its column is the pin. What
  happens then is described in section 4.
* In LoopEngine one run is active at a time, so two jobs that share one
  `<loop>_latest.json` are not shown; in HumanInput a job has one human step.
* The parts of MCParts do not act on each other. Where one calls another the
  callee's answer is free in the caller: a hook's verdict, a store error, the
  outcome of a step.

## 7. What is left

1. Two runs of one loop over one checkpoint file.
2. DetachedRunner with a step that is a HumanInput wait, so that a cancel meets
   a question that is being created.
3. What remains of the worker's properties without `OwnJobs`, and `BranchSticks`
   for branches that have a plain step, but not as the first.
