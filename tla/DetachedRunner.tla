-------------------------- MODULE DetachedRunner --------------------------
(***************************************************************************)
(* The detached worker (mcp/worker.py) of several server processes: submit *)
(* on the tool thread, one worker thread and one watcher thread per        *)
(* accepted submission, and the tools that meet them in the jobs table     *)
(* (loop_cancel, loop_status, loop_record, loop_result, the startup        *)
(* sweep).  A server executes one tool call at a time.                     *)
(*                                                                         *)
(* A store call is one step here; JobStore opens the window between its    *)
(* SELECT and its UPDATE.  The engine is reduced to what the worker sees:  *)
(* steps that end well or badly, the check of the cancel event some way    *)
(* before each step, and an exception out of run().                        *)
(***************************************************************************)
EXTENDS JobTable

CONSTANTS
    Job,            \* job ids
    Run,            \* bound: the submissions that are tried
    JobOf,          \* the job id of a submission; shared only when a caller
                    \* passes an explicit job_id
    HomeOf,         \* the process a submission is made in
    MaxConcurrent,  \* DetachedRunner.max_concurrent
    Plan,           \* the leaf steps of the loop; a report may name any Step
    Total,          \* len(loop_def._collected_steps): its root blocks
    NoRun, NoJob

ASSUME RunnerAssumption ==
    /\ JobOf  \in [Run -> Job]
    /\ HomeOf \in [Run -> Proc]
    /\ MaxConcurrent \in Nat
    /\ NoRun \notin Run
    /\ NoJob \notin Job
    /\ Plan \subseteq Step /\ IsFiniteSet(Step)
    /\ Total \in Nat

VARIABLES
    row,        \* the jobs table
    up,         \* the live processes
    pc,         \* pc[r]: where submission r is, see Place
    cancel,     \* cancel[r]: its threading.Event is set
    done,       \* done[r]: the step results its engine holds
    outcome,    \* outcome[r]: the verdict its worker tried to persist
    events,     \* events[p][j]: DetachedRunner._events of process p
    watch,      \* watch[r]: its watcher thread
    told,       \* the verdicts announced: <<submission, event>>
    tool,       \* tool[p]: the second half of the call that p is in, see Tool
    stopped,    \* history: submissions whose own process returned from
                \* loop_cancel while their thread was alive
    late,       \* history: the steps that a stopped submission has begun since
    reported    \* history: jobs of which loop_record or loop_result wrote a step

vars == <<row, up, pc, cancel, done, outcome, events, watch, told, tool, stopped, late,
          reported>>

\* What the steps of a worker thread leave alone, what those of a tool call do.
serverVars  == <<up, tool, reported>>
verdictVars == <<done, outcome, told, late>>
signalVars  == <<cancel, stopped>>

\* submit: new -> checked -> created -> registered, or refused, or rejected.
\* worker thread: started -> between -> cleared (by the check of the cancel
\* event) -> stepping -> between -> ... -> returned or raised -> settled (row
\* written) -> told (notification sent) -> finished.
Place == {"new", "checked", "refused", "created", "rejected", "registered",
          "started", "between", "cleared", "stepping", "returned", "raised", "settled",
          "told", "finished", "dead"}

InEngine  == {"between", "cleared", "stepping"}
HasThread == {"started", "returned", "raised", "settled", "told"} \union InEngine

\* loop_cancel has written and not signalled; a loop_record with finalize has
\* recorded and not completed; loop_status has judged the job dead and not failed it.
Tool   == [kind : {"cancel", "finalize", "fail"}, job : Job]
NoTool == [kind |-> "none", job |-> NoJob]

TypeOK ==
    /\ row     \in [Job -> Row \union {NoRow}]
    /\ up      \subseteq Proc
    /\ pc      \in [Run -> Place]
    /\ cancel  \in [Run -> BOOLEAN]
    /\ done    \in [Run -> Results]
    /\ outcome \in [Run -> {"none", "completed", "cancelled", "failed"}]
    /\ events  \in [Proc -> [Job -> Run \union {NoRun}]]
    /\ watch   \in [Run -> {"off", "on", "gone"}]
    /\ told    \subseteq Run \X {"loop_completed", "loop_failed"}
    /\ tool    \in [Proc -> Tool \union {NoTool}]
    /\ stopped \subseteq Run
    /\ late    \in [Run -> Nat]
    /\ reported \subseteq Job

Init ==
    /\ row     = [j \in Job |-> NoRow]
    /\ up      = Proc
    /\ pc      = [r \in Run |-> "new"]
    /\ cancel  = [r \in Run |-> FALSE]
    /\ done    = [r \in Run |-> Empty]
    /\ outcome = [r \in Run |-> "none"]
    /\ events  = [p \in Proc |-> [j \in Job |-> NoRun]]
    /\ watch   = [r \in Run |-> "off"]
    /\ told    = {}
    /\ tool    = [p \in Proc |-> NoTool]
    /\ stopped = {}
    /\ late    = [r \in Run |-> 0]
    /\ reported = {}

At(r, place) == pc[r] = place /\ HomeOf[r] \in up

Go(r, place) == pc' = [pc EXCEPT ![r] = place]

LiveRow(j)  == row[j] # NoRow /\ row[j].status \in Active

\* what submit's lease check sees in the row of job j
Leased(j) == LiveRow(j) /\ row[j].owner \in up

-----------------------------------------------------------------------------
(* submit *)

\* Refuse an active job whose host_pid is alive.
SubmitCheck(r) ==
    /\ At(r, "new")
    /\ Go(r, IF Leased(JobOf[r]) THEN "refused" ELSE "checked")
    /\ UNCHANGED <<row, events, watch, serverVars, verdictVars, signalVars>>

\* create_job(status="running", metrics={"host_pid": os.getpid()}).
SubmitCreate(r) ==
    /\ At(r, "checked")
    /\ row' = [row EXCEPT ![JobOf[r]] =
                  Upsert(@, FreshRow("running", Total, HomeOf[r], FALSE))]
    /\ Go(r, "created")
    /\ UNCHANGED <<events, watch, serverVars, verdictVars, signalVars>>

Tracked(p) == { j \in Job : events[p][j] # NoRun }

\* Mutant: one worker too many is let in.
HasRoomForOneMore(p) == Cardinality(Tracked(p)) <= MaxConcurrent

HasRoom(p) == Cardinality(Tracked(p)) < MaxConcurrent

\* Under the runner's lock: the limit, then _events[job_id] = cancel_event.
\* The row that create_job wrote stays when the limit raises.
SubmitRegister(r) ==
    /\ At(r, "created")
    /\ IF HasRoom(HomeOf[r])
       THEN /\ events' = [events EXCEPT ![HomeOf[r]][JobOf[r]] = r]
            /\ Go(r, "registered")
       ELSE /\ Go(r, "rejected")
            /\ UNCHANGED events
    /\ UNCHANGED <<row, watch, serverVars, verdictVars, signalVars>>

\* thread.start(), after the loop_started notification.
StartThread(r) ==
    /\ At(r, "registered")
    /\ Go(r, "started")
    /\ UNCHANGED <<row, events, watch, serverVars, verdictVars, signalVars>>

-----------------------------------------------------------------------------
(* _run_job and the engine under it *)

\* The engine is built and the watcher thread starts.
EnterEngine(r) ==
    /\ At(r, "started")
    /\ watch' = [watch EXCEPT ![r] = "on"]
    /\ Go(r, "between")
    /\ UNCHANGED <<row, events, serverVars, verdictVars, signalVars>>

\* engine_factory raises, or run() raises for a reason of its own.
EngineRaises(r) ==
    /\ At(r, "started") \/ At(r, "between") \/ At(r, "cleared")
    /\ Go(r, "raised")
    /\ UNCHANGED <<row, events, watch, serverVars, verdictVars, signalVars>>

StepsLeft(r) == { s \in Plan : done[r][s] = "none" }

\* Mutant: the cancel event is not looked at before a step.
MayStepRegardless(r) == StepsLeft(r) # {}

MayStep(r) == StepsLeft(r) # {} /\ ~cancel[r]

\* run_step_block looks at the cancel event ...
StepCleared(r) ==
    /\ At(r, "between")
    /\ MayStep(r)
    /\ Go(r, "cleared")
    /\ UNCHANGED <<row, events, watch, serverVars, verdictVars, signalVars>>

\* ... and starts the step when the budget has been compared and the pre-step
\* checkpoint written, without another look.
StepBegin(r) ==
    /\ At(r, "cleared")
    /\ Go(r, "stepping")
    /\ late' = [late EXCEPT ![r] = IF r \in stopped THEN @ + 1 ELSE @]
    /\ UNCHANGED <<row, done, outcome, events, watch, told, serverVars, signalVars>>

\* run_step_block raises InterruptedError instead of starting a step.
StepCancelled(r) ==
    /\ At(r, "between")
    /\ StepsLeft(r) # {} /\ cancel[r]
    /\ Go(r, "raised")
    /\ UNCHANGED <<row, events, watch, serverVars, verdictVars, signalVars>>

\* The step ends and _on_step records it.
StepEnd(r) ==
    /\ At(r, "stepping")
    /\ LET j == JobOf[r] IN
       \E s \in StepsLeft(r), ok \in BOOLEAN :
           /\ done' = [done EXCEPT ![r][s] = IF ok THEN "ok" ELSE "bad"]
           /\ row'  = IF RecordAllowed(row[j])
                      THEN [row EXCEPT ![j] = RecordMerge(@, WithResult(@, s, ok, FALSE))]
                      ELSE row
    /\ Go(r, "between")
    /\ UNCHANGED <<outcome, events, watch, told, late, serverVars, signalVars>>

EngineReturns(r) ==
    /\ At(r, "between")
    /\ StepsLeft(r) = {}
    /\ Go(r, "returned")
    /\ UNCHANGED <<row, events, watch, serverVars, verdictVars, signalVars>>

\* update_job of a worker: new status, new metrics, results when given.
WorkerCall(r, status, given, owner, completed) ==
    [status |-> status, given |-> given, results |-> done[r],
     metrics |-> TRUE, owner |-> owner, completed |-> completed]

\* Mutant: the WHERE of the UPDATE is forgotten.
PersistAlways(j, c) == row' = [row EXCEPT ![j] = Updated(@, c)]

Persist(j, c) ==
    row' = IF UpdateAllowed(row[j], c.status)
           THEN [row EXCEPT ![j] = Updated(@, c)] ELSE row

\* _finalize_result up to its update_job.
SettleResult(r) ==
    /\ At(r, "returned")
    /\ LET verdict == IF Failed(done[r]) = {} THEN "completed"
                      ELSE IF cancel[r] THEN "cancelled" ELSE "failed"
       IN  /\ Persist(JobOf[r], WorkerCall(r, verdict, TRUE, HomeOf[r],
                                           verdict # "cancelled"))
           /\ outcome' = [outcome EXCEPT ![r] = verdict]
    /\ Go(r, "settled")
    /\ UNCHANGED <<done, events, watch, told, late, serverVars, signalVars>>

\* Mutant: the error is stored, the status is forgotten.
CrashErrorOnly(r, verdict) == WorkerCall(r, "keep", FALSE, NoPid, verdict = "cancelled")

\* The new metrics of a crashed job carry no host_pid.
CrashCall(r, verdict) == WorkerCall(r, verdict, FALSE, NoPid, TRUE)

\* _finalize_crash up to its update_job.
SettleCrash(r) ==
    /\ At(r, "raised")
    /\ LET verdict == IF cancel[r] THEN "cancelled" ELSE "failed"
       IN  /\ Persist(JobOf[r], CrashCall(r, verdict))
           /\ outcome' = [outcome EXCEPT ![r] = verdict]
    /\ Go(r, "settled")
    /\ UNCHANGED <<done, events, watch, told, late, serverVars, signalVars>>

\* Mutant: a run that came back is announced as completed.
EventOfReturned(verdict) == IF verdict = "cancelled" THEN {} ELSE {"loop_completed"}

EventOf(verdict) ==
    CASE verdict = "completed" -> {"loop_completed"}
      [] verdict = "failed"    -> {"loop_failed"}
      [] verdict = "cancelled" -> {}

\* Mutant: the entry of _events is dropped with the announcement, before the thread ends.
AnnounceAndDrop(r) ==
    /\ At(r, "settled")
    /\ told' = told \union ({r} \X EventOf(outcome[r]))
    /\ events' = [events EXCEPT ![HomeOf[r]][JobOf[r]] = NoRun]
    /\ Go(r, "told")
    /\ UNCHANGED <<row, done, outcome, watch, late, serverVars, signalVars>>

\* The notification is sent whether update_job wrote the row or not.
Announce(r) ==
    /\ At(r, "settled")
    /\ told' = told \union ({r} \X EventOf(outcome[r]))
    /\ Go(r, "told")
    /\ UNCHANGED <<row, done, outcome, events, watch, late, serverVars, signalVars>>

\* self._events.pop(job_id, None): whatever event is there.
PopEvent(p, j) == [events EXCEPT ![p][j] = NoRun]

\* What the threads of the submissions R held is garbage.
Dropped(R) ==
    /\ watch'   = [r \in Run |-> IF r \in R THEN "gone"  ELSE watch[r]]
    /\ cancel'  = [r \in Run |-> IF r \in R THEN FALSE   ELSE cancel[r]]
    /\ done'    = [r \in Run |-> IF r \in R THEN Empty   ELSE done[r]]
    /\ outcome' = [r \in Run |-> IF r \in R THEN "none"  ELSE outcome[r]]
    /\ stopped' = stopped \ R
    /\ late'    = [r \in Run |-> IF r \in R THEN 0      ELSE late[r]]

\* The finally block: the watcher is stopped and the event is dropped.
Finish(r) ==
    /\ At(r, "told")
    /\ events' = PopEvent(HomeOf[r], JobOf[r])
    /\ Dropped({r})
    /\ Go(r, "finished")
    /\ UNCHANGED <<row, told, serverVars>>

-----------------------------------------------------------------------------
(* _watch_job *)

\* A poll that finds no row or a terminal one ends the watcher.  'cancelled'
\* is terminal, so the branch that sets cancel_event is never reached.  A
\* poll of an active row changes nothing here (the heartbeat moves updated_at).
WatchPoll(r) ==
    /\ watch[r] = "on"
    /\ HomeOf[r] \in up
    /\ row[JobOf[r]] = NoRow \/ row[JobOf[r]].status \in Terminal
    /\ watch' = [watch EXCEPT ![r] = "gone"]
    /\ UNCHANGED <<row, pc, events, serverVars, verdictVars, signalVars>>

-----------------------------------------------------------------------------
(* Tools *)

\* A caller knows a job id once submit has got as far as the notification.
Known(j) == \E r \in Run : JobOf[r] = j /\ pc[r] \notin {"new", "checked", "created"}

\* Mutant: the status is misspelt, so no reader knows it.
CancelRowMisspelt(r) ==
    IF CancelAllowed(r) THEN [r EXCEPT !.status = "canceled"] ELSE r

\* cancel_job
CancelRow(r) ==
    IF CancelAllowed(r) THEN [r EXCEPT !.status = "cancelled"] ELSE r

\* A call in process p for a job that has a row.
Called(p, j) == p \in up /\ tool[p] = NoTool /\ row[j] # NoRow /\ Known(j)

\* The call of process p goes on with its second half, or returns.
GoesOn(p, kind, j) == tool' = [tool EXCEPT ![p] = [kind |-> kind, job |-> j]]
Returns(p) == tool' = [tool EXCEPT ![p] = NoTool]

InTool(p, kind) == p \in up /\ tool[p] # NoTool /\ tool[p].kind = kind

\* loop_cancel, first half: the row says 'cancelled' ...
CancelPersist(p, j) ==
    /\ Called(p, j)
    /\ row' = [row EXCEPT ![j] = CancelRow(@)]
    /\ GoesOn(p, "cancel", j)
    /\ UNCHANGED <<up, pc, events, watch, reported, verdictVars, signalVars>>

\* Mutant: request_cancel signals nobody.
NobodySignalled(p, j) == {r \in Run : events[p][j] = r /\ pc[r] = "new"}

\* The submission whose event request_cancel finds in _events.
Signalled(p, j) == {r \in Run : events[p][j] = r}

\* ... second half: request_cancel sets the event this process tracks, if any.
CancelSignal(p) ==
    /\ InTool(p, "cancel")
    /\ LET j == tool[p].job IN
        /\ cancel'  = [r \in Run |-> cancel[r] \/ r \in Signalled(p, j)]
        /\ stopped' = stopped \union
               {r \in Run : JobOf[r] = j /\ HomeOf[r] = p /\ pc[r] \in HasThread}
    /\ Returns(p)
    /\ UNCHANGED <<row, up, pc, events, watch, reported, verdictVars>>

\* loop_result takes any name, loop_record one of the plan; both write the row of
\* whatever job they are given, with auto_complete, and leave an ended one.
\* loop_record completes the job besides when it is told to and the record has not.
Report(p, j, s, ok) ==
    /\ Called(p, j)
    /\ row' = IF RecordAllowed(row[j])
              THEN [row EXCEPT ![j] = RecordMerge(@, WithResult(@, s, ok, TRUE))]
              ELSE row
    /\ reported' = IF RecordAllowed(row[j]) THEN reported \union {j} ELSE reported
    /\ \/ UNCHANGED tool
       \/ s \in Plan /\ RecordAllowed(row'[j]) /\ GoesOn(p, "finalize", j)
    /\ UNCHANGED <<up, pc, events, watch, verdictVars, signalVars>>

FinalizeCall == [status |-> "completed", given |-> FALSE, results |-> Empty,
                 metrics |-> FALSE, owner |-> NoPid, completed |-> TRUE]

Finalize(p) ==
    /\ InTool(p, "finalize")
    /\ Persist(tool[p].job, FinalizeCall)
    /\ Returns(p)
    /\ UNCHANGED <<up, pc, events, watch, reported, verdictVars, signalVars>>

\* No progress update for 15 minutes: the heartbeat of a watcher and the
\* start of a thread are far quicker, so neither is under way.
Stale(j) ==
    \A r \in Run : JobOf[r] = j =>
        watch[r] # "on" /\ pc[r] \notin {"created", "registered", "started"}

\* Mutant: the pid is compared but its liveness is not probed.
OwnerNotMe(j, p) == row[j].owner # NoPid /\ row[j].owner # p

OwnerDead(j, p) == row[j].owner # NoPid /\ row[j].owner # p /\ row[j].owner \notin up

\* loop_status judges a job by the row it has read: its owner is gone, or it is stale ...
StatusJudges(p, j) ==
    /\ Called(p, j)
    /\ row[j].status \in {"running", "in_progress"}
    /\ OwnerDead(j, p) \/ (Stale(j) /\ ~row[j].agent)
    /\ GoesOn(p, "fail", j)
    /\ UNCHANGED <<row, up, pc, events, watch, reported, verdictVars, signalVars>>

FailCall == [status |-> "failed", given |-> FALSE, results |-> Empty,
             metrics |-> FALSE, owner |-> NoPid, completed |-> TRUE]

\* ... and fails it.
StatusFails(p) ==
    /\ InTool(p, "fail")
    /\ Persist(tool[p].job, FailCall)
    /\ Returns(p)
    /\ UNCHANGED <<up, pc, events, watch, reported, verdictVars, signalVars>>

-----------------------------------------------------------------------------
(* Processes *)

\* A process exits and takes its threads and its _events with it.
Die(p) ==
    /\ p \in up
    /\ up' = up \ {p}
    /\ pc' = [r \in Run |-> IF HomeOf[r] = p THEN "dead" ELSE pc[r]]
    /\ events' = [events EXCEPT ![p] = [j \in Job |-> NoRun]]
    /\ Dropped({r \in Run : HomeOf[r] = p})
    /\ Returns(p)
    /\ UNCHANGED <<row, told, reported>>

\* Another server starts and sweeps (mark_interrupted_jobs_on_startup).
Sweep ==
    /\ \E j \in Job : Orphan(row[j], up)
    /\ row' = [j \in Job |-> IF Orphan(row[j], up)
                             THEN [row[j] EXCEPT !.status = "interrupted"]
                             ELSE row[j]]
    /\ UNCHANGED <<pc, events, watch, serverVars, verdictVars, signalVars>>

-----------------------------------------------------------------------------

Submit(r) == SubmitCheck(r) \/ SubmitCreate(r) \/ SubmitRegister(r) \/ StartThread(r)

\* The straight-line parts of the worker thread.
Worker(r) ==
    \/ EnterEngine(r) \/ StepCleared(r) \/ StepBegin(r) \/ StepCancelled(r) \/ StepEnd(r)
    \/ EngineReturns(r) \/ SettleResult(r) \/ SettleCrash(r) \/ Announce(r)
    \/ Finish(r)

Next ==
    \/ \E r \in Run : Submit(r) \/ Worker(r) \/ EngineRaises(r) \/ WatchPoll(r)
    \/ \E p \in Proc, j \in Job : CancelPersist(p, j) \/ StatusJudges(p, j)
    \/ \E p \in Proc, j \in Job, s \in Step, ok \in BOOLEAN : Report(p, j, s, ok)
    \/ \E p \in Proc : CancelSignal(p) \/ Finalize(p) \/ StatusFails(p) \/ Die(p)
    \/ Sweep

Spec == Init /\ [][Next]_vars

\* A step ends: an assumption, since an executor may hold its thread past its
\* timeout (ChildProcess!DeadlineHolds) and a human step may have none; the rest
\* is straight-line code of a thread the operating system keeps scheduling.
Fairness == \A r \in Run : WF_vars(Worker(r))

FairSpec == Spec /\ Fairness

-----------------------------------------------------------------------------
(* Properties *)

\* is_running: "True while the job's worker thread is still alive": the event
\* a submission registered stays in _events until its own thread drops it
\* (worker.py is_running, request_cancel and the finally of _run_job).
IsRunningTruthful ==
    \A r \in Run : pc[r] \in HasThread => events[HomeOf[r]][JobOf[r]] = r

\* No process ever runs more worker threads than max_concurrent, although the
\* threads end on their own and the limit is checked against _events.
CapacityKept ==
    \A p \in Proc :
        Cardinality({r \in Run : HomeOf[r] = p /\ pc[r] \in HasThread}) <= MaxConcurrent

\* After loop_cancel has returned in the process that runs the job, the job's
\* thread begins at most the one step it was cleared for (request_cancel,
\* run_step_block).
CancelStops == \A r \in Run : late[r] <= 1

Open(j) == row[j] # NoRow /\ row[j].status \notin Terminal

\* While a job's engine runs, only loop_cancel and callers that report its steps
\* can end the job behind its back: no sweep and no loop_status of another
\* server calls it failed, however old what they have read is.
EngineOwnsVerdict ==
    [][\A r \in Run : LET j == JobOf[r] IN
          (pc[r] \in InEngine /\ Open(j) /\ row'[j] # row[j])
          => /\ row'[j] # NoRow
             /\ \/ row'[j].status \in {"in_progress", "cancelled"}
                \/ row'[j].status \in {"completed", "error"} /\ j \in reported']_vars

\* What a notification announces is what the row says, unless the job was
\* cancelled in the meantime or callers reported its steps: then loop_completed and
\* loop_failed may stand beside a cancelled row, and loop_failed beside a
\* completed one (worker.py _finalize_result).
AnnouncedVerdict ==
    \A r \in Run : LET j == JobOf[r] IN
        /\ <<r, "loop_completed">> \in told => row[j].status \in {"completed", "cancelled"}
        /\ <<r, "loop_failed">> \in told =>
              \/ row[j].status \in {"failed", "cancelled"}
              \/ row[j].status = "completed" /\ j \in reported

\* A job whose worker thread was started ends with a verdict in its row,
\* whatever fails or is cancelled on the way, unless the process exits.
WorkerSettles ==
    \A r \in Run :
        pc[r] = "started" ~> \/ HomeOf[r] \notin up
                             \/ row[JobOf[r]] # NoRow /\ row[JobOf[r]].status \in Terminal

\* Submissions, workers, cancels and sweeps of all the servers move the status
\* of a job only as the table promises its readers: see JobLifecycle.
Lifecycle == INSTANCE JobLifecycle WITH
    status <- [j \in Job |-> IF row[j] = NoRow THEN "absent" ELSE row[j].status]

ImplementsLifecycle == Lifecycle!Spec

\* "per-job watcher thread polls store, sets cancel_event on `cancelled`"
\* (06-adversarial-review-addendum, A14; README: "worker observes via DB
\* poll"): a watcher that has ended on a cancelled row has signalled the
\* engine that is still running steps.
CancelObserved ==
    \A r \in Run :
        (/\ pc[r] \in InEngine /\ watch[r] = "gone"
         /\ row[JobOf[r]] # NoRow /\ row[JobOf[r]].status = "cancelled")
        => cancel[r]
=============================================================================
