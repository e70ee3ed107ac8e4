----------------------- MODULE DetachedRunner_proofs -----------------------
(***************************************************************************)
(* Proofs about the detached workers, for any numbers of processes, jobs,  *)
(* steps and submissions and any limit.  Types hold as they are; the       *)
(* limit, the cancel event and the verdicts are about submissions whose    *)
(* job ids are their own, which is what submit generates.                  *)
(***************************************************************************)
EXTENDS DetachedRunner, JobTable_proofs, FiniteSetTheorems

-----------------------------------------------------------------------------
(* Types *)

LEMMA RunHomes == ASSUME NEW r \in Run PROVE JobOf[r] \in Job /\ HomeOf[r] \in Proc
BY RunnerAssumption

\* update_job keeps the table a table.
LEMMA PersistTypes ==
    ASSUME row \in [Job -> Row \union {NoRow}], NEW j \in Job, NEW c \in Call, Persist(j, c)
    PROVE  row' \in [Job -> Row \union {NoRow}]
<1>1. UpdateAllowed(row[j], c.status) => Updated(row[j], c) \in Row
  BY UpdatedIsRow DEF UpdateAllowed
<1>2. QED
  BY <1>1 DEF Persist

\* The calls of a worker are calls of update_job.
LEMMA WorkerCalls ==
    ASSUME TypeOK, NEW r \in Run, NEW st \in {"completed", "cancelled", "failed"},
           NEW given \in BOOLEAN, NEW o \in Proc \union {NoPid}, NEW completed \in BOOLEAN
    PROVE  WorkerCall(r, st, given, o, completed) \in Call
BY DEF TypeOK, WorkerCall, Call, Status, Terminal

LEMMA DroppedTypes ==
    ASSUME TypeOK, NEW R, Dropped(R)
    PROVE  /\ watch' \in [Run -> {"off", "on", "gone"}]
           /\ cancel' \in [Run -> BOOLEAN]
           /\ done' \in [Run -> Results]
           /\ outcome' \in [Run -> {"none", "completed", "cancelled", "failed"}]
           /\ stopped' \subseteq Run
           /\ late' \in [Run -> Nat]
BY EmptyIsResults DEF TypeOK, Dropped

\* A submission that is about to be announced has a verdict.
VerdictKnown == \A r \in Run : pc[r] = "settled" => outcome[r] # "none"

LEMMA InitTypes == Init => TypeOK /\ VerdictKnown
BY EmptyIsResults DEF Init, TypeOK, Place, VerdictKnown

\* A step that only moves a submission, or nothing, keeps the types.
LEMMA GoTypes ==
    ASSUME TypeOK, NEW r \in Run, NEW place \in Place, Go(r, place)
    PROVE  pc' \in [Run -> Place]
BY DEF TypeOK, Go

LEMMA SubmitTypes ==
    ASSUME TypeOK, NEW r \in Run, Submit(r) PROVE TypeOK'
<1> USE RunHomes
<1>1. CASE SubmitCheck(r)
  BY <1>1 DEF SubmitCheck, Go, TypeOK, Place, serverVars, verdictVars, signalVars
<1>2. CASE SubmitCreate(r)
  <2>1. FreshRow("running", Total, HomeOf[r], FALSE) \in Row
    BY RunnerAssumption, FreshRowIsRow
  <2>2. row' \in [Job -> Row \union {NoRow}]
    BY <1>2, <2>1, UpsertIsRow DEF SubmitCreate, TypeOK
  <2> QED
    BY <1>2, <2>2 DEF SubmitCreate, Go, TypeOK, Place, serverVars, verdictVars, signalVars
<1>3. CASE SubmitRegister(r)
  <2>0. \/ events' = [events EXCEPT ![HomeOf[r]][JobOf[r]] = r]
        \/ events' = events
    BY <1>3 DEF SubmitRegister
  <2>1. events' \in [Proc -> [Job -> Run \union {NoRun}]]
    <3>1. events \in [Proc -> [Job -> Run \union {NoRun}]]
      BY DEF TypeOK
    <3>2. [events EXCEPT ![HomeOf[r]][JobOf[r]] = r] \in [Proc -> [Job -> Run \union {NoRun}]]
      BY <3>1
    <3> QED
      BY <2>0, <3>1, <3>2
  <2>2. pc' \in [Run -> Place]
    BY <1>3 DEF SubmitRegister, Go, TypeOK, Place
  <2> QED
    BY <1>3, <2>1, <2>2 DEF SubmitRegister, TypeOK, serverVars, verdictVars, signalVars
<1>4. CASE StartThread(r)
  BY <1>4 DEF StartThread, Go, TypeOK, Place, serverVars, verdictVars, signalVars
<1> QED
  BY <1>1, <1>2, <1>3, <1>4 DEF Submit

LEMMA WorkerTypes ==
    ASSUME TypeOK, VerdictKnown,
           NEW r \in Run, Worker(r) \/ EngineRaises(r) \/ WatchPoll(r)
    PROVE  TypeOK'
<1> USE RunHomes
<1>1. CASE EnterEngine(r) \/ WatchPoll(r)
  BY <1>1 DEF EnterEngine, WatchPoll, Go, TypeOK, Place, serverVars, verdictVars, signalVars
<1>2. CASE StepCleared(r) \/ StepCancelled(r) \/ EngineReturns(r) \/ EngineRaises(r)
  BY <1>2 DEF StepCleared, StepCancelled, EngineReturns, EngineRaises, Go, TypeOK, Place,
              serverVars, verdictVars, signalVars
<1>7. CASE StepBegin(r)
  BY <1>7 DEF StepBegin, Go, TypeOK, Place, serverVars, verdictVars, signalVars
<1>3. CASE StepEnd(r)
  <2>1. PICK s \in StepsLeft(r), ok \in BOOLEAN :
           /\ done' = [done EXCEPT ![r][s] = IF ok THEN "ok" ELSE "bad"]
           /\ row'  = IF RecordAllowed(row[JobOf[r]])
                      THEN [row EXCEPT ![JobOf[r]] = RecordMerge(@, WithResult(@, s, ok, FALSE))]
                      ELSE row
    BY <1>3 DEF StepEnd
  <2>2. s \in Step
    BY RunnerAssumption DEF StepsLeft
  <2>3. done' \in [Run -> Results]
    BY <2>1, <2>2 DEF TypeOK, Results, Outcome
  <2>4. RecordAllowed(row[JobOf[r]]) =>
           RecordMerge(row[JobOf[r]], WithResult(row[JobOf[r]], s, ok, FALSE)) \in Row
    <3> SUFFICES ASSUME RecordAllowed(row[JobOf[r]])
                 PROVE  RecordMerge(row[JobOf[r]], WithResult(row[JobOf[r]], s, ok, FALSE)) \in Row
      OBVIOUS
    <3>1. row[JobOf[r]] \in Row
      BY DEF RecordAllowed, TypeOK
    <3>2. WithResult(row[JobOf[r]], s, ok, FALSE) \in Row
      BY <2>2, <3>1, WithResultGoesOn
    <3> QED
      BY <3>1, <3>2, RecordMergeIsRow
  <2>5. row' \in [Job -> Row \union {NoRow}]
    BY <2>1, <2>4 DEF TypeOK
  <2>6. pc' \in [Run -> Place]
    BY <1>3 DEF StepEnd, Go, TypeOK, Place
  <2> QED
    BY <1>3, <2>3, <2>5, <2>6 DEF StepEnd, TypeOK, serverVars, verdictVars, signalVars
<1>4. CASE SettleResult(r) \/ SettleCrash(r)
  <2>1. PICK st \in {"completed", "cancelled", "failed"}, given \in BOOLEAN,
             o \in Proc \union {NoPid}, completed \in BOOLEAN :
           /\ Persist(JobOf[r], WorkerCall(r, st, given, o, completed))
           /\ outcome' = [outcome EXCEPT ![r] = st]
    BY <1>4 DEF SettleResult, SettleCrash, CrashCall
  <2>2. row' \in [Job -> Row \union {NoRow}]
    BY <2>1, WorkerCalls, PersistTypes DEF TypeOK
  <2>3. outcome' \in [Run -> {"none", "completed", "cancelled", "failed"}]
    BY <2>1 DEF TypeOK
  <2>4. pc' \in [Run -> Place]
    BY <1>4 DEF SettleResult, SettleCrash, Go, TypeOK, Place
  <2> QED
    BY <1>4, <2>2, <2>3, <2>4 DEF SettleResult, SettleCrash, TypeOK, serverVars, verdictVars, signalVars
<1>5. CASE Announce(r)
  <2>1. outcome[r] \in {"completed", "cancelled", "failed"}
    BY <1>5 DEF Announce, At, VerdictKnown, TypeOK
  <2>2. EventOf(outcome[r]) \subseteq {"loop_completed", "loop_failed"}
    BY <2>1 DEF EventOf
  <2> QED
    BY <1>5, <2>2 DEF Announce, Go, TypeOK, Place, serverVars, verdictVars, signalVars
<1>6. CASE Finish(r)
  <2>1. events' \in [Proc -> [Job -> Run \union {NoRun}]]
    BY <1>6 DEF Finish, PopEvent, TypeOK
  <2>2. pc' \in [Run -> Place]
    BY <1>6 DEF Finish, Go, TypeOK, Place
  <2> QED
    BY <1>6, <2>1, <2>2, DroppedTypes DEF Finish, TypeOK, serverVars
<1> QED
  BY <1>1, <1>2, <1>3, <1>4, <1>5, <1>6, <1>7 DEF Worker

\* A reported result leaves a row, and its owner.
LEMMA ReportedRow ==
    ASSUME NEW r \in Row, NEW s \in Step, NEW ok \in BOOLEAN
    PROVE  LET new == RecordMerge(r, WithResult(r, s, ok, TRUE))
           IN  /\ new \in Row /\ new.owner = r.owner
               /\ new.status \in {"in_progress", "error", "completed"}
<1> DEFINE auto == TRUE
           w == WithResult(r, s, ok, auto)
<1>1. auto \in BOOLEAN
  OBVIOUS
<1> HIDE DEF auto
<1>2. w \in Row /\ w.status \in {"in_progress", "error", "completed"}
  BY <1>1, WithResultIsRow
<1> HIDE DEF w
<1>3. /\ RecordMerge(r, w) \in Row /\ RecordMerge(r, w).owner = r.owner
      /\ RecordMerge(r, w).status \in {"in_progress", "error", "completed"}
  BY <1>2, RecordMergeIsRow
<1> QED
  BY <1>3 DEF w, auto

\* What a report writes of the job it names: a row that goes on, or is complete.
LEMMA ReportWrites ==
    ASSUME TypeOK, NEW p \in Proc, NEW j \in Job, NEW s \in Step, NEW ok \in BOOLEAN,
           Report(p, j, s, ok)
    PROVE  /\ row[j] \in Row
           /\ \A i \in Job \ {j} : row'[i] = row[i]
           /\ IF RecordAllowed(row[j])
              THEN /\ row'[j] \in Row /\ row'[j].owner = row[j].owner
                   /\ row'[j].status \in {"in_progress", "error", "completed"}
                   /\ reported' = reported \union {j}
              ELSE row'[j] = row[j] /\ reported' = reported
           /\ row' \in [Job -> Row \union {NoRow}]
<1> DEFINE new == RecordMerge(row[j], WithResult(row[j], s, ok, TRUE))
<1>1. row[j] \in Row
  BY DEF Report, Called, TypeOK
<1>2. /\ new \in Row /\ new.owner = row[j].owner
      /\ new.status \in {"in_progress", "error", "completed"}
  BY <1>1, ReportedRow
<1>3. /\ row' = IF RecordAllowed(row[j]) THEN [row EXCEPT ![j] = new] ELSE row
      /\ reported' = IF RecordAllowed(row[j]) THEN reported \union {j} ELSE reported
  BY DEF Report
<1> HIDE DEF new
<1> QED
  BY <1>1, <1>2, <1>3 DEF TypeOK

\* The calls that a tool makes in its second half.
LEMMA ToolCalls == /\ FinalizeCall \in Call /\ FinalizeCall.status = "completed"
                   /\ FailCall \in Call /\ FailCall.status = "failed"
BY EmptyIsResults DEF FinalizeCall, FailCall, Call, Status, Terminal

LEMMA InToolJob == ASSUME TypeOK, NEW p \in Proc, NEW kind, InTool(p, kind)
                   PROVE  tool[p].job \in Job
BY DEF TypeOK, InTool, Tool

\* A call that is made by a tool of process p.
Tools(p) ==
    \/ CancelSignal(p) \/ Finalize(p) \/ StatusFails(p)
    \/ \E j \in Job : CancelPersist(p, j) \/ StatusJudges(p, j)
    \/ \E j \in Job, s \in Step, ok \in BOOLEAN : Report(p, j, s, ok)

LEMMA ToolTypes == ASSUME TypeOK, NEW p \in Proc, Die(p) \/ Tools(p) PROVE TypeOK'
<1>0. \A kind \in {"cancel", "finalize", "fail"}, j \in Job :
         [tool EXCEPT ![p] = [kind |-> kind, job |-> j]] \in [Proc -> Tool \union {NoTool}]
  BY DEF TypeOK, Tool
<1>1. Returns(p) => tool' \in [Proc -> Tool \union {NoTool}]
  BY DEF Returns, TypeOK
<1>2. CASE Die(p)
  <2>1. /\ up' \subseteq Proc
        /\ pc' \in [Run -> Place]
        /\ events' \in [Proc -> [Job -> Run \union {NoRun}]]
    BY <1>2 DEF Die, TypeOK, Place
  <2>2. tool' \in [Proc -> Tool \union {NoTool}]
    BY <1>1, <1>2 DEF Die
  <2> QED
    BY <1>2, <2>1, <2>2, DroppedTypes DEF Die, TypeOK
<1>3. CASE CancelSignal(p)
  <2>1. tool' \in [Proc -> Tool \union {NoTool}]
    BY <1>1, <1>3 DEF CancelSignal
  <2> QED
    BY <1>3, <2>1 DEF CancelSignal, TypeOK, verdictVars
<1>4. ASSUME NEW j \in Job, CancelPersist(p, j) PROVE TypeOK'
  <2>1. CancelRow(row[j]) \in Row
    <3>1. row[j] \in Row
      BY <1>4 DEF CancelPersist, Called, TypeOK
    <3> QED
      BY <3>1 DEF CancelRow, Row, Status, Terminal
  <2>2. tool' \in [Proc -> Tool \union {NoTool}]
    BY <1>0, <1>4 DEF CancelPersist, GoesOn
  <2>3. row' \in [Job -> Row \union {NoRow}]
    BY <1>4, <2>1 DEF CancelPersist, TypeOK
  <2> QED
    BY <1>4, <2>2, <2>3 DEF CancelPersist, TypeOK, verdictVars, signalVars
<1>5. ASSUME NEW j \in Job, NEW s \in Step, NEW ok \in BOOLEAN, Report(p, j, s, ok) PROVE TypeOK'
  <2>1. tool' \in [Proc -> Tool \union {NoTool}]
    <3>1. CASE UNCHANGED tool
      BY <3>1 DEF TypeOK
    <3>2. CASE GoesOn(p, "finalize", j)
      BY <1>0, <3>2 DEF GoesOn
    <3> QED
      BY <1>5, <3>1, <3>2 DEF Report
  <2>2. row' \in [Job -> Row \union {NoRow}] /\ reported' \subseteq Job
    BY <1>5, ReportWrites DEF TypeOK
  <2> QED
    BY <1>5, <2>1, <2>2 DEF Report, TypeOK, verdictVars, signalVars
<1>6. CASE Finalize(p) \/ StatusFails(p)
  <2>1. row' \in [Job -> Row \union {NoRow}]
    BY <1>6, InToolJob, ToolCalls, PersistTypes DEF Finalize, StatusFails, TypeOK
  <2>2. tool' \in [Proc -> Tool \union {NoTool}]
    BY <1>1, <1>6 DEF Finalize, StatusFails
  <2> QED
    BY <1>6, <2>1, <2>2 DEF Finalize, StatusFails, TypeOK, verdictVars, signalVars
<1>7. ASSUME NEW j \in Job, StatusJudges(p, j) PROVE TypeOK'
  <2>1. tool' \in [Proc -> Tool \union {NoTool}]
    BY <1>0, <1>7 DEF StatusJudges, GoesOn
  <2> QED
    BY <1>7, <2>1 DEF StatusJudges, TypeOK, verdictVars, signalVars
<1> QED
  BY <1>2, <1>3, <1>4, <1>5, <1>6, <1>7 DEF Tools

LEMMA SweepTypes == ASSUME TypeOK, Sweep PROVE TypeOK'
<1>1. ASSUME NEW j \in Job, Orphan(row[j], up) PROVE [row[j] EXCEPT !.status = "interrupted"] \in Row
  BY <1>1 DEF Orphan, TypeOK, Row, Status, Terminal
<1> QED
  BY <1>1 DEF Sweep, TypeOK, serverVars, verdictVars, signalVars

LEMMA StepTypes == TypeOK /\ VerdictKnown /\ [Next]_vars => TypeOK'
<1>1. UNCHANGED vars /\ TypeOK => TypeOK'
  BY DEF vars, TypeOK
<1> QED
  BY <1>1, SubmitTypes, WorkerTypes, ToolTypes, SweepTypes DEF Next, Tools

\* A tool call touches no worker thread.
LEMMA ToolsApart ==
    ASSUME NEW p \in Proc, Tools(p)
    PROVE  UNCHANGED <<up, pc, events, watch, verdictVars>>
BY DEF Tools, CancelPersist, CancelSignal, Report, Finalize, StatusJudges, StatusFails

LEMMA StepVerdictKnown == TypeOK /\ VerdictKnown /\ [Next]_vars => VerdictKnown'
<1> SUFFICES ASSUME TypeOK, VerdictKnown, [Next]_vars PROVE VerdictKnown'
  OBVIOUS
<1> USE DEF TypeOK, VerdictKnown, verdictVars
<1>1. ASSUME NEW r \in Run, Submit(r) PROVE VerdictKnown'
  BY <1>1 DEF Submit, SubmitCheck, SubmitCreate, SubmitRegister, StartThread, Go
<1>2. ASSUME NEW r \in Run, NEW place \in Place \ {"settled"}, Go(r, place), UNCHANGED outcome
      PROVE  VerdictKnown'
  BY <1>2 DEF Go
<1>3. ASSUME NEW r \in Run, EnterEngine(r) \/ StepCleared(r) \/ StepBegin(r) \/ StepCancelled(r)
                            \/ StepEnd(r) \/ EngineReturns(r) \/ EngineRaises(r) \/ Announce(r)
      PROVE  VerdictKnown'
  <2>1. UNCHANGED outcome /\ \E place \in Place \ {"settled"} : Go(r, place)
    BY <1>3 DEF EnterEngine, StepCleared, StepBegin, StepCancelled, StepEnd, EngineReturns,
                EngineRaises, Announce, Place
  <2> QED
    BY <1>2, <2>1
<1>4. ASSUME NEW r \in Run, SettleResult(r) \/ SettleCrash(r) PROVE VerdictKnown'
  BY <1>4 DEF SettleResult, SettleCrash, Go
<1>5. ASSUME NEW r \in Run, Finish(r) PROVE VerdictKnown'
  BY <1>5 DEF Finish, Dropped, Go
<1>6. ASSUME NEW p \in Proc, Die(p) PROVE VerdictKnown'
  BY <1>6 DEF Die, Dropped
<1>7. CASE UNCHANGED <<pc, outcome>>
  BY <1>7
<1>8. ASSUME NEW p \in Proc, Tools(p) PROVE VerdictKnown'
  BY <1>7, <1>8, ToolsApart
<1> QED
  BY <1>1, <1>3, <1>4, <1>5, <1>6, <1>7, <1>8 DEF Next, Worker, WatchPoll, Tools, Sweep, vars

\* Types hold in every reachable state, and a worker announces only a verdict
\* it has tried to persist.
THEOREM RunnerTypes == Spec => [](TypeOK /\ VerdictKnown)
<1> QED
  BY InitTypes, StepTypes, StepVerdictKnown, PTL DEF Spec

-----------------------------------------------------------------------------
(* The threads of a process, the events it tracks and the cancel event *)

\* submit generates the job id.
OwnJobs == \A q, r \in Run : JobOf[q] = JobOf[r] => q = r

\* From its registration until its own finally block a submission is tracked.
Tracks ==
    \A r \in Run : pc[r] \in HasThread \union {"registered"} => events[HomeOf[r]][JobOf[r]] = r

\* The limit is one of tracked jobs.
TrackedFew ==
    \A p \in Proc : IsFiniteSet(Tracked(p)) /\ Cardinality(Tracked(p)) <= MaxConcurrent

\* A submission that loop_cancel has stopped has been signalled.
StoppedSignalled == \A r \in stopped : cancel[r]

\* A stopped submission begins no step but one that it was cleared for.
LateOnce ==
    \A r \in Run :
        /\ late[r] <= 1
        /\ r \notin stopped \/ pc[r] = "cleared" => late[r] = 0

ThreadInv == Tracks /\ TrackedFew /\ StoppedSignalled

LEMMA InitThreads == Init => ThreadInv
<1> SUFFICES ASSUME Init PROVE ThreadInv
  OBVIOUS
<1>1. \A p \in Proc : Tracked(p) = {}
  BY DEF Init, Tracked
<1>2. TrackedFew
  BY <1>1, FS_EmptySet, RunnerAssumption DEF TrackedFew
<1> QED
  BY <1>2 DEF Init, ThreadInv, Tracks, StoppedSignalled, HasThread, InEngine

\* Without the registry, the processes' lists stay.
LEMMA SameTracked == ASSUME TrackedFew, UNCHANGED events PROVE TrackedFew'
BY DEF TrackedFew, Tracked

\* Dropping events leaves no more of them.
LEMMA FewerTracked ==
    ASSUME TrackedFew, \A p \in Proc : Tracked(p)' \subseteq Tracked(p) PROVE TrackedFew'
<1> SUFFICES ASSUME NEW p \in Proc
             PROVE  IsFiniteSet(Tracked(p)') /\ Cardinality(Tracked(p)') <= MaxConcurrent
  BY DEF TrackedFew
<1>1. IsFiniteSet(Tracked(p)) /\ Cardinality(Tracked(p)) <= MaxConcurrent
  BY DEF TrackedFew
<1>2. /\ IsFiniteSet(Tracked(p)')
      /\ Cardinality(Tracked(p)') <= Cardinality(Tracked(p))
  BY <1>1, FS_Subset
<1>3. Cardinality(Tracked(p)) \in Nat /\ Cardinality(Tracked(p)') \in Nat /\ MaxConcurrent \in Nat
  BY <1>1, <1>2, FS_CardinalityType, RunnerAssumption
<1> QED
  BY <1>1, <1>2, <1>3

\* A step of one submission between two places, with its events kept.
LEMMA ThreadsMove ==
    ASSUME TypeOK, ThreadInv, NEW r \in Run, NEW place \in Place, Go(r, place),
           place \in HasThread => pc[r] \in HasThread \union {"registered"},
           place # "registered",
           UNCHANGED <<events, cancel, stopped>>
    PROVE  ThreadInv'
<1>1. TrackedFew'
  BY SameTracked DEF ThreadInv
<1>2. Tracks'
  BY DEF ThreadInv, Tracks, Go, TypeOK, HasThread, InEngine
<1>3. StoppedSignalled'
  BY DEF ThreadInv, StoppedSignalled
<1> QED
  BY <1>1, <1>2, <1>3 DEF ThreadInv

\* The limit is checked and the event registered under the runner's lock; the
\* job id is not tracked for another submission, which has an id of its own.
LEMMA ThreadsRegister ==
    ASSUME OwnJobs, TypeOK, ThreadInv, NEW r \in Run, SubmitRegister(r) PROVE ThreadInv'
<1> USE RunHomes
<1>1. CASE ~HasRoom(HomeOf[r])
  <2>1. Go(r, "rejected") /\ UNCHANGED <<events, cancel, stopped>>
    BY <1>1 DEF SubmitRegister, signalVars
  <2> QED
    BY <2>1, ThreadsMove DEF Place, HasThread, InEngine
<1>2. CASE HasRoom(HomeOf[r])
  <2>1. /\ events' = [events EXCEPT ![HomeOf[r]][JobOf[r]] = r]
        /\ Go(r, "registered") /\ UNCHANGED <<cancel, stopped>>
    BY <1>2 DEF SubmitRegister, signalVars
  <2>2. Tracks'
    <3> SUFFICES ASSUME NEW q \in Run, pc'[q] \in HasThread \union {"registered"}
                 PROVE  events'[HomeOf[q]][JobOf[q]] = q
      BY DEF Tracks
    <3>1. CASE q = r
      BY <2>1, <3>1 DEF TypeOK
    <3>2. CASE q # r
      <4>1. pc[q] \in HasThread \union {"registered"}
        BY <2>1, <3>2 DEF Go, TypeOK
      <4>2. events[HomeOf[q]][JobOf[q]] = q
        BY <4>1 DEF ThreadInv, Tracks
      <4>3. JobOf[q] # JobOf[r]
        BY <3>2 DEF OwnJobs
      <4> QED
        BY <2>1, <4>2, <4>3 DEF TypeOK
    <3> QED
      BY <3>1, <3>2
  <2>3. TrackedFew'
    <3> SUFFICES ASSUME NEW p \in Proc
                 PROVE  IsFiniteSet(Tracked(p)') /\ Cardinality(Tracked(p)') <= MaxConcurrent
      BY DEF TrackedFew
    <3>1. IsFiniteSet(Tracked(p)) /\ Cardinality(Tracked(p)) <= MaxConcurrent
      BY DEF ThreadInv, TrackedFew
    <3>2. Cardinality(Tracked(p)) \in Nat /\ MaxConcurrent \in Nat
      BY <3>1, FS_CardinalityType, RunnerAssumption
    <3>3. CASE p = HomeOf[r]
      <4>1. Tracked(p)' = Tracked(p) \union {JobOf[r]}
        BY <2>1, <3>3, RunnerAssumption DEF Tracked, TypeOK
      <4>2. /\ IsFiniteSet(Tracked(p)')
            /\ Cardinality(Tracked(p)') \in {Cardinality(Tracked(p)), Cardinality(Tracked(p)) + 1}
        BY <3>1, <4>1, FS_AddElement
      <4>3. Cardinality(Tracked(p)) < MaxConcurrent
        BY <1>2, <3>3 DEF HasRoom
      <4> QED
        BY <3>2, <4>2, <4>3
    <3>4. CASE p # HomeOf[r]
      <4>1. Tracked(p)' = Tracked(p)
        BY <2>1, <3>4 DEF Tracked, TypeOK
      <4> QED
        BY <3>1, <4>1
    <3> QED
      BY <3>3, <3>4
  <2>4. StoppedSignalled'
    BY <2>1 DEF ThreadInv, StoppedSignalled
  <2> QED
    BY <2>2, <2>3, <2>4 DEF ThreadInv
<1> QED
  BY <1>1, <1>2

\* The finally block drops the entry of its own job.
LEMMA ThreadsFinish ==
    ASSUME OwnJobs, TypeOK, ThreadInv, NEW r \in Run, Finish(r) PROVE ThreadInv'
<1> USE RunHomes
<1>1. /\ events' = [events EXCEPT ![HomeOf[r]][JobOf[r]] = NoRun]
      /\ Go(r, "finished") /\ Dropped({r})
  BY DEF Finish, PopEvent
<1>2. TrackedFew'
  <2>1. \A p \in Proc : Tracked(p)' \subseteq Tracked(p)
    BY <1>1 DEF Tracked, TypeOK
  <2> QED
    BY <2>1, FewerTracked DEF ThreadInv
<1>3. Tracks'
  <2> SUFFICES ASSUME NEW q \in Run, pc'[q] \in HasThread \union {"registered"}
               PROVE  events'[HomeOf[q]][JobOf[q]] = q
    BY DEF Tracks
  <2>1. q # r /\ pc[q] \in HasThread \union {"registered"}
    BY <1>1 DEF Go, TypeOK, HasThread, InEngine
  <2>2. events[HomeOf[q]][JobOf[q]] = q /\ JobOf[q] # JobOf[r]
    BY <2>1 DEF ThreadInv, Tracks, OwnJobs
  <2> QED
    BY <1>1, <2>2 DEF TypeOK
<1>4. StoppedSignalled'
  BY <1>1 DEF ThreadInv, StoppedSignalled, Dropped, TypeOK
<1> QED
  BY <1>2, <1>3, <1>4 DEF ThreadInv

LEMMA ThreadsDie ==
    ASSUME TypeOK, ThreadInv, NEW p \in Proc, Die(p) PROVE ThreadInv'
<1>1. /\ events' = [events EXCEPT ![p] = [j \in Job |-> NoRun]]
      /\ pc' = [r \in Run |-> IF HomeOf[r] = p THEN "dead" ELSE pc[r]]
      /\ Dropped({r \in Run : HomeOf[r] = p})
  BY DEF Die
<1>2. TrackedFew'
  <2>1. \A q \in Proc : Tracked(q)' \subseteq Tracked(q)
    BY <1>1 DEF Tracked, TypeOK
  <2> QED
    BY <2>1, FewerTracked DEF ThreadInv
<1>3. Tracks'
  BY <1>1, RunHomes DEF ThreadInv, Tracks, TypeOK, HasThread, InEngine
<1>4. StoppedSignalled'
  BY <1>1 DEF ThreadInv, StoppedSignalled, Dropped, TypeOK
<1> QED
  BY <1>2, <1>3, <1>4 DEF ThreadInv

\* request_cancel finds the event of every thread it is said to have stopped.
LEMMA ThreadsSignal ==
    ASSUME TypeOK, ThreadInv, NEW p \in Proc, CancelSignal(p) PROVE ThreadInv'
<1> DEFINE j == tool[p].job
<1>1. /\ cancel' = [r \in Run |-> cancel[r] \/ r \in Signalled(p, j)]
      /\ stopped' = stopped \union {r \in Run : JobOf[r] = j /\ HomeOf[r] = p /\ pc[r] \in HasThread}
      /\ UNCHANGED <<events, pc>>
  BY DEF CancelSignal
<1> HIDE DEF j
<1>2. ASSUME NEW r \in stopped' PROVE cancel'[r]
  <2>1. CASE r \in stopped
    BY <1>1, <2>1 DEF ThreadInv, StoppedSignalled, TypeOK
  <2>2. CASE r \in Run /\ JobOf[r] = j /\ HomeOf[r] = p /\ pc[r] \in HasThread
    <3>1. events[p][j] = r
      BY <2>2 DEF ThreadInv, Tracks
    <3> QED
      BY <1>1, <2>2, <3>1 DEF Signalled
  <2> QED
    BY <1>1, <2>1, <2>2
<1>3. TrackedFew'
  BY <1>1, SameTracked DEF ThreadInv
<1> QED
  BY <1>1, <1>2, <1>3 DEF ThreadInv, Tracks, StoppedSignalled

LEMMA StepThreads ==
    ASSUME OwnJobs, TypeOK, ThreadInv, [Next]_vars PROVE ThreadInv'
<1>1. ASSUME NEW r \in Run, Submit(r) PROVE ThreadInv'
  <2>1. CASE SubmitCheck(r) \/ SubmitCreate(r) \/ StartThread(r)
    BY <2>1, ThreadsMove DEF SubmitCheck, SubmitCreate, StartThread, At, Place, HasThread, InEngine,
                          signalVars
  <2> QED
    BY <1>1, <2>1, ThreadsRegister DEF Submit
<1>2. ASSUME NEW r \in Run, Worker(r) \/ EngineRaises(r) PROVE ThreadInv'
  <2>1. CASE EnterEngine(r) \/ StepCleared(r) \/ StepBegin(r) \/ StepCancelled(r) \/ StepEnd(r)
             \/ EngineReturns(r) \/ EngineRaises(r) \/ SettleResult(r) \/ SettleCrash(r) \/ Announce(r)
    <3>1. /\ pc[r] \in HasThread /\ UNCHANGED <<events, cancel, stopped>>
          /\ \E place \in Place \ {"registered"} : Go(r, place)
      BY <2>1 DEF EnterEngine, StepCleared, StepBegin, StepCancelled, StepEnd, EngineReturns,
                  EngineRaises, SettleResult, SettleCrash, Announce, At, Place, HasThread,
                  InEngine, signalVars
    <3> QED
      BY <3>1, ThreadsMove
  <2> QED
    BY <1>2, <2>1, ThreadsFinish DEF Worker
<1>3. CASE UNCHANGED <<pc, events, cancel, stopped>>
  BY <1>3, SameTracked DEF ThreadInv, Tracks, StoppedSignalled
<1>4. ASSUME NEW p \in Proc, Tools(p) PROVE ThreadInv'
  <2>1. UNCHANGED signalVars \/ CancelSignal(p)
    BY <1>4 DEF Tools, CancelPersist, Report, Finalize, StatusJudges, StatusFails
  <2> QED
    BY <1>3, <1>4, <2>1, ToolsApart, ThreadsSignal DEF signalVars
<1> QED
  BY <1>1, <1>2, <1>3, <1>4, ThreadsDie
     DEF Next, WatchPoll, Tools, Sweep, vars, signalVars

\* The inductive invariant of the threads.
THEOREM ThreadsTracked == ASSUME OwnJobs PROVE Spec => []ThreadInv
<1>1. TypeOK /\ ThreadInv /\ [Next]_vars => ThreadInv'
  BY StepThreads
<1> QED
  BY <1>1, InitThreads, RunnerTypes, PTL DEF Spec

\* is_running tells the truth as long as a thread lives (worker.py is_running,
\* request_cancel and the finally block of _run_job).
THEOREM RunningKnown == ASSUME OwnJobs PROVE Spec => []IsRunningTruthful
<1>1. ThreadInv => IsRunningTruthful
  BY DEF ThreadInv, Tracks, IsRunningTruthful
<1> QED
  BY <1>1, ThreadsTracked, PTL

\* No process runs more worker threads than max_concurrent: the threads of a
\* process are tracked under different jobs, and those are few.
THEOREM WorkersFew == ASSUME OwnJobs PROVE Spec => []CapacityKept
<1>1. ASSUME ThreadInv PROVE CapacityKept
  <2> SUFFICES ASSUME NEW p \in Proc
               PROVE  Cardinality({r \in Run : HomeOf[r] = p /\ pc[r] \in HasThread}) <= MaxConcurrent
    BY DEF CapacityKept
  <2> DEFINE R == {r \in Run : HomeOf[r] = p /\ pc[r] \in HasThread}
             f == [r \in R |-> JobOf[r]]
  <2>1. IsFiniteSet(Tracked(p)) /\ Cardinality(Tracked(p)) <= MaxConcurrent
    BY <1>1 DEF ThreadInv, TrackedFew
  <2>2. \A r \in R : JobOf[r] \in Tracked(p)
    BY <1>1, RunHomes, RunnerAssumption DEF ThreadInv, Tracks, Tracked
  <2>3. f \in Injection(R, Tracked(p))
    BY <2>2 DEF Injection, OwnJobs, IsInjective
  <2>4. IsFiniteSet(R) /\ Cardinality(R) <= Cardinality(Tracked(p))
    BY <2>1, <2>3, FS_Injection
  <2>5. Cardinality(R) \in Nat /\ Cardinality(Tracked(p)) \in Nat /\ MaxConcurrent \in Nat
    BY <2>1, <2>4, FS_CardinalityType, RunnerAssumption
  <2> QED
    BY <2>1, <2>4, <2>5
<1> QED
  BY <1>1, ThreadsTracked, PTL

LEMMA StepLate ==
    ASSUME TypeOK, StoppedSignalled, LateOnce, [Next]_vars PROVE LateOnce'
<1> SUFFICES ASSUME NEW r \in Run
             PROVE  /\ late'[r] <= 1
                    /\ r \notin stopped' \/ pc'[r] = "cleared" => late'[r] = 0
  BY DEF LateOnce
<1>0. /\ late[r] \in Nat /\ late[r] <= 1
      /\ r \notin stopped \/ pc[r] = "cleared" => late[r] = 0
  BY DEF LateOnce, TypeOK
<1>1. CASE UNCHANGED <<late, stopped, pc>>
  BY <1>0, <1>1
<1>2. ASSUME NEW q \in Run, UNCHANGED <<late, stopped>>, NEW place \in Place \ {"cleared"},
             Go(q, place)
      PROVE  /\ late'[r] <= 1
             /\ r \notin stopped' \/ pc'[r] = "cleared" => late'[r] = 0
  BY <1>0, <1>2 DEF Go, TypeOK
<1>3. ASSUME NEW q \in Run, Submit(q)
      PROVE  /\ late'[r] <= 1
             /\ r \notin stopped' \/ pc'[r] = "cleared" => late'[r] = 0
  <2>1. UNCHANGED <<late, stopped>> /\ \E place \in Place \ {"cleared"} : Go(q, place)
    BY <1>3 DEF Submit, SubmitCheck, SubmitCreate, SubmitRegister, StartThread, Place,
                verdictVars, signalVars
  <2> QED
    BY <1>2, <2>1
<1>4. ASSUME NEW q \in Run,
             EnterEngine(q) \/ StepCancelled(q) \/ StepEnd(q) \/ EngineReturns(q)
             \/ EngineRaises(q) \/ SettleResult(q) \/ SettleCrash(q) \/ Announce(q)
      PROVE  /\ late'[r] <= 1
             /\ r \notin stopped' \/ pc'[r] = "cleared" => late'[r] = 0
  <2>1. UNCHANGED <<late, stopped>> /\ \E place \in Place \ {"cleared"} : Go(q, place)
    BY <1>4 DEF EnterEngine, StepCancelled, StepEnd, EngineReturns, EngineRaises, SettleResult,
                SettleCrash, Announce, Place, verdictVars, signalVars
  <2> QED
    BY <1>2, <2>1
<1>5. ASSUME NEW q \in Run, StepCleared(q)
      PROVE  /\ late'[r] <= 1
             /\ r \notin stopped' \/ pc'[r] = "cleared" => late'[r] = 0
  <2>1. /\ UNCHANGED <<late, stopped>> /\ ~cancel[q]
        /\ pc' = [pc EXCEPT ![q] = "cleared"]
    BY <1>5 DEF StepCleared, MayStep, Go, verdictVars, signalVars
  <2>2. q \notin stopped
    BY <2>1 DEF StoppedSignalled
  <2> QED
    BY <1>0, <2>1, <2>2 DEF TypeOK
<1>6. ASSUME NEW q \in Run, StepBegin(q)
      PROVE  /\ late'[r] <= 1
             /\ r \notin stopped' \/ pc'[r] = "cleared" => late'[r] = 0
  <2>1. /\ pc[q] = "cleared" /\ pc' = [pc EXCEPT ![q] = "stepping"] /\ stopped' = stopped
        /\ late' = [late EXCEPT ![q] = IF q \in stopped THEN late[q] + 1 ELSE late[q]]
    BY <1>6 DEF StepBegin, At, Go, signalVars
  <2> QED
    BY <1>0, <2>1 DEF TypeOK
<1>7. ASSUME NEW R, Dropped(R), \A q \in Run \ R : pc'[q] = pc[q]
      PROVE  /\ late'[r] <= 1
             /\ r \notin stopped' \/ pc'[r] = "cleared" => late'[r] = 0
  BY <1>0, <1>7 DEF Dropped
<1>8. ASSUME NEW q \in Run, Finish(q)
      PROVE  /\ late'[r] <= 1
             /\ r \notin stopped' \/ pc'[r] = "cleared" => late'[r] = 0
  <2>1. Dropped({q}) /\ \A t \in Run \ {q} : pc'[t] = pc[t]
    BY <1>8 DEF Finish, Go, TypeOK
  <2> QED
    BY <1>7, <2>1
<1>9. ASSUME NEW p \in Proc, Die(p)
      PROVE  /\ late'[r] <= 1
             /\ r \notin stopped' \/ pc'[r] = "cleared" => late'[r] = 0
  <2> DEFINE R == {t \in Run : HomeOf[t] = p}
  <2>1. Dropped(R) /\ \A t \in Run \ R : pc'[t] = pc[t]
    BY <1>9 DEF Die
  <2> HIDE DEF R
  <2> QED
    BY <1>7, <2>1
<1>10. ASSUME NEW p \in Proc, Tools(p)
      PROVE  /\ late'[r] <= 1
             /\ r \notin stopped' \/ pc'[r] = "cleared" => late'[r] = 0
  <2>1. UNCHANGED <<late, pc>> /\ stopped \subseteq stopped'
    BY <1>10, ToolsApart DEF Tools, CancelPersist, CancelSignal, Report, Finalize, StatusJudges,
                             StatusFails, verdictVars, signalVars
  <2> QED
    BY <1>0, <2>1
<1> QED
  BY <1>1, <1>3, <1>4, <1>5, <1>6, <1>8, <1>9, <1>10
     DEF Next, Worker, WatchPoll, Tools, Sweep, vars, verdictVars, signalVars

\* Once loop_cancel has returned in the job's own process, its thread begins no
\* step but the one it may have been cleared for (request_cancel, run_step_block).
THEOREM CancelReaches == ASSUME OwnJobs PROVE Spec => []CancelStops
<1>1. Init => LateOnce
  BY DEF Init, LateOnce
<1>2. TypeOK /\ ThreadInv /\ LateOnce /\ [Next]_vars => LateOnce'
  BY StepLate DEF ThreadInv
<1>3. LateOnce => CancelStops
  BY DEF LateOnce, CancelStops
<1> QED
  BY <1>1, <1>2, <1>3, RunnerTypes, ThreadsTracked, PTL DEF Spec

-----------------------------------------------------------------------------
(* The row of a submission's own job *)

Early    == {"new", "checked", "refused"}
Underway == {"created", "registered", "started", "returned"} \union InEngine

\* The statuses of a row that no verdict has reached.
Alive == Active \union {"error"}

\* A verdict in the row of r: v, or that of somebody who came first.
Shown(r, v) == \/ row[JobOf[r]].status \in {v, "cancelled"}
               \/ row[JobOf[r]].status = "completed" /\ JobOf[r] \in reported

\* The row of a submission's job at each of its places: while it is under way
\* the row is its own, alive and watched, or cancelled, or completed by callers who
\* reported its steps; later it shows the verdict, or that which came first.
RowFits(r) ==
    LET j == JobOf[r] IN
    /\ pc[r] \in Early => row[j] = NoRow
    /\ pc[r] \notin Early \union {"dead"} => row[j] \in Row
    /\ pc[r] # "dead" => HomeOf[r] \in up
    /\ pc[r] \in Underway => row[j].status \in Alive \/ Shown(r, "cancelled")
    /\ pc[r] \in Underway \union {"raised"} /\ row[j].status \in Alive => row[j].owner = HomeOf[r]
    /\ pc[r] \in InEngine \union {"returned"} /\ row[j].status \in Alive => watch[r] = "on"
    /\ pc[r] = "raised" => row[j].status \in Alive \/ Shown(r, "failed")
    /\ pc[r] = "settled" /\ outcome[r] \in {"completed", "failed"} => Shown(r, outcome[r])
    /\ \A v \in {"completed", "failed"} : \A e \in EventOf(v) : <<r, e>> \in told =>
          /\ pc[r] \in {"told", "finished", "dead"}
          /\ row[j] \in Row /\ Shown(r, v)

\* Who completes a job has reported it; who fails one has judged it when no thread
\* of it was under way.
CallsFit ==
    \A p \in Proc :
        /\ tool[p].kind = "finalize" => tool[p].job \in reported
        /\ tool[p].kind = "fail" =>
              \A r \in Run : JobOf[r] = tool[p].job => pc[r] \notin Early \union Underway

RowsFit == CallsFit /\ \A r \in Run : RowFits(r)

LEMMA Events == EventOf("completed") = {"loop_completed"} /\ EventOf("failed") = {"loop_failed"}
                /\ EventOf("cancelled") = {}
BY DEF EventOf

LEMMA InitRows == Init => RowsFit
BY Events, RunHomes DEF Init, RowsFit, RowFits, CallsFit, NoTool, Early, Underway, InEngine

\* What RowFits(r) is about stays.
SameFor(r) ==
    /\ UNCHANGED <<pc[r], row[JobOf[r]], watch[r], outcome[r], up>>
    /\ \A e : <<r, e>> \in told' <=> <<r, e>> \in told
    /\ JobOf[r] \in reported' <=> JobOf[r] \in reported

LEMMA SameFits == ASSUME NEW r \in Run, RowFits(r), SameFor(r) PROVE RowFits(r)'
BY DEF RowFits, Shown, SameFor

\* The step of one submission leaves those of other jobs alone.
Own(q) == Submit(q) \/ Worker(q) \/ EngineRaises(q) \/ WatchPoll(q)

LEMMA OthersSame ==
    ASSUME OwnJobs, TypeOK, NEW r \in Run, NEW q \in Run \ {r}, Own(q)
    PROVE  SameFor(r)
<1> USE RunHomes
<1>0. JobOf[q] # JobOf[r]
  BY DEF OwnJobs
<1>1. CASE SubmitCheck(q) \/ SubmitCreate(q) \/ SubmitRegister(q) \/ StartThread(q)
  BY <1>0, <1>1 DEF SubmitCheck, SubmitCreate, SubmitRegister, StartThread, Go, SameFor, TypeOK,
                    serverVars, verdictVars
<1>2. CASE EnterEngine(q) \/ StepCleared(q) \/ StepBegin(q) \/ StepCancelled(q)
           \/ EngineReturns(q) \/ EngineRaises(q) \/ WatchPoll(q)
  BY <1>2 DEF EnterEngine, StepCleared, StepBegin, StepCancelled, EngineReturns, EngineRaises,
              WatchPoll, Go, SameFor, TypeOK, serverVars, verdictVars
<1>3. CASE StepEnd(q)
  <2>1. row'[JobOf[r]] = row[JobOf[r]]
    BY <1>0, <1>3 DEF StepEnd, TypeOK
  <2> QED
    BY <1>3, <2>1 DEF StepEnd, Go, SameFor, TypeOK, serverVars
<1>4. CASE SettleResult(q) \/ SettleCrash(q)
  <2>1. row'[JobOf[r]] = row[JobOf[r]]
    BY <1>0, <1>4 DEF SettleResult, SettleCrash, Persist, TypeOK
  <2> QED
    BY <1>4, <2>1 DEF SettleResult, SettleCrash, Go, SameFor, TypeOK, serverVars
<1>5. CASE Announce(q)
  BY <1>5 DEF Announce, Go, SameFor, TypeOK, serverVars
<1>6. CASE Finish(q)
  BY <1>6 DEF Finish, Dropped, Go, SameFor, TypeOK, serverVars
<1> QED
  BY <1>1, <1>2, <1>3, <1>4, <1>5, <1>6 DEF Own, Submit, Worker

\* submit creates the row; the engine starts with a watcher.
LEMMA SubmitFits ==
    ASSUME TypeOK, NEW r \in Run, RowFits(r), Submit(r) PROVE RowFits(r)'
<1> USE RunHomes
<1>1. CASE SubmitCreate(r)
  <2> DEFINE fresh == FreshRow("running", Total, HomeOf[r], FALSE)
  <2>1. /\ row[JobOf[r]] = NoRow
        /\ HomeOf[r] \in up
        /\ \A v \in {"completed", "failed"} : \A e \in EventOf(v) : <<r, e>> \notin told
    BY <1>1 DEF SubmitCreate, At, RowFits, Early
  <2>2. fresh \in Row /\ fresh.status = "running" /\ fresh.owner = HomeOf[r]
    BY RunnerAssumption, FreshRowIsRow DEF FreshRow
  <2>3. row'[JobOf[r]] = fresh
    BY <1>1, <2>1 DEF SubmitCreate, Upsert, TypeOK
  <2>4. pc'[r] = "created" /\ UNCHANGED <<up, told>>
    BY <1>1 DEF SubmitCreate, Go, TypeOK, serverVars, verdictVars
  <2> HIDE DEF fresh
  <2> QED
    BY <2>1, <2>2, <2>3, <2>4 DEF RowFits, Shown, Early, Underway, InEngine, Alive, Active
<1>2. CASE SubmitCheck(r) \/ SubmitRegister(r) \/ StartThread(r)
  <2>1. /\ UNCHANGED <<row, watch, outcome, up, told, reported>>
        /\ \/ pc[r] = "new" /\ pc'[r] \in {"checked", "refused"}
           \/ pc[r] = "created" /\ pc'[r] \in {"registered", "rejected"}
           \/ pc[r] = "registered" /\ pc'[r] = "started"
    BY <1>2 DEF SubmitCheck, SubmitRegister, StartThread, At, Go, TypeOK, serverVars, verdictVars
  <2> QED
    BY <2>1 DEF RowFits, Shown, Early, Underway, InEngine
<1> QED
  BY <1>1, <1>2 DEF Submit

LEMMA EngineFits ==
    ASSUME TypeOK, NEW r \in Run, RowFits(r),
           \/ EnterEngine(r) \/ StepCleared(r) \/ StepBegin(r) \/ StepCancelled(r)
           \/ EngineReturns(r) \/ EngineRaises(r) \/ WatchPoll(r)
    PROVE  RowFits(r)'
<1> USE RunHomes
<1>1. CASE EnterEngine(r)
  <2>1. /\ UNCHANGED <<row, outcome, up, told, reported>> /\ watch'[r] = "on"
        /\ pc[r] = "started" /\ pc'[r] = "between"
    BY <1>1 DEF EnterEngine, At, Go, TypeOK, serverVars, verdictVars
  <2> QED
    BY <2>1 DEF RowFits, Shown, Early, Underway, InEngine
<1>2. CASE \/ StepCleared(r) \/ StepBegin(r) \/ StepCancelled(r)
           \/ EngineReturns(r) \/ EngineRaises(r)
  <2>1. /\ UNCHANGED <<row, watch, outcome, up, told, reported>>
        /\ pc[r] \in {"started", "between", "cleared"}
        /\ \/ pc[r] \in {"between", "cleared"} /\ pc'[r] \in {"cleared", "stepping", "returned"}
           \/ pc'[r] = "raised"
    BY <1>2 DEF StepCleared, StepBegin, StepCancelled, EngineReturns, EngineRaises, At, Go, TypeOK,
                serverVars, verdictVars
  <2> QED
    BY <2>1 DEF RowFits, Shown, Early, Underway, InEngine
<1>3. CASE WatchPoll(r)
  <2>1. /\ UNCHANGED <<row, pc, outcome, up, told, reported>>
        /\ row[JobOf[r]] = NoRow \/ row[JobOf[r]].status \in Terminal
    BY <1>3 DEF WatchPoll, serverVars, verdictVars
  <2> QED
    BY <2>1, NoRowAssumption DEF RowFits, Shown, Early, Underway, InEngine, Terminal, Alive, Active
<1> QED
  BY <1>1, <1>2, <1>3

\* A recorded step leaves the row alive, with its owner.
LEMMA RecordedRow ==
    ASSUME TypeOK, NEW r \in Run, StepEnd(r)
    PROVE  LET j == JobOf[r]
           IN  IF RecordAllowed(row[j])
               THEN /\ row'[j] \in Row /\ row'[j].status = "in_progress"
                    /\ row'[j].owner = row[j].owner
               ELSE row'[j] = row[j]
<1> DEFINE j == JobOf[r]
<1>1. PICK s \in StepsLeft(r), ok \in BOOLEAN :
         row' = IF RecordAllowed(row[j])
                THEN [row EXCEPT ![j] = RecordMerge(@, WithResult(@, s, ok, FALSE))] ELSE row
  BY DEF StepEnd
<1>2. CASE RecordAllowed(row[j])
  <2>1. row[j] \in Row /\ s \in Step
    BY <1>2, RunHomes, RunnerAssumption DEF RecordAllowed, TypeOK, StepsLeft
  <2>2. /\ WithResult(row[j], s, ok, FALSE) \in Row
        /\ WithResult(row[j], s, ok, FALSE).status = "in_progress"
    BY <2>1, WithResultGoesOn
  <2>3. row'[j] = RecordMerge(row[j], WithResult(row[j], s, ok, FALSE))
    BY <1>1, <1>2, RunHomes DEF TypeOK
  <2>4. /\ row'[j] \in Row /\ row'[j].status = "in_progress"
        /\ row'[j].owner = row[j].owner
    <3> DEFINE new == WithResult(row[j], s, ok, FALSE)
    <3>1. new \in Row /\ new.status = "in_progress" /\ row'[j] = RecordMerge(row[j], new)
      BY <2>2, <2>3
    <3> HIDE DEF new
    <3>2. /\ RecordMerge(row[j], new) \in Row
          /\ RecordMerge(row[j], new).status = new.status
          /\ RecordMerge(row[j], new).owner = row[j].owner
      BY <2>1, <3>1, RecordMergeIsRow
    <3> QED
      BY <3>1, <3>2
  <2> QED
    BY <1>2, <2>4
<1>3. CASE ~RecordAllowed(row[j])
  BY <1>1, <1>3
<1> QED
  BY <1>2, <1>3

LEMMA StepEndFits ==
    ASSUME TypeOK, NEW r \in Run, RowFits(r), StepEnd(r) PROVE RowFits(r)'
<1>1. /\ UNCHANGED <<watch, outcome, up, told, reported>>
      /\ pc[r] = "stepping" /\ pc'[r] = "between"
  BY DEF StepEnd, At, Go, TypeOK, serverVars
<1>2. CASE RecordAllowed(row[JobOf[r]])
  <2>1. row[JobOf[r]].status \in Alive
    BY <1>1, <1>2 DEF RowFits, Shown, Underway, InEngine, RecordAllowed, Terminal
  <2>2. /\ row'[JobOf[r]] \in Row /\ row'[JobOf[r]].status = "in_progress"
        /\ row'[JobOf[r]].owner = row[JobOf[r]].owner
    BY <1>2, RecordedRow
  <2> QED
    BY <1>1, <2>1, <2>2 DEF RowFits, Early, Underway, InEngine, Alive, Active
<1>3. CASE ~RecordAllowed(row[JobOf[r]])
  <2>1. row'[JobOf[r]] = row[JobOf[r]]
    BY <1>3, RecordedRow
  <2> QED
    BY <1>1, <2>1 DEF RowFits, Shown, Early, Underway, InEngine
<1> QED
  BY <1>2, <1>3

\* update_job of a final status: the row takes it, or had a final one.
LEMMA PersistedRow ==
    ASSUME TypeOK, NEW r \in Run, row[JobOf[r]] \in Row, NEW c \in Call, Persist(JobOf[r], c),
           c.status \in {"completed", "cancelled", "failed"}
    PROVE  /\ row'[JobOf[r]] \in Row
           /\ row[JobOf[r]].status \notin Terminal => row'[JobOf[r]].status = c.status
           /\ row[JobOf[r]].status \in Terminal => row'[JobOf[r]].status = row[JobOf[r]].status
<1> DEFINE j == JobOf[r]
<1>1. /\ Updated(row[j], c) \in Row
      /\ Updated(row[j], c).status = c.status
  BY UpdatedIsRow DEF NewStatus
<1>2. UpdateAllowed(row[j], c.status) <=>
         row[j].status \notin Terminal \/ (row[j].status = "completed" /\ c.status = "completed")
  BY NoRowAssumption DEF UpdateAllowed
<1>3. row'[j] = IF UpdateAllowed(row[j], c.status) THEN Updated(row[j], c) ELSE row[j]
  BY RunHomes DEF Persist, TypeOK
<1> QED
  BY <1>1, <1>2, <1>3

LEMMA SettleFits ==
    ASSUME TypeOK, NEW r \in Run, RowFits(r), SettleResult(r) \/ SettleCrash(r) PROVE RowFits(r)'
<1>1. PICK st \in {"completed", "cancelled", "failed"}, given \in BOOLEAN,
           o \in Proc \union {NoPid}, completed \in BOOLEAN :
         /\ Persist(JobOf[r], WorkerCall(r, st, given, o, completed))
         /\ outcome' = [outcome EXCEPT ![r] = st]
         /\ pc[r] = "returned" \/ (pc[r] = "raised" /\ st # "completed")
  BY RunHomes DEF SettleResult, SettleCrash, CrashCall, At
<1> DEFINE c == WorkerCall(r, st, given, o, completed)
<1>2. c \in Call /\ c.status = st
  BY WorkerCalls DEF WorkerCall
<1>3. row[JobOf[r]] \in Row
  BY <1>1 DEF RowFits, Early
<1>4. /\ row'[JobOf[r]] \in Row
      /\ row[JobOf[r]].status \notin Terminal => row'[JobOf[r]].status = st
      /\ row[JobOf[r]].status \in Terminal => row'[JobOf[r]].status = row[JobOf[r]].status
  BY <1>1, <1>2, <1>3, PersistedRow
<1>5. row[JobOf[r]].status \in Alive \/ (IF pc[r] = "raised" THEN Shown(r, "failed")
                                                               ELSE Shown(r, "cancelled"))
  BY <1>1 DEF RowFits, Underway
<1>6. UNCHANGED <<up, told, reported>> /\ pc'[r] = "settled" /\ outcome'[r] = st
  BY <1>1 DEF SettleResult, SettleCrash, Go, TypeOK, serverVars
<1>7. st \in {"completed", "failed"} => Shown(r, st)'
  BY <1>1, <1>4, <1>5, <1>6 DEF Shown, Alive, Active, Terminal
<1> QED
  BY <1>1, <1>4, <1>6, <1>7 DEF RowFits, Early, Underway, InEngine

LEMMA AnnounceFits ==
    ASSUME TypeOK, VerdictKnown, NEW r \in Run, RowFits(r), Announce(r) \/ Finish(r)
    PROVE  RowFits(r)'
<1>1. CASE Announce(r)
  <2>1. /\ pc[r] = "settled" /\ pc'[r] = "told"
        /\ told' = told \union ({r} \X EventOf(outcome[r]))
        /\ UNCHANGED <<row, up, reported>>
        /\ outcome[r] \in {"completed", "cancelled", "failed"}
    BY <1>1 DEF Announce, At, Go, TypeOK, VerdictKnown, serverVars
  <2>2. \A v \in {"completed", "failed"} : \A e \in EventOf(v) : <<r, e>> \in told' =>
           <<r, e>> \in told \/ outcome[r] = v
    BY <2>1, Events
  <2> QED
    BY <2>1, <2>2 DEF RowFits, Shown, Early, Underway, InEngine
<1>2. CASE Finish(r)
  <2>1. /\ pc[r] = "told" /\ pc'[r] = "finished" /\ UNCHANGED <<row, up, told, reported>>
    BY <1>2 DEF Finish, At, Go, TypeOK, serverVars
  <2> QED
    BY <2>1 DEF RowFits, Shown, Early, Underway, InEngine
<1> QED
  BY <1>1, <1>2

\* The tools and the sweep, for the job of r.
LEMMA CancelFits ==
    ASSUME TypeOK, NEW r \in Run, RowFits(r), NEW p \in Proc, NEW j \in Job, CancelPersist(p, j)
    PROVE  RowFits(r)'
<1>1. UNCHANGED <<pc, watch, outcome, up, told, reported>>
  BY DEF CancelPersist, verdictVars
<1>2. CASE JobOf[r] # j \/ ~CancelAllowed(row[j])
  <2>1. row'[JobOf[r]] = row[JobOf[r]]
    BY <1>2, RunHomes DEF CancelPersist, CancelRow, TypeOK
  <2> QED
    BY <1>1, <2>1, SameFits DEF SameFor
<1>3. CASE JobOf[r] = j /\ CancelAllowed(row[j])
  <2>1. row[j] \in Row /\ row[j] # NoRow /\ row[j].status \notin {"completed", "failed", "cancelled"}
    BY <1>3 DEF CancelAllowed, TypeOK
  <2>2. row'[j] \in Row /\ row'[j].status = "cancelled"
    BY <1>3, <2>1 DEF CancelPersist, CancelRow, TypeOK, Row, Status, Terminal
  <2> QED
    BY <1>1, <1>3, <2>1, <2>2 DEF RowFits, Shown, Alive, Active
<1> QED
  BY <1>2, <1>3

\* A caller who reports a step of a job that goes on keeps it going, or ends it.
LEMMA ReportFits ==
    ASSUME TypeOK, NEW r \in Run, RowFits(r), NEW p \in Proc, NEW j \in Job,
           NEW s \in Step, NEW ok \in BOOLEAN, Report(p, j, s, ok)
    PROVE  RowFits(r)'
<1>1. UNCHANGED <<pc, watch, outcome, up, told>>
  BY DEF Report, verdictVars
<1>2. CASE JobOf[r] # j
  <2>1. row'[JobOf[r]] = row[JobOf[r]] /\ (JobOf[r] \in reported' <=> JobOf[r] \in reported)
    BY <1>2, RunHomes, ReportWrites
  <2> QED
    BY <1>1, <2>1, SameFits DEF SameFor
<1>3. CASE JobOf[r] = j /\ ~RecordAllowed(row[j])
  <2>1. row'[JobOf[r]] = row[JobOf[r]] /\ reported' = reported
    BY <1>3, ReportWrites
  <2> QED
    BY <1>1, <2>1, SameFits DEF SameFor
<1>4. CASE JobOf[r] = j /\ RecordAllowed(row[j])
  <2>1. /\ row[j] \in Row /\ row'[j] \in Row /\ row'[j].owner = row[j].owner
        /\ row'[j].status \in {"in_progress", "error", "completed"}
        /\ j \in reported'
    BY <1>4, ReportWrites
  <2>2. row[j].status \in Status \ Terminal
    BY <1>4, <2>1 DEF RecordAllowed, Row
  <2>3. row[j].status \in Alive /\ row[j].status \notin {"completed", "failed", "cancelled"}
    BY <2>2 DEF Status, Terminal, Alive
  <2>4. ~Shown(r, "completed") /\ ~Shown(r, "failed") /\ pc[r] \notin Early
    BY <1>4, <2>1, <2>3, NoRowAssumption DEF Shown, RowFits
  <2>5. row'[j].status \in Alive \/ \A v : Shown(r, v)'
    BY <1>4, <2>1 DEF Shown, Alive, Active
  <2> QED
    BY <1>1, <1>4, <2>1, <2>3, <2>4, <2>5 DEF RowFits
<1> QED
  BY <1>2, <1>3, <1>4

\* loop_status judges a job dead only when nothing of it is under way here.
LEMMA JudgedDead ==
    ASSUME TypeOK, NEW r \in Run, RowFits(r), NEW p \in Proc, StatusJudges(p, JobOf[r])
    PROVE  pc[r] \notin Early \union Underway
<1> DEFINE j == JobOf[r]
<1>1. /\ row[j] # NoRow /\ row[j].status \in {"running", "in_progress"}
      /\ OwnerDead(j, p) \/ Stale(j)
  BY DEF StatusJudges, Called
<1>2. ASSUME pc[r] \in Underway PROVE FALSE
  <2>1. HomeOf[r] \in up /\ row[j].owner = HomeOf[r]
    BY <1>1, <1>2 DEF RowFits, Underway, InEngine, Alive, Active
  <2>2. ~OwnerDead(j, p)
    BY <2>1 DEF OwnerDead
  <2>3. ~Stale(j)
    BY <1>1, <1>2 DEF Stale, RowFits, Underway, InEngine, Alive, Active
  <2> QED
    BY <1>1, <2>2, <2>3
<1> QED
  BY <1>1, <1>2 DEF RowFits

\* What a call completes had been reported; what it fails is not under way any more.
LEMMA VerdictFits ==
    ASSUME TypeOK, CallsFit, NEW r \in Run, RowFits(r), NEW p \in Proc,
           Finalize(p) \/ StatusFails(p)
    PROVE  /\ RowFits(r)'
           /\ StatusFails(p) /\ pc[r] \in Underway => row'[JobOf[r]] = row[JobOf[r]]
           /\ Finalize(p) =>
                 \/ row'[JobOf[r]] = row[JobOf[r]]
                 \/ /\ row'[JobOf[r]] \in Row /\ row'[JobOf[r]].status = "completed"
                    /\ JobOf[r] \in reported
<1> DEFINE j == tool[p].job
<1>1. PICK c \in {FinalizeCall, FailCall} :
         /\ Persist(j, c)
         /\ Finalize(p) => c = FinalizeCall /\ tool[p].kind = "finalize"
         /\ StatusFails(p) => c = FailCall /\ tool[p].kind = "fail"
  BY DEF Finalize, StatusFails, InTool, FinalizeCall, FailCall
<1>2. UNCHANGED <<pc, watch, outcome, up, told, reported>>
  BY DEF Finalize, StatusFails, verdictVars
<1>3. CASE row'[JobOf[r]] = row[JobOf[r]]
  BY <1>2, <1>3, SameFits DEF SameFor
<1>4. CASE row'[JobOf[r]] # row[JobOf[r]]
  <2>1. JobOf[r] = j /\ UpdateAllowed(row[j], c.status)
    BY <1>1, <1>4, RunHomes DEF Persist, TypeOK
  <2>2. c \in Call /\ c.status \in {"completed", "failed"} /\ row[j] \in Row
    <3>1. c \in Call /\ c.status \in {"completed", "failed"}
      BY <1>1, ToolCalls
    <3>2. row[j] \in Row
      BY <2>1, RunHomes DEF UpdateAllowed, TypeOK
    <3> QED
      BY <3>1, <3>2
  <2>3. /\ row'[j] \in Row
        /\ row[j].status \notin Terminal => row'[j].status = c.status
        /\ row[j].status \in Terminal => row'[j].status = row[j].status
    BY <1>1, <2>1, <2>2, PersistedRow
  <2>4. row[j].status \in Terminal => row[j].status = "completed" /\ c.status = "completed"
    BY <2>1 DEF UpdateAllowed
  <2>5. row'[j].status = c.status
    BY <2>3, <2>4
  <2>6. row[j].status \in Alive \union {"completed"}
    BY <2>2, <2>4 DEF Row, Status, Alive
  <2>7. CASE Finalize(p)
    <3>1. j \in reported /\ row'[j].status = "completed" /\ j \in reported'
      BY <1>1, <1>2, <2>5, <2>7 DEF CallsFit, FinalizeCall
    <3>2. \A v : Shown(r, v)'
      BY <2>1, <3>1 DEF Shown
    <3>3. pc[r] \notin Early
      BY <2>1, <2>2, NoRowAssumption DEF RowFits
    <3>4. row'[j].status \notin Alive
      BY <3>1 DEF Alive, Active
    <3>5. RowFits(r)'
      BY <1>2, <2>1, <2>3, <3>2, <3>3, <3>4 DEF RowFits
    <3> QED
      BY <2>1, <2>3, <3>1, <3>5, <2>7, <1>1 DEF FinalizeCall, FailCall
  <2>8. CASE StatusFails(p)
    <3>1. /\ pc[r] \notin Early \union Underway /\ row'[j].status = "failed"
      BY <1>1, <2>1, <2>5, <2>8 DEF CallsFit, FailCall
    <3>2. row[j].status \in Alive
      BY <1>1, <2>1, <2>4, <2>6, <2>8 DEF FailCall, Terminal
    <3>3. row[j].status \notin {"completed", "failed", "cancelled"}
      BY <3>2 DEF Alive, Active
    <3>4. Shown(r, "failed")' /\ ~Shown(r, "failed") /\ ~Shown(r, "completed")
      BY <2>1, <3>1, <3>3 DEF Shown
    <3>5. row'[j].status \notin Alive
      BY <3>1 DEF Alive, Active
    <3>6. RowFits(r)'
      BY <1>2, <2>1, <2>3, <3>1, <3>4, <3>5 DEF RowFits, Underway
    <3> QED
      BY <3>1, <3>6, <2>8, <1>1 DEF FinalizeCall, FailCall
  <2> QED
    BY <2>7, <2>8
<1> QED
  BY <1>3, <1>4

LEMMA SweepFits ==
    ASSUME TypeOK, NEW r \in Run, RowFits(r), Sweep
    PROVE  RowFits(r)' /\ (pc[r] \in Underway => row'[JobOf[r]] = row[JobOf[r]])
<1> DEFINE j == JobOf[r]
<1>1. /\ UNCHANGED <<pc, watch, outcome, up, told, reported>>
      /\ row'[j] = IF Orphan(row[j], up) THEN [row[j] EXCEPT !.status = "interrupted"] ELSE row[j]
  BY RunHomes DEF Sweep, serverVars, verdictVars
<1>2. CASE ~Orphan(row[j], up)
  BY <1>1, <1>2, SameFits DEF SameFor
<1>3. CASE Orphan(row[j], up)
  <2>1. /\ row[j] # NoRow /\ row[j] \in Row /\ row[j].status \in Active /\ row[j].owner \notin up
    BY <1>3, RunHomes DEF Orphan, TypeOK
  <2>2. pc[r] \notin Underway \union {"raised"}
    BY <2>1 DEF RowFits, Underway, InEngine, Alive
  <2>3. row'[j] \in Row
    BY <1>1, <1>3, <2>1 DEF Row, Status, Terminal
  <2>4. \A v \in {"completed", "failed"} : ~Shown(r, v)
    BY <2>1 DEF Active, Shown
  <2>5. UNCHANGED <<pc[r], watch[r], outcome[r], up, told>>
    BY <1>1
  <2> HIDE DEF j
  <2> QED
    BY <2>1, <2>2, <2>3, <2>4, <2>5 DEF RowFits, Underway, j
<1> QED
  BY <1>2, <1>3

LEMMA DieFits ==
    ASSUME TypeOK, NEW r \in Run, RowFits(r), NEW p \in Proc, Die(p)
    PROVE  RowFits(r)' /\ row' = row
<1>1. /\ UNCHANGED <<row, told, reported>> /\ up' = up \ {p}
      /\ pc'[r] = IF HomeOf[r] = p THEN "dead" ELSE pc[r]
      /\ HomeOf[r] # p => UNCHANGED <<watch[r], outcome[r]>>
  BY DEF Die, Dropped
<1>2. CASE HomeOf[r] = p
  BY <1>1, <1>2 DEF RowFits, Shown, Early, Underway, InEngine
<1>3. CASE HomeOf[r] # p
  BY <1>1, <1>3 DEF RowFits, Shown
<1> QED
  BY <1>1, <1>2, <1>3

LEMMA OwnFits ==
    ASSUME TypeOK, VerdictKnown, NEW r \in Run, RowFits(r), Own(r) PROVE RowFits(r)'
BY SubmitFits, EngineFits, StepEndFits, SettleFits, AnnounceFits DEF Own, Worker

\* The calls that are half made.
LEMMA StepCalls ==
    ASSUME OwnJobs, TypeOK, RowsFit, [Next]_vars PROVE CallsFit'
<1> SUFFICES ASSUME NEW p \in Proc
             PROVE  /\ tool'[p].kind = "finalize" => tool'[p].job \in reported'
                    /\ tool'[p].kind = "fail" =>
                          \A r \in Run : JobOf[r] = tool'[p].job => pc'[r] \notin Early \union Underway
  BY DEF CallsFit
<1>0. /\ tool[p].kind = "finalize" => tool[p].job \in reported
      /\ tool[p].kind = "fail" =>
            \A r \in Run : JobOf[r] = tool[p].job => pc[r] \notin Early \union Underway
  BY DEF RowsFit, CallsFit
<1>1. reported \subseteq reported'
  BY DEF Next, Submit, SubmitCheck, SubmitCreate, SubmitRegister, StartThread, Worker, EnterEngine,
         StepCleared, StepBegin, StepCancelled, StepEnd, EngineReturns, EngineRaises, SettleResult,
         SettleCrash, Announce, Finish, WatchPoll, CancelPersist, CancelSignal, Report, Finalize,
         StatusJudges, StatusFails, Die, Sweep, serverVars, vars
<1>2. ASSUME NEW r \in Run, pc[r] \notin Early \union Underway PROVE pc'[r] \notin Early \union Underway
  <2>1. ASSUME NEW q \in Run, NEW place, Go(q, place),
               pc[q] \in Early \union Underway \/ place \notin Early \union Underway
        PROVE  pc'[r] \notin Early \union Underway
    BY <1>2, <2>1 DEF Go, TypeOK
  <2>2. ASSUME NEW q \in Run, Submit(q) PROVE pc'[r] \notin Early \union Underway
    <3>1. \E place : Go(q, place) /\ pc[q] \in Early \union Underway
      BY <2>2 DEF Submit, SubmitCheck, SubmitCreate, SubmitRegister, StartThread, At, Early, Underway
    <3> QED
      BY <2>1, <3>1
  <2>3. ASSUME NEW q \in Run, EnterEngine(q) \/ StepCleared(q) \/ StepBegin(q) \/ StepCancelled(q)
                              \/ StepEnd(q) \/ EngineReturns(q) \/ EngineRaises(q) \/ SettleResult(q)
        PROVE  pc'[r] \notin Early \union Underway
    <3>1. \E place : Go(q, place) /\ pc[q] \in Underway
      BY <2>3 DEF EnterEngine, StepCleared, StepBegin, StepCancelled, StepEnd, EngineReturns,
                  EngineRaises, SettleResult, At, Underway, InEngine
    <3> QED
      BY <2>1, <3>1
  <2>4. ASSUME NEW q \in Run, SettleCrash(q) \/ Announce(q) \/ Finish(q)
        PROVE  pc'[r] \notin Early \union Underway
    <3>1. \E place \in {"settled", "told", "finished"} : Go(q, place)
      BY <2>4 DEF SettleCrash, Announce, Finish
    <3> QED
      BY <2>1, <3>1 DEF Early, Underway, InEngine
  <2>5. ASSUME NEW q \in Proc, Die(q) PROVE pc'[r] \notin Early \union Underway
    BY <1>2, <2>5 DEF Die, Early, Underway, InEngine
  <2>6. CASE UNCHANGED pc
    BY <1>2, <2>6
  <2>7. ASSUME NEW q \in Proc, Tools(q) PROVE UNCHANGED pc
    BY <2>7, ToolsApart
  <2> QED
    BY <2>2, <2>3, <2>4, <2>5, <2>6, <2>7 DEF Next, Worker, WatchPoll, Tools, Sweep, vars
<1>3. CASE tool'[p] = tool[p]
  BY <1>0, <1>1, <1>2, <1>3
<1>4. ASSUME NEW q \in Proc, Die(q) \/ Tools(q), tool'[p] # tool[p]
      PROVE  \/ tool'[p].kind \notin {"finalize", "fail"}
             \/ \E j \in Job, s \in Step, ok \in BOOLEAN :
                   /\ Report(p, j, s, ok) /\ RecordAllowed(row'[j])
                   /\ tool'[p] = [kind |-> "finalize", job |-> j]
             \/ \E j \in Job :
                   StatusJudges(p, j) /\ tool'[p] = [kind |-> "fail", job |-> j]
  <2>1. CASE Returns(q)
    BY <1>4, <2>1 DEF Returns, TypeOK, NoTool
  <2>2. ASSUME NEW j \in Job, CancelPersist(q, j) PROVE tool'[p].kind = "cancel"
    BY <1>4, <2>2 DEF CancelPersist, GoesOn, TypeOK
  <2>3. ASSUME NEW j \in Job, StatusJudges(q, j)
        PROVE  StatusJudges(p, j) /\ tool'[p] = [kind |-> "fail", job |-> j]
    BY <1>4, <2>3 DEF StatusJudges, GoesOn, TypeOK
  <2>4. ASSUME NEW j \in Job, NEW s \in Step, NEW ok \in BOOLEAN, Report(q, j, s, ok)
        PROVE  /\ Report(p, j, s, ok) /\ RecordAllowed(row'[j])
               /\ tool'[p] = [kind |-> "finalize", job |-> j]
    <3>1. RecordAllowed(row'[j]) /\ tool' = [tool EXCEPT ![q] = [kind |-> "finalize", job |-> j]]
      BY <1>4, <2>4 DEF Report, GoesOn
    <3>2. p = q
      BY <1>4, <3>1 DEF TypeOK
    <3> QED
      BY <2>4, <3>1, <3>2 DEF TypeOK
  <2>5. Die(q) \/ CancelSignal(q) \/ Finalize(q) \/ StatusFails(q) => Returns(q)
    BY DEF Die, CancelSignal, Finalize, StatusFails
  <2>6. CASE \E j \in Job : CancelPersist(q, j)
    BY <2>2, <2>6
  <2>7. CASE \E j \in Job : StatusJudges(q, j)
    BY <2>3, <2>7
  <2>8. CASE \E j \in Job, s \in Step, ok \in BOOLEAN : Report(q, j, s, ok)
    <3>1. PICK j \in Job, s \in Step, ok \in BOOLEAN : Report(q, j, s, ok)
      BY <2>8
    <3> QED
      BY <2>4, <3>1
  <2> QED
    BY <1>4, <2>1, <2>5, <2>6, <2>7, <2>8 DEF Tools
<1>5. ASSUME NEW j \in Job, NEW s \in Step, NEW ok \in BOOLEAN,
             Report(p, j, s, ok), RecordAllowed(row'[j])
      PROVE  j \in reported'
  <2>1. CASE RecordAllowed(row[j])
    BY <1>5, <2>1, ReportWrites
  <2>2. CASE ~RecordAllowed(row[j])
    BY <1>5, <2>2, ReportWrites
  <2> QED
    BY <2>1, <2>2
<1>6. ASSUME NEW j \in Job, StatusJudges(p, j), NEW r \in Run, JobOf[r] = j
      PROVE  pc[r] \notin Early \union Underway
  BY <1>6, JudgedDead DEF RowsFit
<1>7. ASSUME NEW q \in Proc, Die(q) \/ Tools(q), tool'[p] # tool[p]
      PROVE  /\ tool'[p].kind = "finalize" => tool'[p].job \in reported'
             /\ tool'[p].kind = "fail" =>
                   \A r \in Run : JobOf[r] = tool'[p].job => pc'[r] \notin Early \union Underway
  <2>1. CASE tool'[p].kind \notin {"finalize", "fail"}
    BY <2>1
  <2>2. ASSUME NEW j \in Job, NEW s \in Step, NEW ok \in BOOLEAN,
               Report(p, j, s, ok), RecordAllowed(row'[j]),
               tool'[p] = [kind |-> "finalize", job |-> j]
        PROVE  tool'[p].kind = "finalize" /\ tool'[p].job \in reported'
    BY <1>5, <2>2
  <2>3. ASSUME NEW j \in Job, StatusJudges(p, j), tool'[p] = [kind |-> "fail", job |-> j]
        PROVE  /\ tool'[p].kind = "fail"
               /\ \A r \in Run : JobOf[r] = tool'[p].job => pc'[r] \notin Early \union Underway
    BY <1>2, <1>6, <2>3
  <2> QED
    BY <1>4, <1>7, <2>1, <2>2, <2>3
<1>8. tool' = tool \/ \E q \in Proc : Die(q) \/ Tools(q)
  BY DEF Next, Submit, SubmitCheck, SubmitCreate, SubmitRegister, StartThread, Worker, EnterEngine,
         StepCleared, StepBegin, StepCancelled, StepEnd, EngineReturns, EngineRaises, SettleResult,
         SettleCrash, Announce, Finish, WatchPoll, Sweep, serverVars, vars, Tools
<1> QED
  BY <1>3, <1>7, <1>8

LEMMA StepRows ==
    ASSUME OwnJobs, TypeOK, VerdictKnown, RowsFit, [Next]_vars PROVE RowsFit'
<1> SUFFICES ASSUME NEW r \in Run PROVE RowFits(r)'
  BY StepCalls DEF RowsFit
<1>0. RowFits(r) /\ CallsFit
  BY DEF RowsFit
<1>1. ASSUME NEW q \in Run, Own(q) PROVE RowFits(r)'
  <2>1. CASE q = r
    BY <1>0, <1>1, <2>1, OwnFits
  <2>2. CASE q # r
    BY <1>0, <1>1, <2>2, OthersSame, SameFits
  <2> QED
    BY <2>1, <2>2
<1>2. ASSUME NEW p \in Proc, Tools(p) PROVE RowFits(r)'
  <2>1. ASSUME UNCHANGED <<row, up, pc, watch, outcome, told, reported>> PROVE RowFits(r)'
    BY <1>0, <2>1, SameFits DEF SameFor
  <2>2. CASE CancelSignal(p) \/ \E j \in Job : StatusJudges(p, j)
    BY <2>1, <2>2 DEF CancelSignal, StatusJudges, verdictVars
  <2> QED
    BY <1>0, <1>2, <2>2, CancelFits, ReportFits, VerdictFits DEF Tools
<1>3. ASSUME NEW p \in Proc, Die(p) PROVE RowFits(r)'
  BY <1>0, <1>3, DieFits
<1>4. CASE Sweep
  BY <1>0, <1>4, SweepFits
<1>5. CASE UNCHANGED vars
  BY <1>0, <1>5, SameFits DEF vars, SameFor
<1> QED
  BY <1>1, <1>2, <1>3, <1>4, <1>5 DEF Next, Own, Tools

\* Every submission finds its row as it should be, at each of its places.
THEOREM RowsAlwaysFit == ASSUME OwnJobs PROVE Spec => []RowsFit
<1>1. TypeOK /\ VerdictKnown /\ RowsFit /\ [Next]_vars => RowsFit'
  BY StepRows
<1> QED
  BY <1>1, InitRows, RunnerTypes, PTL DEF Spec

\* What a notification has announced stays what the row says, unless the job
\* was cancelled or callers reported its steps (worker.py _finalize_result,
\* _finalize_crash).
THEOREM VerdictAnnounced == ASSUME OwnJobs PROVE Spec => []AnnouncedVerdict
<1>1. RowsFit => AnnouncedVerdict
  BY Events DEF RowsFit, RowFits, Shown, AnnouncedVerdict
<1> QED
  BY <1>1, RowsAlwaysFit, PTL

\* While the engine runs, only loop_cancel and callers that report its steps end its
\* job: no loop_status and no startup sweep of another server, no finalizer of another
\* job.
THEOREM VerdictIsEngines == ASSUME OwnJobs PROVE Spec => EngineOwnsVerdict
<1> DEFINE Fine(j) == /\ row'[j] # NoRow
                      /\ \/ row'[j].status \in {"in_progress", "cancelled"}
                         \/ row'[j].status \in {"completed", "error"} /\ j \in reported'
<1>1. ASSUME TypeOK, VerdictKnown, RowsFit, [Next]_vars, NEW r \in Run,
             pc[r] \in InEngine, Open(JobOf[r]), row'[JobOf[r]] # row[JobOf[r]]
      PROVE  Fine(JobOf[r])
  <2>0. RowFits(r) /\ pc[r] \in Underway /\ CallsFit
    BY <1>1 DEF RowsFit, Underway
  <2>1. ASSUME NEW q \in Run, Own(q) PROVE StepEnd(r)
    <3>1. q = r
      BY <1>1, <2>1, OthersSame DEF SameFor
    <3>2. ~Submit(r)
      BY <1>1 DEF Submit, SubmitCheck, SubmitCreate, SubmitRegister, StartThread, At, InEngine
    <3> QED
      BY <1>1, <2>1, <3>1, <3>2
         DEF Own, Worker, EnterEngine, StepCleared, StepBegin, StepCancelled, EngineReturns,
             EngineRaises, SettleResult, SettleCrash, Announce, Finish, WatchPoll, At, InEngine
  <2>2. CASE StepEnd(r)
    <3>1. /\ row'[JobOf[r]] \in Row /\ row'[JobOf[r]].status = "in_progress"
      BY <1>1, <2>2, RecordedRow
    <3> QED
      BY <3>1, NoRowAssumption
  <2>3. ASSUME NEW p \in Proc, NEW j \in Job, CancelPersist(p, j) PROVE Fine(JobOf[r])
    <3>1. JobOf[r] = j /\ CancelAllowed(row[j]) /\ row'[j] = [row[j] EXCEPT !.status = "cancelled"]
      BY <1>1, <2>3, RunHomes DEF CancelPersist, CancelRow, TypeOK
    <3>2. row[j] \in Row
      BY <1>1, <3>1 DEF Open, TypeOK
    <3>3. row'[j] \in Row /\ row'[j].status = "cancelled"
      BY <3>1, <3>2 DEF Row, Status, Terminal
    <3> QED
      BY <3>1, <3>3, NoRowAssumption
  <2>4. ASSUME NEW p \in Proc, NEW j \in Job, NEW s \in Step, NEW ok \in BOOLEAN, Report(p, j, s, ok)
        PROVE  Fine(JobOf[r])
    <3>1. JobOf[r] = j /\ RecordAllowed(row[j])
      BY <1>1, <2>4, RunHomes, ReportWrites
    <3>2. /\ row'[j] \in Row /\ row'[j].status \in {"in_progress", "error", "completed"}
          /\ j \in reported'
      BY <1>1, <2>4, <3>1, ReportWrites
    <3> QED
      BY <3>1, <3>2, NoRowAssumption
  <2>5. ASSUME NEW p \in Proc, Finalize(p) \/ StatusFails(p) PROVE Fine(JobOf[r])
    <3>1. ~StatusFails(p)
      BY <1>1, <2>0, <2>5, VerdictFits
    <3>2. /\ row'[JobOf[r]] \in Row /\ row'[JobOf[r]].status = "completed"
          /\ JobOf[r] \in reported
      BY <1>1, <2>0, <2>5, <3>1, VerdictFits
    <3>3. reported' = reported
      BY <2>5 DEF Finalize, StatusFails
    <3> QED
      BY <3>2, <3>3, NoRowAssumption
  <2>6. CASE Sweep
    BY <1>1, <2>0, <2>6, SweepFits
  <2>7. ASSUME NEW p \in Proc, Die(p) \/ CancelSignal(p) \/ \E j \in Job : StatusJudges(p, j)
        PROVE  FALSE
    BY <1>1, <2>7 DEF Die, CancelSignal, StatusJudges
  <2>8. CASE UNCHANGED vars
    BY <1>1, <2>8 DEF vars
  <2> HIDE DEF Fine
  <2> QED
    BY <1>1, <2>1, <2>2, <2>3, <2>4, <2>5, <2>6, <2>7, <2>8 DEF Next, Own
<1> DEFINE Kept == \A r \in Run : LET j == JobOf[r] IN
              (pc[r] \in InEngine /\ Open(j) /\ row'[j] # row[j])
              => /\ row'[j] # NoRow
                 /\ \/ row'[j].status \in {"in_progress", "cancelled"}
                    \/ row'[j].status \in {"completed", "error"} /\ j \in reported'
<1>2. TypeOK /\ VerdictKnown /\ RowsFit /\ [Next]_vars => [Kept]_vars
  BY <1>1
<1> QED
  BY <1>2, RunnerTypes, RowsAlwaysFit, PTL DEF Spec, EngineOwnsVerdict

-----------------------------------------------------------------------------
(* The detached runner implements JobLifecycle *)

LifeOf(r) == IF r = NoRow THEN "absent" ELSE r.status

\* The moves of the abstract table that change one status.
MayFollow(a, b) ==
    \/ a = b
    \/ a \in Lifecycle!Final \union {"absent"} /\ b \in {"ready", "running"}
    \/ a \in Lifecycle!Going /\ b \in Lifecycle!Going
    \/ a \in Lifecycle!Going /\ b \in {"completed", "failed", "cancelled"}
    \/ a = "interrupted" /\ b = "cancelled"

\* A step that may have changed the row of job j, and of no other job.
OneRow(j) == /\ \A i \in Job \ {j} : row'[i] = row[i]
             /\ MayFollow(LifeOf(row[j]), LifeOf(row'[j]))

LEMMA OneRowLife ==
    ASSUME TypeOK, TypeOK', NEW j \in Job, OneRow(j)
    PROVE  [Lifecycle!Next]_([i \in Job |-> LifeOf(row[i])])
<1> DEFINE a == [i \in Job |-> LifeOf(row[i])]
           b == [i \in Job |-> LifeOf(row'[i])]
<1>1. b = [a EXCEPT ![j] = LifeOf(row'[j])]
  BY DEF OneRow
<1>2. QED
  BY <1>1 DEF OneRow, MayFollow, LifeOf, Lifecycle!Next, Lifecycle!Start,
     Lifecycle!Advance, Lifecycle!Finish, Lifecycle!Cancel, Lifecycle!Becomes

\* update_job with a verdict ends a job that goes on, and leaves an ended one.
LEMMA PersistLife ==
    ASSUME TypeOK, NEW j \in Job, NEW c \in Call, Persist(j, c),
           c.status \in {"completed", "cancelled", "failed"}
    PROVE  OneRow(j)
<1>1. /\ row[j] \in Row \union {NoRow}
      /\ \A i \in Job \ {j} : row'[i] = row[i]
      /\ row'[j] = IF UpdateAllowed(row[j], c.status) THEN Updated(row[j], c) ELSE row[j]
  BY DEF TypeOK, Persist
<1>2. CASE UpdateAllowed(row[j], c.status)
  <2>1. row[j] \in Row /\ row[j].status \in Status
    BY <1>1, <1>2 DEF UpdateAllowed, Row
  <2>2. Updated(row[j], c) \in Row /\ Updated(row[j], c).status = c.status
    BY <2>1, UpdatedIsRow DEF NewStatus
  <2>3. LifeOf(row[j]) = row[j].status /\ LifeOf(row'[j]) = c.status
    BY <1>1, <1>2, <2>1, <2>2, NoRowAssumption DEF LifeOf
  <2> QED
    BY <1>1, <1>2, <2>1, <2>3
    DEF OneRow, MayFollow, UpdateAllowed, Status, Terminal, Active, Lifecycle!Going
<1>3. CASE ~UpdateAllowed(row[j], c.status)
  BY <1>1, <1>3 DEF OneRow, MayFollow
<1> QED
  BY <1>2, <1>3

\* A submission takes a job id that is free, or whose last run is over.
LEMMA CreateLife ==
    ASSUME TypeOK, NEW r \in Run, SubmitCreate(r) PROVE OneRow(JobOf[r])
<1> DEFINE j == JobOf[r]
           fresh == FreshRow("running", Total, HomeOf[r], FALSE)
<1>1. fresh \in Row /\ fresh.status = "running"
  BY RunnerAssumption, RunHomes, FreshRowIsRow DEF FreshRow
<1>2. row' = [row EXCEPT ![j] = Upsert(@, fresh)]
  BY DEF SubmitCreate
<1> HIDE DEF fresh
<1>3. /\ row'[j] = Upsert(row[j], fresh) /\ row[j] \in Row \union {NoRow}
      /\ \A i \in Job \ {j} : row'[i] = row[i]
  BY <1>2, RunHomes DEF TypeOK
<1> HIDE DEF j
<1> QED
  BY <1>1, <1>3, NoRowAssumption
  DEF j, OneRow, Upsert, MayFollow, LifeOf, Terminal, Lifecycle!Final

\* A step result keeps a job that goes on going, and is dropped by an ended one.
LEMMA StepLife ==
    ASSUME TypeOK, NEW r \in Run, StepEnd(r) PROVE OneRow(JobOf[r])
<1> DEFINE j == JobOf[r]
<1>1. \A i \in Job \ {j} : row'[i] = row[i]
  BY RunHomes DEF StepEnd, TypeOK
<1>2. row[j] \in Row \union {NoRow}
  BY RunHomes DEF TypeOK
<1>3. CASE RecordAllowed(row[j])
  <2>1. row[j] \in Row /\ row[j].status \in Status
    BY <1>2, <1>3 DEF RecordAllowed, Row
  <2>2. row'[j] \in Row /\ row'[j].status = "in_progress"
    BY <1>3, RecordedRow
  <2>3. LifeOf(row[j]) = row[j].status /\ LifeOf(row'[j]) = "in_progress"
    BY <2>1, <2>2, NoRowAssumption DEF LifeOf
  <2> QED
    BY <1>1, <1>3, <2>1, <2>3
    DEF OneRow, MayFollow, RecordAllowed, Status, Terminal, Active, Lifecycle!Going
<1>4. CASE ~RecordAllowed(row[j])
  <2>1. row'[j] = row[j]
    BY <1>4, RecordedRow
  <2> QED
    BY <1>1, <2>1 DEF OneRow, MayFollow
<1> QED
  BY <1>3, <1>4

\* A reported result keeps a job going or completes it, and is dropped by an ended one.
LEMMA ReportLife ==
    ASSUME TypeOK, NEW p \in Proc, NEW j \in Job, NEW s \in Step, NEW ok \in BOOLEAN,
           Report(p, j, s, ok)
    PROVE  OneRow(j)
<1>1. /\ row[j] \in Row
      /\ \A i \in Job \ {j} : row'[i] = row[i]
  BY ReportWrites
<1>2. CASE RecordAllowed(row[j])
  <2>1. row'[j] \in Row /\ row'[j].status \in {"in_progress", "error", "completed"}
    BY <1>2, ReportWrites
  <2>2. row[j].status \in Status \ Terminal
    BY <1>1, <1>2 DEF RecordAllowed, Row
  <2>3. LifeOf(row[j]) = row[j].status /\ LifeOf(row'[j]) = row'[j].status
    BY <1>1, <2>1, NoRowAssumption DEF LifeOf
  <2> QED
    BY <1>1, <2>1, <2>2, <2>3
    DEF OneRow, MayFollow, Status, Terminal, Active, Lifecycle!Going
<1>3. CASE ~RecordAllowed(row[j])
  BY <1>1, <1>3, ReportWrites DEF OneRow, MayFollow
<1> QED
  BY <1>2, <1>3

\* loop_cancel ends a job that goes on, and an interrupted one.
LEMMA CancelLife ==
    ASSUME TypeOK, NEW p \in Proc, NEW j \in Job, CancelPersist(p, j) PROVE OneRow(j)
<1>1. /\ row[j] \in Row /\ row'[j] = CancelRow(row[j])
      /\ \A i \in Job \ {j} : row'[i] = row[i]
  BY DEF CancelPersist, Called, TypeOK
<1>2. CASE CancelAllowed(row[j])
  <2>1. row'[j] \in Row /\ row'[j].status = "cancelled" /\ row[j].status \in Status
    BY <1>1, <1>2 DEF CancelRow, Row, Status, Terminal
  <2>2. LifeOf(row[j]) = row[j].status /\ LifeOf(row'[j]) = "cancelled"
    BY <1>1, <2>1, NoRowAssumption DEF LifeOf
  <2> QED
    BY <1>1, <1>2, <2>1, <2>2
    DEF OneRow, MayFollow, CancelAllowed, Status, Terminal, Active, Lifecycle!Going
<1>3. CASE ~CancelAllowed(row[j])
  BY <1>1, <1>3 DEF CancelRow, OneRow, MayFollow
<1> QED
  BY <1>2, <1>3

\* The startup sweep writes off any number of jobs at once.
LEMMA SweepLife ==
    ASSUME TypeOK, Sweep PROVE [Lifecycle!Next]_([i \in Job |-> LifeOf(row[i])])
<1> DEFINE J == { j \in Job : Orphan(row[j], up) }
           a == [i \in Job |-> LifeOf(row[i])]
           b == [i \in Job |-> LifeOf(row'[i])]
<1>1. \A j \in J : LifeOf(row[j]) # "absent" /\ LifeOf(row'[j]) = "interrupted"
  <2> SUFFICES ASSUME NEW j \in Job, Orphan(row[j], up)
               PROVE  LifeOf(row[j]) # "absent" /\ LifeOf(row'[j]) = "interrupted"
    OBVIOUS
  <2>1. row[j] # NoRow /\ row[j] \in Row /\ row[j].status \in Active
    BY DEF Orphan, TypeOK
  <2>2. row'[j] = [row[j] EXCEPT !.status = "interrupted"]
    BY DEF Sweep
  <2>3. row'[j] \in Row /\ row'[j].status = "interrupted"
    BY <2>1, <2>2 DEF Row, Status, Terminal
  <2> QED
    BY <2>1, <2>3, NoRowAssumption DEF LifeOf, Active
<1>2. \A j \in Job \ J : row'[j] = row[j]
  BY DEF Sweep
<1>3. /\ J \in SUBSET Job
      /\ \A j \in J : a[j] # "absent"
      /\ b = [j \in Job |-> IF j \in J THEN "interrupted" ELSE a[j]]
  BY <1>1, <1>2
<1> HIDE DEF J
<1>4. \E K \in SUBSET Job :
         /\ \A j \in K : a[j] # "absent"
         /\ b = [j \in Job |-> IF j \in K THEN "interrupted" ELSE a[j]]
  BY <1>3
<1>5. Lifecycle!Next
  BY <1>4 DEF LifeOf, Lifecycle!Next, Lifecycle!Reap
<1> QED
  BY <1>5

LEMMA StepLifecycle ==
    ASSUME TypeOK, TypeOK', [Next]_vars
    PROVE  [Lifecycle!Next]_([i \in Job |-> LifeOf(row[i])])
<1>1. ASSUME NEW r \in Run, SettleResult(r) PROVE OneRow(JobOf[r])
  <2> DEFINE verdict == IF Failed(done[r]) = {} THEN "completed"
                        ELSE IF cancel[r] THEN "cancelled" ELSE "failed"
             c == WorkerCall(r, verdict, TRUE, HomeOf[r], verdict # "cancelled")
  <2>1. Persist(JobOf[r], c) /\ verdict \in {"completed", "cancelled", "failed"}
    BY <1>1 DEF SettleResult
  <2> HIDE DEF verdict
  <2>2. c \in Call /\ c.status = verdict
    BY <2>1, WorkerCalls, RunHomes DEF WorkerCall
  <2> HIDE DEF c
  <2> QED
    BY <2>1, <2>2, PersistLife, RunHomes
<1>2. ASSUME NEW r \in Run, SettleCrash(r) PROVE OneRow(JobOf[r])
  <2> DEFINE verdict == IF cancel[r] THEN "cancelled" ELSE "failed"
             c == WorkerCall(r, verdict, FALSE, NoPid, TRUE)
  <2>1. Persist(JobOf[r], c) /\ verdict \in {"completed", "cancelled", "failed"}
    BY <1>2 DEF SettleCrash, CrashCall
  <2> HIDE DEF verdict
  <2>2. c \in Call /\ c.status = verdict
    BY <2>1, WorkerCalls DEF WorkerCall
  <2> HIDE DEF c
  <2> QED
    BY <2>1, <2>2, PersistLife, RunHomes
<1>3. ASSUME NEW p \in Proc, Finalize(p) \/ StatusFails(p)
      PROVE  [Lifecycle!Next]_([i \in Job |-> LifeOf(row[i])])
  <2> DEFINE j == tool[p].job
  <2>1. PICK c \in {FinalizeCall, FailCall} : Persist(j, c)
    BY <1>3 DEF Finalize, StatusFails
  <2>2. c \in Call /\ c.status \in {"completed", "failed"}
    BY <2>1, ToolCalls
  <2>3. j \in Job
    BY <1>3, InToolJob DEF Finalize, StatusFails
  <2> HIDE DEF j
  <2>4. OneRow(j)
    BY <2>1, <2>2, <2>3, PersistLife
  <2> QED
    BY <2>3, <2>4, OneRowLife
<1>4. ASSUME NEW r \in Run, Submit(r)
      PROVE  OneRow(JobOf[r]) \/ UNCHANGED row
  BY <1>4, CreateLife DEF Submit, SubmitCheck, SubmitRegister, StartThread
<1>5. ASSUME NEW r \in Run, Worker(r)
      PROVE  OneRow(JobOf[r]) \/ UNCHANGED row
  BY <1>1, <1>2, <1>5, StepLife
  DEF Worker, EnterEngine, StepCleared, StepBegin, StepCancelled, EngineReturns, Announce, Finish
<1>6. CASE UNCHANGED row
  BY <1>6
<1>7. ASSUME NEW r \in Run, Submit(r) \/ Worker(r)
      PROVE  [Lifecycle!Next]_([i \in Job |-> LifeOf(row[i])])
  BY <1>4, <1>5, <1>6, <1>7, OneRowLife, RunHomes
<1>8. ASSUME NEW p \in Proc, NEW j \in Job,
             \/ CancelPersist(p, j)
             \/ \E s \in Step, ok \in BOOLEAN : Report(p, j, s, ok)
      PROVE  [Lifecycle!Next]_([i \in Job |-> LifeOf(row[i])])
  BY <1>8, CancelLife, ReportLife, OneRowLife
<1>9. ASSUME NEW r \in Run, EngineRaises(r) \/ WatchPoll(r) PROVE UNCHANGED row
  BY <1>9 DEF EngineRaises, WatchPoll
<1>10. ASSUME NEW p \in Proc, CancelSignal(p) \/ Die(p) \/ \E j \in Job : StatusJudges(p, j)
       PROVE  UNCHANGED row
  BY <1>10 DEF CancelSignal, Die, StatusJudges
<1> QED
  BY <1>3, <1>6, <1>7, <1>8, <1>9, <1>10, SweepLife DEF Next, vars

\* Whatever submissions share a job id, whichever processes exit: workers, cancels, step
\* reports, loop_status and the sweep take a job only through statuses that the abstract
\* table allows (ImplementsLifecycle).
THEOREM RunnerRefines == Spec => ImplementsLifecycle
<1>1. Init => Lifecycle!Init
  BY DEF Init, Lifecycle!Init
<1>2. TypeOK /\ TypeOK' /\ [Next]_vars
        => [Lifecycle!Next]_([j \in Job |-> IF row[j] = NoRow THEN "absent"
                                           ELSE row[j].status])
  BY StepLifecycle DEF LifeOf
<1> QED
  BY <1>1, <1>2, RunnerTypes, PTL DEF Spec, ImplementsLifecycle, Lifecycle!Spec
=============================================================================
