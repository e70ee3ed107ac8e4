----------------------------- MODULE JobStore -----------------------------
(***************************************************************************)
(* The shared jobs table under several server processes.                   *)
(*                                                                         *)
(* Every process opens the same SQLite file through one JobStore object,   *)
(* whose RLock serialises the threads of that process only.  A single SQL  *)
(* statement is atomic for everybody, but update_job, record_step_result,  *)
(* cancel_job and the startup sweep are a SELECT followed by an UPDATE: no *)
(* transaction is open in between, so another process can commit there.    *)
(* Each of them is therefore two actions, ...Read (lock taken, row read)   *)
(* and ...Write (UPDATE committed, lock released).                         *)
(***************************************************************************)
EXTENDS JobTable

CONSTANTS
    Job,        \* job ids
    Thread,     \* threads that call the store
    Home,       \* the process of each thread
    Totals,     \* bound: the values of total_steps that are tried
    Free        \* the lock of a process is not held

ASSUME StoreAssumption ==
    /\ Home \in [Thread -> Proc]
    /\ Totals \subseteq Nat
    /\ Free \notin Thread

VARIABLES
    row,        \* row[j]: the committed row of job j, or NoRow
    txn,        \* txn[t]: the operation thread t is between read and write of
    lock,       \* lock[p]: the thread that holds JobStore._lock in process p
    proc        \* proc[p]: life of the process p

vars == <<row, txn, lock, proc>>

Table == [Job -> Row \union {NoRow}]

Op  == {"idle", "update", "record", "cancel", "sweep"}

\* jobs: the rows the pending UPDATE names; rows: what it will write there
\* (update, record) or what the SELECT returned (sweep)
Txn == [op : Op, jobs : SUBSET Job, rows : Table]

Nowhere == [j \in Job |-> NoRow]
Idle    == [op |-> "idle", jobs |-> {}, rows |-> Nowhere]

\* "unborn": the process has not been started; a pid is never used twice
Life == {"unborn", "booting", "up", "dead"}

Alive == { p \in Proc : proc[p] \in {"booting", "up"} }

TypeOK ==
    /\ row  \in Table
    /\ txn  \in [Thread -> Txn]
    /\ lock \in [Proc -> Thread \union {Free}]
    /\ proc \in [Proc -> Life]

Init ==
    /\ row  = Nowhere
    /\ txn  = [t \in Thread |-> Idle]
    /\ lock = [p \in Proc |-> Free]
    /\ proc \in [Proc -> {"unborn", "up"}]

-----------------------------------------------------------------------------
(* The lock *)

\* Mutant: the lock is not waited for.
EnterAnyway(t) == Home[t] \in Proc

\* `with self._lock`: wait until no other thread of the process is inside.
CanEnter(t) == lock[Home[t]] = Free

Calls(t) == proc[Home[t]] = "up" /\ txn[t] = Idle /\ CanEnter(t)

\* Take the lock and go on with the UPDATE x later.
Begin(t, x) ==
    /\ lock' = [lock EXCEPT ![Home[t]] = t]
    /\ txn'  = [txn EXCEPT ![t] = x]

\* Commit and release.
End(t) ==
    /\ lock' = [lock EXCEPT ![Home[t]] = Free]
    /\ txn'  = [txn EXCEPT ![t] = Idle]

Pending(op, j, new) ==
    [op |-> op, jobs |-> {j}, rows |-> [Nowhere EXCEPT ![j] = new]]

-----------------------------------------------------------------------------
(* Operations of one statement *)

\* The rows create_job is called for: DetachedRunner.submit and the Python
\* DSL branch of loop_run, an agent-mode job, and loop_get.
Fresh(p) ==
    UNION { { FreshRow("running", n, p, FALSE),
              FreshRow("ready", n, p, TRUE),
              FreshRow("ready", n, NoPid, FALSE) } : n \in Totals }

CreateJob(t, j) ==
    /\ Calls(t)
    /\ \E fresh \in Fresh(Home[t]) :
           row' = [row EXCEPT ![j] = Upsert(row[j], fresh)]
    /\ UNCHANGED <<txn, lock, proc>>

DeleteJob(t, j) ==
    /\ Calls(t)
    /\ row' = [row EXCEPT ![j] = NoRow]
    /\ UNCHANGED <<txn, lock, proc>>

-----------------------------------------------------------------------------
(* update_job *)

\* A call that gives only a status, as human_input._set_status does.
Sets(status, completed) ==
    [status |-> status, given |-> FALSE, results |-> Empty,
     metrics |-> FALSE, owner |-> NoPid, completed |-> completed]

\* A call that also replaces the metrics, and the results when given.
Finishes(status, given, res, owner, completed) ==
    [status |-> status, given |-> given, results |-> res,
     metrics |-> TRUE, owner |-> owner, completed |-> completed]

\* Every call of update_job in the repository, made by a thread of p.
UpdateCalls(p) ==
    { Sets("keep", FALSE),                              \* legacy _on_step
      Sets("waiting_input", FALSE), Sets("in_progress", FALSE),
      Sets("failed", TRUE),                             \* loop_status
      Sets("completed", TRUE),                          \* loop_record finalize
      Finishes("cancelled", FALSE, Empty, NoPid, TRUE), \* _finalize_crash
      Finishes("failed", FALSE, Empty, NoPid, TRUE) }
    \union
    UNION { { Finishes("completed", TRUE, res, p, TRUE),   \* _finalize_result
              Finishes("cancelled", TRUE, res, p, FALSE),
              Finishes("failed", TRUE, res, p, TRUE),
              Finishes("completed", TRUE, res, NoPid, TRUE),
              Finishes("failed", TRUE, res, NoPid, TRUE) }  \* legacy loop_run
            : res \in Results }

UpdateRead(t, j) ==
    /\ Calls(t)
    /\ \E c \in UpdateCalls(Home[t]) :
           /\ UpdateAllowed(row[j], c.status)
           /\ Begin(t, Pending("update", j, Updated(row[j], c)))
    /\ UNCHANGED <<row, proc>>

\* Mutant: UPDATE without the terminal guard in its WHERE clause.
UpdateRowUnguarded(r, new) == IF r # NoRow THEN new ELSE r

\* The UPDATE writes every column of the copy that was read, stale or not.
UpdateRow(r, new) == IF UpdateAllowed(r, new.status) THEN new ELSE r

UpdateWrite(t) ==
    /\ txn[t].op = "update"
    /\ row' = [j \in Job |-> IF j \in txn[t].jobs
                             THEN UpdateRow(row[j], txn[t].rows[j])
                             ELSE row[j]]
    /\ End(t)
    /\ UNCHANGED proc

-----------------------------------------------------------------------------
(* record_step_result *)

RecordRead(t, j) ==
    /\ Calls(t)
    /\ RecordAllowed(row[j])
    /\ \E s \in Step, ok \in BOOLEAN, auto \in BOOLEAN :
           Begin(t, Pending("record", j, WithResult(row[j], s, ok, auto)))
    /\ UNCHANGED <<row, proc>>

RecordRow(r, new) == IF RecordAllowed(r) THEN RecordMerge(r, new) ELSE r

RecordWrite(t) ==
    /\ txn[t].op = "record"
    /\ row' = [j \in Job |-> IF j \in txn[t].jobs
                             THEN RecordRow(row[j], txn[t].rows[j])
                             ELSE row[j]]
    /\ End(t)
    /\ UNCHANGED proc

-----------------------------------------------------------------------------
(* cancel_job *)

CancelRead(t, j) ==
    /\ Calls(t)
    /\ CancelAllowed(row[j])
    /\ Begin(t, Pending("cancel", j, NoRow))
    /\ UNCHANGED <<row, proc>>

\* Mutant: the status is misspelt.
CancelRowMisspelt(r) ==
    IF CancelAllowed(r) THEN [r EXCEPT !.status = "canceled"] ELSE r

CancelRow(r) ==
    IF CancelAllowed(r) THEN [r EXCEPT !.status = "cancelled"] ELSE r

CancelWrite(t) ==
    /\ txn[t].op = "cancel"
    /\ row' = [j \in Job |-> IF j \in txn[t].jobs
                             THEN CancelRow(row[j]) ELSE row[j]]
    /\ End(t)
    /\ UNCHANGED proc

-----------------------------------------------------------------------------
(* mark_interrupted_jobs_on_startup *)

\* The SELECT of the active rows: when runtime is imported, and again from
\* the stale-reaper maintenance hook.
SweepSelect(t) ==
    /\ proc[Home[t]] \in {"booting", "up"}
    /\ txn[t] = Idle
    /\ CanEnter(t)
    /\ LET seen == { j \in Job : row[j] # NoRow /\ row[j].status \in Active }
       IN  Begin(t, [op |-> "sweep", jobs |-> seen,
                     rows |-> [j \in Job |-> IF j \in seen THEN row[j]
                                             ELSE NoRow]])
    /\ UNCHANGED <<row, proc>>

\* UPDATE jobs SET status = 'interrupted' WHERE job_id = ?: the status is not
\* looked at again, and the owner is the one of the row that was SELECTed.
SweepRow(r, selected) ==
    IF r # NoRow /\ Orphan(selected, Alive)
    THEN [r EXCEPT !.status = "interrupted"] ELSE r

\* The liveness of the owners is probed between SELECT and UPDATE; here at
\* the UPDATE (an owner that dies in between is left to the next sweep).
SweepWrite(t) ==
    /\ txn[t].op = "sweep"
    /\ row' = [j \in Job |-> IF j \in txn[t].jobs
                             THEN SweepRow(row[j], txn[t].rows[j])
                             ELSE row[j]]
    /\ End(t)
    /\ proc' = [proc EXCEPT ![Home[t]] = "up"]

-----------------------------------------------------------------------------
(* Processes *)

\* A server starts; importing runtime sweeps before any tool can be called.
Boot(p) ==
    /\ proc[p] = "unborn"
    /\ proc' = [proc EXCEPT ![p] = "booting"]
    /\ UNCHANGED <<row, txn, lock>>

\* A process exits at any point; uncommitted work is gone with its threads.
Die(p) ==
    /\ proc[p] \in {"booting", "up"}
    /\ proc' = [proc EXCEPT ![p] = "dead"]
    /\ txn'  = [t \in Thread |-> IF Home[t] = p THEN Idle ELSE txn[t]]
    /\ lock' = [lock EXCEPT ![p] = Free]
    /\ UNCHANGED row

-----------------------------------------------------------------------------

Read(t, j) == UpdateRead(t, j) \/ RecordRead(t, j) \/ CancelRead(t, j)

Write(t) == UpdateWrite(t) \/ RecordWrite(t) \/ CancelWrite(t) \/ SweepWrite(t)

Next ==
    \/ \E t \in Thread, j \in Job :
           CreateJob(t, j) \/ DeleteJob(t, j) \/ Read(t, j)
    \/ \E t \in Thread : SweepSelect(t) \/ Write(t)
    \/ \E p \in Proc : Boot(p) \/ Die(p)

Spec == Init /\ [][Next]_vars

\* The import of runtime and the body of `with self._lock` are straight-line
\* code: a process that stays alive gets through both.
BootSweep(t) == SweepSelect(t) /\ proc[Home[t]] = "booting"

Fairness == \A t \in Thread : WF_vars(BootSweep(t)) /\ WF_vars(Write(t))

FairSpec == Spec /\ Fairness
-----------------------------------------------------------------------------
(* Properties *)

\* A row that failed or completed carries completed_at and a row that is still
\* going does not, although update_job writes the column back from a copy that
\* may be older than the row (job_ops.py update_job, record_step_result).
CompletionStamped ==
    \A j \in Job : row[j] # NoRow =>
        /\ row[j].status \in {"completed", "failed"} => row[j].stamped
        /\ row[j].status \notin Terminal => ~row[j].stamped

\* A sweep selected job j as an orphan and has yet to write.
BeingReaped(j) ==
    \E t \in Thread : /\ txn[t].op = "sweep"
                      /\ txn[t].rows[j] # NoRow
                      /\ txn[t].rows[j].status \in Active

Restarted(j) == \E p \in Proc : row'[j] \in Fresh(p)

\* Writers of several processes race for one row, yet the first final verdict
\* stands: completed, failed and cancelled give way only to a new run of the
\* job (create_job), to its deletion, or to a sweep that selected the row when
\* it was still active (the conditional UPDATEs of job_ops.py).
VerdictKept ==
    [][\A j \in Job :
          (row[j] # NoRow /\ row[j].status \in {"completed", "failed", "cancelled"})
          => \/ row'[j] = NoRow
             \/ row'[j].status = row[j].status
             \/ Restarted(j)
             \/ BeingReaped(j) /\ row'[j].status = "interrupted"]_vars

\* While a job is going on no step result that was recorded disappears: the
\* read-modify-write of the results column is covered by JobStore._lock.
\* It holds for the threads of one process; between processes it does not.
ResultsKept ==
    [][\A j \in Job :
          (/\ row[j] # NoRow /\ row[j].status \notin Terminal
           /\ row'[j] # NoRow /\ row'[j].status \notin Terminal)
          => Recorded(row[j].results) \subseteq Recorded(row'[j].results)]_vars

\* The job is active and the process that ran it has exited.
Orphaned(j) ==
    /\ row[j] # NoRow
    /\ row[j].status \in {"running", "in_progress", "waiting_input"}
    /\ row[j].owner \in Proc
    /\ proc[row[j].owner] = "dead"

\* A server that has yet to sweep while a job is orphaned leaves it orphaned
\* only if it dies before the sweep ends (mark_interrupted_jobs_on_startup).
OrphansReaped ==
    \A j \in Job, p \in Proc :
        (proc[p] = "booting" /\ lock[p] = Free /\ Orphaned(j))
            ~> (~Orphaned(j) \/ proc[p] = "dead")

\* "duplicate MCP server instances share this DB and must not kill each
\* other's live jobs": a sweep never interrupts a job whose row names a live
\* process (docstring of mark_interrupted_jobs_on_startup).
LiveJobsNotReaped ==
    [][\A j \in Job :
          (/\ row[j] # NoRow /\ row[j].status \in {"running", "in_progress"}
           /\ row[j].owner \in Alive)
          => (row'[j] = NoRow \/ row'[j].status # "interrupted")]_vars

\* The promise of the table to its readers: see JobLifecycle.
Lifecycle == INSTANCE JobLifecycle WITH
    status <- [j \in Job |-> IF row[j] = NoRow THEN "absent" ELSE row[j].status]

ImplementsLifecycle == Lifecycle!Spec
=============================================================================
