----------------------------- MODULE JobTable -----------------------------
(***************************************************************************)
(* One row of the jobs table (mcp/job_ops.py) and what every statement of  *)
(* the store does to it.  The operators are pure: JobStore interleaves the *)
(* reads and the writes of several server processes around them, and       *)
(* DetachedRunner uses them for the rows of the detached worker threads.   *)
(*                                                                         *)
(* Abstracted: loop name, definition, timestamps (except whether           *)
(* completed_at is set), step outputs and error texts.  Of the metrics the *)
(* model keeps host_pid and execution = "agent".                           *)
(***************************************************************************)
EXTENDS Naturals, FiniteSets

CONSTANTS
    Proc,       \* server processes, one per operating-system pid
    NoPid,      \* a row whose metrics carry no host_pid
    Step,       \* names of the leaf steps
    NoRow       \* a job id that has no row

ASSUME NoPidAssumption == NoPid \notin Proc

Terminal == {"completed", "failed", "cancelled", "interrupted"}
Active   == {"ready", "running", "in_progress", "waiting_input"}

\* "error" is written by record_step_result and is in neither set
Status == Terminal \union Active \union {"error"}

\* what the results column holds for a step
Outcome == {"none", "ok", "bad"}

Results == [Step -> Outcome]
Empty   == [s \in Step |-> "none"]

Row == [ status  : Status,
         results : Results,
         total   : Nat,
         owner   : Proc \union {NoPid},
         agent   : BOOLEAN,
         stamped : BOOLEAN ]

ASSUME NoRowAssumption == NoRow \notin Row

\* The row an INSERT writes, and the row an upsert resets a finished job to.
FreshRow(status, total, owner, agent) ==
    [ status |-> status, results |-> Empty, total |-> total,
      owner |-> owner, agent |-> agent, stamped |-> FALSE ]

\* Mutant: the upsert forgets completed_at = NULL.
UpsertKeepsStamp(r, fresh) ==
    IF r = NoRow THEN fresh
    ELSE IF r.status \in Terminal THEN [fresh EXCEPT !.stamped = r.stamped]
    ELSE r

\* create_job: ON CONFLICT the row is reset only when it is terminal,
\* otherwise the statement silently leaves it as it is.
Upsert(r, fresh) ==
    IF r = NoRow \/ r.status \in Terminal THEN fresh ELSE r

-----------------------------------------------------------------------------
(* update_job *)

\* The check on the row that was read, repeated in the WHERE of the UPDATE.
UpdateAllowed(r, status) ==
    /\ r # NoRow
    /\ \/ r.status \notin Terminal
       \/ r.status = "completed" /\ status = "completed"

\* The arguments of one call: status or "keep", results given or not, the
\* host_pid of new metrics or "keep", and the flag completed.
Call == [ status  : Status \union {"keep"},
          given   : BOOLEAN,
          results : Results,
          metrics : BOOLEAN,
          owner   : Proc \union {NoPid},
          completed : BOOLEAN ]

NewStatus(r, c) ==
    IF c.completed /\ c.status = "keep" THEN "completed"
    ELSE IF c.status = "keep" THEN r.status ELSE c.status

\* The copy that update_job mutates before it writes every field back.
Updated(r, c) ==
    [ r EXCEPT !.status  = NewStatus(r, c),
               !.results = IF c.given THEN c.results ELSE @,
               !.owner   = IF c.metrics THEN c.owner ELSE @,
               !.agent   = IF c.metrics THEN FALSE ELSE @,
               !.stamped = @ \/ c.completed ]

-----------------------------------------------------------------------------
(* record_step_result *)

Recorded(res) == { s \in Step : res[s] # "none" }
Failed(res)   == { s \in Step : res[s] = "bad" }

\* auto_complete /\ total_steps > 0 /\ len(results) >= total_steps
Covered(r, res, auto) ==
    auto /\ r.total > 0 /\ Cardinality(Recorded(res)) >= r.total

RecordStatus(r, res, auto) ==
    CASE Failed(res) # {} /\ ~Covered(r, res, auto) -> "in_progress"
      [] Failed(res) # {} /\ Covered(r, res, auto)  -> "error"
      [] Failed(res) = {} /\ Covered(r, res, auto)  -> "completed"
      [] OTHER                                      -> "in_progress"

\* The copy with one more step result, and the status it implies.
WithResult(r, step, ok, auto) ==
    LET res == [r.results EXCEPT ![step] = IF ok THEN "ok" ELSE "bad"]
        st  == RecordStatus(r, res, auto)
    IN  [r EXCEPT !.results = res, !.status = st,
                  !.stamped = @ \/ st = "completed"]

RecordAllowed(r) == r # NoRow /\ r.status \notin Terminal

\* The UPDATE writes back the columns a step result owns, and no other.
RecordMerge(r, new) ==
    [r EXCEPT !.status = new.status, !.results = new.results,
              !.stamped = new.stamped]

-----------------------------------------------------------------------------
(* cancel_job and the startup sweep *)

\* Mutant: cancel only protects a completed job.
CancelAllowedFailed(r) == r # NoRow /\ r.status # "completed"

\* 'interrupted' is missing from this list in the source.
CancelAllowed(r) ==
    r # NoRow /\ r.status \notin {"completed", "failed", "cancelled"}

\* Mutant: a job that waits for a human is not looked at.
OrphanNotWaiting(r, alive) ==
    /\ r # NoRow
    /\ r.status \in Active \ {"waiting_input"}
    /\ r.owner \notin alive
    /\ r.status = "ready" => r.owner # NoPid

\* mark_interrupted_jobs_on_startup: does the row that was SELECTed belong to
\* a process that is gone?  A bare 'ready' row without a pid is left alone.
Orphan(r, alive) ==
    /\ r # NoRow
    /\ r.status \in Active
    /\ r.owner \notin alive
    /\ r.status = "ready" => r.owner # NoPid

=============================================================================
