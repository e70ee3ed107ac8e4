--------------------------- MODULE JobLifecycle ---------------------------
(***************************************************************************)
(* What the jobs table promises to the readers of a status, without rows,  *)
(* processes, locks or pending writes: which status may follow which.      *)
(* JobStore, DetachedRunner, HumanInput and AgentRun implement it.         *)
(***************************************************************************)
CONSTANT Job

VARIABLE status

Final == {"completed", "failed", "cancelled", "interrupted"}
Going == {"ready", "running", "in_progress", "waiting_input", "error"}

TypeOK == status \in [Job -> Final \union Going \union {"absent"}]

Init == status = [j \in Job |-> "absent"]

Becomes(j, st) == status' = [status EXCEPT ![j] = st]

\* A job id is taken, or used again once its last run is over.
Start(j) ==
    /\ status[j] \in Final \union {"absent"}
    /\ \E st \in {"ready", "running"} : Becomes(j, st)

\* The run advances, waits for a human, or records its results with errors.
\* A writer with an older copy of the row can also take the status back.
Advance(j) ==
    /\ status[j] \in Going
    /\ \E st \in Going : Becomes(j, st)

\* The verdict of the run.
Finish(j) ==
    /\ status[j] \in Going
    /\ \E st \in {"completed", "failed", "cancelled"} : Becomes(j, st)

\* An interrupted run can still be cancelled.
Cancel(j) ==
    /\ status[j] \in Going \union {"interrupted"}
    /\ Becomes(j, "cancelled")

\* A starting server writes off the jobs of dead processes all at once.
Reap(J) ==
    /\ \A j \in J : status[j] # "absent"
    /\ status' = [j \in Job |-> IF j \in J THEN "interrupted" ELSE status[j]]

Forget(j) == Becomes(j, "absent")

Next ==
    \/ \E j \in Job : Start(j) \/ Advance(j) \/ Finish(j) \/ Cancel(j) \/ Forget(j)
    \/ \E J \in SUBSET Job : Reap(J)

Spec == Init /\ [][Next]_status
=============================================================================
