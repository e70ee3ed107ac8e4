---------------------------- MODULE HumanInput ----------------------------
(***************************************************************************)
(* A human step of a detached loop (executors/human_input.py), the         *)
(* question it puts into the messages table (mcp/message_store.py), and    *)
(* the agents that answer it (mcp/tools_hitl.py), cancel its job or read   *)
(* the inbox.                                                              *)
(*                                                                         *)
(* The worker thread makes one store call per step.  A question's id is a  *)
(* hash of job and step, so the row outlives a run of the job.  Time is    *)
(* two facts per job: the question's expires_at has passed, and the        *)
(* executor's own deadline has passed.                                     *)
(***************************************************************************)
EXTENDS Naturals

CONSTANTS
    Job,            \* jobs; each has one human step
    Agent,          \* clients that call the tools
    Answer,         \* what an agent may answer
    NoAnswer,       \* no answer, and the default_answer null
    MaxEscalations, \* MAX_ESCALATIONS
    MaxRuns         \* bound: runs of a job, and tries of its step, together

ASSUME HumanAssumption ==
    /\ NoAnswer \notin Answer
    /\ MaxEscalations \in Nat
    /\ MaxRuns \in Nat

VARIABLES
    node,       \* node[j]: the parameters of the human step, fixed
    status,     \* status[j]: the job's row
    msg,        \* msg[j]: the question
    due,        \* due[j]: the question's expires_at has passed
    notif,      \* notif[j]: the needs_input notification of the question
    pc,         \* pc[j]: where the worker thread is, see Place
    late,       \* late[j]: the executor's deadline has passed
    escal,      \* escal[j]: escalations of this run
    result,     \* result[j]: what execute() returns
    closing,    \* closing[a]: the job whose notification agent a, having
                \* answered, has yet to mark read
    runs        \* runs[j]: runs of the job and retries of its step so far

vars == <<node, status, msg, due, notif, pc, late, escal, result, closing, runs>>

Ended  == {"completed", "failed", "cancelled", "interrupted"}
Status == {"absent", "running", "in_progress", "waiting_input"} \union Ended

\* timed: a timeout is given (and is not zero)
Node == [ policy  : {"default_answer", "skip", "fail", "escalate"},
          timed   : BOOLEAN,
          default : Answer \union {NoAnswer} ]

Message == [ status : {"none", "pending", "answered", "expired", "cancelled"},
             answer : Answer \union {NoAnswer},
             by     : {"nobody", "agent", "auto"} ]

NoMessage == [status |-> "none", answer |-> NoAnswer, by |-> "nobody"]

Place == {"off", "asking", "marking", "notifying", "polling", "final",
          "defaulting", "expiring", "resuming", "closing", "returned",
          "recorded", "over", "dead"}

Outcome == [kind : {"none", "answered", "auto", "failed"}, answer : Answer \union {NoAnswer}]

NoOutcome == [kind |-> "none", answer |-> NoAnswer]
Failure   == [kind |-> "failed", answer |-> NoAnswer]

TypeOK ==
    /\ node    \in [Job -> Node]
    /\ status  \in [Job -> Status]
    /\ msg     \in [Job -> Message]
    /\ due     \in [Job -> BOOLEAN]
    /\ notif   \in [Job -> {"none", "unread", "read"}]
    /\ pc      \in [Job -> Place]
    /\ late    \in [Job -> BOOLEAN]
    /\ escal   \in [Job -> 0..MaxEscalations]
    /\ result  \in [Job -> Outcome]
    /\ closing \in [Agent -> SUBSET Job]
    /\ runs    \in [Job -> 0..MaxRuns]

Init ==
    /\ node    \in [Job -> Node]
    /\ status  = [j \in Job |-> "absent"]
    /\ msg     = [j \in Job |-> NoMessage]
    /\ due     = [j \in Job |-> FALSE]
    /\ notif   = [j \in Job |-> "none"]
    /\ pc      = [j \in Job |-> "off"]
    /\ late    = [j \in Job |-> FALSE]
    /\ escal   = [j \in Job |-> 0]
    /\ result  = [j \in Job |-> NoOutcome]
    /\ closing = [a \in Agent |-> {}]
    /\ runs    = [j \in Job |-> 0]

-----------------------------------------------------------------------------
(* Store calls *)

\* update_job(status=...): a final status stays.
SetStatus(j, st) ==
    status' = [status EXCEPT ![j] = IF @ \in Ended THEN @ ELSE st]

MarkRead(n) == IF n = "unread" THEN "read" ELSE n

\* INSERT ... ON CONFLICT(msg_id) DO NOTHING: an older question stays as it is.
Asked(m) == IF m.status = "none" THEN [m EXCEPT !.status = "pending"] ELSE m

\* Mutant: UPDATE messages without `AND status = 'pending'`.
AnsweredAgain(m, answer, by) == [status |-> "answered", answer |-> answer, by |-> by]

\* UPDATE messages ... WHERE msg_id = ? AND status = 'pending'
Answered(m, answer, by) ==
    IF m.status = "pending"
    THEN [status |-> "answered", answer |-> answer, by |-> by] ELSE m

\* sweep_expired_questions
Swept == [j \in Job |-> IF msg[j].status = "pending" /\ due[j]
                        THEN [msg[j] EXCEPT !.status = "expired"] ELSE msg[j]]

-----------------------------------------------------------------------------
(* The worker thread *)

Goto(j, place) == pc' = [pc EXCEPT ![j] = place]

At(j, place, next) == pc[j] = place /\ Goto(j, next)

Return(j, kind, answer) ==
    result' = [result EXCEPT ![j] = [kind |-> kind, answer |-> answer]]

\* submit, or submit again under the same id once the row is final; the engine
\* is past the check of its cancel event and about to run the human step.
Submit(j) ==
    /\ runs[j] < MaxRuns
    /\ pc[j] \in {"off", "over", "dead"}
    /\ status[j] \in Ended \union {"absent"}
    /\ status' = [status EXCEPT ![j] = "running"]
    /\ Goto(j, "asking")
    /\ late'   = [late EXCEPT ![j] = FALSE]
    /\ escal'  = [escal EXCEPT ![j] = 0]
    /\ result' = [result EXCEPT ![j] = NoOutcome]
    /\ runs'   = [runs EXCEPT ![j] = @ + 1]
    /\ UNCHANGED <<node, msg, due, notif, closing>>

\* create_question
CreateQuestion(j) ==
    /\ At(j, "asking", "marking")
    /\ msg' = [msg EXCEPT ![j] = Asked(@)]
    /\ UNCHANGED <<node, status, due, notif, late, escal, result, closing, runs>>

\* The text holds an unresolved placeholder: ValueError, nothing is asked.
CreateRefused(j) ==
    /\ At(j, "asking", "returned")
    /\ result' = [result EXCEPT ![j] = Failure]
    /\ UNCHANGED <<node, status, msg, due, notif, late, escal, closing, runs>>

MarkWaiting(j) ==
    /\ At(j, "marking", "notifying")
    /\ SetStatus(j, "waiting_input")
    /\ UNCHANGED <<node, msg, due, notif, late, escal, result, closing, runs>>

\* _notify_waiting; a notification of an earlier run is not made unread again.
Notify(j) ==
    /\ At(j, "notifying", "polling")
    /\ notif' = [notif EXCEPT ![j] = IF @ = "none" THEN "unread" ELSE @]
    /\ UNCHANGED <<node, status, msg, due, late, escal, result, closing, runs>>

\* A poll finds the answer.
PollAnswered(j) ==
    /\ msg[j].status = "answered"
    /\ At(j, "polling", "resuming")
    /\ Return(j, "answered", msg[j].answer)
    /\ UNCHANGED <<node, status, msg, due, notif, late, escal, closing, runs>>

\* A poll finds that loop_cancel has cancelled the question.
PollCancelled(j) ==
    /\ msg[j].status = "cancelled"
    /\ At(j, "polling", "resuming")
    /\ result' = [result EXCEPT ![j] = Failure]
    /\ UNCHANGED <<node, status, msg, due, notif, late, escal, closing, runs>>

TimedOut(j) == pc[j] = "polling" /\ late[j] /\ msg[j].status \in {"pending", "expired"}

\* Mutant: escalations are not counted against MAX_ESCALATIONS.
EscalatesOnAndOn(j) == node[j].policy = "escalate"

Escalates(j) == node[j].policy = "escalate" /\ escal[j] < MaxEscalations

\* A critical notification, and a new deadline; expires_at stays.
Escalate(j) ==
    /\ TimedOut(j) /\ Escalates(j)
    /\ escal' = [escal EXCEPT ![j] = IF @ < MaxEscalations THEN @ + 1 ELSE @]
    /\ late'  = [late EXCEPT ![j] = FALSE]
    /\ UNCHANGED <<node, status, msg, due, notif, pc, result, closing, runs>>

\* The deadline ends the wait loop.
GiveUp(j) ==
    /\ TimedOut(j) /\ ~Escalates(j)
    /\ Goto(j, "final")
    /\ UNCHANGED <<node, status, msg, due, notif, late, escal, result, closing, runs>>

\* Mutant: the question is not read again after the wait loop.
NotReadAgain(j) == msg[j].status = "none"

\* final is not None and final.status == "answered"
AnsweredInTheEnd(j) == msg[j].status = "answered"

FinalAnswered(j) ==
    /\ AnsweredInTheEnd(j)
    /\ At(j, "final", "resuming")
    /\ Return(j, "answered", msg[j].answer)
    /\ UNCHANGED <<node, status, msg, due, notif, late, escal, closing, runs>>

HasDefault(j) == node[j].policy = "default_answer" /\ node[j].default # NoAnswer

\* No answer: escalation has failed, the default is taken, or the step fails.
FinalUnanswered(j) ==
    /\ ~AnsweredInTheEnd(j)
    /\ At(j, "final", IF node[j].policy = "escalate" THEN "returned"
                      ELSE IF HasDefault(j) THEN "defaulting" ELSE "expiring")
    /\ result' = [result EXCEPT ![j] = Failure]
    /\ UNCHANGED <<node, status, msg, due, notif, late, escal, closing, runs>>

\* answer_question(..., by="auto"); its ValueError is suppressed and the
\* default is returned whether the question took it or not.
TakeDefault(j) ==
    /\ At(j, "defaulting", "resuming")
    /\ msg' = [msg EXCEPT ![j] = Answered(@, node[j].default, "auto")]
    /\ Return(j, "auto", node[j].default)
    /\ UNCHANGED <<node, status, due, notif, late, escal, closing, runs>>

\* skip, fail, or a default_answer that is null: the questions of every job
\* are swept, and this job's status and notification stay.
Expire(j) ==
    /\ At(j, "expiring", "returned")
    /\ msg' = Swept
    /\ UNCHANGED <<node, status, due, notif, late, escal, result, closing, runs>>

Resume(j) ==
    /\ At(j, "resuming", "closing")
    /\ SetStatus(j, "in_progress")
    /\ UNCHANGED <<node, msg, due, notif, late, escal, result, closing, runs>>

\* Mutant: the executor leaves the notification to loop_respond.
LeaveNotification(n) == n

\* _close_notification
CloseNotification(n) == MarkRead(n)

Close(j) ==
    /\ At(j, "closing", "returned")
    /\ notif' = [notif EXCEPT ![j] = CloseNotification(@)]
    /\ UNCHANGED <<node, status, msg, due, late, escal, result, closing, runs>>

\* Mutant: a failed step leaves the job's status alone.
RecordedFailureQuietly(j) ==
    IF result[j].kind = "failed" THEN UNCHANGED status ELSE SetStatus(j, "in_progress")

\* record_step_result
Recorded(j) == SetStatus(j, "in_progress")

\* _on_step of the worker.
Record(j) ==
    /\ At(j, "returned", "recorded")
    /\ Recorded(j)
    /\ UNCHANGED <<node, msg, due, notif, late, escal, result, closing, runs>>

\* _execute_step_retries: a step that failed is executed again after the backoff,
\* before its result is recorded; the row, the question and the note stay.
Retry(j) ==
    /\ runs[j] < MaxRuns /\ result[j].kind = "failed"
    /\ At(j, "returned", "asking")
    /\ late'   = [late EXCEPT ![j] = FALSE]
    /\ escal'  = [escal EXCEPT ![j] = 0]
    /\ result' = [result EXCEPT ![j] = NoOutcome]
    /\ runs'   = [runs EXCEPT ![j] = @ + 1]
    /\ UNCHANGED <<node, status, msg, due, notif, closing>>

\* The run ends and the worker settles the job.
Settle(j) ==
    /\ At(j, "recorded", "over")
    /\ SetStatus(j, IF result[j].kind = "failed" THEN "failed" ELSE "completed")
    /\ UNCHANGED <<node, msg, due, notif, late, escal, result, closing, runs>>

-----------------------------------------------------------------------------
(* Agents *)

\* loop_questions sweeps before it lists.
ListQuestions ==
    /\ msg' = Swept
    /\ UNCHANGED <<node, status, due, notif, pc, late, escal, result, closing, runs>>

\* loop_respond with the nonce that loop_questions handed out.
Respond(a, j) ==
    /\ closing[a] = {}
    /\ msg[j].status # "none"
    /\ \E answer \in Answer : msg' = [msg EXCEPT ![j] = Answered(@, answer, "agent")]
    /\ closing' = [closing EXCEPT ![a] = IF msg[j].status = "pending" THEN {j} ELSE {}]
    /\ UNCHANGED <<node, status, due, notif, pc, late, escal, result, runs>>

\* mark_job_notifications_read of an accepted loop_respond.
RespondClose(a) ==
    /\ closing[a] # {}
    /\ notif' = [j \in Job |-> IF j \in closing[a] THEN MarkRead(notif[j]) ELSE notif[j]]
    /\ closing' = [closing EXCEPT ![a] = {}]
    /\ UNCHANGED <<node, status, msg, due, pc, late, escal, result, runs>>

\* loop_inbox marks what it lists as read.
ReadInbox ==
    /\ notif' = [j \in Job |-> MarkRead(notif[j])]
    /\ UNCHANGED <<node, status, msg, due, pc, late, escal, result, closing, runs>>

\* cancel_job: the row and the pending questions in one transaction.
LoopCancel(j) ==
    /\ status[j] \notin {"absent", "completed", "failed", "cancelled"}
    /\ status' = [status EXCEPT ![j] = "cancelled"]
    /\ msg' = [msg EXCEPT ![j].status = IF @ = "pending" THEN "cancelled" ELSE @]
    /\ UNCHANGED <<node, due, notif, pc, late, escal, result, closing, runs>>

-----------------------------------------------------------------------------
(* Time and processes *)

\* expires_at passes.
FallDue(j) ==
    /\ node[j].timed /\ ~due[j] /\ msg[j].status # "none"
    /\ due' = [due EXCEPT ![j] = TRUE]
    /\ UNCHANGED <<node, status, msg, notif, pc, late, escal, result, closing, runs>>

\* The deadline passes; it is set after expires_at, so never before it.
FallLate(j) ==
    /\ node[j].timed /\ due[j] /\ ~late[j] /\ pc[j] = "polling"
    /\ late' = [late EXCEPT ![j] = TRUE]
    /\ UNCHANGED <<node, status, msg, due, notif, pc, escal, result, closing, runs>>

\* The server exits with its worker threads.
Die ==
    /\ \E j \in Job : pc[j] \notin {"off", "over", "dead"}
    /\ pc' = [j \in Job |-> IF pc[j] \in {"off", "over"} THEN pc[j] ELSE "dead"]
    /\ UNCHANGED <<node, status, msg, due, notif, late, escal, result, closing, runs>>

\* The next server marks the job as interrupted; its question stays pending.
Interrupt(j) ==
    /\ pc[j] = "dead" /\ status[j] \notin Ended
    /\ status' = [status EXCEPT ![j] = "interrupted"]
    /\ UNCHANGED <<node, msg, due, notif, pc, late, escal, result, closing, runs>>

-----------------------------------------------------------------------------

Poll(j) == PollAnswered(j) \/ PollCancelled(j) \/ Escalate(j) \/ GiveUp(j)

Worker(j) ==
    \/ CreateQuestion(j) \/ MarkWaiting(j) \/ Notify(j) \/ Poll(j)
    \/ FinalAnswered(j) \/ FinalUnanswered(j) \/ TakeDefault(j) \/ Expire(j)
    \/ Resume(j) \/ Close(j) \/ Record(j) \/ Settle(j)

Clock(j) == FallDue(j) \/ FallLate(j)

Next ==
    \/ \E j \in Job :
           Submit(j) \/ CreateRefused(j) \/ Worker(j) \/ Retry(j) \/ LoopCancel(j)
           \/ Clock(j) \/ Interrupt(j)
    \/ \E a \in Agent : RespondClose(a) \/ \E j \in Job : Respond(a, j)
    \/ ListQuestions \/ ReadInbox \/ Die

Spec == Init /\ [][Next]_vars

\* The thread polls for ever and time passes; nobody has to answer.
Fairness == \A j \in Job : WF_vars(Worker(j)) /\ WF_vars(Clock(j))

FairSpec == Spec /\ Fairness

-----------------------------------------------------------------------------
(* Properties *)

Closed == {"answered", "expired", "cancelled"}

\* The executor, the sweep of any job, loop_respond and loop_cancel race for
\* a question; the first to close it wins for ever, over later runs of the
\* job too (the conditional UPDATEs of message_store.py).
FirstCloseWins ==
    [][\A j \in Job : msg[j].status \in Closed => msg'[j] = msg[j]]_vars

\* An answer that is in before the executor has looked for the last time is
\* the result: the step neither fails nor takes the default, even when the
\* deadline is long past (03-hitl-protocol, 6: the race is the human's).
AnswerInTimeCounts ==
    [][\A j \in Job :
          (/\ pc[j] \in {"polling", "final"} /\ msg[j].status = "answered"
           /\ pc'[j] # pc[j] /\ pc'[j] \notin {"final", "dead"})
          => result'[j] = [kind |-> "answered", answer |-> msg[j].answer]]_vars

\* A question that was answered, by an agent or by the default, leaves no
\* unread waiting_input notification once the step is over, although
\* loop_respond can mark it read before the executor has created it.
AnsweredLeavesInbox ==
    \A j \in Job :
        (/\ pc[j] \in {"returned", "recorded", "over"}
         /\ result[j].kind \in {"answered", "auto"})
        => notif[j] = "read"

\* waiting_input tells the truth: a thread that waits shows it unless the job
\* has ended, and once the step's result is recorded no job shows it, the
\* ways out of execute() that do not reset it included.
WaitingShown ==
    \A j \in Job :
        /\ pc[j] = "polling" => status[j] \in {"waiting_input"} \union Ended
        /\ pc[j] \in {"recorded", "over"} => status[j] # "waiting_input"

\* A wait ends: when the step has a timeout, or the question is answered or
\* cancelled; escalation resets the deadline only MAX_ESCALATIONS times.
WaitEnds ==
    \A j \in Job :
        (pc[j] = "polling" /\ (node[j].timed \/ msg[j].status \in {"answered", "cancelled"}))
        ~> pc[j] # "polling"

\* An answer that loop_respond accepts while the question is pending, after
\* the timeout but before the sweep, counts ("race in favour of the human",
\* 03-hitl-protocol.md, 6): the step's result is not a default beside it.
AnswerBeatsDefault ==
    \A j \in Job :
        ~(result[j].kind = "auto" /\ msg[j].status = "answered" /\ msg[j].by = "agent")
=============================================================================
