-------------------------- MODULE Messages_proofs ---------------------------
(***************************************************************************)
(* Proofs about what people answer, what agents are notified of and what   *)
(* event streams hold.  Human steps, for any numbers of jobs, agents,      *)
(* answers, escalations and runs: a question is closed once, an answer in  *)
(* time counts, the inbox is left clean, waiting_input is true, and the    *)
(* row keeps to JobLifecycle.  The outbox, for any numbers of notes,       *)
(* threads and messages and any limit of a listing: nothing unread is      *)
(* lost, and the mirror file is exact while nothing crosses.  Streams, for *)
(* any readers and sizes: every queue keeps to its size, a subscription    *)
(* ends only with its job, and nothing is behind the end.                  *)
(***************************************************************************)
EXTENDS HumanInput, Outbox, EventStreams, FiniteSetTheorems, TLAPS

-----------------------------------------------------------------------------
(* Human steps *)

\* A result that answers is there only after the wait.
ResultPlaced ==
    \A j \in Job : result[j].kind \in {"answered", "auto"} =>
        pc[j] \in {"resuming", "closing", "returned", "recorded", "over", "dead"}

\* From the wait on there is a notification to close.
NotifThere ==
    \A j \in Job : pc[j] \in {"polling", "final", "defaulting", "expiring", "resuming", "closing"}
                      => notif[j] # "none"

\* waiting_input is shown before the notification goes out.
ShownEarly ==
    \A j \in Job : pc[j] = "notifying" => status[j] \in {"waiting_input"} \union Ended

HumanInv ==
    /\ TypeOK
    /\ ResultPlaced /\ NotifThere /\ AnsweredLeavesInbox
    /\ ShownEarly /\ WaitingShown

LEMMA InitHuman == Init => HumanInv
BY HumanAssumption
   DEF Init, HumanInv, TypeOK, Status, Ended, Message, NoMessage, Place, Outcome, NoOutcome,
       ResultPlaced, NotifThere, AnsweredLeavesInbox, ShownEarly, WaitingShown

-----------------------------------------------------------------------------
(* Types *)

LEMMA AnsweredType ==
    ASSUME NEW m \in Message, NEW answer \in Answer \union {NoAnswer}, NEW by \in {"agent", "auto"}
    PROVE  Answered(m, answer, by) \in Message
BY DEF Answered, Message

LEMMA SweptType ==
    ASSUME msg \in [Job -> Message] PROVE Swept \in [Job -> Message]
BY DEF Swept, Message

LEMMA SetStatusType ==
    ASSUME status \in [Job -> Status], NEW j \in Job, NEW st \in Status, SetStatus(j, st)
    PROVE  /\ status' \in [Job -> Status]
           /\ status'[j] = IF status[j] \in Ended THEN status[j] ELSE st
           /\ \A i \in Job \ {j} : status'[i] = status[i]
BY DEF SetStatus

LEMMA StepHumanTypes == TypeOK /\ [Next]_vars => TypeOK'
<1> SUFFICES ASSUME TypeOK, [Next]_vars PROVE TypeOK'
  OBVIOUS
<1> USE HumanAssumption
<1> USE DEF TypeOK
<1>1. ASSUME NEW j \in Job, Submit(j) PROVE TypeOK'
  BY <1>1 DEF Submit, Goto, Status, Place, Outcome, NoOutcome
<1>0. ASSUME NEW j \in Job, Retry(j) PROVE TypeOK'
  BY <1>0 DEF Retry, At, Goto, Place, Outcome, NoOutcome
<1>2. ASSUME NEW j \in Job, CreateQuestion(j) PROVE TypeOK'
  BY <1>2 DEF CreateQuestion, Asked, At, Goto, Place, Message
<1>3. ASSUME NEW j \in Job, CreateRefused(j) \/ PollCancelled(j) PROVE TypeOK'
  <2>1. Failure \in Outcome
    BY DEF Failure, Outcome
  <2> QED
    BY <1>3, <2>1 DEF CreateRefused, PollCancelled, At, Goto, Place
<1>4. ASSUME NEW j \in Job, MarkWaiting(j) \/ Resume(j) \/ Record(j) \/ Settle(j) PROVE TypeOK'
  <2>1. PICK st \in Status : SetStatus(j, st)
    BY <1>4 DEF MarkWaiting, Resume, Record, Recorded, Settle, Status, Ended
  <2>2. status' \in [Job -> Status]
    BY <2>1, SetStatusType
  <2> QED
    BY <1>4, <2>2 DEF MarkWaiting, Resume, Record, Settle, At, Goto, Place
<1>5. ASSUME NEW j \in Job, Notify(j) \/ Close(j) PROVE TypeOK'
  BY <1>5 DEF Notify, Close, CloseNotification, MarkRead, At, Goto, Place
<1>6. ASSUME NEW j \in Job, PollAnswered(j) \/ FinalAnswered(j) PROVE TypeOK'
  <2>1. [kind |-> "answered", answer |-> msg[j].answer] \in Outcome
    BY DEF Outcome, Message
  <2> QED
    BY <1>6, <2>1 DEF PollAnswered, FinalAnswered, At, Goto, Return, Place
<1>7. ASSUME NEW j \in Job, Escalate(j) \/ GiveUp(j) PROVE TypeOK'
  <2>1. CASE Escalate(j)
    <3>1. escal' \in [Job -> 0..MaxEscalations]
      BY <2>1 DEF Escalate, Escalates
    <3> QED
      BY <2>1, <3>1 DEF Escalate
  <2>2. CASE GiveUp(j)
    BY <2>2 DEF GiveUp, Goto, Place
  <2> QED
    BY <1>7, <2>1, <2>2
<1>8. ASSUME NEW j \in Job, FinalUnanswered(j) PROVE TypeOK'
  <2>1. Failure \in Outcome
    BY DEF Failure, Outcome
  <2>2. pc' \in [Job -> Place]
    BY <1>8 DEF FinalUnanswered, At, Goto, Place
  <2> QED
    BY <1>8, <2>1, <2>2 DEF FinalUnanswered
<1>9. ASSUME NEW j \in Job, TakeDefault(j) PROVE TypeOK'
  <2>1. node[j].default \in Answer \union {NoAnswer}
    BY DEF Node
  <2>2. msg' \in [Job -> Message]
    BY <1>9, <2>1, AnsweredType DEF TakeDefault
  <2> QED
    BY <1>9, <2>1, <2>2 DEF TakeDefault, At, Goto, Return, Place, Outcome
<1>10. ASSUME NEW j \in Job, Expire(j) PROVE TypeOK'
  BY <1>10, SweptType DEF Expire, At, Goto, Place
<1>11. CASE ListQuestions
  BY <1>11, SweptType DEF ListQuestions
<1>12. ASSUME NEW a \in Agent, NEW j \in Job, Respond(a, j) PROVE TypeOK'
  <2>1. msg' \in [Job -> Message]
    <3>1. PICK answer \in Answer : msg' = [msg EXCEPT ![j] = Answered(@, answer, "agent")]
      BY <1>12 DEF Respond
    <3>2. Answered(msg[j], answer, "agent") \in Message
      BY AnsweredType
    <3> QED
      BY <3>1, <3>2
  <2> QED
    BY <1>12, <2>1 DEF Respond
<1>13. ASSUME NEW a \in Agent, RespondClose(a) PROVE TypeOK'
  BY <1>13 DEF RespondClose, MarkRead
<1>14. CASE ReadInbox
  BY <1>14 DEF ReadInbox, MarkRead
<1>15. ASSUME NEW j \in Job, LoopCancel(j) PROVE TypeOK'
  <2>1. msg' \in [Job -> Message]
    <3> DEFINE st == IF msg[j].status = "pending" THEN "cancelled" ELSE msg[j].status
    <3>1. msg[j] \in Message /\ st \in {"none", "pending", "answered", "expired", "cancelled"}
      BY DEF Message
    <3>2. msg' = [msg EXCEPT ![j] = [@ EXCEPT !.status = st]]
      BY <1>15 DEF LoopCancel
    <3> HIDE DEF st
    <3>3. [msg[j] EXCEPT !.status = st] \in Message
      BY <3>1 DEF Message
    <3> QED
      BY <3>2, <3>3
  <2> QED
    BY <1>15, <2>1 DEF LoopCancel, Status, Ended
<1>16. ASSUME NEW j \in Job, FallDue(j) \/ FallLate(j) PROVE TypeOK'
  BY <1>16 DEF FallDue, FallLate
<1>17. CASE Die
  BY <1>17 DEF Die, Place
<1>18. ASSUME NEW j \in Job, Interrupt(j) PROVE TypeOK'
  BY <1>18 DEF Interrupt, Status, Ended
<1>19. CASE UNCHANGED vars
  BY <1>19 DEF vars
<1> QED
  BY <1>0, <1>1, <1>2, <1>3, <1>4, <1>5, <1>6, <1>7, <1>8, <1>9, <1>10, <1>11, <1>12, <1>13,
     <1>14, <1>15, <1>16, <1>17, <1>18, <1>19 DEF Next, Worker, Poll, Clock

-----------------------------------------------------------------------------
(* The inductive invariant, one job at a time *)

Waited == {"returned", "recorded", "over"}

\* The parts of HumanInv that are about job j.
JobFits(j) ==
    /\ result[j].kind \in {"answered", "auto"} =>
          pc[j] \in {"resuming", "closing", "dead"} \union Waited
    /\ pc[j] \in {"polling", "final", "defaulting", "expiring", "resuming", "closing"}
          => notif[j] # "none"
    /\ pc[j] \in Waited /\ result[j].kind \in {"answered", "auto"} => notif[j] = "read"
    /\ pc[j] \in {"notifying", "polling"} => status[j] \in {"waiting_input"} \union Ended
    /\ pc[j] \in {"recorded", "over"} => status[j] # "waiting_input"

LEMMA InvIsFits == /\ HumanInv  => TypeOK  /\ \A j \in Job : JobFits(j)
                   /\ TypeOK' /\ (\A j \in Job : JobFits(j)') => HumanInv'
BY DEF HumanInv, ResultPlaced, NotifThere, AnsweredLeavesInbox, ShownEarly, WaitingShown, JobFits,
       Waited

\* The thread of another job changes nothing of j.
SameJob(j) == UNCHANGED <<pc[j], status[j], notif[j], result[j]>>

LEMMA SameJobFits == ASSUME NEW j \in Job, JobFits(j), SameJob(j) PROVE JobFits(j)'
BY DEF JobFits, SameJob

LEMMA OtherJobs ==
    ASSUME TypeOK, NEW j \in Job, NEW i \in Job \ {j},
           \/ Submit(i) \/ CreateRefused(i) \/ Worker(i) \/ Retry(i) \/ LoopCancel(i)
           \/ Clock(i) \/ Interrupt(i)
    PROVE  SameJob(j)
BY DEF TypeOK, Submit, CreateRefused, Retry, Worker, CreateQuestion, MarkWaiting, Notify, Poll,
       PollAnswered, PollCancelled, Escalate, GiveUp, FinalAnswered, FinalUnanswered, TakeDefault,
       Expire, Resume, Close, Record, Recorded, Settle, LoopCancel, Clock, FallDue, FallLate,
       Interrupt, At, Goto, SetStatus, Return, SameJob

\* The worker's steps up to the wait, and the wait.
LEMMA AskFits ==
    ASSUME TypeOK, NEW j \in Job, JobFits(j),
           CreateQuestion(j) \/ CreateRefused(j) \/ MarkWaiting(j) \/ Notify(j) \/ Poll(j)
    PROVE  JobFits(j)'
<1> USE DEF TypeOK, At, Goto
<1>1. CASE CreateQuestion(j)
  BY <1>1 DEF CreateQuestion, JobFits, Waited
<1>2. CASE CreateRefused(j)
  BY <1>2 DEF CreateRefused, Failure, JobFits, Waited
<1>3. CASE MarkWaiting(j)
  BY <1>3 DEF MarkWaiting, SetStatus, Ended, JobFits, Waited
<1>4. CASE Notify(j)
  BY <1>4 DEF Notify, JobFits, Waited
<1>5. CASE PollAnswered(j)
  BY <1>5 DEF PollAnswered, Return, JobFits, Waited
<1>6. CASE PollCancelled(j)
  BY <1>6 DEF PollCancelled, Failure, JobFits, Waited
<1>7. CASE Escalate(j) \/ GiveUp(j)
  BY <1>7 DEF Escalate, GiveUp, TimedOut, JobFits, Waited
<1> QED
  BY <1>1, <1>2, <1>3, <1>4, <1>5, <1>6, <1>7 DEF Poll

\* The worker's steps after the wait.
LEMMA EndFits ==
    ASSUME TypeOK, NEW j \in Job, JobFits(j),
           \/ FinalAnswered(j) \/ FinalUnanswered(j) \/ TakeDefault(j) \/ Expire(j)
           \/ Resume(j) \/ Close(j) \/ Record(j) \/ Settle(j)
    PROVE  JobFits(j)'
<1> USE DEF TypeOK, At, Goto
<1>1. CASE FinalAnswered(j)
  BY <1>1 DEF FinalAnswered, Return, JobFits, Waited
<1>2. CASE FinalUnanswered(j)
  BY <1>2 DEF FinalUnanswered, Failure, JobFits, Waited
<1>3. CASE TakeDefault(j)
  BY <1>3 DEF TakeDefault, Return, JobFits, Waited
<1>4. CASE Expire(j)
  BY <1>4 DEF Expire, JobFits, Waited
<1>5. CASE Resume(j)
  BY <1>5 DEF Resume, SetStatus, JobFits, Waited
<1>6. CASE Close(j)
  BY <1>6 DEF Close, CloseNotification, MarkRead, JobFits, Waited
<1>7. CASE Record(j)
  BY <1>7 DEF Record, Recorded, SetStatus, Ended, JobFits, Waited
<1>8. CASE Settle(j)
  BY <1>8 DEF Settle, SetStatus, Ended, JobFits, Waited
<1> QED
  BY <1>1, <1>2, <1>3, <1>4, <1>5, <1>6, <1>7, <1>8

\* What happens to j's row and notification from outside.
LEMMA OutsideFits ==
    ASSUME TypeOK, NEW j \in Job, JobFits(j),
           \/ Submit(j) \/ Retry(j) \/ LoopCancel(j) \/ Interrupt(j) \/ Clock(j)
           \/ (\E a \in Agent : RespondClose(a)) \/ ReadInbox \/ Die
    PROVE  JobFits(j)'
<1> USE DEF TypeOK
<1>1. CASE Submit(j) \/ Retry(j)
  BY <1>1 DEF Submit, Retry, At, Goto, NoOutcome, JobFits, Waited
<1>2. CASE LoopCancel(j) \/ Interrupt(j)
  BY <1>2 DEF LoopCancel, Interrupt, Ended, JobFits, Waited
<1>3. CASE Clock(j)
  BY <1>3 DEF Clock, FallDue, FallLate, JobFits
<1>4. CASE (\E a \in Agent : RespondClose(a)) \/ ReadInbox
  <2>1. /\ UNCHANGED <<pc, status, result>>
        /\ notif'[j] \in {notif[j], MarkRead(notif[j])}
    BY <1>4 DEF RespondClose, ReadInbox
  <2> QED
    BY <2>1 DEF MarkRead, JobFits
<1>5. CASE Die
  BY <1>5 DEF Die, JobFits, Waited
<1> QED
  BY <1>1, <1>2, <1>3, <1>4, <1>5

LEMMA StepHuman == HumanInv /\ [Next]_vars => HumanInv'
<1> SUFFICES ASSUME TypeOK, \A j \in Job : JobFits(j), [Next]_vars, NEW j \in Job
             PROVE  JobFits(j)'
  BY InvIsFits, StepHumanTypes
<1>1. ASSUME NEW i \in Job,
             \/ Submit(i) \/ CreateRefused(i) \/ Worker(i) \/ Retry(i) \/ LoopCancel(i)
             \/ Clock(i) \/ Interrupt(i)
      PROVE  JobFits(j)'
  <2>1. CASE i = j
    BY <1>1, <2>1, AskFits, EndFits, OutsideFits DEF Worker
  <2>2. CASE i # j
    BY <1>1, <2>2, OtherJobs, SameJobFits
  <2> QED
    BY <2>1, <2>2
<1>2. CASE (\E a \in Agent : RespondClose(a)) \/ ReadInbox \/ Die
  BY <1>2, OutsideFits
<1>3. CASE (\E a \in Agent, i \in Job : Respond(a, i)) \/ ListQuestions \/ UNCHANGED vars
  <2>1. SameJob(j)
    BY <1>3 DEF Respond, ListQuestions, vars, SameJob
  <2> QED
    BY <2>1, SameJobFits
<1> QED
  BY <1>1, <1>2, <1>3 DEF Next

\* The inductive invariant holds in every reachable state.
THEOREM HumanInvariant == Spec => []HumanInv
<1> QED
  BY InitHuman, StepHuman, PTL DEF Spec

\* No answered step leaves an unread waiting_input notification behind, in
\* whatever order loop_respond and the executor mark it (tools_hitl.py,
\* human_input.py _close_notification).
THEOREM InboxIsClean == Spec => []AnsweredLeavesInbox
<1> QED
  BY HumanInvariant, PTL DEF HumanInv

\* waiting_input is what the job does, on every way out of execute().
THEOREM WaitingIsTrue == Spec => []WaitingShown
<1> QED
  BY HumanInvariant, PTL DEF HumanInv

-----------------------------------------------------------------------------
(* Closed questions and late answers *)

\* No statement of the messages table touches a closed row.
LEMMA ClosedStays ==
    ASSUME TypeOK, [Next]_vars, NEW j \in Job, msg[j].status \in Closed PROVE msg'[j] = msg[j]
<1> USE DEF TypeOK, Closed
<1>1. ASSUME NEW i \in Job,
             CreateQuestion(i) \/ TakeDefault(i) \/ LoopCancel(i) \/ \E a \in Agent : Respond(a, i)
      PROVE  msg'[j] = msg[j]
  <2>1. CASE CreateQuestion(i)
    BY <2>1 DEF CreateQuestion, Asked
  <2>2. CASE TakeDefault(i)
    BY <2>2 DEF TakeDefault, Answered
  <2>3. CASE LoopCancel(i)
    <3>1. CASE i = j
      <4>1. msg'[j] = [msg[j] EXCEPT !.status = msg[j].status]
        BY <2>3, <3>1 DEF LoopCancel
      <4> QED
        BY <4>1 DEF Message
    <3>2. CASE i # j
      BY <2>3, <3>2 DEF LoopCancel
    <3> QED
      BY <3>1, <3>2
  <2>4. ASSUME NEW a \in Agent, Respond(a, i) PROVE msg'[j] = msg[j]
    BY <2>4 DEF Respond, Answered
  <2> QED
    BY <1>1, <2>1, <2>2, <2>3, <2>4
<1>2. CASE ListQuestions \/ \E i \in Job : Expire(i)
  BY <1>2 DEF ListQuestions, Expire, Swept
<1>3. CASE UNCHANGED msg
  BY <1>3
<1> QED
  BY <1>1, <1>2, <1>3
     DEF Next, Worker, Poll, Clock, Submit, Retry, CreateRefused, MarkWaiting, Notify,
         PollAnswered, PollCancelled, Escalate, GiveUp, FinalAnswered, FinalUnanswered, Resume, Close, Record,
         Settle, FallDue, FallLate, Interrupt, RespondClose, ReadInbox, Die, vars

\* The first to close a question wins, over later runs of its job too (the
\* conditional UPDATEs of message_store.py).
THEOREM FirstClose == Spec => FirstCloseWins
<1>1. HumanInv /\ [Next]_vars => [\A j \in Job : msg[j].status \in Closed => msg'[j] = msg[j]]_vars
  BY ClosedStays DEF HumanInv
<1> QED
  BY <1>1, HumanInvariant, PTL DEF Spec, FirstCloseWins

\* A thread leaves the wait, or its last look, with the answer that is there.
LEMMA AnswerTaken ==
    ASSUME TypeOK, [Next]_vars, NEW j \in Job,
           pc[j] \in {"polling", "final"}, msg[j].status = "answered",
           pc'[j] # pc[j], pc'[j] \notin {"final", "dead"}
    PROVE  result'[j] = [kind |-> "answered", answer |-> msg[j].answer]
<1> USE DEF TypeOK
<1>1. ASSUME NEW i \in Job, PollAnswered(i) \/ FinalAnswered(i)
      PROVE  result'[j] = [kind |-> "answered", answer |-> msg[j].answer]
  BY <1>1 DEF PollAnswered, FinalAnswered, At, Goto, Return
<1>2. ASSUME NEW i \in Job, PollCancelled(i) \/ FinalUnanswered(i) \/ Escalate(i) \/ GiveUp(i)
      PROVE  FALSE
  BY <1>2 DEF PollCancelled, FinalUnanswered, AnsweredInTheEnd, Escalate, GiveUp, At, Goto
<1>3. ASSUME NEW i \in Job,
             \/ Submit(i) \/ Retry(i) \/ CreateQuestion(i) \/ CreateRefused(i) \/ MarkWaiting(i) \/ Notify(i)
             \/ TakeDefault(i) \/ Expire(i) \/ Resume(i) \/ Close(i) \/ Record(i) \/ Settle(i)
      PROVE  FALSE
  BY <1>3 DEF Submit, Retry, CreateQuestion, CreateRefused, MarkWaiting, Notify, TakeDefault, Expire,
              Resume, Close, Record, Settle, At, Goto
<1>4. CASE Die
  BY <1>4 DEF Die
<1>5. CASE UNCHANGED pc
  BY <1>5
<1> QED
  BY <1>1, <1>2, <1>3, <1>4, <1>5
     DEF Next, Worker, Poll, Clock, FallDue, FallLate, LoopCancel, Interrupt, Respond, RespondClose,
         ListQuestions, ReadInbox, vars

\* An answer that is in before the executor's last look is the result, however
\* late (human_input.py: the answer is read again after the wait loop).
THEOREM AnswerCounts == Spec => AnswerInTimeCounts
<1> DEFINE Counts == \A j \in Job :
          (/\ pc[j] \in {"polling", "final"} /\ msg[j].status = "answered"
           /\ pc'[j] # pc[j] /\ pc'[j] \notin {"final", "dead"})
          => result'[j] = [kind |-> "answered", answer |-> msg[j].answer]
<1>1. HumanInv /\ [Next]_vars => [Counts]_vars
  BY AnswerTaken DEF HumanInv
<1> QED
  BY <1>1, HumanInvariant, PTL DEF Spec, AnswerInTimeCounts

-----------------------------------------------------------------------------
(* The human step implements JobLifecycle *)

HumanLife == INSTANCE JobLifecycle

\* A job whose step has been entered has a row.
RowThere == \A j \in Job : pc[j] # "off" => status[j] # "absent"

\* One status changes, the way the abstract table allows.
OneStatus(j) ==
    /\ \A i \in Job \ {j} : status'[i] = status[i]
    /\ \/ status'[j] = status[j]
       \/ status[j] \in Ended \union {"absent"} /\ status'[j] = "running"
       \/ /\ status[j] \notin Ended \union {"absent"}
          /\ status'[j] \in {"in_progress", "waiting_input", "completed", "failed"}
       \/ status[j] \notin {"absent", "completed", "failed", "cancelled"} /\ status'[j] = "cancelled"
       \/ status[j] # "absent" /\ status'[j] = "interrupted"

LEMMA OneStatusLife == ASSUME TypeOK, TypeOK', NEW j \in Job, OneStatus(j) PROVE [HumanLife!Next]_status
<1>1. status' = [status EXCEPT ![j] = status'[j]]
  BY DEF TypeOK, OneStatus
<1>2. status[j] \in Status
  BY DEF TypeOK
<1> DEFINE st == status'[j]
<1>3. CASE st = status[j]
  BY <1>1, <1>3 DEF TypeOK
<1>4. CASE status[j] \in Ended \union {"absent"} /\ st = "running"
  <2>1. HumanLife!Start(j)
    BY <1>1, <1>4 DEF HumanLife!Start, HumanLife!Becomes, HumanLife!Final, Ended
  <2> QED
    BY <2>1 DEF HumanLife!Next
<1>5. CASE /\ status[j] \notin Ended \union {"absent"}
           /\ st \in {"in_progress", "waiting_input", "completed", "failed"}
  <2>1. HumanLife!Advance(j) \/ HumanLife!Finish(j)
    BY <1>1, <1>2, <1>5
    DEF HumanLife!Advance, HumanLife!Finish, HumanLife!Becomes, HumanLife!Going, Status
  <2> QED
    BY <2>1 DEF HumanLife!Next
<1>6. CASE status[j] \notin {"absent", "completed", "failed", "cancelled"} /\ st = "cancelled"
  <2>1. HumanLife!Cancel(j)
    BY <1>1, <1>2, <1>6 DEF HumanLife!Cancel, HumanLife!Becomes, HumanLife!Going, Status, Ended
  <2> QED
    BY <2>1 DEF HumanLife!Next
<1>7. CASE status[j] # "absent" /\ st = "interrupted"
  <2>1. status' = [i \in Job |-> IF i \in {j} THEN "interrupted" ELSE status[i]]
    BY <1>1, <1>7 DEF TypeOK
  <2>2. HumanLife!Reap({j})
    BY <1>7, <2>1 DEF HumanLife!Reap
  <2> QED
    BY <2>2 DEF HumanLife!Next
<1> QED
  BY <1>3, <1>4, <1>5, <1>6, <1>7 DEF OneStatus

\* The thread's writes stop at a final status.
LEMMA ThreadLife ==
    ASSUME TypeOK, RowThere, NEW j \in Job, pc[j] # "off",
           NEW st \in {"waiting_input", "in_progress", "completed", "failed"}, SetStatus(j, st)
    PROVE  OneStatus(j)
<1>1. /\ status'[j] = IF status[j] \in Ended THEN status[j] ELSE st
      /\ \A i \in Job \ {j} : status'[i] = status[i]
  BY DEF SetStatus, TypeOK
<1> QED
  BY <1>1 DEF RowThere, OneStatus

LEMMA StepHumanLife == HumanInv /\ RowThere /\ [Next]_vars => RowThere' /\ [HumanLife!Next]_status
<1> SUFFICES ASSUME TypeOK, TypeOK', RowThere, [Next]_vars
             PROVE  RowThere' /\ [HumanLife!Next]_status
  BY StepHumanTypes DEF HumanInv
<1>1. ASSUME NEW j \in Job, MarkWaiting(j) \/ Resume(j) \/ Record(j) \/ Settle(j)
      PROVE  OneStatus(j) /\ pc[j] # "off" /\ \A i \in Job : pc'[i] # pc[i] => i = j
  <2>1. /\ pc[j] # "off"
        /\ \E st \in {"waiting_input", "in_progress", "completed", "failed"} : SetStatus(j, st)
    BY <1>1 DEF MarkWaiting, Resume, Record, Recorded, Settle, At
  <2>2. \A i \in Job : pc'[i] # pc[i] => i = j
    BY <1>1 DEF MarkWaiting, Resume, Record, Settle, At, Goto, TypeOK
  <2> QED
    BY <2>1, <2>2, ThreadLife
<1>2. ASSUME NEW j \in Job, Submit(j) \/ LoopCancel(j) \/ Interrupt(j)
      PROVE  OneStatus(j) /\ (\A i \in Job : pc'[i] # pc[i] => i = j) /\ status'[j] # "absent"
  BY <1>2 DEF Submit, LoopCancel, Interrupt, Goto, OneStatus, RowThere, TypeOK, Ended
<1>3. ASSUME NEW j \in Job,
             \/ CreateQuestion(j) \/ CreateRefused(j) \/ Notify(j) \/ Poll(j) \/ FinalAnswered(j)
             \/ FinalUnanswered(j) \/ TakeDefault(j) \/ Expire(j) \/ Close(j) \/ Retry(j) \/ Clock(j)
      PROVE  UNCHANGED status /\ \A i \in Job : pc'[i] # pc[i] => pc[i] # "off"
  BY <1>3 DEF CreateQuestion, CreateRefused, Notify, Poll, PollAnswered, PollCancelled, Escalate,
     GiveUp, TimedOut, FinalAnswered, FinalUnanswered, TakeDefault, Expire, Close, Clock, FallDue,
     FallLate, Retry, At, Goto, TypeOK
<1>4. ASSUME \/ \E a \in Agent : RespondClose(a) \/ \E j \in Job : Respond(a, j)
             \/ ListQuestions \/ ReadInbox \/ Die \/ UNCHANGED vars
      PROVE  UNCHANGED status /\ \A i \in Job : pc'[i] # pc[i] => pc[i] # "off"
  BY <1>4 DEF RespondClose, Respond, ListQuestions, ReadInbox, Die, vars, TypeOK
<1>5. ASSUME UNCHANGED status, \A i \in Job : pc'[i] # pc[i] => pc[i] # "off"
      PROVE  RowThere' /\ [HumanLife!Next]_status
  BY <1>5 DEF RowThere
<1>6. ASSUME NEW j \in Job, OneStatus(j), \A i \in Job : pc'[i] # pc[i] => i = j,
             pc[j] # "off" \/ status'[j] # "absent"
      PROVE  RowThere' /\ [HumanLife!Next]_status
  <2>1. status'[j] # "absent"
    BY <1>6 DEF RowThere, OneStatus, Ended
  <2> QED
    BY <1>6, <2>1, OneStatusLife DEF RowThere, OneStatus
<1> QED
  BY <1>1, <1>2, <1>3, <1>4, <1>5, <1>6 DEF Next, Worker

\* A human step's thread, the agents that answer or cancel, and the next server
\* take a job through the statuses the abstract table allows: no late answer,
\* default or failure revives a job that was cancelled while it waited
\* (human_input.py, update_job's guard).
THEOREM HumanRefines == Spec => HumanLife!Spec
<1>1. Init => HumanLife!Init /\ RowThere
  BY DEF Init, HumanLife!Init, RowThere
<1> QED
  BY <1>1, StepHumanLife, HumanInvariant, PTL DEF Spec, HumanLife!Spec

-----------------------------------------------------------------------------
(* The outbox *)

\* A call that is about to mark notes was given them by a listing, and one that
\* is about to write the file has critical notes.
MarkingShown ==
    \A c \in Caller : /\ call[c].at = "mark"  => call[c].items \subseteq shown
                      /\ call[c].at = "write" => call[c].items \subseteq Critical

OutboxInv == OutboxTypeOK /\ MarkingShown /\ ReadWasShown /\ ArchivedBeforeGone

LEMMA IdleIsCall == Idle \in Call /\ Idle.at = "idle"
BY DEF Idle, Call

\* One thread moves, and the others stay where they are.
Moves(c, place) ==
    /\ call' \in [Caller -> Call]
    /\ call'[c].at = place
    /\ \A d \in Caller \ {c} : call'[d] = call[d]

LEMMA ProceedMoves ==
    ASSUME call \in [Caller -> Call], NEW c \in Caller,
           NEW place \in {"idle", "confirm", "list", "raised"}, Proceed(c, place)
    PROVE  Moves(c, place)
BY DEF Proceed, Moves, Idle, Call

LEMMA RefreshMoves ==
    ASSUME call \in [Caller -> Call], NEW c \in Caller,
           NEW next \in {"idle", "confirm", "list"}, Refresh(c, next)
    PROVE  Moves(c, "gather")
BY DEF Refresh, Moves, Idle, Call

LEMMA GatherMoves ==
    ASSUME call \in [Caller -> Call], NEW c \in Caller, NEW T \in SUBSET Note,
           call' = [call EXCEPT ![c].at = "write", ![c].items = T]
    PROVE  Moves(c, "write") /\ call'[c].items = T
<1>1. call[c] \in Call
  OBVIOUS
<1>2. [call[c] EXCEPT !.at = "write", !.items = T] \in Call
  BY <1>1 DEF Call
<1>3. call' = [call EXCEPT ![c] = [call[c] EXCEPT !.at = "write", !.items = T]]
  OBVIOUS
<1>4. call'[c] = [call[c] EXCEPT !.at = "write", !.items = T]
  BY <1>3
<1> QED
  BY <1>1, <1>2, <1>3, <1>4 DEF Moves, Call

\* A step that moves one thread, not to a marking nor to a writing, disturbs no other.
LEMMA MovesShown ==
    ASSUME MarkingShown, NEW c \in Caller, NEW place, place \notin {"mark", "write"}, Moves(c, place),
           shown \subseteq shown'
    PROVE  MarkingShown'
BY DEF MarkingShown, Moves

\* What a listing returns comes from the table.
LEMMA ListingsInside == ASSUME NEW S, NEW T \in Listings(S) PROVE T \subseteq S
BY DEF Listings

LEMMA InitOutbox == OutboxInit => OutboxInv
BY IdleIsCall DEF OutboxInit, OutboxInv, OutboxTypeOK, MarkingShown, ReadWasShown,
                  ArchivedBeforeGone

LEMMA StepOutbox == OutboxInv /\ [OutboxNext]_outboxVars => OutboxInv'
<1> SUFFICES ASSUME OutboxInv, [OutboxNext]_outboxVars PROVE OutboxInv'
  OBVIOUS
<1> USE OutboxAssumption
<1> USE DEF OutboxInv
<1>1. ASSUME NEW c \in Caller, NEW n \in Note, Create(c, n) PROVE OutboxInv'
  <2>1. Moves(c, IF n \in Critical THEN "gather" ELSE "confirm")
    BY <1>1 DEF OutboxTypeOK, Create, Moves, Idle, Call
  <2>2. MarkingShown'
    BY <1>1, <2>1, MovesShown DEF Create
  <2> QED
    BY <1>1, <2>1, <2>2 DEF Moves, OutboxTypeOK, ReadWasShown, Seen, ArchivedBeforeGone, Create
<1>2. ASSUME NEW c \in Caller, NEW items \in SUBSET Note, SetRead(c, items),
             shown' = shown, answered' \subseteq Asking, answered \subseteq answered',
             items \subseteq Seen'
      PROVE  OutboxInv'
  <2>1. Moves(c, "gather") \/ Moves(c, "idle")
    BY <1>2, RefreshMoves, ProceedMoves DEF SetRead, OutboxTypeOK
  <2>2. MarkingShown'
    BY <1>2, <2>1, MovesShown
  <2> QED
    BY <1>2, <2>1, <2>2 DEF Moves, OutboxTypeOK, ReadWasShown, Seen,
                             ArchivedBeforeGone, SetRead, MarkedBy
<1>3. ASSUME NEW c \in Caller, Confirm(c) PROVE OutboxInv'
  <2>1. Moves(c, "raised") \/ Moves(c, "idle")
    BY <1>3, ProceedMoves DEF Confirm, OutboxTypeOK
  <2>2. MarkingShown'
    BY <1>3, <2>1, MovesShown DEF Confirm
  <2> QED
    BY <1>3, <2>1, <2>2 DEF Moves, OutboxTypeOK, ReadWasShown, Seen, ArchivedBeforeGone, Confirm
<1>4. ASSUME NEW c \in Caller, Gather(c) PROVE OutboxInv'
  <2>1. PICK T \in Listings(UnreadCritical) :
           call' = [call EXCEPT ![c].at = "write", ![c].items = T]
    BY <1>4 DEF Gather
  <2>2. T \subseteq Critical /\ T \in SUBSET Note
    BY <2>1, ListingsInside DEF UnreadCritical
  <2>5. call \in [Caller -> Call]
    BY DEF OutboxTypeOK
  <2>3. Moves(c, "write") /\ call'[c].items = T
    BY <2>1, <2>2, <2>5, GatherMoves
  <2>4. MarkingShown'
    BY <1>4, <2>2, <2>3 DEF Gather, Moves, MarkingShown
  <2> QED
    BY <1>4, <2>3, <2>4 DEF Moves, OutboxTypeOK, ReadWasShown, Seen, ArchivedBeforeGone, Gather
<1>5. ASSUME NEW c \in Caller, WriteMirror(c) PROVE OutboxInv'
  <2>1. Moves(c, call[c].then) /\ call[c].then \notin {"mark", "write"}
    BY <1>5 DEF WriteMirror, OutboxTypeOK, Moves, Idle, Call
  <2>2. MarkingShown'
    BY <1>5, <2>1, MovesShown DEF WriteMirror
  <2>3. mirror' \subseteq Critical
    BY <1>5 DEF WriteMirror, OutboxTypeOK, MarkingShown
  <2> QED
    BY <1>5, <2>1, <2>2, <2>3 DEF Moves, OutboxTypeOK, ReadWasShown, Seen,
                                   ArchivedBeforeGone, WriteMirror
<1>6. ASSUME NEW c \in Caller, NEW next \in {"list", "idle"}, Sweep(c, next) PROVE OutboxInv'
  <2>1. Moves(c, "gather") \/ Moves(c, next)
    BY <1>6, RefreshMoves, ProceedMoves DEF Sweep, OutboxTypeOK
  <2>2. MarkingShown'
    BY <1>6, <2>1, MovesShown DEF Sweep
  <2> QED
    BY <1>6, <2>1, <2>2 DEF Moves, OutboxTypeOK, ReadWasShown, Seen, ArchivedBeforeGone, Sweep
<1>7. ASSUME NEW c \in Caller, ListInbox(c) PROVE OutboxInv'
  <2>1. PICK T \in Listings(Unread) :
           /\ shown' = shown \union T
           /\ \/ /\ T # {}
                 /\ call' = [call EXCEPT ![c] = [Idle EXCEPT !.at = "mark", !.items = T]]
              \/ Proceed(c, "idle")
    BY <1>7 DEF ListInbox
  <2>2. T \subseteq Note
    BY <2>1, ListingsInside DEF Unread
  <2>3. CASE Proceed(c, "idle")
    BY <1>7, <2>1, <2>2, <2>3, ProceedMoves, MovesShown
       DEF Moves, OutboxTypeOK, ReadWasShown, Seen, ArchivedBeforeGone, ListInbox
  <2>4. CASE call' = [call EXCEPT ![c] = [Idle EXCEPT !.at = "mark", !.items = T]]
    <3>1. Moves(c, "mark") /\ call'[c].items = T
      BY <2>2, <2>4 DEF OutboxTypeOK, Moves, Idle, Call
    <3>2. MarkingShown'
      BY <2>1, <3>1 DEF MarkingShown, Moves
    <3> QED
      BY <1>7, <2>1, <2>2, <3>1, <3>2
         DEF Moves, OutboxTypeOK, ReadWasShown, Seen, ArchivedBeforeGone, ListInbox
  <2> QED
    BY <2>1, <2>3, <2>4
<1>8. ASSUME NEW c \in Caller, MarkListed(c) PROVE OutboxInv'
  <2>1. call[c].items \subseteq shown /\ call[c].items \subseteq Note
    BY <1>8 DEF MarkListed, MarkingShown, OutboxTypeOK, Call
  <2> QED
    BY <1>2, <1>8, <2>1 DEF MarkListed, OutboxTypeOK, Seen
<1>13. ASSUME NEW c \in Caller, NEW asking \in Asking, MarkAnswered(c, asking) PROVE OutboxInv'
  BY <1>2, <1>13 DEF MarkAnswered, OutboxTypeOK, Seen
<1>9. ASSUME NEW c \in Caller, SweepLetters(c) PROVE OutboxInv'
  BY <1>9 DEF OutboxInv, OutboxTypeOK, MarkingShown, ReadWasShown, Seen, ArchivedBeforeGone,
              SweepLetters
<1>10. ASSUME NEW n \in Note, Age(n) PROVE OutboxInv'
  BY <1>10 DEF OutboxInv, OutboxTypeOK, MarkingShown, ReadWasShown, Seen, ArchivedBeforeGone, Age
<1>11. ASSUME NEW m \in Letter, CloseLetter(m) PROVE OutboxInv'
  BY <1>11 DEF OutboxInv, OutboxTypeOK, MarkingShown, ReadWasShown, Seen, ArchivedBeforeGone,
               CloseLetter
<1>12. CASE UNCHANGED outboxVars
  BY <1>12 DEF OutboxInv, OutboxTypeOK, MarkingShown, ReadWasShown, Seen, ArchivedBeforeGone,
               outboxVars
<1> QED
  BY <1>1, <1>3, <1>4, <1>5, <1>6, <1>7, <1>8, <1>9, <1>10, <1>11, <1>12, <1>13 DEF OutboxNext

\* The inductive invariant holds in every reachable state.
THEOREM OutboxInvariant == OutboxSpec => []OutboxInv
<1>1. OutboxInit => OutboxInv
  BY InitOutbox
<1>2. OutboxInv /\ [OutboxNext]_outboxVars => OutboxInv'
  BY StepOutbox
<1> QED
  BY <1>1, <1>2, PTL DEF OutboxSpec

\* Type correctness of the outbox.
THEOREM OutboxTypes == OutboxSpec => []OutboxTypeOK
<1>1. OutboxInv => OutboxTypeOK
  BY DEF OutboxInv
<1> QED
  BY <1>1, OutboxInvariant, PTL

\* A note is read only if an agent was given it or its question was answered
\* (loop_inbox lists first and marks later).
THEOREM NothingReadUnseen == OutboxSpec => []ReadWasShown
<1>1. OutboxInv => ReadWasShown
  BY DEF OutboxInv
<1> QED
  BY <1>1, OutboxInvariant, PTL

\* No message is deleted that the archive does not have (sweep_old_messages).
THEOREM NothingGoneUnarchived == OutboxSpec => []ArchivedBeforeGone
<1>1. OutboxInv => ArchivedBeforeGone
  BY DEF OutboxInv
<1> QED
  BY <1>1, OutboxInvariant, PTL

\* No step takes an unread note out of the table.
LEMMA StepUnread == OutboxTypeOK /\ [OutboxNext]_outboxVars =>
                       \A n \in Note : row[n] = "unread" => row'[n] # "none"
<1> SUFFICES ASSUME OutboxTypeOK, [OutboxNext]_outboxVars, NEW n \in Note, row[n] = "unread"
             PROVE  row'[n] # "none"
  OBVIOUS
<1>1. CASE \E c \in Caller, k \in Note : Create(c, k)
  BY <1>1 DEF OutboxTypeOK, Create
<1>2. CASE \E c \in Caller : MarkListed(c) \/ \E asking \in Asking : MarkAnswered(c, asking)
  BY <1>2 DEF OutboxTypeOK, MarkListed, MarkAnswered, SetRead
<1>3. CASE \E c \in Caller : Sweep(c, "list") \/ Sweep(c, "idle")
  BY <1>3 DEF OutboxTypeOK, Sweep
<1>4. CASE UNCHANGED row
  BY <1>4
<1> QED
  BY <1>1, <1>2, <1>3, <1>4 DEF OutboxNext, Confirm, Gather, WriteMirror, ListInbox,
                                SweepLetters, Age, CloseLetter, outboxVars

\* An unread note stays in the table until it is read, whatever the sweeps and
\* the repeated creations of other threads do.
THEOREM UnreadIsKept == OutboxSpec => UnreadStays
<1>1. OutboxTypeOK /\ [OutboxNext]_outboxVars =>
         [\A n \in Note : row[n] = "unread" => row'[n] # "none"]_outboxVars
  BY StepUnread
<1> QED
  BY <1>1, OutboxTypes, PTL DEF OutboxSpec, UnreadStays

-----------------------------------------------------------------------------
(* The mirror file of the outbox *)

\* As long as nothing crossed: what a thread is about to write is still what is
\* unread and critical, and the file is, or someone is on the way to rewrite it.
MirrorFollows ==
    ~crossed =>
        /\ \A c \in Caller : call[c].at = "write" => call[c].items \in Listings(UnreadCritical)
        /\ mirror \in Listings(UnreadCritical) \/ \E c \in Caller : call[c].at \in {"gather", "write"}

\* A step that leaves the critical notes alone, of a thread that is not writing them.
LEMMA ElsewhereFollows ==
    ASSUME MirrorFollows, NEW c \in Caller, NEW place, place # "write", Moves(c, place),
           call[c].at \notin {"gather", "write"},
           UnreadCritical' = UnreadCritical, mirror' = mirror, crossed' = crossed
    PROVE  MirrorFollows'
BY DEF MirrorFollows, Moves, Listings

\* A step that changes them when no other thread has listed them, and goes on to
\* rewrite the file.
LEMMA ChangedFollows ==
    ASSUME NEW c \in Caller, Moves(c, "gather"), crossed' = (crossed \/ Pending(c))
    PROVE  MirrorFollows'
BY DEF MirrorFollows, Moves, Pending

LEMMA SetReadFollows ==
    ASSUME OutboxTypeOK, MirrorFollows, NEW c \in Caller, NEW items \in SUBSET Note,
           call[c].at \in {"idle", "mark"}, SetRead(c, items)
    PROVE  MirrorFollows'
<1> USE OutboxAssumption
<1> DEFINE marked == MarkedBy(items)
<1>1. CASE marked \intersect Critical # {}
  <2>1. Refresh(c, "idle")
    BY <1>1 DEF SetRead
  <2>2. Moves(c, "gather")
    BY <2>1, RefreshMoves DEF OutboxTypeOK
  <2>3. crossed' = (crossed \/ Pending(c))
    BY <1>1 DEF SetRead
  <2> QED
    BY <2>2, <2>3, ChangedFollows
<1>2. CASE marked \intersect Critical = {}
  <2>1. Moves(c, "gather") \/ Moves(c, "idle")
    BY RefreshMoves, ProceedMoves DEF SetRead, OutboxTypeOK
  <2>2. \A n \in Critical : (row'[n] = "unread") <=> (row[n] = "unread")
    BY <1>2 DEF SetRead, MarkedBy
  <2>3. UnreadCritical' = UnreadCritical
    BY <2>2 DEF UnreadCritical, Unread
  <2>4. mirror' = mirror /\ crossed' = crossed
    BY <1>2 DEF SetRead, OutboxTypeOK
  <2> QED
    BY <2>1, <2>3, <2>4, ElsewhereFollows
<1> QED
  BY <1>1, <1>2

LEMMA StepMirror == OutboxInv /\ MirrorFollows /\ [OutboxNext]_outboxVars => MirrorFollows'
<1> SUFFICES ASSUME OutboxInv, MirrorFollows, [OutboxNext]_outboxVars PROVE MirrorFollows'
  OBVIOUS
<1> USE OutboxAssumption
<1>0. OutboxTypeOK
  BY DEF OutboxInv
<1>1. ASSUME NEW c \in Caller, NEW n \in Note, Create(c, n) PROVE MirrorFollows'
  <2>1. Moves(c, IF n \in Critical THEN "gather" ELSE "confirm")
    BY <1>0, <1>1 DEF OutboxTypeOK, Create, Moves, Idle, Call
  <2>2. CASE n \in Critical
    BY <1>1, <2>1, <2>2, ChangedFollows DEF Create
  <2>3. CASE n \notin Critical
    <3>1. \A k \in Critical : row'[k] = row[k]
      BY <1>0, <1>1, <2>3 DEF Create, OutboxTypeOK
    <3>2. UnreadCritical' = UnreadCritical
      BY <3>1 DEF UnreadCritical, Unread
    <3>3. mirror' = mirror /\ crossed' = crossed
      BY <1>0, <1>1, <2>3 DEF Create, OutboxTypeOK
    <3> QED
      BY <1>1, <2>1, <2>3, <3>2, <3>3, ElsewhereFollows DEF Create
  <2> QED
    BY <2>2, <2>3
<1>2. ASSUME NEW c \in Caller, Confirm(c) \/ ListInbox(c) PROVE MirrorFollows'
  <2>1. UnreadCritical' = UnreadCritical /\ mirror' = mirror /\ crossed' = crossed
    BY <1>2 DEF Confirm, ListInbox, UnreadCritical, Unread
  <2>2. \E place \in {"raised", "idle", "mark"} : Moves(c, place)
    <3>1. ASSUME NEW T \in Listings(Unread),
                 call' = [call EXCEPT ![c] = [Idle EXCEPT !.at = "mark", !.items = T]]
          PROVE  Moves(c, "mark")
      <4>1. T \subseteq Note
        BY ListingsInside DEF Unread
      <4> QED
        BY <1>0, <3>1, <4>1 DEF OutboxTypeOK, Moves, Idle, Call
    <3> QED
      BY <1>0, <1>2, <3>1, ProceedMoves DEF Confirm, ListInbox, OutboxTypeOK
  <2> QED
    BY <1>2, <2>1, <2>2, ElsewhereFollows DEF Confirm, ListInbox
<1>3. ASSUME NEW c \in Caller, Gather(c) PROVE MirrorFollows'
  <2>1. PICK T \in Listings(UnreadCritical) :
           call' = [call EXCEPT ![c].at = "write", ![c].items = T]
    BY <1>3 DEF Gather
  <2>2. /\ call'[c].at = "write" /\ call'[c].items = T
        /\ \A d \in Caller \ {c} : call'[d] = call[d]
    BY <1>0, <2>1 DEF OutboxTypeOK, Call
  <2>3. Listings(UnreadCritical)' = Listings(UnreadCritical) /\ crossed' = crossed
    BY <1>3 DEF Gather, Listings, UnreadCritical, Unread
  <2> QED
    BY <2>2, <2>3 DEF MirrorFollows
<1>4. ASSUME NEW c \in Caller, WriteMirror(c) PROVE MirrorFollows'
  <2>1. Moves(c, call[c].then) /\ call[c].then # "write"
    BY <1>0, <1>4 DEF WriteMirror, OutboxTypeOK, Moves, Idle, Call
  <2>2. Listings(UnreadCritical)' = Listings(UnreadCritical)
    BY <1>4 DEF WriteMirror, Listings, UnreadCritical, Unread
  <2>3. ~crossed' => ~crossed /\ ~Pending(c) /\ mirror' = call[c].items
    BY <1>4 DEF WriteMirror
  <2> QED
    BY <1>4, <2>1, <2>2, <2>3 DEF WriteMirror, MirrorFollows, Moves, Pending
<1>5. ASSUME NEW c \in Caller, NEW next \in {"list", "idle"}, Sweep(c, next) PROVE MirrorFollows'
  <2>1. Moves(c, "gather") \/ Moves(c, next)
    BY <1>0, <1>5, RefreshMoves, ProceedMoves DEF Sweep, OutboxTypeOK
  <2>2. \A n \in Note : (row'[n] = "unread") <=> (row[n] = "unread")
    BY <1>5 DEF Sweep
  <2>3. UnreadCritical' = UnreadCritical
    BY <2>2 DEF UnreadCritical, Unread
  <2> QED
    BY <1>5, <2>1, <2>3, ElsewhereFollows DEF Sweep
<1>6. ASSUME NEW c \in Caller, MarkListed(c) PROVE MirrorFollows'
  <2>1. call[c].items \subseteq Note
    BY <1>0, <1>6 DEF OutboxTypeOK, Call
  <2> QED
    BY <1>0, <1>6, <2>1, SetReadFollows DEF MarkListed
<1>7. ASSUME NEW c \in Caller, NEW asking \in Asking, MarkAnswered(c, asking) PROVE MirrorFollows'
  BY <1>0, <1>7, SetReadFollows DEF MarkAnswered
<1>8. ASSUME UNCHANGED <<row, mirror, call, crossed>> PROVE MirrorFollows'
  BY <1>8 DEF MirrorFollows, Listings, UnreadCritical, Unread
<1> QED
  BY <1>1, <1>2, <1>3, <1>4, <1>5, <1>6, <1>7, <1>8
     DEF OutboxNext, SweepLetters, Age, CloseLetter, outboxVars

\* critical.json lists what is unread and critical whenever no call is under way,
\* for any number of threads that rewrite it, unless a row changed between a
\* listing and its writing (_write_critical_fallback).
THEOREM MirrorKept == OutboxSpec => []MirrorExactUncrossed
<1>1. OutboxInit => MirrorFollows
  <2> SUFFICES ASSUME OutboxInit PROVE MirrorFollows
    OBVIOUS
  <2>1. UnreadCritical = {}
    BY OutboxAssumption DEF OutboxInit, UnreadCritical, Unread
  <2>2. {} \in Listings({})
    BY FS_EmptySet, OutboxAssumption DEF Listings
  <2> QED
    BY <2>1, <2>2 DEF OutboxInit, MirrorFollows, Idle
<1>2. MirrorFollows => MirrorExactUncrossed
  BY DEF MirrorFollows, MirrorExactUncrossed, AtRest
<1> QED
  BY <1>1, <1>2, StepMirror, OutboxInvariant, PTL DEF OutboxSpec

-----------------------------------------------------------------------------
(* Event streams *)

\* A put, a callback that runs and an event that is taken leave a reader a reader.
LEMMA ReaderPut ==
    ASSUME NEW E, NEW r \in Reader(E), NEW e \in E
    PROVE  /\ SafePut(r, e) \in Reader(E)
           /\ Len(r.queue) <= QueueSize => Len(SafePut(r, e).queue) <= QueueSize
           /\ Soon(r, e) \in Reader(E) /\ Soon(r, e).queue = r.queue
<1>1. /\ r.queue \in Seq(E) /\ r.landing \in Seq(E) /\ Len(r.queue) \in Nat
      /\ r = [at |-> r.at, listed |-> r.listed, landing |-> r.landing, queue |-> r.queue]
      /\ r.at \in {"off", "reading", "ended"} /\ r.listed \in BOOLEAN
  BY DEF Reader
<1>2. /\ Append(r.queue, e) \in Seq(E) /\ Len(Append(r.queue, e)) = Len(r.queue) + 1
      /\ Append(r.landing, e) \in Seq(E)
  BY <1>1
<1> DEFINE q == Append(r.queue, e)
           l == Append(r.landing, e)
<1> HIDE DEF q, l
<1>3. /\ [r EXCEPT !.queue = q] \in Reader(E) /\ [r EXCEPT !.queue = q].queue = q
      /\ [r EXCEPT !.landing = l] \in Reader(E) /\ [r EXCEPT !.landing = l].queue = r.queue
  BY <1>1, <1>2 DEF Reader, q, l
<1>4. SafePut(r, e) = (IF Len(r.queue) < QueueSize THEN [r EXCEPT !.queue = q] ELSE r)
      /\ Soon(r, e) = [r EXCEPT !.landing = l]
  BY DEF SafePut, Soon, q, l
<1>5. Len(q) = Len(r.queue) + 1
  BY <1>2 DEF q
<1> QED
  BY <1>1, <1>3, <1>4, <1>5, StreamAssumption

LEMMA ReaderLands ==
    ASSUME NEW E, NEW r \in Reader(E), r.landing # <<>>
    PROVE  /\ Landed(r) \in Reader(E)
           /\ Len(r.queue) <= QueueSize => Len(Landed(r).queue) <= QueueSize
<1> DEFINE t == Tail(r.landing)
           e == Head(r.landing)
           q == [r EXCEPT !.landing = t]
<1>1. t \in Seq(E) /\ e \in E
  BY DEF Reader
<1> HIDE DEF t, e
<1>2. q \in Reader(E) /\ q.queue = r.queue
  BY <1>1 DEF Reader
<1>3. Landed(r) = SafePut(q, e)
  BY DEF Landed, t, e
<1> HIDE DEF q
<1>4. /\ SafePut(q, e) \in Reader(E)
      /\ Len(q.queue) <= QueueSize => Len(SafePut(q, e).queue) <= QueueSize
  BY <1>1, <1>2, ReaderPut
<1> QED
  BY <1>2, <1>3, <1>4

LEMMA ReaderTakes ==
    ASSUME NEW E, NEW r \in Reader(E), NEW ends, r.queue # <<>>
    PROVE  /\ Taken(r, ends) \in Reader(E)
           /\ Len(Taken(r, ends).queue) = Len(r.queue) - 1
<1> DEFINE t == Tail(r.queue)
           q == [r EXCEPT !.queue = t]
<1>1. t \in Seq(E) /\ Len(t) = Len(r.queue) - 1
  BY DEF Reader
<1> HIDE DEF t
<1>2. /\ q \in Reader(E) /\ q.queue = t
      /\ AtEnd(q) \in Reader(E) /\ AtEnd(q).queue = t
  BY <1>1 DEF Reader, AtEnd
<1>3. Taken(r, ends) = IF Head(r.queue) \in ends THEN AtEnd(q) ELSE q
  BY DEF Taken, t
<1> HIDE DEF q
<1> QED
  BY <1>1, <1>2, <1>3

\* the end of a history of at most HistorySize events
LEMMA HistoryPut ==
    ASSUME NEW E, NEW h \in Seq(E), Len(h) <= HistorySize, NEW e \in E
    PROVE  Remember(h, e) \in Seq(E) /\ Len(Remember(h, e)) <= HistorySize
BY StreamAssumption DEF Remember

LEMMA ProtocolTypes == StreamTypeOK /\ ProtocolNext => StreamTypeOK'
<1> SUFFICES ASSUME StreamTypeOK, ProtocolNext PROVE StreamTypeOK'
  OBVIOUS
<1> USE DEF StreamTypeOK, emitterVars
<1>1. ASSUME NEW e \in ProtocolEvent, EmitProtocol(e), job' \in {"absent", "running", "paused", "cancelled"}
      PROVE  StreamTypeOK'
  <2>1. ASSUME NEW s \in Subscriber
        PROVE  sub'[s] \in Reader(ProtocolEvent) /\ Len(sub'[s].queue) <= QueueSize
    BY <1>1, ReaderPut DEF EmitProtocol
  <2>2. sub' \in [Subscriber -> Reader(ProtocolEvent)]
    BY <1>1, <2>1 DEF EmitProtocol
  <2>3. events' \in Seq(ProtocolEvent)
    BY <1>1 DEF EmitProtocol
  <2> QED
    BY <1>1, <2>1, <2>2, <2>3 DEF EmitProtocol
<1>2. CASE start_loop \/ pause_loop \/ resume_loop \/ cancel_loop
  BY <1>1, <1>2 DEF start_loop, pause_loop, resume_loop, cancel_loop, ProtocolEvent
<1>3. ASSUME NEW s \in Subscriber, NEW new \in Reader(ProtocolEvent),
             Len(new.queue) <= QueueSize, sub' = [sub EXCEPT ![s] = new],
             UNCHANGED <<job, events, emitterVars>>
      PROVE  StreamTypeOK'
  BY <1>3
<1>4. ASSUME NEW s \in Subscriber, Subscribe(s) PROVE StreamTypeOK'
  <2>1. [sub[s] EXCEPT !.at = "reading", !.listed = TRUE] \in Reader(ProtocolEvent)
    BY DEF Reader
  <2>2. sub' = [sub EXCEPT ![s] = [sub[s] EXCEPT !.at = "reading", !.listed = TRUE]]
    BY <1>4 DEF Subscribe
  <2>3. UNCHANGED <<job, events, emitterVars>>
    BY <1>4 DEF Subscribe
  <2>4. Len([sub[s] EXCEPT !.at = "reading", !.listed = TRUE].queue) <= QueueSize
    BY DEF Reader
  <2> QED
    BY <1>3, <2>1, <2>2, <2>3, <2>4
<1>5. ASSUME NEW s \in Subscriber, SubLands(s) PROVE StreamTypeOK'
  BY <1>3, <1>5, ReaderLands DEF SubLands
<1>6. ASSUME NEW s \in Subscriber, SubTakes(s) PROVE StreamTypeOK'
  <2>1. Taken(sub[s], SubscriptionEnd) \in Reader(ProtocolEvent)
    BY <1>6, ReaderTakes DEF SubTakes
  <2>2. Len(Taken(sub[s], SubscriptionEnd).queue) <= QueueSize
    <3>1. sub[s].queue # <<>> /\ sub[s] \in Reader(ProtocolEvent) /\ Len(sub[s].queue) <= QueueSize
      BY <1>6 DEF SubTakes
    <3>2. Len(Taken(sub[s], SubscriptionEnd).queue) = Len(sub[s].queue) - 1
      BY <3>1, ReaderTakes
    <3>3. Len(sub[s].queue) \in Nat
      BY <3>1 DEF Reader
    <3> QED
      BY <3>1, <3>2, <3>3, StreamAssumption
  <2> QED
    BY <1>3, <1>6, <2>1, <2>2 DEF SubTakes
<1>7. ASSUME NEW s \in Subscriber, SubTimesOut(s) PROVE StreamTypeOK'
  <2>1. AtEnd(sub[s]) \in Reader(ProtocolEvent) /\ AtEnd(sub[s]).queue = sub[s].queue
    BY DEF AtEnd, Reader
  <2> QED
    BY <1>3, <1>7, <2>1 DEF SubTimesOut
<1> QED
  BY <1>2, <1>4, <1>5, <1>6, <1>7 DEF ProtocolNext

LEMMA EmitterTypes == StreamTypeOK /\ EmitterNext => StreamTypeOK'
<1> SUFFICES ASSUME StreamTypeOK, EmitterNext PROVE StreamTypeOK'
  OBVIOUS
<1> USE DEF StreamTypeOK, protocolVars
<1>1. ASSUME NEW e \in EmitterEvent, emit(e), engine' \in {"idle", "running", "over"}
      PROVE  StreamTypeOK'
  <2>1. ASSUME NEW s \in Stream
        PROVE  stream'[s] \in Reader(EmitterEvent) /\ Len(stream'[s].queue) <= QueueSize
    BY <1>1, ReaderPut DEF emit
  <2>2. stream' \in [Stream -> Reader(EmitterEvent)]
    BY <1>1, <2>1 DEF emit
  <2>3. /\ history' \in Seq(EmitterEvent \ {"step_chunk"})
        /\ Len(history') <= HistorySize
    BY <1>1, HistoryPut DEF emit
  <2>4. emitted' \in 0..MaxEvents
    BY <1>1, StreamAssumption DEF emit
  <2> QED
    BY <1>1, <2>1, <2>2, <2>3, <2>4 DEF emit
<1>2. ASSUME NEW e \in EmitterEvent, RunEmits(e) \/ RunEnds(e) PROVE StreamTypeOK'
  BY <1>1, <1>2 DEF RunEmits, RunEnds
<1>3. ASSUME NEW s \in Stream, NEW new \in Reader(EmitterEvent),
             Len(new.queue) <= QueueSize, stream' = [stream EXCEPT ![s] = new],
             UNCHANGED <<engine, history, emitted, protocolVars>>
      PROVE  StreamTypeOK'
  BY <1>3
<1>4. ASSUME NEW s \in Stream, StreamOpens(s) PROVE StreamTypeOK'
  <2>1. [stream[s] EXCEPT !.at = "reading", !.listed = TRUE] \in Reader(EmitterEvent)
    BY DEF Reader
  <2>2. stream' = [stream EXCEPT ![s] = [stream[s] EXCEPT !.at = "reading", !.listed = TRUE]]
    BY <1>4 DEF StreamOpens
  <2>3. UNCHANGED <<engine, history, emitted, protocolVars>>
    BY <1>4 DEF StreamOpens
  <2>4. Len([stream[s] EXCEPT !.at = "reading", !.listed = TRUE].queue) <= QueueSize
    BY DEF Reader
  <2> QED
    BY <1>3, <2>1, <2>2, <2>3, <2>4
<1>5. ASSUME NEW s \in Stream, StreamLands(s) PROVE StreamTypeOK'
  BY <1>3, <1>5, ReaderLands DEF StreamLands
<1>6. ASSUME NEW s \in Stream, StreamTakes(s) PROVE StreamTypeOK'
  <2>1. Taken(stream[s], TERMINAL_EVENTS) \in Reader(EmitterEvent)
    BY <1>6, ReaderTakes DEF StreamTakes
  <2>2. Len(Taken(stream[s], TERMINAL_EVENTS).queue) <= QueueSize
    <3>1. stream[s].queue # <<>> /\ stream[s] \in Reader(EmitterEvent) /\ Len(stream[s].queue) <= QueueSize
      BY <1>6 DEF StreamTakes
    <3>2. Len(Taken(stream[s], TERMINAL_EVENTS).queue) = Len(stream[s].queue) - 1
      BY <3>1, ReaderTakes
    <3>3. Len(stream[s].queue) \in Nat
      BY <3>1 DEF Reader
    <3> QED
      BY <3>1, <3>2, <3>3, StreamAssumption
  <2> QED
    BY <1>3, <1>6, <2>1, <2>2 DEF StreamTakes
<1>7. ASSUME NEW s \in Stream, StreamCloses(s) PROVE StreamTypeOK'
  <2>1. AtEnd(stream[s]) \in Reader(EmitterEvent) /\ AtEnd(stream[s]).queue = stream[s].queue
    BY DEF AtEnd, Reader
  <2> QED
    BY <1>3, <1>7, <2>1 DEF StreamCloses
<1>8. CASE RunStarts
  BY <1>8 DEF RunStarts
<1> QED
  BY <1>2, <1>4, <1>5, <1>6, <1>7, <1>8 DEF EmitterNext

LEMMA InitStreams == StreamInit => StreamTypeOK
BY StreamAssumption DEF StreamInit, StreamTypeOK, NoReader, Reader

LEMMA StepStreams == StreamTypeOK /\ [StreamNext]_streamVars => StreamTypeOK'
<1>1. StreamTypeOK /\ UNCHANGED streamVars => StreamTypeOK'
  BY DEF StreamTypeOK, streamVars
<1> QED
  BY <1>1, ProtocolTypes, EmitterTypes DEF StreamNext

\* Every queue of the two sources keeps to its size, and the history to its own.
THEOREM StreamTypes == StreamSpec => []StreamTypeOK
<1> QED
  BY InitStreams, StepStreams, PTL DEF StreamSpec

-----------------------------------------------------------------------------
(* The end of a stream *)

\* An event of ends is on its way to a reader, or in its queue.
Told(r, ends) == \/ \E i \in DOMAIN r.queue : r.queue[i] \in ends
                 \/ \E i \in DOMAIN r.landing : r.landing[i] \in ends

\* Nothing is behind such an event.
EndLast(r, ends) ==
    /\ \A i \in DOMAIN r.queue : r.queue[i] \in ends => i = Len(r.queue) /\ r.landing = <<>>
    /\ \A i \in DOMAIN r.landing : r.landing[i] \in ends => i = Len(r.landing)

\* A reader is told of an end that has come (over), and of nothing after it.
ReaderFits(r, ends, over) == EndLast(r, ends) /\ (Told(r, ends) => over)

EndedTruly == \A s \in Subscriber : sub[s].at = "ended" => job = "cancelled"

NothingBehindEnd ==
    /\ \A s \in Subscriber : EndLast(sub[s], SubscriptionEnd)
    /\ \A s \in Stream : EndLast(stream[s], TERMINAL_EVENTS)

\* The synchronous iterator's queue is filled by the emitting thread itself.
SyncLandsAtOnce == \A s \in Stream : s \in SyncStream => stream[s].landing = <<>>

StreamInv ==
    /\ StreamTypeOK
    /\ EndedTruly /\ SyncLandsAtOnce
    /\ \A s \in Subscriber : ReaderFits(sub[s], SubscriptionEnd, job = "cancelled")
    /\ \A s \in Stream : ReaderFits(stream[s], TERMINAL_EVENTS, engine = "over")

LEMMA InitEnds == StreamInit => StreamInv
BY InitStreams
DEF StreamInit, StreamInv, NoReader, EndedTruly, SyncLandsAtOnce, ReaderFits, EndLast, Told

\* While no end has come, an event may be put; afterwards the end may be the last.
LEMMA PutFits ==
    ASSUME NEW E, NEW r \in Reader(E), NEW e \in E, NEW ends, ReaderFits(r, ends, FALSE),
           NEW over \in BOOLEAN, e \in ends => over
    PROVE  /\ ReaderFits(Soon(r, e), ends, over)
           /\ r.landing = <<>> => ReaderFits(SafePut(r, e), ends, over)
<1>1. r.queue \in Seq(E) /\ r.landing \in Seq(E)
  BY DEF Reader
<1>2. /\ \A i \in DOMAIN r.queue : r.queue[i] \notin ends
      /\ \A i \in DOMAIN r.landing : r.landing[i] \notin ends
  BY DEF ReaderFits, Told
<1> DEFINE q == Append(r.queue, e)
           l == Append(r.landing, e)
<1>3. /\ Soon(r, e).queue = r.queue /\ Soon(r, e).landing = l
      /\ SafePut(r, e).landing = r.landing /\ SafePut(r, e).queue \in {r.queue, q}
  BY DEF Soon, SafePut, Reader
<1>4. \A i \in DOMAIN l : l[i] \in ends => i = Len(l) /\ over
  BY <1>1, <1>2
<1>5. \A i \in DOMAIN q : q[i] \in ends => i = Len(q) /\ over
  BY <1>1, <1>2
<1> HIDE DEF q, l
<1> QED
  BY <1>2, <1>3, <1>4, <1>5 DEF ReaderFits, EndLast, Told

\* The oldest callback puts its event, or drops it.
LEMMA LandFits ==
    ASSUME NEW E, NEW r \in Reader(E), NEW ends, NEW over \in BOOLEAN, ReaderFits(r, ends, over),
           r.landing # <<>>
    PROVE  ReaderFits(Landed(r), ends, over) /\ Landed(r).at = r.at
<1>1. r.queue \in Seq(E) /\ r.landing \in Seq(E)
  BY DEF Reader
<1> DEFINE e == Head(r.landing)
           t == Tail(r.landing)
           q == Append(r.queue, e)
<1>2. /\ Landed(r).landing = t /\ Landed(r).queue \in {r.queue, q} /\ Landed(r).at = r.at
  BY DEF Landed, SafePut, Reader
<1>3. /\ \A i \in DOMAIN r.queue : r.queue[i] \notin ends
      /\ \A i \in DOMAIN r.landing : r.landing[i] \in ends => i = Len(r.landing) /\ over
  BY <1>1 DEF ReaderFits, EndLast, Told
<1>4. \A i \in DOMAIN t : t[i] \in ends => i = Len(t) /\ over
  BY <1>1, <1>3
<1>5. e \in ends => t = <<>> /\ over
  BY <1>1, <1>3
<1>6. \A i \in DOMAIN q : q[i] \in ends => i = Len(q) /\ t = <<>> /\ over
  BY <1>1, <1>3, <1>5
<1> HIDE DEF e, t, q
<1> QED
  BY <1>2, <1>3, <1>4, <1>6 DEF ReaderFits, EndLast, Told

\* The generator takes an event; it ends only if that is an end.
LEMMA TakeFits ==
    ASSUME NEW E, NEW r \in Reader(E), NEW ends, NEW over \in BOOLEAN, ReaderFits(r, ends, over),
           r.queue # <<>>
    PROVE  /\ ReaderFits(Taken(r, ends), ends, over) /\ Taken(r, ends).landing = r.landing
           /\ Taken(r, ends).at = r.at \/ over
<1>1. r.queue \in Seq(E) /\ r.landing \in Seq(E)
  BY DEF Reader
<1> DEFINE t == Tail(r.queue)
<1>2. /\ Taken(r, ends).landing = r.landing /\ Taken(r, ends).queue = t
      /\ Taken(r, ends).at = r.at \/ Head(r.queue) \in ends
  BY DEF Taken, AtEnd, Reader
<1>3. Head(r.queue) \in ends => over
  BY <1>1 DEF ReaderFits, Told
<1>4. \A i \in DOMAIN t : t[i] \in ends => i = Len(t) /\ r.landing = <<>> /\ over
  BY <1>1 DEF ReaderFits, EndLast, Told
<1> HIDE DEF t
<1> QED
  BY <1>2, <1>3, <1>4 DEF ReaderFits, EndLast, Told

\* What does not touch the queue keeps the rest.
LEMMA SameQueueFits ==
    ASSUME NEW r, NEW n, NEW ends, NEW over \in BOOLEAN, ReaderFits(r, ends, over),
           n.queue = r.queue, n.landing = r.landing
    PROVE  ReaderFits(n, ends, over)
BY DEF ReaderFits, EndLast, Told

LEMMA ProtocolEnds == StreamInv /\ ProtocolNext => StreamInv'
<1> SUFFICES ASSUME StreamInv, ProtocolNext PROVE StreamInv'
  OBVIOUS
<1>1. /\ StreamTypeOK /\ StreamTypeOK' /\ EndedTruly
      /\ \A s \in Subscriber : /\ sub[s] \in Reader(ProtocolEvent)
                               /\ ReaderFits(sub[s], SubscriptionEnd, job = "cancelled")
  BY ProtocolTypes DEF StreamInv, StreamTypeOK
<1>2. UNCHANGED emitterVars
  BY DEF ProtocolNext, start_loop, pause_loop, resume_loop, cancel_loop, EmitProtocol, Subscribe,
         SubLands, SubTakes, SubTimesOut
<1>3. SUFFICES \A s \in Subscriber : /\ ReaderFits(sub'[s], SubscriptionEnd, job' = "cancelled")
                                     /\ sub'[s].at = "ended" => job' = "cancelled"
  BY <1>1, <1>2 DEF StreamInv, EndedTruly, SyncLandsAtOnce, emitterVars
<1>4. ASSUME NEW e \in ProtocolEvent, EmitProtocol(e), job # "cancelled",
             e \in SubscriptionEnd => job' = "cancelled", NEW s \in Subscriber
      PROVE  /\ ReaderFits(sub'[s], SubscriptionEnd, job' = "cancelled")
             /\ sub'[s].at = "ended" => job' = "cancelled"
  <2>1. /\ ReaderFits(sub[s], SubscriptionEnd, FALSE) /\ sub[s].at # "ended"
        /\ sub[s] \in Reader(ProtocolEvent)
    BY <1>1, <1>4 DEF ReaderFits, EndedTruly
  <2>2. CASE sub[s].listed
    <3>1. sub'[s] = Soon(sub[s], e)
      BY <1>4, <2>2 DEF EmitProtocol
    <3>2. Soon(sub[s], e).at = sub[s].at
      BY <2>1 DEF Soon, Reader
    <3>3. ReaderFits(Soon(sub[s], e), SubscriptionEnd, job' = "cancelled")
      BY <1>4, <2>1, PutFits
    <3> QED
      BY <2>1, <3>1, <3>2, <3>3
  <2>3. CASE ~sub[s].listed
    <3>1. sub'[s] = sub[s]
      BY <1>4, <2>3 DEF EmitProtocol
    <3> QED
      BY <2>1, <3>1 DEF ReaderFits
  <2> QED
    BY <2>2, <2>3
<1>5. CASE start_loop \/ pause_loop \/ resume_loop \/ cancel_loop
  BY <1>4, <1>5 DEF start_loop, pause_loop, resume_loop, cancel_loop, ProtocolEvent,
                    SubscriptionEnd, EndedStatus
<1>6. ASSUME NEW s \in Subscriber, NEW n, job' = job, sub' = [sub EXCEPT ![s] = n],
             ReaderFits(n, SubscriptionEnd, job = "cancelled"),
             n.at = "ended" => sub[s].at = "ended" \/ job = "cancelled"
      PROVE  \A k \in Subscriber : /\ ReaderFits(sub'[k], SubscriptionEnd, job' = "cancelled")
                                   /\ sub'[k].at = "ended" => job' = "cancelled"
  BY <1>1, <1>6 DEF StreamTypeOK, EndedTruly
<1>7. ASSUME NEW s \in Subscriber, Subscribe(s)
      PROVE  \A k \in Subscriber : /\ ReaderFits(sub'[k], SubscriptionEnd, job' = "cancelled")
                                   /\ sub'[k].at = "ended" => job' = "cancelled"
  <2> DEFINE n == [sub[s] EXCEPT !.at = "reading", !.listed = TRUE]
  <2>1. n.queue = sub[s].queue /\ n.landing = sub[s].landing /\ n.at = "reading"
    BY <1>1 DEF Reader
  <2>2. job' = job /\ sub' = [sub EXCEPT ![s] = n]
    BY <1>7 DEF Subscribe
  <2> HIDE DEF n
  <2>3. ReaderFits(n, SubscriptionEnd, job = "cancelled")
    BY <1>1, <2>1, SameQueueFits
  <2> QED
    BY <1>6, <2>1, <2>2, <2>3
<1>8. ASSUME NEW s \in Subscriber, SubLands(s)
      PROVE  \A k \in Subscriber : /\ ReaderFits(sub'[k], SubscriptionEnd, job' = "cancelled")
                                   /\ sub'[k].at = "ended" => job' = "cancelled"
  <2>1. /\ ReaderFits(Landed(sub[s]), SubscriptionEnd, job = "cancelled")
        /\ Landed(sub[s]).at = sub[s].at
    BY <1>1, <1>8, LandFits DEF SubLands
  <2> QED
    BY <1>6, <1>8, <2>1 DEF SubLands
<1>9. ASSUME NEW s \in Subscriber, SubTakes(s)
      PROVE  \A k \in Subscriber : /\ ReaderFits(sub'[k], SubscriptionEnd, job' = "cancelled")
                                   /\ sub'[k].at = "ended" => job' = "cancelled"
  <2>1. LET n == Taken(sub[s], SubscriptionEnd)
        IN  ReaderFits(n, SubscriptionEnd, job = "cancelled") /\ (n.at = sub[s].at \/ job = "cancelled")
    BY <1>1, <1>9, TakeFits DEF SubTakes
  <2> QED
    BY <1>6, <1>9, <2>1 DEF SubTakes
<1>10. ASSUME NEW s \in Subscriber, SubTimesOut(s)
       PROVE  \A k \in Subscriber : /\ ReaderFits(sub'[k], SubscriptionEnd, job' = "cancelled")
                                    /\ sub'[k].at = "ended" => job' = "cancelled"
  <2>1. AtEnd(sub[s]).queue = sub[s].queue /\ AtEnd(sub[s]).landing = sub[s].landing
    BY <1>1 DEF AtEnd, Reader
  <2>2. ReaderFits(AtEnd(sub[s]), SubscriptionEnd, job = "cancelled")
    BY <1>1, <2>1, SameQueueFits
  <2>3. job = "cancelled"
    BY <1>1, <1>10 DEF SubTimesOut, EndedStatus, StreamTypeOK
  <2> QED
    BY <1>6, <1>10, <2>2, <2>3 DEF SubTimesOut
<1> QED
  BY <1>5, <1>7, <1>8, <1>9, <1>10 DEF ProtocolNext

LEMMA EmitterEnds == StreamInv /\ EmitterNext => StreamInv'
<1> SUFFICES ASSUME StreamInv, EmitterNext PROVE StreamInv'
  OBVIOUS
<1>1. /\ StreamTypeOK /\ StreamTypeOK' /\ SyncLandsAtOnce
      /\ \A s \in Stream : /\ stream[s] \in Reader(EmitterEvent)
                           /\ ReaderFits(stream[s], TERMINAL_EVENTS, engine = "over")
  BY EmitterTypes DEF StreamInv, StreamTypeOK
<1>2. UNCHANGED protocolVars
  BY DEF EmitterNext, RunStarts, RunEmits, RunEnds, emit, StreamOpens, StreamLands, StreamTakes,
         StreamCloses
<1> DEFINE Fits(s) == /\ ReaderFits(stream'[s], TERMINAL_EVENTS, engine' = "over")
                      /\ s \in SyncStream => stream'[s].landing = <<>>
<1>3. SUFFICES \A s \in Stream : Fits(s)
  BY <1>1, <1>2 DEF StreamInv, EndedTruly, SyncLandsAtOnce, protocolVars
<1>4. ASSUME NEW e \in EmitterEvent, emit(e), engine = "running",
             e \in TERMINAL_EVENTS => engine' = "over", NEW s \in Stream
      PROVE  Fits(s)
  <2>1. ReaderFits(stream[s], TERMINAL_EVENTS, FALSE) /\ stream[s] \in Reader(EmitterEvent)
    BY <1>1, <1>4 DEF ReaderFits
  <2>2. CASE ~stream[s].listed
    <3>1. stream'[s] = stream[s]
      BY <1>4, <2>2 DEF emit
    <3> QED
      BY <1>1, <2>1, <3>1 DEF ReaderFits, SyncLandsAtOnce
  <2>3. CASE stream[s].listed /\ s \in SyncStream
    <3>1. stream'[s] = SafePut(stream[s], e) /\ stream[s].landing = <<>>
      BY <1>1, <1>4, <2>3 DEF emit, SyncLandsAtOnce
    <3>2. ReaderFits(SafePut(stream[s], e), TERMINAL_EVENTS, engine' = "over")
      BY <1>4, <2>1, <3>1, PutFits
    <3>3. SafePut(stream[s], e).landing = stream[s].landing
      BY <2>1 DEF SafePut, Reader
    <3> QED
      BY <3>1, <3>2, <3>3
  <2>4. CASE stream[s].listed /\ s \notin SyncStream
    <3>1. stream'[s] = Soon(stream[s], e)
      BY <1>4, <2>4 DEF emit
    <3>2. ReaderFits(Soon(stream[s], e), TERMINAL_EVENTS, engine' = "over")
      BY <1>4, <2>1, PutFits
    <3> QED
      BY <2>4, <3>1, <3>2
  <2> QED
    BY <2>2, <2>3, <2>4
<1>5. ASSUME NEW e \in EmitterEvent, RunEmits(e) \/ RunEnds(e) PROVE \A s \in Stream : Fits(s)
  BY <1>4, <1>5 DEF RunEmits, RunEnds, EmitterEvent, TERMINAL_EVENTS
<1>6. ASSUME NEW s \in Stream, NEW n, engine' = engine, stream' = [stream EXCEPT ![s] = n],
             ReaderFits(n, TERMINAL_EVENTS, engine = "over"),
             s \in SyncStream => n.landing = <<>>
      PROVE  \A k \in Stream : Fits(k)
  BY <1>1, <1>6 DEF StreamTypeOK, SyncLandsAtOnce
<1>7. ASSUME NEW s \in Stream, StreamOpens(s) PROVE \A k \in Stream : Fits(k)
  <2> DEFINE n == [stream[s] EXCEPT !.at = "reading", !.listed = TRUE]
  <2>1. n.queue = stream[s].queue /\ n.landing = stream[s].landing
    BY <1>1 DEF Reader
  <2>2. engine' = engine /\ stream' = [stream EXCEPT ![s] = n]
    BY <1>7 DEF StreamOpens
  <2> HIDE DEF n
  <2>3. ReaderFits(n, TERMINAL_EVENTS, engine = "over")
    BY <1>1, <2>1, SameQueueFits
  <2> QED
    BY <1>1, <1>6, <2>1, <2>2, <2>3 DEF SyncLandsAtOnce
<1>8. ASSUME NEW s \in Stream, StreamLands(s) PROVE \A k \in Stream : Fits(k)
  <2>1. ReaderFits(Landed(stream[s]), TERMINAL_EVENTS, engine = "over") /\ s \notin SyncStream
    BY <1>1, <1>8, LandFits DEF StreamLands, SyncLandsAtOnce
  <2> QED
    BY <1>6, <1>8, <2>1 DEF StreamLands
<1>9. ASSUME NEW s \in Stream, StreamTakes(s) PROVE \A k \in Stream : Fits(k)
  <2>1. LET n == Taken(stream[s], TERMINAL_EVENTS)
        IN  ReaderFits(n, TERMINAL_EVENTS, engine = "over") /\ n.landing = stream[s].landing
    BY <1>1, <1>9, TakeFits DEF StreamTakes
  <2> QED
    BY <1>1, <1>6, <1>9, <2>1 DEF StreamTakes, SyncLandsAtOnce
<1>10. ASSUME NEW s \in Stream, StreamCloses(s) PROVE \A k \in Stream : Fits(k)
  <2>1. AtEnd(stream[s]).queue = stream[s].queue /\ AtEnd(stream[s]).landing = stream[s].landing
    BY <1>1 DEF AtEnd, Reader
  <2>2. ReaderFits(AtEnd(stream[s]), TERMINAL_EVENTS, engine = "over")
    BY <1>1, <2>1, SameQueueFits
  <2> QED
    BY <1>1, <1>6, <1>10, <2>1, <2>2 DEF StreamCloses, SyncLandsAtOnce
<1>11. CASE RunStarts
  BY <1>1, <1>11 DEF RunStarts, ReaderFits, SyncLandsAtOnce
<1> QED
  BY <1>5, <1>7, <1>8, <1>9, <1>10, <1>11 DEF EmitterNext

LEMMA StepEnds == StreamInv /\ [StreamNext]_streamVars => StreamInv'
<1>1. StreamInv /\ UNCHANGED streamVars => StreamInv'
  BY StepStreams DEF streamVars, StreamInv, EndedTruly, SyncLandsAtOnce, ReaderFits, EndLast, Told
<1> QED
  BY <1>1, ProtocolEnds, EmitterEnds DEF StreamNext

\* The inductive invariant holds in every reachable state.
THEOREM StreamInvariant == StreamSpec => []StreamInv
<1> QED
  BY InitEnds, StepEnds, PTL DEF StreamSpec

\* A subscription ends, by an event or by the status after a timeout, only when
\* the job has been cancelled (subscribe_events).
THEOREM SubscriptionsEndTruly == StreamSpec => []EndedTruly
<1> QED
  BY StreamInvariant, PTL DEF StreamInv

\* A reader that is given the end of its job or run has been given everything its
\* queue took before: however late the callbacks of the event loop run, no event is
\* behind the end (_emit_event, sse.py).
THEOREM EndComesLast == StreamSpec => []NothingBehindEnd
<1>1. StreamInv => NothingBehindEnd
  BY DEF StreamInv, NothingBehindEnd, ReaderFits
<1> QED
  BY <1>1, StreamInvariant, PTL
=============================================================================
