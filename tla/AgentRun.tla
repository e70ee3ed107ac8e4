------------------------------ MODULE AgentRun ------------------------------
(***************************************************************************)
(* A job after its run was admitted, one row of JobTable: a worker thread  *)
(* executes it, or agents do and report.  loop_record (mcp/tools_run.py)   *)
(* takes the steps of a spec; loop_result (mcp/tools_loops.py), meant for  *)
(* what loop_get gives out, takes any job and any name.                    *)
(*                                                                         *)
(* One server, so the store's calls are atomic; what a tool does between   *)
(* two calls is not.                                                       *)
(***************************************************************************)
EXTENDS Naturals, Sequences, FiniteSets

CONSTANTS
    Plan,       \* the leaf steps of the loop, in order
    Stray,      \* names that are not in the plan
    Client,     \* agents
    Server, NoServer, NoJobRow

PlanStep == {Plan[i] : i \in DOMAIN Plan}

ASSUME PlanAssumption ==
    /\ Plan \in Seq(PlanStep) /\ Plan # <<>>
    /\ Stray \intersect PlanStep = {} /\ IsFiniteSet(Stray)

Names == PlanStep \union Stray

J == INSTANCE JobTable WITH
        Proc <- {Server}, NoPid <- NoServer, Step <- Names, NoRow <- NoJobRow

ASSUME NoJobRowAssumption == NoJobRow \notin J!Row

VARIABLES
    jobRow,     \* the row of the job
    engineRuns, \* a worker thread executes it
    tool,       \* tool[c]: a loop_record or loop_result call under way
    handed,     \* steps an agent has been told to execute (loop_get)
    finalized,  \* history: some loop_record asked to finalize
    unasked     \* history: names loop_result took without having handed them out

agentVars == <<jobRow, engineRuns, tool, handed, finalized, unasked>>

\* advice: a failure was reported, with its text
NoTool == [at |-> "idle", step |-> Plan[1], ok |-> TRUE, finalize |-> FALSE, advice |-> FALSE]

AgentTypeOK ==
    /\ engineRuns \in BOOLEAN /\ finalized \in BOOLEAN
    /\ jobRow \in J!Row \union {NoJobRow}
    /\ tool   \in [Client -> [ at   : {"idle", "record", "finalize", "reread"},
                               step : Names, ok : BOOLEAN, finalize : BOOLEAN, advice : BOOLEAN ]]
    /\ handed \subseteq PlanStep
    /\ unasked \subseteq Names

AgentInit ==
    /\ jobRow = NoJobRow /\ engineRuns = FALSE
    /\ tool = [c \in Client |-> NoTool]
    /\ handed = {} /\ finalized = FALSE /\ unasked = {}

---------------------------------------------------------------------------
\* create_job: by loop_run, detached, as a Python loop, or for an agent, or by loop_get
Creates ==
    /\ jobRow = NoJobRow
    /\ \/ /\ jobRow' = J!Upsert(jobRow, J!FreshRow("running", Len(Plan), Server, FALSE))
          /\ engineRuns' = TRUE /\ UNCHANGED handed
       \/ /\ jobRow' = J!Upsert(jobRow, J!FreshRow("ready", Len(Plan), Server, TRUE))
          /\ UNCHANGED <<engineRuns, handed>>
       \/ /\ jobRow' = J!Upsert(jobRow, J!FreshRow("ready", Len(Plan), NoServer, FALSE))
          /\ handed' = {Plan[1]} /\ UNCHANGED engineRuns
    /\ UNCHANGED <<tool, finalized, unasked>>

Guided == handed # {}
Live   == jobRow # NoJobRow /\ jobRow.status \notin J!Terminal

RecordResult(step, ok, auto) ==
    jobRow' = IF J!RecordAllowed(jobRow)
              THEN J!RecordMerge(jobRow, J!WithResult(jobRow, step, ok, auto)) ELSE jobRow

Update(call) == jobRow' = IF J!UpdateAllowed(jobRow, call.status)
                          THEN J!Updated(jobRow, call) ELSE jobRow

Sets(status) == [ status |-> status, given |-> FALSE, results |-> J!Empty,
                  metrics |-> FALSE, owner |-> NoServer, completed |-> TRUE ]

\* the worker thread of a detached job; the one of a named loop only counts
EngineStep ==
    /\ engineRuns
    /\ \E s \in PlanStep, ok \in BOOLEAN : RecordResult(s, ok, FALSE)
    /\ UNCHANGED <<engineRuns, tool, handed, finalized, unasked>>

\* the verdict, with the engine's own results
EngineEnds ==
    /\ engineRuns
    /\ engineRuns' = FALSE
    /\ \E v \in {"completed", "failed", "cancelled"}, done \in J!Results, pid \in {Server, NoServer} :
          /\ \A k \in Stray : done[k] = "none"
          /\ Update([ status |-> v, given |-> TRUE, results |-> done, metrics |-> TRUE,
                      owner |-> pid, completed |-> v # "cancelled" ])
    /\ UNCHANGED <<tool, handed, finalized, unasked>>

\* loop_status after 15 idle minutes; an agent's job may idle
loop_status ==
    /\ jobRow # NoJobRow /\ jobRow.status \in {"running", "in_progress"} /\ ~jobRow.agent
    /\ Update(Sets("failed"))
    /\ UNCHANGED <<engineRuns, tool, handed, finalized, unasked>>

loop_cancel ==
    /\ jobRow # NoJobRow
    /\ jobRow' = IF J!CancelAllowed(jobRow) THEN [jobRow EXCEPT !.status = "cancelled"] ELSE jobRow
    /\ UNCHANGED <<engineRuns, tool, handed, finalized, unasked>>

Returns(c) == tool' = [tool EXCEPT ![c] = NoTool]

\* Mutant: any name is taken.
AnyStep(step) == step \in Names

InPlan(step) == step \in PlanStep

\* loop_record: the row is read and the name is looked up; an agent's job or not
RecordChecks(c, step, ok, finalize) ==
    /\ tool[c].at = "idle" /\ ~Guided
    /\ Live /\ InPlan(step)
    /\ tool' = [tool EXCEPT ![c] =
                   [NoTool EXCEPT !.at = "record", !.step = step, !.ok = ok, !.finalize = finalize]]
    /\ UNCHANGED <<jobRow, engineRuns, handed, finalized, unasked>>

RecordWrites(c) ==
    /\ tool[c].at = "record"
    /\ RecordResult(tool[c].step, tool[c].ok, TRUE)
    /\ IF tool[c].finalize /\ jobRow'.status \notin J!Terminal
          THEN tool' = [tool EXCEPT ![c].at = "finalize"]
          ELSE Returns(c)
    /\ UNCHANGED <<engineRuns, handed, finalized, unasked>>

Finalizes(c) ==
    /\ tool[c].at = "finalize"
    /\ Update(Sets("completed")) /\ finalized' = TRUE
    /\ Returns(c)
    /\ UNCHANGED <<engineRuns, handed, unasked>>

\* loop_result: any job that is there, any name, once or again
ResultWrites(c, step, ok, advice) ==
    /\ tool[c].at = "idle" /\ jobRow # NoJobRow
    /\ advice => ~ok
    /\ RecordResult(step, ok, TRUE)
    /\ tool' = [tool EXCEPT ![c] = [NoTool EXCEPT !.at = "reread", !.advice = advice]]
    /\ unasked' = unasked \union ({step} \ handed)
    /\ UNCHANGED <<engineRuns, handed, finalized>>

\* Mutant: counted from one instead of zero.
NextAfterNext(done) == Plan[IF done + 2 <= Len(Plan) THEN done + 2 ELSE Len(Plan)]

NextStep(done) == Plan[done + 1]

Done == Cardinality(J!Recorded(jobRow.results))

\* the row is read again: a failure with its text gets advice, a full plan the
\* summary, anything else the next step by the number of results, if the job's
\* definition lists its steps, as that of loop_get does
ResultAnswers(c) ==
    /\ tool[c].at = "reread"
    /\ handed' = IF Guided /\ ~tool[c].advice /\ Done < jobRow.total
                 THEN handed \union {NextStep(Done)} ELSE handed
    /\ Returns(c)
    /\ UNCHANGED <<jobRow, engineRuns, finalized, unasked>>

AgentNext ==
    \/ Creates \/ EngineStep \/ EngineEnds \/ loop_status \/ loop_cancel
    \/ \E c \in Client :
          \/ \E s \in Names, ok, fin \in BOOLEAN : RecordChecks(c, s, ok, fin)
          \/ \E s \in Names, ok, advice \in BOOLEAN : ResultWrites(c, s, ok, advice)
          \/ RecordWrites(c) \/ Finalizes(c) \/ ResultAnswers(c)

AgentSpec == AgentInit /\ [][AgentNext]_agentVars

---------------------------------------------------------------------------
\* A job that agents work through, given out whole or step by step, completes by
\* itself only when the last report of every step of the plan was a success,
\* although agents may report, repeat and correct steps at once.  (Unless loop_result
\* was given a name that is not in the plan: it counts results, and a result for a
\* name nobody asked for stands for one of the plan.)
PlanWhole ==
    jobRow # NoJobRow /\ (jobRow.agent \/ Guided) /\ jobRow.status = "completed"
            /\ ~finalized /\ unasked \subseteq PlanStep
        => \A s \in PlanStep : jobRow.results[s] = "ok"

\* When agents report to loop_result only what it told them to execute, it hands
\* every step out after the ones before it were reported, even if the reports are
\* repeated, cross each other, or tell of failures.
GuidedInOrder ==
    unasked = {} => \A i \in DOMAIN Plan : Plan[i] \in handed =>
                       \A k \in 1..(i - 1) : jobRow.results[Plan[k]] # "none"
=============================================================================
