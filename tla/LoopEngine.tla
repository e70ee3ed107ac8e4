---------------------------- MODULE LoopEngine ----------------------------
(***************************************************************************)
(* One loop run by the engine (core/engine.py, runner.py, step_executor.py *)
(* and state.py), its checkpoint file (checkpoint/__init__.py), crashes,   *)
(* and the runs that resume from the file.                                 *)
(*                                                                         *)
(* The blocks of the loop form a tree; the engine walks it depth first,    *)
(* and todo is the rest of that walk.  Of the context the model keeps what *)
(* the conditions evaluate to: a step that ends may change any of them.    *)
(***************************************************************************)
EXTENDS Naturals, Sequences, FiniteSets

CONSTANTS
    Leaf,           \* steps
    Par, Cond,      \* Parallel and Conditional blocks
    Then,           \* Then[b]: children of a Parallel, then_steps of a Conditional
    Else,           \* Else[b]: else_steps of a Conditional
    Body,           \* the collected blocks of the loop
    Tries,          \* retry of the error policy (or of the step)
    OnFailure,      \* on_failure of the error policy
    HasFallback,    \* the error policy has a fallback_model
    MaxSteps,       \* budget.max_steps
    MaxCost,        \* budget.max_cost, in units of the dearest step
    MaxRuns,        \* bound: the runs without a checkpoint that are tried
    NoCheckpoint,   \* there is no checkpoint file
    Torn            \* the file was truncated and not yet written

Block == Leaf \union Par \union Cond

ASSUME EngineAssumption ==
    /\ Then \in [Par \union Cond -> Seq(Block)]
    /\ Else \in [Cond -> Seq(Block)]
    /\ Body \in Seq(Block)
    /\ OnFailure \in {"abort", "skip", "retry", "fallback"}
    /\ HasFallback \in BOOLEAN
    /\ Tries \in Nat \ {0}
    /\ {MaxSteps, MaxCost, MaxRuns} \subseteq Nat

VARIABLES
    ip,         \* InterruptionProtection: enabled and which checkpoints, fixed
    run,        \* the number of the run without a checkpoint this one continues
    phase,      \* where the engine is, see Phase
    todo,       \* the blocks left, the current one first
    executed,   \* executed_steps
    results,    \* results[s]: success of step s
    holds,      \* holds[c]: what the condition of c evaluates to
    spent,      \* totals[0]
    tries,      \* attempts of the current step that failed
    cancel,     \* the cancel event
    beat,       \* the heartbeat monitor's stop_event
    latest,     \* the file <loop>_latest.json
    verdict,    \* what run() returned or raised
    kept        \* history: <<run, step>> that some complete checkpoint held

memory == <<todo, executed, results, holds, spent, tries, cancel, beat>>
vars == <<ip, run, phase, memory, latest, verdict, kept>>

\* idle: no process.  next: at the head of todo.  presave, postsave, lastsave:
\* make_checkpoint before a step, after it, and before an exception leaves.
Phase == {"idle", "next", "presave", "attempt", "fallback", "postsave", "lastsave"}

Protection == [enabled : BOOLEAN, pre : BOOLEAN, post : BOOLEAN]

Verdict == {"none", "success", "failed", "raised", "killed"}

Checkpoint == [ run : 1..MaxRuns, executed : Seq(Leaf),
                results : [Leaf -> {"none", "ok", "bad"}],
                holds : [Cond -> BOOLEAN] ]

ASSUME FileAssumption == NoCheckpoint \notin Checkpoint /\ Torn \notin Checkpoint

TypeOK ==
    /\ ip       \in Protection
    /\ run      \in 0..MaxRuns
    /\ phase    \in Phase
    /\ todo     \in Seq(Block)
    /\ executed \in Seq(Leaf)
    /\ results  \in [Leaf -> {"none", "ok", "bad"}]
    /\ holds    \in [Cond -> BOOLEAN]
    /\ spent    \in 0..MaxCost
    /\ tries    \in 0..(Tries - 1)
    /\ cancel   \in BOOLEAN
    /\ beat     \in BOOLEAN
    /\ latest   \in Checkpoint \union {NoCheckpoint, Torn}
    /\ verdict  \in Verdict
    /\ kept     \subseteq (1..MaxRuns) \X Leaf

Set(seq) == {seq[i] : i \in DOMAIN seq}

NoResults == [s \in Leaf |-> "none"]

Blank == /\ todo = <<>> /\ executed = <<>> /\ results = NoResults
         /\ holds \in [Cond -> BOOLEAN]
         /\ spent = 0 /\ tries = 0 /\ cancel = FALSE /\ beat = FALSE

Init ==
    /\ ip \in Protection
    /\ run = 0 /\ phase = "idle" /\ Blank
    /\ latest = NoCheckpoint /\ verdict = "none" /\ kept = {}

-----------------------------------------------------------------------------
(* Runs *)

\* run() without a checkpoint.
Start ==
    /\ phase = "idle" /\ run < MaxRuns
    /\ run' = run + 1 /\ phase' = "next"
    /\ todo' = Body /\ executed' = <<>> /\ results' = NoResults
    /\ holds' \in [Cond -> BOOLEAN]
    /\ spent' = 0 /\ tries' = 0 /\ cancel' = FALSE /\ beat' = FALSE
    /\ verdict' = "none"
    /\ UNCHANGED <<ip, latest, kept>>

\* Mutant: steps that failed are not restored.
RestoredGood(cp) == SelectSeq(cp.executed, LAMBDA s : cp.results[s] = "ok")

\* executed_steps = list(effective_cp.executed_step_names)
Restored(cp) == cp.executed

\* run(resume_checkpoint=load_latest(loop)); a torn file is a CheckpointError.
\* The totals start from zero again.
Resume ==
    /\ phase = "idle" /\ latest \notin {NoCheckpoint, Torn}
    /\ run' = latest.run /\ phase' = "next"
    /\ todo' = Body /\ executed' = Restored(latest) /\ results' = latest.results
    /\ holds' = latest.holds
    /\ spent' = 0 /\ tries' = 0 /\ cancel' = FALSE /\ beat' = FALSE
    /\ verdict' = "none"
    /\ UNCHANGED <<ip, latest, kept>>

\* run() is over, with a result or an exception.
Leave(v) == phase' = "idle" /\ verdict' = v

-----------------------------------------------------------------------------
(* run_step_block *)

At(b) == phase = "next" /\ todo # <<>> /\ b = Head(todo)

\* A step that is in executed_steps is passed over.
SkipStep ==
    /\ \E s \in Leaf : At(s) /\ s \in Set(executed)
    /\ todo' = Tail(todo)
    /\ UNCHANGED <<ip, run, phase, executed, results, holds, spent, tries, cancel, beat,
                   latest, verdict, kept>>

\* Parallel runs its children one after the other.
EnterParallel ==
    /\ \E b \in Par : At(b) /\ todo' = Then[b] \o Tail(todo)
    /\ UNCHANGED <<ip, run, phase, executed, results, holds, spent, tries, cancel, beat,
                   latest, verdict, kept>>

\* The names that a branch is recognised by: its own steps, and neither the
\* children of a Parallel nor those of a nested Conditional.
Names(branch) == Set(branch) \intersect Leaf

\* Mutant: the condition is evaluated again on every visit.
BranchByCondition(b) == IF holds[b] THEN Then[b] ELSE Else[b]

\* run_conditional_block: stick to a branch that has begun.
Branch(b) ==
    IF Names(Then[b]) \intersect Set(executed) # {} THEN Then[b]
    ELSE IF Names(Else[b]) \intersect Set(executed) # {} THEN Else[b]
    ELSE IF holds[b] THEN Then[b] ELSE Else[b]

EnterConditional ==
    /\ \E b \in Cond : At(b) /\ todo' = Branch(b) \o Tail(todo)
    /\ UNCHANGED <<ip, run, phase, executed, results, holds, spent, tries, cancel, beat,
                   latest, verdict, kept>>

AtNewStep == \E s \in Leaf : At(s) /\ s \notin Set(executed)

\* InterruptedError; no checkpoint is written.
StepCancelled ==
    /\ AtNewStep /\ cancel
    /\ Leave("raised")
    /\ UNCHANGED <<ip, run, memory, latest, kept>>

\* Mutant: max_steps is checked one step too late.
OverBudgetLate ==
    \/ ip.enabled /\ beat
    \/ Len(executed) > MaxSteps
    \/ spent >= MaxCost

\* Mutant: the cost is not checked.
OverBudgetFree ==
    \/ ip.enabled /\ beat
    \/ Len(executed) >= MaxSteps

\* check_budget_limits; max_tokens is checked as max_cost is.
OverBudget ==
    \/ ip.enabled /\ beat
    \/ Len(executed) >= MaxSteps
    \/ spent >= MaxCost

\* A checkpoint, then InterruptedError or BudgetExceededError.
StepRefused ==
    /\ AtNewStep /\ ~cancel /\ OverBudget
    /\ phase' = "lastsave"
    /\ UNCHANGED <<ip, run, memory, latest, verdict, kept>>

StepBegin ==
    /\ AtNewStep /\ ~cancel /\ ~OverBudget
    /\ phase' = IF ip.enabled /\ ip.pre THEN "presave" ELSE "attempt"
    /\ tries' = 0
    /\ UNCHANGED <<ip, run, todo, executed, results, holds, spent, cancel, beat,
                   latest, verdict, kept>>

-----------------------------------------------------------------------------
(* execute_step and apply_step_result *)

\* apply_step_result: any condition may now evaluate differently.  A step costs
\* a unit or nothing.
Apply(res) ==
    LET s == Head(todo) IN
    /\ executed' = Append(executed, s)
    /\ results'  = [results EXCEPT ![s] = res]
    /\ holds'    \in [Cond -> BOOLEAN]
    /\ todo'     = Tail(todo)
    /\ tries'    = 0

\* The step is over: its cost counts, and a checkpoint follows.
StepEnds(res) ==
    /\ Apply(res)
    /\ \E cost \in {0, 1} : spent' = spent + cost
    /\ phase' = IF ip.enabled /\ ~ip.post THEN "next" ELSE "postsave"

AttemptOk ==
    /\ phase = "attempt"
    /\ StepEnds("ok")
    /\ UNCHANGED <<ip, run, cancel, beat, latest, verdict, kept>>

\* ErrorPolicy.classify of a transient, a validation and any other error.
Recovery == {"retry", "skip", OnFailure}

\* Mutant: failed attempts are not counted.
MayRetryAlways(recovery) == recovery # "skip"

MayRetry(recovery) == recovery # "skip" /\ tries + 1 < Tries

UsesFallback(recovery) == recovery # "skip" /\ HasFallback /\ OnFailure = "fallback"

\* An attempt failed: wait and try again.
AttemptRetried ==
    /\ phase = "attempt"
    /\ \E r \in Recovery : MayRetry(r)
    /\ tries' = (tries + 1) % Tries
    /\ UNCHANGED <<ip, run, phase, todo, executed, results, holds, spent, cancel, beat,
                   latest, verdict, kept>>

\* The last attempt failed, or the error is not worth another one.
AttemptFails ==
    /\ phase = "attempt"
    /\ \E r \in Recovery : ~MayRetry(r) /\ ~UsesFallback(r)
    /\ StepEnds("bad")
    /\ UNCHANGED <<ip, run, cancel, beat, latest, verdict, kept>>

AttemptFallsBack ==
    /\ phase = "attempt"
    /\ \E r \in Recovery : ~MayRetry(r) /\ UsesFallback(r)
    /\ phase' = "fallback"
    /\ UNCHANGED <<ip, run, memory, latest, verdict, kept>>

\* The one attempt with the fallback model.
Fallback ==
    /\ phase = "fallback"
    /\ \E res \in {"ok", "bad"} : StepEnds(res)
    /\ UNCHANGED <<ip, run, cancel, beat, latest, verdict, kept>>

\* A ModelPolicyError passes the retries and, being a LoopError, leaves run()
\* without a checkpoint.
AttemptRaises ==
    /\ phase \in {"attempt", "fallback"}
    /\ Leave("raised")
    /\ UNCHANGED <<ip, run, memory, latest, kept>>

\* on_step_complete raises after the result was applied and before its cost
\* counts: a checkpoint, then InterruptedError.
CallbackRaises ==
    /\ phase \in {"attempt", "fallback"}
    /\ \E res \in {"ok", "bad"} : Apply(res)
    /\ phase' = "lastsave"
    /\ UNCHANGED <<ip, run, spent, cancel, beat, latest, verdict, kept>>

-----------------------------------------------------------------------------
(* make_checkpoint *)

Saving == phase \in {"presave", "postsave", "lastsave"}

AfterSave ==
    CASE phase = "presave"  -> phase' = "attempt" /\ UNCHANGED verdict
      [] phase = "postsave" -> phase' = "next" /\ UNCHANGED verdict
      [] phase = "lastsave" -> Leave("raised")

\* write_text opens the file ...
SaveOpens ==
    /\ Saving /\ latest # Torn
    /\ latest' = Torn
    /\ UNCHANGED <<ip, run, phase, memory, verdict, kept>>

\* ... and fills it.
SaveWrites ==
    /\ Saving /\ latest = Torn
    /\ latest' = [run |-> run, executed |-> executed, results |-> results, holds |-> holds]
    /\ kept' = kept \union ({run} \X Set(executed))
    /\ AfterSave
    /\ UNCHANGED <<ip, run, memory>>

\* An error is logged and the run goes on with what is on the disk.
SaveFails ==
    /\ Saving
    /\ AfterSave
    /\ UNCHANGED <<ip, run, memory, latest, kept>>

-----------------------------------------------------------------------------
(* The end, and the others *)

\* Mutant: only the last step decides.
AllSucceededAtLast ==
    executed = <<>> \/ results[executed[Len(executed)]] = "ok"

\* all(r.success for r in results.values())
AllSucceeded == \A s \in Leaf : results[s] # "bad"

Return ==
    /\ phase = "next" /\ todo = <<>>
    /\ Leave(IF AllSucceeded THEN "success" ELSE "failed")
    /\ UNCHANGED <<ip, run, memory, latest, kept>>

\* loop_cancel, in another thread
Cancel ==
    /\ phase # "idle" /\ ~cancel
    /\ cancel' = TRUE
    /\ UNCHANGED <<ip, run, phase, todo, executed, results, holds, spent, tries, beat,
                   latest, verdict, kept>>

\* The monitor thread: no step has ended for heartbeat_timeout.
HeartbeatLost ==
    /\ ip.enabled /\ ~beat /\ phase # "idle"
    /\ beat' = TRUE
    /\ UNCHANGED <<ip, run, phase, todo, executed, results, holds, spent, tries, cancel,
                   latest, verdict, kept>>

\* The process dies; what is in memory is lost.
Crash ==
    /\ phase # "idle"
    /\ Leave("killed")
    /\ todo' = <<>> /\ executed' = <<>> /\ results' = NoResults
    /\ spent' = 0 /\ tries' = 0 /\ cancel' = FALSE /\ beat' = FALSE
    /\ UNCHANGED <<ip, run, holds, latest, kept>>

-----------------------------------------------------------------------------

Engine ==
    \/ SkipStep \/ EnterParallel \/ EnterConditional
    \/ StepCancelled \/ StepRefused \/ StepBegin
    \/ AttemptOk \/ AttemptRetried \/ AttemptFails \/ AttemptFallsBack
    \/ Fallback \/ AttemptRaises \/ CallbackRaises
    \/ SaveOpens \/ SaveWrites \/ SaveFails \/ Return

Next == Start \/ Resume \/ Engine \/ Cancel \/ HeartbeatLost \/ Crash

Spec == Init /\ [][Next]_vars

\* Every executor and every write to the disk comes back.
FairSpec == Spec /\ WF_vars(Engine)

-----------------------------------------------------------------------------
(* Properties *)

\* The steps below a block.
Leaves[b \in Block] ==
    IF b \in Leaf THEN {b}
    ELSE UNION { Leaves[c] : c \in Set(Then[b]) \union
                                   IF b \in Cond THEN Set(Else[b]) ELSE {} }

Steps(branch) == UNION { Leaves[c] : c \in Set(branch) }

\* "If resuming from a checkpoint where branch steps already executed, the
\* engine remains locked to that branch regardless of subsequent context
\* changes" (README, Branch Stickiness): a run and the runs that resume it
\* never execute steps of both branches of a Conditional.
BranchSticks ==
    \A b \in Cond :
        ~ ( /\ Steps(Then[b]) \intersect Set(executed) # {}
            /\ Steps(Else[b]) \intersect Set(executed) # {} )

\* A step that a complete checkpoint held is not executed again by the runs
\* that resume it, however they were cancelled, interrupted or killed, and
\* whatever was written or torn since ("resumes from the last checkpoint
\* without re-executing completed steps").
KeptNotRepeated ==
    [][\A s \in Leaf :
          (<<run, s>> \in kept /\ run' = run /\ phase # "idle")
          => ~(s \notin Set(executed) /\ s \in Set(executed'))]_vars

\* run() reports success only when every step on the way succeeded: all the
\* blocks of the body, all children of a Parallel and all of one branch of a
\* Conditional, over the resumed runs together.
Whole == 
    LET w[b \in Block] ==
            IF b \in Leaf THEN results[b] = "ok"
            ELSE \/ \A i \in DOMAIN Then[b] : w[Then[b][i]]
                 \/ b \in Cond /\ \A i \in DOMAIN Else[b] : w[Else[b][i]]
    IN  \A i \in DOMAIN Body : w[Body[i]]

SuccessIsWhole ==
    verdict = "success" =>
        Whole /\ \A s \in Set(executed) : results[s] = "ok"

\* max_steps bounds the steps of a run and of the runs that resume it, the
\* children of a Parallel and of a branch included; no step is executed twice.
StepsWithinBudget ==
    /\ Len(executed) <= MaxSteps
    /\ Cardinality(Set(executed)) = Len(executed)

\* What the engine promises to who starts and resumes loops: runs execute new
\* steps within the limit, and one that resumes begins with exactly what the
\* last complete checkpoint held, numbers and order included ("resumes from the
\* last checkpoint without re-executing completed steps").
Journal == INSTANCE RunJournal WITH
               Step <- Leaf, Limit <- MaxSteps,
               going <- phase # "idle", number <- run, done <- executed,
               saved <- IF latest \in {NoCheckpoint, Torn} THEN {}
                        ELSE {[number |-> latest.run, done |-> latest.executed]}

ImplementsJournal == Journal!Spec

\* A run comes to an end: retries, the fallback and the saves are finite.
RunEnds == phase # "idle" ~> phase = "idle"
=============================================================================
