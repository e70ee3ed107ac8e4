------------------------- MODULE LoopEngine_proofs -------------------------
(***************************************************************************)
(* Proofs about the engine, for any tree of blocks, policy and budget:     *)
(* its types, that the budget of steps holds and no step is executed       *)
(* twice, that what a checkpoint held is not executed again, that it       *)
(* implements RunJournal, that a run reported as successful has executed   *)
(* its whole body, and that a branch that begins with a step is kept to.   *)
(***************************************************************************)
EXTENDS LoopEngine, FiniteSetTheorems, WellFoundedInduction, TLAPS

-----------------------------------------------------------------------------
(* The invariant *)

\* Between the budget check and the result of a step the engine is at a new
\* step that the budget admits.
AtWork == phase \in {"presave", "attempt", "fallback"}

Admitted ==
    AtWork => /\ todo # <<>> /\ Head(todo) \in Leaf
              /\ Head(todo) \notin Set(executed)
              /\ Len(executed) < MaxSteps /\ spent < MaxCost

Running == phase # "idle" => run \in 1..MaxRuns

\* No step is there twice.
Once(seq) == \A i, j \in DOMAIN seq : seq[i] = seq[j] => i = j

\* What a run executed, and what a file holds, is within the budget.
Bounded(seq) == Len(seq) <= MaxSteps /\ Once(seq)

HasFile == latest \notin {NoCheckpoint, Torn}

BudgetInv ==
    /\ Admitted /\ Running
    /\ Bounded(executed)
    /\ HasFile => Bounded(latest.executed)

\* What a complete checkpoint held is of this run or an earlier one; the run
\* that goes on has it, and so has the file, which is never older.
KeptInv ==
    \A r \in 1..MaxRuns, s \in Leaf : <<r, s>> \in kept =>
        /\ r <= run
        /\ phase # "idle" /\ r = run => s \in Set(executed)
        /\ HasFile => /\ r <= latest.run
                      /\ r = latest.run => s \in Set(latest.executed)

EngineInv == TypeOK /\ BudgetInv /\ KeptInv

-----------------------------------------------------------------------------
(* Sequences of steps *)

\* LoopEngine's Set names what a sequence of steps holds.
LEMMA AppendedSet ==
    ASSUME NEW T, NEW seq \in Seq(T), NEW e \in T
    PROVE  Set(Append(seq, e)) = Set(seq) \union {e}
<1>1. /\ DOMAIN seq = 1..Len(seq) /\ Len(seq) \in Nat
      /\ DOMAIN Append(seq, e) = 1..(Len(seq) + 1)
      /\ Append(seq, e)[Len(seq) + 1] = e
      /\ \A i \in 1..Len(seq) : Append(seq, e)[i] = seq[i]
  OBVIOUS
<1>2. Set(Append(seq, e)) \subseteq Set(seq) \union {e}
  BY <1>1 DEF Set
<1>3. Set(seq) \union {e} \subseteq Set(Append(seq, e))
  BY <1>1 DEF Set
<1> QED
  BY <1>2, <1>3

LEMMA SetInside == ASSUME NEW T, NEW seq \in Seq(T) PROVE Set(seq) \subseteq T
BY DEF Set

LEMMA AppendedOnce ==
    ASSUME NEW T, NEW seq \in Seq(T), NEW e \in T \ Set(seq), Once(seq)
    PROVE  Once(Append(seq, e))
BY DEF Once, Set

\* A sequence without repetitions has as many elements as places.
LEMMA OnceCounts ==
    ASSUME NEW T, NEW seq \in Seq(T), Once(seq)
    PROVE  Cardinality(Set(seq)) = Len(seq)
<1>1. seq \in Bijection(1..Len(seq), Set(seq))
  BY DEF Bijection, Injection, Surjection, IsInjective, Once, Set
<1>2. IsFiniteSet(1..Len(seq)) /\ Cardinality(1..Len(seq)) = Len(seq)
  <2>1. Len(seq) \in Nat
    OBVIOUS
  <2> HIDE DEF Once
  <2> QED
    BY <2>1, FS_Interval, SMT
<1> QED
  BY <1>1, <1>2, FS_Bijection, Zenon DEF ExistsBijection

-----------------------------------------------------------------------------
(* Initial states *)

LEMMA Limits ==
    /\ MaxSteps \in Nat /\ MaxCost \in Nat /\ MaxRuns \in Nat
    /\ Tries \in Nat /\ Tries > 0
BY EngineAssumption

\* The counters of a run start at zero.
LEMMA Zeros == 0 \in 0..(Tries - 1) /\ 0 \in 0..MaxCost /\ 0 \in 0..MaxRuns
BY Limits

LEMMA NoResultsTypes == NoResults \in [Leaf -> {"none", "ok", "bad"}]
BY DEF NoResults

LEMMA Children ==
    /\ Body \in Seq(Block)
    /\ \A b \in Par \union Cond : Then[b] \in Seq(Block)
    /\ \A b \in Cond : Else[b] \in Seq(Block)
BY EngineAssumption

LEMMA InitEngine == Init => EngineInv
<1> SUFFICES ASSUME Init PROVE EngineInv
  OBVIOUS
<1>1. /\ ip \in Protection /\ run \in 0..MaxRuns /\ phase \in Phase /\ verdict \in Verdict
      /\ results \in [Leaf -> {"none", "ok", "bad"}] /\ holds \in [Cond -> BOOLEAN]
      /\ spent \in 0..MaxCost /\ tries \in 0..(Tries - 1) /\ cancel \in BOOLEAN /\ beat \in BOOLEAN
      /\ latest \in Checkpoint \union {NoCheckpoint, Torn} /\ kept \subseteq (1..MaxRuns) \X Leaf
  BY Zeros, NoResultsTypes DEF Init, Blank, Phase, Verdict
<1>2. todo \in Seq(Block) /\ executed \in Seq(Leaf)
  BY DEF Init, Blank
<1>3. TypeOK
  BY <1>1, <1>2 DEF TypeOK
<1>4. BudgetInv
  BY Limits DEF Init, Blank, BudgetInv, Admitted, AtWork, Running, Bounded, Once, HasFile
<1>5. KeptInv
  BY DEF Init, KeptInv
<1> QED
  BY <1>3, <1>4, <1>5 DEF EngineInv

-----------------------------------------------------------------------------
(* A run begins, goes on, or ends *)

\* A fresh run has the highest number so far, and nothing of it is kept.
LEMMA StartKeeps == ASSUME EngineInv, Start PROVE EngineInv'
<1> USE DEF EngineInv
<1>1. TypeOK'
  <2>1. run + 1 \in 0..MaxRuns
    BY Limits DEF Start, TypeOK
  <2>2. <<>> \in Seq(Leaf)
    OBVIOUS
  <2> QED
    BY <2>1, <2>2, Zeros, NoResultsTypes, Children DEF Start, TypeOK, Phase, Verdict
<1>2. BudgetInv'
  BY Limits DEF Start, TypeOK, BudgetInv, Admitted, AtWork, Running, Bounded, Once, HasFile
<1>3. KeptInv'
  BY Limits DEF Start, TypeOK, KeptInv, HasFile
<1> QED
  BY <1>1, <1>2, <1>3

\* A resumed run has what the file held of it, and all else that is kept is older.
LEMMA ResumeKeeps == ASSUME EngineInv, Resume PROVE EngineInv'
<1> USE DEF EngineInv
<1>1. latest \in Checkpoint /\ HasFile
  BY DEF Resume, TypeOK, HasFile
<1>2. TypeOK'
  <2>1. /\ latest.run \in 0..MaxRuns /\ latest.executed \in Seq(Leaf)
        /\ latest.results \in [Leaf -> {"none", "ok", "bad"}] /\ latest.holds \in [Cond -> BOOLEAN]
    BY <1>1, Limits DEF Checkpoint
  <2> QED
    BY <2>1, Zeros, Children DEF Resume, Restored, TypeOK, Phase, Verdict
<1>3. BudgetInv'
  BY <1>1, Limits DEF Resume, Restored, TypeOK, BudgetInv, Admitted, AtWork, Running, Bounded,
                      Once, HasFile, Checkpoint
<1>4. KeptInv'
  BY <1>1, Limits DEF Resume, Restored, TypeOK, KeptInv, HasFile, Checkpoint
<1> QED
  BY <1>2, <1>3, <1>4

\* A step that executes nothing and does not touch the file.
Walks ==
    /\ todo' \in Seq(Block) /\ phase' \in Phase /\ verdict' \in Verdict
    /\ tries' \in 0..(Tries - 1) /\ cancel' \in BOOLEAN /\ beat' \in BOOLEAN
    /\ phase = "idle" => phase' = "idle"
    /\ UNCHANGED <<ip, run, executed, results, holds, spent, latest, kept>>

LEMMA WalksKeeps == ASSUME EngineInv, Walks, Admitted' PROVE EngineInv'
<1> USE DEF EngineInv
<1>1. TypeOK'
  BY DEF Walks, TypeOK
<1>2. BudgetInv'
  BY DEF Walks, BudgetInv, Running, Bounded, Once, HasFile
<1>3. KeptInv'
  BY DEF Walks, KeptInv, HasFile
<1> QED
  BY <1>1, <1>2, <1>3
-----------------------------------------------------------------------------
(* The walk over the blocks *)

LEMMA TailTypes ==
    ASSUME NEW seq \in Seq(Block), seq # <<>>
    PROVE  Tail(seq) \in Seq(Block) /\ Head(seq) \in Block
OBVIOUS

LEMMA BranchTypes == ASSUME NEW b \in Cond PROVE Branch(b) \in Seq(Block)
BY Children DEF Branch

LEMMA BlocksWalk ==
    ASSUME EngineInv, SkipStep \/ EnterParallel \/ EnterConditional
    PROVE  Walks /\ Admitted'
<1> USE DEF EngineInv
<1>1. todo # <<>> /\ phase = "next" /\ todo \in Seq(Block)
  BY DEF SkipStep, EnterParallel, EnterConditional, At, TypeOK
<1>2. todo' \in Seq(Block)
  <2>1. CASE SkipStep
    BY <1>1, <2>1, TailTypes DEF SkipStep
  <2>2. CASE EnterParallel
    <3>1. PICK b \in Par : todo' = Then[b] \o Tail(todo)
      BY <2>2 DEF EnterParallel
    <3> QED
      BY <1>1, <3>1, TailTypes, Children
  <2>3. CASE EnterConditional
    <3>1. PICK b \in Cond : todo' = Branch(b) \o Tail(todo)
      BY <2>3 DEF EnterConditional
    <3> QED
      BY <1>1, <3>1, TailTypes, BranchTypes
  <2> QED
    BY <2>1, <2>2, <2>3
<1>3. /\ phase' = phase /\ verdict' = verdict /\ tries' = tries /\ cancel' = cancel /\ beat' = beat
      /\ UNCHANGED <<ip, run, executed, results, holds, spent, latest, kept>>
  BY DEF SkipStep, EnterParallel, EnterConditional
<1> QED
  BY <1>1, <1>2, <1>3 DEF Walks, Admitted, AtWork, TypeOK

\* At a new step: refused, or admitted by the budget.
LEMMA StepWalk ==
    ASSUME EngineInv, StepCancelled \/ StepRefused \/ StepBegin
    PROVE  Walks /\ Admitted'
<1> USE DEF EngineInv
<1>1. /\ AtNewStep /\ TypeOK
      /\ todo' = todo /\ cancel' = cancel /\ beat' = beat
      /\ UNCHANGED <<ip, run, executed, results, holds, spent, latest, kept>>
  BY DEF StepCancelled, StepRefused, StepBegin, memory
<1>2. phase = "next" /\ todo # <<>> /\ Head(todo) \in Leaf /\ Head(todo) \notin Set(executed)
  BY <1>1 DEF AtNewStep, At
<1>3. CASE StepBegin
  <2>1. Len(executed) < MaxSteps /\ spent < MaxCost
    BY <1>1, <1>3, Limits DEF StepBegin, OverBudget, TypeOK
  <2>2. Set(executed)' = Set(executed)
    BY <1>1 DEF Set
  <2> QED
    BY <1>1, <1>2, <1>3, <2>1, <2>2, Zeros DEF StepBegin, Walks, Admitted, TypeOK, Phase
<1>4. CASE StepCancelled \/ StepRefused
  BY <1>1, <1>2, <1>4 DEF StepCancelled, StepRefused, Leave, memory, Walks, Admitted, AtWork,
                          TypeOK, Phase, Verdict
<1> QED
  BY <1>3, <1>4

\* An attempt that has not ended the step leaves it admitted.
LEMMA AttemptWalk ==
    ASSUME EngineInv, AttemptRetried \/ AttemptFallsBack \/ AttemptRaises
    PROVE  Walks /\ Admitted'
<1> USE DEF EngineInv
<1>1. /\ TypeOK /\ Admitted /\ AtWork
      /\ todo' = todo /\ cancel' = cancel /\ beat' = beat
      /\ UNCHANGED <<ip, run, executed, results, holds, spent, latest, kept>>
  BY DEF AttemptRetried, AttemptFallsBack, AttemptRaises, memory, BudgetInv, AtWork
<1>2. Set(executed)' = Set(executed)
  BY <1>1 DEF Set
<1>3. tries' \in 0..(Tries - 1)
  <2>1. \A n \in Nat : n % Tries \in 0..(Tries - 1)
    BY Limits
  <2> QED
    BY <2>1, <1>1, Limits DEF AttemptRetried, AttemptFallsBack, AttemptRaises, memory, TypeOK
<1>4. phase' \in Phase /\ verdict' \in Verdict /\ phase # "idle"
  BY <1>1 DEF AttemptRetried, AttemptFallsBack, AttemptRaises, Leave, TypeOK, Phase, Verdict
<1> QED
  BY <1>1, <1>2, <1>3, <1>4 DEF Walks, Admitted, TypeOK

\* The last step, a cancel, a heartbeat, and a save that fails.
LEMMA OthersWalk ==
    ASSUME EngineInv, Return \/ Cancel \/ HeartbeatLost \/ SaveFails
    PROVE  Walks /\ Admitted'
<1> USE DEF EngineInv
<1>1. /\ TypeOK /\ Admitted
      /\ todo' = todo /\ tries' = tries
      /\ UNCHANGED <<ip, run, executed, results, holds, spent, latest, kept>>
  BY DEF Return, Cancel, HeartbeatLost, SaveFails, memory, BudgetInv
<1>2. Set(executed)' = Set(executed)
  BY <1>1 DEF Set
<1>3. cancel' \in BOOLEAN /\ beat' \in BOOLEAN
  BY <1>1 DEF Return, Cancel, HeartbeatLost, SaveFails, memory, TypeOK
<1>4. /\ phase' \in Phase /\ verdict' \in Verdict /\ phase # "idle"
      /\ phase' \in {"presave", "attempt", "fallback"} => AtWork
  BY <1>1 DEF Return, Cancel, HeartbeatLost, SaveFails, AfterSave, Saving, Leave, AtWork, TypeOK,
              Phase, Verdict
<1> QED
  BY <1>1, <1>2, <1>3, <1>4 DEF Walks, Admitted, AtWork, TypeOK
-----------------------------------------------------------------------------
(* Steps that end, the file, and a crash *)

\* A result is appended once, and only by a step that the budget admitted.
LEMMA AppliedKeeps ==
    ASSUME EngineInv, NEW res \in {"ok", "bad"}, Apply(res), phase \in {"attempt", "fallback"},
           spent' \in {spent, spent + 1}, phase' \in {"next", "postsave", "lastsave"},
           UNCHANGED <<ip, run, cancel, beat, latest, verdict, kept>>
    PROVE  EngineInv'
<1> USE DEF EngineInv
<1>1. /\ TypeOK /\ todo # <<>> /\ Head(todo) \in Leaf \ Set(executed)
      /\ Len(executed) < MaxSteps /\ spent < MaxCost
  BY DEF BudgetInv, Admitted, AtWork
<1>2. executed \in Seq(Leaf) /\ executed' = Append(executed, Head(todo))
  BY <1>1 DEF Apply, TypeOK
<1>3. /\ executed' \in Seq(Leaf) /\ Len(executed') = Len(executed) + 1
      /\ Set(executed') = Set(executed) \union {Head(todo)}
      /\ Once(executed')
  <2>1. Once(executed)
    BY DEF BudgetInv, Bounded
  <2> QED
    BY <1>1, <1>2, <2>1, AppendedSet, AppendedOnce
<1>4. TypeOK'
  <2>1. spent' \in 0..MaxCost
    BY <1>1, Limits DEF TypeOK
  <2>2. todo' \in Seq(Block)
    BY <1>1, TailTypes DEF Apply, TypeOK
  <2>3. results' \in [Leaf -> {"none", "ok", "bad"}] /\ holds' \in [Cond -> BOOLEAN]
    BY <1>1 DEF Apply, TypeOK
  <2>4. tries' \in 0..(Tries - 1) /\ phase' \in Phase
    BY Zeros DEF Apply, Phase
  <2> QED
    BY <1>1, <1>3, <2>1, <2>2, <2>3, <2>4 DEF TypeOK
<1>5. BudgetInv'
  <2>1. Len(executed') <= MaxSteps
    BY <1>1, <1>2, <1>3, Limits
  <2>2. phase # "idle" /\ ~AtWork'
    BY DEF AtWork
  <2> QED
    BY <1>3, <2>1, <2>2 DEF BudgetInv, Admitted, Running, Bounded, HasFile
<1>6. KeptInv'
  BY <1>3 DEF KeptInv, HasFile
<1> QED
  BY <1>4, <1>5, <1>6

LEMMA AttemptEnds ==
    ASSUME EngineInv, AttemptOk \/ AttemptFails \/ Fallback \/ CallbackRaises
    PROVE  EngineInv'
<1>1. CASE CallbackRaises
  <2>1. PICK res \in {"ok", "bad"} : Apply(res)
    BY <1>1 DEF CallbackRaises
  <2> QED
    BY <1>1, <2>1, AppliedKeeps DEF CallbackRaises
<1>2. CASE AttemptOk \/ AttemptFails \/ Fallback
  <2>1. PICK res \in {"ok", "bad"} : StepEnds(res)
    BY <1>2 DEF AttemptOk, AttemptFails, Fallback
  <2>2. Apply(res) /\ phase' \in {"next", "postsave"}
    BY <2>1 DEF StepEnds
  <2>3. spent' \in {spent, spent + 1}
    BY <2>1 DEF StepEnds, EngineInv, TypeOK
  <2>4. /\ phase \in {"attempt", "fallback"}
        /\ UNCHANGED <<ip, run, cancel, beat, latest, verdict, kept>>
    BY <1>2 DEF AttemptOk, AttemptFails, Fallback
  <2> QED
    BY <2>2, <2>3, <2>4, AppliedKeeps
<1> QED
  BY <1>1, <1>2

\* While the file is torn nothing is said of it.
LEMMA OpensKeeps == ASSUME EngineInv, SaveOpens PROVE EngineInv'
<1> USE DEF EngineInv
<1>1. ~HasFile'
  BY DEF SaveOpens, HasFile
<1>2. TypeOK'
  BY DEF SaveOpens, memory, TypeOK
<1>3. BudgetInv' /\ KeptInv'
  BY <1>1 DEF SaveOpens, memory, BudgetInv, Admitted, AtWork, Running, Bounded, Once, KeptInv, Set
<1> QED
  BY <1>2, <1>3

\* The file is of the run that goes on, and holds all it executed.
LEMMA WritesKeeps == ASSUME EngineInv, SaveWrites PROVE EngineInv'
<1> USE DEF EngineInv
<1>1. /\ TypeOK /\ BudgetInv /\ KeptInv /\ phase # "idle" /\ run \in 1..MaxRuns
      /\ UNCHANGED <<ip, run, todo, executed, results, holds, spent, tries, cancel, beat>>
      /\ kept' = kept \union ({run} \X Set(executed))
      /\ latest' = [run |-> run, executed |-> executed, results |-> results, holds |-> holds]
  BY DEF SaveWrites, Saving, memory, BudgetInv, Running
<1>2. Set(executed) \subseteq Leaf /\ Set(executed)' = Set(executed)
  BY <1>1, SetInside DEF TypeOK, Set
<1>3. latest' \in Checkpoint
  BY <1>1 DEF TypeOK, Checkpoint
<1>4. /\ phase' \in Phase /\ verdict' \in Verdict
      /\ phase' \in {"presave", "attempt", "fallback"} => AtWork
  BY <1>1 DEF SaveWrites, AfterSave, Saving, Leave, AtWork, TypeOK, Phase, Verdict
<1>5. TypeOK'
  <2>1. kept' \subseteq (1..MaxRuns) \X Leaf
    BY <1>1, <1>2 DEF TypeOK
  <2> QED
    BY <1>1, <1>3, <1>4, <2>1 DEF TypeOK
<1>6. BudgetInv'
  BY <1>1, <1>2, <1>4 DEF BudgetInv, Admitted, AtWork, Running, Bounded, Once
<1>7. KeptInv'
  <2> SUFFICES ASSUME NEW r \in 1..MaxRuns, NEW s \in Leaf, <<r, s>> \in kept'
               PROVE  /\ r <= run /\ (r = run => s \in Set(executed))
    BY <1>1, <1>2 DEF KeptInv
  <2>1. CASE <<r, s>> \in kept
    BY <1>1, <2>1 DEF KeptInv
  <2>2. CASE r = run /\ s \in Set(executed)
    BY <1>1, <2>2 DEF TypeOK
  <2> QED
    BY <1>1, <2>1, <2>2
<1> QED
  BY <1>5, <1>6, <1>7

LEMMA CrashKeeps == ASSUME EngineInv, Crash PROVE EngineInv'
<1> USE DEF EngineInv
<1>1. TypeOK'
  <2>1. <<>> \in Seq(Leaf) /\ <<>> \in Seq(Block)
    OBVIOUS
  <2> QED
    BY <2>1, Zeros, NoResultsTypes DEF Crash, Leave, TypeOK, Phase, Verdict
<1>2. BudgetInv'
  BY Limits DEF Crash, Leave, BudgetInv, Admitted, AtWork, Running, Bounded, Once, HasFile
<1>3. KeptInv'
  BY DEF Crash, Leave, KeptInv, HasFile
<1> QED
  BY <1>1, <1>2, <1>3

-----------------------------------------------------------------------------
(* The theorems *)

LEMMA StepEngine == EngineInv /\ [Next]_vars => EngineInv'
<1> SUFFICES ASSUME EngineInv, [Next]_vars PROVE EngineInv'
  OBVIOUS
<1>1. CASE Start
  BY <1>1, StartKeeps
<1>2. CASE Resume
  BY <1>2, ResumeKeeps
<1>3. CASE SkipStep \/ EnterParallel \/ EnterConditional
  BY <1>3, BlocksWalk, WalksKeeps
<1>4. CASE StepCancelled \/ StepRefused \/ StepBegin
  BY <1>4, StepWalk, WalksKeeps
<1>5. CASE AttemptRetried \/ AttemptFallsBack \/ AttemptRaises
  BY <1>5, AttemptWalk, WalksKeeps
<1>6. CASE AttemptOk \/ AttemptFails \/ Fallback \/ CallbackRaises
  BY <1>6, AttemptEnds
<1>7. CASE Return \/ Cancel \/ HeartbeatLost \/ SaveFails
  BY <1>7, OthersWalk, WalksKeeps
<1>8. CASE SaveOpens
  BY <1>8, OpensKeeps
<1>9. CASE SaveWrites
  BY <1>9, WritesKeeps
<1>10. CASE Crash
  BY <1>10, CrashKeeps
<1>11. CASE UNCHANGED vars
  BY <1>11 DEF vars, memory, EngineInv, TypeOK, BudgetInv, Admitted, AtWork, Running, Bounded,
               Once, HasFile, KeptInv, Set
<1> QED
  BY <1>1, <1>2, <1>3, <1>4, <1>5, <1>6, <1>7, <1>8, <1>9, <1>10, <1>11 DEF Next, Engine

\* The state of the engine and of the file is well typed, a step is executed only
\* within the budget, and runs are numbered so that no kept step belongs to a
\* later run than the file (engine.py, runner.py, state.py, checkpoint).
THEOREM EngineInvariant == Spec => []EngineInv
<1>1. Init => EngineInv
  BY InitEngine
<1>2. EngineInv /\ [Next]_vars => EngineInv'
  BY StepEngine
<1> QED
  BY <1>1, <1>2, PTL DEF Spec

\* Positions, counters and the file stay what TypeOK says, retries included.
THEOREM EngineTypes == Spec => []TypeOK
<1>1. EngineInv => TypeOK
  BY DEF EngineInv
<1> QED
  BY <1>1, EngineInvariant, PTL

\* max_steps bounds a run and all runs that resume it, and none repeats a step:
\* check_budget_limits looks at what was restored, and nothing gets by it.
THEOREM BudgetHolds == Spec => []StepsWithinBudget
<1>1. EngineInv => StepsWithinBudget
  BY OnceCounts DEF EngineInv, TypeOK, BudgetInv, Bounded, StepsWithinBudget
<1> QED
  BY <1>1, EngineInvariant, PTL

\* What a complete checkpoint held is not executed again, over any number of
\* crashes, cancels, torn files, fresh runs in between and resumed ones.
THEOREM NothingRepeated == Spec => KeptNotRepeated
<1>1. EngineInv /\ [Next]_vars =>
        [\A s \in Leaf : (<<run, s>> \in kept /\ run' = run /\ phase # "idle")
            => ~(s \notin Set(executed) /\ s \in Set(executed'))]_vars
  BY DEF EngineInv, KeptInv, BudgetInv, Running
<1> QED
  BY <1>1, EngineInvariant, PTL DEF Spec, KeptNotRepeated

-----------------------------------------------------------------------------
(* Refinement of RunJournal *)

\* The record that the file stands for.
SavedFile ==
    IF latest \in {NoCheckpoint, Torn} THEN {}
    ELSE {[number |-> latest.run, done |-> latest.executed]}

\* What RunJournal sees of a state.
Seen == <<phase # "idle", run, executed, SavedFile>>

\* A walk changes nothing that RunJournal sees, or ends the run.
LEMMA WalksRefine ==
    ASSUME Walks, phase # "idle" PROVE Journal!End \/ Seen' = Seen
<1>1. UNCHANGED <<run, executed, latest>>
  BY DEF Walks
<1>2. SavedFile' = SavedFile
  BY <1>1 DEF SavedFile
<1>3. CASE phase' = "idle"
  BY <1>1, <1>3 DEF Journal!End
<1>4. CASE phase' # "idle"
  BY <1>1, <1>2, <1>4 DEF Seen
<1> QED
  BY <1>3, <1>4

\* A fresh run begins with nothing done, and the record stays.
LEMMA StartRefines == ASSUME EngineInv, Start PROVE Journal!Begin
<1>1. SavedFile' = SavedFile
  BY DEF Start, SavedFile
<1> QED
  BY <1>1 DEF Start, SavedFile, Journal!Begin

\* A resumed run takes number and steps from the file, and nothing else.
LEMMA ResumeRefines == ASSUME EngineInv, Resume PROVE Journal!Continue
<1> DEFINE r == [number |-> latest.run, done |-> latest.executed]
<1>1. SavedFile' = SavedFile /\ SavedFile = {r}
  BY DEF Resume, SavedFile
<1>2. run' = r.number /\ executed' = r.done
  BY DEF Resume, Restored
<1> HIDE DEF r
<1>3. \E q \in SavedFile : run' = q.number /\ executed' = q.done
  BY <1>1, <1>2
<1> QED
  BY <1>1, <1>3 DEF Resume, SavedFile, Journal!Continue

\* The result of a step is applied where the budget admitted the step.
LEMMA AppliedRefines ==
    ASSUME EngineInv, AttemptOk \/ AttemptFails \/ Fallback \/ CallbackRaises
    PROVE  \E s \in Leaf : Journal!Execute(s)
<1>1. PICK res \in {"ok", "bad"} : Apply(res)
  BY DEF AttemptOk, AttemptFails, Fallback, CallbackRaises, StepEnds
<1>2. /\ phase # "idle" /\ phase' # "idle" /\ UNCHANGED <<run, latest>>
      /\ phase \in {"attempt", "fallback"}
  BY DEF AttemptOk, AttemptFails, Fallback, CallbackRaises, StepEnds
<1>3. Head(todo) \in Leaf /\ Head(todo) \notin Set(executed) /\ Len(executed) < MaxSteps
  BY <1>2 DEF EngineInv, BudgetInv, Admitted, AtWork
<1>4. executed' = Append(executed, Head(todo))
  BY <1>1 DEF Apply
<1>5. SavedFile' = SavedFile
  BY <1>2 DEF SavedFile
<1> QED
  BY <1>2, <1>3, <1>4, <1>5 DEF Journal!Execute, SavedFile, Set

\* The file is torn before it is written, and then it is what was executed.
LEMMA SaveRefines ==
    ASSUME EngineInv, SaveOpens \/ SaveWrites
    PROVE  Journal!Tear \/ Journal!Save
<1>1. CASE SaveOpens
  BY <1>1 DEF SaveOpens, Saving, memory, Journal!Tear
<1>2. CASE SaveWrites
  <2> DEFINE cp == [run |-> run, executed |-> executed, results |-> results, holds |-> holds]
  <2>1. latest' = cp /\ cp \in Checkpoint /\ phase # "idle" /\ UNCHANGED <<run, executed>>
    BY <1>2 DEF SaveWrites, Saving, memory, EngineInv, TypeOK, BudgetInv, Running, Checkpoint
  <2>2. cp.run = run /\ cp.executed = executed
    OBVIOUS
  <2>3. cp \notin {NoCheckpoint, Torn}
    BY <2>1, FileAssumption
  <2> QED
    BY <2>1, <2>2, <2>3 DEF Journal!Save, Journal!Record
<1> QED
  BY <1>1, <1>2

\* What touches neither run, steps nor file is seen only when it ends the run.
LEMMA StepRefines ==
    EngineInv /\ [Next]_vars => [Journal!Next]_Seen
<1> SUFFICES ASSUME EngineInv, [Next]_vars PROVE [Journal!Next]_Seen
  OBVIOUS
<1>1. ASSUME Walks, phase # "idle" PROVE [Journal!Next]_Seen
  BY <1>1, WalksRefine DEF Journal!Next
<1>2. CASE Start
  BY <1>2, StartRefines DEF Journal!Next
<1>3. CASE Resume
  BY <1>3, ResumeRefines DEF Journal!Next
<1>4. CASE SkipStep \/ EnterParallel \/ EnterConditional
  BY <1>1, <1>4, BlocksWalk DEF SkipStep, EnterParallel, EnterConditional, At
<1>5. CASE StepCancelled \/ StepRefused \/ StepBegin
  BY <1>1, <1>5, StepWalk DEF StepCancelled, StepRefused, StepBegin, AtNewStep, At
<1>6. CASE AttemptRetried \/ AttemptFallsBack \/ AttemptRaises
  BY <1>1, <1>6, AttemptWalk DEF AttemptRetried, AttemptFallsBack, AttemptRaises
<1>7. CASE AttemptOk \/ AttemptFails \/ Fallback \/ CallbackRaises
  BY <1>7, AppliedRefines DEF Journal!Next
<1>8. CASE Return \/ Cancel \/ HeartbeatLost \/ SaveFails
  BY <1>1, <1>8, OthersWalk DEF Return, Cancel, HeartbeatLost, SaveFails, Saving
<1>9. CASE SaveOpens \/ SaveWrites
  BY <1>9, SaveRefines DEF Journal!Next
<1>10. CASE Crash
  BY <1>10 DEF Crash, Leave, Journal!Next, Journal!End
<1>11. CASE UNCHANGED vars
  BY <1>11 DEF vars, memory, Seen, SavedFile
<1> QED
  BY <1>2, <1>3, <1>4, <1>5, <1>6, <1>7, <1>8, <1>9, <1>10, <1>11 DEF Next, Engine

\* However retries, skips, branches, cancels, crashes and torn writes go, what can
\* be seen of the engine from its runs and its checkpoint file is a journal: new
\* steps within the limit, and a resumed run that begins with what the last
\* complete checkpoint held (runner.py, state.py, checkpoint).
THEOREM EngineRefines == Spec => ImplementsJournal
<1>1. Init => Journal!Init
  BY DEF Init, Blank, Journal!Init
<1>2. EngineInv /\ [Next]_vars => [Journal!Next]_Seen
  BY StepRefines
<1> QED
  BY <1>1, <1>2, EngineInvariant, PTL DEF Spec, ImplementsJournal, Journal!Spec, Journal!journal,
     Seen, SavedFile

-----------------------------------------------------------------------------
(* Sequences of blocks *)

LEMMA JoinedSet ==
    ASSUME NEW p \in Seq(Block), NEW q \in Seq(Block)
    PROVE  Set(p \o q) = Set(p) \union Set(q)
<1>1. /\ DOMAIN p = 1..Len(p) /\ Len(p) \in Nat /\ DOMAIN q = 1..Len(q) /\ Len(q) \in Nat
      /\ DOMAIN (p \o q) = 1..(Len(p) + Len(q))
      /\ \A i \in 1..Len(p) : (p \o q)[i] = p[i]
      /\ \A i \in 1..Len(q) : (p \o q)[Len(p) + i] = q[i]
  OBVIOUS
<1>2. Set(p) \union Set(q) \subseteq Set(p \o q)
  <2>1. \A i \in 1..Len(q) : Len(p) + i \in 1..(Len(p) + Len(q))
    BY <1>1
  <2>2. \A i \in 1..Len(p) : i \in 1..(Len(p) + Len(q))
    BY <1>1
  <2> QED
    BY <1>1, <2>1, <2>2 DEF Set
<1>3. Set(p \o q) \subseteq Set(p) \union Set(q)
  <2> SUFFICES ASSUME NEW i \in 1..(Len(p) + Len(q)) PROVE (p \o q)[i] \in Set(p) \union Set(q)
    BY <1>1 DEF Set
  <2>1. CASE i \in 1..Len(p)
    BY <1>1, <2>1 DEF Set
  <2>2. CASE i - Len(p) \in 1..Len(q)
    <3>1. (p \o q)[Len(p) + (i - Len(p))] = q[i - Len(p)] /\ Len(p) + (i - Len(p)) = i
      BY <1>1, <2>2
    <3> QED
      BY <1>1, <2>2, <3>1 DEF Set
  <2> QED
    BY <1>1, <2>1, <2>2
<1> QED
  BY <1>2, <1>3

LEMMA SplitSet ==
    ASSUME NEW seq \in Seq(Block), seq # <<>>
    PROVE  Set(seq) = {Head(seq)} \union Set(Tail(seq))
<1>1. /\ DOMAIN seq = 1..Len(seq) /\ Len(seq) \in Nat \ {0} /\ Head(seq) = seq[1]
      /\ DOMAIN Tail(seq) = 1..(Len(seq) - 1)
      /\ \A i \in 1..(Len(seq) - 1) : Tail(seq)[i] = seq[i + 1]
  OBVIOUS
<1>2. \A i \in 1..(Len(seq) - 1) : i + 1 \in 1..Len(seq)
  BY <1>1
<1>3. \A i \in 1..Len(seq) : i = 1 \/ (i - 1 \in 1..(Len(seq) - 1) /\ (i - 1) + 1 = i)
  BY <1>1
<1>4. {Head(seq)} \union Set(Tail(seq)) \subseteq Set(seq)
  BY <1>1, <1>2 DEF Set
<1>5. Set(seq) \subseteq {Head(seq)} \union Set(Tail(seq))
  <2> SUFFICES ASSUME NEW i \in 1..Len(seq), i # 1 PROVE seq[i] \in Set(Tail(seq))
    BY <1>1 DEF Set
  <2>1. i - 1 \in DOMAIN Tail(seq) /\ Tail(seq)[i - 1] = seq[i]
    BY <1>1, <1>3
  <2> QED
    BY <2>1 DEF Set
<1> QED
  BY <1>4, <1>5

-----------------------------------------------------------------------------
(* Success is whole *)

Below(b) == Set(Then[b]) \union IF b \in Cond THEN Set(Else[b]) ELSE {}

\* A block is of one class, and the blocks are nested, as deep as they may be: a
\* block has a higher rank than those in it.  A loop is built from the inside out.
Tree ==
    /\ Leaf \intersect (Par \union Cond) = {} /\ Par \intersect Cond = {}
    /\ \E rank \in [Block -> Nat] : \A b \in Par \union Cond : \A c \in Below(b) : rank[c] < rank[b]

\* A block of X that is not ahead has been done: a step is executed, and X has
\* the children of a Parallel and a branch of a Conditional.
Behind(b, X) ==
    IF b \in Leaf THEN b \in Set(executed)
    ELSE \/ Set(Then[b]) \subseteq X
         \/ b \in Cond /\ Set(Else[b]) \subseteq X

CoveredBy(X) ==
    /\ X \subseteq Block /\ Set(Body) \subseteq X
    /\ \A b \in X : b \in Set(todo) \/ Behind(b, X)

\* The whole body is done or still ahead.
NothingMissed == \E X \in SUBSET Block : CoveredBy(X)

\* Steps that were executed have a result, in memory and in the file.
Reported ==
    /\ \A s \in Set(executed) : results[s] # "none"
    /\ HasFile => \A s \in Set(latest.executed) : latest.results[s] # "none"

WholeInv ==
    /\ Reported
    /\ phase # "idle" => verdict = "none"
    /\ phase # "idle" \/ verdict = "success" => NothingMissed
    /\ verdict = "success" => todo = <<>> /\ AllSucceeded

-----------------------------------------------------------------------------
(* What Whole computes *)

WholeIn(b, X) ==
    IF b \in Leaf THEN results[b] = "ok"
    ELSE \/ \A i \in DOMAIN Then[b] : Then[b][i] \in X
         \/ b \in Cond /\ \A i \in DOMAIN Else[b] : Else[b][i] \in X

\* Whole's function has a value: the rule is monotonic, so the union of the sets
\* that it sustains is a fixed point.
Sustained == UNION { Y \in SUBSET Block : \A b \in Y : WholeIn(b, Y) }

LEMMA SustainedIsFixed ==
    /\ Sustained \subseteq Block
    /\ \A b \in Block : b \in Sustained <=> WholeIn(b, Sustained)
<1> DEFINE Family == { Y \in SUBSET Block : \A b \in Y : WholeIn(b, Y) }
<1>1. Sustained = UNION Family /\ Sustained \subseteq Block
  BY DEF Sustained
<1>2. ASSUME NEW b, NEW Y, NEW Z, Y \subseteq Z, WholeIn(b, Y) PROVE WholeIn(b, Z)
  BY <1>2 DEF WholeIn
<1>3. ASSUME NEW b \in Sustained PROVE WholeIn(b, Sustained)
  <2>1. PICK Y \in Family : b \in Y
    BY <1>1
  <2>2. Y \subseteq Sustained /\ WholeIn(b, Y)
    BY <1>1, <2>1
  <2> QED
    BY <1>2, <2>2
<1>4. ASSUME NEW b \in Block, WholeIn(b, Sustained) PROVE b \in Sustained
  <2> DEFINE Z == Sustained \union {b}
  <2>1. Sustained \subseteq Z /\ b \in Z /\ Z \subseteq Block
    BY <1>1
  <2>2. \A c \in Z : WholeIn(c, Sustained)
    BY <1>3, <1>4
  <2> HIDE DEF Z
  <2>3. \A c \in Z : WholeIn(c, Z)
    BY <1>2, <2>1, <2>2
  <2>4. Z \in Family
    BY <2>1, <2>3
  <2> QED
    BY <1>1, <2>1, <2>4
<1> QED
  BY <1>1, <1>3, <1>4

\* In a tree there is no other fixed point: below a block that is missing there
\* would be one of a lower rank.
LEMMA WholeFromSets ==
    ASSUME Tree, NEW X \in SUBSET Block, Set(Body) \subseteq X, \A b \in X : WholeIn(b, X)
    PROVE  Whole
<1> DEFINE Holds(f, b) == IF b \in Leaf THEN results[b] = "ok"
                         ELSE \/ \A i \in DOMAIN Then[b] : f[Then[b][i]]
                              \/ b \in Cond /\ \A i \in DOMAIN Else[b] : f[Else[b][i]]
           Rule(f) == [b \in Block |-> Holds(f, b)]
           w0 == [b \in Block |-> b \in Sustained]
           w  == CHOOSE f : f = Rule(f)
<1>0. /\ \A b \in Par \union Cond : \A i \in DOMAIN Then[b] : Then[b][i] \in Block
      /\ \A b \in Cond : \A i \in DOMAIN Else[b] : Else[b][i] \in Block
      /\ \A b \in Block \ Leaf : b \in Par \union Cond
  BY Children DEF Block
<1>1. w0 = Rule(w0)
  <2>0. w0 \in [Block -> BOOLEAN] /\ Rule(w0) \in [Block -> BOOLEAN]
    <3>1. w0 \in [Block -> BOOLEAN]
      OBVIOUS
    <3>2. \A b \in Block : Holds(w0, b) \in BOOLEAN
      <4> HIDE DEF w0
      <4>1. TAKE b \in Block
      <4>2. CASE b \in Leaf
        BY <4>2
      <4>3. CASE b \notin Leaf
        BY <4>3
      <4> QED
        BY <4>2, <4>3
    <3> HIDE DEF Holds
    <3>3. Rule(w0) \in [Block -> BOOLEAN]
      BY <3>2
    <3> QED
      BY <3>1, <3>3
  <2> SUFFICES ASSUME NEW b \in Block PROVE w0[b] = Rule(w0)[b]
    BY <2>0
  <2>1. (b \in Sustained) <=> WholeIn(b, Sustained)
    BY SustainedIsFixed
  <2>2. \A c \in Block : w0[c] <=> c \in Sustained
    OBVIOUS
  <2> HIDE DEF w0
  <2>3. Rule(w0)[b] <=> WholeIn(b, Sustained)
    BY <1>0, <2>2 DEF WholeIn
  <2>4. w0[b] <=> Rule(w0)[b]
    BY <2>1, <2>2, <2>3
  <2> HIDE DEF Rule
  <2> QED
    BY <2>0, <2>4
<1>2. w = Rule(w)
  <2> HIDE DEF Rule, w0
  <2> QED
    BY <1>1
<1>3. \A b \in Block : w[b] <=> IF b \in Leaf THEN results[b] = "ok"
              ELSE \/ \A i \in DOMAIN Then[b] : w[Then[b][i]]
                   \/ b \in Cond /\ \A i \in DOMAIN Else[b] : w[Else[b][i]]
  <2> HIDE DEF w
  <2> QED
    BY <1>2
<1>4. Whole <=> \A i \in DOMAIN Body : w[Body[i]]
  BY DEF Whole
<1> HIDE DEF w
<1>5. \A b \in X : w[b]
  <2> DEFINE N == {b \in X : ~w[b]}
  <2> SUFFICES ASSUME N # {} PROVE FALSE
    OBVIOUS
  <2>1. PICK rank \in [Block -> Nat] : \A b \in Par \union Cond : \A c \in Below(b) : rank[c] < rank[b]
    BY DEF Tree
  <2> DEFINE T == {rank[b] : b \in N}
             R == OpToRel(<, Nat)
  <2>2. T \in SUBSET Nat /\ T # {}
    BY <2>1
  <2>10. IsWellFoundedOn(R, Nat)
    BY NatLessThanWellFounded
  <2>3. \A k \in Nat, l \in Nat : k < l => <<k, l>> \in R
    BY DEF OpToRel
  <2>4. PICK m \in T : \A k \in T : ~(<<k, m>> \in R)
    <3> HIDE DEF T, R
    <3> QED
      BY <2>2, <2>10, WFMin
  <2>5. PICK b \in N : m = rank[b]
    BY <2>4
  <2> HIDE DEF R
  <2>6. \A c \in N : ~(rank[c] < rank[b])
    BY <2>1, <2>2, <2>3, <2>4, <2>5
  <2>7. b \in X /\ b \in Block /\ ~w[b] /\ WholeIn(b, X)
    OBVIOUS
  <2>8. \A c \in Below(b) \intersect X : b \notin Leaf => w[c]
    BY <1>0, <2>1, <2>6, <2>7
  <2>9. /\ \A i \in DOMAIN Then[b] : Then[b][i] \in Below(b)
        /\ b \in Cond => \A i \in DOMAIN Else[b] : Else[b][i] \in Below(b)
    BY DEF Below, Set
  <2> QED
    BY <1>3, <2>7, <2>8, <2>9 DEF WholeIn
<1> QED
  BY <1>4, <1>5 DEF Set

-----------------------------------------------------------------------------
(* The walk misses nothing *)

\* The first block gives way to what is in it, or was executed.
LEMMA HandledCovers ==
    ASSUME TypeOK, NothingMissed, NEW b, NEW Y \in SUBSET Block,
           Set(todo) \subseteq {b} \union Set(todo'), Y \subseteq Set(todo'),
           Set(executed) \subseteq Set(executed'),
           b \in Set(todo') \/ IF b \in Leaf THEN b \in Set(executed')
                               ELSE \/ Set(Then[b]) \subseteq Y
                                    \/ b \in Cond /\ Set(Else[b]) \subseteq Y
    PROVE  NothingMissed'
<1>1. PICK X \in SUBSET Block : CoveredBy(X)
  BY DEF NothingMissed
<1> DEFINE Z == X \union Y
<1>2. Z \in SUBSET Block /\ Set(Body) \subseteq Z
  BY <1>1 DEF CoveredBy
<1>3. ASSUME NEW c \in Z
      PROVE  c \in Set(todo') \/ IF c \in Leaf THEN c \in Set(executed')
                                 ELSE \/ Set(Then[c]) \subseteq Z
                                      \/ c \in Cond /\ Set(Else[c]) \subseteq Z
  <2>1. CASE c = b \/ c \in Y
    BY <2>1
  <2>2. CASE c # b /\ c \in X
    <3>1. c \in Set(todo) \/ Behind(c, X)
      BY <1>1, <2>2 DEF CoveredBy
    <3> QED
      BY <2>2, <3>1 DEF Behind
  <2> QED
    BY <2>1, <2>2
<1> HIDE DEF Z
<1>4. Set(executed)' = Set(executed') /\ Set(todo)' = Set(todo')
  BY DEF Set
<1>5. CoveredBy(Z)'
  BY <1>2, <1>3, <1>4 DEF CoveredBy, Behind
<1> QED
  BY <1>2, <1>5 DEF NothingMissed

\* Where nothing is done, nothing is missed.
LEMMA RestCovers == ASSUME NothingMissed, UNCHANGED <<todo, executed>> PROVE NothingMissed'
BY DEF NothingMissed, CoveredBy, Behind, Set

\* While a run goes on it has no verdict, and nothing is missed.
LEMMA RunsWhole ==
    ASSUME Reported', verdict' = "none", NothingMissed'
    PROVE  WholeInv'
BY DEF WholeInv

LEMMA OverWhole ==
    ASSUME Reported', phase' = "idle", verdict' \in {"raised", "killed", "failed"}
    PROVE  WholeInv'
BY DEF WholeInv

\* Results of executed steps stay, and a checkpoint takes them along.
LEMMA RestReports ==
    ASSUME Reported, UNCHANGED <<executed, results>>,
           \/ latest' = latest \/ latest' = Torn
           \/ latest' = [run |-> run, executed |-> executed, results |-> results, holds |-> holds]
    PROVE  Reported'
BY DEF Reported, HasFile, Set

LEMMA BodyCovers == ASSUME EngineAssumption, todo' = Body PROVE NothingMissed'
<1>1. Set(Body) \in SUBSET Block
  BY SetInside DEF EngineAssumption
<1>2. Set(todo)' = Set(Body)
  BY DEF Set
<1>3. CoveredBy(Set(Body))'
  BY <1>1, <1>2 DEF CoveredBy
<1> QED
  BY <1>1, <1>3 DEF NothingMissed

LEMMA StepWhole == Tree /\ EngineInv /\ WholeInv /\ [Next]_vars => WholeInv'
<1> SUFFICES ASSUME Tree, EngineInv, WholeInv, [Next]_vars PROVE WholeInv'
  OBVIOUS
<1>0. TypeOK /\ Reported /\ (phase # "idle" => verdict = "none" /\ NothingMissed)
  BY DEF EngineInv, WholeInv
<1>1. CASE Start \/ Resume
  <2>1. todo' = Body /\ verdict' = "none" /\ latest' = latest
    BY <1>1 DEF Start, Resume
  <2>2. Reported'
    BY <1>0, <1>1, <2>1 DEF Start, Resume, Restored, Reported, HasFile, Set
  <2> QED
    BY <2>1, <2>2, BodyCovers, EngineAssumption, RunsWhole
<1>2. CASE SkipStep \/ EnterParallel \/ EnterConditional
  <2>1. /\ todo # <<>> /\ todo \in Seq(Block) /\ phase = "next"
        /\ verdict' = verdict /\ UNCHANGED <<executed, results, latest>>
    BY <1>0, <1>2 DEF SkipStep, EnterParallel, EnterConditional, At, TypeOK
  <2>2. /\ Set(todo) = {Head(todo)} \union Set(Tail(todo))
        /\ Tail(todo) \in Seq(Block) /\ Head(todo) \in Block
    BY <2>1, SplitSet, TailTypes
  <2>3. NothingMissed'
    <3>1. CASE SkipStep
      <4> DEFINE b == Head(todo)
                 Y == {}
      <4>1. b \in Leaf /\ b \in Set(executed') /\ todo' = Tail(todo) /\ executed' = executed
        BY <2>1, <3>1 DEF SkipStep, At
      <4>2. Set(todo) \subseteq {b} \union Set(todo') /\ Y \in SUBSET Block /\ Y \subseteq Set(todo')
        BY <2>2, <4>1
      <4> HIDE DEF b, Y
      <4> QED
        BY <1>0, <2>1, <4>1, <4>2, HandledCovers
    <3>2. CASE EnterParallel
      <4>1. PICK b \in Par : At(b) /\ todo' = Then[b] \o Tail(todo)
        BY <3>2 DEF EnterParallel
      <4>2. b = Head(todo) /\ b \notin Leaf /\ Then[b] \in Seq(Block)
        BY <4>1, Children DEF At, Tree
      <4>3. Set(todo') = Set(Then[b]) \union Set(Tail(todo)) /\ Set(Then[b]) \in SUBSET Block
        BY <2>2, <4>1, <4>2, JoinedSet, SetInside
      <4> QED
        BY <1>0, <2>1, <2>2, <4>2, <4>3, HandledCovers
    <3>3. CASE EnterConditional
      <4>1. PICK b \in Cond : At(b) /\ todo' = Branch(b) \o Tail(todo)
        BY <3>3 DEF EnterConditional
      <4>2. b = Head(todo) /\ b \notin Leaf /\ Branch(b) \in Seq(Block) /\ Branch(b) \in {Then[b], Else[b]}
        BY <4>1, BranchTypes DEF At, Tree, Branch
      <4>3. Set(todo') = Set(Branch(b)) \union Set(Tail(todo)) /\ Set(Branch(b)) \in SUBSET Block
        BY <2>2, <4>1, <4>2, JoinedSet, SetInside
      <4> QED
        BY <1>0, <2>1, <2>2, <4>1, <4>2, <4>3, HandledCovers
    <3> QED
      BY <1>2, <3>1, <3>2, <3>3
  <2> QED
    BY <1>0, <2>1, <2>3, RestReports, RunsWhole
<1>3. CASE AttemptOk \/ AttemptFails \/ Fallback \/ CallbackRaises
  <2>1. PICK res \in {"ok", "bad"} : Apply(res)
    BY <1>3 DEF AttemptOk, AttemptFails, Fallback, CallbackRaises, StepEnds
  <2>2. /\ todo # <<>> /\ todo \in Seq(Block) /\ Head(todo) \in Leaf /\ executed \in Seq(Leaf)
        /\ results \in [Leaf -> {"none", "ok", "bad"}]
        /\ UNCHANGED <<latest, verdict>> /\ phase # "idle"
    BY <1>3 DEF AttemptOk, AttemptFails, Fallback, CallbackRaises, EngineInv, BudgetInv,
                Admitted, AtWork, TypeOK
  <2> DEFINE b == Head(todo)
             Y == {}
  <2>3. /\ executed' = Append(executed, b) /\ todo' = Tail(todo)
        /\ results' = [results EXCEPT ![b] = res]
    BY <2>1 DEF Apply
  <2>4. Set(executed') = Set(executed) \union {b} /\ Set(todo) = {b} \union Set(todo')
    BY <2>2, <2>3, AppendedSet, SplitSet
  <2>5. Y \in SUBSET Block /\ Y \subseteq Set(todo') /\ b \in Leaf
    BY <2>2
  <2> HIDE DEF b, Y
  <2>6. NothingMissed'
    BY <1>0, <2>2, <2>4, <2>5, HandledCovers
  <2>7. Set(executed)' = Set(executed') /\ Set(executed) \subseteq Leaf
    BY <2>2, SetInside DEF Set
  <2>8. Reported'
    BY <1>0, <2>2, <2>3, <2>4, <2>5, <2>7 DEF Reported, HasFile, Set
  <2> QED
    BY <1>0, <2>2, <2>6, <2>8, RunsWhole
<1>4. CASE \/ StepRefused \/ StepBegin \/ AttemptRetried \/ AttemptFallsBack \/ SaveOpens
           \/ Cancel \/ HeartbeatLost
  <2>1. /\ phase # "idle" /\ verdict' = verdict /\ UNCHANGED <<todo, executed, results>>
        /\ latest' \in {latest, Torn}
    BY <1>4 DEF StepRefused, StepBegin, AttemptRetried, AttemptFallsBack, SaveOpens, Cancel,
                HeartbeatLost, memory, AtNewStep, At, Saving
  <2> QED
    BY <1>0, <2>1, RestReports, RestCovers, RunsWhole
<1>5. CASE SaveWrites \/ SaveFails
  <2>1. /\ phase # "idle" /\ UNCHANGED <<todo, executed, results>>
        /\ verdict' = verdict \/ (phase' = "idle" /\ verdict' = "raised")
        /\ \/ latest' = latest
           \/ latest' = [run |-> run, executed |-> executed, results |-> results, holds |-> holds]
    BY <1>5 DEF SaveWrites, SaveFails, memory, Saving, AfterSave, Leave
  <2>2. Reported' /\ NothingMissed'
    BY <1>0, <2>1, RestReports, RestCovers
  <2> QED
    BY <1>0, <2>1, <2>2, RunsWhole, OverWhole
<1>6. CASE StepCancelled \/ AttemptRaises
  <2>1. /\ UNCHANGED <<executed, results, latest>> /\ phase' = "idle" /\ verdict' = "raised"
    BY <1>6 DEF StepCancelled, AttemptRaises, memory, Leave
  <2> QED
    BY <1>0, <2>1, RestReports, OverWhole
<1>7. CASE Crash
  <2>1. /\ executed' = <<>> /\ latest' = latest /\ phase' = "idle" /\ verdict' = "killed"
    BY <1>7 DEF Crash, Leave
  <2>2. Reported'
    BY <1>0, <2>1 DEF Reported, HasFile, Set
  <2> QED
    BY <2>1, <2>2, OverWhole
<1>8. CASE Return
  <2>1. /\ UNCHANGED <<todo, executed, results, latest>> /\ phase' = "idle" /\ todo = <<>>
        /\ verdict' = (IF AllSucceeded THEN "success" ELSE "failed") /\ phase = "next"
    BY <1>8 DEF Return, memory, Leave
  <2>2. Reported' /\ NothingMissed'
    BY <1>0, <2>1, RestReports, RestCovers
  <2>3. AllSucceeded' <=> AllSucceeded
    BY <2>1 DEF AllSucceeded
  <2> QED
    BY <2>1, <2>2, <2>3 DEF WholeInv
<1>9. CASE UNCHANGED vars
  <2>1. UNCHANGED <<todo, executed, results, latest, phase, verdict>>
    BY <1>9 DEF vars, memory
  <2>2. Reported' /\ (NothingMissed => NothingMissed')
    BY <1>0, <2>1, RestReports, RestCovers
  <2> QED
    BY <2>1, <2>2 DEF WholeInv, AllSucceeded
<1> QED
  BY <1>1, <1>2, <1>3, <1>4, <1>5, <1>6, <1>7, <1>8, <1>9 DEF Next, Engine

\* A run that covered the body and saw no failure is whole.
LEMMA CoveredIsWhole ==
    ASSUME Tree, TypeOK, WholeInv, verdict = "success"
    PROVE  Whole /\ \A s \in Set(executed) : results[s] = "ok"
<1>1. todo = <<>> /\ AllSucceeded /\ NothingMissed /\ Reported /\ Set(executed) \subseteq Leaf
  BY SetInside DEF WholeInv, TypeOK
<1>2. \A s \in Set(executed) : results[s] = "ok"
  BY <1>1 DEF TypeOK, AllSucceeded, Reported
<1>3. PICK X \in SUBSET Block : CoveredBy(X)
  BY <1>1 DEF NothingMissed
<1>4. Set(todo) = {}
  BY <1>1 DEF Set
<1>5. ASSUME NEW b \in X PROVE WholeIn(b, X)
  <2>1. Behind(b, X)
    BY <1>3, <1>4 DEF CoveredBy
  <2> QED
    BY <1>2, <2>1 DEF Behind, WholeIn, Set
<1>6. Whole
  BY <1>3, <1>5, WholeFromSets DEF CoveredBy
<1> QED
  BY <1>2, <1>6

\* Whatever the blocks and however deep they are nested, a run that reports success
\* has gone through the whole body, with the runs it resumes, and every step on the
\* way succeeded: nothing is passed over after a crash, a cancel or a torn file.
THEOREM SuccessMeansWhole == ASSUME Tree PROVE Spec => []SuccessIsWhole
<1>1. Init => EngineInv /\ WholeInv
  BY InitEngine DEF Init, Blank, WholeInv, Reported, HasFile, Set
<1>2. (EngineInv /\ WholeInv) /\ [Next]_vars => (EngineInv /\ WholeInv)'
  BY StepEngine, StepWhole
<1>3. EngineInv /\ WholeInv => SuccessIsWhole
  BY CoveredIsWhole DEF EngineInv, SuccessIsWhole
<1> QED
  BY <1>1, <1>2, <1>3, PTL DEF Spec

-----------------------------------------------------------------------------
(* What is under a block *)

Closed(S) == \A b \in S \ Leaf : Below(b) \subseteq S

\* The blocks of D and all that is in them: the least closed set that has D.
Under(D) == {x \in Block : \A S \in SUBSET Block : D \subseteq S /\ Closed(S) => x \in S}

LEMMA BelowBlocks == ASSUME NEW b \in Block, b \notin Leaf PROVE Below(b) \subseteq Block
<1>1. b \in Par \union Cond
  BY DEF Block
<1>2. Set(Then[b]) \subseteq Block
  BY <1>1, Children, SetInside
<1>3. b \in Cond => Set(Else[b]) \subseteq Block
  BY Children, SetInside
<1> QED
  BY <1>2, <1>3 DEF Below

LEMMA UnderLeast ==
    ASSUME NEW D, NEW S \in SUBSET Block, D \subseteq S, Closed(S) PROVE Under(D) \subseteq S
BY DEF Under

LEMMA UnderCloses ==
    ASSUME NEW D \in SUBSET Block
    PROVE  D \subseteq Under(D) /\ Under(D) \in SUBSET Block /\ Closed(Under(D))
<1>1. D \subseteq Under(D) /\ Under(D) \in SUBSET Block
  BY DEF Under
<1>2. Closed(Under(D))
  <2> SUFFICES ASSUME NEW b \in Under(D) \ Leaf, NEW c \in Below(b) PROVE c \in Under(D)
    BY DEF Closed
  <2>1. b \in Block /\ c \in Block
    BY <1>1, BelowBlocks
  <2> SUFFICES ASSUME NEW S \in SUBSET Block, D \subseteq S, Closed(S) PROVE c \in S
    BY <2>1 DEF Under
  <2>2. b \in S
    BY DEF Under
  <2> QED
    BY <2>2 DEF Closed
<1> QED
  BY <1>1, <1>2

\* What is under D is of D or has its place in a block under D.
LEMMA UnderPlace ==
    ASSUME NEW D \in SUBSET Block, NEW x \in Under(D)
    PROVE  x \in D \/ \E p \in Under(D) \ Leaf : x \in Below(p)
<1> DEFINE S == D \union UNION {Below(p) : p \in Under(D) \ Leaf}
<1>1. D \subseteq Under(D) /\ Under(D) \in SUBSET Block /\ Closed(Under(D))
  BY UnderCloses
<1>2. \A p \in Under(D) \ Leaf : Below(p) \subseteq Under(D)
  BY <1>1 DEF Closed
<1>3. S \subseteq Under(D) /\ S \in SUBSET Block
  BY <1>1, <1>2
<1>4. Closed(S)
  BY <1>3 DEF Closed
<1>5. D \subseteq S
  OBVIOUS
<1>6. x \in S
  <2> HIDE DEF S
  <2> QED
    BY <1>3, <1>4, <1>5, UnderLeast
<1> QED
  BY <1>6

LEMMA UnderGrows ==
    ASSUME NEW D \in SUBSET Block, NEW E \in SUBSET Block, D \subseteq Under(E)
    PROVE  Under(D) \subseteq Under(E)
BY UnderCloses, UnderLeast

\* The rule of Leaves has a solution: the steps that are under a block.
LEMMA LeavesRule ==
    \A b \in Block : Leaves[b] = IF b \in Leaf THEN {b} ELSE UNION {Leaves[c] : c \in Below(b)}
<1> DEFINE Rule(f) == [b \in Block |-> IF b \in Leaf THEN {b} ELSE UNION {f[c] : c \in Below(b)}]
           h == [b \in Block |-> Under({b}) \intersect Leaf]
<1>1. ASSUME NEW b \in Block PROVE h[b] = Rule(h)[b]
  <2>1. b \in Under({b}) /\ Under({b}) \in SUBSET Block /\ Closed(Under({b}))
    BY UnderCloses
  <2>2. CASE b \in Leaf
    <3>1. Under({b}) \subseteq {b}
      BY <2>2, UnderLeast DEF Closed
    <3> QED
      BY <2>1, <2>2, <3>1
  <2>3. CASE b \notin Leaf
    <3> DEFINE S == {b} \union UNION {Under({c}) : c \in Below(b)}
    <3>1. Below(b) \subseteq Block
      BY <2>3, BelowBlocks
    <3>2. \A c \in Below(b) : c \in Under({c}) /\ Under({c}) \in SUBSET Block /\ Closed(Under({c}))
      BY <3>1, UnderCloses
    <3>3. \A c \in Below(b) : Under({c}) \subseteq Under({b})
      <4> TAKE c \in Below(b)
      <4>1. {c} \subseteq Under({b}) /\ {c} \in SUBSET Block
        BY <2>1, <2>3, <3>1 DEF Closed
      <4> QED
        BY <4>1, UnderGrows
    <3>4. S \in SUBSET Block
      BY <3>2
    <3>5. Closed(S)
      <4> SUFFICES ASSUME NEW x \in S \ Leaf PROVE Below(x) \subseteq S
        BY DEF Closed
      <4>1. CASE x = b
        BY <3>2, <4>1
      <4>2. CASE \E c \in Below(b) : x \in Under({c})
        <5>1. PICK c \in Below(b) : x \in Under({c})
          BY <4>2
        <5>2. Below(x) \subseteq Under({c})
          BY <3>2, <5>1 DEF Closed
        <5> QED
          BY <5>2
      <4> QED
        BY <4>1, <4>2
    <3>6. Under({b}) \subseteq S
      <4> HIDE DEF S
      <4> QED
        BY <3>4, <3>5, UnderLeast, {b} \subseteq S DEF S
    <3>7. Under({b}) \intersect Leaf = UNION {Under({c}) \intersect Leaf : c \in Below(b)}
      <4>1. ASSUME NEW s \in Leaf, s \in Under({b}) PROVE \E c \in Below(b) : s \in Under({c})
        <5>1. s # b /\ s \in S
          BY <2>3, <3>6, <4>1
        <5> QED
          BY <5>1
      <4>2. ASSUME NEW s \in Leaf, NEW c \in Below(b), s \in Under({c}) PROVE s \in Under({b})
        BY <3>3, <4>2
      <4> HIDE DEF S
      <4>3. ASSUME NEW s
            PROVE  s \in Under({b}) \intersect Leaf
                     <=> s \in UNION {Under({c}) \intersect Leaf : c \in Below(b)}
        <5>1. s \in UNION {Under({c}) \intersect Leaf : c \in Below(b)}
                <=> \E c \in Below(b) : s \in Under({c}) \intersect Leaf
          OBVIOUS
        <5>2. CASE s \in Leaf
          BY <4>1, <4>2, <5>1, <5>2
        <5>3. CASE s \notin Leaf
          BY <5>1, <5>3
        <5> QED
          BY <5>2, <5>3
      <4> QED
        BY <4>3, Zenon
    <3>8. \A c \in Below(b) : h[c] = Under({c}) \intersect Leaf
      BY <3>1
    <3>9. Rule(h)[b] = UNION {h[c] : c \in Below(b)} /\ h[b] = Under({b}) \intersect Leaf
      BY <2>3
    <3> HIDE DEF h, Rule
    <3> QED
      BY <3>7, <3>8, <3>9
  <2> QED
    BY <2>2, <2>3
<1>2. h = Rule(h)
  <2>1. h = [b \in Block |-> h[b]] /\ Rule(h) = [b \in Block |-> Rule(h)[b]]
    OBVIOUS
  <2> HIDE DEF h, Rule
  <2> QED
    BY <1>1, <2>1
<1>3. Leaves = CHOOSE f : f = Rule(f)
  BY DEF Leaves, Below
<1>4. Leaves = Rule(Leaves)
  <2> HIDE DEF h, Rule
  <2> QED
    BY <1>2, <1>3
<1> QED
  BY <1>4

-----------------------------------------------------------------------------
(* Branches that begin with a step stick, however deep the blocks are nested *)

\* What is in a branch, at any depth.
Inside == UNION {Under(Below(b)) : b \in Cond}

\* Only a step may be repeated within a branch.
BlocksOnce(seq) ==
    \A i, j \in DOMAIN seq : seq[i] = seq[j] /\ seq[i] \in Inside \ Leaf => i = j

\* What is in a branch has no other place in the loop.
OncePlaced ==
    /\ Set(Body) \intersect Inside = {}
    /\ \A b, c \in Par \union Cond : b # c => Below(b) \intersect Below(c) \intersect Inside = {}
    /\ \A b \in Par \union Cond : BlocksOnce(Then[b])
    /\ \A b \in Cond : BlocksOnce(Else[b]) /\ Set(Then[b]) \intersect Set(Else[b]) = {}

Sides(b) == {Then[b], Else[b]}

\* A branch begins with a step of its own.
LedByStep == \A b \in Cond : \A side \in Sides(b) : side # <<>> => side[1] \in Leaf

OneSide(S) == \A b \in Cond : \/ Under(Set(Then[b])) \intersect S = {}
                              \/ Under(Set(Else[b])) \intersect S = {}

\* The first step of a branch is executed before anything else under it.
Led(S) == \A b \in Cond : \A side \in Sides(b) :
              Under(Set(side)) \intersect S # {} => side[1] \in S

Sound(done) == OneSide(done) /\ Led(done)

\* What is left of the walk: no block ahead of what is in it, nothing of the
\* other side of an entered Conditional, and the first step of a branch before
\* the rest of it.
Apart(seq) ==
    \A i, j \in DOMAIN seq :
        i < j /\ seq[i] \notin Leaf /\ seq[j] \in Inside => seq[j] \notin Under({seq[i]})

LeadsOn(seq, done) ==
    \A b \in Cond : \A side \in Sides(b) :
        Under(Set(side)) \intersect Set(seq) # {} => side[1] \in done \/ side[1] = Head(seq)

OnWalk(seq, done) ==
    /\ Apart(seq) /\ OneSide(Set(seq) \union done) /\ Led(done) /\ LeadsOn(seq, done)

WalkInv ==
    /\ OnWalk(todo, Set(executed))
    /\ HasFile => Sound(Set(latest.executed))

LEMMA SideTypes ==
    ASSUME NEW b \in Cond, NEW side \in Sides(b)
    PROVE  side \in Seq(Block) /\ Set(side) \in SUBSET Block /\ Set(side) \subseteq Below(b)
<1>1. side \in Seq(Block)
  BY Children DEF Sides
<1>2. Set(side) \subseteq Below(b)
  BY DEF Sides, Below
<1> QED
  BY <1>1, <1>2, SetInside

LEMMA FewerSides == ASSUME NEW S, NEW T \in SUBSET S, OneSide(S) PROVE OneSide(T)
BY DEF OneSide

LEMMA EmptySides == Sound({})
BY DEF Sound, OneSide, Led

\* A block is not under what is in it.
LEMMA NotUnderOwn ==
    ASSUME Tree, NEW b \in Par \union Cond, NEW D, D \subseteq Below(b) PROVE b \notin Under(D)
<1>1. PICK rank \in [Block -> Nat] : \A x \in Par \union Cond : \A y \in Below(x) : rank[y] < rank[x]
  BY DEF Tree
<1> DEFINE S == {x \in Block : rank[x] < rank[b]}
<1>2. b \in Block /\ b \notin Leaf
  BY DEF Tree, Block
<1>3. Below(b) \subseteq Block
  BY <1>2, BelowBlocks
<1>4. D \subseteq S
  BY <1>1, <1>3
<1>5. Closed(S)
  <2> SUFFICES ASSUME NEW x \in S \ Leaf, NEW y \in Below(x) PROVE y \in S
    BY DEF Closed
  <2>1. x \in Par \union Cond /\ y \in Block
    BY BelowBlocks DEF Block
  <2>2. rank[y] < rank[x] /\ rank[x] < rank[b] /\ rank[x] \in Nat /\ rank[y] \in Nat /\ rank[b] \in Nat
    BY <1>1, <1>2, <2>1
  <2> QED
    BY <2>1, <2>2
<1>6. b \notin S
  BY <1>1, <1>2
<1> HIDE DEF S
<1> QED
  BY <1>4, <1>5, <1>6, UnderLeast DEF S

LEMMA NoneUnderNone == Under({}) = {}
BY UnderLeast DEF Closed

LEMMA SideInside ==
    ASSUME Tree, NEW b \in Cond
    PROVE  /\ Below(b) \subseteq Inside
           /\ \A side \in Sides(b) : Under(Set(side)) \subseteq Inside
<1>1. Below(b) \in SUBSET Block
  BY BelowBlocks DEF Tree, Block
<1>2. Below(b) \subseteq Under(Below(b)) /\ Under(Below(b)) \subseteq Inside
  BY <1>1, UnderCloses DEF Inside
<1>3. ASSUME NEW side \in Sides(b) PROVE Under(Set(side)) \subseteq Inside
  <2>1. Set(side) \in SUBSET Block /\ Set(side) \subseteq Below(b)
    BY SideTypes
  <2>2. Under(Set(side)) \subseteq Under(Below(b))
    BY <1>1, <1>2, <2>1, UnderGrows
  <2> QED
    BY <1>2, <2>2
<1> QED
  BY <1>2, <1>3

\* A child of b that is in a branch is under another set of blocks only if b is.
LEMMA PlaceOfChild ==
    ASSUME OncePlaced, NEW b \in Par \union Cond, NEW x \in Below(b) \intersect Inside,
           NEW D \in SUBSET Block, x \in Under(D)
    PROVE  x \in D \/ b \in Under(D)
<1>1. x \in D \/ \E p \in Under(D) \ Leaf : x \in Below(p)
  BY UnderPlace
<1>2. ASSUME NEW p \in Under(D) \ Leaf, x \in Below(p) PROVE p = b
  <2>1. p \in Par \union Cond
    BY UnderCloses DEF Block
  <2> QED
    BY <1>2, <2>1 DEF OncePlaced
<1> QED
  BY <1>1, <1>2

\* Of one branch nothing is under the other.
LEMMA SidesApart ==
    ASSUME OncePlaced, Tree, NEW b \in Cond, NEW D, NEW E, D \subseteq Below(b), E \subseteq Below(b),
           D \intersect E = {}
    PROVE  Under(D) \intersect E = {}
<1> SUFFICES ASSUME NEW x \in E, x \in Under(D) PROVE FALSE
  OBVIOUS
<1>1. b \in Block /\ b \notin Leaf /\ D \in SUBSET Block /\ x \in Inside
  BY BelowBlocks, SideInside DEF Tree, Block
<1>2. b \in Under(D)
  BY <1>1, PlaceOfChild
<1> QED
  BY <1>2, NotUnderOwn

\* The blocks of a sequence of children are apart.
LEMMA ChildrenApart ==
    ASSUME OncePlaced, Tree, NEW b \in Par \union Cond, NEW seq \in Seq(Block),
           Set(seq) \subseteq Below(b), BlocksOnce(seq)
    PROVE  Apart(seq)
<1> SUFFICES ASSUME NEW i \in DOMAIN seq, NEW j \in DOMAIN seq, i < j, seq[i] \notin Leaf,
                    seq[j] \in Inside, seq[j] \in Under({seq[i]})
             PROVE  FALSE
  BY DEF Apart
<1>1. seq[i] # seq[j] /\ seq[i] \in Below(b) /\ seq[j] \in Below(b) /\ seq[i] \in Block
  <2>1. DOMAIN seq = 1..Len(seq) /\ Len(seq) \in Nat
    OBVIOUS
  <2> QED
    BY <2>1 DEF BlocksOnce, Set
<1>2. b \in Under({seq[i]})
  BY <1>1, PlaceOfChild
<1> QED
  BY <1>1, <1>2, NotUnderOwn

-----------------------------------------------------------------------------
(* The walk keeps to the side it entered *)

LEMMA BodyOnWalk ==
    ASSUME OncePlaced, Tree, NEW done, Sound(done) PROVE OnWalk(Body, done)
<1>1. \A b \in Cond : \A side \in Sides(b) : Under(Set(side)) \intersect Set(Body) = {}
  BY SideInside DEF OncePlaced
<1>2. Apart(Body)
  BY DEF OncePlaced, Apart, Set
<1>3. LeadsOn(Body, done)
  BY <1>1 DEF LeadsOn
<1>4. OneSide(Set(Body) \union done)
  BY <1>1 DEF Sound, OneSide, Sides
<1> QED
  BY <1>2, <1>3, <1>4 DEF OnWalk, Sound

\* A step at the head is executed, or was.
LEMMA TailOnWalk ==
    ASSUME NEW seq \in Seq(Block), seq # <<>>, NEW done, OnWalk(seq, done)
    PROVE  OnWalk(Tail(seq), done \union {Head(seq)})
<1>1. /\ DOMAIN seq = 1..Len(seq) /\ Len(seq) \in Nat \ {0} /\ Head(seq) = seq[1]
      /\ DOMAIN Tail(seq) = 1..(Len(seq) - 1)
      /\ \A i \in 1..(Len(seq) - 1) : Tail(seq)[i] = seq[i + 1] /\ i + 1 \in DOMAIN seq
  OBVIOUS
<1>2. Set(seq) = {Head(seq)} \union Set(Tail(seq))
  BY SplitSet
<1>3. Apart(Tail(seq))
  <2> SUFFICES ASSUME NEW i \in 1..(Len(seq) - 1), NEW j \in 1..(Len(seq) - 1), i < j,
                      seq[i + 1] \notin Leaf, seq[j + 1] \in Inside
               PROVE  seq[j + 1] \notin Under({seq[i + 1]})
    BY <1>1 DEF Apart
  <2>1. i + 1 \in DOMAIN seq /\ j + 1 \in DOMAIN seq /\ i + 1 < j + 1
    BY <1>1
  <2> QED
    BY <2>1 DEF OnWalk, Apart
<1>4. OneSide(Set(Tail(seq)) \union (done \union {Head(seq)}))
  <2>1. Set(Tail(seq)) \union (done \union {Head(seq)}) = Set(seq) \union done
    BY <1>2
  <2> QED
    BY <2>1 DEF OnWalk
<1>5. Led(done \union {Head(seq)}) /\ LeadsOn(Tail(seq), done \union {Head(seq)})
  BY <1>2 DEF OnWalk, Led, LeadsOn
<1> QED
  BY <1>3, <1>4, <1>5 DEF OnWalk

\* A block at the head gives way to one side of it, the other being untouched.
LEMMA EnterOnWalk ==
    ASSUME OncePlaced, Tree, LedByStep, NEW b \in Par \union Cond,
           NEW seq \in Seq(Block), seq # <<>>, Head(seq) = b, NEW done, OnWalk(seq, done),
           NEW part \in Seq(Block), BlocksOnce(part), Set(part) \subseteq Below(b),
           b \in Cond => \/ part = Then[b] /\ Under(Set(Else[b])) \intersect done = {}
                         \/ part = Else[b] /\ Under(Set(Then[b])) \intersect done = {}
    PROVE  OnWalk(part \o Tail(seq), done)
<1> DEFINE rest == Tail(seq)
           next == part \o rest
<1>0. /\ DOMAIN seq = 1..Len(seq) /\ Len(seq) \in Nat \ {0} /\ Head(seq) = seq[1]
      /\ rest \in Seq(Block) /\ Len(rest) = Len(seq) - 1
      /\ DOMAIN rest = 1..(Len(seq) - 1)
      /\ \A i \in 1..(Len(seq) - 1) : rest[i] = seq[i + 1] /\ i + 1 \in DOMAIN seq
  OBVIOUS
<1>1. b \in Block /\ b \notin Leaf /\ Below(b) \subseteq Block
  BY BelowBlocks DEF Tree, Block
<1>2. Set(seq) = {b} \union Set(rest) /\ Set(next) = Set(part) \union Set(rest)
  BY <1>0, SplitSet, JoinedSet
<1>3. Under({b}) \in SUBSET Block /\ Below(b) \subseteq Under({b}) /\ Set(part) \in SUBSET Block
  BY <1>1, UnderCloses DEF Closed
<1>4. Set(rest) \intersect Inside \intersect Under({b}) = {}
  <2> SUFFICES ASSUME NEW i \in DOMAIN rest, rest[i] \in Inside PROVE rest[i] \notin Under({b})
    BY DEF Set
  <2>1. rest[i] = seq[i + 1] /\ i + 1 \in DOMAIN seq /\ 1 \in DOMAIN seq /\ 1 < i + 1
    BY <1>0
  <2> QED
    BY <1>0, <1>1, <2>1 DEF OnWalk, Apart
<1>5. Apart(next)
  <2>1. /\ DOMAIN part = 1..Len(part) /\ Len(part) \in Nat
        /\ DOMAIN next = 1..(Len(part) + Len(rest)) /\ Len(rest) \in Nat
        /\ \A i \in 1..Len(part) : next[i] = part[i]
        /\ \A i \in 1..Len(rest) : next[Len(part) + i] = rest[i]
    BY <1>0
  <2> HIDE DEF next
  <2> SUFFICES ASSUME NEW i \in DOMAIN next, NEW j \in DOMAIN next, i < j,
                      next[i] \notin Leaf, next[j] \in Inside
               PROVE  next[j] \notin Under({next[i]})
    BY DEF Apart
  <2>2. CASE j \in 1..Len(part)
    <3>1. i \in 1..Len(part)
      BY <2>1, <2>2
    <3>2. Apart(part)
      BY ChildrenApart
    <3> QED
      BY <2>1, <2>2, <3>1, <3>2 DEF Apart
  <2>3. CASE j \notin 1..Len(part)
    <3>1. j - Len(part) \in 1..Len(rest) /\ Len(part) + (j - Len(part)) = j
      BY <2>1, <2>3
    <3>2. next[j] = rest[j - Len(part)] /\ next[j] \in Set(rest)
      BY <1>0, <2>1, <3>1 DEF Set
    <3>3. CASE i \in 1..Len(part)
      <4>1. next[i] \in Set(part) /\ next[i] \in Under({b})
        BY <1>3, <2>1, <3>3 DEF Set
      <4>2. Under({next[i]}) \subseteq Under({b})
        BY <1>1, <1>3, <4>1, UnderGrows
      <4> QED
        BY <1>4, <3>2, <4>2
    <3>4. CASE i \notin 1..Len(part)
      <4>1. i - Len(part) \in 1..Len(rest) /\ Len(part) + (i - Len(part)) = i
        BY <2>1, <3>4
      <4>2. next[i] = rest[i - Len(part)]
        BY <2>1, <4>1
      <4>3. /\ next[i] = seq[(i - Len(part)) + 1] /\ next[j] = seq[(j - Len(part)) + 1]
            /\ (i - Len(part)) + 1 \in DOMAIN seq /\ (j - Len(part)) + 1 \in DOMAIN seq
        BY <1>0, <3>1, <3>2, <4>1, <4>2
      <4>4. (i - Len(part)) + 1 < (j - Len(part)) + 1
        BY <2>1
      <4> QED
        BY <4>3, <4>4 DEF OnWalk, Apart
    <3> QED
      BY <3>3, <3>4
  <2> QED
    BY <2>2, <2>3
<1>6. ASSUME NEW c \in Cond, c # b, NEW side \in Sides(c),
             Under(Set(side)) \intersect Set(next) # {}
      PROVE  Under(Set(side)) \intersect Set(seq) # {}
  <2>1. Set(side) \in SUBSET Block /\ Set(side) \subseteq Below(c)
    BY <1>6, SideTypes
  <2>2. PICK x \in Set(next) : x \in Under(Set(side))
    BY <1>6
  <2>3. CASE x \in Set(rest)
    BY <1>2, <2>2, <2>3
  <2>4. CASE x \in Set(part)
    <3>1. x \in Below(b) \intersect Inside
      BY <1>6, <2>2, <2>4, SideInside
    <3>2. x \notin Set(side)
      BY <1>6, <2>1, <3>1 DEF OncePlaced
    <3>3. b \in Under(Set(side))
      BY <2>1, <2>2, <3>1, <3>2, PlaceOfChild
    <3> QED
      BY <1>2, <3>3
  <2> QED
    BY <1>2, <2>2, <2>3, <2>4
<1>7. ASSUME b \in Cond, NEW side \in Sides(b)
      PROVE  Under(Set(side)) \intersect Set(rest) = {}
  <2>1. Under(Set(side)) \subseteq Under({b})
    BY <1>1, <1>3, <1>7, SideTypes, UnderGrows
  <2>2. Under(Set(side)) \subseteq Inside
    BY <1>7, SideInside
  <2> QED
    BY <1>4, <2>1, <2>2
<1>8. ASSUME b \in Cond, NEW side \in Sides(b), side # part
      PROVE  Under(Set(side)) \intersect (Set(next) \union done) = {}
  <2>1. /\ Set(side) \subseteq Below(b) /\ Set(side) \intersect Set(part) = {}
        /\ Under(Set(side)) \intersect done = {}
    <3>1. Set(side) \subseteq Below(b)
      BY <1>8, SideTypes
    <3>2. Set(Then[b]) \intersect Set(Else[b]) = {}
      BY <1>8 DEF OncePlaced
    <3>3. \/ part = Then[b] /\ side = Else[b] /\ Under(Set(Else[b])) \intersect done = {}
          \/ part = Else[b] /\ side = Then[b] /\ Under(Set(Then[b])) \intersect done = {}
      BY <1>8 DEF Sides
    <3> QED
      BY <3>1, <3>2, <3>3
  <2>2. Under(Set(side)) \intersect Set(part) = {}
    BY <1>8, <2>1, SidesApart
  <2> QED
    BY <1>2, <1>7, <1>8, <2>1, <2>2
<1>9. OneSide(Set(next) \union done)
  <2> SUFFICES ASSUME NEW c \in Cond
               PROVE  \/ Under(Set(Then[c])) \intersect (Set(next) \union done) = {}
                      \/ Under(Set(Else[c])) \intersect (Set(next) \union done) = {}
    BY DEF OneSide
  <2>1. CASE c = b
    <3>1. Then[b] # part \/ Else[b] # part \/ Then[b] = Else[b]
      OBVIOUS
    <3>2. Then[b] = Else[b] => Set(Then[b]) = {}
      BY <2>1 DEF OncePlaced
    <3> QED
      BY <1>8, <2>1, <3>1, <3>2, NoneUnderNone DEF Sides
  <2>2. CASE c # b
    BY <1>6, <2>2 DEF OnWalk, OneSide, Sides
  <2> QED
    BY <2>1, <2>2
<1>10. LeadsOn(next, done)
  <2> SUFFICES ASSUME NEW c \in Cond, NEW side \in Sides(c),
                      Under(Set(side)) \intersect Set(next) # {}
               PROVE  side[1] \in done \/ side[1] = Head(next)
    BY DEF LeadsOn
  <2>1. CASE c # b
    <3>1. side[1] \in done \/ side[1] = b
      BY <1>6, <2>1 DEF OnWalk, LeadsOn
    <3>2. side # <<>>
      <4> SUFFICES ASSUME side = <<>> PROVE FALSE
        OBVIOUS
      <4>1. Set(side) = {}
        BY DEF Set
      <4> QED
        BY <4>1, NoneUnderNone
    <3>3. side[1] \in Leaf
      BY <3>2 DEF LedByStep
    <3> QED
      BY <1>1, <3>1, <3>3
  <2>2. CASE c = b
    <3>1. side = part
      BY <1>8, <2>2
    <3>2. part # <<>>
      <4> SUFFICES ASSUME side = <<>> PROVE FALSE
        BY <3>1
      <4>1. Set(side) = {}
        BY DEF Set
      <4> QED
        BY <4>1, NoneUnderNone
    <3>3. Head(next) = part[1]
      BY <1>0, <3>2
    <3> QED
      BY <3>1, <3>3
  <2> QED
    BY <2>1, <2>2
<1> QED
  BY <1>5, <1>9, <1>10 DEF OnWalk

LEMMA WalkPrimed ==
    ASSUME OnWalk(todo', Set(executed')), HasFile' => Sound(Set(latest'.executed)) PROVE WalkInv'
BY DEF WalkInv, OnWalk, Apart, OneSide, Led, LeadsOn, Sound, Set, Under, Closed, Below, Sides, Inside

\* Where the walk does not move, the file is the one that was there, torn, or
\* what is executed.
LEMMA RestOnWalk ==
    ASSUME WalkInv, UNCHANGED <<todo, executed>>,
           \/ latest' = latest \/ latest' = Torn
           \/ latest' = [run |-> run, executed |-> executed, results |-> results, holds |-> holds]
    PROVE  WalkInv'
<1>1. Sound(Set(executed))
  BY FewerSides DEF WalkInv, OnWalk, Sound
<1>2. HasFile' => Sound(Set(latest'.executed))
  BY <1>1 DEF WalkInv, HasFile
<1> QED
  BY <1>2, WalkPrimed DEF WalkInv

LEMMA PoppedOnWalk ==
    ASSUME TypeOK, WalkInv, todo # <<>>, todo' = Tail(todo), UNCHANGED latest,
           Set(executed') = Set(executed) \union {Head(todo)}
    PROVE  WalkInv'
BY TailOnWalk, WalkPrimed DEF WalkInv, TypeOK, HasFile

\* run_conditional_block enters a branch only if nothing of the other is executed.
LEMMA BranchUntouched ==
    ASSUME LedByStep, NEW b \in Cond, Sound(Set(executed))
    PROVE  \/ Branch(b) = Then[b] /\ Under(Set(Else[b])) \intersect Set(executed) = {}
           \/ Branch(b) = Else[b] /\ Under(Set(Then[b])) \intersect Set(executed) = {}
<1>1. ASSUME NEW side \in Sides(b)
      PROVE  Under(Set(side)) \intersect Set(executed) # {} <=> Names(side) \intersect Set(executed) # {}
  <2>0. Names(side) \subseteq Under(Set(side))
    BY SideTypes, UnderCloses DEF Names
  <2> SUFFICES ASSUME Under(Set(side)) \intersect Set(executed) # {}
               PROVE  Names(side) \intersect Set(executed) # {}
    BY <2>0
  <2>1. side # <<>>
    <3> SUFFICES ASSUME side = <<>> PROVE FALSE
      OBVIOUS
    <3>1. Set(side) = {}
      BY DEF Set
    <3> QED
      BY <3>1, NoneUnderNone
  <2>2. side[1] \in Leaf /\ side[1] \in Set(executed)
    BY <2>1 DEF LedByStep, Sound, Led
  <2>3. side[1] \in Set(side)
    BY <2>1, SideTypes DEF Set
  <2> QED
    BY <2>2, <2>3 DEF Names
<1>2. Then[b] \in Sides(b) /\ Else[b] \in Sides(b)
  BY DEF Sides
<1>3. \/ Under(Set(Then[b])) \intersect Set(executed) = {}
      \/ Under(Set(Else[b])) \intersect Set(executed) = {}
  BY DEF Sound, OneSide
<1> QED
  BY <1>1, <1>2, <1>3 DEF Branch

LEMMA StepOnWalk ==
    ASSUME OncePlaced, Tree, LedByStep, EngineInv, WalkInv, [Next]_vars PROVE WalkInv'
<1>0. /\ TypeOK /\ todo \in Seq(Block) /\ OnWalk(todo, Set(executed)) /\ Sound(Set(executed))
      /\ HasFile => Sound(Set(latest.executed))
  BY FewerSides DEF EngineInv, TypeOK, WalkInv, OnWalk, Sound
<1>1. CASE Start \/ Resume
  <2>1. todo' = Body /\ latest' = latest /\ Sound(Set(executed'))
    <3>1. CASE Start
      <4>1. Set(executed') = {}
        BY <3>1 DEF Start, Set
      <4> QED
        BY <3>1, <4>1, EmptySides DEF Start
    <3>2. CASE Resume
      BY <1>0, <3>2 DEF Resume, Restored, HasFile
    <3> QED
      BY <1>1, <3>1, <3>2
  <2> QED
    BY <1>0, <2>1, BodyOnWalk, WalkPrimed DEF HasFile
<1>2. CASE SkipStep
  <2>1. todo # <<>> /\ Set(executed') = Set(executed) \union {Head(todo)}
    BY <1>2 DEF SkipStep, At
  <2> QED
    BY <1>0, <1>2, <2>1, PoppedOnWalk DEF SkipStep
<1>3. CASE EnterParallel
  <2>1. PICK b \in Par : At(b) /\ todo' = Then[b] \o Tail(todo)
    BY <1>3 DEF EnterParallel
  <2>2. todo # <<>> /\ Head(todo) = b /\ b \notin Cond
    BY <2>1 DEF At, Tree
  <2>3. Then[b] \in Seq(Block) /\ Set(Then[b]) \subseteq Below(b) /\ BlocksOnce(Then[b])
    BY Children DEF Below, OncePlaced
  <2>4. OnWalk(Then[b] \o Tail(todo), Set(executed))
    BY <1>0, <2>2, <2>3, EnterOnWalk
  <2> QED
    BY <1>0, <1>3, <2>1, <2>4, WalkPrimed DEF EnterParallel, HasFile
<1>4. CASE EnterConditional
  <2>1. PICK b \in Cond : At(b) /\ todo' = Branch(b) \o Tail(todo)
    BY <1>4 DEF EnterConditional
  <2>2. todo # <<>> /\ Head(todo) = b
    BY <2>1 DEF At
  <2>3. \/ Branch(b) = Then[b] /\ Under(Set(Else[b])) \intersect Set(executed) = {}
        \/ Branch(b) = Else[b] /\ Under(Set(Then[b])) \intersect Set(executed) = {}
    BY <1>0, BranchUntouched
  <2>4. Branch(b) \in Seq(Block) /\ Set(Branch(b)) \subseteq Below(b) /\ BlocksOnce(Branch(b))
    BY <2>3, Children DEF Below, OncePlaced
  <2>5. OnWalk(Branch(b) \o Tail(todo), Set(executed))
    BY <1>0, <2>2, <2>3, <2>4, EnterOnWalk
  <2> QED
    BY <1>0, <1>4, <2>1, <2>5, WalkPrimed DEF EnterConditional, HasFile
<1>5. CASE AttemptOk \/ AttemptFails \/ Fallback \/ CallbackRaises
  <2>1. PICK res \in {"ok", "bad"} : Apply(res)
    BY <1>5 DEF AttemptOk, AttemptFails, Fallback, CallbackRaises, StepEnds
  <2>2. todo # <<>> /\ Head(todo) \in Leaf /\ executed \in Seq(Leaf) /\ latest' = latest
    BY <1>5 DEF AttemptOk, AttemptFails, Fallback, CallbackRaises, EngineInv, BudgetInv,
                Admitted, AtWork, TypeOK
  <2>3. Set(executed') = Set(executed) \union {Head(todo)} /\ todo' = Tail(todo)
    BY <2>1, <2>2, AppendedSet DEF Apply
  <2> QED
    BY <1>0, <2>2, <2>3, PoppedOnWalk
<1>6. CASE \/ StepCancelled \/ StepRefused \/ StepBegin \/ AttemptRetried \/ AttemptFallsBack
           \/ AttemptRaises \/ SaveOpens \/ SaveWrites \/ SaveFails \/ Return \/ Cancel
           \/ HeartbeatLost \/ UNCHANGED vars
  BY <1>6, RestOnWalk DEF StepCancelled, StepRefused, StepBegin, AttemptRetried,
     AttemptFallsBack, AttemptRaises, SaveOpens, SaveWrites, SaveFails, Return, Cancel,
     HeartbeatLost, vars, memory
<1>7. CASE Crash
  <2>1. todo' = <<>> /\ executed' = <<>> /\ latest' = latest
    BY <1>7 DEF Crash
  <2>2. Set(<<>>) = {} /\ OnWalk(<<>>, {})
    BY DEF Set, OnWalk, Apart, OneSide, Led, LeadsOn
  <2> QED
    BY <1>0, <2>1, <2>2, WalkPrimed DEF HasFile
<1> QED
  BY <1>1, <1>2, <1>3, <1>4, <1>5, <1>6, <1>7 DEF Next, Engine

\* The steps of a branch are under it.
LEMMA StepsUnder ==
    ASSUME Tree, NEW D \in SUBSET Block PROVE UNION {Leaves[c] : c \in D} \subseteq Under(D)
<1>1. PICK rank \in [Block -> Nat] : \A b \in Par \union Cond : \A c \in Below(b) : rank[c] < rank[b]
  BY DEF Tree
<1>2. D \subseteq Under(D) /\ Under(D) \in SUBSET Block /\ Closed(Under(D))
  BY UnderCloses
<1> DEFINE N == {b \in Under(D) : ~(Leaves[b] \subseteq Under(D))}
           T == {rank[b] : b \in N}
           R == OpToRel(<, Nat)
<1>3. N = {}
  <2> SUFFICES ASSUME N # {} PROVE FALSE
    OBVIOUS
  <2>1. T \in SUBSET Nat /\ T # {}
    BY <1>1, <1>2
  <2>2. IsWellFoundedOn(R, Nat)
    BY NatLessThanWellFounded
  <2>3. \A k \in Nat, l \in Nat : k < l => <<k, l>> \in R
    BY DEF OpToRel
  <2>4. PICK m \in T : \A k \in T : ~(<<k, m>> \in R)
    <3> HIDE DEF T, R
    <3> QED
      BY <2>1, <2>2, WFMin
  <2>5. PICK b \in N : m = rank[b]
    BY <2>4
  <2> HIDE DEF R
  <2>6. \A c \in N : ~(rank[c] < rank[b])
    BY <1>1, <1>2, <2>1, <2>3, <2>4, <2>5
  <2>7. b \in Block /\ b \in Under(D) /\ ~(Leaves[b] \subseteq Under(D))
    BY <1>2
  <2>8. CASE b \in Leaf
    BY <2>7, <2>8, LeavesRule
  <2>9. CASE b \notin Leaf
    <3>1. b \in Par \union Cond /\ Below(b) \subseteq Under(D)
      BY <1>2, <2>7, <2>9 DEF Block, Closed
    <3>2. \A c \in Below(b) : Leaves[c] \subseteq Under(D)
      BY <1>1, <2>6, <3>1
    <3>3. Leaves[b] = UNION {Leaves[c] : c \in Below(b)}
      BY <2>7, <2>9, LeavesRule
    <3> QED
      BY <2>7, <3>2, <3>3
  <2> QED
    BY <2>8, <2>9
<1> QED
  BY <1>2, <1>3

\* However deep the blocks are nested, a run and the runs that resume it keep to
\* one branch of every Conditional whose branches begin with a step, whatever its
\* condition evaluates to after a crash, a cancel or a torn file: that first step
\* is executed before anything else of its branch, and run_conditional_block
\* recognises the branch by it.
THEOREM LedBranchesStick == ASSUME Tree, OncePlaced, LedByStep PROVE Spec => []BranchSticks
<1>1. Init => EngineInv /\ WalkInv
  <2> SUFFICES ASSUME Init PROVE WalkInv
    BY InitEngine
  <2>1. todo = <<>> /\ executed = <<>> /\ ~HasFile
    BY DEF Init, Blank, HasFile
  <2>2. Set(<<>>) = {} /\ OnWalk(<<>>, {})
    BY DEF Set, OnWalk, Apart, OneSide, Led, LeadsOn
  <2> QED
    BY <2>1, <2>2 DEF WalkInv
<1>2. (EngineInv /\ WalkInv) /\ [Next]_vars => (EngineInv /\ WalkInv)'
  BY StepEngine, StepOnWalk
<1>3. EngineInv /\ WalkInv => BranchSticks
  <2> SUFFICES ASSUME WalkInv, NEW b \in Cond
               PROVE  \/ Steps(Then[b]) \intersect Set(executed) = {}
                      \/ Steps(Else[b]) \intersect Set(executed) = {}
    BY DEF BranchSticks
  <2>1. \A side \in Sides(b) : Steps(side) \subseteq Under(Set(side))
    BY SideTypes, StepsUnder DEF Steps
  <2>2. OneSide(Set(executed))
    BY FewerSides DEF WalkInv, OnWalk
  <2> QED
    BY <2>1, <2>2 DEF OneSide, Sides
<1> QED
  BY <1>1, <1>2, <1>3, PTL DEF Spec
=============================================================================
