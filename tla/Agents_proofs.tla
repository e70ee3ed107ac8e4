--------------------------- MODULE Agents_proofs ----------------------------
(***************************************************************************)
(* Proofs about agents: their files, for any prompt candidates, settings   *)
(* files and edits (restoring gives back what was there), and the jobs     *)
(* they work through, for any plan and any number of agents (a plan        *)
(* completes whole, is handed out in order, and its row keeps to           *)
(* JobLifecycle).  And about what is settled before a loop runs, for any   *)
(* names, limits of nesting and histories: who may refuse a run, what a    *)
(* step may refer to where it runs, and what a checkpoint of another       *)
(* version resumes from.                                                   *)
(***************************************************************************)
EXTENDS AgentConfig, AgentRun, RunPolicy, SpecRules, Migration, WellFoundedInduction,
        FiniteSetTheorems, TLAPS

-----------------------------------------------------------------------------
(* An agent's files *)

\* Of the candidates that exist there is a last one.
LEMMA LastExists ==
    ASSUME NEW I \in SUBSET DOMAIN Prompts, I # {}
    PROVE  \E i \in I : \A k \in I : k <= i
<1> DEFINE n == Len(Prompts)
           S == {n - i : i \in I}
<1>1. n \in Nat /\ DOMAIN Prompts = 1..n
  BY ConfigAssumption
<1>2. S \in SUBSET Nat /\ S # {}
  BY <1>1
<1>3. PICK m \in S : \A k \in S : m <= k
  <2> DEFINE R == OpToRel(<, Nat)
  <2>1. IsWellFoundedOn(R, Nat)
    BY NatLessThanWellFounded
  <2>2. \A k \in S, l \in S : k < l => <<k, l>> \in R
    BY <1>2 DEF OpToRel
  <2> HIDE DEF R, S
  <2>3. PICK m \in S : \A k \in S : ~(<<k, m>> \in R)
    BY <1>2, <2>1, WFMin
  <2>4. \A k \in S : ~(k < m)
    BY <2>2, <2>3
  <2>5. \A k \in S : m <= k
    BY <1>2, <2>4
  <2> QED
    BY <2>5
<1>4. PICK i \in I : m = n - i
  OBVIOUS
<1>5. \A k \in I : n - i <= n - k
  BY <1>3, <1>4
<1>6. \A k \in I : k <= i
  BY <1>1, <1>5
<1> QED
  BY <1>6

LEMMA PromptFileIsPrompt == PromptFile \in Prompt
<1>1. Prompts[1] \in Prompt
  BY ConfigAssumption DEF Prompt
<1>2. LastPrompt \in Prompt
  <2> DEFINE there == {i \in DOMAIN Prompts : disk[Prompts[i]] # NoFile}
  <2>1. CASE there = {}
    BY <1>1, <2>1 DEF LastPrompt
  <2>2. CASE there # {}
    <3>1. \E i \in there : \A k \in there : k <= i
      BY <2>2, LastExists
    <3>2. (CHOOSE i \in there : \A k \in there : k <= i) \in there
      BY <3>1
    <3> QED
      BY <2>2, <3>2 DEF LastPrompt, Prompt
  <2> QED
    BY <2>1, <2>2
<1> QED
  BY <1>1, <1>2 DEF PromptFile, FixedPrompt

-----------------------------------------------------------------------------
\* What the adapter remembers of a file: nothing before it touches it; then
\* the text to give back, or that the file is its own creation.
Remembered(f) ==
    /\ f \notin touched => snaps[f] = NoFile /\ f \notin created
    /\ f \in touched \ deleted /\ before[f] # NoFile =>
          snaps[f] = before[f] /\ f \notin created /\ disk[f] # NoFile
    /\ f \in touched \ deleted /\ before[f] = NoFile /\ f \in Prompt => f \in created

ConfigInv == ConfigTypeOK /\ (\A f \in File : Remembered(f)) /\ RestoreExact

LEMMA InitConfig == ConfigInit => ConfigInv
<1>1. [text |-> 0, section |-> FALSE] \in Text
  BY ConfigAssumption DEF Text
<1>2. ConfigInit => ConfigTypeOK
  <2> SUFFICES ASSUME ConfigInit PROVE ConfigTypeOK
    OBVIOUS
  <2>1. Nothing \in [File -> Text \union {NoFile}]
    BY DEF Nothing
  <2>2. disk \in [File -> Text \union {NoFile}]
    BY <1>1 DEF ConfigInit
  <2>3. /\ created = {} /\ touched = {} /\ deleted = {} /\ edits \in 0..MaxEdits
        /\ adapter \in {"fixed", "last"} /\ writing = NoFile /\ restored = "nobody"
    BY ConfigAssumption DEF ConfigInit
  <2> QED
    BY <2>1, <2>2, <2>3 DEF ConfigInit, ConfigTypeOK
<1> QED
  BY <1>2 DEF ConfigInit, ConfigInv, Remembered, RestoreExact, Nothing

\* LoopMaster's own text, and the section put into a text.
LEMMA OwnText ==
    /\ \A b \in BOOLEAN : [text |-> -1, section |-> b] \in Text
    /\ \A c \in Text \union {NoFile} : Injected(c) \in Text
<1>1. \A b \in BOOLEAN : [text |-> -1, section |-> b] \in Text
  BY ConfigAssumption DEF Text
<1>2. ASSUME NEW c \in Text PROVE [c EXCEPT !.section = TRUE] \in Text
  BY DEF Text
<1> QED
  BY <1>1, <1>2, ConfigAssumption DEF Injected

LEMMA WriteKeeps ==
    ASSUME ConfigInv, NEW f \in Settings, WriteConfig(f) PROVE ConfigInv'
<1> USE ConfigAssumption DEF ConfigInv
<1>1. f \in File /\ f \notin Prompt
  BY DEF File
<1>2. ConfigTypeOK'
  BY <1>1, OwnText DEF ConfigTypeOK, WriteConfig, Snapshot, Touch
<1>3. \A g \in File : Remembered(g)'
  BY <1>1, OwnText DEF ConfigTypeOK, WriteConfig, Snapshot, Touch, Remembered
<1> QED
  BY <1>2, <1>3 DEF WriteConfig, RestoreExact

LEMMA InjectKeeps == ASSUME ConfigInv, inject_loop_context PROVE ConfigInv'
<1> USE ConfigAssumption DEF ConfigInv
<1>1. PICK f \in Prompt :
         /\ Snapshot(f) /\ Touch(f)
         /\ disk' = [disk EXCEPT ![f] = Injected(@)]
         /\ created' = IF disk[f] = NoFile THEN created \union {f} ELSE created
  BY PromptFileIsPrompt DEF inject_loop_context
<1>2. f \in File /\ Injected(disk[f]) \in Text
  BY OwnText DEF File, ConfigTypeOK
<1>3. ConfigTypeOK'
  BY <1>1, <1>2 DEF ConfigTypeOK, inject_loop_context, Snapshot, Touch
<1>4. \A g \in File : Remembered(g)'
  BY <1>1, <1>2 DEF ConfigTypeOK, inject_loop_context, Snapshot, Touch, Remembered
<1> QED
  BY <1>3, <1>4 DEF inject_loop_context, RestoreExact

\* A step that leaves the adapter's memory alone, and every file that is there.
LEMMA DiskKeeps ==
    ASSUME ConfigInv, ConfigTypeOK', UNCHANGED <<snaps, created, before, touched>>,
           deleted \subseteq deleted', restored' # "adapter",
           \A f \in File : f \notin deleted' /\ disk[f] # NoFile => disk'[f] # NoFile
    PROVE  ConfigInv'
BY DEF ConfigInv, Remembered, RestoreExact

LEMMA RolledBackTexts ==
    ASSUME ConfigTypeOK, NEW d \in [File -> Text \union {NoFile}]
    PROVE  /\ RolledBack(d) \in [File -> Text \union {NoFile}]
           /\ \A f \in File : d[f] # NoFile => RolledBack(d)[f] # NoFile
BY DEF ConfigTypeOK, RolledBack

LEMMA ManagerKeeps ==
    ASSUME ConfigInv, snapshot_all \/ VerifyWrite \/ \E f \in Settings : AtomicWrite(f)
    PROVE  ConfigInv'
<1> USE ConfigAssumption
<1>0. ConfigTypeOK
  BY DEF ConfigInv
<1>1. CASE snapshot_all
  <2>1. ConfigTypeOK'
    BY <1>0, <1>1 DEF snapshot_all, ConfigTypeOK
  <2> QED
    BY <1>1, <2>1, DiskKeeps DEF snapshot_all
<1>2. CASE VerifyWrite
  <2>1. disk' \in {disk, RolledBack(disk)} /\ restored' \in {"nobody", "manager"}
    BY <1>2 DEF VerifyWrite
  <2>2. disk \in [File -> Text \union {NoFile}]
    BY <1>0 DEF ConfigTypeOK
  <2>3. /\ disk' \in [File -> Text \union {NoFile}]
        /\ \A f \in File : disk[f] # NoFile => disk'[f] # NoFile
    BY <1>0, <2>1, <2>2, RolledBackTexts
  <2>4. ConfigTypeOK'
    BY <1>0, <1>2, <2>1, <2>3 DEF VerifyWrite, ConfigTypeOK
  <2> QED
    BY <1>2, <2>1, <2>3, <2>4, DiskKeeps DEF VerifyWrite
<1>3. ASSUME NEW f \in Settings, AtomicWrite(f) PROVE ConfigInv'
  <2> DEFINE own == [text |-> -1, section |-> FALSE]
  <2>1. own \in Text /\ own # NoFile /\ f \in File
    BY OwnText DEF File
  <2>2. disk \in [File -> Text \union {NoFile}]
    BY <1>0 DEF ConfigTypeOK
  <2>3. /\ disk' = [disk EXCEPT ![f] = own] \/ disk' = RolledBack(disk)
        /\ restored' \in {"nobody", "manager"} /\ writing' \in {f, NoFile}
    BY <1>3 DEF AtomicWrite
  <2>4. /\ disk' \in [File -> Text \union {NoFile}]
        /\ \A g \in File : disk[g] # NoFile => disk'[g] # NoFile
    <3>1. CASE disk' = [disk EXCEPT ![f] = own]
      BY <2>1, <2>2, <3>1
    <3>2. CASE disk' = RolledBack(disk)
      BY <1>0, <2>2, <3>2, RolledBackTexts
    <3> QED
      BY <2>3, <3>1, <3>2
  <2>5. ConfigTypeOK'
    BY <1>0, <1>3, <2>1, <2>3, <2>4 DEF AtomicWrite, ConfigTypeOK
  <2> QED
    BY <1>3, <2>3, <2>4, <2>5, DiskKeeps DEF AtomicWrite
<1> QED
  BY <1>1, <1>2, <1>3

LEMMA UserKeeps == ASSUME ConfigInv, NEW f \in File, UserEdits(f) PROVE ConfigInv'
<1> USE ConfigAssumption
<1> DEFINE mine == [text |-> edits + 1, section |-> FALSE]
<1>0. ConfigTypeOK
  BY DEF ConfigInv
<1>1. mine \in Text /\ mine # NoFile /\ edits + 1 \in 0..MaxEdits
  <2>1. edits + 1 \in 0..MaxEdits
    BY <1>0 DEF UserEdits, ConfigTypeOK
  <2>2. mine \in Text
    BY <2>1 DEF Text
  <2> QED
    BY <2>1, <2>2
<1>2. \/ disk' = [disk EXCEPT ![f] = mine] /\ UNCHANGED deleted
      \/ disk' = [disk EXCEPT ![f] = NoFile] /\ deleted' = deleted \union {f}
  BY DEF UserEdits
<1> HIDE DEF mine
<1>3. /\ disk' \in [File -> Text \union {NoFile}] /\ deleted' \subseteq File
      /\ deleted \subseteq deleted'
      /\ \A g \in File : g \notin deleted' /\ disk[g] # NoFile => disk'[g] # NoFile
  BY <1>0, <1>1, <1>2 DEF ConfigTypeOK
<1>4. ConfigTypeOK'
  BY <1>0, <1>1, <1>3 DEF UserEdits, ConfigTypeOK
<1> QED
  BY <1>3, <1>4, DiskKeeps DEF UserEdits

\* restore_original writes the snapshots and removes what the adapter created.
LEMMA RestoreKeeps == ASSUME ConfigInv, restore_original PROVE ConfigInv'
<1> USE DEF ConfigInv
<1>1. \A f \in File : disk'[f] = Original(f)
  BY DEF restore_original
<1>2. ConfigTypeOK'
  BY DEF restore_original, Original, ConfigTypeOK
<1>3. ASSUME NEW f \in File, f \in touched \ deleted, before[f] # NoFile
      PROVE  disk'[f] = before[f]
  BY <1>1, <1>3 DEF Remembered, Original
<1>4. ASSUME NEW f \in File, f \in touched \ deleted, before[f] = NoFile, f \in Prompt
      PROVE  disk'[f] = NoFile
  BY <1>1, <1>4 DEF Remembered, Original
<1>5. \A f \in File : Remembered(f)'
  BY <1>3 DEF restore_original, Remembered
<1>6. RestoreExact'
  BY <1>3, <1>4 DEF restore_original, RestoreExact, ConfigTypeOK
<1> QED
  BY <1>2, <1>5, <1>6

LEMMA StepConfig == ConfigInv /\ [ConfigNext]_configVars => ConfigInv'
<1>1. ConfigInv /\ UNCHANGED configVars => ConfigInv'
  BY DEF configVars, ConfigInv, ConfigTypeOK, Remembered, RestoreExact
<1> QED
  BY <1>1, WriteKeeps, InjectKeeps, ManagerKeeps, UserKeeps, RestoreKeeps DEF ConfigNext

\* The inductive invariant holds in every reachable state.
THEOREM ConfigInvariant == ConfigSpec => []ConfigInv
<1> QED
  BY InitConfig, StepConfig, PTL DEF ConfigSpec

\* Restoring gives every file back as it was when the adapter first touched it
\* (agents/base.py snapshot, restore_original).
THEOREM RestoreIsExact == ConfigSpec => []RestoreExact
<1> QED
  BY ConfigInvariant, PTL DEF ConfigInv

-----------------------------------------------------------------------------
(* Jobs that agents work through *)

UpTo(n) == {Plan[i] : i \in 1..n}

LEMMA PlanLength == Len(Plan) \in Nat \ {0} /\ DOMAIN Plan = 1..Len(Plan) /\ PlanStep = UpTo(Len(Plan))
BY PlanAssumption DEF PlanStep, UpTo

\* The first n steps have at most n names.
LEMMA UpToSize ==
    ASSUME NEW n \in Nat PROVE IsFiniteSet(UpTo(n)) /\ Cardinality(UpTo(n)) \in Nat /\ Cardinality(UpTo(n)) <= n
<1> DEFINE f == [i \in 1..n |-> Plan[i]]
<1>1. f \in Surjection(1..n, UpTo(n))
  BY DEF Surjection, UpTo
<1>2. IsFiniteSet(1..n) /\ Cardinality(1..n) = n
  BY FS_Interval
<1>3. IsFiniteSet(UpTo(n)) /\ Cardinality(UpTo(n)) <= n
  BY <1>1, <1>2, FS_Surjection
<1> QED
  BY <1>3, FS_CardinalityType

\* Results for as many steps as the plan is long are results for all of them.
LEMMA CoveredMeansAll ==
    ASSUME NEW S \in SUBSET PlanStep, Cardinality(S) >= Len(Plan) PROVE S = PlanStep
<1>1. IsFiniteSet(PlanStep) /\ Cardinality(PlanStep) \in Nat /\ Cardinality(PlanStep) <= Len(Plan)
  BY PlanLength, UpToSize
<1>2. IsFiniteSet(S) /\ Cardinality(S) <= Cardinality(PlanStep) /\ Cardinality(S) \in Nat
  BY <1>1, FS_Subset, FS_CardinalityType
<1>3. Cardinality(S) = Cardinality(PlanStep)
  BY <1>1, <1>2, PlanLength
<1> QED
  BY <1>1, <1>3, FS_Subset

-----------------------------------------------------------------------------
(* What a statement leaves of the row *)

LEMMA FreshGives ==
    ASSUME NEW st \in {"running", "ready"}, NEW o \in {Server, NoServer}, NEW a \in BOOLEAN
    PROVE  LET n == J!FreshRow(st, Len(Plan), o, a)
           IN  /\ n \in J!Row /\ n.status = st /\ n.total = Len(Plan) /\ n.agent = a
               /\ \A s \in Names : n.results[s] = "none"
<1>1. J!Empty \in J!Results /\ \A s \in Names : J!Empty[s] = "none"
  BY DEF J!Empty, J!Results, J!Outcome
<1> QED
  BY <1>1, PlanLength DEF J!FreshRow, J!Row, J!Status, J!Active, J!Terminal

LEMMA RecordGives ==
    ASSUME NEW r \in J!Row, NEW s \in Names, NEW ok \in BOOLEAN, NEW auto \in BOOLEAN
    PROVE  LET n == J!RecordMerge(r, J!WithResult(r, s, ok, auto))
           IN  /\ n \in J!Row /\ n.total = r.total /\ n.agent = r.agent
               /\ n.results = [r.results EXCEPT ![s] = IF ok THEN "ok" ELSE "bad"]
               /\ n.status = J!RecordStatus(r, n.results, auto)
<1> DEFINE res == [r.results EXCEPT ![s] = IF ok THEN "ok" ELSE "bad"]
           st  == J!RecordStatus(r, res, auto)
           stp == r.stamped \/ st = "completed"
           w   == [r EXCEPT !.results = res, !.status = st, !.stamped = stp]
<1>1. res \in J!Results
  BY DEF J!Row, J!Results, J!Outcome
<1>2. st \in J!Status /\ stp \in BOOLEAN
  <2> DEFINE f == J!Failed(res) # {}
             g == J!Covered(r, res, auto)
  <2>1. (f \/ ~f) /\ (g \/ ~g)
    OBVIOUS
  <2> QED
    BY <2>1 DEF J!RecordStatus, J!Covered, J!Status, J!Active, J!Terminal
<1>3. J!WithResult(r, s, ok, auto) = w
  BY DEF J!WithResult
<1> HIDE DEF res, st, stp
<1>4. w.results = res /\ w.status = st /\ w.stamped = stp
  BY DEF J!Row
<1> HIDE DEF w
<1> DEFINE n == J!RecordMerge(r, w)
<1>5. /\ n \in J!Row /\ n.total = r.total /\ n.agent = r.agent /\ n.results = res /\ n.status = st
  BY <1>1, <1>2, <1>4 DEF J!RecordMerge, J!Row
<1> QED
  BY <1>3, <1>5 DEF res, st

AgentCall == [ status : J!Terminal, given : BOOLEAN, results : J!Results, metrics : BOOLEAN,
               owner : {Server, NoServer}, completed : BOOLEAN ]

LEMMA UpdateGives ==
    ASSUME NEW r \in J!Row, NEW c \in AgentCall
    PROVE  LET n == J!Updated(r, c)
           IN  /\ n \in J!Row /\ n.total = r.total /\ n.status = c.status
               /\ n.agent = (IF c.metrics THEN FALSE ELSE r.agent)
               /\ n.results = (IF c.given THEN c.results ELSE r.results)
<1> DEFINE res == IF c.given THEN c.results ELSE r.results
           own == IF c.metrics THEN c.owner ELSE r.owner
           agt == IF c.metrics THEN FALSE ELSE r.agent
           stp == r.stamped \/ c.completed
<1>1. res \in J!Results /\ own \in {Server, NoServer} /\ agt \in BOOLEAN /\ stp \in BOOLEAN
  BY DEF J!Row, AgentCall
<1>2. J!NewStatus(r, c) = c.status /\ c.status \in J!Status
  BY DEF J!NewStatus, AgentCall, J!Status, J!Terminal
<1>3. J!Updated(r, c) = [ r EXCEPT !.status = c.status, !.results = res, !.owner = own,
                                   !.agent = agt, !.stamped = stp ]
  BY <1>2 DEF J!Updated
<1> HIDE DEF res, own, agt, stp
<1>4. LET n == J!Updated(r, c)
      IN  /\ n \in J!Row /\ n.total = r.total /\ n.status = c.status /\ n.agent = agt /\ n.results = res
  BY <1>1, <1>2, <1>3 DEF J!Row
<1> QED
  BY <1>4 DEF agt, res

LEMMA SetsCall == ASSUME NEW st \in {"failed", "completed"} PROVE Sets(st) \in AgentCall
<1>1. J!Empty \in J!Results
  BY DEF J!Empty, J!Results, J!Outcome
<1> QED
  BY <1>1 DEF Sets, AgentCall, J!Terminal

-----------------------------------------------------------------------------
(* The plan of an agent's job *)

\* Which calls can be under way: loop_record on a job that is not guided, with a
\* step of the plan, and loop_result on one that is there.
ToolFits(c) ==
    /\ tool[c].at \in {"record", "finalize"} =>
          jobRow # NoJobRow /\ ~Guided /\ tool[c].step \in PlanStep
    /\ tool[c].at = "reread" => jobRow # NoJobRow

ToolsFit == \A c \in Client : ToolFits(c)

\* A row counts the plan, and has results for its steps only, unless loop_result
\* was given another name.
NoStray(r) == unasked \subseteq PlanStep => \A k \in Stray : r.results[k] = "none"

RowFits == jobRow # NoJobRow => jobRow.total = Len(Plan) /\ NoStray(jobRow)

\* A job has one kind: a worker's, an agent's or a guided one.
OneKind ==
    /\ jobRow = NoJobRow => ~engineRuns /\ ~Guided
    /\ engineRuns => ~jobRow.agent /\ ~Guided
    /\ jobRow # NoJobRow /\ jobRow.agent => ~Guided

AgentInv == AgentTypeOK /\ ToolsFit /\ RowFits /\ OneKind /\ PlanWhole

\* Where the calls are.
CallPlace == [ at   : {"idle", "record", "finalize", "reread"},
               step : Names, ok : BOOLEAN, finalize : BOOLEAN, advice : BOOLEAN ]

LEMMA NoToolPlace == NoTool \in CallPlace /\ NoTool.at = "idle"
<1>1. Plan[1] \in Names
  BY PlanLength DEF UpTo, Names
<1> QED
  BY <1>1 DEF NoTool, CallPlace

LEMMA InitAgent == AgentInit => AgentInv
<1> SUFFICES ASSUME AgentInit PROVE AgentInv
  OBVIOUS
<1>1. AgentTypeOK
  BY NoToolPlace DEF AgentInit, AgentTypeOK, CallPlace
<1>2. ToolsFit /\ RowFits /\ OneKind /\ PlanWhole
  BY DEF AgentInit, ToolsFit, ToolFits, RowFits, OneKind, PlanWhole, Guided, NoTool
<1> QED
  BY <1>1, <1>2 DEF AgentInv

\* A result that completes the row is the last of all, and none of them is a failure.
LEMMA CompletedMeansAll ==
    ASSUME NEW r, NEW res, NEW auto, J!RecordStatus(r, res, auto) = "completed",
           r.total = Len(Plan), J!Recorded(res) \subseteq PlanStep
    PROVE  J!Failed(res) = {} /\ J!Recorded(res) = PlanStep
<1> DEFINE f == J!Failed(res) # {}
           g == J!Covered(r, res, auto)
<1>1. (f \/ ~f) /\ (g \/ ~g)
  OBVIOUS
<1>2. J!Failed(res) = {} /\ J!Covered(r, res, auto)
  BY <1>1 DEF J!RecordStatus, J!Covered
<1>3. Cardinality(J!Recorded(res)) >= r.total
  <2>1. J!Covered(r, res, auto) => J!Cardinality(J!Recorded(res)) >= r.total
    BY DEF J!Covered
  <2>2. J!Cardinality(J!Recorded(res)) = Cardinality(J!Recorded(res))
    BY Zenon DEF J!Cardinality, Cardinality
  <2> QED
    BY <1>2, <2>1, <2>2
<1> QED
  BY <1>2, <1>3, CoveredMeansAll

\* What a statement of the store does to a row that is there.
LEMMA RecordResultGives ==
    ASSUME AgentInv, jobRow # NoJobRow, NEW s \in Names, NEW ok \in BOOLEAN, NEW auto \in BOOLEAN,
           RecordResult(s, ok, auto), unasked \subseteq unasked', s \in PlanStep \union unasked'
    PROVE  /\ jobRow' \in J!Row /\ jobRow' # NoJobRow
           /\ jobRow'.total = jobRow.total /\ jobRow'.agent = jobRow.agent
           /\ NoStray(jobRow)'
           /\ \A k \in Names : \/ jobRow'.results[k] = jobRow.results[k]
                               \/ k = s /\ jobRow'.results[k] # "none"
           /\ finalized' = finalized /\ handed' = handed => PlanWhole'
<1> USE NoJobRowAssumption, PlanAssumption
<1>1. jobRow \in J!Row /\ RowFits /\ PlanWhole
  BY DEF AgentInv, AgentTypeOK
<1>2. CASE ~J!RecordAllowed(jobRow)
  BY <1>1, <1>2 DEF RecordResult, RowFits, NoStray, PlanWhole, Guided
<1>3. CASE J!RecordAllowed(jobRow)
  <2> DEFINE n == jobRow'
  <2>1. /\ n \in J!Row /\ n.total = jobRow.total /\ n.agent = jobRow.agent
        /\ n.results = [jobRow.results EXCEPT ![s] = IF ok THEN "ok" ELSE "bad"]
        /\ n.status = J!RecordStatus(jobRow, n.results, auto)
    BY <1>1, <1>3, RecordGives DEF RecordResult
  <2>2. jobRow.results \in [Names -> J!Outcome] /\ n.results \in [Names -> J!Outcome]
    BY <1>1, <2>1 DEF J!Row, J!Results
  <2>3. /\ unasked' \subseteq PlanStep => \A k \in Stray : n.results[k] = "none"
        /\ \A k \in Names : n.results[k] = jobRow.results[k] \/ (k = s /\ n.results[k] # "none")
    BY <1>1, <2>1, <2>2 DEF RowFits, NoStray, Names
  <2>4. ASSUME n.status = "completed", unasked' \subseteq PlanStep
        PROVE  \A k \in PlanStep : n.results[k] = "ok"
    <3>1. J!Recorded(n.results) \subseteq PlanStep
      BY <2>3, <2>4 DEF J!Recorded, Names
    <3>2. jobRow.total = Len(Plan)
      BY <1>1 DEF RowFits
    <3>3. J!Failed(n.results) = {} /\ J!Recorded(n.results) = PlanStep
      BY <2>1, <2>4, <3>1, <3>2, CompletedMeansAll
    <3> QED
      BY <2>2, <3>3 DEF J!Recorded, J!Failed, J!Outcome, Names
  <2> QED
    BY <2>1, <2>3, <2>4 DEF PlanWhole, NoStray
<1> QED
  BY <1>2, <1>3

LEMMA UpdateGivesRow ==
    ASSUME AgentInv, jobRow # NoJobRow, NEW call \in AgentCall, Update(call),
           call.given => \A k \in Stray : call.results[k] = "none",
           call.status # "completed" \/ engineRuns \/ finalized',
           UNCHANGED <<handed, unasked>>, finalized => finalized'
    PROVE  /\ jobRow' \in J!Row /\ jobRow' # NoJobRow
           /\ jobRow'.total = jobRow.total /\ (jobRow'.agent => jobRow.agent)
           /\ NoStray(jobRow)'
           /\ ~call.given => jobRow'.results = jobRow.results
           /\ PlanWhole'
<1> USE NoJobRowAssumption
<1>1. jobRow \in J!Row /\ RowFits /\ PlanWhole /\ OneKind
  BY DEF AgentInv, AgentTypeOK
<1>2. CASE ~J!UpdateAllowed(jobRow, call.status)
  BY <1>1, <1>2 DEF Update, RowFits, NoStray, PlanWhole, Guided
<1>3. CASE J!UpdateAllowed(jobRow, call.status)
  <2>1. /\ jobRow' \in J!Row /\ jobRow'.total = jobRow.total /\ jobRow'.status = call.status
        /\ jobRow'.agent = (IF call.metrics THEN FALSE ELSE jobRow.agent)
        /\ jobRow'.results = (IF call.given THEN call.results ELSE jobRow.results)
    BY <1>1, <1>3, UpdateGives DEF Update
  <2>2. PlanWhole'
    BY <1>1, <2>1 DEF PlanWhole, OneKind, Guided
  <2> QED
    BY <1>1, <2>1, <2>2 DEF RowFits, NoStray
<1> QED
  BY <1>2, <1>3

\* A step that leaves the kind of the job alone keeps the invariant.
LEMMA RowChangeKeeps ==
    ASSUME AgentInv, jobRow # NoJobRow, jobRow' \in J!Row, jobRow' # NoJobRow,
           jobRow'.total = jobRow.total, jobRow'.agent => jobRow.agent,
           NoStray(jobRow)', PlanWhole', unasked' \subseteq Names,
           handed' = handed, engineRuns' \in BOOLEAN, engineRuns' => engineRuns, finalized' \in BOOLEAN,
           tool' \in [Client -> CallPlace],
           \A c \in Client : tool'[c] = tool[c] \/ ToolFits(c)'
    PROVE  AgentInv'
<1>1. AgentTypeOK'
  BY DEF AgentInv, AgentTypeOK, CallPlace
<1>2. ToolsFit'
  BY DEF AgentInv, ToolsFit, ToolFits, Guided
<1>3. RowFits' /\ OneKind'
  BY DEF AgentInv, RowFits, NoStray, OneKind, Guided
<1> QED
  BY <1>1, <1>2, <1>3 DEF AgentInv

\* What is recorded can be counted.
LEMMA DoneIsNat == IsFiniteSet(J!Recorded(jobRow.results)) /\ Done \in Nat
<1>1. IsFiniteSet(Names)
  BY PlanAssumption, PlanLength, UpToSize, FS_Union DEF Names
<1>2. J!Recorded(jobRow.results) \subseteq Names
  BY DEF J!Recorded
<1> QED
  BY <1>1, <1>2, FS_Subset, FS_CardinalityType DEF Done

\* A call that returns leaves nothing.
LEMMA ToolReturns ==
    ASSUME AgentTypeOK, NEW c \in Client, Returns(c)
    PROVE  /\ tool' \in [Client -> CallPlace] /\ tool'[c].at = "idle" /\ ToolFits(c)'
           /\ \A d \in Client \ {c} : tool'[d] = tool[d]
<1>1. tool \in [Client -> CallPlace]
  BY DEF AgentTypeOK, CallPlace
<1>2. /\ tool' \in [Client -> CallPlace] /\ tool'[c].at = "idle"
      /\ \A d \in Client \ {c} : tool'[d] = tool[d]
  BY <1>1, NoToolPlace DEF Returns
<1> QED
  BY <1>2 DEF ToolFits

LEMMA StepAgent == AgentInv /\ [AgentNext]_agentVars => AgentInv'
<1> SUFFICES ASSUME AgentInv, [AgentNext]_agentVars PROVE AgentInv'
  OBVIOUS
<1> USE NoJobRowAssumption, PlanAssumption
<1>0. AgentTypeOK /\ ToolsFit /\ RowFits /\ OneKind /\ PlanWhole /\ tool \in [Client -> CallPlace]
  BY DEF AgentInv, AgentTypeOK, CallPlace
<1>1. CASE Creates
  <2>1. PICK st \in {"running", "ready"}, o \in {Server, NoServer}, a \in BOOLEAN :
           /\ jobRow' = J!FreshRow(st, Len(Plan), o, a)
           /\ \/ ~a /\ engineRuns' = TRUE /\ handed' = handed
              \/ UNCHANGED <<engineRuns, handed>>
              \/ ~a /\ handed' = {Plan[1]} /\ engineRuns' = engineRuns
    BY <1>1 DEF Creates, J!Upsert
  <2>2. /\ jobRow' \in J!Row /\ jobRow'.status # "completed" /\ jobRow'.total = Len(Plan)
        /\ jobRow'.agent = a /\ jobRow' # NoJobRow /\ \A k \in Stray : jobRow'.results[k] = "none"
    BY <2>1, FreshGives DEF Names
  <2>3. jobRow = NoJobRow /\ ~engineRuns /\ handed = {} /\ UNCHANGED <<tool, finalized, unasked>>
    BY <1>0, <1>1 DEF Creates, OneKind, Guided
  <2>4. /\ engineRuns' \in BOOLEAN /\ handed' \subseteq PlanStep
        /\ engineRuns' => (~a /\ handed' = {})
        /\ a => handed' = {}
    <3>1. engineRuns = FALSE /\ Plan[1] \in PlanStep
      BY <1>0, <2>3, PlanLength DEF UpTo, AgentTypeOK
    <3>2. CASE ~a /\ engineRuns' = TRUE /\ handed' = handed
      BY <2>3, <3>2
    <3>3. CASE UNCHANGED <<engineRuns, handed>>
      BY <2>3, <3>1, <3>3
    <3>4. CASE ~a /\ handed' = {Plan[1]} /\ engineRuns' = engineRuns
      BY <3>1, <3>4
    <3> QED
      BY <2>1, <3>2, <3>3, <3>4
  <2>5. ToolsFit'
    BY <1>0, <2>2, <2>3 DEF ToolsFit, ToolFits, Guided
  <2> QED
    BY <1>0, <2>1, <2>2, <2>3, <2>4, <2>5 
       DEF AgentInv, AgentTypeOK, RowFits, NoStray, OneKind, Guided, PlanWhole
<1>2. CASE EngineStep
  <2>1. PICK s \in PlanStep, ok \in BOOLEAN : RecordResult(s, ok, FALSE)
    BY <1>2 DEF EngineStep
  <2>2. jobRow # NoJobRow /\ UNCHANGED <<engineRuns, tool, handed, finalized, unasked>>
    BY <1>0, <1>2 DEF EngineStep, OneKind
  <2> DEFINE auto == FALSE
  <2>3. auto \in BOOLEAN /\ RecordResult(s, ok, auto) /\ s \in Names
    BY <2>1 DEF Names
  <2> HIDE DEF auto
  <2> QED
    BY <1>0, <2>2, <2>3, RecordResultGives, RowChangeKeeps DEF AgentTypeOK
<1>3. CASE EngineEnds
  <2>1. PICK v \in {"completed", "failed", "cancelled"}, done \in J!Results, pid \in {Server, NoServer} :
          /\ \A k \in Stray : done[k] = "none"
          /\ Update([ status |-> v, given |-> TRUE, results |-> done, metrics |-> TRUE,
                      owner |-> pid, completed |-> v # "cancelled" ])
    BY <1>3 DEF EngineEnds
  <2>2. /\ jobRow # NoJobRow /\ engineRuns /\ engineRuns' = FALSE
        /\ UNCHANGED <<tool, handed, finalized, unasked>>
    BY <1>0, <1>3 DEF EngineEnds, OneKind
  <2> DEFINE call == [ status |-> v, given |-> TRUE, results |-> done, metrics |-> TRUE,
                       owner |-> pid, completed |-> v # "cancelled" ]
  <2>3. call \in AgentCall /\ Update(call) /\ \A k \in Stray : call.results[k] = "none"
    BY <2>1 DEF AgentCall, J!Terminal
  <2> HIDE DEF call
  <2> QED
    BY <1>0, <2>2, <2>3, UpdateGivesRow, RowChangeKeeps DEF AgentTypeOK
<1>4. CASE loop_status
  <2>1. Sets("failed") \in AgentCall /\ ~Sets("failed").given /\ Sets("failed").status = "failed"
    BY SetsCall DEF Sets
  <2>2. /\ jobRow # NoJobRow /\ Update(Sets("failed"))
        /\ UNCHANGED <<engineRuns, tool, handed, finalized, unasked>>
    BY <1>4 DEF loop_status
  <2> QED
    BY <1>0, <2>1, <2>2, UpdateGivesRow, RowChangeKeeps DEF AgentTypeOK
<1>5. CASE loop_cancel
  <2>1. jobRow \in J!Row /\ jobRow # NoJobRow /\ UNCHANGED <<engineRuns, tool, handed, finalized, unasked>>
    BY <1>0, <1>5 DEF loop_cancel, AgentTypeOK
  <2>2. /\ jobRow' \in J!Row /\ jobRow'.total = jobRow.total /\ jobRow'.agent = jobRow.agent
        /\ jobRow'.results = jobRow.results
        /\ jobRow'.status \in {jobRow.status, "cancelled"}
    BY <1>5, <2>1 DEF loop_cancel, J!Row, J!Status, J!Terminal
  <2>3. PlanWhole' /\ NoStray(jobRow)'
    BY <1>0, <2>1, <2>2 DEF PlanWhole, RowFits, NoStray, Guided
  <2> QED
    BY <1>0, <2>1, <2>2, <2>3, RowChangeKeeps DEF AgentTypeOK
<1>6. ASSUME NEW c \in Client, NEW s \in Names, NEW ok \in BOOLEAN, NEW fin \in BOOLEAN,
             RecordChecks(c, s, ok, fin)
      PROVE  AgentInv'
  <2> DEFINE p == [NoTool EXCEPT !.at = "record", !.step = s, !.ok = ok, !.finalize = fin]
  <2>1. p \in CallPlace /\ p.at = "record" /\ p.step = s /\ tool' = [tool EXCEPT ![c] = p]
    BY <1>6, NoToolPlace DEF RecordChecks, CallPlace
  <2> HIDE DEF p
  <2>2. /\ tool' \in [Client -> CallPlace] /\ tool'[c] = p
        /\ \A d \in Client \ {c} : tool'[d] = tool[d]
    BY <1>0, <2>1
  <2>3. /\ jobRow # NoJobRow /\ ~Guided /\ s \in PlanStep
        /\ UNCHANGED <<jobRow, engineRuns, handed, finalized, unasked>>
    BY <1>6 DEF RecordChecks, Live, InPlan
  <2>4. ToolFits(c)'
    BY <2>1, <2>2, <2>3 DEF ToolFits, Guided
  <2>5. jobRow \in J!Row /\ NoStray(jobRow)' /\ PlanWhole'
    BY <1>0, <2>3 DEF AgentTypeOK, RowFits, NoStray, PlanWhole, Guided
  <2> QED
    BY <1>0, <2>2, <2>3, <2>4, <2>5, RowChangeKeeps DEF AgentTypeOK
<1>7. ASSUME NEW c \in Client, RecordWrites(c) PROVE AgentInv'
  <2> DEFINE auto == TRUE
  <2>1. /\ jobRow # NoJobRow /\ ~Guided /\ tool[c].step \in PlanStep /\ tool[c].ok \in BOOLEAN
        /\ RecordResult(tool[c].step, tool[c].ok, auto) /\ auto \in BOOLEAN
        /\ Returns(c) \/ tool' = [tool EXCEPT ![c].at = "finalize"]
        /\ UNCHANGED <<engineRuns, handed, finalized, unasked>>
    BY <1>0, <1>7 DEF RecordWrites, ToolsFit, ToolFits, CallPlace
  <2> HIDE DEF auto
  <2>2. /\ jobRow' \in J!Row /\ jobRow' # NoJobRow /\ jobRow'.total = jobRow.total
        /\ jobRow'.agent = jobRow.agent /\ NoStray(jobRow)' /\ PlanWhole'
    BY <2>1, RecordResultGives DEF Names
  <2>3. /\ tool' \in [Client -> CallPlace] /\ ToolFits(c)'
        /\ \A d \in Client \ {c} : tool'[d] = tool[d]
    <3>1. CASE Returns(c)
      BY <1>0, <3>1, ToolReturns
    <3>2. CASE tool' = [tool EXCEPT ![c].at = "finalize"]
      <4>1. /\ tool' \in [Client -> CallPlace]
            /\ tool'[c].at = "finalize" /\ tool'[c].step = tool[c].step
            /\ \A d \in Client \ {c} : tool'[d] = tool[d]
        BY <1>0, <3>2 DEF CallPlace
      <4> QED
        BY <2>1, <2>2, <4>1 DEF ToolFits, Guided
    <3> QED
      BY <2>1, <3>1, <3>2
  <2> QED
    BY <1>0, <2>1, <2>2, <2>3, RowChangeKeeps DEF AgentTypeOK
<1>8. ASSUME NEW c \in Client, Finalizes(c) PROVE AgentInv'
  <2>1. /\ jobRow # NoJobRow /\ Update(Sets("completed")) /\ finalized' = TRUE
        /\ Returns(c) /\ UNCHANGED <<engineRuns, handed, unasked>>
    BY <1>0, <1>8 DEF Finalizes, ToolsFit, ToolFits
  <2>2. Sets("completed") \in AgentCall /\ ~Sets("completed").given
    BY SetsCall DEF Sets
  <2>3. /\ jobRow' \in J!Row /\ jobRow' # NoJobRow /\ jobRow'.total = jobRow.total
        /\ (jobRow'.agent => jobRow.agent) /\ NoStray(jobRow)' /\ PlanWhole'
    BY <2>1, <2>2, UpdateGivesRow
  <2> QED
    BY <1>0, <2>1, <2>3, ToolReturns, RowChangeKeeps DEF AgentTypeOK
<1>9. ASSUME NEW c \in Client, NEW s \in Names, NEW ok \in BOOLEAN, NEW advice \in BOOLEAN,
             ResultWrites(c, s, ok, advice)
      PROVE  AgentInv'
  <2> DEFINE p == [NoTool EXCEPT !.at = "reread", !.advice = advice]
             auto == TRUE
  <2>1. p \in CallPlace /\ p.at = "reread" /\ tool' = [tool EXCEPT ![c] = p]
    BY <1>9, NoToolPlace DEF ResultWrites, CallPlace
  <2>2. /\ jobRow # NoJobRow /\ RecordResult(s, ok, auto) /\ auto \in BOOLEAN
        /\ unasked' = unasked \union ({s} \ handed)
        /\ UNCHANGED <<engineRuns, handed, finalized>>
    BY <1>9 DEF ResultWrites
  <2> HIDE DEF p, auto
  <2>6. /\ unasked \subseteq unasked' /\ unasked' \subseteq Names
        /\ s \in PlanStep \union unasked'
    BY <1>0, <2>2 DEF AgentTypeOK
  <2>3. /\ jobRow' \in J!Row /\ jobRow' # NoJobRow /\ jobRow'.total = jobRow.total
        /\ jobRow'.agent = jobRow.agent /\ NoStray(jobRow)' /\ PlanWhole'
    BY <2>2, <2>6, RecordResultGives
  <2>4. /\ tool' \in [Client -> CallPlace] /\ tool'[c] = p
        /\ \A d \in Client \ {c} : tool'[d] = tool[d]
    BY <1>0, <2>1
  <2>5. ToolFits(c)'
    BY <2>1, <2>3, <2>4 DEF ToolFits
  <2> QED
    BY <1>0, <2>2, <2>3, <2>4, <2>5, <2>6, RowChangeKeeps DEF AgentTypeOK
<1>10. ASSUME NEW c \in Client, ResultAnswers(c) PROVE AgentInv'
  <2>1. jobRow # NoJobRow /\ UNCHANGED <<jobRow, engineRuns, finalized, unasked>> /\ Returns(c)
    BY <1>0, <1>10 DEF ResultAnswers, ToolsFit, ToolFits
  <2>2. handed' = handed \/ (Guided /\ Done < jobRow.total /\ handed' = handed \union {NextStep(Done)})
    BY <1>10 DEF ResultAnswers
  <2>3. Guided' = Guided /\ handed' \subseteq PlanStep
    <3>1. Done < jobRow.total => NextStep(Done) \in PlanStep
      BY <1>0, <2>1, DoneIsNat, PlanLength DEF RowFits, NextStep, UpTo
    <3> QED
      BY <1>0, <2>2, <3>1 DEF AgentTypeOK, Guided
  <2>4. AgentTypeOK' /\ ToolsFit'
    <3>1. ToolFits(c)' /\ tool' \in [Client -> CallPlace] /\ \A d \in Client \ {c} : tool'[d] = tool[d]
      BY <1>0, <2>1, ToolReturns
    <3>2. AgentTypeOK'
      BY <1>0, <2>1, <2>3, <3>1 DEF AgentTypeOK, CallPlace
    <3>3. \A d \in Client \ {c} : ToolFits(d)'
      BY <1>0, <2>1, <2>3, <3>1 DEF ToolsFit, ToolFits
    <3> QED
      BY <3>1, <3>2, <3>3 DEF ToolsFit
  <2> QED
    BY <1>0, <2>1, <2>3, <2>4 DEF AgentInv, RowFits, NoStray, OneKind, PlanWhole
<1>11. CASE UNCHANGED agentVars
  BY <1>0, <1>11 DEF agentVars, AgentInv, AgentTypeOK, ToolsFit, ToolFits, RowFits, NoStray, OneKind,
                     PlanWhole, Guided
<1> QED
  BY <1>1, <1>2, <1>3, <1>4, <1>5, <1>6, <1>7, <1>8, <1>9, <1>10, <1>11 DEF AgentNext

\* The inductive invariant holds in every reachable state.
THEOREM AgentInvariant == AgentSpec => []AgentInv
<1> QED
  BY InitAgent, StepAgent, PTL DEF AgentSpec

\* However many agents report at once, and whatever plan they work through, a job
\* that completes by itself has a success for every step (loop_record).
THEOREM PlansAreWhole == AgentSpec => []PlanWhole
<1> QED
  BY AgentInvariant, PTL DEF AgentInv

-----------------------------------------------------------------------------
(* The order of a guided job *)

\* No name stands twice in the plan.
Distinct == \A i, j \in DOMAIN Plan : Plan[i] = Plan[j] => i = j

\* Only steps that were handed out have a result, if agents keep to them.
OnlyHanded ==
    Guided /\ unasked = {} => \A s \in Names : jobRow.results[s] # "none" => s \in handed

GuidedInv == AgentInv /\ OnlyHanded /\ GuidedInOrder

LEMMA RecordedSize ==
    ASSUME NEW R \in SUBSET PlanStep
    PROVE  IsFiniteSet(R) /\ Cardinality(R) \in Nat /\ Cardinality(R) <= Len(Plan)
BY PlanLength, UpToSize, FS_Subset, FS_CardinalityType

\* Why counting is enough: when what has a result was handed out in order, as many
\* steps have a result as stand before the next one, and they are these.
LEMMA CountIsPlace ==
    ASSUME AgentTypeOK, RowFits, Guided, OnlyHanded, GuidedInOrder, jobRow # NoJobRow, unasked = {}
    PROVE  /\ Done \in Nat
           /\ \A k \in 1..Done : k \in DOMAIN Plan /\ jobRow.results[Plan[k]] # "none"
<1> DEFINE R == J!Recorded(jobRow.results)
<1>1. R \subseteq PlanStep /\ R = {s \in PlanStep : jobRow.results[s] # "none"}
  BY DEF J!Recorded, RowFits, NoStray, Names
<1>2. Done = Cardinality(R) /\ Done \in Nat /\ Done <= Len(Plan)
  BY <1>1, RecordedSize DEF Done
<1>3. ASSUME NEW k \in 1..Done PROVE k \in DOMAIN Plan /\ jobRow.results[Plan[k]] # "none"
  <2>1. k \in DOMAIN Plan /\ k \in Nat /\ k >= 1 /\ k <= Done
    BY <1>2, PlanLength
  <2>2. SUFFICES ASSUME jobRow.results[Plan[k]] = "none" PROVE FALSE
    BY <2>1
  <2>3. ASSUME NEW s \in R PROVE s \in UpTo(k - 1)
    <3>1. PICK i \in 1..Len(Plan) : s = Plan[i]
      BY <1>1, <2>3, PlanLength DEF UpTo
    <3>2. Plan[i] \in handed /\ i \in DOMAIN Plan /\ jobRow.results[Plan[i]] # "none"
      BY <1>1, <2>3, <3>1, PlanLength DEF OnlyHanded, Names
    <3>3. \A m \in 1..(i - 1) : jobRow.results[Plan[m]] # "none"
      BY <3>2 DEF GuidedInOrder
    <3>4. ~(k \in 1..(i - 1)) /\ k # i
      BY <2>2, <3>2, <3>3
    <3>5. i \in 1..(k - 1)
      BY <2>1, <3>1, <3>4, PlanLength
    <3> QED
      BY <3>1, <3>5 DEF UpTo
  <2>4. IsFiniteSet(UpTo(k - 1)) /\ Cardinality(UpTo(k - 1)) \in Nat /\ Cardinality(UpTo(k - 1)) <= k - 1
    BY <2>1, UpToSize
  <2>5. Cardinality(R) <= Cardinality(UpTo(k - 1))
    BY <2>3, <2>4, FS_Subset
  <2> QED
    BY <1>2, <2>1, <2>4, <2>5
<1> QED
  BY <1>2, <1>3

\* Results of handed steps may be added; the order stays.
LEMMA ResultsKeepOrder ==
    ASSUME AgentTypeOK, OnlyHanded, GuidedInOrder, handed' = handed, unasked \subseteq unasked',
           Guided /\ unasked' = {} =>
                \A k \in Names : \/ jobRow'.results[k] = jobRow.results[k]
                                 \/ k \in handed /\ jobRow'.results[k] # "none"
    PROVE  OnlyHanded' /\ GuidedInOrder'
<1>1. OnlyHanded'
  BY DEF OnlyHanded, Guided
<1>2. ASSUME unasked' = {}, NEW i \in DOMAIN Plan, Plan[i] \in handed, NEW k \in 1..(i - 1)
      PROVE  jobRow'.results[Plan[k]] # "none"
  <2>1. k \in DOMAIN Plan /\ Plan[k] \in Names
    BY <1>2, PlanLength DEF PlanStep, Names
  <2>2. jobRow.results[Plan[k]] # "none" /\ Guided
    BY <1>2 DEF GuidedInOrder, Guided
  <2> QED
    BY <1>2, <2>1, <2>2
<1> QED
  BY <1>1, <1>2 DEF GuidedInOrder

LEMMA StepGuided == Distinct /\ GuidedInv /\ [AgentNext]_agentVars => GuidedInv'
<1> SUFFICES ASSUME Distinct, GuidedInv, [AgentNext]_agentVars PROVE OnlyHanded' /\ GuidedInOrder'
  BY StepAgent DEF GuidedInv
<1>0. /\ AgentInv /\ AgentTypeOK /\ ToolsFit /\ RowFits /\ OneKind /\ OnlyHanded /\ GuidedInOrder
  BY DEF GuidedInv, AgentInv
<1>1. CASE Creates
  <2>1. PICK st \in {"running", "ready"}, o \in {Server, NoServer}, a \in BOOLEAN :
           /\ jobRow' = J!FreshRow(st, Len(Plan), o, a)
           /\ handed' = handed \/ handed' = {Plan[1]}
    BY <1>1 DEF Creates, J!Upsert
  <2>2. handed = {} /\ \A s \in Names : jobRow'.results[s] = "none"
    BY <1>0, <1>1, <2>1, FreshGives DEF Creates, OneKind, Guided
  <2>3. \A i \in DOMAIN Plan : Plan[i] \in handed' => i = 1
    BY <2>1, <2>2, PlanLength DEF Distinct
  <2> QED
    BY <2>2, <2>3 DEF OnlyHanded, GuidedInOrder
<1>2. ASSUME EngineStep \/ EngineEnds \/ (\E c \in Client : RecordWrites(c) \/ Finalizes(c)
                \/ \E s \in Names, ok \in BOOLEAN, fin \in BOOLEAN : RecordChecks(c, s, ok, fin))
      PROVE OnlyHanded' /\ GuidedInOrder'
  <2>1. ~Guided /\ handed' = handed
    BY <1>0, <1>2 DEF EngineStep, EngineEnds, RecordWrites, Finalizes, RecordChecks, OneKind,
                      ToolsFit, ToolFits
  <2> QED
    BY <2>1 DEF OnlyHanded, GuidedInOrder, Guided
<1>3. CASE loop_status
  <2>1. Sets("failed") \in AgentCall /\ ~Sets("failed").given /\ Sets("failed").status = "failed"
    BY SetsCall DEF Sets
  <2>2. jobRow # NoJobRow /\ Update(Sets("failed")) /\ UNCHANGED <<handed, finalized, unasked>>
    BY <1>3 DEF loop_status
  <2>3. jobRow'.results = jobRow.results
    BY <1>0, <2>1, <2>2, UpdateGivesRow
  <2> QED
    BY <1>0, <2>2, <2>3, ResultsKeepOrder
<1>4. CASE loop_cancel
  <2>1. jobRow \in J!Row /\ UNCHANGED <<handed, unasked>>
    BY <1>0, <1>4 DEF loop_cancel, AgentTypeOK
  <2>2. jobRow'.results = jobRow.results
    BY <1>4, <2>1 DEF loop_cancel, J!Row
  <2> QED
    BY <1>0, <2>1, <2>2, ResultsKeepOrder
<1>5. ASSUME NEW c \in Client, NEW s \in Names, NEW ok \in BOOLEAN, NEW advice \in BOOLEAN,
             ResultWrites(c, s, ok, advice)
      PROVE  OnlyHanded' /\ GuidedInOrder'
  <2> DEFINE auto == TRUE
  <2>1. /\ jobRow # NoJobRow /\ handed' = handed /\ unasked' = unasked \union ({s} \ handed)
        /\ RecordResult(s, ok, auto) /\ auto \in BOOLEAN
    BY <1>5 DEF ResultWrites
  <2> HIDE DEF auto
  <2>2. unasked \subseteq unasked' /\ s \in PlanStep \union unasked' /\ (unasked' = {} => s \in handed)
    BY <1>0, <2>1 DEF AgentTypeOK
  <2>3. unasked' = {} => \A k \in Names : \/ jobRow'.results[k] = jobRow.results[k]
                                          \/ k \in handed /\ jobRow'.results[k] # "none"
    BY <1>0, <2>1, <2>2, RecordResultGives
  <2> QED
    BY <1>0, <2>1, <2>2, <2>3, ResultsKeepOrder
<1>6. ASSUME NEW c \in Client, ResultAnswers(c) PROVE OnlyHanded' /\ GuidedInOrder'
  <2>1. jobRow # NoJobRow /\ jobRow' = jobRow /\ unasked' = unasked
    BY <1>0, <1>6 DEF ResultAnswers, ToolsFit, ToolFits
  <2>2. Guided /\ unasked = {} =>
          /\ Done \in Nat
          /\ \A k \in 1..Done : k \in DOMAIN Plan /\ jobRow.results[Plan[k]] # "none"
    BY <1>0, <2>1, CountIsPlace
  <2>3. CASE handed' = handed
    BY <1>0, <2>1, <2>3 DEF OnlyHanded, GuidedInOrder, Guided
  <2>4. CASE Guided /\ Done < jobRow.total /\ handed' = handed \union {Plan[Done + 1]}
    <3> SUFFICES ASSUME unasked = {} PROVE OnlyHanded' /\ GuidedInOrder'
      BY <2>1 DEF OnlyHanded, GuidedInOrder
    <3>1. Done + 1 \in DOMAIN Plan
      BY <1>0, <2>1, <2>2, <2>4, PlanLength DEF RowFits
    <3>2. \A i \in DOMAIN Plan : Plan[i] = Plan[Done + 1] => i = Done + 1
      BY <3>1 DEF Distinct
    <3>3. \A k \in 1..((Done + 1) - 1) : jobRow.results[Plan[k]] # "none"
      BY <2>2, <2>4
    <3>4. GuidedInOrder'
      BY <1>0, <2>1, <2>4, <3>2, <3>3 DEF GuidedInOrder
    <3> QED
      BY <1>0, <2>1, <2>4, <3>4 DEF OnlyHanded, Guided
  <2> QED
    BY <1>6, <2>3, <2>4 DEF ResultAnswers, NextStep
<1>7. CASE UNCHANGED agentVars
  BY <1>0, <1>7 DEF agentVars, OnlyHanded, GuidedInOrder, Guided
<1> QED
  BY <1>1, <1>2, <1>3, <1>4, <1>5, <1>6, <1>7 DEF AgentNext

\* When no name stands twice in the plan, which the loader checks for the loops it
\* reads, counting the results hands every step out after the ones before it have
\* reports, even if agents repeat reports or cross each other, as long as they report
\* what they were handed (loop_result).
THEOREM GuidedKeepsOrder == ASSUME Distinct PROVE AgentSpec => []GuidedInOrder
<1>1. AgentInit => GuidedInv
  BY InitAgent DEF GuidedInv, AgentInit, OnlyHanded, GuidedInOrder, Guided
<1>2. GuidedInv /\ [AgentNext]_agentVars => GuidedInv'
  BY StepGuided
<1>3. GuidedInv => GuidedInOrder
  BY DEF GuidedInv
<1> QED
  BY <1>1, <1>2, <1>3, PTL DEF AgentSpec

-----------------------------------------------------------------------------
(* An agent's job implements JobLifecycle *)

StatusOf(r) == IF r = NoJobRow THEN "absent" ELSE r.status

AgentLife == INSTANCE JobLifecycle WITH
        Job <- {"job"}, status <- [j \in {"job"} |-> StatusOf(jobRow)]

\* The moves that the statements of the store make.
MayBecome(a, b) ==
    \/ a = b
    \/ a = "absent" /\ b \in {"ready", "running"}
    \/ a \in AgentLife!Going /\ b \in {"in_progress", "error", "completed", "failed", "cancelled"}
    \/ a = "interrupted" /\ b = "cancelled"

LEMMA MovesAllowed ==
    ASSUME MayBecome(StatusOf(jobRow), StatusOf(jobRow'))
    PROVE  [AgentLife!Next]_([j \in {"job"} |-> StatusOf(jobRow)])
<1> DEFINE a == [j \in {"job"} |-> StatusOf(jobRow)]
           b == [j \in {"job"} |-> StatusOf(jobRow')]
<1>1. b = [a EXCEPT !["job"] = StatusOf(jobRow')] /\ a["job"] = StatusOf(jobRow)
  OBVIOUS
<1> QED
  BY <1>1 DEF MayBecome, AgentLife!Next, AgentLife!Start, AgentLife!Advance, AgentLife!Finish,
              AgentLife!Cancel, AgentLife!Becomes, AgentLife!Going, AgentLife!Final

LEMMA RecordMoves ==
    ASSUME AgentInv, NEW s \in Names, NEW ok \in BOOLEAN, NEW auto \in BOOLEAN,
           RecordResult(s, ok, auto)
    PROVE  MayBecome(StatusOf(jobRow), StatusOf(jobRow'))
<1> USE NoJobRowAssumption
<1>1. jobRow # NoJobRow => jobRow \in J!Row /\ jobRow.status \in J!Status
  BY DEF AgentInv, AgentTypeOK, J!Row
<1>2. CASE ~J!RecordAllowed(jobRow)
  BY <1>2 DEF RecordResult, MayBecome
<1>3. CASE J!RecordAllowed(jobRow)
  <2>1. jobRow # NoJobRow /\ jobRow \in J!Row /\ jobRow.status \in J!Status \ J!Terminal
    BY <1>1, <1>3 DEF J!RecordAllowed
  <2>2. /\ jobRow' \in J!Row
        /\ jobRow'.results = [jobRow.results EXCEPT ![s] = IF ok THEN "ok" ELSE "bad"]
        /\ jobRow'.status = J!RecordStatus(jobRow, jobRow'.results, auto)
    BY <1>3, <2>1, RecordGives DEF RecordResult
  <2>3. jobRow'.status \in {"in_progress", "error", "completed"}
    <3> DEFINE f == J!Failed(jobRow'.results) # {}
               g == J!Covered(jobRow, jobRow'.results, auto)
    <3>1. (f \/ ~f) /\ (g \/ ~g)
      BY DEF J!Covered
    <3> QED
      BY <2>2, <3>1 DEF J!RecordStatus
  <2>4. StatusOf(jobRow) = jobRow.status /\ StatusOf(jobRow') = jobRow'.status
    BY <2>1, <2>2 DEF StatusOf
  <2> QED
    BY <2>1, <2>3, <2>4 DEF MayBecome, AgentLife!Going, J!Status, J!Active, J!Terminal
<1> QED
  BY <1>2, <1>3

LEMMA UpdateMoves ==
    ASSUME AgentInv, NEW call \in AgentCall, call.status \in {"completed", "failed", "cancelled"},
           Update(call)
    PROVE  MayBecome(StatusOf(jobRow), StatusOf(jobRow'))
<1> USE NoJobRowAssumption
<1>1. CASE ~J!UpdateAllowed(jobRow, call.status)
  BY <1>1 DEF Update, MayBecome
<1>2. CASE J!UpdateAllowed(jobRow, call.status)
  <2>1. /\ jobRow # NoJobRow /\ jobRow \in J!Row /\ jobRow.status \in J!Status
        /\ jobRow.status \notin J!Terminal \/ jobRow.status = call.status
    BY <1>2 DEF J!UpdateAllowed, AgentInv, AgentTypeOK, J!Row
  <2>2. jobRow' \in J!Row /\ jobRow'.status = call.status
    BY <1>2, <2>1, UpdateGives DEF Update
  <2>3. StatusOf(jobRow) = jobRow.status /\ StatusOf(jobRow') = call.status
    BY <2>1, <2>2 DEF StatusOf
  <2> QED
    BY <2>1, <2>3 DEF MayBecome, AgentLife!Going, J!Status, J!Active, J!Terminal
<1> QED
  BY <1>1, <1>2

LEMMA StepAgentLife ==
    ASSUME AgentInv, [AgentNext]_agentVars PROVE MayBecome(StatusOf(jobRow), StatusOf(jobRow'))
<1> USE NoJobRowAssumption
<1>1. CASE Creates
  <2>1. PICK st \in {"running", "ready"}, o \in {Server, NoServer}, a \in BOOLEAN :
           jobRow' = J!FreshRow(st, Len(Plan), o, a)
    BY <1>1 DEF Creates, J!Upsert
  <2>2. jobRow' \in J!Row /\ jobRow'.status = st
    BY <2>1, FreshGives
  <2> QED
    BY <1>1, <2>2 DEF Creates, StatusOf, MayBecome
<1>2. CASE EngineStep
  BY <1>2, RecordMoves DEF EngineStep, Names
<1>3. CASE EngineEnds
  <2>1. PICK v \in {"completed", "failed", "cancelled"}, done \in J!Results, pid \in {Server, NoServer} :
           Update([ status |-> v, given |-> TRUE, results |-> done, metrics |-> TRUE,
                    owner |-> pid, completed |-> v # "cancelled" ])
    BY <1>3 DEF EngineEnds
  <2> DEFINE call == [ status |-> v, given |-> TRUE, results |-> done, metrics |-> TRUE,
                       owner |-> pid, completed |-> v # "cancelled" ]
  <2>2. call \in AgentCall /\ call.status = v
    BY DEF AgentCall, J!Terminal
  <2> HIDE DEF call
  <2> QED
    BY <2>1, <2>2, UpdateMoves DEF call
<1>4. CASE loop_status
  BY <1>4, SetsCall, UpdateMoves DEF loop_status, Sets
<1>5. CASE loop_cancel
  <2>1. jobRow # NoJobRow /\ jobRow \in J!Row /\ jobRow.status \in J!Status
    BY <1>5 DEF loop_cancel, AgentInv, AgentTypeOK, J!Row
  <2>2. CASE J!CancelAllowed(jobRow)
    <3>1. jobRow' \in J!Row /\ jobRow'.status = "cancelled"
      BY <1>5, <2>1, <2>2 DEF loop_cancel, J!Row, J!Status, J!Terminal
    <3>2. StatusOf(jobRow) = jobRow.status /\ StatusOf(jobRow') = "cancelled"
      BY <2>1, <3>1 DEF StatusOf
    <3> QED
      BY <2>1, <2>2, <3>2 DEF J!CancelAllowed, J!Status, J!Active, J!Terminal, MayBecome, AgentLife!Going
  <2>3. CASE ~J!CancelAllowed(jobRow)
    BY <1>5, <2>3 DEF loop_cancel, MayBecome
  <2> QED
    BY <2>2, <2>3
<1>6. ASSUME NEW c \in Client, RecordWrites(c) PROVE MayBecome(StatusOf(jobRow), StatusOf(jobRow'))
  <2>1. tool[c].step \in PlanStep /\ tool[c].ok \in BOOLEAN
    BY <1>6 DEF RecordWrites, AgentInv, AgentTypeOK, ToolsFit, ToolFits
  <2> QED
    BY <1>6, <2>1, RecordMoves DEF RecordWrites, Names
<1>7. ASSUME NEW c \in Client, Finalizes(c) PROVE MayBecome(StatusOf(jobRow), StatusOf(jobRow'))
  BY <1>7, SetsCall, UpdateMoves DEF Finalizes, Sets
<1>8. ASSUME NEW c \in Client, NEW s \in Names, NEW ok \in BOOLEAN, NEW advice \in BOOLEAN,
             ResultWrites(c, s, ok, advice)
      PROVE  MayBecome(StatusOf(jobRow), StatusOf(jobRow'))
  BY <1>8, RecordMoves DEF ResultWrites
<1>9. ASSUME UNCHANGED jobRow PROVE MayBecome(StatusOf(jobRow), StatusOf(jobRow'))
  BY <1>9 DEF MayBecome
<1> QED
  BY <1>1, <1>2, <1>3, <1>4, <1>5, <1>6, <1>7, <1>8, <1>9
  DEF AgentNext, RecordChecks, ResultAnswers, agentVars

\* Worker, agents, a cancel and loop_status's failure of an idle job take the
\* row through the statuses that the abstract table allows, however the calls of
\* several agents cross: no report revives a job that has its verdict
\* (loop_record, loop_result).
THEOREM AgentRefines == AgentSpec => AgentLife!Spec
<1>1. AgentInit => AgentLife!Init
  BY DEF AgentInit, AgentLife!Init, StatusOf
<1>2. AgentInv /\ [AgentNext]_agentVars => [AgentLife!Next]_([j \in {"job"} |-> StatusOf(jobRow)])
  BY StepAgentLife, MovesAllowed
<1> QED
  BY <1>1, <1>2, AgentInvariant, PTL DEF AgentSpec, AgentLife!Spec

-----------------------------------------------------------------------------
(* Who may refuse a run *)

LEMMA StepPolicy == PolicyHolds /\ [PolicyNext]_policyVars => PolicyHolds'
<1> SUFFICES ASSUME PolicyHolds, [PolicyNext]_policyVars PROVE PolicyHolds'
  OBVIOUS
<1>1. CASE Admit
  <2>1. SUFFICES ASSUME asked.entry \in {"spec", "save", "name"}
                 PROVE  ~Vetoed(asked, hooks)
    BY <1>1 DEF Admit, PolicyHolds, Vetoed, Verdict
  <2>2. Round(asked) = hooks
    BY <2>1 DEF Round
  <2> QED
    BY <1>1, <2>1, <2>2 DEF Admit
<1>2. CASE UserHooks \/ Ask \/ Refuse \/ Answers \/ loop_delete
  BY <1>2 DEF UserHooks, Ask, Refuse, Answers, loop_delete, PolicyHolds
<1>3. CASE UNCHANGED policyVars
  BY <1>3 DEF policyVars, PolicyHolds
<1> QED
  BY <1>1, <1>2, <1>3 DEF PolicyNext

\* A loop_run or a loop_save is admitted only past every builtin rule that is
\* registered, whatever hooks are added, replaced or raise (hooks.py trigger).
THEOREM PolicyEnforced == PolicySpec => []PolicyHolds
<1>1. PolicyInit => PolicyHolds
  BY DEF PolicyInit, PolicyHolds
<1> QED
  BY <1>1, StepPolicy, PTL DEF PolicySpec

LEMMA RulesAreHooks == Rules \in Seq(Hook)
<1>1. DOMAIN Builtins = 1..4 /\ \A i \in 1..4 : Builtins[i] \in HookNames
  BY DEF Builtins, HookNames
<1>2. \A i \in 1..4 : [name |-> Builtins[i], says |-> "rule"] \in Hook
  BY <1>1 DEF Hook
<1>3. Rules \in [1..4 -> Hook]
  BY <1>1, <1>2 DEF Rules
<1> QED
  BY <1>3

LEMMA WithoutIsHooks ==
    ASSUME hooks \in Seq(Hook), NEW name PROVE Without(name) \in Seq(Hook)
<1>1. CASE \E i \in DOMAIN hooks : hooks[i].name = name
  <2> DEFINE i == CHOOSE i \in DOMAIN hooks : hooks[i].name = name
  <2>1. i \in 1..Len(hooks)
    BY <1>1
  <2> HIDE DEF i
  <2>2. SubSeq(hooks, 1, i - 1) \in Seq(Hook) /\ SubSeq(hooks, i + 1, Len(hooks)) \in Seq(Hook)
    BY <2>1
  <2>3. Without(name) = SubSeq(hooks, 1, i - 1) \o SubSeq(hooks, i + 1, Len(hooks))
    BY <1>1 DEF Without, i
  <2> QED
    BY <2>2, <2>3
<1>2. CASE ~\E i \in DOMAIN hooks : hooks[i].name = name
  BY <1>2 DEF Without
<1> QED
  BY <1>1, <1>2

\* The registry keeps to hooks, and a request at the gate to the doors there are.
LEMMA StepPolicyTypes == PolicyTypeOK /\ [PolicyNext]_policyVars => PolicyTypeOK'
<1> SUFFICES ASSUME PolicyTypeOK, [PolicyNext]_policyVars PROVE PolicyTypeOK'
  OBVIOUS
<1>1. CASE UserHooks
  <2>1. PICK name \in HookNames :
           \/ \E says \in Says : hooks' = Append(Without(name), [name |-> name, says |-> says])
           \/ hooks' = Without(name)
    BY <1>1 DEF UserHooks
  <2>2. Without(name) \in Seq(Hook) /\ \A says \in Says : [name |-> name, says |-> says] \in Hook
    BY WithoutIsHooks DEF PolicyTypeOK, Hook
  <2>3. ASSUME NEW h \in Hook, hooks' = Append(Without(name), h) PROVE hooks' \in Seq(Hook)
    BY <2>2, <2>3
  <2>4. hooks' \in Seq(Hook)
    BY <2>1, <2>2, <2>3
  <2> QED
    BY <1>1, <2>4 DEF UserHooks, PolicyTypeOK
<1>2. CASE Ask \/ Refuse \/ Admit \/ Answers \/ loop_delete
  BY <1>2 DEF Ask, Refuse, Admit, SaveLoop, Answers, loop_delete, PolicyTypeOK
<1>3. CASE UNCHANGED policyVars
  BY <1>3 DEF policyVars, PolicyTypeOK
<1> QED
  BY <1>1, <1>2, <1>3 DEF PolicyNext

\* What is asked is a request, and the registry a list of hooks without gaps,
\* whatever user modules register and unregister.
THEOREM PolicyTypes == PolicySpec => []PolicyTypeOK
<1>1. PolicyInit => PolicyTypeOK
  BY RulesAreHooks DEF PolicyInit, PolicyTypeOK
<1> QED
  BY <1>1, StepPolicyTypes, PTL DEF PolicySpec

-----------------------------------------------------------------------------
(* What a step may refer to *)

\* What a reference may miss.
Missable == skipped \union groups \union failed \union unset

\* Only the outermost list is the document's; every other one has a name.
Framed == \A i \in DOMAIN lists : /\ lists[i].type = "steps" <=> i = 1
                                  /\ i # 1 => lists[i].name \in groups

\* Where a step would run, the context holds what the loader lets it refer to.
KnownHeld == \A i \in DOMAIN lists : lists[i].runs => lists[i].known \ lists[i].have \subseteq Missable

\* What a list makes known outside was stored, or may be missed.
RegisteredPut == \A i \in DOMAIN lists : lists[i].reg \ lists[i].put \subseteq Missable

SpecInv == SpecTypeOK /\ Framed /\ KnownHeld /\ RegisteredPut /\ RefsResolve

LEMMA InitSpec == SpecInit => SpecInv
<1> SUFFICES ASSUME SpecInit PROVE SpecInv
  OBVIOUS
<1>1. (CHOOSE n \in Name : TRUE) \in Name
  BY SpecAssumption
<1>2. SpecTypeOK
  BY <1>1, SpecAssumption DEF SpecInit, SpecTypeOK, List, Known
<1>3. KnownHeld
  BY DEF SpecInit, KnownHeld, Missable
<1> QED
  BY <1>2, <1>3 DEF SpecInit, SpecInv, Framed, RegisteredPut, RefsResolve

\* The innermost list, and the one around it.
LEMMA Inside ==
    ASSUME SpecInv
    PROVE  /\ Len(lists) \in Nat \ {0} /\ Len(lists) \in DOMAIN lists /\ Innermost \in List
           /\ Innermost.type # "steps" => /\ Len(lists) - 1 \in DOMAIN lists /\ Outer \in List
                                          /\ Innermost.name \in groups
BY DEF SpecInv, SpecTypeOK, Framed, Innermost, Outer

\* A list in the place of the innermost one.
LEMMA RewriteKeeps ==
    ASSUME SpecInv, NEW l \in List, Rewrite(l),
           l.type = "steps" <=> Innermost.type = "steps", l.name = Innermost.name,
           skipped \subseteq skipped', failed \subseteq failed',
           groups' = groups, unset' = unset,
           l.runs => l.known \ l.have \subseteq Missable', l.reg \ l.put \subseteq Missable'
    PROVE  /\ lists' \in Seq(List) /\ lists' # <<>>
           /\ Framed' /\ KnownHeld' /\ RegisteredPut'
<1>1. /\ lists' \in Seq(List) /\ lists' # <<>> /\ DOMAIN lists' = DOMAIN lists
      /\ \A i \in DOMAIN lists : lists'[i] = IF i = Len(lists) THEN l ELSE lists[i]
  BY Inside DEF Rewrite, SpecInv, SpecTypeOK
<1>2. Missable \subseteq Missable'
  BY DEF Missable
<1>3. Framed'
  BY <1>1 DEF SpecInv, Framed, Innermost
<1>4. KnownHeld' /\ RegisteredPut'
  BY <1>1, <1>2 DEF SpecInv, KnownHeld, RegisteredPut
<1> QED
  BY <1>1, <1>3, <1>4

\* A list inside the innermost one.
LEMMA OpenKeeps ==
    ASSUME SpecInv, NEW n \in Name, NEW type \in {"parallel", "then"}, NEW first \in BOOLEAN,
           lists' = Append(lists, Opened(n, type, first)),
           groups' = groups \union {n}, UNCHANGED <<skipped, failed, unset>>
    PROVE  /\ lists' \in Seq(List) /\ lists' # <<>>
           /\ Framed' /\ KnownHeld' /\ RegisteredPut'
<1> DEFINE o == Opened(n, type, first)
<1>1. /\ o \in List /\ o.type = type /\ o.name = n /\ o.reg = {} /\ o.known = Innermost.known
      /\ o.have = Innermost.have /\ (o.runs => Innermost.runs)
  BY Inside DEF Opened, List
<1>2. /\ lists' \in Seq(List) /\ lists' # <<>> /\ Len(lists') = Len(lists) + 1
      /\ \A i \in DOMAIN lists' : lists'[i] = IF i = Len(lists) + 1 THEN o ELSE lists[i]
  BY <1>1 DEF SpecInv, SpecTypeOK
<1>3. Missable \subseteq Missable'
  BY DEF Missable
<1>4. Framed'
  BY <1>1, <1>2, Inside DEF SpecInv, SpecTypeOK, Framed
<1>5. KnownHeld'
  BY <1>1, <1>2, <1>3, Inside DEF SpecInv, SpecTypeOK, KnownHeld, Innermost
<1>6. RegisteredPut'
  BY <1>1, <1>2, <1>3, Inside DEF SpecInv, SpecTypeOK, RegisteredPut
<1> QED
  BY <1>2, <1>4, <1>5, <1>6

LEMMA StepSpec == SpecInv /\ [SpecNext]_specVars => SpecInv'
<1> SUFFICES ASSUME SpecInv, [SpecNext]_specVars PROVE SpecInv'
  OBVIOUS
<1>0. SpecTypeOK /\ RefsResolve /\ (MoreNodes => nodes' \in 0..MaxNodes)
  BY SpecAssumption DEF SpecInv, SpecTypeOK, MoreNodes
<1>1. ASSUME NEW n \in Name, NEW refs \in SUBSET Known, NEW ok \in BOOLEAN, Leaf(n, refs, ok)
      PROVE  SpecInv'
  <2> DEFINE l  == Innermost
             l1 == [l EXCEPT !.known = Registers(l, n), !.reg = @ \union {n},
                             !.have  = IF l.runs /\ l.type # "parallel" THEN Stored(@, n, ok)
                                                                       ELSE @,
                             !.put   = IF l.runs /\ ok THEN @ \union {n} ELSE @, !.empty = FALSE]
  <2>1. /\ l1 \in List /\ l1.type = l.type /\ l1.name = l.name /\ l1.runs = l.runs
        /\ l1.known = Registers(l, n) /\ l1.reg = l.reg \union {n}
        /\ l1.have = IF l.runs /\ l.type # "parallel" THEN Stored(l.have, n, ok) ELSE l.have
        /\ l1.put  = IF l.runs /\ ok THEN l.put \union {n} ELSE l.put
    BY Inside DEF List, Registers, Known, Stored
  <2>2. Missable' = IF l.runs /\ ok THEN Missable ELSE Missable \union {n}
    BY <1>1 DEF Leaf, Missable
  <2>3. /\ l.runs => l.known \ l.have \subseteq Missable
        /\ l.reg \ l.put \subseteq Missable
    BY Inside DEF SpecInv, KnownHeld, RegisteredPut, Innermost
  <2>4. /\ l1.runs => l1.known \ l1.have \subseteq Missable'
        /\ l1.reg \ l1.put \subseteq Missable'
    BY <2>1, <2>2, <2>3 DEF Registers, Stored
  <2>5. lists' \in Seq(List) /\ lists' # <<>> /\ Framed' /\ KnownHeld' /\ RegisteredPut'
    BY <1>1, <2>1, <2>4, RewriteKeeps DEF Leaf
  <2>6. SpecTypeOK'
    <3>1. valid' \in BOOLEAN /\ lost' \subseteq Known
      BY <1>0, <1>1 DEF Leaf, SpecTypeOK
    <3> QED
      BY <1>0, <1>1, <2>5, <3>1 DEF Leaf, SpecTypeOK
  <2>7. RefsResolve'
    BY <1>0, <1>1, <2>2, <2>3 DEF Leaf, MoreNodes, RefsResolve, Missable
  <2> QED
    BY <2>5, <2>6, <2>7 DEF SpecInv
<1>2. ASSUME NEW n \in Name, NEW refs \in SUBSET Known, OpenConditional(n, refs) PROVE SpecInv'
  <2>1. PICK first \in BOOLEAN : lists' = Append(lists, Opened(n, "then", first))
    BY <1>2 DEF OpenConditional
  <2>2. lists' \in Seq(List) /\ lists' # <<>> /\ Framed' /\ KnownHeld' /\ RegisteredPut'
    BY <1>2, <2>1, OpenKeeps DEF OpenConditional
  <2>3. SpecTypeOK'
    <3>1. valid' \in BOOLEAN /\ lost' \subseteq Known
      BY <1>0, <1>2 DEF OpenConditional, SpecTypeOK
    <3> QED
      BY <1>0, <1>2, <2>2, <3>1 DEF OpenConditional, SpecTypeOK
  <2>4. Innermost.runs => Innermost.known \ Innermost.have \subseteq Missable
    BY Inside DEF SpecInv, KnownHeld, Innermost
  <2>5. RefsResolve'
    BY <1>0, <1>2, <2>4 DEF OpenConditional, MoreNodes, RefsResolve, Missable
  <2> QED
    BY <2>2, <2>3, <2>5 DEF SpecInv
<1>3. ASSUME NEW n \in Name, OpenParallel(n) PROVE SpecInv'
  <2>1. lists' \in Seq(List) /\ lists' # <<>> /\ Framed' /\ KnownHeld' /\ RegisteredPut'
    BY <1>3, OpenKeeps DEF OpenParallel
  <2>2. SpecTypeOK'
    BY <1>0, <1>3, <2>1 DEF OpenParallel, SpecTypeOK
  <2>3. RefsResolve'
    BY <1>0, <1>3 DEF OpenParallel, MoreNodes, RefsResolve
  <2> QED
    BY <2>1, <2>2, <2>3 DEF SpecInv
<1>4. CASE Else
  <2> DEFINE l1 == [Innermost EXCEPT !.type = "else", !.known = Outer.known, !.have = Outer.have,
                                     !.runs = Outer.runs /\ ~Innermost.first]
  <2>1. Innermost.type = "then" /\ Innermost \in List /\ Outer \in List
    BY <1>4, Inside DEF Else
  <2>2. /\ l1 \in List /\ l1.type = "else" /\ l1.name = Innermost.name
        /\ l1.known = Outer.known /\ l1.have = Outer.have /\ (l1.runs => Outer.runs)
        /\ l1.reg = Innermost.reg /\ l1.put = Innermost.put
    BY <2>1 DEF List
  <2>3. Outer.runs => Outer.known \ Outer.have \subseteq Missable
    BY <2>1, Inside DEF SpecInv, KnownHeld, Outer
  <2>4. Innermost.reg \ Innermost.put \subseteq Missable
    BY Inside DEF SpecInv, RegisteredPut, Innermost
  <2>5. Missable' = Missable
    BY <1>4 DEF Else, Missable
  <2>6. lists' \in Seq(List) /\ lists' # <<>> /\ Framed' /\ KnownHeld' /\ RegisteredPut'
    BY <1>4, <2>1, <2>2, <2>3, <2>4, <2>5, RewriteKeeps DEF Else
  <2>7. SpecTypeOK' /\ RefsResolve'
    BY <1>0, <1>4, <2>6 DEF Else, SpecTypeOK, RefsResolve
  <2> QED
    BY <2>6, <2>7 DEF SpecInv
<1>5. CASE CloseList
  <2> DEFINE i == Innermost
             names == i.reg \union {i.name}
             o == [Outer EXCEPT !.known = @ \union names, !.reg = @ \union names,
                                !.have = (@ \union i.put) \ failed, !.put = @ \union i.put,
                                !.empty = FALSE]
             m == Len(lists) - 1
  <2>1. /\ i \in List /\ Outer \in List /\ m \in DOMAIN lists /\ m \in Nat \ {0}
        /\ i.name \in groups
    BY <1>5, Inside DEF CloseList, SpecInv, SpecTypeOK
  <2>2. /\ o \in List /\ o.type = Outer.type /\ o.name = Outer.name /\ o.runs = Outer.runs
        /\ o.known = Outer.known \union names /\ o.reg = Outer.reg \union names
        /\ o.have = (Outer.have \union i.put) \ failed /\ o.put = Outer.put \union i.put
    BY <2>1 DEF List, Known
  <2>3. /\ lists' \in Seq(List) /\ lists' # <<>> /\ Len(lists') = m
        /\ \A k \in DOMAIN lists' : lists'[k] = IF k = m THEN o ELSE lists[k]
    <3>1. lists \in Seq(List) /\ Len(lists) = m + 1
      BY <2>1 DEF SpecInv, SpecTypeOK
    <3>2. lists' = Append(SubSeq(lists, 1, m - 1), o)
      BY <1>5, <2>1, <3>1 DEF CloseList
    <3>3. /\ SubSeq(lists, 1, m - 1) \in Seq(List) /\ Len(SubSeq(lists, 1, m - 1)) = m - 1
          /\ \A k \in 1..(m - 1) : SubSeq(lists, 1, m - 1)[k] = lists[k]
      BY <2>1, <3>1
    <3> HIDE DEF o, m
    <3> QED
      BY <2>1, <2>2, <3>2, <3>3
  <2>4. /\ Outer.runs => Outer.known \ Outer.have \subseteq Missable
        /\ Outer.reg \ Outer.put \subseteq Missable /\ i.reg \ i.put \subseteq Missable
    BY <2>1, Inside DEF SpecInv, KnownHeld, RegisteredPut, Outer, Innermost
  <2>5. Missable' = Missable /\ i.name \in Missable /\ failed \subseteq Missable
    BY <1>5, <2>1 DEF CloseList, Missable
  <2>6. /\ o.runs => o.known \ o.have \subseteq Missable
        /\ o.reg \ o.put \subseteq Missable
    BY <2>2, <2>4, <2>5
  <2>7. Framed'
    BY <1>5, <2>1, <2>2, <2>3 DEF CloseList, SpecInv, SpecTypeOK, Framed, Outer
  <2>8. KnownHeld' /\ RegisteredPut'
    <3>1. \A k \in DOMAIN lists' : k \in DOMAIN lists
      BY <2>1, <2>3 DEF SpecInv, SpecTypeOK
    <3> HIDE DEF o, m
    <3> QED
      BY <2>3, <2>5, <2>6, <3>1 DEF SpecInv, KnownHeld, RegisteredPut
  <2>9. SpecTypeOK' /\ RefsResolve'
    BY <1>0, <1>5, <2>3 DEF CloseList, SpecTypeOK, RefsResolve
  <2> QED
    BY <2>7, <2>8, <2>9 DEF SpecInv
<1>6. CASE UNCHANGED specVars
  BY <1>6 DEF specVars, SpecInv, SpecTypeOK, Framed, KnownHeld, RegisteredPut, RefsResolve, Missable
<1> QED
  BY <1>1, <1>2, <1>3, <1>4, <1>5, <1>6 DEF SpecNext

\* The inductive invariant holds in every reachable state.
THEOREM SpecInvariant == SpecSpec => []SpecInv
<1> QED
  BY InitSpec, StepSpec, PTL DEF SpecSpec

\* In every document the loader accepts, however deep its groups and branches, a
\* step or a condition that is reached finds what it refers to, for any context of
\* the caller and any failures, apart from what the property names: skipped and
\* failed steps, groups, and keys the caller's context replaced
\* (loader.py _walk_semantics against state.py and tools_run.py).
THEOREM ReferencesResolve == SpecSpec => []RefsResolve
<1> QED
  BY SpecInvariant, PTL DEF SpecInv

-----------------------------------------------------------------------------
(* A checkpoint on its way to another version *)

\* A checkpoint whose views of what ran agree; the index follows in the end.
Agrees(c) == Elements(c.executed) = c.results

Counted(c) == c.index = Len(c.executed)

\* Step by step, d knows under its name what c knew under its own.
Knows(c, d) ==
    /\ DOMAIN d.executed = DOMAIN c.executed
    /\ \A i \in DOMAIN d.executed : c.executed[i] \in c.context => d.executed[i] \in d.context

MigrationInv ==
    /\ MigrationTypeOK /\ IsFiniteSet(edges)
    /\ Agrees(migrated) /\ Knows(checkpoint, migrated)
    /\ outcome \in {"checking", "resumes"} => Counted(migrated)

LEMMA InitMigration == MigrationInit => MigrationInv
<1> SUFFICES ASSUME MigrationInit PROVE MigrationInv
  OBVIOUS
<1>1. PICK v \in Version, context \in SUBSET StepName :
         checkpoint = [ version |-> v, executed |-> Executed, results |-> Elements(Executed),
                        context |-> context, index |-> Len(Executed) ]
  BY DEF MigrationInit
<1>2. Elements(Executed) \subseteq StepName
  BY MigrationAssumption DEF Elements
<1>3. checkpoint \in Checkpoint /\ Agrees(checkpoint) /\ Counted(checkpoint)
  BY <1>1, <1>2, MigrationAssumption DEF Checkpoint, Agrees, Counted
<1>4. Knows(checkpoint, checkpoint)
  BY DEF Knows
<1> QED
  BY <1>3, <1>4, FS_EmptySet DEF MigrationInit, MigrationInv, MigrationTypeOK

\* A chain is made of registered migrations.
LEMMA PathsAreChains ==
    ASSUME edges \subseteq Edge, IsFiniteSet(edges), NEW v, NEW w, NEW p \in Paths(v, w)
    PROVE  p \in Seq(Edge)
<1>1. Cardinality(edges) \in Nat
  BY FS_CardinalityType
<1>2. PICK n \in 1..Cardinality(edges) : p \in [1..n -> edges]
  BY DEF Paths
<1> QED
  BY <1>1, <1>2

\* One rename, wherever the name occurs and whether or not the new one is taken.
LEMMA RenamedAgrees ==
    ASSUME NEW c \in Checkpoint, Agrees(c), NEW e \in [old : StepName, new : StepName]
    PROVE  Renamed(c, e) \in Checkpoint /\ Agrees(Renamed(c, e)) /\ Knows(c, Renamed(c, e))
<1> DEFINE r == Renamed(c, e)
           s == [i \in DOMAIN c.executed |-> IF c.executed[i] = e.old THEN e.new ELSE c.executed[i]]
<1>1. c.executed \in Seq(StepName) /\ e.old \in StepName /\ e.new \in StepName
  BY DEF Checkpoint
<1>2. s \in Seq(StepName) /\ DOMAIN s = DOMAIN c.executed
  BY <1>1
<1>3. /\ r.executed = s /\ r.results = Moved(c.results, e)
      /\ r.context = IF e.new \in c.context THEN c.context ELSE Moved(c.context, e)
      /\ r.version = c.version /\ r.index = c.index
  BY DEF Renamed, Checkpoint
<1>4. r \in Checkpoint
  BY <1>1, <1>2 DEF Renamed, Moved, Checkpoint
<1>5. Elements(s) = Moved(Elements(c.executed), e)
  BY DEF Elements, Moved
<1>6. Elements(r.executed) = r.results
  BY <1>3, <1>5 DEF Agrees
<1>7. Knows(c, r)
  BY <1>2, <1>3 DEF Knows, Moved
<1> QED
  BY <1>4, <1>6, <1>7 DEF Agrees

LEMMA StepMigration == MigrationInv /\ [MigrationNext]_migrationVars => MigrationInv'
<1> SUFFICES ASSUME MigrationInv, [MigrationNext]_migrationVars PROVE MigrationInv'
  OBVIOUS
<1>1. ASSUME NEW e \in Edge, register(e) PROVE MigrationInv'
  <2> DEFINE kept == {d \in edges : <<d.from, d.to>> # <<e.from, e.to>>}
  <2>1. edges' = kept \union {e} /\ IsFiniteSet(kept) /\ kept \subseteq Edge
    BY <1>1, FS_Subset DEF register, MigrationInv, MigrationTypeOK
  <2>2. IsFiniteSet(edges') /\ edges' \subseteq Edge
    BY <2>1, FS_AddElement
  <2> QED
    BY <1>1, <2>2 DEF register, MigrationInv, MigrationTypeOK, Agrees, Counted, Knows
<1>2. CASE Check
  <2>1. path' \in Seq(Edge) /\ outcome' \in {"migrating", "resumes", "refused"}
    BY <1>2, PathsAreChains DEF Check, MigrationInv, MigrationTypeOK
  <2> QED
    BY <1>2, <2>1 DEF Check, MigrationInv, MigrationTypeOK, Agrees, Counted, Knows
<1>3. CASE Migrate
  <2> DEFINE e == Head(path)
  <2>1. e \in Edge /\ Tail(path) \in Seq(Edge) /\ migrated \in Checkpoint
    BY <1>3 DEF Migrate, MigrationInv, MigrationTypeOK
  <2>2. CASE e.effect = Raises
    BY <1>3, <2>2 DEF Migrate, MigrationInv, MigrationTypeOK, Agrees, Counted, Knows
  <2>3. CASE e.effect # Raises
    <3>1. e.effect \in [old : StepName, new : StepName] /\ e.to \in Version
      BY <2>1, <2>3 DEF Edge, Effect
    <3> DEFINE r == Renamed(migrated, e.effect)
    <3>2. r \in Checkpoint /\ Agrees(r) /\ Knows(migrated, r)
      BY <2>1, <3>1, RenamedAgrees DEF MigrationInv
    <3>3. migrated' = [r EXCEPT !.version = e.to] /\ path' = Tail(path) /\ outcome' = "migrating"
      BY <1>3, <2>3 DEF Migrate
    <3> HIDE DEF r, e
    <3>4. migrated' \in Checkpoint /\ Agrees(migrated') /\ Knows(migrated, migrated')
      BY <3>1, <3>2, <3>3 DEF Checkpoint, Agrees, Knows
    <3>5. Knows(checkpoint, migrated')
      BY <3>4 DEF MigrationInv, Knows
    <3> QED
      BY <1>3, <2>1, <3>3, <3>4, <3>5 DEF Migrate, MigrationInv, MigrationTypeOK, Agrees, Knows
  <2> QED
    BY <2>2, <2>3
<1>4. CASE Finish
  <2>1. migrated \in Checkpoint /\ target.version \in Version
    BY DEF MigrationInv, MigrationTypeOK
  <2>2. /\ migrated'.executed = migrated.executed /\ migrated'.results = migrated.results
        /\ migrated'.context = migrated.context /\ migrated'.index = Len(migrated.executed)
    BY <1>4, <2>1 DEF Finish, Checkpoint
  <2>3. migrated' \in Checkpoint
    <3>1. migrated.executed \in Seq(StepName) /\ Len(migrated.executed) \in Nat
      BY <2>1 DEF Checkpoint
    <3>2. migrated' = [migrated EXCEPT !.version = target.version, !.index = Len(migrated.executed)]
      BY <1>4 DEF Finish
    <3> QED
      BY <2>1, <3>1, <3>2 DEF Checkpoint
  <2>4. Agrees(migrated') /\ Counted(migrated') /\ Knows(checkpoint, migrated')
    BY <2>2 DEF MigrationInv, Agrees, Counted, Knows
  <2> QED
    BY <1>4, <2>3, <2>4 DEF Finish, MigrationInv, MigrationTypeOK, Agrees, Counted, Knows
<1>5. CASE UNCHANGED migrationVars
  BY <1>5 DEF migrationVars, MigrationInv, MigrationTypeOK, Agrees, Counted, Knows
<1> QED
  BY <1>1, <1>2, <1>3, <1>4, <1>5 DEF MigrationNext

\* The inductive invariant holds in every reachable state.
THEOREM MigrationInvariant == MigrationSpec => []MigrationInv
<1> QED
  BY InitMigration, StepMigration, PTL DEF MigrationSpec

\* What a run resumes from agrees with itself and has lost no step's value, after
\* any chain of migrations, for any context, registered functions and versions (migrate_checkpoint, rename_checkpoint_step).
THEOREM MigratedAgrees == MigrationSpec => []ResumeAgrees
<1>1. MigrationInv => ResumeAgrees
  BY DEF MigrationInv, ResumeAgrees, Agrees, Counted, Knows
<1> QED
  BY <1>1, MigrationInvariant, PTL
=============================================================================
