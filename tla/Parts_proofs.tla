---------------------------- MODULE Parts_proofs ----------------------------
(***************************************************************************)
(* Proofs about the components of MCParts: side by side each of them does  *)
(* what its own specification says, so what is proved of a component by    *)
(* itself holds of the composition.                                        *)
(***************************************************************************)
EXTENDS MCParts, Messages_proofs, Steps_proofs, Agents_proofs

\* The specifications of the parts, without the fairness that EventStreams and
\* ChildProcess add.
StreamSafe == StreamInit /\ [][StreamNext]_streamVars
ProcSafe   == ProcInit /\ [][ProcNext]_procVars

LEMMA PartsStart ==
    PartsInit => /\ Init /\ OutboxInit /\ StreamInit /\ SpanInit /\ LLMInit /\ BlockInit
                 /\ ProcInit /\ PolicyInit /\ AgentInit /\ ConfigInit /\ SpecInit /\ MigrationInit
BY DEF PartsInit

\* A step of the composition is one of each part's own, or leaves the part alone.
LEMMA PartsStep ==
    [PartsNext]_partsVars =>
        /\ [Next]_vars /\ [OutboxNext]_outboxVars /\ [StreamNext]_streamVars /\ [SpanNext]_spanVars
        /\ [LLMNext]_llmVars /\ [BlockNext]_blockVars /\ [ProcNext]_procVars
        /\ [PolicyNext]_policyVars /\ [AgentNext]_agentVars /\ [ConfigNext]_configVars
        /\ [SpecNext]_specVars /\ [MigrationNext]_migrationVars
<1>1. UNCHANGED <<protocolVars, emitterVars>> <=> UNCHANGED streamVars
  BY DEF protocolVars, emitterVars, streamVars
<1>2. UNCHANGED partsVars =>
        UNCHANGED <<vars, outboxVars, streamVars, spanVars, llmVars, blockVars, procVars,
                    policyVars, agentVars, configVars, specVars, migrationVars>>
  BY DEF partsVars
<1> QED
  BY <1>1, <1>2 DEF PartsNext, Frozen, StreamNext

\* Side by side every part follows its own specification.
THEOREM PartsAreTheirOwn ==
    PartsSpec => /\ Spec /\ OutboxSpec /\ StreamSafe /\ SpanSpec /\ LLMSpec /\ BlockSpec
                 /\ ProcSafe /\ PolicySpec /\ AgentSpec /\ ConfigSpec /\ SpecSpec /\ MigrationSpec
<1> QED
  BY PartsStart, PartsStep, PTL
  DEF PartsSpec, Spec, OutboxSpec, StreamSafe, SpanSpec, LLMSpec, BlockSpec, ProcSafe, PolicySpec,
      AgentSpec, ConfigSpec, SpecSpec, MigrationSpec

\* Queues, counters and places of every part stay what they are, whichever part
\* steps.
THEOREM PartsTypes == PartsSpec => []PartsTypeOK
<1>1. Spec => []TypeOK
  BY HumanInvariant, PTL DEF HumanInv
<1>2. StreamSafe => []StreamTypeOK
  BY InitStreams, StepStreams, PTL DEF StreamSafe
<1>3. SpanSpec => []SpanTypeOK
  BY SpanInvariant, PTL DEF SpanInv
<1>4. LLMSpec => []LLMTypeOK
  BY LLMInvariant, PTL DEF LLMInv
<1>5. BlockSpec => []BlockTypeOK
  BY BlockInvariant, PTL DEF BlockInv
<1>6. ProcSafe => []ProcTypeOK
  BY InitProc, StepProc, PTL DEF ProcSafe, ProcInv
<1>7. AgentSpec => []AgentTypeOK
  BY AgentInvariant, PTL DEF AgentInv
<1>8. ConfigSpec => []ConfigTypeOK
  BY ConfigInvariant, PTL DEF ConfigInv
<1>9. SpecSpec => []SpecTypeOK
  BY SpecInvariant, PTL DEF SpecInv
<1>10. MigrationSpec => []MigrationTypeOK
  BY MigrationInvariant, PTL DEF MigrationInv
<1> QED
  BY PartsAreTheirOwn, OutboxTypes, PolicyTypes, <1>1, <1>2, <1>3, <1>4, <1>5, <1>6, <1>7, <1>8,
     <1>9, <1>10, PTL DEF PartsTypeOK

\* What is proved of a part by itself holds of all of them side by side.
THEOREM PartsAreSafe ==
    ASSUME Distinct
    PROVE  PartsSpec =>
              /\ [](AnsweredLeavesInbox /\ WaitingShown) /\ FirstCloseWins /\ AnswerInTimeCounts
              /\ [](ReadWasShown /\ MirrorExactUncrossed)
              /\ []SpansAccounted
              /\ [](Complete(dialogue) => AnswerHonest)
              /\ []OnlyPinnedCode
              /\ [](SuccessWasAnswered /\ TimeoutKillsGroup)
              /\ []PolicyHolds
              /\ [](PlanWhole /\ GuidedInOrder)
              /\ []RestoreExact
              /\ []RefsResolve
              /\ []ResumeAgrees
<1>1. ProcSafe => [](SuccessWasAnswered /\ TimeoutKillsGroup)
  <2>1. ProcInv => SuccessWasAnswered /\ TimeoutKillsGroup
    BY KilledShown DEF ProcInv
  <2> QED
    BY <2>1, InitProc, StepProc, PTL DEF ProcSafe
<1>2. AgentSpec => []GuidedInOrder
  BY GuidedKeepsOrder
<1> QED
  BY PartsAreTheirOwn, InboxIsClean, WaitingIsTrue, FirstClose, AnswerCounts, NothingReadUnseen,
     MirrorKept, NoSpanLost, AnswersAreHonest, PinnedCodeOnly, <1>1, PolicyEnforced, PlansAreWhole,
     <1>2, RestoreIsExact, ReferencesResolve, MigratedAgrees, PTL
=============================================================================
