------------------------------ MODULE MCParts ------------------------------
(***************************************************************************)
(* Small instances of the components that share no state, side by side:    *)
(* "active" says which of them steps in a behaviour, the others rest in    *)
(* one of their initial states.  Fairness is asked of the active one.  A   *)
(* run names the parts that take their turn in it.                         *)
(***************************************************************************)
EXTENDS HumanInput, Outbox, EventStreams, SpanExport, LLMStream, CodeBlocks, ChildProcess,
        RunPolicy, AgentRun, AgentConfig, SpecRules, Migration, TLC

CONSTANTS s1, s2, md1, md2,
          Awake     \* the parts that are active in some behaviour

Dialogues ==
    { [provider |-> "openai",
       lines |-> <<"noise", "delta", "delta", "finish", "usage", "done">>],
      [provider |-> "anthropic", lines |-> <<"start", "delta", "noise", "usage", "finish">>],
      [provider |-> "google",    lines |-> <<"delta", "delta", "finish">>] }

TwoSteps   == <<s1, s2>>
TwoPrompts == <<md1, md2>>
Versions   == {<<1, 0, 0>>, <<1, 1, 0>>, <<1, 1, 1>>}

Part == { "human", "outbox", "protocol", "emitter", "spans", "llm", "blocks", "process", "policy",
          "agent", "config", "rules", "migration" }

ASSUME PartsAssumption == Awake # {} /\ Awake \subseteq Part

VARIABLE active

partsVars == << active, vars, outboxVars, streamVars, spanVars, llmVars, blockVars, procVars,
                policyVars, agentVars, configVars, specVars, migrationVars >>

\* a part that rests has one initial state
Starts(p, rest) == active = p \/ (active # p /\ rest)

PartsInit ==
    /\ active \in Awake
    /\ Starts("human",     node = CHOOSE n \in [Job -> Node] : TRUE)                      /\ Init
    /\ OutboxInit /\ StreamInit /\ SpanInit /\ PolicyInit /\ AgentInit
    /\ SpecInit /\ Starts("rules", lists[1].have = Key)
    /\ Starts("llm",       dialogue = (CHOOSE d \in Dialogue : TRUE) /\ mode = "sync")   /\ LLMInit
    /\ Starts("blocks",    codeSpec = CHOOSE c \in [CodeStep -> CodeSpec] : TRUE)         /\ BlockInit
    /\ Starts("process",   world = CHOOSE w \in World : TRUE)                             /\ ProcInit
    /\ Starts("config",    adapter = "fixed" /\ disk = Nothing)                           /\ ConfigInit
    /\ Starts("migration", /\ policy = "strict"
                           /\ target = [version |-> <<1, 0, 0>>, same_hash |-> TRUE]
                           /\ checkpoint = [version |-> <<1, 0, 0>>, executed |-> Executed,
                                            results |-> Elements(Executed),
                                            context |-> Elements(Executed), index |-> Len(Executed)])
    /\ MigrationInit

Frozen(p) ==
    /\ UNCHANGED active
    /\ IF p = "human"     THEN TRUE ELSE UNCHANGED vars
    /\ IF p = "outbox"    THEN TRUE ELSE UNCHANGED outboxVars
    /\ IF p = "protocol"  THEN TRUE ELSE UNCHANGED protocolVars
    /\ IF p = "emitter"   THEN TRUE ELSE UNCHANGED emitterVars
    /\ IF p = "spans"     THEN TRUE ELSE UNCHANGED spanVars
    /\ IF p = "llm"       THEN TRUE ELSE UNCHANGED llmVars
    /\ IF p = "blocks"    THEN TRUE ELSE UNCHANGED blockVars
    /\ IF p = "process"   THEN TRUE ELSE UNCHANGED procVars
    /\ IF p = "policy"    THEN TRUE ELSE UNCHANGED policyVars
    /\ IF p = "agent"     THEN TRUE ELSE UNCHANGED agentVars
    /\ IF p = "config"    THEN TRUE ELSE UNCHANGED configVars
    /\ IF p = "rules"     THEN TRUE ELSE UNCHANGED specVars
    /\ IF p = "migration" THEN TRUE ELSE UNCHANGED migrationVars

PartsNext ==
    \/ active = "human"     /\ Next          /\ Frozen("human")
    \/ active = "outbox"    /\ OutboxNext    /\ Frozen("outbox")
    \/ active = "protocol"  /\ ProtocolNext  /\ Frozen("protocol")
    \/ active = "emitter"   /\ EmitterNext   /\ Frozen("emitter")
    \/ active = "spans"     /\ SpanNext      /\ Frozen("spans")
    \/ active = "llm"       /\ LLMNext       /\ Frozen("llm")
    \/ active = "blocks"    /\ BlockNext     /\ Frozen("blocks")
    \/ active = "process"   /\ ProcNext      /\ Frozen("process")
    \/ active = "policy"    /\ PolicyNext    /\ Frozen("policy")
    \/ active = "agent"     /\ AgentNext     /\ Frozen("agent")
    \/ active = "config"    /\ ConfigNext    /\ Frozen("config")
    \/ active = "rules"     /\ SpecNext      /\ Frozen("rules")
    \/ active = "migration" /\ MigrationNext /\ Frozen("migration")

PartsSpec ==
    /\ PartsInit /\ [][PartsNext]_partsVars
    /\ \A j \in Job : /\ WF_vars(active = "human" /\ Worker(j))
                      /\ WF_vars(active = "human" /\ Clock(j))
    /\ \A s \in Subscriber : /\ WF_streamVars(active = "protocol" /\ SubLands(s))
                             /\ WF_streamVars(active = "protocol" /\ SubTakes(s))
                             /\ WF_streamVars(active = "protocol" /\ SubTimesOut(s))
    /\ \A s \in Stream : /\ WF_streamVars(active = "emitter" /\ StreamLands(s))
                         /\ WF_streamVars(active = "emitter" /\ StreamTakes(s))

\* Every component keeps to its own state: queues, counters and places.
PartsTypeOK ==
    /\ TypeOK /\ OutboxTypeOK /\ StreamTypeOK /\ SpanTypeOK /\ LLMTypeOK /\ BlockTypeOK
    /\ ProcTypeOK /\ PolicyTypeOK /\ AgentTypeOK /\ ConfigTypeOK /\ SpecTypeOK /\ MigrationTypeOK

\* The callers of the outbox are alike, and so are the notes of one job and the
\* agents; only the runs without liveness use it.
Exchanges == Permutations(Caller) \union Permutations(Client)
             \union UNION {Permutations(alike) : alike \in Asking}
=============================================================================
