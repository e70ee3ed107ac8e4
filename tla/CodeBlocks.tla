----------------------------- MODULE CodeBlocks -----------------------------
(***************************************************************************)
(* Code blocks: the code_blocks table (mcp/code_store.py), the check of a  *)
(* spec's references when it is saved or run (hooks_builtin.py,            *)
(* mcp/tools_blocks.py), and the execution of a code step                  *)
(* (executors/code_block.py) up to the moment its script is read.          *)
(*                                                                         *)
(* A source stands for its own sha256 too.  A block may be deleted and its *)
(* version registered again between the check and the execution, the       *)
(* stored source may be edited behind the store's back, and two executions *)
(* share the extraction cache, one file per sha256 of a source.            *)
(***************************************************************************)
EXTENDS FiniteSets

CONSTANTS
    Ref,         \* name@version
    Source,      \* source texts
    Capability,  \* net, fs:read:..., fs:write:...
    CodeStep,    \* code steps of the loops that are submitted
    NoBlock, NoSource

ASSUME BlockAssumption == NoSource \notin Source

\* a row: its source, its sha256 column, and its capabilities
Block == [source : Source, sha256 : Source, capabilities : SUBSET Capability]

ASSUME NoBlockAssumption == NoBlock \notin Block

VARIABLES
    codeSpec,  \* codeSpec[s]: the ref, the pin and the spec's deny_capabilities
    block,     \* block[f]: the row of the table
    cache,     \* cache[c]: the file in the cache directory of sha256 c
    exec,      \* exec[s]: where step s is
    loaded,    \* loaded[s]: the block its executor read
    ran,       \* ran[s]: what the subprocess found in the file
    edited     \* history: refs whose stored source was edited in the table

blockVars == <<codeSpec, block, cache, exec, loaded, ran, edited>>

CodeSpec == [ref : Ref, sha256 : Source \union {NoSource}, deny : SUBSET Capability]

\* missing, cut off to nothing, the source itself, or anything else
Content == {"missing", "empty", "source", "foreign"}

BlockTypeOK ==
    /\ codeSpec \in [CodeStep -> CodeSpec]
    /\ block    \in [Ref -> Block \union {NoBlock}]
    /\ cache    \in [Source -> Content]
    /\ exec     \in [CodeStep -> {"submitted", "refused", "admitted", "failed",
                                  "extract", "truncate", "fill", "spawn", "ran"}]
    /\ loaded   \in [CodeStep -> Block \union {NoBlock}]
    /\ ran      \in [CodeStep -> Content \union {"nothing"}]
    /\ edited   \subseteq Ref

BlockInit ==
    /\ codeSpec \in [CodeStep -> CodeSpec]
    /\ block  = [f \in Ref |-> NoBlock]
    /\ cache  = [c \in Source |-> "missing"]
    /\ exec   = [s \in CodeStep |-> "submitted"]
    /\ loaded = [s \in CodeStep |-> NoBlock]
    /\ ran    = [s \in CodeStep |-> "nothing"]
    /\ edited = {}

Move(s, place) == exec' = [exec EXCEPT ![s] = place]

---------------------------------------------------------------------------
\* save_code_block: (name, version) is unique, a second one is a ValueError
SaveCodeBlock(f) ==
    /\ block[f] = NoBlock
    /\ \E b \in Block : b.sha256 = b.source /\ block' = [block EXCEPT ![f] = b]
    /\ UNCHANGED <<codeSpec, cache, exec, loaded, ran, edited>>

DeleteCodeBlock(f) ==
    /\ block[f] # NoBlock
    /\ block' = [block EXCEPT ![f] = NoBlock]
    /\ UNCHANGED <<codeSpec, cache, exec, loaded, ran, edited>>

\* external: the source column is edited, the sha256 column is not (the case
\* verify_code_block looks for; nothing calls it before a run)
EditSource(f, src) ==
    /\ block[f] # NoBlock
    /\ block'  = [block EXCEPT ![f].source = src]
    /\ edited' = edited \union {f}
    /\ UNCHANGED <<codeSpec, cache, exec, loaded, ran>>

\* Mutant: the pin is not compared.
DenyOnly(b, s) == b # NoBlock /\ b.capabilities \intersect codeSpec[s].deny = {}

\* _load_block and _check_capabilities, and h_verify_blocks likewise: the pin is
\* compared with the column, the source is not hashed
Acceptable(b, s) ==
    /\ b # NoBlock
    /\ codeSpec[s].sha256 \in {NoSource, b.sha256}
    /\ b.capabilities \intersect codeSpec[s].deny = {}

\* BEFORE_LOOP_SAVE or BEFORE_LOOP_RUN.  A store error inside h_verify_blocks
\* is no HookVeto: trigger logs it and goes on.  validate_code_refs, the other
\* check, hands the list of steps to _iter_code_nodes, which takes objects
\* only, and so looks at no step.
VerifyBlocks(s) ==
    /\ exec[s] = "submitted"
    /\ \/ Acceptable(block[codeSpec[s].ref], s)  /\ Move(s, "admitted")
       \/ ~Acceptable(block[codeSpec[s].ref], s) /\ Move(s, "refused")
       \/ Move(s, "admitted")                          \* the hook failed
    /\ UNCHANGED <<codeSpec, block, cache, loaded, ran, edited>>

\* CodeBlockExecutor.execute: read the block again, and check it again
LoadBlock(s) ==
    /\ exec[s] = "admitted"
    /\ LET b == block[codeSpec[s].ref] IN
        \/ /\ Acceptable(b, s)
           /\ loaded' = [loaded EXCEPT ![s] = b]
           /\ Move(s, "extract")
        \/ ~Acceptable(b, s) /\ Move(s, "failed") /\ UNCHANGED loaded
        \/ Move(s, "failed") /\ UNCHANGED loaded       \* store error
    /\ UNCHANGED <<codeSpec, block, cache, ran, edited>>

\* Mutant: a file that is there is taken for the source.
ReuseAnyFile(c) == c # "missing"

\* _extract reuses a file that has the sha256 of the loaded source
Reusable(c) == c = "source"

Extract(s) ==
    /\ exec[s] = "extract"
    /\ Move(s, IF Reusable(cache[loaded[s].source]) THEN "spawn" ELSE "truncate")
    /\ UNCHANGED <<codeSpec, block, cache, loaded, ran, edited>>

\* write_text opens the file, which cuts it off, and writes it
Truncate(s) ==
    /\ exec[s] = "truncate"
    /\ cache' = [cache EXCEPT ![loaded[s].source] = "empty"]
    /\ Move(s, "fill")
    /\ UNCHANGED <<codeSpec, block, loaded, ran, edited>>

Fill(s) ==
    /\ exec[s] = "fill"
    /\ cache' = [cache EXCEPT ![loaded[s].source] = "source"]
    /\ Move(s, "spawn")
    /\ UNCHANGED <<codeSpec, block, loaded, ran, edited>>

\* Popen: the interpreter reads the file
Spawn(s) ==
    /\ exec[s] = "spawn"
    /\ ran' = [ran EXCEPT ![s] = cache[loaded[s].source]]
    /\ Move(s, "ran")
    /\ UNCHANGED <<codeSpec, block, cache, loaded, edited>>

\* external: the temporary directory is cleaned or edited, not however between
\* a digest check and the start of its script
CacheTouched(c) ==
    /\ \A s \in CodeStep : exec[s] \in {"truncate", "fill", "spawn"} => loaded[s].source # c
    /\ cache[c] = "source"
    /\ cache' \in {[cache EXCEPT ![c] = x] : x \in {"missing", "foreign"}}
    /\ UNCHANGED <<codeSpec, block, exec, loaded, ran, edited>>

BlockNext ==
    \/ \E f \in Ref : \/ SaveCodeBlock(f) \/ DeleteCodeBlock(f)
                    \/ \E src \in Source : EditSource(f, src)
    \/ \E s \in CodeStep :
          VerifyBlocks(s) \/ LoadBlock(s) \/ Extract(s) \/ Truncate(s) \/ Fill(s) \/ Spawn(s)
    \/ \E c \in Source : CacheTouched(c)

BlockSpec == BlockInit /\ [][BlockNext]_blockVars

---------------------------------------------------------------------------
\* No execution runs anything but the source of a row whose sha256 column is the
\* pin and whose capabilities the spec allows - or nothing of it - and this is the
\* pinned source unless the row was edited in the table: although the version may be
\* deleted and registered anew between the checks, the hook may fail open, and the
\* cache may hold another file.
OnlyPinnedCode ==
    \A s \in CodeStep : ran[s] \in {"source", "foreign"} =>
        /\ ran[s] = "source"
        /\ codeSpec[s].sha256 \in {NoSource, loaded[s].sha256}
        /\ codeSpec[s].ref \notin edited => loaded[s].sha256 = loaded[s].source
        /\ loaded[s].capabilities \intersect codeSpec[s].deny = {}

\* BLOCKS.md: the sha256 "fails fast at run time if the stored source no longer
\* matches".  (It does not: only the columns are compared.)
PinStopsEdits ==
    \A s \in CodeStep : ran[s] = "source" => codeSpec[s].sha256 \in {NoSource, loaded[s].source}
=============================================================================
