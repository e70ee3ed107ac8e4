---------------------------- MODULE AgentConfig ----------------------------
(***************************************************************************)
(* The files of an agent application that LoopMaster changes and promises  *)
(* to give back: an adapter (agents/adapter.py, agents/base.py) snapshots  *)
(* a file before it first touches it, writes settings and puts a marked    *)
(* section into the prompt file; a ConfigManager                           *)
(* (agents/config_manager.py) writes through a temporary file and rolls    *)
(* everything back on an error. The user edits the same files.             *)
(***************************************************************************)
EXTENDS Integers, Sequences, FiniteSets

CONSTANTS
    Prompts,    \* the candidates for the prompt file, in the order of their names
    Settings,   \* settings files
    NoFile,
    MaxEdits    \* bound on the user's edits

Prompt == {Prompts[i] : i \in DOMAIN Prompts}
File   == Prompt \union Settings

VARIABLES
    adapter,   \* the adapter's prompt rule: "fixed" or "last"
    disk,      \* disk[f]: NoFile, or whose text it has and whether the section is in it
    snaps,     \* the adapter's _snapshots, NoFile where it has none
    created,   \* its _created_files
    mgrSnaps,  \* the manager's _snapshots, NoFile where it has none
    writing,   \* atomic_write: NoFile, or the file whose rename was made
    edits,     \* number of the user's edits
    before,    \* history: the file when the adapter first touched it
    deleted,   \* history: files the user has deleted
    touched,   \* history: the files the adapter has touched
    restored   \* history: who put the files back in the last step

configVars == <<adapter, disk, snaps, created, mgrSnaps, writing, edits, before, deleted, touched, restored>>

\* text 0 and up is the user's, -1 is LoopMaster's
Text == [text : -1..MaxEdits, section : BOOLEAN]

ASSUME ConfigAssumption ==
    /\ Prompts # <<>> /\ Prompts \in Seq(Prompt)
    /\ Prompt \intersect Settings = {}
    /\ NoFile \notin Text \union File
    /\ MaxEdits \in Nat

ConfigTypeOK ==
    /\ adapter \in {"fixed", "last"}
    /\ disk \in [File -> Text \union {NoFile}]
    /\ snaps \in [File -> Text \union {NoFile}] /\ mgrSnaps \in [File -> Text \union {NoFile}]
    /\ created \subseteq Prompt
    /\ writing \in File \union {NoFile}
    /\ edits \in 0..MaxEdits
    /\ before \in [File -> Text \union {NoFile}]
    /\ touched \subseteq File /\ deleted \subseteq File
    /\ restored \in {"nobody", "adapter", "manager"}

Nothing == [f \in File |-> NoFile]

ConfigInit ==
    /\ adapter \in {"fixed", "last"}
    /\ disk \in [File -> {[text |-> 0, section |-> FALSE], NoFile}]
    /\ snaps = Nothing /\ mgrSnaps = Nothing /\ before = Nothing
    /\ created = {} /\ touched = {} /\ deleted = {} /\ edits = 0
    /\ writing = NoFile /\ restored = "nobody"

---------------------------------------------------------------------------
\* snapshot(path): idempotent per path, and only of a file that exists
Snapshot(f) == snaps' = IF snaps[f] = NoFile THEN [snaps EXCEPT ![f] = disk[f]] ELSE snaps

Touch(f) ==
    /\ touched' = touched \union {f}
    /\ before' = IF f \in touched THEN before ELSE [before EXCEPT ![f] = disk[f]]

\* the custom, Cursor and Claude adapters have one prompt file
FixedPrompt == Prompts[1]

\* OpenCode takes the last *.md of its agents directory
LastPrompt ==
    LET there == {i \in DOMAIN Prompts : disk[Prompts[i]] # NoFile}
    IN IF there = {} THEN Prompts[1] ELSE Prompts[CHOOSE i \in there : \A k \in there : k <= i]

PromptFile == IF adapter = "last" THEN LastPrompt ELSE FixedPrompt

WriteConfig(f) ==
    /\ writing = NoFile
    /\ Snapshot(f) /\ Touch(f)
    /\ disk' = [disk EXCEPT ![f] = [text |-> -1, section |-> FALSE]]
    /\ restored' = "nobody"
    /\ UNCHANGED <<adapter, created, mgrSnaps, writing, edits, deleted>>

\* PromptManager.inject: the section is replaced if it is there, appended otherwise
Injected(c) == IF c = NoFile THEN [text |-> -1, section |-> TRUE] ELSE [c EXCEPT !.section = TRUE]

inject_loop_context ==
    /\ writing = NoFile
    /\ LET f == PromptFile
       IN /\ Snapshot(f) /\ Touch(f)
          /\ disk' = [disk EXCEPT ![f] = Injected(@)]
          /\ created' = IF disk[f] = NoFile THEN created \union {f} ELSE created
    /\ restored' = "nobody"
    /\ UNCHANGED <<adapter, mgrSnaps, writing, edits, deleted>>

\* Mutant: what was created is removed before the snapshots are written.
UnlinkThenWrite(f) == IF snaps[f] # NoFile THEN snaps[f] ELSE IF f \in created THEN NoFile ELSE disk[f]

\* the snapshots are written, then what was created is removed; neither is forgotten
Original(f) == IF f \in created THEN NoFile ELSE IF snaps[f] # NoFile THEN snaps[f] ELSE disk[f]

restore_original ==
    /\ writing = NoFile
    /\ disk' = [f \in File |-> Original(f)]
    /\ restored' = "adapter"
    /\ UNCHANGED <<adapter, snaps, created, mgrSnaps, writing, edits, before, deleted, touched>>

---------------------------------------------------------------------------
\* config_files of the OpenCode adapter are its settings files
snapshot_all ==
    /\ writing = NoFile
    /\ mgrSnaps' = [f \in File |-> IF f \in Settings THEN disk[f] ELSE NoFile]
    /\ restored' = "nobody"
    /\ UNCHANGED <<adapter, disk, snaps, created, writing, edits, before, deleted, touched>>

RolledBack(d) == [f \in File |-> IF mgrSnaps[f] = NoFile THEN d[f] ELSE mgrSnaps[f]]

\* atomic_write up to the rename, which may fail
AtomicWrite(f) ==
    /\ writing = NoFile
    /\ \/ writing' = f /\ restored' = "nobody"
          /\ disk' = [disk EXCEPT ![f] = [text |-> -1, section |-> FALSE]]
       \/ writing' = NoFile /\ restored' = "manager"
          /\ disk' = RolledBack(disk)
    /\ UNCHANGED <<adapter, snaps, created, mgrSnaps, edits, before, deleted, touched>>

\* ... and the verification: what is read must be what was written
VerifyWrite ==
    /\ writing # NoFile
    /\ IF disk[writing] = [text |-> -1, section |-> FALSE]
       THEN UNCHANGED disk /\ restored' = "nobody"
       ELSE disk' = RolledBack(disk) /\ restored' = "manager"
    /\ writing' = NoFile
    /\ UNCHANGED <<adapter, snaps, created, mgrSnaps, edits, before, deleted, touched>>

\* the user saves a file, or deletes it, even between a write and its verification
UserEdits(f) ==
    /\ edits < MaxEdits
    /\ edits' = edits + 1
    /\ \/ disk' = [disk EXCEPT ![f] = [text |-> edits + 1, section |-> FALSE]]
          /\ UNCHANGED deleted
       \/ disk' = [disk EXCEPT ![f] = NoFile] /\ deleted' = deleted \union {f}
    /\ restored' = "nobody"
    /\ UNCHANGED <<adapter, snaps, created, mgrSnaps, writing, before, touched>>

ConfigNext ==
    \/ \E f \in Settings : WriteConfig(f) \/ AtomicWrite(f)
    \/ \E f \in File : UserEdits(f)
    \/ inject_loop_context \/ restore_original \/ snapshot_all \/ VerifyWrite

ConfigSpec == ConfigInit /\ [][ConfigNext]_configVars

---------------------------------------------------------------------------
\* However often the adapter wrote settings and injected its section, and whatever
\* the user and the manager did in between, restoring gives every file back as
\* it was when the adapter first touched it, and removes the prompt file it
\* created; only a settings file that was new stays (base.py:44-50), and a file
\* the user deleted meanwhile is another matter.
RestoreExact ==
    restored = "adapter" =>
        \A f \in touched \ deleted : f \in Prompt \/ before[f] # NoFile => disk[f] = before[f]
=============================================================================
