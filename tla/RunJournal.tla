---------------------------- MODULE RunJournal ----------------------------
(***************************************************************************)
(* What the engine promises about its runs and its checkpoint file,        *)
(* without blocks, conditions, retries, phases, threads or a disk: which   *)
(* step may be executed after which, what a record holds, and what a run   *)
(* that continues from it begins with.  LoopEngine implements it.          *)
(***************************************************************************)
EXTENDS Naturals, Sequences

CONSTANTS
    Step,
    Limit       \* steps of a run, those of the runs it continues included

VARIABLES
    going,      \* a run goes on
    number,     \* its number; a run that continues keeps the recorded one
    done,       \* the steps executed
    saved       \* the record: at most one, none while it is rewritten

journal == <<going, number, done, saved>>

Record == [number |-> number, done |-> done]

Init == going = FALSE /\ number = 0 /\ done = <<>> /\ saved = {}

Begin ==
    /\ ~going
    /\ going' = TRUE /\ number' = number + 1 /\ done' = <<>>
    /\ UNCHANGED saved

\* A run continues with exactly what the record holds.
Continue ==
    /\ ~going
    /\ \E r \in saved : number' = r.number /\ done' = r.done
    /\ going' = TRUE
    /\ UNCHANGED saved

\* A step that is not done yet, while the limit admits one.
Execute(s) ==
    /\ going
    /\ s \notin {done[i] : i \in DOMAIN done} /\ Len(done) < Limit
    /\ done' = Append(done, s)
    /\ UNCHANGED <<going, number, saved>>

\* The record is lost from here until it is written.
Tear ==
    /\ going
    /\ saved' = {}
    /\ UNCHANGED <<going, number, done>>

\* The record is what is done; a run may save last of all.
Save ==
    /\ going
    /\ saved' = {Record} /\ going' \in BOOLEAN
    /\ UNCHANGED <<number, done>>

\* A run returns, raises, or dies with what it had in memory.
End ==
    /\ going
    /\ going' = FALSE /\ done' \in {done, <<>>}
    /\ UNCHANGED <<number, saved>>

Next ==
    \/ Begin \/ Continue \/ Tear \/ Save \/ End
    \/ \E s \in Step : Execute(s)

Spec == Init /\ [][Next]_journal
=============================================================================
