----------------------------- MODULE MCWorkers -----------------------------
(***************************************************************************)
(* Behaviours of DetachedRunner on two sides, since jobs meet only in      *)
(* _events and its limit: one job with everything that may happen to it,   *)
(* or two jobs of one server that nobody else touches.                     *)
(***************************************************************************)
EXTENDS MCDetachedRunner

VARIABLE side

\* bound: what a step does besides
Tried ==
    \/ side = "one job"  /\ pc'[r2] \in {"new", "dead"}
    \/ side = "two jobs" /\ up' \subseteq {p1} /\ reported' = {}

WorkersInit == Init /\ side \in {"one job", "two jobs"}
WorkersNext == Next /\ Tried /\ UNCHANGED side

WorkersSpec == WorkersInit /\ [][WorkersNext]_<<vars, side>> /\ Fairness
=============================================================================
