--------------------------- MODULE MCLoopEngine ---------------------------
(* Small instances of LoopEngine for TLC. *)
EXTENDS LoopEngine, TLC

CONSTANTS a, b, c, d, e, f, g, P, C

\* a conditional whose branches begin with a step, with a parallel block in one
DeepThen == C :> <<a, P>> @@ P :> <<b, c>>
DeepElse == C :> <<d, e, f, g>>
DeepBody == <<C>>

\* a conditional whose then branch is a parallel pair
NestedThen == P :> <<a, b>> @@ C :> <<P>>
NestedElse == C :> <<d>>
NestedBody == <<C>>
=============================================================================
