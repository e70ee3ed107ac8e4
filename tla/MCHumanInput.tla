--------------------------- MODULE MCHumanInput ---------------------------
(* Small instances of HumanInput for TLC. *)
EXTENDS HumanInput
=============================================================================
