-------------------------- MODULE MCDetachedRunner --------------------------
(* Small instances of DetachedRunner for TLC. *)
EXTENDS DetachedRunner, TLC

CONSTANTS p1, p2, j1, j2, r1, r2, s1, s2, stray

\* ids generated by submit: every submission is a job of its own
FreshIds == r1 :> j1 @@ r2 :> j2

OneServer == [r \in Run |-> p1]
=============================================================================
