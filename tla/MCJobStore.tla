---------------------------- MODULE MCJobStore ----------------------------
(* Small instances of JobStore for TLC. *)
EXTENDS JobStore, TLC

CONSTANTS p1, p2, p3, t1, t2, t3

\* one thread in each of two processes
TwoServers == t1 :> p1 @@ t2 :> p2
\* one thread in each of three processes
ThreeServers == t1 :> p1 @@ t2 :> p2 @@ t3 :> p3
\* two threads of one process
OneServer == t1 :> p1 @@ t2 :> p1
=============================================================================
