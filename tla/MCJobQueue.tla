----------------------------- MODULE MCJobQueue -----------------------------
(* Instances of JobQueue for TLC. *)
EXTENDS JobQueue, TLC

CONSTANTS j1, j2, k1, k2, c1, c2

\* The second job has the higher priority.
MCPriority1 == j1 :> 0
MCPriority == j1 :> 0 @@ j2 :> 10
=============================================================================
