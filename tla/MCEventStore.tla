---------------------------- MODULE MCEventStore ----------------------------
(* Instances of EventStore for TLC. *)
EXTENDS EventStore, TLC

CONSTANTS j1, a1, a2, a3, w1, w2, api, progress, job_completed

MCWorkerOf == a1 :> w1 @@ a2 :> w2 @@ a3 :> w1
=============================================================================
