--------------------------- MODULE MCJobLifecycle ---------------------------
(* JobLifecycle for TLC. *)
EXTENDS JobLifecycle
=============================================================================
