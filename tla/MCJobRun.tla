------------------------------ MODULE MCJobRun ------------------------------
(* Instances of JobRun for TLC. *)
EXTENDS JobRun, TLC

CONSTANTS a1, a2, c1

ToolTool == << "tool", "tool" >>
ToolWait == << "tool", "wait" >>
OneTool == << "tool" >>

\* Attempts are told apart only by the order of their claims.
AttemptSymmetry == Permutations(Attempts)
=============================================================================
