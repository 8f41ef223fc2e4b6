---------------------------- MODULE MCParallelRun ----------------------------
\* ParallelRun for TLC: every graph without self-loops, with at most one wait node.
EXTENDS ParallelRun

MCPlans ==
    [edges : SUBSET {e \in Nodes \X Nodes : e[1] # e[2]},
     waits : {{}} \cup {{n} : n \in Nodes}]
=============================================================================
