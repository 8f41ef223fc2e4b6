---------------------------- MODULE MCDurabilitySdk ----------------------------
\* DurabilitySdk for TLC: the callers of Execute are interchangeable.
EXTENDS DurabilitySdk, TLC

Symmetry == Permutations(Executors)
=============================================================================
