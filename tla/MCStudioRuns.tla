---------------------------- MODULE MCStudioRuns ----------------------------
EXTENDS StudioRuns, TLC
CONSTANTS t1, t2, t3, r1, r2, j1, j2
Symmetric == Permutations(Tasks) \cup Permutations(Requests) \cup Permutations(Jobs)
=============================================================================
