--------------------------- MODULE MCDraftPipeline ---------------------------
EXTENDS DraftPipeline, TLC
CONSTANTS t1, t2, t3, t4, r1, r2, j1, j2, d1, d2
TwoDrafts == [t \in Tasks |-> IF t = t1 THEN d1 ELSE d2]
OneDraft == [t \in Tasks |-> d1]
Symmetric == Permutations(Tasks) \cup Permutations(Requests) \cup Permutations(Jobs)
=============================================================================
