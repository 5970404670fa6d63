--------------------------- MODULE MCPleadingTasks ---------------------------
(* Instances of PleadingTasks for TLC.                                      *)
EXTENDS PleadingTasks, TLC

CONSTANTS t1, t2, r1, r2, w1, w2
=============================================================================
