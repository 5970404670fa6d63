--------------------------- MODULE MCEventStream ---------------------------
(* One tab, the jobs that write its tasks and the calls that it makes.      *)
EXTENDS EventStream

CONSTANTS w1, r1
=============================================================================
