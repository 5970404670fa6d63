--------------------------- MODULE MCFieldPipeline ---------------------------
(* Every template of four fields in which only extractors query others. *)
EXTENDS FieldPipeline

Answered == {TRUE}
Extractors == {"draft"}
=============================================================================
