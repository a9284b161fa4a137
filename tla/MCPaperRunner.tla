---------------------------- MODULE MCPaperRunner ----------------------------
(* A frequent portfolio and a slow one, and cycles as long as two ticks.   *)
EXTENDS PaperRunner

MCInterval == [p \in Ids |-> IF p = 1 THEN 1 ELSE 3]
==============================================================================
