--------------------------- MODULE MCPipelineLock ---------------------------
(* Instances of PipelineLock for TLC. *)
EXTENDS PipelineLock

CONSTANTS loop, hourly, t1, t2
=============================================================================
