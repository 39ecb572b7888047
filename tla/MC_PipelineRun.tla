---------------------------- MODULE MC_PipelineRun ---------------------------
(* One mail, two workers, two attempts. *)
EXTENDS PipelineRun, TLC

CONSTANTS w1, w2

MCPriority == run :> 0
==============================================================================
