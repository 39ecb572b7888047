---------------------------- MODULE MC_WorkerLoop ----------------------------
(* Two rows of different priority for two workers. *)
EXTENDS WorkerLoop, TLC

CONSTANTS i1, i2, w1, w2

MCPriority == (i1 :> 0) @@ (i2 :> 50)
==============================================================================
