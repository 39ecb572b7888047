---------------------------- MODULE MC_QueueManager ---------------------------
(* Two queues that share two connections. *)
EXTENDS QueueManager

MCOrder == <<"embedding", "pipeline">>
==============================================================================
