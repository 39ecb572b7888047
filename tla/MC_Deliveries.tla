----------------------------- MODULE MC_Deliveries -----------------------------
(* What is sent out of the process to somebody else's server.  The two models *)
(* share no state, so one scene is played at a time:                          *)
(*   hook    one webhook delivery, two workers, two attempts, one retry       *)
(*   usage   three rows on their way to Elasticsearch, in batches of two      *)
EXTENDS WebhookDelivery, UsageExport, TLC

CONSTANTS w1, w2

VARIABLE scene

MCPriority == delivery :> 0

MCInit == HookInit /\ UsageInit /\ scene \in {"hook", "usage"}

MCNext ==
    /\ \/ scene = "hook" /\ HookNext /\ UNCHANGED usageVars
       \/ scene = "usage" /\ UsageNext /\ UNCHANGED hookVars
    /\ UNCHANGED scene

MCSpec == MCInit /\ [][MCNext]_<<hookVars, usageVars, scene>> /\ HookFairness
==============================================================================
