---------------------------- MODULE MC_EventStream ----------------------------
(* What the browser is told, and the provider breaker whose alert it is told  *)
(* of.  The two models share no state, so one scene is played at a time, and  *)
(* what is not on it owes nothing:                                            *)
(*   stream     two accounts, rings of two events, four events and three more *)
(*              after a restart; it may fall silent                           *)
(*   provider   two callers of one provider, which may never stop             *)
EXTENDS EventStream, ProviderCircuit

VARIABLE scene

MCInit == StreamInit /\ CircuitInit /\ scene \in {"stream", "provider"}

MCVars == <<streamVars, circuitVars, scene>>

MCNext ==
    \/ /\ scene = "stream"
       /\ StreamNext
       /\ seq' + epoch' <= MaxSeq
       /\ UNCHANGED <<circuitVars, scene>>
    \/ scene = "stream" /\ UNCHANGED MCVars
    \/ scene = "provider" /\ CircuitNext /\ UNCHANGED <<streamVars, scene>>

\* StreamFairness and CircuitFairness, each on its scene.
MCFairness ==
    LET Stream == scene = "stream"
        Provider == scene = "provider"
    IN /\ WF_streamVars(Stream /\ Connect)
       /\ WF_streamVars(Stream /\ GeneratorStep)
       /\ WF_streamVars(Stream /\ Receive)
       /\ WF_circuitVars(Provider /\ Clock)
       /\ SF_circuitVars(Provider /\ ReadBreaker)
       /\ SF_circuitVars(Provider /\ AlertPass)
       /\ \A c \in Callers :
             /\ WF_circuitVars(Provider /\ Check(c))
             /\ SF_circuitVars(Provider /\ CheckAgain(c))
             /\ SF_circuitVars(Provider /\ caller[c] = "probing" /\ retry = 0 /\ TryProbe(c))
             /\ SF_circuitVars(Provider /\ Succeed(c))

MCSpec == MCInit /\ [][MCNext]_MCVars /\ MCFairness
==============================================================================
