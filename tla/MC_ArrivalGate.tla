---------------------------- MODULE MC_ArrivalGate ---------------------------
(* A small mailbox, in one of two scenes:                                    *)
(*   twins   two rows of one mail, in two folders or one after the other     *)
(*           after a resync; the later one stays in the inbox                *)
(*   bare    one mail and, newer than it, two rows of another one without a  *)
(*           Message-ID, in one folder; nothing ages and no attempt fails    *)
EXTENDS ArrivalGate

MCKey == <<"k1", "k1", "k2", "k2">>

VARIABLE scene

MCInit == GateInit /\ scene \in {"twins", "bare"}

Unborn(rows) == \A m \in rows : at'[m] = "unborn"

Twins == Unborn({3, 4}) /\ at'[2] # "sent"

Bare ==
    /\ Unborn({1})
    /\ aged' = {}
    /\ \A f \in Folders \ InScope : lastSync'[f] = None
    /\ \A m \in Rows : at'[m] \in {"unborn", "gone"} \cup InScope
    /\ \A k \in Keys : emb'[k].status = "pending" => emb'[k].tries = 0

MCNext ==
    /\ GateNext
    /\ scene = "twins" => Twins
    /\ scene = "bare" => Bare
    /\ UNCHANGED scene

MCSpec == MCInit /\ [][MCNext]_<<gateVars, scene>> /\ GateFairness
==============================================================================
