---------------------------- MODULE WorkersProofs ----------------------------
(***************************************************************************)
(* Proofs about who works: the worker loop and the queue manager.          *)
(* The loop, for every table, every set of workers and every bound: it     *)
(* only ever calls the engine, so the engine's invariant holds of it too;  *)
(* what a worker carries beside the table is tied to it by LoopInv.        *)
(* The manager, for any queues, any budget and any overlapping requests.   *)
(* What is committed is a sum over the queues, so the facts about sums it  *)
(* needs come first; induction is stated over a set of numbers there, the  *)
(* form in which a proof can use it.                                       *)
(***************************************************************************)
EXTENDS WorkerLoop, WorkQueueProofs, QueueManager, FiniteSetTheorems, WellFoundedInduction

\* A worker's task is over, or was never begun, with nothing in hand, and the
\* row under its heartbeat is not also one it has yet to hand over.
HandsAreTidy ==
    \A w \in Workers :
        /\ ~Alive(w) => InHand(w) = {}
        /\ cur[w] \notin todo[w]

\* Why a prompt worker never loses the one row of its batch: it is the only row
\* in its hand, and its lease runs.
LeaseRunsInHand ==
    \A w \in Prompt : single[w] =>
        /\ lost[w] = {}
        /\ \A i, j \in InHand(w) : i = j
        /\ \A i \in InHand(w) \cap Owned(w) : lease[i] # Expired

LoopInv ==
    /\ IInv
    /\ LoopTypeOK
    /\ HandsAreTidy
    /\ HandMatchesTable
    /\ CleanExitHoldsNothing
    /\ LeaseRunsInHand

------------------------------------------------------------------------------
\* What each call of the engine does to what every worker owns.

LEMMA OwnedAfterClaim ==
    ASSUME TypeOK, NEW w \in Workers, NEW C \in SUBSET Items, ClaimBatch(w, C),
           NEW v \in Workers
    PROVE  /\ C \cap Owned(v) = {}
           /\ Owned(v)' = IF v = w THEN Owned(v) \cup C ELSE Owned(v)
    BY DEF TypeOK, ClaimBatch, Batch, Claimable, Owned

LEMMA OwnedAfterUnclaim ==
    ASSUME TypeOK, NEW H \in SUBSET Items, NEW s \in {"pending"} \cup Terminal,
           Unclaim(H, s), NEW v \in Workers
    PROVE  Owned(v)' = Owned(v) \ H
    BY DEF TypeOK, Unclaim, Owned, Terminal

LEMMA OwnedAfterLeave ==
    ASSUME TypeOK, NEW w \in Workers, NEW i \in Items, NEW v \in Workers,
           LeaveRow(w, i) \/ ReleaseUntouched(w, i)
    PROVE  /\ i \in Owned(w)
           /\ Owned(v)' = Owned(v) \ {i}
           /\ \A j \in Items \ {i} : lease'[j] = lease[j]
<1>1. PICK s \in {"pending"} \cup Terminal : i \in Owned(w) /\ Unclaim({i}, s)
    BY DEF LeaveRow, Complete, Fail, Retry, ReleaseUntouched, Terminal
<1>2. Owned(v)' = Owned(v) \ {i}
    BY <1>1, OwnedAfterUnclaim
<1>3. \A j \in Items \ {i} : lease'[j] = lease[j]
    BY <1>1 DEF Unclaim
<1> QED BY <1>1, <1>2, <1>3

\* A row has one owner.
LEMMA OneOwner ==
    ASSUME NEW v \in Workers, NEW w \in Workers, v # w
    PROVE  Owned(v) \cap Owned(w) = {}
    BY DEF Owned

------------------------------------------------------------------------------
\* Each step of the loop is a call of the engine, or leaves the table alone.
LEMMA LoopCallsEngine == [LoopNext]_vars => [Next]_queueVars
<1> SUFFICES ASSUME [LoopNext]_vars PROVE [Next]_queueVars
    OBVIOUS
<1>1. ASSUME NEW w \in Workers,
             Spawn(w) \/ RequestStop(w) \/ HandOver(w) \/ Exit(w) \/ Die(w)
      PROVE  UNCHANGED queueVars
    BY <1>1 DEF Spawn, RequestStop, HandOver, Exit, Die
<1>2. ASSUME NEW w \in Workers, LoopClaim(w) PROVE Next
    BY <1>2 DEF LoopClaim, Next, CallerStep
<1>3. ASSUME NEW w \in Workers, GiveBackRest(w) PROVE [Next]_queueVars
    <2>1. PICK i : IF i \in Owned(w) THEN ReleaseUntouched(w, i) ELSE UNCHANGED queueVars
        BY <1>3 DEF GiveBackRest
    <2> QED BY <2>1 DEF Owned, Next, CallerStep
<1>4. ASSUME NEW w \in Workers, FinishItem(w) PROVE [Next]_queueVars
    <2>1. CASE cur[w] \in Owned(w)
        <3>1. cur[w] \in Items /\ LeaveRow(w, cur[w])
            BY <1>4, <2>1 DEF FinishItem, Owned
        <3> QED BY <3>1 DEF LeaveRow, Next, CallerStep
    <2>2. CASE cur[w] \notin Owned(w)
        BY <1>4, <2>2 DEF FinishItem
    <2> QED BY <2>1, <2>2
<1>5. ASSUME NEW w \in Workers, Beat(w) PROVE Next
    <2>1. {cur[w]} \in SUBSET Items /\ Heartbeat(w, {cur[w]})
        BY <1>5 DEF Beat, Owned
    <2> QED BY <2>1 DEF Next, CallerStep
<1>6. CASE Reclaim
    BY <1>6 DEF Reclaim, Next
<1>7. CASE Time
    BY <1>7 DEF Time, Next
<1>8. CASE UNCHANGED vars
    BY <1>8 DEF vars
<1> QED BY <1>1, <1>2, <1>3, <1>4, <1>5, <1>6, <1>7, <1>8 DEF LoopNext, WorkerStep

\* The loop is a caller of the engine: every theorem about Spec holds of it.
THEOREM LoopIsCaller == LoopSpec => Spec
<1>1. LoopInit => Init
    BY DEF LoopInit
<1> QED BY <1>1, LoopCallsEngine, PTL DEF LoopSpec, Spec

\* No worker runs at first.
LEMMA LoopInitInv == LoopInit => LoopInv
<1> SUFFICES ASSUME LoopInit PROVE LoopInv
    OBVIOUS
<1>1. IInv
    BY InitIInv DEF LoopInit
<1>2. LoopTypeOK
    BY <1>1 DEF IInv, LoopInit, LoopTypeOK, Phases
<1>3. \A w \in Workers : InHand(w) = {} /\ Owned(w) = {} /\ lost[w] = {} /\ ~Alive(w)
    BY DEF LoopInit, Init, InHand, Owned, Alive
<1>4. HandsAreTidy
    BY <1>3 DEF HandsAreTidy, LoopInit
<1>5. HandMatchesTable /\ CleanExitHoldsNothing
    BY <1>3 DEF HandMatchesTable, CleanExitHoldsNothing
<1>6. LeaseRunsInHand
    BY <1>3, LoopAssumption DEF LeaseRunsInHand
<1> QED BY <1>1, <1>2, <1>4, <1>5, <1>6 DEF LoopInv

------------------------------------------------------------------------------
\* What a step keeps beside the engine's own invariant.
HandInv ==
    /\ HandsAreTidy
    /\ HandMatchesTable
    /\ CleanExitHoldsNothing
    /\ LeaseRunsInHand

\* The variables of the loop keep their types in every step.
LEMMA LoopStepTypes ==
    ASSUME LoopInv, LoopNext, TypeOK'
    PROVE  LoopTypeOK'
<1> USE DEF LoopInv, LoopTypeOK
<1>1. ASSUME NEW w \in Workers, Spawn(w) \/ RequestStop(w) \/ Exit(w) \/ Die(w)
      PROVE  LoopTypeOK'
    BY <1>1 DEF Spawn, RequestStop, Exit, Die, Phases
<1>2. ASSUME NEW w \in Workers, LoopClaim(w) PROVE LoopTypeOK'
    BY <1>2 DEF LoopClaim
<1>3. ASSUME NEW w \in Workers, HandOver(w) PROVE LoopTypeOK'
    BY <1>3 DEF HandOver
<1>4. ASSUME NEW w \in Workers, GiveBackRest(w) PROVE LoopTypeOK'
    BY <1>4 DEF GiveBackRest
<1>5. ASSUME NEW w \in Workers, FinishItem(w) PROVE LoopTypeOK'
    BY <1>5 DEF FinishItem
<1>6. ASSUME NEW w \in Workers, Beat(w) PROVE LoopTypeOK'
    BY <1>6 DEF Beat, loopVars
<1>7. CASE Reclaim
    BY <1>7 DEF Reclaim, Owned
<1>8. CASE Time
    BY <1>8 DEF Time, loopVars
<1> QED BY <1>1, <1>2, <1>3, <1>4, <1>5, <1>6, <1>7, <1>8 DEF LoopNext, WorkerStep

\* A worker is spawned under an id no row names, so it owns nothing yet; a stop
\* request, a clean exit and a death leave the table alone.
LEMMA LifeKeepsHands ==
    ASSUME LoopInv, NEW w \in Workers,
           Spawn(w) \/ RequestStop(w) \/ Exit(w) \/ Die(w)
    PROVE  HandInv'
<1> USE DEF LoopInv, LoopTypeOK
<1>1. \A v \in Workers : Owned(v)' = Owned(v)
    BY DEF Spawn, RequestStop, Exit, Die, queueVars, Owned
<1>2. \A v \in Workers \ {w} :
         UNCHANGED <<phase[v], todo[v], cur[v], lost[v], single[v]>>
    BY DEF Spawn, RequestStop, Exit, Die
<1>3. UNCHANGED <<single, lease>>
    BY DEF Spawn, RequestStop, Exit, Die, queueVars
<1>4. CASE Spawn(w)
    <2>1. Owned(w) = {} /\ InHand(w) = {} /\ lost[w] = {}
        BY <1>4 DEF Spawn, Owned, HandsAreTidy, HandMatchesTable
    <2>2. phase'[w] = "running" /\ UNCHANGED <<todo, cur, lost>>
        BY <1>4 DEF Spawn
    <2> QED BY <1>1, <1>2, <1>3, <2>1, <2>2, LoopAssumption
            DEF HandInv, HandsAreTidy, HandMatchesTable, CleanExitHoldsNothing,
                LeaseRunsInHand, Alive, InHand
<1>5. CASE RequestStop(w)
    BY <1>1, <1>2, <1>3, <1>5, LoopAssumption
       DEF RequestStop, HandInv, HandsAreTidy, HandMatchesTable, CleanExitHoldsNothing,
           LeaseRunsInHand, Alive, InHand
<1>6. CASE Exit(w)
    <2>1. Alive(w) /\ InHand(w) = {} /\ Owned(w) = {}
        BY <1>6 DEF Exit, Alive, HandMatchesTable
    <2> QED BY <1>1, <1>2, <1>3, <1>6, <2>1, LoopAssumption
            DEF Exit, HandInv, HandsAreTidy, HandMatchesTable, CleanExitHoldsNothing,
                LeaseRunsInHand, Alive, InHand
<1>7. CASE Die(w)
    <2>1. /\ phase'[w] = "dead" /\ todo'[w] = {} /\ cur'[w] = NoItem /\ lost'[w] = {}
        BY <1>7 DEF Die
    <2> QED BY <1>1, <1>2, <1>3, <2>1, LoopAssumption
            DEF HandInv, HandsAreTidy, HandMatchesTable, CleanExitHoldsNothing,
                LeaseRunsInHand, Alive, InHand
<1> QED BY <1>4, <1>5, <1>6, <1>7

\* The loop claims with an empty hand, and gets the lease of every row it claims.
LEMMA ClaimKeepsHands ==
    ASSUME LoopInv, NEW w \in Workers, LoopClaim(w)
    PROVE  HandInv'
<1> USE DEF LoopInv, LoopTypeOK
<1>1. PICK C \in SUBSET Items : /\ ClaimBatch(w, C)
                                /\ todo' = [todo EXCEPT ![w] = C]
                                /\ single' = [single EXCEPT ![w] = Cardinality(C) = 1]
    BY DEF LoopClaim
<1>2. /\ phase[w] = "running" /\ InHand(w) = {} /\ lost[w] = {}
      /\ UNCHANGED <<phase, cur, lost>>
    BY DEF LoopClaim, HandMatchesTable
<1>3. cur[w] = NoItem /\ Owned(w) = {}
    BY <1>2 DEF InHand, HandMatchesTable, Alive
<1>4. \A v \in Workers : Owned(v)' = IF v = w THEN C ELSE Owned(v)
    BY <1>1, <1>3, OwnedAfterClaim
<1>5. \A v \in Workers : InHand(v)' = IF v = w THEN C ELSE InHand(v)
    BY <1>1, <1>2, <1>3 DEF InHand
<1>6. HandsAreTidy' /\ HandMatchesTable' /\ CleanExitHoldsNothing'
    BY <1>1, <1>2, <1>3, <1>4, <1>5, LoopAssumption
       DEF HandsAreTidy, HandMatchesTable, CleanExitHoldsNothing, Alive
<1>7. LeaseRunsInHand'
    <2> SUFFICES ASSUME NEW v \in Prompt, single'[v]
                 PROVE  /\ lost'[v] = {}
                        /\ \A i, j \in InHand(v)' : i = j
                        /\ \A i \in InHand(v)' \cap Owned(v)' : lease'[i] # Expired
        BY DEF LeaseRunsInHand
    <2> v \in Workers
        BY LoopAssumption
    <2>1. CASE v = w
        <3>1. Cardinality(C) = 1 /\ IsFiniteSet(C)
            BY <1>1, <2>1, LoopAssumption, FS_Subset
        <3>2. \A i, j \in C : i = j
            BY <3>1, FS_Singleton
        <3>3. \A i \in C : lease'[i] # Expired
            BY <1>1, WorkQueueAssumption DEF ClaimBatch, Expired
        <3> QED BY <1>2, <1>5, <2>1, <3>2, <3>3
    <2>2. CASE v # w
        <3>1. single[v] /\ InHand(v)' = InHand(v) /\ Owned(v)' = Owned(v)
            BY <1>1, <1>4, <1>5, <2>2
        <3>2. \A i \in Owned(v) : i \notin C
            BY <1>1, OwnedAfterClaim
        <3>3. \A i \in Owned(v) : lease'[i] = lease[i]
            BY <1>1, <3>2 DEF ClaimBatch, Owned
        <3> QED BY <1>2, <3>1, <3>3 DEF LeaseRunsInHand
    <2> QED BY <2>1, <2>2
<1> QED BY <1>6, <1>7 DEF HandInv


\* Handing a row over moves it within the hand.
LEMMA HandOverKeepsHands ==
    ASSUME LoopInv, NEW w \in Workers, HandOver(w)
    PROVE  HandInv'
<1> USE DEF LoopInv, LoopTypeOK
<1>1. PICK i \in todo[w] : /\ cur' = [cur EXCEPT ![w] = i]
                           /\ todo' = [todo EXCEPT ![w] = @ \ {i}]
    BY DEF HandOver
<1>2. /\ cur[w] = NoItem
      /\ UNCHANGED <<queueVars, phase, lost, single>>
    BY DEF HandOver
<1>3. \A v \in Workers : Owned(v)' = Owned(v)
    BY <1>2 DEF queueVars, Owned
<1>4. \A v \in Workers : InHand(v)' = InHand(v)
    BY <1>1, <1>2, LoopAssumption DEF InHand
<1>5. HandsAreTidy'
    BY <1>1, <1>2, <1>4 DEF HandsAreTidy, Alive
<1>6. HandMatchesTable' /\ CleanExitHoldsNothing'
    BY <1>2, <1>3, <1>4 DEF HandMatchesTable, CleanExitHoldsNothing, Alive
<1>7. LeaseRunsInHand'
    BY <1>2, <1>3, <1>4, LoopAssumption DEF LeaseRunsInHand, queueVars
<1> QED BY <1>5, <1>6, <1>7 DEF HandInv

\* A row that leaves the hand of w leaves what w owns as well: either by the
\* call that drops it, or because w had lost it before.
LEMMA DropKeepsHands ==
    ASSUME LoopInv, NEW w \in Workers, NEW i \in InHand(w),
           IF i \in Owned(w) THEN LeaveRow(w, i) \/ ReleaseUntouched(w, i)
                             ELSE UNCHANGED queueVars,
           \A v \in Workers : InHand(v)' = IF v = w THEN InHand(v) \ {i} ELSE InHand(v),
           lost' = [lost EXCEPT ![w] = @ \ {i}],
           UNCHANGED <<phase, single>>,
           \A v \in Workers : cur'[v] \notin todo'[v]
    PROVE  HandInv'
<1> USE DEF LoopInv, LoopTypeOK
<1>1. Alive(w) /\ i \in Items
    BY DEF HandsAreTidy, InHand
<1>2. \A v \in Workers : Owned(v)' = IF v = w THEN Owned(v) \ {i} ELSE Owned(v)
    <2> SUFFICES ASSUME NEW v \in Workers
                 PROVE  Owned(v)' = IF v = w THEN Owned(v) \ {i} ELSE Owned(v)
        OBVIOUS
    <2>1. CASE i \in Owned(w)
        <3>1. Owned(v)' = Owned(v) \ {i}
            BY <1>1, <2>1, OwnedAfterLeave
        <3> QED BY <2>1, <3>1, OneOwner
    <2>2. CASE i \notin Owned(w)
        BY <2>2 DEF Owned, queueVars
    <2> QED BY <2>1, <2>2
<1>3. \A j \in Items \ {i} : lease'[j] = lease[j]
    BY <1>1, OwnedAfterLeave DEF queueVars
<1>4. HandsAreTidy'
    BY DEF HandsAreTidy, Alive
<1>5. HandMatchesTable'
    BY <1>1, <1>2 DEF HandMatchesTable, Alive
<1>6. CleanExitHoldsNothing'
    BY <1>1, <1>2 DEF CleanExitHoldsNothing, Alive
<1>7. LeaseRunsInHand'
    <2> SUFFICES ASSUME NEW v \in Prompt, single[v]
                 PROVE  /\ lost'[v] = {}
                        /\ \A j, k \in InHand(v)' : j = k
                        /\ \A j \in InHand(v)' \cap Owned(v)' : lease'[j] # Expired
        BY DEF LeaseRunsInHand
    <2>1. v \in Workers /\ InHand(v)' \subseteq InHand(v) /\ Owned(v)' \subseteq Owned(v)
        BY <1>2, LoopAssumption
    <2>2. lost'[v] = {} /\ \A j, k \in InHand(v)' : j = k
        BY <2>1 DEF LeaseRunsInHand
    <2>3. \A j \in Owned(v)' : lease'[j] = lease[j]
        <3> SUFFICES ASSUME NEW j \in Owned(v)' PROVE lease'[j] = lease[j]
            OBVIOUS
        <3>1. j \in Items /\ j \in Owned(v)
            BY <2>1 DEF Owned
        <3>2. CASE j # i
            BY <1>3, <3>1, <3>2
        <3>3. CASE j = i
            <4>1. v # w
                BY <1>2, <2>1, <3>3
            <4>2. i \notin Owned(w)
                BY <2>1, <3>1, <3>3, <4>1, OneOwner
            <4> QED BY <4>2 DEF queueVars
        <3> QED BY <3>2, <3>3
    <2> QED BY <2>1, <2>2, <2>3 DEF LeaseRunsInHand
<1> QED BY <1>4, <1>5, <1>6, <1>7 DEF HandInv

\* Once asked to stop, a worker gives its rows back one after the other.
LEMMA GiveBackKeepsHands ==
    ASSUME LoopInv, NEW w \in Workers, GiveBackRest(w)
    PROVE  HandInv'
<1> USE DEF LoopInv, LoopTypeOK
<1>1. PICK i \in todo[w] :
            /\ IF i \in Owned(w) THEN ReleaseUntouched(w, i) ELSE UNCHANGED queueVars
            /\ todo' = [todo EXCEPT ![w] = @ \ {i}]
            /\ lost' = [lost EXCEPT ![w] = @ \ {i}]
    BY DEF GiveBackRest
<1>2. cur[w] = NoItem /\ UNCHANGED <<phase, cur, single>>
    BY DEF GiveBackRest
<1>3. i \in InHand(w)
    BY DEF InHand
<1>4. \A v \in Workers : InHand(v)' = IF v = w THEN InHand(v) \ {i} ELSE InHand(v)
    BY <1>1, <1>2 DEF InHand
<1>5. \A v \in Workers : cur'[v] \notin todo'[v]
    BY <1>1, <1>2 DEF HandsAreTidy
<1> QED BY <1>1, <1>2, <1>3, <1>4, <1>5, DropKeepsHands

\* However a handler ends, its row leaves the hand and, if still owned, the claim.
LEMMA FinishKeepsHands ==
    ASSUME LoopInv, NEW w \in Workers, FinishItem(w)
    PROVE  HandInv'
<1> USE DEF LoopInv, LoopTypeOK
<1> DEFINE i == cur[w]
<1>1. /\ i # NoItem
      /\ IF i \in Owned(w) THEN LeaveRow(w, i) ELSE UNCHANGED queueVars
      /\ cur' = [cur EXCEPT ![w] = NoItem]
      /\ lost' = [lost EXCEPT ![w] = @ \ {i}]
      /\ UNCHANGED <<phase, todo, single>>
    BY DEF FinishItem
<1>2. i \in InHand(w) /\ i \notin todo[w]
    BY <1>1 DEF InHand, HandsAreTidy
<1>3. \A v \in Workers : InHand(v)' = IF v = w THEN InHand(v) \ {i} ELSE InHand(v)
    BY <1>1, <1>2 DEF InHand
<1>4. \A v \in Workers : cur'[v] \notin todo'[v]
    BY <1>1, LoopAssumption DEF HandsAreTidy
<1> HIDE DEF i
<1> QED BY <1>1, <1>2, <1>3, <1>4, DropKeepsHands

\* A heartbeat only lengthens leases.
LEMMA BeatKeepsHands ==
    ASSUME LoopInv, NEW w \in Workers, Beat(w)
    PROVE  HandInv'
<1> USE DEF LoopInv, LoopTypeOK
<1>1. Heartbeat(w, {cur[w]}) /\ UNCHANGED <<phase, todo, cur, lost, single>>
    BY DEF Beat, loopVars
<1>2. \A v \in Workers : Owned(v)' = Owned(v) /\ InHand(v)' = InHand(v)
    BY <1>1 DEF Heartbeat, Owned, InHand
<1>3. \A i \in Items : lease[i] # Expired => lease'[i] # Expired
    BY <1>1, WorkQueueAssumption DEF Heartbeat, Expired
<1>4. HandsAreTidy' /\ HandMatchesTable' /\ CleanExitHoldsNothing'
    BY <1>1, <1>2 DEF HandsAreTidy, HandMatchesTable, CleanExitHoldsNothing, Alive
<1>5. LeaseRunsInHand'
    BY <1>1, <1>2, <1>3, LoopAssumption DEF LeaseRunsInHand, Owned
<1> QED BY <1>4, <1>5 DEF HandInv

\* The reclaim timer moves what it takes from a hand into lost, and the row of a
\* prompt worker it never takes.
LEMMA ReclaimKeepsHands ==
    ASSUME LoopInv, Reclaim
    PROVE  HandInv'
<1> USE DEF LoopInv, LoopTypeOK
<1>1. /\ lost' = [v \in Workers |-> lost[v] \cup (Overdue \cap Owned(v) \cap InHand(v))]
      /\ UNCHANGED <<phase, todo, cur, single>>
    BY DEF Reclaim
<1>2. \A v \in Workers : InHand(v)' = InHand(v)
    BY <1>1 DEF InHand
<1>3. Overdue \in SUBSET Items /\ Unclaim(Overdue, "pending")
    BY DEF Reclaim, ReclaimExpired, Overdue
<1>4. \A v \in Workers : Owned(v)' = Owned(v) \ Overdue
    BY <1>3, OwnedAfterUnclaim DEF IInv
<1>5. \A i \in Items \ Overdue : lease'[i] = lease[i]
    BY <1>3 DEF Unclaim
<1>6. HandsAreTidy' /\ HandMatchesTable' /\ CleanExitHoldsNothing'
    BY <1>1, <1>2, <1>4 DEF HandsAreTidy, HandMatchesTable, CleanExitHoldsNothing, Alive
<1>7. LeaseRunsInHand'
    <2> SUFFICES ASSUME NEW v \in Prompt, single[v]
                 PROVE  /\ lost'[v] = {}
                        /\ \A i, j \in InHand(v)' : i = j
                        /\ \A i \in InHand(v)' \cap Owned(v)' : lease'[i] # Expired
        BY <1>1 DEF LeaseRunsInHand
    <2>1. v \in Workers
        BY LoopAssumption
    <2>2. Overdue \cap Owned(v) \cap InHand(v) = {}
        BY DEF LeaseRunsInHand, Overdue
    <2>3. \A i \in Owned(v)' : lease'[i] = lease[i]
        BY <1>4, <1>5, <2>1 DEF Owned
    <2> QED BY <1>1, <1>2, <1>4, <2>1, <2>2, <2>3 DEF LeaseRunsInHand
<1> QED BY <1>6, <1>7 DEF HandInv

\* No tick passes over a beat of a prompt worker that is due.
LEMMA TimeKeepsHands ==
    ASSUME LoopInv, Time
    PROVE  HandInv'
<1> USE DEF LoopInv, LoopTypeOK
<1>1. Tick /\ UNCHANGED <<phase, todo, cur, lost, single>>
    BY DEF Time, loopVars
<1>2. \A v \in Workers : Owned(v)' = Owned(v) /\ InHand(v)' = InHand(v)
    BY <1>1 DEF Tick, Owned, InHand
<1>3. HandsAreTidy' /\ HandMatchesTable' /\ CleanExitHoldsNothing'
    BY <1>1, <1>2 DEF HandsAreTidy, HandMatchesTable, CleanExitHoldsNothing, Alive
<1>4. LeaseRunsInHand'
    <2> SUFFICES ASSUME NEW v \in Prompt, single[v],
                        NEW i \in InHand(v), i \in Owned(v)
                 PROVE  lease'[i] # Expired
        BY <1>1, <1>2, LoopAssumption DEF LeaseRunsInHand
    <2>1. v \in Workers /\ i \in Items /\ ~Due(v) /\ Alive(v)
        BY LoopAssumption DEF Time, Owned, HandsAreTidy
    <2>2. i = cur[v]
        <3>1. CASE cur[v] = NoItem
            BY <2>1, <3>1 DEF Due, InHand
        <3>2. CASE cur[v] # NoItem
            BY <3>2 DEF LeaseRunsInHand, InHand
        <3> QED BY <3>1, <3>2
    <2>3. lease[i] # Expired /\ lease[i] # 0
        BY <2>1, <2>2 DEF LeaseRunsInHand, Due
    <2> QED BY <1>1, <2>1, <2>3, WorkQueueAssumption DEF Tick, TypeOK, Expired
<1> QED BY <1>3, <1>4 DEF HandInv

------------------------------------------------------------------------------
\* Every step of the loop keeps the invariant.
LEMMA LoopNextKeepsInv == LoopInv /\ [LoopNext]_vars => LoopInv'
<1> SUFFICES ASSUME LoopInv, [LoopNext]_vars PROVE LoopInv'
    OBVIOUS
<1>1. IInv'
    BY LoopCallsEngine, NextKeepsIInv DEF LoopInv
<1>2. CASE LoopNext
    <2>1. LoopTypeOK'
        BY <1>1, <1>2, LoopStepTypes DEF IInv
    <2>2. HandInv'
        BY <1>2, LifeKeepsHands, ClaimKeepsHands, HandOverKeepsHands, GiveBackKeepsHands,
           FinishKeepsHands, BeatKeepsHands, ReclaimKeepsHands, TimeKeepsHands
           DEF LoopNext, WorkerStep
    <2> QED BY <1>1, <2>1, <2>2 DEF LoopInv, HandInv
<1>3. CASE UNCHANGED vars
    <2>1. UNCHANGED <<queueVars, phase, todo, cur, lost, single>>
        BY <1>3 DEF vars, loopVars
    <2>2. LoopTypeOK'
        BY <1>1, <2>1 DEF LoopInv, LoopTypeOK, IInv
    <2>3. HandInv'
        BY <2>1 DEF LoopInv, HandInv, HandsAreTidy, HandMatchesTable, CleanExitHoldsNothing,
                    LeaseRunsInHand, Alive, InHand, Owned, queueVars
    <2> QED BY <1>1, <2>2, <2>3 DEF LoopInv, HandInv
<1> QED BY <1>2, <1>3

\* What ties every worker's hand to the table holds in every reachable state.
THEOREM LoopInvariant == LoopSpec => []LoopInv
    BY LoopInitInv, LoopNextKeepsInv, PTL DEF LoopSpec

\* Table and loop keep their types.
THEOREM LoopTypeCorrect == LoopSpec => []LoopTypeOK
<1>1. LoopInv => LoopTypeOK
    BY DEF LoopInv
<1> QED BY <1>1, LoopInvariant, PTL

\* What a live worker has in hand is what the table says it owns, except for what
\* the reclaim timer took from it.
THEOREM HandsMatch == LoopSpec => []HandMatchesTable
<1>1. LoopInv => HandMatchesTable
    BY DEF LoopInv
<1> QED BY <1>1, LoopInvariant, PTL

\* A worker that was asked to stop and did leaves no row claimed.
THEOREM CleanExit == LoopSpec => []CleanExitHoldsNothing
<1>1. LoopInv => CleanExitHoldsNothing
    BY DEF LoopInv
<1> QED BY <1>1, LoopInvariant, PTL

\* A worker whose heartbeats are in time never loses the one row of its batch.
THEOREM PromptKeepsItsRow == LoopSpec => []NoSecondRun
<1>1. LoopInv => NoSecondRun
    BY DEF LoopInv, LeaseRunsInHand, NoSecondRun
<1> QED BY <1>1, LoopInvariant, PTL

\* Whatever sequence of calls the workers' loops make, a row is taken back from
\* silent workers at most MaxAttempts times.
THEOREM LoopPoisonPill == LoopSpec => []PoisonPillBounded
    BY LoopIsCaller, PoisonPill, PTL

\* The loops and the reclaim timer together keep what the queue promises: one holder
\* at a time, ended by nobody else while its term runs, and outcomes that stay.
THEOREM LoopKeepsLedger == LoopSpec => ImplementsLedger
    BY LoopIsCaller, Refinement

------------------------------------------------------------------------------
(* Induction over a set of numbers: the form the provers can instantiate. *)
Below == {ss \in Nat \X Nat : ss[1] < ss[2]}

LEMMA BelowIsWellFounded == IsWellFoundedOn(Below, Nat)
BY NatLessThanWellFounded DEF OpToRel, Below

\* A set with 0 that is closed under successor has every natural number.
LEMMA SetInduction ==
    ASSUME NEW S, 0 \in S, \A n \in Nat : n \in S => n + 1 \in S
    PROVE  \A n \in Nat : n \in S
<1> DEFINE T == Nat \ S
<1>1. SUFFICES ASSUME T # {} PROVE FALSE
    OBVIOUS
<1>2. PICK x \in T : \A y \in T : <<y, x>> \notin Below
    BY <1>1, BelowIsWellFounded, WFMin
<1>3. x # 0 /\ x - 1 \in Nat
    OBVIOUS
<1>4. <<x - 1, x>> \in Below
    BY <1>3 DEF Below
<1>5. x - 1 \in S
    BY <1>2, <1>3, <1>4
<1> QED BY <1>3, <1>5

\* What induction on the size of the subsets of a finite set needs.
Smaller(S) == \A s \in SUBSET S :
    /\ IsFiniteSet(s) /\ Cardinality(s) \in Nat
    /\ Cardinality(s) <= Cardinality(S)
    /\ Cardinality(s) = 0 <=> s = {}
    /\ \A x \in s : s \ {x} \in SUBSET S /\ Cardinality(s \ {x}) = Cardinality(s) - 1

LEMMA SubsetsAreSmaller == ASSUME NEW S, IsFiniteSet(S) PROVE Smaller(S)
BY FS_Subset, FS_CardinalityType, FS_EmptySet, FS_RemoveElement DEF Smaller

\* The recursion of SumFunctionOnSet, of a function g on sets of indices.
Pick(s) == CHOOSE x \in s : TRUE
SumStep(f, g, s) == IF s = {} THEN 0 ELSE f[Pick(s)] + g[s \ {Pick(s)}]
SumsUp(f, S, g) == \A s \in SUBSET S : g[s] = SumStep(f, g, s)

LEMMA SumExists ==
    ASSUME NEW f, NEW S, IsFiniteSet(S)
    PROVE  \E g : g = [s \in SUBSET S |-> SumStep(f, g, s)]
<1> DEFINE C(s) == Cardinality(s)
           Good(g, n) == \A s \in SUBSET S : C(s) <= n => g[s] = SumStep(f, g, s)
           T == {n \in Nat : \E g : DOMAIN g = SUBSET S /\ Good(g, n)}
<1>0. \A s \in SUBSET S : IsFiniteSet(s) /\ C(s) \in Nat /\ (C(s) = 0 <=> s = {})
    BY FS_Subset, FS_CardinalityType, FS_EmptySet
<1>1. 0 \in T
    <2> DEFINE g == [s \in SUBSET S |-> 0]
    <2>1. \A s \in SUBSET S : C(s) <= 0 => s = {}
        BY <1>0
    <2>2. Good(g, 0)
        BY <2>1 DEF SumStep
    <2> QED BY <2>2
<1>2. ASSUME NEW n \in Nat, n \in T PROVE n + 1 \in T
    <2>1. PICK g : DOMAIN g = SUBSET S /\ Good(g, n)
        BY <1>2
    <2> DEFINE h == [s \in SUBSET S |-> IF C(s) <= n THEN g[s] ELSE SumStep(f, g, s)]
    <2>2. ASSUME NEW s \in SUBSET S, s # {}, C(s) <= n + 1
          PROVE  s \ {Pick(s)} \in SUBSET S /\ C(s \ {Pick(s)}) <= n
        <3>1. Pick(s) \in s
            BY <2>2 DEF Pick
        <3> QED BY <1>0, <2>2, <3>1, FS_RemoveElement
    <2>3. Good(h, n + 1)
        <3> SUFFICES ASSUME NEW s \in SUBSET S, C(s) <= n + 1 PROVE h[s] = SumStep(f, h, s)
            OBVIOUS
        <3>1. h[s] = SumStep(f, g, s)
            BY <2>1
        <3>2. s # {} => h[s \ {Pick(s)}] = g[s \ {Pick(s)}]
            BY <2>2
        <3> QED BY <3>1, <3>2 DEF SumStep
    <2>4. DOMAIN h = SUBSET S
        OBVIOUS
    <2> HIDE DEF h, Good
    <2> QED BY <2>3, <2>4
<1>3. C(S) \in T
    <2> HIDE DEF T
    <2> QED BY <1>0, <1>1, <1>2, SetInduction
<1>4. PICK g : DOMAIN g = SUBSET S /\ Good(g, C(S))
    BY <1>3
<1>5. \A s \in SUBSET S : C(s) <= C(S)
    BY FS_Subset
<1> DEFINE h == [s \in SUBSET S |-> g[s]]
<1>6. \A s \in SUBSET S : h[s] = SumStep(f, h, s)
    BY <1>4, <1>5 DEF SumStep, Pick
<1>7. h = [s \in SUBSET S |-> SumStep(f, h, s)]
    BY <1>6
<1> QED BY <1>7

\* What the fold computes is such a function.
LEMMA TotalStep ==
    ASSUME NEW f, NEW S, IsFiniteSet(S)
    PROVE  \E g : SumsUp(f, S, g) /\ SumFunctionOnSet(f, S) = g[S]
<1> DEFINE G == CHOOSE g : g = [s \in SUBSET S |-> SumStep(f, g, s)]
<1>1. G = [s \in SUBSET S |-> SumStep(f, G, s)]
    BY SumExists
<1>2. SumFunctionOnSet(f, S) = G[S]
    BY DEF SumFunctionOnSet, FoldFunctionOnSet, MapThenFoldSet, SumStep, Pick
<1>3. SumsUp(f, S, G)
    <2> HIDE DEF G
    <2> QED BY <1>1 DEF SumsUp
<1> QED BY <1>2, <1>3

\* Two functions on sets that sum up what agrees agree.
LEMMA SumsAgree ==
    ASSUME NEW S, IsFiniteSet(S), NEW f, NEW g, NEW F, NEW G,
           \A i \in S : f[i] = g[i], SumsUp(f, S, F), SumsUp(g, S, G)
    PROVE  F[S] = G[S]
<1> DEFINE T == {n \in Nat : \A s \in SUBSET S : Cardinality(s) = n => F[s] = G[s]}
<1>0. /\ IsFiniteSet(S) /\ Cardinality(S) \in Nat
      /\ \A s \in SUBSET S : /\ Cardinality(s) \in Nat /\ (Cardinality(s) = 0 <=> s = {})
                            /\ \A x \in s : s \ {x} \in SUBSET S /\ Cardinality(s \ {x}) = Cardinality(s) - 1
    BY SubsetsAreSmaller, FS_CardinalityType DEF Smaller
<1>1. 0 \in T
    BY <1>0 DEF SumsUp, SumStep
<1>2. ASSUME NEW n \in Nat, n \in T PROVE n + 1 \in T
    <2> SUFFICES ASSUME NEW s \in SUBSET S, Cardinality(s) = n + 1 PROVE F[s] = G[s]
        OBVIOUS
    <2>1. s # {} /\ Pick(s) \in s
        BY <1>0 DEF Pick
    <2>2. s \ {Pick(s)} \in SUBSET S /\ Cardinality(s \ {Pick(s)}) = n
        BY <1>0, <2>1
    <2>3. F[s \ {Pick(s)}] = G[s \ {Pick(s)}]
        BY <1>2, <2>2
    <2>4. F[s] = f[Pick(s)] + F[s \ {Pick(s)}] /\ G[s] = g[Pick(s)] + G[s \ {Pick(s)}]
        BY <2>1 DEF SumsUp, SumStep
    <2> QED BY <2>1, <2>3, <2>4
<1> HIDE DEF T
<1>3. Cardinality(S) \in T
    BY <1>0, <1>1, <1>2, SetInduction
<1> QED BY <1>3 DEF T

\* The sum is of one more item for every item taken in.
LEMMA SumType ==
    ASSUME NEW S, IsFiniteSet(S), NEW f, \A i \in S : f[i] \in Nat, NEW F, SumsUp(f, S, F)
    PROVE  \A s \in SUBSET S : F[s] \in Nat
<1> DEFINE T == {n \in Nat : \A s \in SUBSET S : Cardinality(s) = n => F[s] \in Nat}
<1>0. /\ IsFiniteSet(S) /\ Cardinality(S) \in Nat
      /\ \A s \in SUBSET S : /\ Cardinality(s) \in Nat /\ (Cardinality(s) = 0 <=> s = {})
                            /\ \A x \in s : s \ {x} \in SUBSET S /\ Cardinality(s \ {x}) = Cardinality(s) - 1
    BY SubsetsAreSmaller, FS_CardinalityType DEF Smaller
<1>1. 0 \in T
    BY <1>0 DEF SumsUp, SumStep
<1>2. ASSUME NEW n \in Nat, n \in T PROVE n + 1 \in T
    <2> SUFFICES ASSUME NEW s \in SUBSET S, Cardinality(s) = n + 1 PROVE F[s] \in Nat
        OBVIOUS
    <2>1. s # {} /\ Pick(s) \in s
        BY <1>0 DEF Pick
    <2>2. s \ {Pick(s)} \in SUBSET S /\ Cardinality(s \ {Pick(s)}) = n
        BY <1>0, <2>1
    <2>3. F[s \ {Pick(s)}] \in Nat
        BY <1>2, <2>2
    <2>4. F[s] = f[Pick(s)] + F[s \ {Pick(s)}]
        BY <2>1 DEF SumsUp, SumStep
    <2> QED BY <2>1, <2>3, <2>4
<1> HIDE DEF T
<1>3. \A n \in Nat : n \in T
    BY <1>1, <1>2, SetInduction
<1> QED BY <1>0, <1>3 DEF T

\* The order in which items are taken does not matter.
LEMMA SumSwap ==
    ASSUME NEW S, IsFiniteSet(S), NEW f, \A i \in S : f[i] \in Nat, NEW F, SumsUp(f, S, F)
    PROVE  \A s \in SUBSET S : \A x \in s : F[s] = f[x] + F[s \ {x}]
<1> DEFINE T == {n \in Nat : \A s \in SUBSET S : \A x \in s :
                     Cardinality(s) = n => F[s] = f[x] + F[s \ {x}]}
<1>0. /\ IsFiniteSet(S) /\ Cardinality(S) \in Nat
      /\ \A s \in SUBSET S : /\ Cardinality(s) \in Nat /\ (Cardinality(s) = 0 <=> s = {})
                            /\ \A x \in s : s \ {x} \in SUBSET S /\ Cardinality(s \ {x}) = Cardinality(s) - 1
    BY SubsetsAreSmaller, FS_CardinalityType DEF Smaller
<1>1. 0 \in T
    BY <1>0
<1>2. ASSUME NEW n \in Nat, n \in T PROVE n + 1 \in T
    <2> SUFFICES ASSUME NEW s \in SUBSET S, NEW x \in s, Cardinality(s) = n + 1
                 PROVE  F[s] = f[x] + F[s \ {x}]
        OBVIOUS
    <2> DEFINE y == Pick(s)
    <2>1. y \in s
        BY DEF Pick
    <2> HIDE DEF y
    <2>2. F[s] = f[y] + F[s \ {y}]
        BY <2>1 DEF SumsUp, SumStep, y
    <2>3. CASE x = y
        BY <2>2, <2>3
    <2>4. CASE x # y
        <3>1. /\ s \ {y} \in SUBSET S /\ Cardinality(s \ {y}) = n /\ x \in s \ {y}
              /\ s \ {x} \in SUBSET S /\ Cardinality(s \ {x}) = n /\ y \in s \ {x}
            BY <1>0, <2>1, <2>4
        <3>2. F[s \ {y}] = f[x] + F[(s \ {y}) \ {x}]
            BY <1>2, <3>1
        <3>3. F[s \ {x}] = f[y] + F[(s \ {x}) \ {y}]
            BY <1>2, <3>1
        <3>4. (s \ {y}) \ {x} = (s \ {x}) \ {y}
            OBVIOUS
        <3>5. F[(s \ {x}) \ {y}] \in Nat /\ f[x] \in Nat /\ f[y] \in Nat
            BY <2>1, SumType
        <3> DEFINE a == f[x]  b == f[y]  r == F[(s \ {x}) \ {y}]
        <3>6. F[s] = b + (a + r) /\ F[s \ {x}] = b + r
            BY <2>2, <3>2, <3>3, <3>4
        <3>7. a \in Nat /\ b \in Nat /\ r \in Nat
            BY <3>5
        <3> HIDE DEF a, b, r
        <3>8. b + (a + r) = a + (b + r)
            BY <3>7
        <3> QED BY <3>6, <3>8 DEF a
    <2> QED BY <2>3, <2>4
<1> HIDE DEF T
<1>3. \A n \in Nat : n \in T
    BY <1>1, <1>2, SetInduction
<1>4. ASSUME NEW s \in SUBSET S, NEW x \in s PROVE F[s] = f[x] + F[s \ {x}]
    <2>1. Cardinality(s) \in T
        BY <1>0, <1>3
    <2> QED BY <2>1 DEF T
<1> QED BY <1>4

\* One item less.
LEMMA SumRemove ==
    ASSUME NEW S, IsFiniteSet(S), NEW f, \A i \in S : f[i] \in Nat, NEW x \in S
    PROVE  /\ SumFunctionOnSet(f, S) = f[x] + SumFunctionOnSet(f, S \ {x})
           /\ SumFunctionOnSet(f, S) \in Nat
<1>1. PICK F : SumsUp(f, S, F) /\ SumFunctionOnSet(f, S) = F[S]
    BY TotalStep
<1>2. IsFiniteSet(S \ {x})
    BY FS_RemoveElement
<1>3. PICK G : SumsUp(f, S \ {x}, G) /\ SumFunctionOnSet(f, S \ {x}) = G[S \ {x}]
    BY <1>2, TotalStep
<1>4. SumsUp(f, S \ {x}, F)
    BY <1>1 DEF SumsUp
<1>5. F[S \ {x}] = G[S \ {x}]
    BY <1>2, <1>3, <1>4, SumsAgree
<1>6. F[S] = f[x] + F[S \ {x}]
    BY <1>1, SumSwap
<1>7. F[S] \in Nat
    BY <1>1, SumType
<1> QED BY <1>1, <1>3, <1>5, <1>6, <1>7

\* The sum looks at nothing but the items.
LEMMA SumCongruent ==
    ASSUME NEW S, IsFiniteSet(S), NEW f, NEW g, \A i \in S : f[i] = g[i]
    PROVE  SumFunctionOnSet(f, S) = SumFunctionOnSet(g, S)
<1>1. PICK F : SumsUp(f, S, F) /\ SumFunctionOnSet(f, S) = F[S]
    BY TotalStep
<1>2. PICK G : SumsUp(g, S, G) /\ SumFunctionOnSet(g, S) = G[S]
    BY TotalStep
<1> QED BY <1>1, <1>2, SumsAgree

\* The sum of larger numbers is not smaller.
LEMMA SumMonotonic ==
    ASSUME NEW S, IsFiniteSet(S), NEW f, NEW g,
           \A i \in S : f[i] \in Nat /\ g[i] \in Nat /\ f[i] <= g[i]
    PROVE  /\ SumFunctionOnSet(f, S) <= SumFunctionOnSet(g, S)
           /\ SumFunctionOnSet(f, S) \in Nat /\ SumFunctionOnSet(g, S) \in Nat
<1>1. PICK F : SumsUp(f, S, F) /\ SumFunctionOnSet(f, S) = F[S]
    BY TotalStep
<1>2. PICK G : SumsUp(g, S, G) /\ SumFunctionOnSet(g, S) = G[S]
    BY TotalStep
<1>3. \A s \in SUBSET S : F[s] \in Nat /\ G[s] \in Nat
    BY <1>1, <1>2, SumType
<1> DEFINE T == {n \in Nat : \A s \in SUBSET S : Cardinality(s) = n => F[s] <= G[s]}
<1>0. /\ IsFiniteSet(S) /\ Cardinality(S) \in Nat
      /\ \A s \in SUBSET S : /\ Cardinality(s) \in Nat /\ (Cardinality(s) = 0 <=> s = {})
                            /\ \A x \in s : s \ {x} \in SUBSET S /\ Cardinality(s \ {x}) = Cardinality(s) - 1
    BY SubsetsAreSmaller, FS_CardinalityType DEF Smaller
<1>4. 0 \in T
    <2> SUFFICES ASSUME NEW s \in SUBSET S, s = {} PROVE F[s] <= G[s]
        BY <1>0
    <2>1. F[s] = 0 /\ G[s] = 0
        BY <1>1, <1>2 DEF SumsUp, SumStep
    <2> QED BY <2>1
<1>5. ASSUME NEW n \in Nat, n \in T PROVE n + 1 \in T
    <2> SUFFICES ASSUME NEW s \in SUBSET S, Cardinality(s) = n + 1 PROVE F[s] <= G[s]
        OBVIOUS
    <2>1. s # {} /\ Pick(s) \in s
        BY <1>0 DEF Pick
    <2>2. s \ {Pick(s)} \in SUBSET S /\ Cardinality(s \ {Pick(s)}) = n
        BY <1>0, <2>1
    <2>3. F[s \ {Pick(s)}] <= G[s \ {Pick(s)}]
        BY <1>5, <2>2
    <2>4. F[s] = f[Pick(s)] + F[s \ {Pick(s)}] /\ G[s] = g[Pick(s)] + G[s \ {Pick(s)}]
        BY <1>1, <1>2, <2>1 DEF SumsUp, SumStep
    <2>5. Pick(s) \in S
        BY <2>1
    <2> QED BY <1>3, <2>2, <2>3, <2>4, <2>5
<1> HIDE DEF T
<1>6. \A n \in Nat : n \in T
    BY <1>4, <1>5, SetInduction
<1> QED BY <1>0, <1>1, <1>2, <1>3, <1>6 DEF T


\* Nothing sums to zero.
LEMMA SumOfNone == \A f : SumFunctionOnSet(f, {}) = 0
<1> TAKE f
<1>1. PICK F : SumsUp(f, {}, F) /\ SumFunctionOnSet(f, {}) = F[{}]
    BY FS_EmptySet, TotalStep
<1> QED BY <1>1 DEF SumsUp, SumStep

------------------------------------------------------------------------------
\* Call c is about queue q.
On(c, q) == call[c] # NoCall /\ call[c].queue = q

\* No queue alone outgrows the pool: a supervisor counts the tasks it told to
\* stop, and never spawns beyond its target.
PoolOfTasks == \A q \in Queues : Tasks(q) <= Budget

\* Requests die with the process.
NoCallsWhenDown == app = "down" => \A c \in Calls : call[c] = NoCall

\* What a request persisted was admitted under the advisory lock, and stays so
\* until it is applied: requests for one queue that overlap are all admitted.
CallsFit == \A c \in Calls : call[c] # NoCall => Effective(row[call[c].queue]) <= Budget

\* A queue that no clamp and no overlapping requests excuse: one request at a
\* time is about it, the supervisor has what the row says when none is, and
\* what a request is about to apply is what the row says.
Agreement ==
    app # "down" => \A q \in Queues \ excused :
        /\ \A c, d \in Calls : On(c, q) /\ On(d, q) => c = d
        /\ (\A c \in Calls : ~On(c, q)) => target[q] = Effective(row[q])
        /\ \A c \in Calls : On(c, q) /\ call[c].pc = "apply" => call[c].to = Effective(row[q])

\* Rows of an earlier deployment may ask for more than the budget.  Nothing but
\* pauses is then admitted, and what start gave out still fits.
Overcommitted ==
    (app # "down" /\ Commitment > Budget) =>
        /\ SumFunctionOnSet(target, Queues) <= Budget
        /\ \A c \in Calls : call[c] # NoCall =>
              /\ Effective(row[call[c].queue]) = 0
              /\ call[c].pc = "apply" => call[c].to = 0

ManagerInv ==
    /\ ManagerTypeOK
    /\ PoolOfTasks
    /\ NoCallsWhenDown
    /\ CallsFit
    /\ Agreement
    /\ Overcommitted

------------------------------------------------------------------------------
LEMMA QueuesAreFinite == IsFiniteSet(Queues)
<1>1. Order \in Seq(Queues) /\ DOMAIN Order = 1..Len(Order) /\ Len(Order) \in Nat
    BY ManagerAssumption
<1>2. IsFiniteSet(1..Len(Order))
    BY <1>1, FS_Interval
<1>3. Order \in Surjection(1..Len(Order), Queues)
    BY <1>1 DEF Surjection, Queues
<1> QED BY <1>2, <1>3, FS_Surjection

LEMMA EffectiveIsNat ==
    ASSUME NEW r \in Rows
    PROVE  Effective(r) \in Nat
BY ManagerAssumption DEF Effective, Rows

\* The recursion of Clamped.
GivenStep(given, i) ==
    IF i = 0 THEN 0
    ELSE LET left == Budget - given[i - 1]
             asked == Effective(row[Order[i]])
         IN given[i - 1] + (IF asked > left THEN left ELSE asked)

Given == CHOOSE given : given = [i \in 0..Len(Order) |-> GivenStep(given, i)]

LEMMA GivenExists == Given = [i \in 0..Len(Order) |-> GivenStep(Given, i)]
<1> DEFINE N == Len(Order)
           Good(g, n) == \A i \in 0..N : i <= n => g[i] = GivenStep(g, i)
           T == {n \in Nat : \E g : DOMAIN g = 0..N /\ Good(g, n)}
<1>0. N \in Nat
    BY ManagerAssumption
<1>1. 0 \in T
    <2> DEFINE g == [i \in 0..N |-> 0]
    <2>1. Good(g, 0)
        BY <1>0 DEF GivenStep
    <2> QED BY <2>1
<1>2. ASSUME NEW n \in Nat, n \in T PROVE n + 1 \in T
    <2>1. PICK g : DOMAIN g = 0..N /\ Good(g, n)
        BY <1>2
    <2> DEFINE h == [i \in 0..N |-> IF i <= n THEN g[i] ELSE GivenStep(g, i)]
    <2>2. Good(h, n + 1)
        <3> SUFFICES ASSUME NEW i \in 0..N, i <= n + 1 PROVE h[i] = GivenStep(h, i)
            OBVIOUS
        <3>1. h[i] = GivenStep(g, i)
            BY <2>1
        <3>2. i # 0 => h[i - 1] = g[i - 1]
            BY <1>0
        <3> HIDE DEF h
        <3> QED BY <3>1, <3>2 DEF GivenStep
    <2>3. DOMAIN h = 0..N
        OBVIOUS
    <2> HIDE DEF h, Good, N
    <2> QED BY <2>2, <2>3
<1>3. N \in T
    <2> HIDE DEF T, N
    <2> QED BY <1>0, <1>1, <1>2, SetInduction
<1>4. PICK g : DOMAIN g = 0..N /\ Good(g, N)
    BY <1>3
<1> DEFINE h == [i \in 0..N |-> g[i]]
<1>5. \A i \in 0..N : h[i] = GivenStep(h, i)
    <2> TAKE i \in 0..N
    <2>1. h[i] = GivenStep(g, i)
        BY <1>0, <1>4
    <2>2. i # 0 => h[i - 1] = g[i - 1]
        BY <1>0
    <2> HIDE DEF h
    <2> QED BY <2>1, <2>2 DEF GivenStep
<1>6. h = [i \in 0..N |-> GivenStep(h, i)]
    BY <1>5
<1>7. \E g1 : g1 = [i \in 0..N |-> GivenStep(g1, i)]
    <2> HIDE DEF h
    <2> QED BY <1>6
<1> QED BY <1>7 DEF Given

\* What start gave out up to a queue grows, never beyond the budget.
LEMMA GivenBounds ==
    ASSUME row \in [Queues -> Rows]
    PROVE  /\ Given[0] = 0
           /\ \A i \in 0..Len(Order) : Given[i] \in 0..Budget
           /\ \A i \in 1..Len(Order) :
                 /\ Given[i] - Given[i - 1] \in 0..Budget
                 /\ Given[i] - Given[i - 1] <= Effective(row[Order[i]])
<1> DEFINE N == Len(Order)
           T == {n \in Nat : \A i \in 0..N : i = n => Given[i] \in 0..Budget}
<1>0. N \in Nat /\ Budget \in Nat /\ \A i \in 1..N : Order[i] \in Queues /\ Effective(row[Order[i]]) \in Nat
    BY ManagerAssumption, EffectiveIsNat DEF Queues
<1>1. \A i \in 0..N : Given[i] = GivenStep(Given, i)
    BY GivenExists
<1>2. Given[0] = 0
    BY <1>0, <1>1 DEF GivenStep
<1>3. ASSUME NEW i \in 1..N, Given[i - 1] \in 0..Budget
      PROVE  /\ Given[i] \in 0..Budget
             /\ Given[i] - Given[i - 1] \in 0..Budget
             /\ Given[i] - Given[i - 1] <= Effective(row[Order[i]])
    <2> DEFINE asked == Effective(row[Order[i]])
               before == Given[i - 1]
    <2>1. Given[i] = before + (IF asked > Budget - before THEN Budget - before ELSE asked)
        BY <1>1 DEF GivenStep
    <2>2. asked \in Nat /\ before \in 0..Budget
        BY <1>0, <1>3
    <2> HIDE DEF asked, before
    <2>3. /\ Given[i] \in 0..Budget
          /\ Given[i] - before \in 0..Budget
          /\ Given[i] - before <= asked
        BY <1>0, <2>1, <2>2
    <2> QED BY <2>3 DEF asked, before
<1>4. 0 \in T
    BY <1>0, <1>2
<1>5. ASSUME NEW n \in Nat, n \in T PROVE n + 1 \in T
    <2> SUFFICES ASSUME n + 1 \in 0..N PROVE Given[n + 1] \in 0..Budget
        OBVIOUS
    <2>1. Given[(n + 1) - 1] \in 0..Budget
        BY <1>0, <1>5
    <2> QED BY <1>0, <1>3, <2>1
<1>6. \A n \in Nat : n \in T
    <2> HIDE DEF T
    <2> QED BY <1>4, <1>5, SetInduction
<1>7. \A i \in 0..N : Given[i] \in 0..Budget
    BY <1>6
<1> QED BY <1>0, <1>2, <1>3, <1>7

LEMMA ClampedIs ==
    ASSUME NEW i \in DOMAIN Order
    PROVE  Clamped(Order[i]) = Given[i] - Given[i - 1]
<1>1. (CHOOSE j \in DOMAIN Order : Order[j] = Order[i]) = i
    BY ManagerAssumption
<1> QED BY <1>1 DEF Clamped, Given, GivenStep

LEMMA ClampedBounds ==
    ASSUME row \in [Queues -> Rows], NEW q \in Queues
    PROVE  Clamped(q) \in 0..Budget /\ Clamped(q) <= Effective(row[q])
<1>1. PICK i \in DOMAIN Order : q = Order[i]
    BY DEF Queues
<1>2. i \in 1..Len(Order)
    BY ManagerAssumption
<1> QED BY <1>1, <1>2, ClampedIs, GivenBounds

\* What start gives out all in all.
LEMMA ClampedFit ==
    ASSUME row \in [Queues -> Rows]
    PROVE  SumFunctionOnSet([q \in Queues |-> Clamped(q)], Queues) <= Budget
<1> DEFINE N == Len(Order)
           first(n) == {Order[j] : j \in 1..n}
           f == [q \in Queues |-> Clamped(q)]
           T == {n \in Nat : n <= N => SumFunctionOnSet(f, first(n)) = Given[n]}
<1>0. N \in Nat /\ DOMAIN Order = 1..N
    BY ManagerAssumption
<1>1. \A n \in 0..N : first(n) \subseteq Queues /\ IsFiniteSet(first(n))
    BY <1>0, QueuesAreFinite, FS_Subset DEF Queues
<1>2. \A q \in Queues : f[q] \in Nat
    BY ClampedBounds
<1>3. 0 \in T
    <2>1. first(0) = {}
        OBVIOUS
    <2>2. SumFunctionOnSet(f, {}) = 0
        BY SumOfNone
    <2>3. Given[0] = 0
        BY GivenBounds
    <2> HIDE DEF f
    <2> QED BY <2>1, <2>2, <2>3
<1>4. ASSUME NEW n \in Nat, n \in T PROVE n + 1 \in T
    <2> SUFFICES ASSUME n + 1 <= N PROVE SumFunctionOnSet(f, first(n + 1)) = Given[n + 1]
        OBVIOUS
    <2> DEFINE q == Order[n + 1]
    <2>1. n \in 0..N /\ n + 1 \in 1..N /\ q \in first(n + 1) /\ n + 1 \in 0..N
        BY <1>0
    <2>2. first(n + 1) \ {q} = first(n)
        <3>1. \A j \in 1..(n + 1) : Order[j] = q <=> j = n + 1
            BY <1>0, <2>1, ManagerAssumption
        <3> QED BY <3>1
    <2>3. \A p \in first(n + 1) : f[p] \in Nat
        BY <1>1, <1>2, <2>1
    <2>4. SumFunctionOnSet(f, first(n + 1)) = f[q] + SumFunctionOnSet(f, first(n + 1) \ {q})
        <3> HIDE DEF f, first, q
        <3> QED BY <1>1, <2>1, <2>3, SumRemove
    <2>5. f[q] = Given[n + 1] - Given[n]
        <3>1. Clamped(q) = Given[n + 1] - Given[(n + 1) - 1]
            BY <1>0, <2>1, ClampedIs
        <3>2. q \in Queues
            BY <1>1, <2>1
        <3>3. (n + 1) - 1 = n
            OBVIOUS
        <3> QED BY <3>1, <3>2, <3>3
    <2>6. SumFunctionOnSet(f, first(n)) = Given[n]
        BY <1>4, <2>1
    <2>7. Given[n] \in Int /\ Given[n + 1] \in Int
        BY <2>1, GivenBounds
    <2>8. SumFunctionOnSet(f, first(n + 1)) = f[q] + Given[n]
        <3> HIDE DEF f, first, q
        <3> QED BY <2>2, <2>4, <2>6
    <2> HIDE DEF f, first, q
    <2> QED BY <2>5, <2>7, <2>8
<1>5. \A n \in Nat : n \in T
    <2> HIDE DEF T
    <2> QED BY <1>3, <1>4, SetInduction
<1>6. SumFunctionOnSet(f, first(N)) = Given[N]
    <2>1. N \in T
        BY <1>0, <1>5
    <2> HIDE DEF f, first
    <2> QED BY <1>0, <2>1
<1>7. first(N) = Queues
    BY <1>0 DEF Queues
<1>8. Given[N] <= Budget
    BY <1>0, GivenBounds
<1> HIDE DEF f, first
<1> QED BY <1>6, <1>7, <1>8 DEF f

------------------------------------------------------------------------------
LEMMA CommittedIsNat ==
    ASSUME row \in [Queues -> Rows], NEW Q \in SUBSET Queues
    PROVE  Committed(Q) \in Nat
<1> DEFINE f == [q \in Queues |-> Effective(row[q])]
<1>1. IsFiniteSet(Q) /\ \A q \in Q : f[q] \in Nat
    BY QueuesAreFinite, FS_Subset, EffectiveIsNat
<1> HIDE DEF f
<1>2. SumFunctionOnSet(f, Q) \in Nat
    BY <1>1, SumMonotonic
<1> QED BY <1>2 DEF Committed, f

\* What a row adds to the commitment of the others.
LEMMA CommitmentSplits ==
    ASSUME row \in [Queues -> Rows], NEW q \in Queues
    PROVE  Commitment = Effective(row[q]) + Committed(Queues \ {q})
<1> DEFINE f == [p \in Queues |-> Effective(row[p])]
<1>1. IsFiniteSet(Queues) /\ \A p \in Queues : f[p] \in Nat
    BY QueuesAreFinite, EffectiveIsNat
<1>2. f[q] = Effective(row[q])
    OBVIOUS
<1> HIDE DEF f
<1>3. SumFunctionOnSet(f, Queues) = f[q] + SumFunctionOnSet(f, Queues \ {q})
    BY <1>1, SumRemove
<1> QED BY <1>2, <1>3 DEF Commitment, Committed, f

\* The other queues' commitment is the same before and after a request for q.
LEMMA OthersStay ==
    ASSUME row \in [Queues -> Rows], row' \in [Queues -> Rows], NEW q \in Queues,
           \A p \in Queues \ {q} : row'[p] = row[p]
    PROVE  Committed(Queues \ {q})' = Committed(Queues \ {q})
<1> DEFINE f == [p \in Queues |-> Effective(row[p])]
           g == [p \in Queues |-> Effective(row[p])']
<1>1. IsFiniteSet(Queues \ {q}) /\ \A p \in Queues \ {q} : f[p] = g[p]
    BY QueuesAreFinite, FS_Subset DEF Effective
<1>2. SumFunctionOnSet(f, Queues \ {q}) = SumFunctionOnSet(g, Queues \ {q})
    <2> HIDE DEF f, g
    <2> QED BY <1>1, SumCongruent
<1> QED BY <1>2 DEF Committed

------------------------------------------------------------------------------
LEMMA CallShapes ==
    ASSUME ManagerTypeOK, NEW c \in Calls
    PROVE  /\ call[c] # NoCall => call[c].pc \in {"read", "apply"} /\ call[c].queue \in Queues
           /\ call[c].pc \in {"read", "apply"} => call[c] # NoCall
           /\ call[c].pc = "apply" => call[c].to \in 0..Budget
<1>1. call[c] \in {NoCall} \cup [pc : {"read"}, queue : Queues]
                           \cup [pc : {"apply"}, queue : Queues, to : 0..Budget]
    BY DEF ManagerTypeOK
<1>2. CASE call[c] = NoCall
    BY <1>2 DEF NoCall
<1>3. CASE call[c] \in [pc : {"read"}, queue : Queues]
    BY <1>3 DEF NoCall
<1>4. CASE call[c] \in [pc : {"apply"}, queue : Queues, to : 0..Budget]
    BY <1>4 DEF NoCall
<1> QED BY <1>1, <1>2, <1>3, <1>4

LEMMA ManagerInitInv == ManagerInit => ManagerInv
<1> SUFFICES ASSUME ManagerInit PROVE ManagerInv
    OBVIOUS
<1> USE ManagerAssumption DEF ManagerInit
<1>1. ManagerTypeOK
    BY DEF ManagerTypeOK
<1>2. PoolOfTasks
    BY DEF PoolOfTasks, Tasks
<1>3. NoCallsWhenDown /\ CallsFit
    BY DEF NoCallsWhenDown, CallsFit
<1>4. Agreement /\ Overcommitted
    BY DEF Agreement, Overcommitted
<1> QED BY <1>1, <1>2, <1>3, <1>4 DEF ManagerInv

LEMMA StartKeeps == ManagerInv /\ Start => ManagerInv'
<1> SUFFICES ASSUME ManagerInv, Start PROVE ManagerInv'
    OBVIOUS
<1> USE ManagerAssumption DEF ManagerInv
<1>1. /\ row \in [Queues -> Rows] /\ row' = row /\ call' = call
      /\ \A c \in Calls : call[c] = NoCall
    BY DEF Start, ManagerTypeOK, NoCallsWhenDown
<1>2. \A q \in Queues : Clamped(q) \in 0..Budget
    BY <1>1, ClampedBounds
<1>3. target' = [q \in Queues |-> Clamped(q)] /\ active' = target'
    BY DEF Start
<1>4. ManagerTypeOK'
    BY <1>2 DEF ManagerTypeOK, Start
<1>5. PoolOfTasks'
    BY <1>2 DEF PoolOfTasks, Tasks, Start
<1>6. NoCallsWhenDown' /\ CallsFit'
    BY <1>1 DEF NoCallsWhenDown, CallsFit
<1>7. Agreement'
    <2> SUFFICES ASSUME NEW q \in Queues \ excused'
                 PROVE  target'[q] = Effective(row'[q])
        BY <1>1 DEF Agreement, On
    <2>1. Clamped(q) = Effective(row[q])
        BY DEF Start
    <2> QED BY <1>1, <1>3, <2>1
<1>8. Overcommitted'
    <2>1. SumFunctionOnSet(target', Queues) <= Budget
        BY <1>1, <1>3, ClampedFit
    <2> QED BY <1>1, <2>1 DEF Overcommitted
<1> QED BY <1>4, <1>5, <1>6, <1>7, <1>8

LEMMA DownKeeps == ManagerInv /\ Down => ManagerInv'
<1> SUFFICES ASSUME ManagerInv, Down PROVE ManagerInv'
    OBVIOUS
<1> USE ManagerAssumption DEF ManagerInv, Down
<1>1. ManagerTypeOK'
    BY DEF ManagerTypeOK
<1>2. PoolOfTasks'
    BY DEF PoolOfTasks, Tasks
<1>3. NoCallsWhenDown' /\ CallsFit'
    BY DEF NoCallsWhenDown, CallsFit
<1>4. Agreement' /\ Overcommitted'
    BY DEF Agreement, Overcommitted
<1> QED BY <1>1, <1>2, <1>3, <1>4

\* Steps of the tasks: no row, target or call changes.
LEMMA TasksKeep ==
    ASSUME ManagerInv,
           Stop \/ \E q \in Queues : Reconcile(q) \/ Leave(q) \/ Crash(q)
    PROVE  ManagerInv'
<1> USE ManagerAssumption DEF ManagerInv
<1>1. /\ row' = row /\ target' = target /\ call' = call /\ excused' = excused
      /\ app' = "down" <=> app = "down"
      /\ app' \in {"down", "up", "draining"}
    BY DEF Stop, Reconcile, Leave, Crash, ManagerTypeOK
<1>2. /\ active' \in [Queues -> 0..Budget]
      /\ leaving' \in [Queues -> 0..Budget]
      /\ \A q \in Queues : Tasks(q)' <= Budget
    <2> USE DEF PoolOfTasks, Tasks, ManagerTypeOK
    <2>1. CASE Stop
        BY <2>1 DEF Stop
    <2>2. CASE \E q \in Queues : Leave(q)
        BY <2>2 DEF Leave
    <2>3. CASE \E q \in Queues : Crash(q)
        BY <2>3 DEF Crash
    <2>4. ASSUME NEW q \in Queues, Reconcile(q)
          PROVE  /\ active' \in [Queues -> 0..Budget]
                 /\ leaving' \in [Queues -> 0..Budget]
                 /\ \A p \in Queues : Tasks(p)' <= Budget
        <3>1. /\ Reconciled(q)[1] \in 0..Budget
              /\ Reconciled(q)[2] \in 0..Budget
              /\ Reconciled(q)[1] + Reconciled(q)[2] <= Budget
            BY DEF Reconciled
        <3> QED BY <2>4, <3>1 DEF Reconcile
    <2> QED BY <2>1, <2>2, <2>3, <2>4
<1>3. ManagerTypeOK'
    BY <1>1, <1>2 DEF ManagerTypeOK
<1>4. PoolOfTasks'
    BY <1>2 DEF PoolOfTasks
<1>5. NoCallsWhenDown' /\ CallsFit'
    BY <1>1 DEF NoCallsWhenDown, CallsFit
<1>6. Agreement'
    BY <1>1 DEF Agreement, On
<1>7. Overcommitted'
    BY <1>1 DEF Overcommitted, Commitment, Committed
<1> QED BY <1>3, <1>4, <1>5, <1>6, <1>7

\* What the transaction of a request leaves.
LEMMA CommitLeaves ==
    ASSUME ManagerInv, NEW c \in Calls, NEW q \in Queues,
           NEW state \in Optional({"running", "paused"}), NEW concurrency \in Optional(Sizes),
           CommitState(c, q, state, concurrency)
    PROVE  LET asked == Effective(row'[q]) IN
           /\ row' \in [Queues -> Rows]
           /\ \A p \in Queues \ {q} : row'[p] = row[p]
           /\ asked \in Nat
           /\ Committed(Queues \ {q}) \in Nat
           /\ asked > 0 => Committed(Queues \ {q}) + asked <= Budget
           /\ Commitment' = asked + Committed(Queues \ {q})
           /\ Commitment = Effective(row[q]) + Committed(Queues \ {q})
           /\ Effective(row[q]) \in Nat
<1> DEFINE r == Requested(q, state, concurrency)
<1>1. row \in [Queues -> Rows] /\ Budget \in Nat
    BY ManagerAssumption DEF ManagerInv, ManagerTypeOK
<1>2. r \in Rows
    <2>1. row[q].state \in {"running", "paused"} /\ row[q].concurrency \in Sizes
        BY <1>1 DEF Rows
    <2>2. state # {} => (CHOOSE s \in state : TRUE) \in {"running", "paused"}
        BY DEF Optional
    <2>3. concurrency # {} => (CHOOSE n \in concurrency : TRUE) \in Sizes
        BY DEF Optional
    <2> QED BY <2>1, <2>2, <2>3 DEF Requested, Rows
<1>3. row' = [row EXCEPT ![q] = r] /\ Fits(q, state, concurrency)
    BY DEF CommitState
<1> HIDE DEF r
<1>4. row' \in [Queues -> Rows] /\ row'[q] = r /\ \A p \in Queues \ {q} : row'[p] = row[p]
    BY <1>1, <1>2, <1>3
<1>5. Effective(r) \in Nat /\ Effective(row[q]) \in Nat
    BY <1>1, <1>2, EffectiveIsNat
<1>6. Committed(Queues \ {q}) \in Nat
    BY <1>1, CommittedIsNat
<1>7. Effective(r) > 0 => Committed(Queues \ {q}) + Effective(r) <= Budget
    BY <1>3 DEF Fits, r
<1>8. Commitment = Effective(row[q]) + Committed(Queues \ {q})
    BY <1>1, CommitmentSplits
<1>9. Commitment' = Effective(row'[q]) + Committed(Queues \ {q})
    <2>1. Commitment' = Effective(row'[q]) + Committed(Queues \ {q})'
        <3>1. SumFunctionOnSet([p \in Queues |-> Effective(row'[p])], Queues)
                  = Effective(row'[q]) + SumFunctionOnSet([p \in Queues |-> Effective(row'[p])], Queues \ {q})
            <4> DEFINE f == [p \in Queues |-> Effective(row'[p])]
            <4>1. IsFiniteSet(Queues) /\ \A p \in Queues : f[p] \in Nat
                BY <1>4, QueuesAreFinite, EffectiveIsNat
            <4>2. f[q] = Effective(row'[q])
                OBVIOUS
            <4> HIDE DEF f
            <4>3. SumFunctionOnSet(f, Queues) = f[q] + SumFunctionOnSet(f, Queues \ {q})
                BY <4>1, SumRemove
            <4> QED BY <4>2, <4>3 DEF f
        <3> QED BY <3>1 DEF Commitment, Committed, Effective
    <2>2. Committed(Queues \ {q})' = Committed(Queues \ {q})
        BY <1>1, <1>4, OthersStay
    <2> QED BY <2>1, <2>2
<1> QED BY <1>4, <1>5, <1>6, <1>7, <1>8, <1>9

LEMMA CommitKeeps ==
    ASSUME ManagerInv, NEW c \in Calls, NEW q \in Queues,
           NEW state \in Optional({"running", "paused"}), NEW concurrency \in Optional(Sizes),
           CommitState(c, q, state, concurrency)
    PROVE  ManagerInv'
<1> DEFINE asked == Effective(row'[q])
           others == Committed(Queues \ {q})
<1>1. /\ row' \in [Queues -> Rows]
      /\ \A p \in Queues \ {q} : row'[p] = row[p]
      /\ asked \in Nat /\ others \in Nat /\ Effective(row[q]) \in Nat
      /\ asked > 0 => others + asked <= Budget
      /\ Commitment' = asked + others
      /\ Commitment = Effective(row[q]) + others
    BY CommitLeaves
<1> HIDE DEF asked, others
<1>2. /\ app # "down" /\ app' = app /\ target' = target /\ active' = active /\ leaving' = leaving
      /\ call[c] = NoCall
      /\ call' = [call EXCEPT ![c] = [pc |-> "read", queue |-> q]]
    BY DEF CommitState
<1>3. excused' = IF \E d \in Calls \ {c} : call[d] # NoCall /\ call[d].queue = q
                 THEN excused \cup {q} ELSE excused \ {q}
    BY DEF CommitState
<1>4. Budget \in Nat /\ asked <= Budget
    BY <1>1, ManagerAssumption
<1>5. call \in [Calls -> {NoCall} \cup [pc : {"read"}, queue : Queues]
                                  \cup [pc : {"apply"}, queue : Queues, to : 0..Budget]]
    BY DEF ManagerInv, ManagerTypeOK
<1>6. /\ call'[c] = [pc |-> "read", queue |-> q] /\ \A d \in Calls \ {c} : call'[d] = call[d]
      /\ call'[c] # NoCall /\ call'[c].queue = q /\ call'[c].pc = "read"
    BY <1>2, <1>5 DEF NoCall
<1>7. ManagerTypeOK'
    BY <1>1, <1>2, <1>3 DEF ManagerInv, ManagerTypeOK
<1>8. PoolOfTasks' /\ NoCallsWhenDown'
    BY <1>2 DEF ManagerInv, PoolOfTasks, Tasks, NoCallsWhenDown
<1>9. CallsFit'
    <2> SUFFICES ASSUME NEW d \in Calls, call'[d] # NoCall
                 PROVE  Effective(row'[call'[d].queue]) <= Budget
        BY <1>2, <1>6 DEF CallsFit, Effective
    <2>1. CASE d = c
        BY <1>4, <1>6, <2>1 DEF asked
    <2>2. CASE d # c
        <3>1. call'[d] = call[d] /\ call[d].queue \in Queues
            BY <1>6, <2>2, CallShapes DEF ManagerInv
        <3>2. Effective(row[call[d].queue]) <= Budget
            BY <3>1 DEF ManagerInv, CallsFit
        <3> QED BY <1>1, <1>4, <3>1, <3>2 DEF asked
    <2> QED BY <2>1, <2>2
<1>10. Agreement'
    <2> SUFFICES ASSUME NEW p \in Queues \ excused'
                 PROVE  /\ \A d, e \in Calls : On(d, p)' /\ On(e, p)' => d = e
                        /\ (\A d \in Calls : ~On(d, p)') => target'[p] = Effective(row'[p])
                        /\ \A d \in Calls : On(d, p)' /\ call'[d].pc = "apply"
                                                => call'[d].to = Effective(row'[p])
        BY DEF Agreement, Effective
    <2>1. CASE p = q
        <3>1. \A d \in Calls \ {c} : ~On(d, q)'
            BY <1>3, <1>6, <2>1 DEF On
        <3>2. On(c, q)' /\ call'[c].pc # "apply"
            BY <1>6 DEF On
        <3> QED BY <2>1, <3>1, <3>2
    <2>2. CASE p # q
        <3>1. ~On(c, p) /\ ~On(c, p)' /\ \A d \in Calls : On(d, p)' <=> On(d, p)
            BY <1>2, <1>6, <2>2 DEF On
        <3>2. \A d \in Calls : On(d, p)' => call'[d] = call[d]
            BY <1>6, <3>1
        <3>3. p \in Queues \ excused /\ row'[p] = row[p]
            BY <1>1, <1>3, <2>2
        <3> QED BY <1>2, <3>1, <3>2, <3>3 DEF ManagerInv, Agreement
    <2> QED BY <2>1, <2>2
<1>11. Overcommitted'
    <2> SUFFICES ASSUME Commitment' > Budget
                 PROVE  /\ SumFunctionOnSet(target', Queues) <= Budget
                        /\ \A d \in Calls : call'[d] # NoCall =>
                              /\ Effective(row'[call'[d].queue]) = 0
                              /\ call'[d].pc = "apply" => call'[d].to = 0
        BY <1>2 DEF Overcommitted, Effective
    <2>1. asked = 0 /\ Commitment > Budget
        BY <1>1, <1>4
    <2>2. /\ SumFunctionOnSet(target, Queues) <= Budget
          /\ \A d \in Calls : call[d] # NoCall =>
                /\ Effective(row[call[d].queue]) = 0
                /\ call[d].pc = "apply" => call[d].to = 0
        BY <1>2, <2>1 DEF ManagerInv, Overcommitted
    <2>3. ASSUME NEW d \in Calls, call'[d] # NoCall
          PROVE  /\ Effective(row'[call'[d].queue]) = 0
                 /\ call'[d].pc = "apply" => call'[d].to = 0
        <3>1. CASE d = c
            BY <1>6, <2>1, <3>1 DEF asked
        <3>2. CASE d # c
            <4>1. call'[d] = call[d] /\ call[d].queue \in Queues
                BY <1>6, <2>3, <3>2, CallShapes DEF ManagerInv
            <4> QED BY <1>1, <2>1, <2>2, <2>3, <4>1 DEF asked
        <3> QED BY <3>1, <3>2
    <2> QED BY <1>2, <2>2, <2>3
<1> QED BY <1>7, <1>8, <1>9, <1>10, <1>11 DEF ManagerInv

LEMMA ReadBackKeeps ==
    ASSUME ManagerInv, NEW c \in Calls, ReadBack(c)
    PROVE  ManagerInv'
<1> DEFINE q == call[c].queue
<1>1. /\ call[c].pc = "read" /\ call[c] # NoCall /\ q \in Queues
    BY CallShapes DEF ReadBack, ManagerInv
<1>2. /\ app' = app /\ row' = row /\ target' = target /\ active' = active /\ leaving' = leaving
      /\ excused' = excused
      /\ call' = [call EXCEPT ![c] = [pc |-> "apply", queue |-> q, to |-> Effective(row[q])]]
    BY DEF ReadBack
<1>3. Effective(row[q]) \in 0..Budget
    BY <1>1, ManagerAssumption, EffectiveIsNat DEF ManagerInv, ManagerTypeOK, CallsFit
<1>4. call \in [Calls -> {NoCall} \cup [pc : {"read"}, queue : Queues]
                                  \cup [pc : {"apply"}, queue : Queues, to : 0..Budget]]
    BY DEF ManagerInv, ManagerTypeOK
<1> HIDE DEF q
<1>5. /\ call'[c] = [pc |-> "apply", queue |-> q, to |-> Effective(row[q])]
      /\ call'[c] # NoCall /\ call'[c].queue = q /\ call'[c].to = Effective(row[q])
      /\ \A d \in Calls \ {c} : call'[d] = call[d]
    BY <1>2, <1>4 DEF NoCall
<1>6. \A d \in Calls, p \in Queues : On(d, p)' <=> On(d, p)
    BY <1>1, <1>5 DEF On, q
<1>7. ManagerTypeOK'
    BY <1>1, <1>2, <1>3 DEF ManagerInv, ManagerTypeOK
<1>8. PoolOfTasks' /\ NoCallsWhenDown'
    BY <1>1, <1>2 DEF ManagerInv, PoolOfTasks, Tasks, NoCallsWhenDown
<1>9. CallsFit'
    BY <1>2, <1>3, <1>5 DEF ManagerInv, CallsFit
<1>10. Agreement'
    <2> SUFFICES ASSUME app # "down", NEW p \in Queues \ excused
                 PROVE  /\ \A d, e \in Calls : On(d, p)' /\ On(e, p)' => d = e
                        /\ (\A d \in Calls : ~On(d, p)') => target'[p] = Effective(row'[p])
                        /\ \A d \in Calls : On(d, p)' /\ call'[d].pc = "apply"
                                                => call'[d].to = Effective(row'[p])
        BY <1>2 DEF Agreement, Effective
    <2>1. \A d \in Calls : On(d, p)' /\ call'[d].pc = "apply" => call'[d].to = Effective(row'[p])
        BY <1>2, <1>5, <1>6 DEF ManagerInv, Agreement, On
    <2> QED BY <1>2, <1>6, <2>1 DEF ManagerInv, Agreement
<1>11. Overcommitted'
    <2>1. Commitment' = Commitment
        BY <1>2 DEF Commitment, Committed
    <2> QED BY <1>1, <1>2, <1>5, <2>1 DEF ManagerInv, Overcommitted, q
<1> QED BY <1>7, <1>8, <1>9, <1>10, <1>11 DEF ManagerInv

LEMMA ApplyKeeps ==
    ASSUME ManagerInv, NEW c \in Calls, Apply(c)
    PROVE  ManagerInv'
<1> DEFINE q == call[c].queue
           to == call[c].to
<1>1. /\ call[c].pc = "apply" /\ call[c] # NoCall /\ q \in Queues /\ to \in 0..Budget
    BY CallShapes DEF Apply, ManagerInv
<1>2. /\ app' = app /\ row' = row /\ active' = active /\ leaving' = leaving
      /\ excused' = excused
      /\ target' = [target EXCEPT ![q] = to]
      /\ call' = [call EXCEPT ![c] = NoCall]
    BY DEF Apply
<1>3. /\ call \in [Calls -> {NoCall} \cup [pc : {"read"}, queue : Queues]
                                     \cup [pc : {"apply"}, queue : Queues, to : 0..Budget]]
      /\ target \in [Queues -> 0..Budget] /\ Budget \in Nat
    BY ManagerAssumption DEF ManagerInv, ManagerTypeOK
<1>4. call'[c] = NoCall /\ \A d \in Calls \ {c} : call'[d] = call[d]
    BY <1>2, <1>3
<1>5. target'[q] = to /\ (\A p \in Queues \ {q} : target'[p] = target[p]) /\ target' \in [Queues -> 0..Budget]
    BY <1>1, <1>2, <1>3
<1>6. On(c, q) /\ \A p \in Queues : ~On(c, p)' /\ \A d \in Calls \ {c} : On(d, p)' <=> On(d, p)
    BY <1>1, <1>4 DEF On
<1>7. ManagerTypeOK'
    BY <1>2, <1>5 DEF ManagerInv, ManagerTypeOK
<1>8. PoolOfTasks' /\ NoCallsWhenDown' /\ CallsFit'
    BY <1>2, <1>4 DEF ManagerInv, PoolOfTasks, Tasks, NoCallsWhenDown, CallsFit
<1>9. Agreement'
    <2> SUFFICES ASSUME app # "down", NEW p \in Queues \ excused
                 PROVE  /\ \A d, e \in Calls : On(d, p)' /\ On(e, p)' => d = e
                        /\ (\A d \in Calls : ~On(d, p)') => target'[p] = Effective(row[p])
                        /\ \A d \in Calls : On(d, p)' /\ call'[d].pc = "apply"
                                                => call'[d].to = Effective(row[p])
        BY <1>2 DEF Agreement, Effective
    <2>1. CASE p = q
        <3>1. to = Effective(row[q]) /\ \A d \in Calls \ {c} : ~On(d, q)
            BY <1>1, <1>6, <2>1 DEF ManagerInv, Agreement
        <3> QED BY <1>5, <1>6, <2>1, <3>1
    <2>2. CASE p # q
        <3>1. ~On(c, p) /\ target'[p] = target[p]
            BY <1>5, <2>2 DEF On
        <3> QED BY <1>4, <1>6, <3>1 DEF ManagerInv, Agreement
    <2> QED BY <2>1, <2>2
<1>10. Overcommitted'
    <2>1. Commitment' = Commitment
        BY <1>2 DEF Commitment, Committed
    <2> SUFFICES ASSUME app # "down", Commitment > Budget
                 PROVE  /\ SumFunctionOnSet(target', Queues) <= Budget
                        /\ \A d \in Calls : call'[d] # NoCall =>
                              /\ Effective(row[call'[d].queue]) = 0
                              /\ call'[d].pc = "apply" => call'[d].to = 0
        BY <1>2, <2>1 DEF Overcommitted, Effective
    <2>2. /\ SumFunctionOnSet(target, Queues) <= Budget
          /\ \A d \in Calls : call[d] # NoCall =>
                /\ Effective(row[call[d].queue]) = 0
                /\ call[d].pc = "apply" => call[d].to = 0
        BY DEF ManagerInv, Overcommitted
    <2>3. \A p \in Queues : target'[p] \in Nat /\ target[p] \in Nat /\ target'[p] <= target[p]
        BY <1>1, <1>3, <1>5, <2>2
    <2>4. /\ SumFunctionOnSet(target', Queues) <= SumFunctionOnSet(target, Queues)
          /\ SumFunctionOnSet(target', Queues) \in Nat /\ SumFunctionOnSet(target, Queues) \in Nat
        BY <2>3, QueuesAreFinite, SumMonotonic
    <2> QED BY <1>3, <1>4, <2>2, <2>4
<1> QED BY <1>7, <1>8, <1>9, <1>10 DEF ManagerInv

LEMMA ManagerInductive == ManagerInv /\ [ManagerNext]_managerVars => ManagerInv'
<1> SUFFICES ASSUME ManagerInv, [ManagerNext]_managerVars PROVE ManagerInv'
    OBVIOUS
<1>1. CASE Start
    BY <1>1, StartKeeps
<1>2. CASE Down
    BY <1>2, DownKeeps
<1>3. CASE Operator
    BY <1>3, CommitKeeps DEF Operator
<1>4. CASE \E c \in Calls : CallStep(c)
    BY <1>4, ReadBackKeeps, ApplyKeeps DEF CallStep
<1>5. CASE Stop \/ \E q \in Queues : Reconcile(q) \/ Leave(q) \/ Crash(q)
    BY <1>5, TasksKeep
<1>6. CASE UNCHANGED managerVars
    BY <1>6 DEF managerVars, ManagerInv, ManagerTypeOK, PoolOfTasks, Tasks, NoCallsWhenDown,
                CallsFit, Agreement, On, Overcommitted, Commitment, Committed, Effective
<1> QED BY <1>1, <1>2, <1>3, <1>4, <1>5, <1>6 DEF ManagerNext

------------------------------------------------------------------------------
\* The inductive invariant of requests, supervisors and restarts: whatever calls
\* of set_state overlap, start and stop, each queue is as its row and its calls
\* make it.
THEOREM ManagerInvariant == ManagerSpec => []ManagerInv
<1> QED BY ManagerInitInv, ManagerInductive, PTL DEF ManagerSpec

\* Rows, targets, task counts and calls keep their domains for any queues, any
\* budget and any number of overlapping set_state calls: no target and no
\* number of tasks of one queue exceeds the budget.
THEOREM ManagerTypeCorrect == ManagerSpec => []ManagerTypeOK
<1>1. ManagerInv => ManagerTypeOK
    BY DEF ManagerInv
<1> QED BY <1>1, ManagerInvariant, PTL

\* When no set_state call is under way, the supervisor of every queue runs what
\* the queue's row says, unless start clamped it or its last requests overlapped.
THEOREM AppliedAndPersisted == ManagerSpec => []AppliedIsPersisted
<1>1. ManagerInv => AppliedIsPersisted
    BY DEF ManagerInv, Agreement, AppliedIsPersisted, Quiet, On
<1> QED BY <1>1, ManagerInvariant, PTL

\* When no call is under way, the targets of all supervisors together fit the
\* database pool, after any sequence of requests, clamped starts and restarts.
THEOREM TargetsFit == ManagerSpec => []TargetsWithinBudget
<1>1. ManagerInv => TargetsWithinBudget
    <2> SUFFICES ASSUME ManagerInv, Quiet, \A q \in excused : target[q] <= Effective(row[q])
                 PROVE  SumFunction(target) <= Budget
        BY DEF TargetsWithinBudget
    <2>1. /\ row \in [Queues -> Rows] /\ target \in [Queues -> 0..Budget] /\ Budget \in Nat
          /\ app = "up"
        BY ManagerAssumption DEF ManagerInv, ManagerTypeOK, Quiet
    <2>2. SumFunction(target) = SumFunctionOnSet(target, Queues)
        BY <2>1 DEF SumFunction
    <2>3. CASE Commitment > Budget
        BY <2>1, <2>2, <2>3 DEF ManagerInv, Overcommitted
    <2>4. CASE ~(Commitment > Budget)
        <3> DEFINE f == [q \in Queues |-> Effective(row[q])]
        <3>1. \A q \in Queues \ excused : target[q] = Effective(row[q])
            BY DEF ManagerInv, Agreement, Quiet, On
        <3>2. \A q \in Queues : target[q] \in Nat /\ f[q] \in Nat /\ target[q] <= f[q]
            BY <2>1, <3>1, EffectiveIsNat
        <3>3. Commitment = SumFunctionOnSet(f, Queues)
            BY DEF Commitment, Committed
        <3> HIDE DEF f
        <3>4. /\ SumFunctionOnSet(target, Queues) <= SumFunctionOnSet(f, Queues)
              /\ SumFunctionOnSet(target, Queues) \in Nat /\ SumFunctionOnSet(f, Queues) \in Nat
            BY <3>2, QueuesAreFinite, SumMonotonic
        <3> QED BY <2>1, <2>2, <2>4, <3>3, <3>4
    <2> QED BY <2>3, <2>4
<1> QED BY <1>1, ManagerInvariant, PTL

\* Once the persisted rows of all running queues fit the pool, no request makes
\* them exceed it: set_state checks the sum under the advisory lock.
THEOREM RowsFit == ManagerSpec => RowsWithinBudget
<1>1. ManagerInv /\ [ManagerNext]_managerVars
          => [Commitment <= Budget => (Commitment <= Budget)']_managerVars
    <2> SUFFICES ASSUME ManagerInv, ManagerNext, Commitment <= Budget
                 PROVE  Commitment' <= Budget
        OBVIOUS
    <2>1. CASE Operator
        <3> PICK c \in Calls, q \in Queues, state \in Optional({"running", "paused"}),
                 concurrency \in Optional(Sizes) : CommitState(c, q, state, concurrency)
            BY <2>1 DEF Operator
        <3> DEFINE asked == Effective(row'[q])
                   others == Committed(Queues \ {q})
        <3>1. /\ asked \in Nat /\ others \in Nat /\ Effective(row[q]) \in Nat
              /\ asked > 0 => others + asked <= Budget
              /\ Commitment' = asked + others
              /\ Commitment = Effective(row[q]) + others
            BY CommitLeaves
        <3> HIDE DEF asked, others
        <3> QED BY <3>1, ManagerAssumption
    <2>2. CASE ~Operator
        <3>1. row' = row
            BY <2>2 DEF ManagerNext, Start, Stop, Down, CallStep, ReadBack, Apply,
                        Reconcile, Leave, Crash
        <3> QED BY <3>1 DEF Commitment, Committed
    <2> QED BY <2>1, <2>2
<1> QED BY <1>1, ManagerInvariant, PTL DEF ManagerSpec, RowsWithinBudget
==============================================================================
