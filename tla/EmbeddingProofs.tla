--------------------------- MODULE EmbeddingProofs ---------------------------
(***************************************************************************)
(* Proofs about what an embedding waits for.                               *)
(* The arrival gate, for any rows, keys and folders: that a run never      *)
(* precedes its embedding needs no more than the types; that history never *)
(* runs rests on the watermark, HistoryIsMarked.                           *)
(* A provider's breaker, for any number of callers, any intervals and any  *)
(* number of outages: the row alone keeps probes apart, and no caller      *)
(* remembers when the last one was, ProbeHoldsOff.                         *)
(***************************************************************************)
EXTENDS ArrivalGate, ProviderCircuit, TLAPS

\* A claimed embedding was charged an attempt, which a release refunds.
ClaimIsCharged == \A k \in Keys : emb[k].status = "claimed" => emb[k].tries > 0

\* A folder's watermark, and the event that will set it, come after its first sync.
MarkFollowsSync ==
    \A f \in Folders : (mark[f] # None \/ f \in synced) => lastSync[f] # None

\* Mail of a first sync, while nobody moves it, is in every stamp its folder
\* was given since, and so below its watermark.
HistoryIsMarked ==
    \A m \in Live \ moved : entered[m] = None =>
        /\ lastSync[at[m]] # None => m \in lastSync[at[m]]
        /\ mark[at[m]] # None => m \in mark[at[m]]

GateInv ==
    /\ GateTypeOK
    /\ ClaimIsCharged
    /\ GateHolds
    /\ MarkFollowsSync
    /\ HistoryIsMarked
    /\ HistoryNeverRuns

\* Nothing is there at first.
LEMMA InitGateInv == GateInit => GateInv
<1> SUFFICES ASSUME GateInit PROVE GateInv
    OBVIOUS
<1> USE ArrivalAssumption
<1>1. GateTypeOK
    BY DEF GateInit, GateTypeOK, Embedding
<1>2. ClaimIsCharged /\ GateHolds /\ MarkFollowsSync
    BY DEF GateInit, ClaimIsCharged, GateHolds, MarkFollowsSync
<1>3. HistoryIsMarked
    BY DEF GateInit, HistoryIsMarked, Live
<1>4. HistoryNeverRuns
    BY DEF GateInit, HistoryNeverRuns, Keys
<1> QED BY <1>1, <1>2, <1>3, <1>4 DEF GateInv

\* What is live-eligible arrived after its folder's first sync, or was moved.
LEMMA EligibleIsNoHistory ==
    ASSUME GateInv, NEW m \in Live, Eligible(m)
    PROVE  entered[m] = None => m \in moved
<1>1. mark[at[m]] # None /\ m \notin mark[at[m]]
    BY ArrivalAssumption DEF GateInv, GateTypeOK, Eligible
<1> QED BY <1>1 DEF GateInv, HistoryIsMarked

\* What PostIMAP and people do changes no embedding and no run.
LEMMA WorldKeepsGateInv == GateInv /\ World => GateInv'
<1> SUFFICES ASSUME GateInv, World PROVE GateInv'
    OBVIOUS
<1> USE ArrivalAssumption DEF GateInv
<1>1. UNCHANGED <<emb, runOf>>
    BY DEF World, BackfillRow, ArriveRow, MoveRow, ExpungeRow, AgeRow, SyncFolder, LoseEvents
<1>2. ClaimIsCharged' /\ GateHolds'
    BY <1>1 DEF ClaimIsCharged, GateHolds
<1>3. ASSUME NEW m \in Rows, NEW f \in Folders, BackfillRow(m, f) PROVE GateInv'
    <2>1. GateTypeOK'
        BY <1>3 DEF BackfillRow, GateTypeOK
    <2>2. MarkFollowsSync' /\ HistoryNeverRuns'
        BY <1>3 DEF BackfillRow, MarkFollowsSync, HistoryNeverRuns
    <2>3. HistoryIsMarked'
        BY <1>3 DEF BackfillRow, HistoryIsMarked, MarkFollowsSync, Live, GateTypeOK
    <2> QED BY <1>2, <2>1, <2>2, <2>3
<1>4. ASSUME NEW m \in Rows, NEW f \in Folders, ArriveRow(m, f) PROVE GateInv'
    <2>1. GateTypeOK'
        BY <1>4 DEF ArriveRow, GateTypeOK
    <2>2. MarkFollowsSync' /\ HistoryNeverRuns'
        BY <1>4 DEF ArriveRow, MarkFollowsSync, HistoryNeverRuns, GateTypeOK
    <2>3. HistoryIsMarked'
        BY <1>4 DEF ArriveRow, HistoryIsMarked, Live, GateTypeOK
    <2> QED BY <1>2, <2>1, <2>2, <2>3
<1>5. ASSUME NEW m \in Rows, NEW f \in Folders, MoveRow(m, f) PROVE GateInv'
    <2>1. GateTypeOK'
        BY <1>5 DEF MoveRow, GateTypeOK
    <2>2. MarkFollowsSync'
        BY <1>5 DEF MoveRow, MarkFollowsSync
    <2>3. moved' = moved \cup {m}
        BY <1>5 DEF MoveRow
    <2>4. HistoryIsMarked' /\ HistoryNeverRuns'
        BY <1>5, <2>3 DEF MoveRow, HistoryIsMarked, HistoryNeverRuns, Live, GateTypeOK
    <2> QED BY <1>2, <2>1, <2>2, <2>4
<1>6. ASSUME NEW m \in Rows, ExpungeRow(m) PROVE GateInv'
    <2>1. GateTypeOK'
        BY <1>6 DEF ExpungeRow, GateTypeOK
    <2>2. MarkFollowsSync' /\ HistoryNeverRuns'
        BY <1>6 DEF ExpungeRow, MarkFollowsSync, HistoryNeverRuns
    <2>3. HistoryIsMarked'
        BY <1>6 DEF ExpungeRow, HistoryIsMarked, Live, GateTypeOK
    <2> QED BY <1>2, <2>1, <2>2, <2>3
<1>7. ASSUME NEW m \in Rows, AgeRow(m) PROVE GateInv'
    <2>1. GateTypeOK'
        BY <1>7 DEF AgeRow, GateTypeOK
    <2>2. MarkFollowsSync' /\ HistoryNeverRuns' /\ HistoryIsMarked'
        BY <1>7 DEF AgeRow, MarkFollowsSync, HistoryNeverRuns, HistoryIsMarked, Live
    <2> QED BY <1>2, <2>1, <2>2
<1>8. ASSUME NEW f \in Folders, SyncFolder(f) PROVE GateInv'
    <2>1. Live \subseteq Born /\ Born \subseteq Rows
        BY DEF Live, Born
    <2>2. GateTypeOK'
        BY <1>8, <2>1 DEF SyncFolder, GateTypeOK
    <2>3. MarkFollowsSync' /\ HistoryNeverRuns'
        <3>1. Born # None
            BY <2>1
        <3> QED BY <1>8, <3>1 DEF SyncFolder, MarkFollowsSync, HistoryNeverRuns, GateTypeOK
    <2>4. HistoryIsMarked'
        BY <1>8, <2>1 DEF SyncFolder, HistoryIsMarked, Live, GateTypeOK
    <2> QED BY <1>2, <2>2, <2>3, <2>4
<1>9. CASE LoseEvents
    <2>1. GateTypeOK'
        BY <1>9 DEF LoseEvents, world, GateTypeOK
    <2>2. MarkFollowsSync' /\ HistoryNeverRuns' /\ HistoryIsMarked'
        BY <1>9 DEF LoseEvents, world, MarkFollowsSync, HistoryNeverRuns, HistoryIsMarked, Live
    <2> QED BY <1>2, <2>1, <2>2
<1> QED BY <1>3, <1>4, <1>5, <1>6, <1>7, <1>8, <1>9 DEF World

\* The listener's handlers enqueue embeddings and write watermarks.
LEMMA DispatchKeepsGateInv == GateInv /\ Dispatch => GateInv'
<1> SUFFICES ASSUME GateInv, Dispatch PROVE GateInv'
    OBVIOUS
<1> USE ArrivalAssumption DEF GateInv
<1>1. ASSUME NEW m \in Rows, HandleInsert(m) PROVE GateInv'
    <2>1. UNCHANGED <<world, mark, synced, runOf, gaps>> /\ Key[m] \in Keys
        BY <1>1 DEF HandleInsert, Keys
    <2>2. /\ Enqueued(m) \in Embedding
          /\ emb[Key[m]].status = "none" => Enqueued(m).status = "pending"
          /\ emb[Key[m]].status # "none" =>
                /\ Enqueued(m).status = emb[Key[m]].status
                /\ Enqueued(m).tries = emb[Key[m]].tries
        BY <2>1 DEF Enqueued, NewEmbedding, Repoint, Embedding, GateTypeOK
    <2>3. emb' \in [Keys -> Embedding]
        BY <1>1, <2>1, <2>2 DEF HandleInsert, GateTypeOK
    <2>4. GateTypeOK'
        BY <1>1, <2>1, <2>3 DEF HandleInsert, world, GateTypeOK
    <2>5. ClaimIsCharged'
        BY <1>1, <2>1, <2>2 DEF HandleInsert, ClaimIsCharged, GateTypeOK
    <2>6. GateHolds'
        BY <1>1, <2>1, <2>2 DEF HandleInsert, GateHolds, GateTypeOK, Terminal
    <2>7. MarkFollowsSync' /\ HistoryIsMarked' /\ HistoryNeverRuns'
        BY <2>1 DEF world, MarkFollowsSync, HistoryIsMarked, HistoryNeverRuns, Live
    <2> QED BY <2>4, <2>5, <2>6, <2>7
<1>2. ASSUME NEW f \in Folders, RecordWatermark(f) PROVE GateInv'
    <2>1. UNCHANGED <<world, inserts, emb, runOf, gaps>>
        BY <1>2 DEF RecordWatermark
    <2>2. GateTypeOK'
        BY <1>2 DEF RecordWatermark, world, GateTypeOK
    <2>3. ClaimIsCharged' /\ GateHolds' /\ HistoryNeverRuns'
        BY <2>1 DEF world, ClaimIsCharged, GateHolds, HistoryNeverRuns
    <2>4. MarkFollowsSync' /\ HistoryIsMarked'
        BY <1>2, <2>1 DEF RecordWatermark, world, MarkFollowsSync, HistoryIsMarked, Live, GateTypeOK
    <2> QED BY <2>2, <2>3, <2>4
<1> QED BY <1>1, <1>2 DEF Dispatch

\* The backfill sweep enqueues embeddings like the handler does.
LEMMA SweepKeepsGateInv == GateInv /\ Sweep => GateInv'
<1> SUFFICES ASSUME GateInv, Sweep PROVE GateInv'
    OBVIOUS
<1> USE ArrivalAssumption DEF GateInv
<1>0. Window \subseteq Rows
    BY DEF Window, Candidates, Live
<1>1. PICK pick \in [{Key[m] : m \in Window} -> Window] :
            /\ \A k \in DOMAIN pick : Key[pick[k]] = k
            /\ emb' = [k \in Keys |-> IF k \in DOMAIN pick THEN Enqueued(pick[k]) ELSE emb[k]]
            /\ UNCHANGED <<world, mark, inserts, synced, runOf, gaps>>
    BY DEF Sweep
<1>2. \A k \in Keys :
         /\ emb'[k] \in Embedding
         /\ emb[k].status = "none" => emb'[k].status \in {"none", "pending"}
         /\ emb[k].status # "none" =>
               emb'[k].status = emb[k].status /\ emb'[k].tries = emb[k].tries
    <2> SUFFICES ASSUME NEW k \in Keys
                 PROVE  /\ emb'[k] \in Embedding
                        /\ emb[k].status = "none" => emb'[k].status \in {"none", "pending"}
                        /\ emb[k].status # "none" =>
                              emb'[k].status = emb[k].status /\ emb'[k].tries = emb[k].tries
        OBVIOUS
    <2>1. CASE k \in DOMAIN pick
        <3>1. pick[k] \in Rows /\ Key[pick[k]] = k /\ emb'[k] = Enqueued(pick[k])
            BY <1>0, <1>1, <2>1
        <3> QED BY <3>1 DEF Enqueued, NewEmbedding, Repoint, Embedding, GateTypeOK
    <2>2. CASE k \notin DOMAIN pick
        BY <1>1, <2>2 DEF GateTypeOK, Embedding
    <2> QED BY <2>1, <2>2
<1>3. GateTypeOK'
    <2>1. emb' \in [Keys -> Embedding]
        BY <1>1, <1>2
    <2> QED BY <1>1, <2>1 DEF world, GateTypeOK
<1>4. ClaimIsCharged' /\ GateHolds'
    BY <1>1, <1>2 DEF ClaimIsCharged, GateHolds, GateTypeOK, Terminal
<1>5. MarkFollowsSync' /\ HistoryIsMarked' /\ HistoryNeverRuns'
    BY <1>1 DEF world, MarkFollowsSync, HistoryIsMarked, HistoryNeverRuns, Live
<1> QED BY <1>3, <1>4, <1>5

\* The gap pass inserts runs of mail that is eligible and embedded.
LEMMA ReconcileKeepsGateInv == GateInv /\ Reconcile => GateInv'
<1> SUFFICES ASSUME GateInv, Reconcile PROVE GateInv'
    OBVIOUS
<1> USE ArrivalAssumption DEF GateInv
<1>1. UNCHANGED <<world, mark, inserts, synced, emb, gaps>>
    BY DEF Reconcile
<1>2. \A k \in Keys :
         runOf'[k] # runOf[k] => runOf'[k] \in Missed /\ Key[runOf'[k]] = k
    BY DEF Reconcile
<1>3. Missed \subseteq Rows
    BY DEF Missed, Live
<1>4. GateTypeOK'
    <2>1. runOf' \in [Keys -> Rows \cup {None}]
        BY <1>3 DEF Reconcile, GateTypeOK
    <2> QED BY <1>1, <2>1 DEF world, GateTypeOK
<1>5. ClaimIsCharged' /\ MarkFollowsSync' /\ HistoryIsMarked'
    BY <1>1 DEF world, ClaimIsCharged, MarkFollowsSync, HistoryIsMarked, Live
<1>6. GateHolds'
    <2> SUFFICES ASSUME NEW k \in Keys, runOf'[k] # None, runOf'[k] # runOf[k]
                 PROVE  emb[k].status \in Terminal
        BY <1>1 DEF GateHolds
    <2> QED BY <1>2 DEF Missed
<1>7. HistoryNeverRuns'
    <2> SUFFICES ASSUME NEW m \in Rows, runOf'[Key[m]] = m, entered[m] = None
                 PROVE  m \in moved
        BY <1>1 DEF world, HistoryNeverRuns
    <2>1. Key[m] \in Keys
        BY DEF Keys
    <2>2. CASE runOf[Key[m]] = m
        BY <2>2 DEF HistoryNeverRuns
    <2>3. CASE runOf[Key[m]] # m
        <3>1. m \in Live /\ Eligible(m)
            BY <1>2, <2>1, <2>3 DEF Missed
        <3> QED BY <3>1, EligibleIsNoHistory
    <2> QED BY <2>2, <2>3
<1> QED BY <1>4, <1>5, <1>6, <1>7

\* The end of an embedding inserts the run in the same transaction.
LEMMA WorkKeepsGateInv ==
    ASSUME GateInv, NEW k \in Keys, WorkOn(k)
    PROVE  GateInv'
<1> USE ArrivalAssumption DEF GateInv
<1>1. UNCHANGED <<world, mark, inserts, synced, gaps>>
    BY DEF WorkOn, ClaimEmbedding, SettleEmbedding, RetryEmbedding, ReleaseEmbedding, LoseEmbedding
<1>2. MarkFollowsSync' /\ HistoryIsMarked'
    BY <1>1 DEF world, MarkFollowsSync, HistoryIsMarked, Live
<1>3. emb[k] \in Embedding
    BY DEF GateTypeOK
<1>4. ASSUME UNCHANGED runOf, emb' = [emb EXCEPT ![k] = emb'[k]], emb'[k] \in Embedding,
             emb[k].status \notin Terminal,
             emb'[k].status = "claimed" => emb'[k].tries > 0
      PROVE  GateInv'
    <2>1. GateTypeOK'
        BY <1>1, <1>4 DEF world, GateTypeOK
    <2>2. ClaimIsCharged' /\ GateHolds' /\ HistoryNeverRuns'
        BY <1>1, <1>4 DEF world, ClaimIsCharged, GateHolds, HistoryNeverRuns, GateTypeOK
    <2> QED BY <1>2, <2>1, <2>2
<1>5. CASE ClaimEmbedding(k)
    BY <1>3, <1>4, <1>5 DEF ClaimEmbedding, Embedding, GateTypeOK, Terminal
<1>6. CASE RetryEmbedding(k)
    BY <1>3, <1>4, <1>6 DEF RetryEmbedding, Embedding, GateTypeOK, Terminal
<1>7. CASE ReleaseEmbedding(k)
    BY <1>3, <1>4, <1>7 DEF ReleaseEmbedding, Embedding, GateTypeOK, Terminal, ClaimIsCharged
<1>8. CASE LoseEmbedding(k)
    BY <1>3, <1>4, <1>8 DEF LoseEmbedding, Embedding, GateTypeOK, Terminal
<1>9. ASSUME NEW s \in Terminal, SettleEmbedding(k, s) PROVE GateInv'
    <2>1. /\ emb' = [emb EXCEPT ![k].status = s]
          /\ runOf' = IF emb[k].hint \in Live /\ Eligible(emb[k].hint)
                      THEN [runOf EXCEPT ![k] = emb[k].hint]
                      ELSE runOf
        BY <1>9 DEF SettleEmbedding
    <2>2. GateTypeOK'
        <3>1. emb' \in [Keys -> Embedding]
            BY <1>3, <2>1 DEF GateTypeOK, Embedding, Terminal
        <3>2. runOf' \in [Keys -> Rows \cup {None}]
            BY <2>1 DEF GateTypeOK, Live
        <3> QED BY <1>1, <3>1, <3>2 DEF world, GateTypeOK
    <2>3. ClaimIsCharged' /\ GateHolds'
        BY <2>1 DEF ClaimIsCharged, GateHolds, GateTypeOK, Terminal, Embedding
    <2>4. HistoryNeverRuns'
        <3> SUFFICES ASSUME NEW m \in Rows, runOf'[Key[m]] = m, entered[m] = None
                     PROVE  m \in moved
            BY <1>1 DEF world, HistoryNeverRuns
        <3>1. Key[m] \in Keys
            BY DEF Keys
        <3>2. CASE runOf[Key[m]] = m
            BY <3>2 DEF HistoryNeverRuns
        <3>3. CASE runOf[Key[m]] # m
            <4>1. m \in Live /\ Eligible(m)
                BY <2>1, <3>1, <3>3 DEF GateTypeOK
            <4> QED BY <4>1, EligibleIsNoHistory
        <3> QED BY <3>2, <3>3
    <2> QED BY <1>2, <2>2, <2>3, <2>4
<1> QED BY <1>5, <1>6, <1>7, <1>8, <1>9 DEF WorkOn

LEMMA NextKeepsGateInv == GateInv /\ [GateNext]_gateVars => GateInv'
<1> SUFFICES ASSUME GateInv, [GateNext]_gateVars PROVE GateInv'
    OBVIOUS
<1>1. CASE UNCHANGED gateVars
    BY <1>1 DEF gateVars, world, GateInv, GateTypeOK, ClaimIsCharged, GateHolds, MarkFollowsSync,
                HistoryIsMarked, HistoryNeverRuns, Live
<1> QED BY <1>1, WorldKeepsGateInv, DispatchKeepsGateInv, SweepKeepsGateInv,
           ReconcileKeepsGateInv, WorkKeepsGateInv DEF GateNext

\* The invariant holds in every reachable state.
THEOREM GateInvariant == GateSpec => []GateInv
    BY InitGateInv, NextKeepsGateInv, PTL DEF GateSpec

\* Rows, hints and attempts keep their types.
THEOREM GateTypeCorrect == GateSpec => []GateTypeOK
<1>1. GateInv => GateTypeOK
    BY DEF GateInv
<1> QED BY <1>1, GateInvariant, PTL

\* No run is ever inserted ahead of its mail's embedding, from either place.
THEOREM EmbeddingPrecedesRun == GateSpec => []GateHolds
<1>1. GateInv => GateHolds
    BY DEF GateInv
<1> QED BY <1>1, GateInvariant, PTL

\* Mail a folder's first sync found is never what a run is about.
THEOREM HistoryIsSpared == GateSpec => []HistoryNeverRuns
<1>1. GateInv => HistoryNeverRuns
    BY DEF GateInv
<1> QED BY <1>1, GateInvariant, PTL

\* A key without a row has no hint either.
NoRowNoHint == \A k \in Keys : emb[k].status = "none" => emb[k].hint = None

\* Enqueuing m leaves a row of its key, that hints at m unless a twin holds it.
LEMMA EnqueuedRow ==
    ASSUME GateTypeOK, NEW m \in Rows
    PROVE  /\ Enqueued(m).status # "none"
           /\ ~HeldByTwin(m) => Enqueued(m).hint = m
           /\ Enqueued(m) # emb[Key[m]] =>
                 emb[Key[m]].status = "none" \/ emb[Key[m]].hint \notin Live
<1>1. Key[m] \in Keys /\ emb[Key[m]] \in Embedding
    BY DEF Keys, GateTypeOK
<1>2. CASE emb[Key[m]].status = "none"
    BY <1>2 DEF Enqueued, NewEmbedding
<1>3. CASE emb[Key[m]].status # "none"
    BY <1>1, <1>3 DEF Enqueued, Repoint, HeldByTwin, Embedding
<1> QED BY <1>2, <1>3

\* A sweep enqueues one candidate of every key in its window.
LEMMA SweepPicks ==
    ASSUME GateTypeOK, Sweep
    PROVE  /\ UNCHANGED <<world, runOf, mark>>
           /\ \A k \in Keys : emb'[k] = emb[k] \/ \E m \in Window : Key[m] = k /\ emb'[k] = Enqueued(m)
           /\ \A m \in Window : \E n \in Window : Key[n] = Key[m] /\ emb'[Key[m]] = Enqueued(n)
<1>1. PICK pick \in [{Key[m] : m \in Window} -> Window] :
            /\ \A k \in DOMAIN pick : Key[pick[k]] = k
            /\ emb' = [k \in Keys |-> IF k \in DOMAIN pick THEN Enqueued(pick[k]) ELSE emb[k]]
            /\ UNCHANGED <<world, mark, inserts, synced, runOf, gaps>>
    BY DEF Sweep
<1>2. \A m \in Window : Key[m] \in Keys /\ Key[m] \in DOMAIN pick /\ pick[Key[m]] \in Window
    BY <1>1 DEF Window, Candidates, Live, Keys
<1>3. \A m \in Window : \E n \in Window : Key[n] = Key[m] /\ emb'[Key[m]] = Enqueued(n)
    BY <1>1, <1>2
<1>4. \A k \in Keys : emb'[k] = emb[k] \/ \E m \in Window : Key[m] = k /\ emb'[k] = Enqueued(m)
    BY <1>1
<1> QED BY <1>1, <1>3, <1>4

LEMMA HintsKept == GateTypeOK /\ NoRowNoHint /\ [GateNext]_gateVars => NoRowNoHint'
<1> SUFFICES ASSUME GateTypeOK, NoRowNoHint, [GateNext]_gateVars,
                    NEW k \in Keys, emb'[k] # emb[k]
             PROVE  emb'[k].status # "none"
    BY DEF NoRowNoHint
<1>1. CASE World
    BY <1>1 DEF World, BackfillRow, ArriveRow, MoveRow, ExpungeRow, AgeRow, SyncFolder, LoseEvents
<1>2. ASSUME NEW m \in Rows, HandleInsert(m) PROVE emb'[k].status # "none"
    BY <1>2, EnqueuedRow DEF HandleInsert, GateTypeOK
<1>3. CASE Sweep
    <2>1. PICK m \in Window : emb'[k] = Enqueued(m)
        BY <1>3, SweepPicks
    <2>2. m \in Rows
        BY DEF Window, Candidates, Live
    <2> QED BY <2>1, <2>2, EnqueuedRow
<1>4. ASSUME NEW j \in Keys, WorkOn(j) PROVE emb'[k].status # "none"
    <2>1. emb[j] \in Embedding
        BY DEF GateTypeOK
    <2> QED BY <1>4, <2>1 DEF WorkOn, ClaimEmbedding, SettleEmbedding, RetryEmbedding,
                ReleaseEmbedding, LoseEmbedding, Terminal, GateTypeOK, Embedding
<1>5. CASE Reconcile \/ (\E f \in Folders : RecordWatermark(f)) \/ UNCHANGED gateVars
    BY <1>5 DEF Reconcile, RecordWatermark, gateVars
<1> QED BY <1>1, <1>2, <1>3, <1>4, <1>5 DEF GateNext, Dispatch

\* Whoever comes out of a sweep a candidate went in one.
LEMMA SweepShrinks ==
    ASSUME GateTypeOK, NoRowNoHint, Sweep
    PROVE  /\ Candidates' \subseteq Candidates
           /\ (\E m \in Window : ~HeldByTwin(m)) => Candidates' # Candidates
<1> USE SweepPicks
<1>1. Live' = Live /\ \A m \in Rows : Key[m] \in Keys
    BY DEF world, Live, Keys
<1>2. Window \subseteq Candidates /\ Candidates \subseteq Live /\ Live \subseteq Rows
    BY DEF Window, Candidates, Live
<1>3. ASSUME NEW c \in Candidates' PROVE c \in Candidates
    <2>1. c \in Live /\ c \in Rows /\ lastSync[at[c]] # None
        BY <1>1 DEF world, Candidates, Live
    <2>2. CASE emb'[Key[c]] = emb[Key[c]]
        BY <1>1, <2>1, <2>2 DEF world, Candidates, Shadowed, HeldByTwin
    <2>3. CASE emb'[Key[c]] # emb[Key[c]]
        <3>1. PICK m \in Window : Key[m] = Key[c] /\ emb'[Key[c]] = Enqueued(m)
            BY <1>1, <2>1, <2>3
        <3>2. emb[Key[c]].status = "none" \/ emb[Key[c]].hint \notin Live
            BY <1>2, <2>3, <3>1, EnqueuedRow
        <3>3. emb[Key[c]].hint \notin Live
            <4>1. None \notin Live
                BY <1>2, ArrivalAssumption
            <4> QED BY <1>1, <2>1, <3>2, <4>1 DEF NoRowNoHint
        <3> QED BY <2>1, <3>3 DEF Candidates, Shadowed, HeldByTwin
    <2> QED BY <2>2, <2>3
<1>4. ASSUME NEW m \in Window, ~HeldByTwin(m) PROVE Candidates' # Candidates
    <2>1. PICK n \in Window : Key[n] = Key[m] /\ emb'[Key[m]] = Enqueued(n)
        OBVIOUS
    <2>2. ~HeldByTwin(n)
        <3>1. emb[Key[m]].hint # m
            BY <1>2 DEF Candidates
        <3> QED BY <1>4, <2>1, <3>1 DEF HeldByTwin
    <2>3. emb'[Key[n]].hint = n
        BY <1>2, <2>1, <2>2, EnqueuedRow
    <2>4. n \notin Candidates'
        BY <2>3 DEF Candidates
    <2> QED BY <1>2, <2>4
<1> QED BY <1>3, <1>4

\* The gap pass leaves no candidate of its own.
LEMMA ReconcileClears ==
    ASSUME GateTypeOK, Reconcile
    PROVE  Missed' = {}
<1> SUFFICES ASSUME NEW m \in Missed' PROVE FALSE
    OBVIOUS
<1>1. UNCHANGED <<world, mark, emb>>
    BY DEF Reconcile
<1>2. /\ m \in Live /\ Eligible(m)
      /\ emb[Key[m]].status \in Terminal /\ emb[Key[m]].hint = m
      /\ runOf'[Key[m]] # m
    BY <1>1 DEF Missed, world, Live, Eligible
<1>3. Key[m] \in Keys /\ \A n \in Missed : Key[n] = Key[m] => n = m
    BY <1>2 DEF Missed, Keys, Live
<1>4. runOf'[Key[m]] = IF \E n \in Missed : Key[n] = Key[m]
                       THEN CHOOSE n \in Missed : Key[n] = Key[m]
                       ELSE runOf[Key[m]]
    BY <1>3 DEF Reconcile
<1>5. CASE m \in Missed
    BY <1>2, <1>3, <1>4, <1>5
<1>6. CASE m \notin Missed
    <2>1. runOf[Key[m]] = m
        BY <1>2, <1>6 DEF Missed
    <2>2. ~\E n \in Missed : Key[n] = Key[m]
        BY <1>3, <1>6
    <2> QED BY <1>2, <1>4, <2>1, <2>2
<1> QED BY <1>5, <1>6

\* Neither periodic pass makes work for itself, whatever twins the mail has.
THEOREM PassesComeToRest == GateSpec => HintsSettle
<1>1. GateInit => NoRowNoHint
    BY DEF GateInit, NoRowNoHint
<1>2. GateTypeOK /\ NoRowNoHint /\ [GateNext]_gateVars =>
        [/\ Sweep => /\ Candidates' \subseteq Candidates
                     /\ (\E m \in Window : ~HeldByTwin(m)) => Candidates' # Candidates
         /\ Reconcile => Missed' = {}]_gateVars
    BY SweepShrinks, ReconcileClears
<1> QED BY <1>1, <1>2, HintsKept, GateTypeCorrect, PTL DEF GateSpec, HintsSettle

------------------------------------------------------------------------------
\* Until the interval of the last probe is over, or its answer has come, the row
\* is suspended and its retry_after lies ahead.
ProbeHoldsOff ==
    /\ probed \in BOOLEAN
    /\ probed => state = "suspended" /\ retry > 0

\* CircuitTypeOK in two halves: what callers change, and what the alert pass does.
BreakerOK ==
    /\ state \in {"closed", "open", "suspended"}
    /\ since \in Outages \cup {0}
    /\ retry \in Timers
    /\ age \in 0..Threshold
    /\ outages \in 0..MaxOutages
    /\ caller \in [Callers -> {"idle", "suspended", "probing", "calling"}]
    /\ healthy \in BOOLEAN
    /\ (state = "closed") <=> (since = 0)

AlertingOK ==
    /\ announced \in [Outages -> {"none", "open", "dismissed"}]
    /\ snap \in SUBSET [since : Outages, due : BOOLEAN]

CircuitInv == BreakerOK /\ AlertingOK /\ ProbeHoldsOff

\* A closed breaker is typed and nobody has probed.
LEMMA InitCircuitInv == CircuitInit => CircuitInv
<1> SUFFICES ASSUME CircuitInit PROVE CircuitInv
    OBVIOUS
<1>1. BreakerOK
    BY CircuitAssumption DEF CircuitInit, BreakerOK, Timers
<1>3. ProbeHoldsOff
    BY Zenon DEF CircuitInit, ProbeHoldsOff
<1>2. AlertingOK
    BY DEF CircuitInit, AlertingOK
<1> QED BY <1>1, <1>2, <1>3 DEF CircuitInv

\* Who leaves the alerts alone leaves their types alone.
LEMMA AlertingStays == AlertingOK /\ UNCHANGED alerting => AlertingOK'
    BY DEF AlertingOK, alerting

\* Of a report, and of the operator's reset: the row, and the end of the interval.
LEMMA ReportKeeps ==
    ASSUME BreakerOK, probed' = FALSE,
           caller' \in [Callers -> {"idle", "suspended", "probing", "calling"}],
           healthy' \in BOOLEAN,
           \/ /\ state' = "closed" /\ since' = 0 /\ retry' = 0 /\ age' = 0
              /\ UNCHANGED outages
           \/ /\ state' \in {"open", "suspended"}
              /\ retry' \in {Backoff, ProbeInterval}
              /\ GoOut(state # "closed") \/ GoOut(state = "suspended")
    PROVE  BreakerOK' /\ ProbeHoldsOff'
<1> USE CircuitAssumption DEF BreakerOK, Timers, Outages
<1>0. ProbeHoldsOff'
    BY Zenon DEF ProbeHoldsOff
<1>1. CASE state' = "closed" /\ since' = 0 /\ retry' = 0 /\ age' = 0 /\ UNCHANGED outages
    BY <1>0, <1>1
<1>2. CASE /\ state' \in {"open", "suspended"}
           /\ retry' \in {Backoff, ProbeInterval}
           /\ GoOut(state # "closed") \/ GoOut(state = "suspended")
    <2>1. retry' \in Timers
        BY <1>2
    <2>2. since' \in 1..MaxOutages /\ outages' \in 0..MaxOutages /\ age' \in 0..Threshold
        BY <1>2 DEF GoOut
    <2> QED BY <1>0, <1>2, <2>1, <2>2
<1> QED BY <1>1, <1>2

LEMMA NextKeepsCircuitInv == CircuitInv /\ [CircuitNext]_circuitVars => CircuitInv'
<1> SUFFICES ASSUME CircuitInv, [CircuitNext]_circuitVars PROVE CircuitInv'
    OBVIOUS
<1> USE CircuitAssumption DEF CircuitInv
<1>1. ASSUME NEW c \in Callers, Succeed(c) \/ BackOff(c) \/ Suspend(c) PROVE CircuitInv'
    <2>1. UNCHANGED alerting
        BY <1>1 DEF Succeed, BackOff, Suspend, Close, alerting
    <2>2. caller' \in [Callers -> {"idle", "suspended", "probing", "calling"}]
        BY <1>1 DEF Succeed, BackOff, Suspend, Become, BreakerOK
    <2>3. BreakerOK' /\ ProbeHoldsOff'
        BY <1>1, <2>2, ReportKeeps DEF Succeed, BackOff, Suspend, Close, BreakerOK
    <2> QED BY <2>1, <2>3, AlertingStays
<1>2. CASE Reset
    <2>1. UNCHANGED alerting
        BY <1>2 DEF Reset, Close, alerting
    <2>2. BreakerOK' /\ ProbeHoldsOff'
        BY <1>2, ReportKeeps DEF Reset, Close, BreakerOK
    <2> QED BY <2>1, <2>2, AlertingStays
<1>3. ASSUME NEW c \in Callers, Check(c) \/ CheckAgain(c) \/ SayNothing(c) PROVE CircuitInv'
    <2>1. UNCHANGED <<breaker, healthy, alerting, probed>>
        BY <1>3 DEF Check, CheckAgain, SayNothing
    <2>2. caller' \in [Callers -> {"idle", "suspended", "probing", "calling"}]
        BY <1>3 DEF Check, CheckAgain, SayNothing, Become, BreakerOK
    <2> QED BY <2>1, <2>2, AlertingStays DEF breaker, BreakerOK, ProbeHoldsOff
<1>4. ASSUME NEW c \in Callers, TryProbe(c) PROVE CircuitInv'
    <2>1. UNCHANGED <<state, since, age, outages, healthy, alerting>>
        BY <1>4 DEF TryProbe
    <2>2. caller' \in [Callers -> {"idle", "suspended", "probing", "calling"}]
        BY <1>4 DEF TryProbe, Become, BreakerOK
    <2>3. BreakerOK'
        BY <1>4, <2>1, <2>2 DEF TryProbe, BreakerOK, Timers
    <2>4. CASE state = "suspended" /\ retry' = ProbeInterval /\ probed' = TRUE
        <3>1. state' = "suspended" /\ retry' > 0
            BY <2>1, <2>4
        <3>2. ProbeHoldsOff'
            BY <2>4, <3>1, Zenon DEF ProbeHoldsOff
        <3> QED BY <2>1, <2>3, <3>2, AlertingStays
    <2>5. CASE UNCHANGED <<retry, probed>>
        BY <2>1, <2>3, <2>5, AlertingStays DEF ProbeHoldsOff
    <2> QED BY <1>4, <2>4, <2>5 DEF TryProbe
<1>5. CASE Turn
    BY <1>5, AlertingStays DEF Turn, breaker, BreakerOK, ProbeHoldsOff
<1>6. CASE Clock
    <2>1. retry' \in Timers /\ age' \in 0..Threshold /\ (retry > 1 => retry' > 0)
        BY <1>6 DEF Clock, BreakerOK, Timers
    <2>2. BreakerOK' /\ AlertingOK'
        BY <1>6, <2>1, AlertingStays DEF Clock, BreakerOK
    <2>3. probed' = (probed /\ retry > 1) /\ state' = state
        BY <1>6 DEF Clock
    <2>4. ProbeHoldsOff'
        BY <2>1, <2>3, Zenon DEF ProbeHoldsOff
    <2> QED BY <2>2, <2>4
<1>7. CASE ReadBreaker
    <2>1. snap' \in SUBSET [since : Outages, due : BOOLEAN]
        BY <1>7 DEF ReadBreaker, BreakerOK
    <2> QED BY <1>7, <2>1 DEF ReadBreaker, breaker, AlertingOK, BreakerOK, ProbeHoldsOff
<1>8. CASE AlertPass
    <2>1. announced' \in [Outages -> {"none", "open", "dismissed"}]
        BY <1>8 DEF AlertPass, Resolved, AlertingOK
    <2> QED BY <1>8, <2>1 DEF AlertPass, breaker, AlertingOK, BreakerOK, ProbeHoldsOff
<1>9. CASE UNCHANGED circuitVars
    BY <1>9, AlertingStays DEF circuitVars, breaker, BreakerOK, ProbeHoldsOff
<1> QED BY <1>1, <1>2, <1>3, <1>4, <1>5, <1>6, <1>7, <1>8, <1>9 DEF CircuitNext, ReporterStep

\* Types and ProbeHoldsOff hold in every reachable state.
THEOREM CircuitInvariant == CircuitSpec => []CircuitInv
    BY InitCircuitInv, NextKeepsCircuitInv, PTL DEF CircuitSpec

\* circuit_breakers keeps its columns in their domains, and has a since exactly
\* while it is out.
THEOREM CircuitTypeCorrect == CircuitSpec => []CircuitTypeOK
<1>1. CircuitInv => CircuitTypeOK
    BY DEF CircuitInv, BreakerOK, AlertingOK, ProbeHoldsOff, CircuitTypeOK
<1> QED BY <1>1, CircuitInvariant, PTL

\* try_probe's guarded UPDATE lets one caller through per interval, however many
\* read "suspended" and ask at once.
THEOREM OneProbe == CircuitSpec => OneProbePerInterval
<1>1. CircuitInv /\ [CircuitNext]_circuitVars =>
        [\A c \in Callers :
            (caller[c] = "probing" /\ caller'[c] = "calling") => ~probed]_circuitVars
    <2> SUFFICES ASSUME CircuitInv, CircuitNext, NEW c \in Callers,
                        caller[c] = "probing", caller'[c] = "calling"
                 PROVE  ~probed
        OBVIOUS
    <2>1. caller \in [Callers -> {"idle", "suspended", "probing", "calling"}]
        BY DEF CircuitInv, BreakerOK
    <2>2. PICK d \in Callers : ReporterStep(d)
        BY DEF CircuitNext, Reset, Turn, Clock, ReadBreaker, AlertPass
    <2>3. TryProbe(d) /\ retry = 0
        BY <2>1, <2>2 DEF ReporterStep, Check, CheckAgain, TryProbe, Succeed, BackOff, Suspend,
                          SayNothing, Become
    <2> QED BY <2>3 DEF CircuitInv, ProbeHoldsOff
<1> QED BY <1>1, CircuitInvariant, PTL DEF CircuitSpec, OneProbePerInterval
==============================================================================
