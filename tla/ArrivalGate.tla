----------------------------- MODULE ArrivalGate -----------------------------
(***************************************************************************)
(* How a mail gets its pipeline run: pipeline/enqueue.py and the parts of  *)
(* embeddings/repository.py and embeddings/worker.py that feed it.  A mail *)
(* row is embedded first, the embedding's terminal state opens the gate,   *)
(* and a periodic pass picks up what a listener gap lost.                  *)
(*                                                                         *)
(* messages.id does not survive a resync, so an embedding and a run belong *)
(* to the mail's msg_key, and only hint at the row that carries it now.    *)
(* Rows are numbered by received_at, then id.  A timestamp is kept as the  *)
(* set of rows that existed then: created_at > t is "not in that set".      *)
(* One embedding model; glacier rows and drafts are left out.              *)
(***************************************************************************)
EXTENDS Integers, FiniteSets

CONSTANTS
    Rows,           \* messages.id, a larger number received later
    Key,            \* Key[m]: the row's msg_key
    Headerless,     \* keys of mail without a Message-ID: a hash of its envelope
    Folders,
    InScope,        \* folders the pipeline looks at
    MaxAttempts,    \* semantic.max_attempts
    SweepBatch,     \* rows one backfill sweep considers
    MaxMoves,       \* bound: rows people move, once each
    MaxGaps,        \* bound: listener reconnects
    Mortal,         \* bound: rows that may be expunged or pass the age limit
    None

Keys == {Key[m] : m \in Rows}

ASSUME ArrivalAssumption ==
    /\ Rows \subseteq Nat
    /\ DOMAIN Key = Rows
    /\ Headerless \subseteq Keys
    /\ None \notin Rows /\ None \notin Folders
    /\ \A S \in SUBSET Rows : S # None
    /\ Folders \cap {"unborn", "gone"} = {}
    /\ InScope \subseteq Folders
    /\ MaxAttempts \in Nat \ {0}
    /\ SweepBatch \in Nat \ {0}
    /\ MaxMoves \in Nat
    /\ MaxGaps \in Nat

VARIABLES
    at,             \* at[m]: "unborn", the row's folder, or "gone"
    aged,           \* rows older than pipeline.live_max_age_days
    lastSync,       \* folders.last_synced_at, None before the first sync
    mark,           \* pipeline_folder_state.backfill_completed_at
    inserts,        \* rows whose insert event waits for a dispatch worker
    synced,         \* folders whose sync_complete event waits for one
    emb,            \* emb[k]: the message_embeddings row of key k
    runOf,          \* runOf[k]: message_id of the key's live pipeline run
    entered,        \* history: the folder a live row arrived in
    moved,          \* history: rows that were moved
    gaps            \* listener gaps so far (bounded)

world == <<at, aged, lastSync, entered, moved>>
gateVars == <<world, mark, inserts, synced, emb, runOf, gaps>>

Embedding == [status : {"none", "pending", "claimed", "done", "failed"},
              hint : Rows \cup {None}, tries : 0..MaxAttempts]

GateTypeOK ==
    /\ at \in [Rows -> {"unborn", "gone"} \cup Folders]
    /\ aged \subseteq Rows
    /\ lastSync \in [Folders -> (SUBSET Rows) \cup {None}]
    /\ mark \in [Folders -> (SUBSET Rows) \cup {None}]
    /\ inserts \subseteq Rows
    /\ synced \subseteq Folders
    /\ emb \in [Keys -> Embedding]
    /\ runOf \in [Keys -> Rows \cup {None}]
    /\ entered \in [Rows -> Folders \cup {None}]
    /\ moved \subseteq Rows
    /\ gaps \in 0..MaxGaps

GateInit ==
    /\ at = [m \in Rows |-> "unborn"]
    /\ aged = {}
    /\ lastSync = [f \in Folders |-> None]
    /\ mark = [f \in Folders |-> None]
    /\ inserts = {}
    /\ synced = {}
    /\ emb = [k \in Keys |-> [status |-> "none", hint |-> None, tries |-> 0]]
    /\ runOf = [k \in Keys |-> None]
    /\ entered = [m \in Rows |-> None]
    /\ moved = {}
    /\ gaps = 0

Born == {m \in Rows : at[m] # "unborn"}
Live == {m \in Rows : at[m] \in Folders}
Terminal == {"done", "failed"}

------------------------------------------------------------------------------
\* PostIMAP: rows a folder's first sync finds fire no event.  A resync is a
\* row gone and another one, of the same key, arriving.
BackfillRow(m, f) ==
    /\ at[m] = "unborn"
    /\ lastSync[f] = None
    /\ at' = [at EXCEPT ![m] = f]
    /\ UNCHANGED <<aged, lastSync, entered, moved, mark, inserts, synced, emb, runOf, gaps>>

\* The first sync ends with one event; later cycles only move the stamp,
\* which is left out once no event is waiting to be handled that reads it.
SyncFolder(f) ==
    /\ lastSync[f] = None \/ f \in synced
    /\ lastSync[f] # Born
    /\ lastSync' = [lastSync EXCEPT ![f] = Born]
    /\ synced' = IF lastSync[f] = None THEN synced \cup {f} ELSE synced
    /\ UNCHANGED <<at, aged, entered, moved, mark, inserts, emb, runOf, gaps>>

ArriveRow(m, f) ==
    /\ at[m] = "unborn"
    /\ lastSync[f] # None
    /\ at' = [at EXCEPT ![m] = f]
    /\ entered' = [entered EXCEPT ![m] = f]
    /\ inserts' = inserts \cup {m}
    /\ UNCHANGED <<aged, lastSync, moved, mark, synced, emb, runOf, gaps>>

ExpungeRow(m) ==
    /\ m \in Live \cap Mortal
    /\ at' = [at EXCEPT ![m] = "gone"]
    /\ UNCHANGED <<aged, lastSync, entered, moved, mark, inserts, synced, emb, runOf, gaps>>

\* A move made through this application keeps the row.
MoveRow(m, f) ==
    /\ m \in Live /\ at[m] # f
    /\ m \notin moved /\ Cardinality(moved) < MaxMoves
    /\ moved' = moved \cup {m}
    /\ at' = [at EXCEPT ![m] = f]
    /\ UNCHANGED <<aged, lastSync, entered, mark, inserts, synced, emb, runOf, gaps>>

AgeRow(m) ==
    /\ m \in (Live \cap Mortal) \ aged
    /\ aged' = aged \cup {m}
    /\ UNCHANGED <<at, lastSync, entered, moved, mark, inserts, synced, emb, runOf, gaps>>

\* A listener reconnect, or this application not running yet.
LoseEvents ==
    /\ gaps < MaxGaps
    /\ inserts # {} \/ synced # {}
    /\ gaps' = gaps + 1
    /\ inserts' = {}
    /\ synced' = {}
    /\ UNCHANGED <<world, mark, emb, runOf>>

------------------------------------------------------------------------------
\* Mutant: any mail in the folder counts as live, watermark or not.
EligibleWithoutMark(m) ==
    /\ at[m] \in InScope
    /\ m \notin aged

\* _select_live_eligible_row.
Eligible(m) ==
    /\ at[m] \in InScope
    /\ mark[at[m]] # None
    /\ m \notin mark[at[m]]
    /\ m \notin aged

\* record_folder_watermark: COALESCE keeps the first one.
RecordWatermark(f) ==
    /\ f \in synced
    /\ synced' = synced \ {f}
    /\ mark' = [mark EXCEPT ![f] = IF @ = None THEN lastSync[f] ELSE @]
    /\ UNCHANGED <<world, inserts, emb, runOf, gaps>>

\* Mutant: an embedding keeps the hint it was created with.
RepointNever(k, m) == emb[k]

\* Mutant: the last twin seen takes the row over.
RepointAlways(k, m) == [emb[k] EXCEPT !.hint = m]

\* Repoint only a hint that is dead.
Repoint(k, m) == IF emb[k].hint \in Live THEN emb[k] ELSE [emb[k] EXCEPT !.hint = m]

NewEmbedding(m) == [status |-> "pending", hint |-> m, tries |-> 0]

\* EmbeddingRepository.enqueue_one: insert, or repoint.
Enqueued(m) ==
    LET k == Key[m]
    IN IF emb[k].status = "none" THEN NewEmbedding(m) ELSE Repoint(k, m)

\* enqueue_live_arrival.
HandleInsert(m) ==
    /\ m \in inserts
    /\ inserts' = inserts \ {m}
    /\ emb' = IF m \in Live THEN [emb EXCEPT ![Key[m]] = Enqueued(m)] ELSE emb
    /\ UNCHANGED <<world, mark, synced, runOf, gaps>>

\* The row of m's key is held by another live row, so m can have none.
HeldByTwin(m) == emb[Key[m]].status # "none" /\ emb[Key[m]].hint \in Live \ {m}

\* _sibling_holds_embedding: compares Message-ID headers, which a headerless
\* twin does not have.
Shadowed(m) == HeldByTwin(m) /\ Key[m] \notin Headerless

\* Mutant: the anti-join is left out.
CandidatesAgain == {m \in Live : lastSync[at[m]] # None /\ ~Shadowed(m)}

Candidates ==
    {m \in Live : lastSync[at[m]] # None /\ emb[Key[m]].hint # m /\ ~Shadowed(m)}

\* ORDER BY received_at DESC LIMIT :batch_size
Window == {m \in Candidates : Cardinality({c \in Candidates : c > m}) < SweepBatch}

\* enqueue_missing_batch.  Of two rows of one key in one window the first
\* insert wins and the other runs into ON CONFLICT DO NOTHING.  A headerless
\* twin is left as it is, and is a candidate of the next sweep again.
Sweep ==
    /\ \E pick \in [{Key[m] : m \in Window} -> Window] :
          /\ \A k \in DOMAIN pick : Key[pick[k]] = k
          /\ emb' = [k \in Keys |-> IF k \in DOMAIN pick THEN Enqueued(pick[k]) ELSE emb[k]]
    /\ UNCHANGED <<world, mark, inserts, synced, runOf, gaps>>

------------------------------------------------------------------------------
ClaimEmbedding(k) ==
    /\ emb[k].status = "pending"
    /\ emb[k].tries < MaxAttempts
    /\ emb' = [emb EXCEPT ![k].status = "claimed", ![k].tries = @ + 1]
    /\ UNCHANGED <<world, mark, inserts, synced, runOf, gaps>>

\* write_result and fail: in one transaction the row becomes terminal and,
\* if the row it hints at is live-eligible, the run is inserted or repointed.
SettleEmbedding(k, s) ==
    /\ emb[k].status = "claimed"
    /\ emb' = [emb EXCEPT ![k].status = s]
    /\ runOf' = IF emb[k].hint \in Live /\ Eligible(emb[k].hint)
                THEN [runOf EXCEPT ![k] = emb[k].hint]
                ELSE runOf
    /\ UNCHANGED <<world, mark, inserts, synced, gaps>>

\* A retryable error; the last attempt fails instead (SettleEmbedding).
RetryEmbedding(k) ==
    /\ emb[k].status = "claimed"
    /\ emb[k].tries < MaxAttempts
    /\ emb' = [emb EXCEPT ![k].status = "pending"]
    /\ UNCHANGED <<world, mark, inserts, synced, runOf, gaps>>

\* Provider suspended or throttled, or a stop: the attempt is refunded.
ReleaseEmbedding(k) ==
    /\ emb[k].status = "claimed"
    /\ emb' = [emb EXCEPT ![k].status = "pending", ![k].tries = @ - 1]
    /\ UNCHANGED <<world, mark, inserts, synced, runOf, gaps>>

\* The worker dies and the lease is reclaimed: the attempt stays charged.
LoseEmbedding(k) ==
    /\ emb[k].status = "claimed"
    /\ emb' = [emb EXCEPT ![k].status = "pending"]
    /\ UNCHANGED <<world, mark, inserts, synced, runOf, gaps>>

\* Mutant: the gap pass does not wait for the embedding.
MissedBeforeEmbedding ==
    {m \in Live : Eligible(m) /\ emb[Key[m]].hint = m /\ runOf[Key[m]] # m}

\* The candidates of _reconcile_once.
Missed ==
    {m \in Live :
        /\ Eligible(m)
        /\ emb[Key[m]].status \in Terminal
        /\ emb[Key[m]].hint = m
        /\ runOf[Key[m]] # m}

\* _reconcile_once: insert the run of the mail, or repoint it.
Reconcile ==
    /\ Missed # {}
    /\ runOf' = [k \in Keys |->
                    IF \E m \in Missed : Key[m] = k
                    THEN CHOOSE m \in Missed : Key[m] = k
                    ELSE runOf[k]]
    /\ UNCHANGED <<world, mark, inserts, synced, emb, gaps>>

------------------------------------------------------------------------------
World ==
    \/ \E m \in Rows, f \in Folders : BackfillRow(m, f) \/ ArriveRow(m, f) \/ MoveRow(m, f)
    \/ \E m \in Rows : ExpungeRow(m) \/ AgeRow(m)
    \/ \E f \in Folders : SyncFolder(f)
    \/ LoseEvents

Dispatch == (\E m \in Rows : HandleInsert(m)) \/ (\E f \in Folders : RecordWatermark(f))

WorkOn(k) ==
    \/ ClaimEmbedding(k)
    \/ \E s \in Terminal : SettleEmbedding(k, s)
    \/ RetryEmbedding(k) \/ ReleaseEmbedding(k) \/ LoseEmbedding(k)

GateNext == World \/ Dispatch \/ Sweep \/ Reconcile \/ (\E k \in Keys : WorkOn(k))

GateSpec == GateInit /\ [][GateNext]_gateVars

\* Dispatch workers drain their queue, the timers tick, and embedding
\* workers run; an outage of the provider ends, so a key that is claimed
\* again and again is eventually settled.
GateFairness ==
    /\ WF_gateVars(Dispatch)
    /\ WF_gateVars(Sweep)
    /\ WF_gateVars(Reconcile)
    /\ \A k \in Keys :
          /\ WF_gateVars(ClaimEmbedding(k))
          /\ SF_gateVars(\E s \in Terminal : SettleEmbedding(k, s))

GateFairSpec == GateSpec /\ GateFairness

------------------------------------------------------------------------------
\* "Embedding strictly precedes the pipeline": neither of the two places
\* that insert runs gets ahead of the embedding, whatever was lost or
\* repointed in between.
GateHolds == \A k \in Keys : runOf[k] # None => emb[k].status \in Terminal

\* "Historical mail" must never be enqueued: a row the first sync of its
\* folder brought in, and nobody moved, is never what a run is about.
HistoryNeverRuns ==
    \A m \in Rows : (runOf[Key[m]] = m /\ entered[m] = None) => m \in moved

\* The anti-joins of the sweep and of the gap pass "converge": neither pass
\* makes a candidate of a row that was none, a twin above all; the sweep loses
\* one whenever its window shows a row that no twin holds, the gap pass all.
HintsSettle ==
    [][/\ Sweep => /\ Candidates' \subseteq Candidates
                   /\ (\E m \in Window : ~HeldByTwin(m)) => Candidates' # Candidates
       /\ Reconcile => Missed' = {}]_gateVars

\* Every row of the window is a twin that the sweep leaves as it is.
Clogged == \A m \in Window : HeldByTwin(m)

\* "The caller loops until candidates seen is less than batch_size ... so a
\* message not currently embeddable cannot make the loop spin forever": once
\* nothing more arrives, the loop of POST /backfill comes to its end, or comes
\* to a window full of headerless twins, where it does spin.
BackfillEnds == []<>(Cardinality(Candidates) < SweepBatch \/ Clogged)

\* The one thing the embedding queue cannot settle: crashes used up the
\* attempts of a row that no worker may claim any more.
Stuck(k) == emb[k].status = "pending" /\ emb[k].tries = MaxAttempts

\* Newer headerless twins fill every window.
Starved(m) == Cardinality({c \in Candidates : c > m /\ HeldByTwin(c)}) >= SweepBatch

\* Mail that keeps a live-eligible row gets its run although events are lost,
\* hints die and the sweep sees one window at a time -- as long as that row is
\* not the twin of one that holds the embedding, nor behind a whole window of
\* such twins.
EligibleGetsRun ==
    \A k \in Keys :
        <>[](/\ \E m \in Live : /\ Key[m] = k /\ Eligible(m)
                                /\ ~HeldByTwin(m) /\ ~Starved(m)
             /\ ~Stuck(k)) => <>(runOf[k] # None)
==============================================================================
