------------------------------ MODULE UsageExport ------------------------------
(***************************************************************************)
(* The rows of llm_usage on their way to Elasticsearch (usage/recorder.py, *)
(* usage/export.py).  A row's id is taken when it is inserted, its         *)
(* created_at is the start of its transaction, and it is seen from its     *)
(* commit on, so rows appear out of order of both.  One pass runs at a     *)
(* time (the timer's advisory lock); its process may die anywhere.  What a *)
(* document says, and the outcome shown in the settings, are left out.     *)
(***************************************************************************)
EXTENDS Integers, FiniteSets

CONSTANTS
    LastId,         \* bound: ids are 1..LastId
    MaxOpen,        \* how long a transaction that writes a row stays open
    RowSettle,      \* _ROW_SETTLE
    Retention,      \* retention_days
    ExportBatch,    \* batch_size
    MaxClock        \* bound: the time the model ends

\* "Far longer than any transaction writing a usage row stays open": more
\* than twice as long.  A row may be inserted MaxOpen after the start it is
\* dated by, and one inserted just before it may stay open for MaxOpen more.
ASSUME UsageAssumption ==
    /\ {LastId, MaxOpen, RowSettle, Retention, MaxClock} \subseteq Nat
    /\ ExportBatch \in Nat \ {0}
    /\ RowSettle > 2 * MaxOpen

UsageIds == 1..LastId

VARIABLES
    clock,          \* the database's now()
    usage,          \* usage[i]: the row with id i, and its created_at
    lastId,         \* usage_export_state.last_id
    export,         \* the pass: its next statement, its position, its batch
    arrived         \* ids Elasticsearch has a document of

usageVars == <<clock, usage, lastId, export, arrived>>

PassAt(pc, position) == [pc |-> pc, position |-> position, rows |-> {}, refused |-> FALSE]
NoPass == PassAt("idle", 0)
Exported == PassAt("prune", 0)

UsageTypeOK ==
    /\ clock \in 0..MaxClock
    /\ usage \in [UsageIds -> [st : {"none", "open", "stored", "gone"}, created : 0..MaxClock]]
    /\ lastId \in 0..LastId
    /\ export \in [pc : {"idle", "fetch", "post", "record", "prune"}, position : 0..LastId,
                   rows : SUBSET UsageIds, refused : BOOLEAN]
    /\ arrived \subseteq UsageIds

UsageInit ==
    /\ clock = 0
    /\ usage = [i \in UsageIds |-> [st |-> "none", created |-> 0]]
    /\ lastId = 0
    /\ export = NoPass
    /\ arrived = {}

------------------------------------------------------------------------------
\* UsageRecorder.record: a transaction that began at t inserts its row, which
\* takes the next id ...
Record(i, t) ==
    /\ usage[i].st = "none"
    /\ \A j \in UsageIds : j < i => usage[j].st # "none"
    /\ t <= clock /\ clock <= t + MaxOpen
    /\ usage' = [usage EXCEPT ![i] = [st |-> "open", created |-> t]]
    /\ UNCHANGED <<clock, lastId, export, arrived>>

\* ... and commits, or is rolled back.
EndRecord(i, s) ==
    /\ usage[i].st = "open" /\ s \in {"stored", "gone"}
    /\ usage' = [usage EXCEPT ![i].st = s]
    /\ UNCHANGED <<clock, lastId, export, arrived>>

\* Time passes; no transaction stays open longer than MaxOpen.
Advance ==
    /\ clock < MaxClock
    /\ \A i \in UsageIds : usage[i].st = "open" => clock < usage[i].created + MaxOpen
    /\ clock' = clock + 1
    /\ UNCHANGED <<usage, lastId, export, arrived>>

------------------------------------------------------------------------------
Visible == {i \in UsageIds : usage[i].st = "stored"}
UpTo(S, i) == {j \in S : j <= i}

\* Mutant: rows are sent as soon as they are seen.
NeverYoung(i) == FALSE

Young(i) == usage[i].created > clock - RowSettle

\* _settled_batch: the first rows after the position, up to the first young one.
SettledBatch(position) ==
    LET after == {i \in Visible : i > position}
        first == {i \in after : Cardinality(UpTo(after, i)) <= ExportBatch}
    IN {i \in first : \A j \in UpTo(first, i) : ~Young(j)}

\* The timer's pass: export_once, once _position has read the state; without
\* an address or a key for Elasticsearch there is nothing to send.
BeginExport ==
    /\ export.pc = "idle"
    /\ export' \in {PassAt("fetch", lastId), Exported}
    /\ UNCHANGED <<clock, usage, lastId, arrived>>

Fetch ==
    /\ export.pc = "fetch"
    /\ export' = LET rows == SettledBatch(export.position)
                 IN IF rows = {} THEN Exported
                    ELSE [export EXCEPT !.pc = "post", !.rows = rows]
    /\ UNCHANGED <<clock, usage, lastId, arrived>>

\* _bulk: Elasticsearch takes the documents of some; the answer says so of
\* those before the first it refused, or is lost.  A document sent before is
\* answered 409 and counts as delivered.
Post ==
    /\ export.pc = "post"
    /\ \E taken \in SUBSET export.rows, i \in export.rows \cup {0} :
          LET told == UpTo(export.rows, i)
          IN /\ told \subseteq taken \cup arrived
             /\ arrived' = arrived \cup taken
             /\ export' = [export EXCEPT !.pc = "record", !.refused = told # export.rows,
                                         !.position = IF told = {} THEN @ ELSE i]
    /\ UNCHANGED <<clock, usage, lastId>>

\* _record_outcome; the loop ends at a refusal or a batch that was not full.
RecordOutcome ==
    /\ export.pc = "record"
    /\ lastId' = export.position
    /\ export' = IF export.refused \/ Cardinality(export.rows) < ExportBatch THEN Exported
                 ELSE [export EXCEPT !.pc = "fetch", !.rows = {}]
    /\ UNCHANGED <<clock, usage, arrived>>

\* The process dies in a pass, or a statement of it raises.
DieExporting ==
    /\ export.pc # "idle"
    /\ export' = NoPass
    /\ UNCHANGED <<clock, usage, lastId, arrived>>

\* prune_once, at the end of the pass, sent or not.
PruneUsage ==
    /\ export.pc = "prune"
    /\ usage' = [i \in UsageIds |->
                    IF i \in Visible /\ usage[i].created < clock - Retention
                    THEN [usage[i] EXCEPT !.st = "gone"] ELSE usage[i]]
    /\ export' = NoPass
    /\ UNCHANGED <<clock, lastId, arrived>>

UsageNext ==
    \/ \E i \in UsageIds, t \in 0..MaxClock : Record(i, t)
    \/ \E i \in UsageIds, s \in {"stored", "gone"} : EndRecord(i, s)
    \/ Advance
    \/ BeginExport \/ Fetch \/ Post \/ RecordOutcome \/ DieExporting
    \/ PruneUsage

UsageSpec == UsageInit /\ [][UsageNext]_usageVars

------------------------------------------------------------------------------
\* "A position that passed the lower one while it was invisible would never
\* send it": every row at or below the position has arrived, although rows
\* appear out of order, answers are lost and passes die (usage/export.py).
NothingPassedOver == \A i \in Visible : i <= lastId => i \in arrived
==============================================================================
