-------------------------- MODULE DeliveriesProofs ---------------------------
(***************************************************************************)
(* Proofs about what others are told.                                      *)
(* A webhook delivery, for any workers, attempts and explicit retries: an  *)
(* alert names a generation the worker read when it claimed the row, long  *)
(* before it raises it; HolderIsCurrent is why the row is still of that    *)
(* generation when it is failed.                                           *)
(* The usage export, for any rows, batch and length of transaction:        *)
(* NearlyInOrder bounds how far ids and times may disagree, which is why   *)
(* below a row that is not young nothing is still to appear.               *)
(* The event stream, for any accounts, rings and filter: DueFits says      *)
(* where an event is that the client has yet to learn of.                  *)
(***************************************************************************)
EXTENDS WebhookDelivery, UsageExport, EventStream, WorkQueueProofs, FiniteSetTheorems

TaskType == [pc : {"idle", "attempt", "settle", "status", "failing", "alert"},
             tries : 0..MaxAttempts, gen : Generations, outcome : Outcomes]

\* The types of what a delivery has beside the queue's columns.
HookColumns ==
    /\ task \in [Workers -> TaskType]
    /\ sweep \in [Workers -> SUBSET Generations]
    /\ generation \in Generations
    /\ httpStatus \in {"null", "ok", "error"}
    /\ alerts \subseteq Generations
    /\ ended \subseteq Generations
    /\ silenced \subseteq Generations

\* Whoever works on the row and still owns it works on its present generation.
HolderIsCurrent ==
    \A w \in Workers :
        task[w].pc # "idle" /\ delivery \in Owned(w) => task[w].gen = generation

\* What a worker or a sweeper is about to announce did end as failed.
NewsIsTrue ==
    \A w \in Workers :
        /\ task[w].pc \in {"failing", "alert"} => task[w].gen \in ended
        /\ sweep[w] \subseteq ended

HookInv ==
    /\ IInv
    /\ HookColumns
    /\ HolderIsCurrent
    /\ NewsIsTrue
    /\ AlertNamesItsFailure

\* A fresh delivery.
LEMMA InitHookInv == HookInit => HookInv
<1> SUFFICES ASSUME HookInit PROVE HookInv
    OBVIOUS
<1>1. IInv
    BY InitIInv DEF HookInit
<1>2. HookColumns
    BY WebhookAssumption, WorkQueueAssumption
       DEF HookInit, HookColumns, TaskType, Idle, Generations, Outcomes
<1>3. HolderIsCurrent /\ NewsIsTrue /\ AlertNamesItsFailure
    BY DEF HookInit, HolderIsCurrent, NewsIsTrue, AlertNamesItsFailure, Idle
<1> QED BY <1>1, <1>2, <1>3 DEF HookInv

\* No call but a claim gives the row to anybody.
LEMMA OnlyClaimsGive ==
    ASSUME IInv, NEW v \in Workers, delivery \in Owned(v)',
           \/ UNCHANGED queueVars
           \/ ReclaimExpired
           \/ Tick
           \/ \E w \in Workers :
                 \/ Complete(w, delivery) \/ Fail(w, delivery) \/ Heartbeat(w, {delivery})
                 \/ \E d \in 0..MaxWait : Retry(w, delivery, d)
    PROVE  delivery \in Owned(v)
    BY WebhookAssumption
       DEF queueVars, ReclaimExpired, Tick, Complete, Fail, Heartbeat, Retry, Unclaim, Owned,
           IInv, TypeOK, Terminal

\* A step of worker w's task, or of nobody's, within one generation.
LEMMA TaskStepKeeps ==
    ASSUME HookInv, NEW w \in Workers, [Next]_queueVars,
           \A v \in Workers : delivery \in Owned(v)' => delivery \in Owned(v),
           task' = [task EXCEPT ![w] = task'[w]], task'[w] \in TaskType,
           task'[w].pc # "idle" => task[w].pc # "idle" /\ task'[w].gen = task[w].gen,
           task'[w].pc \in {"failing", "alert"} => task'[w].gen \in ended',
           UNCHANGED <<sweep, generation, silenced>>,
           httpStatus' \in {"null", "ok", "error"},
           ended \subseteq ended', ended' \subseteq Generations, alerts' \subseteq ended'
    PROVE  HookInv'
<1> USE DEF HookInv
<1>0. \A v \in Workers \ {w} : task'[v] = task[v]
    BY DEF HookColumns
<1>1. IInv'
    BY NextKeepsIInv
<1>2. HookColumns'
    BY DEF HookColumns
<1>3. HolderIsCurrent'
    <2> SUFFICES ASSUME NEW v \in Workers, task'[v].pc # "idle", delivery \in Owned(v)'
                 PROVE  task'[v].gen = generation'
        BY DEF HolderIsCurrent
    <2>1. delivery \in Owned(v) /\ task[v].pc # "idle" /\ task'[v].gen = task[v].gen
        BY <1>0
    <2> QED BY <2>1 DEF HolderIsCurrent
<1>4. NewsIsTrue' /\ AlertNamesItsFailure'
    BY <1>0 DEF NewsIsTrue, AlertNamesItsFailure
<1> QED BY <1>1, <1>2, <1>3, <1>4

\* handle_delivery, from the request to the alert.
LEMMA DeliverKeeps ==
    ASSUME HookInv, NEW w \in Workers, Deliver(w)
    PROVE  HookInv'
<1> USE WebhookAssumption
<1>1. task \in [Workers -> TaskType] /\ generation \in Generations /\ ended \subseteq Generations
      /\ httpStatus \in {"null", "ok", "error"} /\ alerts \subseteq ended
    BY DEF HookInv, HookColumns, AlertNamesItsFailure
<1>2. CASE Attempt(w)
    <2>1. /\ task' = [task EXCEPT ![w] = task'[w]] /\ task'[w] \in TaskType
          /\ task[w].pc = "attempt" /\ task'[w].pc = "settle" /\ task'[w].gen = task[w].gen
        BY <1>1, <1>2 DEF Attempt, TaskType
    <2>2. \A v \in Workers : delivery \in Owned(v)' => delivery \in Owned(v)
        BY <1>2, OnlyClaimsGive DEF Attempt, HookInv
    <2> QED BY <1>1, <1>2, <2>1, <2>2, TaskStepKeeps DEF Attempt, told
<1>3. CASE MarkDone(w)
    <2>1. /\ task' = [task EXCEPT ![w] = task'[w]] /\ task'[w] \in TaskType
          /\ task'[w].pc = "idle"
        BY <1>1, <1>3 DEF MarkDone, Go, TaskType
    <2>2. Complete(w, delivery) \/ UNCHANGED queueVars
        BY <1>3 DEF MarkDone, IfOwned
    <2>3. \A v \in Workers : delivery \in Owned(v)' => delivery \in Owned(v)
        BY <2>2, OnlyClaimsGive DEF HookInv
    <2>4. [Next]_queueVars
        BY <2>2 DEF Next, CallerStep
    <2> QED BY <1>1, <1>3, <2>1, <2>3, <2>4, TaskStepKeeps DEF MarkDone, told
<1>4. CASE RetryDelivery(w)
    <2>1. /\ task' = [task EXCEPT ![w] = task'[w]] /\ task'[w] \in TaskType
          /\ task[w].pc = "settle" /\ task'[w].pc = "status" /\ task'[w].gen = task[w].gen
        BY <1>1, <1>4 DEF RetryDelivery, Go, TaskType
    <2>2. (\E d \in 0..MaxWait : Retry(w, delivery, d)) \/ UNCHANGED queueVars
        BY <1>4 DEF RetryDelivery, IfOwned
    <2>3. \A v \in Workers : delivery \in Owned(v)' => delivery \in Owned(v)
        BY <2>2, OnlyClaimsGive DEF HookInv
    <2>4. [Next]_queueVars
        BY <2>2 DEF Next, CallerStep
    <2> QED BY <1>1, <1>4, <2>1, <2>3, <2>4, TaskStepKeeps DEF RetryDelivery, told
<1>5. CASE FailDelivery(w)
    <2>1. Fail(w, delivery) \/ UNCHANGED queueVars
        BY <1>5 DEF FailDelivery, IfOwned
    <2>2. \A v \in Workers : delivery \in Owned(v)' => delivery \in Owned(v)
        BY <2>1, OnlyClaimsGive DEF HookInv
    <2>3. [Next]_queueVars
        BY <2>1 DEF Next, CallerStep
    <2>4. UNCHANGED <<sweep, generation, silenced, httpStatus, alerts>>
        BY <1>5 DEF FailDelivery
    <2>5. CASE delivery \in Owned(w)
        <3>1. /\ task' = [task EXCEPT ![w] = task'[w]] /\ task'[w] \in TaskType
              /\ task[w].pc = "settle" /\ task'[w].pc = "failing" /\ task'[w].gen = task[w].gen
            BY <1>1, <1>5, <2>5 DEF FailDelivery, Go, TaskType
        <3>2. task[w].gen = generation
            BY <2>5, <3>1 DEF HookInv, HolderIsCurrent
        <3>3. ended' = ended \cup {generation}
            BY <1>5, <2>5 DEF FailDelivery
        <3> QED BY <1>1, <2>2, <2>3, <2>4, <3>1, <3>2, <3>3, TaskStepKeeps
    <2>6. CASE delivery \notin Owned(w)
        <3>1. /\ task' = [task EXCEPT ![w] = task'[w]] /\ task'[w] \in TaskType
              /\ task'[w].pc = "idle" /\ UNCHANGED ended
            BY <1>1, <1>5, <2>6 DEF FailDelivery, Go, TaskType
        <3> QED BY <1>1, <2>2, <2>3, <2>4, <3>1, TaskStepKeeps
    <2> QED BY <2>5, <2>6
<1>6. CASE RecordStatus(w)
    <2>1. /\ task' = [task EXCEPT ![w] = task'[w]] /\ task'[w] \in TaskType
          /\ task[w].pc \in {"status", "failing"} /\ task'[w].gen = task[w].gen
          /\ task'[w].pc = IF task[w].pc = "failing" THEN "alert" ELSE "idle"
        BY <1>1, <1>6 DEF RecordStatus, Go, TaskType
    <2>2. \A v \in Workers : delivery \in Owned(v)' => delivery \in Owned(v)
        BY <1>6, OnlyClaimsGive DEF RecordStatus, HookInv
    <2>3. task'[w].pc \in {"failing", "alert"} => task'[w].gen \in ended
        BY <2>1 DEF HookInv, NewsIsTrue
    <2> QED BY <1>1, <1>6, <2>1, <2>2, <2>3, TaskStepKeeps DEF RecordStatus, told
<1>7. CASE RaiseAlert(w)
    <2>1. /\ task' = [task EXCEPT ![w] = task'[w]] /\ task'[w] \in TaskType
          /\ task[w].pc = "alert" /\ task'[w].pc = "idle"
        BY <1>1, <1>7 DEF RaiseAlert, Go, TaskType
    <2>2. \A v \in Workers : delivery \in Owned(v)' => delivery \in Owned(v)
        BY <1>7, OnlyClaimsGive DEF RaiseAlert, HookInv
    <2>3. alerts' \subseteq ended
        BY <1>1, <1>7, <2>1 DEF RaiseAlert, HookInv, NewsIsTrue
    <2> QED BY <1>1, <1>7, <2>1, <2>2, <2>3, TaskStepKeeps DEF RaiseAlert
<1> QED BY <1>2, <1>3, <1>4, <1>5, <1>6, <1>7 DEF Deliver

\* The queue's own steps, and a heartbeat, leave every task where it is.
LEMMA QueueStepKeeps ==
    ASSUME HookInv, LoseClaim \/ Time \/ \E w \in Workers : Beat(w)
    PROVE  HookInv'
<1> USE WebhookAssumption DEF HookInv
<1>1. /\ [Next]_queueVars
      /\ UNCHANGED <<task, sweep, generation, httpStatus, told>>
    BY DEF LoseClaim, Time, Beat, Next, CallerStep
<1>2. \A v \in Workers : delivery \in Owned(v)' => delivery \in Owned(v)
    BY OnlyClaimsGive DEF LoseClaim, Time, Beat
<1>3. IInv'
    BY <1>1, NextKeepsIInv
<1>4. HookColumns' /\ HolderIsCurrent' /\ NewsIsTrue' /\ AlertNamesItsFailure'
    BY <1>1, <1>2 DEF HookColumns, HolderIsCurrent, NewsIsTrue, AlertNamesItsFailure, told
<1> QED BY <1>3, <1>4

\* Who claims the row reads its generation with it, and nobody else owns it then.
LEMMA ClaimKeeps ==
    ASSUME HookInv, NEW w \in Workers, ClaimDelivery(w)
    PROVE  HookInv'
<1> USE WebhookAssumption, WorkQueueAssumption DEF HookInv
<1>1. /\ delivery \in Claimable /\ ClaimBatch(w, {delivery})
      /\ UNCHANGED <<sweep, generation, httpStatus, told>>
    BY DEF ClaimDelivery, ClaimBatch, Batch
<1>2. IInv'
    <2>1. CallerStep(w)
        BY <1>1 DEF CallerStep
    <2> QED BY <2>1, CallerKeepsIInv
<1>3. attempts[delivery] + 1 \in 0..MaxAttempts
    BY <1>1 DEF Claimable, IInv, TypeOK
<1>4. /\ task'[w] = [pc |-> "attempt", tries |-> attempts[delivery] + 1, gen |-> generation,
                     outcome |-> "done"]
      /\ \A v \in Workers \ {w} : task'[v] = task[v]
      /\ task' \in [Workers -> TaskType]
    BY <1>3 DEF ClaimDelivery, Idle, HookColumns, TaskType, Outcomes
<1>5. \A v \in Workers : delivery \in Owned(v)' => v = w
    BY <1>1 DEF ClaimBatch, Owned, IInv, TypeOK
<1>6. HookColumns'
    BY <1>1, <1>4 DEF HookColumns, told
<1>7. HolderIsCurrent'
    BY <1>1, <1>4, <1>5 DEF HolderIsCurrent
<1>8. NewsIsTrue' /\ AlertNamesItsFailure'
    BY <1>1, <1>4 DEF NewsIsTrue, AlertNamesItsFailure, told
<1> QED BY <1>2, <1>6, <1>7, <1>8

\* The sweep of exhausted rows, and the end of a process.
LEMMA SweeperKeeps ==
    ASSUME HookInv, NEW w \in Workers, SweepStep(w) \/ SweepRaises(w) \/ Die(w)
    PROVE  HookInv'
<1> USE WebhookAssumption, WorkQueueAssumption DEF HookInv
<1>1. CASE Sweep(w)
    <2>1. IInv' /\ \A v \in Workers : delivery \in Owned(v)' => delivery \in Owned(v)
        BY <1>1 DEF Sweep, Exhausted, IInv, TypeOK, ClaimColumnsAgree, LostLeasesStayCharged,
                    Terminal, Owned
    <2>2. HookColumns'
        BY <1>1 DEF Sweep, HookColumns
    <2>3. HolderIsCurrent'
        BY <1>1, <2>1 DEF Sweep, HolderIsCurrent
    <2>4. NewsIsTrue' /\ AlertNamesItsFailure'
        BY <1>1 DEF Sweep, HookColumns, NewsIsTrue, AlertNamesItsFailure
    <2> QED BY <2>1, <2>2, <2>3, <2>4
<1>2. CASE SweepAlert(w) \/ SweepRaises(w) \/ Die(w)
    <2>1. UNCHANGED <<queueVars, generation, httpStatus, ended>>
        BY <1>2 DEF SweepAlert, SweepRaises, Die
    <2>2. IInv' /\ \A v \in Workers : delivery \in Owned(v)' => delivery \in Owned(v)
        BY <2>1, NextKeepsIInv, OnlyClaimsGive
    <2>3. /\ task' \in [Workers -> TaskType]
          /\ \A v \in Workers : task'[v] = task[v] \/ task'[v].pc = "idle"
        BY <1>2 DEF SweepAlert, SweepRaises, Die, HookColumns, Idle, TaskType, Outcomes, Generations
    <2>4. /\ sweep' \in [Workers -> SUBSET Generations]
          /\ \A v \in Workers : sweep'[v] \subseteq sweep[v]
        BY <1>2 DEF SweepAlert, SweepRaises, Die, HookColumns
    <2>5. alerts' \subseteq ended
        BY <1>2 DEF SweepAlert, SweepRaises, Die, HookColumns, NewsIsTrue, AlertNamesItsFailure
    <2>6. silenced' \subseteq Generations
        BY <1>2 DEF SweepAlert, SweepRaises, Die, HookColumns
    <2>7. HookColumns'
        BY <2>1, <2>3, <2>4, <2>5, <2>6 DEF HookColumns
    <2>8. HolderIsCurrent' /\ NewsIsTrue' /\ AlertNamesItsFailure'
        BY <2>1, <2>2, <2>3, <2>4, <2>5 DEF HolderIsCurrent, NewsIsTrue, AlertNamesItsFailure
    <2> QED BY <2>2, <2>7, <2>8
<1> QED BY <1>1, <1>2 DEF SweepStep

\* An explicit retry: the row is failed, so nobody holds it.
LEMMA RequeueKeeps ==
    ASSUME HookInv, Requeue
    PROVE  HookInv'
<1> USE WebhookAssumption, WorkQueueAssumption DEF HookInv
<1>1. IInv'
    BY DEF Requeue, IInv, TypeOK, ClaimColumnsAgree, LostLeasesStayCharged, Terminal
<1>2. \A v \in Workers : delivery \notin Owned(v)'
    BY DEF Requeue, Owned, IInv, TypeOK
<1>3. HookColumns'
    BY DEF Requeue, HookColumns, told, Generations
<1>4. HolderIsCurrent' /\ NewsIsTrue' /\ AlertNamesItsFailure'
    BY <1>2 DEF Requeue, HolderIsCurrent, NewsIsTrue, AlertNamesItsFailure, told
<1> QED BY <1>1, <1>3, <1>4

LEMMA NextKeepsHookInv == HookInv /\ [HookNext]_hookVars => HookInv'
<1> SUFFICES ASSUME HookInv, [HookNext]_hookVars PROVE HookInv'
    OBVIOUS
<1>1. CASE HookNext
    BY <1>1, ClaimKeeps, DeliverKeeps, QueueStepKeeps, SweeperKeeps, RequeueKeeps DEF HookNext
<1>2. CASE UNCHANGED hookVars
    <2>1. UNCHANGED queueVars
        BY <1>2 DEF hookVars
    <2>2. IInv'
        BY <2>1, NextKeepsIInv DEF HookInv
    <2> QED BY <1>2, <2>2 DEF hookVars, queueVars, told, HookInv, HookColumns, HolderIsCurrent,
                              NewsIsTrue, AlertNamesItsFailure, Owned
<1> QED BY <1>1, <1>2

\* The engine's invariant and those of the delivery hold in every reachable state,
\* whatever the sweep and explicit retries do to the row past the engine.
THEOREM HookInvariant == HookSpec => []HookInv
    BY InitHookInv, NextKeepsHookInv, PTL DEF HookSpec

\* Tasks, sweepers and the row's columns stay in their domains.
THEOREM HookTypeCorrect == HookSpec => []HookTypeOK
<1>1. HookInv => HookTypeOK
    BY DEF HookInv, IInv, HookColumns, HookTypeOK, TaskType
<1> QED BY <1>1, HookInvariant, PTL

\* _raise_failure_alert and the sweep: no alert for a delivery another worker is
\* still making, nor for a generation an explicit retry left behind unended.
THEOREM AlertIsTrue == HookSpec => []AlertNamesItsFailure
    BY HookInvariant, PTL DEF HookInv

------------------------------------------------------------------------------
Used(i) == usage[i].st # "none"

\* Ids are taken in order, and a row is dated by the start of a transaction
\* that inserts it within MaxOpen and ends within MaxOpen.
NearlyInOrder ==
    \A i, j \in UsageIds :
        i <= j /\ Used(j) => Used(i) /\ usage[i].created <= usage[j].created + MaxOpen

OpenIsRecent ==
    \A i \in UsageIds :
        /\ usage[i].created <= clock
        /\ usage[i].st = "open" => clock <= usage[i].created + MaxOpen

\* Every row up to p has ended, and has arrived if it is still kept.
DoneUpTo(p) ==
    \A i \in UsageIds : i <= p =>
        usage[i].st = "gone" \/ (usage[i].st = "stored" /\ i \in arrived)

\* The batch misses nothing between the position and any row of it.
BatchIsWhole ==
    \A r \in export.rows, i \in UsageIds :
        export.position < i /\ i <= r =>
            usage[i].st = "gone" \/ (usage[i].st = "stored" /\ i \in export.rows)

UsageInv ==
    /\ UsageTypeOK
    /\ NearlyInOrder
    /\ OpenIsRecent
    /\ DoneUpTo(lastId)
    /\ export.pc \in {"fetch", "post", "record"} => DoneUpTo(export.position)
    /\ export.pc = "post" => BatchIsWhole

\* Below a row that is not young, every row has ended.
LEMMA BelowSettled ==
    ASSUME UsageInv, NEW i \in UsageIds, NEW j \in UsageIds, i <= j,
           usage[j].st = "stored", ~Young(j)
    PROVE  usage[i].st \in {"stored", "gone"}
<1>1. Used(i) /\ usage[i].created <= usage[j].created + MaxOpen
    BY DEF UsageInv, NearlyInOrder, Used
<1>2. /\ clock \in Nat /\ usage[i].created \in Nat /\ usage[j].created \in Nat
      /\ usage[i].st \in {"none", "open", "stored", "gone"}
    BY UsageAssumption DEF UsageInv, UsageTypeOK
<1>3. usage[j].created <= clock - RowSettle
    BY <1>2, UsageAssumption DEF Young
<1>4. usage[i].st # "open"
    BY <1>1, <1>2, <1>3, UsageAssumption DEF UsageInv, OpenIsRecent
<1> QED BY <1>1, <1>2, <1>4 DEF Used

\* A batch is whole, whatever order its rows appeared in.
LEMMA SettledIsWhole ==
    ASSUME UsageInv, NEW p \in Nat, NEW r \in SettledBatch(p), NEW i \in UsageIds,
           p < i, i <= r
    PROVE  usage[i].st = "gone" \/ (usage[i].st = "stored" /\ i \in SettledBatch(p))
<1> DEFINE after == {j \in Visible : j > p}
           first == {j \in after : Cardinality(UpTo(after, j)) <= ExportBatch}
<1>1. r \in first /\ \A j \in UpTo(first, r) : ~Young(j)
    BY DEF SettledBatch
<1>2. r \in UsageIds /\ usage[r].st = "stored" /\ ~Young(r)
    BY <1>1 DEF Visible, UpTo, UsageIds
<1>3. usage[i].st \in {"stored", "gone"}
    BY <1>2, BelowSettled
<1>4. SUFFICES ASSUME usage[i].st = "stored" PROVE i \in SettledBatch(p)
    BY <1>3
<1>5. i \in after
    BY <1>4 DEF Visible
<1>6. IsFiniteSet(UpTo(after, r))
    <2>1. IsFiniteSet(1..LastId)
        BY FS_Interval, UsageAssumption
    <2>2. UpTo(after, r) \subseteq 1..LastId
        BY DEF UpTo, Visible, UsageIds
    <2> QED BY <2>1, <2>2, FS_Subset
<1>7. UpTo(after, i) \subseteq UpTo(after, r)
    BY <1>2 DEF UpTo, Visible, UsageIds
<1>8. /\ Cardinality(UpTo(after, i)) <= Cardinality(UpTo(after, r))
      /\ Cardinality(UpTo(after, i)) \in Nat /\ Cardinality(UpTo(after, r)) \in Nat
    BY <1>6, <1>7, FS_Subset, FS_CardinalityType
<1>9. i \in first
    BY <1>1, <1>5, <1>8, UsageAssumption
<1>10. UpTo(first, i) \subseteq UpTo(first, r)
    BY <1>2 DEF UpTo, Visible, UsageIds
<1> QED BY <1>1, <1>9, <1>10 DEF SettledBatch

\* Nothing recorded, nothing exported.
LEMMA InitUsageInv == UsageInit => UsageInv
<1> SUFFICES ASSUME UsageInit PROVE UsageInv
    OBVIOUS
<1>1. UsageTypeOK
    BY UsageAssumption DEF UsageInit, UsageTypeOK, NoPass, PassAt
<1>2. NearlyInOrder /\ OpenIsRecent
    BY UsageAssumption DEF UsageInit, NearlyInOrder, OpenIsRecent, Used
<1>3. DoneUpTo(lastId)
    BY DEF UsageInit, DoneUpTo, UsageIds
<1> QED BY <1>1, <1>2, <1>3 DEF UsageInv, UsageInit, NoPass, PassAt

\* Every step keeps UsageInv.
LEMMA StepUsageInv == UsageInv /\ [UsageNext]_usageVars => UsageInv'
<1> SUFFICES ASSUME UsageInv, [UsageNext]_usageVars PROVE UsageInv'
    OBVIOUS
<1>0. /\ LastId \in Nat /\ MaxOpen \in Nat /\ RowSettle \in Nat
      /\ Retention \in Nat /\ MaxClock \in Nat /\ 0 \in 0..LastId
    BY UsageAssumption
<1> USE <1>0 DEF UsageInv, NoPass, Exported, PassAt
<1>1. ASSUME NEW i \in UsageIds, NEW t \in 0..MaxClock, Record(i, t) PROVE UsageInv'
    <2> DEFINE row == [st |-> "open", created |-> t]
    <2>1. /\ usage' = [usage EXCEPT ![i] = row] /\ usage[i].st = "none"
          /\ \A j \in UsageIds : j < i => usage[j].st # "none"
          /\ t <= clock /\ clock <= t + MaxOpen
          /\ UNCHANGED <<clock, lastId, export, arrived>>
        BY <1>1 DEF Record
    <2>2. UsageTypeOK'
        BY <2>1 DEF UsageTypeOK
    <2>3. /\ usage'[i] = row
          /\ \A j \in UsageIds : j # i => usage'[j] = usage[j]
        BY <2>1 DEF UsageTypeOK
    <2>4. \A j \in UsageIds : Used(j) => j < i
        BY <2>1 DEF NearlyInOrder, Used, UsageIds
    <2>5. NearlyInOrder'
        <3> SUFFICES ASSUME NEW a \in UsageIds, NEW b \in UsageIds, a <= b, Used(b)'
                     PROVE  Used(a)' /\ usage'[a].created <= usage'[b].created + MaxOpen
            BY <2>1 DEF NearlyInOrder
        <3>0. \A j \in UsageIds : usage[j].created \in Nat /\ usage[j].created <= clock
            BY DEF UsageTypeOK, OpenIsRecent
        <3>1. CASE b = i /\ a = i
            BY <3>1, <2>3 DEF Used
        <3>2. CASE b = i /\ a # i
            <4>1. a < i /\ usage'[a] = usage[a]
                BY <3>2, <2>3 DEF UsageIds
            <4>2. Used(a)'
                BY <4>1, <2>1 DEF Used
            <4>3. usage[a].created <= clock /\ clock <= t + MaxOpen /\ usage'[b].created = t
                BY <3>0, <3>2, <2>1, <2>3
            <4> QED BY <4>1, <4>2, <4>3, <3>0, <2>1 DEF UsageTypeOK
        <3>3. CASE b # i
            <4>1. Used(b) /\ b < i
                BY <3>3, <2>3, <2>4 DEF Used
            <4>2. usage'[a] = usage[a] /\ usage'[b] = usage[b]
                BY <4>1, <2>3 DEF UsageIds
            <4> QED BY <4>1, <4>2 DEF NearlyInOrder, Used
        <3> QED BY <3>1, <3>2, <3>3
    <2>6. OpenIsRecent'
        BY <2>1, <2>3 DEF OpenIsRecent
    <2>7. \A p : DoneUpTo(p) => DoneUpTo(p)'
        BY <2>1, <2>3 DEF DoneUpTo
    <2>8. DoneUpTo(lastId)'
        BY <2>1, <2>7 DEF DoneUpTo
    <2>9. (export.pc \in {"fetch", "post", "record"} => DoneUpTo(export.position))'
        BY <2>1, <2>7 DEF DoneUpTo
    <2>10. (export.pc = "post" => BatchIsWhole)'
        BY <2>1, <2>3 DEF BatchIsWhole
    <2> QED BY <2>2, <2>5, <2>6, <2>8, <2>9, <2>10
<1>2. ASSUME NEW i \in UsageIds, NEW s \in {"stored", "gone"}, EndRecord(i, s) PROVE UsageInv'
    <2>1. /\ usage' = [usage EXCEPT ![i].st = s] /\ usage[i].st = "open"
          /\ UNCHANGED <<clock, lastId, export, arrived>>
        BY <1>2 DEF EndRecord
    <2>2. UsageTypeOK'
        BY <2>1 DEF UsageTypeOK
    <2>3. /\ usage'[i].st = s
          /\ \A j \in UsageIds : usage'[j].created = usage[j].created
          /\ \A j \in UsageIds : j # i => usage'[j].st = usage[j].st
        BY <2>1 DEF UsageTypeOK
    <2>4. NearlyInOrder'
        BY <2>1, <2>3 DEF NearlyInOrder, Used
    <2>5. OpenIsRecent'
        BY <2>1, <2>3 DEF OpenIsRecent
    <2>6. \A p : DoneUpTo(p) => DoneUpTo(p)'
        BY <2>1, <2>3 DEF DoneUpTo
    <2>7. DoneUpTo(lastId)'
        BY <2>1, <2>6 DEF DoneUpTo
    <2>8. (export.pc \in {"fetch", "post", "record"} => DoneUpTo(export.position))'
        BY <2>1, <2>6 DEF DoneUpTo
    <2>9. (export.pc = "post" => BatchIsWhole)'
        BY <2>1, <2>3 DEF BatchIsWhole
    <2> QED BY <2>2, <2>4, <2>5, <2>7, <2>8, <2>9
<1>3. CASE Advance
    <2>1. UsageTypeOK'
        BY <1>3 DEF Advance, UsageTypeOK
    <2>2. OpenIsRecent'
        BY <1>3 DEF Advance, UsageTypeOK, OpenIsRecent
    <2> QED BY <1>3, <2>1, <2>2 DEF Advance, NearlyInOrder, Used, DoneUpTo, BatchIsWhole
\* The pass: it changes no row until it prunes.
<1>4. ASSUME UNCHANGED <<clock, usage, lastId, arrived>>, UsageTypeOK',
             (export.pc \in {"fetch", "post", "record"} => DoneUpTo(export.position))',
             (export.pc = "post" => BatchIsWhole)'
      PROVE  UsageInv'
    BY <1>4 DEF NearlyInOrder, Used, OpenIsRecent, DoneUpTo
<1>5. CASE BeginExport
    <2>1. /\ UNCHANGED <<clock, usage, lastId, arrived>>
          /\ \/ export' = PassAt("fetch", lastId)
             \/ export' = Exported
        BY <1>5 DEF BeginExport
    <2>2. UsageTypeOK'
        <3>1. CASE export' = PassAt("fetch", lastId)
            BY <2>1, <3>1 DEF UsageTypeOK
        <3>2. CASE export' = Exported
            BY <2>1, <3>2 DEF UsageTypeOK
        <3> QED BY <2>1, <3>1, <3>2
    <2>3. (export.pc # "post")' /\ (export.pc = "fetch" => export.position = lastId)'
        BY <2>1
    <2>4. (export.pc \notin {"post", "record"})'
        BY <2>1
    <2>5. DoneUpTo(lastId)'
        BY <2>1 DEF DoneUpTo
    <2>6. (export.pc \in {"fetch", "post", "record"} => DoneUpTo(export.position))'
        BY <2>3, <2>4, <2>5 DEF DoneUpTo
    <2> QED BY <1>4, <2>1, <2>2, <2>3, <2>6
<1>6. CASE Fetch
    <2> DEFINE rows == SettledBatch(export.position)
    <2>1. export.pc = "fetch" /\ UNCHANGED <<clock, usage, lastId, arrived>>
        BY <1>6 DEF Fetch
    <2>2. CASE rows = {}
        <3>1. export' = Exported
            BY <1>6, <2>2 DEF Fetch
        <3>2. UsageTypeOK'
            BY <2>1, <3>1 DEF UsageTypeOK
        <3> QED BY <1>4, <2>1, <3>1, <3>2
    <2>3. CASE rows # {}
        <3>1. export' = [export EXCEPT !.pc = "post", !.rows = rows]
            BY <1>6, <2>3 DEF Fetch
        <3>2. rows \subseteq UsageIds
            BY DEF SettledBatch, Visible
        <3>3. UsageTypeOK'
            BY <2>1, <3>1, <3>2 DEF UsageTypeOK
        <3>4. export'.rows = rows /\ export'.position = export.position /\ export.position \in Nat
            BY <3>1 DEF UsageTypeOK
        <3>5. DoneUpTo(export.position)'
            BY <2>1, <3>4 DEF DoneUpTo
        <3>6. BatchIsWhole'
            <4> HIDE DEF UsageInv
            <4> SUFFICES ASSUME NEW r \in rows, NEW i \in UsageIds, export.position < i, i <= r
                         PROVE  usage[i].st = "gone" \/ (usage[i].st = "stored" /\ i \in rows)
                BY <2>1, <3>4 DEF BatchIsWhole
            <4> QED BY <3>4, SettledIsWhole
        <3> QED BY <1>4, <2>1, <3>3, <3>5, <3>6
    <2> QED BY <2>2, <2>3
<1>7. CASE Post
    <2>1. PICK taken \in SUBSET export.rows, i \in export.rows \cup {0} :
            LET head == UpTo(export.rows, i)
            IN /\ head \subseteq taken \cup arrived
               /\ arrived' = arrived \cup taken
               /\ export' = [export EXCEPT !.pc = "record", !.refused = head # export.rows,
                                           !.position = IF head = {} THEN @ ELSE i]
        BY <1>7 DEF Post
    <2> DEFINE head == UpTo(export.rows, i)
    <2>2. export.pc = "post" /\ UNCHANGED <<clock, usage, lastId>>
        BY <1>7 DEF Post
    <2>3. export.rows \subseteq UsageIds /\ i \in 0..LastId /\ export.position \in 0..LastId
        BY DEF UsageTypeOK, UsageIds
    <2>4. UsageTypeOK'
        BY <2>1, <2>2, <2>3 DEF UsageTypeOK
    <2>5. \A p : DoneUpTo(p) => DoneUpTo(p)'
        BY <2>1, <2>2 DEF DoneUpTo
    <2>6. DoneUpTo(export.position)'
        <3>1. CASE head = {}
            BY <2>1, <2>2, <2>5, <3>1 DEF UsageTypeOK, DoneUpTo
        <3>2. CASE head # {}
            <4>1. i \in export.rows
                BY <2>3, <3>2 DEF UpTo, UsageIds
            <4>2. export'.position = i
                BY <2>1, <3>2 DEF UsageTypeOK
            <4>3. head \subseteq arrived'
                BY <2>1
            <4> SUFFICES ASSUME NEW k \in UsageIds, k <= i
                         PROVE  usage[k].st = "gone" \/ (usage[k].st = "stored" /\ k \in arrived')
                BY <2>2, <4>2 DEF DoneUpTo
            <4>4. CASE k <= export.position
                BY <2>1, <2>2, <4>4 DEF DoneUpTo
            <4>5. CASE export.position < k
                BY <2>2, <4>1, <4>3, <4>5 DEF BatchIsWhole, UpTo
            <4> QED BY <2>3, <4>4, <4>5 DEF UsageIds
        <3> QED BY <3>1, <3>2
    <2>7. export'.pc = "record"
        BY <2>1 DEF UsageTypeOK
    <2>8. DoneUpTo(lastId)'
        BY <2>2, <2>5 DEF DoneUpTo
    <2> QED BY <2>2, <2>4, <2>6, <2>7, <2>8 DEF NearlyInOrder, Used, OpenIsRecent
<1>8. CASE RecordOutcome
    <2>1. /\ export.pc = "record" /\ lastId' = export.position
          /\ UNCHANGED <<clock, usage, arrived>>
          /\ export' = Exported \/ export' = [export EXCEPT !.pc = "fetch", !.rows = {}]
        BY <1>8 DEF RecordOutcome
    <2>2. UsageTypeOK'
        <3>1. CASE export' = Exported
            BY <2>1, <3>1 DEF UsageTypeOK
        <3>2. CASE export' = [export EXCEPT !.pc = "fetch", !.rows = {}]
            BY <2>1, <3>2 DEF UsageTypeOK
        <3> QED BY <2>1, <3>1, <3>2
    <2>3. DoneUpTo(lastId)'
        BY <2>1 DEF DoneUpTo
    <2>4. /\ (export.pc \notin {"post", "record"})'
          /\ (export.pc = "fetch")' => export'.position = export.position
        <3>1. CASE export' = Exported
            BY <3>1
        <3>2. CASE export' = [export EXCEPT !.pc = "fetch", !.rows = {}]
            BY <3>2 DEF UsageTypeOK
        <3> QED BY <2>1, <3>1, <3>2
    <2>5. (export.pc \in {"fetch", "post", "record"} => DoneUpTo(export.position))'
        BY <2>1, <2>4 DEF DoneUpTo
    <2> QED BY <2>1, <2>2, <2>3, <2>4, <2>5 DEF NearlyInOrder, Used, OpenIsRecent
<1>9. CASE DieExporting
    BY <1>4, <1>9 DEF DieExporting, UsageTypeOK
<1>10. CASE PruneUsage
    <2>1. /\ export.pc = "prune" /\ export' = NoPass
          /\ UNCHANGED <<clock, lastId, arrived>>
          /\ usage' = [i \in UsageIds |->
                         IF i \in Visible /\ usage[i].created < clock - Retention
                         THEN [usage[i] EXCEPT !.st = "gone"] ELSE usage[i]]
        BY <1>10 DEF PruneUsage
    <2>2. UsageTypeOK'
        BY <2>1 DEF UsageTypeOK
    <2>3. \A i \in UsageIds :
             /\ usage'[i].created = usage[i].created
             /\ usage'[i].st = usage[i].st \/ (usage[i].st = "stored" /\ usage'[i].st = "gone")
        BY <2>1 DEF UsageTypeOK, Visible
    <2>4. NearlyInOrder'
        BY <2>3 DEF NearlyInOrder, Used
    <2>5. OpenIsRecent'
        BY <2>1, <2>3 DEF OpenIsRecent
    <2>6. DoneUpTo(lastId)'
        BY <2>1, <2>3 DEF DoneUpTo
    <2> QED BY <2>1, <2>2, <2>4, <2>5, <2>6
<1>11. CASE UNCHANGED usageVars
    BY <1>4, <1>11 DEF usageVars, UsageTypeOK, DoneUpTo, BatchIsWhole
<1> QED BY <1>1, <1>2, <1>3, <1>5, <1>6, <1>7, <1>8, <1>9, <1>10, <1>11 DEF UsageNext

\* The usage rows, the position and the pass have their types.
THEOREM UsageTypeCorrect == UsageSpec => []UsageTypeOK
<1>1. UsageInv => UsageTypeOK
    BY DEF UsageInv
<1> QED BY <1>1, InitUsageInv, StepUsageInv, PTL DEF UsageSpec

\* Whatever order rows appear in, whatever answers are lost and whenever a
\* pass dies, the stored position passes no row that has not arrived.
THEOREM NoneSkipped == UsageSpec => []NothingPassedOver
<1>1. UsageInv => NothingPassedOver
    BY DEF UsageInv, DoneUpTo, NothingPassedOver, Visible
<1> QED BY <1>1, InitUsageInv, StepUsageInv, PTL DEF UsageSpec

------------------------------------------------------------------------------
\* Ids rise within a ring, and none is ahead of the counter.
RingsGrow ==
    \A a \in Accounts :
        /\ \A i \in DOMAIN rings[a] : rings[a][i] \in 1..seq
        /\ \A i, j \in DOMAIN rings[a] : i < j => rings[a][i] < rings[a][j]

\* What the generator has read lies past what it has sent.
GeneratorFits ==
    /\ lastSeen <= seq
    /\ \A n \in batch : lastSeen < n /\ n <= seq
    /\ pc \in {"off", "loop", "waiting"} => batch = {}
    /\ pc = "off" => wire = <<>>

\* Frames on the wire carry rising ids; only the first may be a reset.
WireFits ==
    /\ \A i \in 1..Len(wire) :
          /\ wire[i].stamp.epoch = epoch /\ wire[i].stamp.seq <= lastSeen
          /\ wire[i].resets => i = 1
    /\ \A i, j \in 1..Len(wire) : i < j => wire[i].stamp.seq < wire[j].stamp.seq

\* A client of another process is told so before anything else, and one of this
\* process of nothing older than what it has.
CookieFits ==
    /\ cookie.epoch <= epoch
    /\ cookie.epoch = epoch => cookie.seq <= seq
    /\ pc # "off" /\ cookie.epoch = epoch =>
          /\ cookie.seq <= lastSeen
          /\ \A i \in 1..Len(wire) : cookie.seq <= wire[i].stamp.seq
    /\ pc # "off" /\ (Len(wire) = 0 \/ ~wire[1].resets) => cookie.epoch = epoch

\* Where an event that is due may be: under way as part of a reset or as a
\* frame, read but not yet sent, or still to be read.
Resetting(n) == Len(wire) > 0 /\ wire[1].resets /\ n <= wire[1].stamp.seq
Told(n) == \E i \in 1..Len(wire) : ~wire[i].resets /\ wire[i].stamp.seq = n
Unread(n) == (\A m \in batch \cup {lastSeen} : m < n) /\ \E a \in Watched : n \in Kept(a)
KeptOrEvicted(n) ==
    \E a \in Watched : n \in Kept(a) \/ (rings[a] # <<>> /\ n < rings[a][1])

DueFits ==
    \A d \in due :
        /\ d.epoch <= epoch
        /\ d.epoch = epoch =>
              /\ d.seq <= seq
              /\ KeptOrEvicted(d.seq)
              /\ pc # "off" => d.seq \in batch \/ Resetting(d.seq) \/ Told(d.seq) \/ Unread(d.seq)

\* The generator, the wire and the client agree with the ring, however slowly the
\* client reads; if it keeps up, what is due is never lost.
StreamInv ==
    /\ StreamTypeOK
    /\ RingsGrow
    /\ GeneratorFits
    /\ WireFits
    /\ CookieFits
    /\ KeepsUp => DueFits /\ NothingSkipped

------------------------------------------------------------------------------
LEMMA StampIs ==
    ASSUME StreamTypeOK, NEW n \in Ids
    PROVE  Stamp(n) \in Stamps /\ Stamp(n).epoch = epoch /\ Stamp(n).seq = n
BY DEF StreamTypeOK, Stamp, Stamps

LEMMA StampsAre ==
    ASSUME StreamTypeOK
    PROVE  /\ epoch \in Nat /\ seq \in Nat /\ lastSeen \in Nat /\ MaxSeq \in Nat /\ MaxEpoch \in Nat
           /\ \A n \in batch : n \in Nat
           /\ \A d \in due : d.epoch \in Nat /\ d.seq \in Ids /\ d = [epoch |-> d.epoch, seq |-> d.seq]
           /\ cookie.epoch \in Int /\ cookie.seq \in Ids
           /\ \A i \in 1..Len(wire) :
                 /\ wire[i] \in Frames /\ wire[i].stamp \in Stamps
                 /\ wire[i].stamp.epoch \in Nat /\ wire[i].stamp.seq \in Ids /\ wire[i].resets \in BOOLEAN
           /\ Len(wire) \in Nat
<1>1. MaxSeq \in Nat /\ MaxEpoch \in Nat
    BY StreamAssumption
<1>2. epoch \in Nat /\ seq \in Nat /\ lastSeen \in Nat /\ \A n \in batch : n \in Nat
    BY <1>1 DEF StreamTypeOK, Ids
<1>3. \A d \in due : d.epoch \in Nat /\ d.seq \in Ids /\ d = [epoch |-> d.epoch, seq |-> d.seq]
    BY <1>1 DEF StreamTypeOK, Stamps
<1>4. cookie.epoch \in Int /\ cookie.seq \in Ids
    <2>1. CASE cookie \in Stamps
        BY <1>1, <2>1 DEF Stamps
    <2>2. CASE cookie = NoCookie
        BY <1>1, <2>2 DEF NoCookie, Ids
    <2> QED BY <2>1, <2>2 DEF StreamTypeOK
<1>5. wire \in Seq(Frames)
    BY DEF StreamTypeOK
<1>6. \A i \in 1..Len(wire) : wire[i] \in Frames
    BY <1>5
<1>7. \A f \in Frames : /\ f.stamp \in Stamps /\ f.stamp.epoch \in Nat
                        /\ f.stamp.seq \in Ids /\ f.resets \in BOOLEAN
    BY <1>1 DEF Frames, Stamps
<1>8. Len(wire) \in Nat
    BY <1>5
<1> QED BY <1>1, <1>2, <1>3, <1>4, <1>6, <1>7, <1>8

\* The frame the generator yields is the last on the wire.
LEMMA AppendIs ==
    ASSUME wire \in Seq(Frames), NEW f \in Frames, wire' = Append(wire, f)
    PROVE  /\ wire' \in Seq(Frames) /\ Len(wire') = Len(wire) + 1
           /\ \A i \in 1..Len(wire) : wire'[i] = wire[i]
           /\ wire'[Len(wire) + 1] = f
           /\ wire' # <<>>
BY DEF Frames

LEMMA TailIs ==
    ASSUME wire \in Seq(Frames), wire # <<>>, wire' = Tail(wire)
    PROVE  /\ wire' \in Seq(Frames) /\ Len(wire) \in Nat \ {0} /\ Len(wire') = Len(wire) - 1
           /\ \A i \in 1..Len(wire') : wire'[i] = wire[i + 1]
           /\ Head(wire) = wire[1] /\ wire[1] \in Frames
<1>1. Len(wire) \in Nat /\ Len(wire) # 0 /\ Head(wire) = wire[1]
    OBVIOUS
<1>2. wire[1] \in Frames
    BY <1>1
<1>3. wire' \in Seq(Frames) /\ Len(wire') = Len(wire) - 1
    BY <1>1
<1>4. \A i \in 1..Len(wire') : wire'[i] = wire[i + 1]
    BY <1>1, <1>3
<1> QED BY <1>1, <1>2, <1>3, <1>4

\* What a ring becomes when an event is added to it.
LEMMA PushedIs ==
    ASSUME StreamTypeOK, RingsGrow, NEW a \in Accounts, seq < MaxSeq
    PROVE  /\ Pushed(a) \in Seq(Ids) /\ Len(Pushed(a)) <= RingSize
           /\ \/ /\ Len(rings[a]) < RingSize
                 /\ Len(Pushed(a)) = Len(rings[a]) + 1
                 /\ \A i \in 1..Len(rings[a]) : Pushed(a)[i] = rings[a][i]
              \/ /\ Len(rings[a]) = RingSize
                 /\ Len(Pushed(a)) = Len(rings[a])
                 /\ \A i \in 1..Len(rings[a]) - 1 : Pushed(a)[i] = rings[a][i + 1]
           /\ Pushed(a)[Len(Pushed(a))] = seq + 1
           /\ Pushed(a) # <<>>
<1> DEFINE ring == rings[a]
           long == Append(ring, seq + 1)
<1>1. ring \in Seq(Ids) /\ Len(ring) \in Nat /\ Len(ring) <= RingSize /\ RingSize \in Nat \ {0}
    BY StreamAssumption DEF StreamTypeOK
<1>2. seq + 1 \in Ids /\ seq \in Nat
    BY StreamAssumption DEF StreamTypeOK, Ids
<1>3. /\ long \in Seq(Ids) /\ Len(long) = Len(ring) + 1
      /\ \A i \in 1..Len(ring) : long[i] = ring[i]
      /\ long[Len(ring) + 1] = seq + 1
    BY <1>1, <1>2
<1>4. Pushed(a) = IF Len(long) > RingSize THEN Tail(long) ELSE long
    BY DEF Pushed
<1> HIDE DEF long
<1>5. CASE Len(ring) < RingSize
    <2>1. Pushed(a) = long
        BY <1>1, <1>3, <1>4, <1>5
    <2> QED BY <1>1, <1>3, <1>5, <2>1
<1>6. CASE Len(ring) = RingSize
    <2>1. Pushed(a) = Tail(long)
        BY <1>1, <1>3, <1>4, <1>6
    <2>2. /\ Tail(long) \in Seq(Ids) /\ Len(Tail(long)) = Len(ring)
          /\ \A i \in 1..Len(ring) : Tail(long)[i] = long[i + 1]
        BY <1>1, <1>3, <1>6
    <2> QED BY <1>1, <1>3, <1>6, <2>1, <2>2
<1> QED BY <1>1, <1>5, <1>6

LEMMA RingsAre ==
    ASSUME StreamTypeOK, NEW a \in Accounts
    PROVE  /\ rings[a] \in Seq(Ids) /\ Len(rings[a]) \in Nat /\ DOMAIN rings[a] = 1..Len(rings[a])
           /\ rings[a] # <<>> => Len(rings[a]) > 0 /\ Head(rings[a]) = rings[a][1]
           /\ Len(rings[a]) > 0 => rings[a] # <<>>
           /\ RingSize \in Nat \ {0} /\ Len(rings[a]) <= RingSize
<1>1. rings[a] \in Seq(Ids) /\ RingSize \in Nat \ {0} /\ Len(rings[a]) <= RingSize
    BY StreamAssumption DEF StreamTypeOK
<1> QED BY <1>1

\* What adding an event leaves of the rings.
LEMMA AddKeeps ==
    ASSUME StreamTypeOK, RingsGrow, NEW a \in Accounts, Add(a)
    PROVE  /\ rings' \in [Accounts -> Seq(Ids)]
           /\ \A b \in Accounts : Len(rings'[b]) <= RingSize
           /\ RingsGrow'
           /\ \A b \in Accounts \ {a} : rings'[b] = rings[b]
           /\ seq + 1 \in Kept(a)'
           /\ \A n \in Kept(a) : \/ n \in Kept(a)'
                                 \/ Len(rings[a]) = RingSize /\ n = rings[a][1]
           /\ \A n \in Int : n \in Kept(a) \/ (rings[a] # <<>> /\ n < rings[a][1]) =>
                             n \in Kept(a)' \/ (rings'[a] # <<>> /\ n < rings'[a][1])
<1> DEFINE old == rings[a]
           new == Pushed(a)
<1>1. seq < MaxSeq /\ seq' = seq + 1 /\ rings' = [rings EXCEPT ![a] = new]
    BY DEF Add
<1>2. rings \in [Accounts -> Seq(Ids)] /\ \A b \in Accounts : Len(rings[b]) <= RingSize
    BY DEF StreamTypeOK
<1>3. /\ new \in Seq(Ids) /\ Len(new) <= RingSize
      /\ \/ /\ Len(old) < RingSize
            /\ Len(new) = Len(old) + 1
            /\ \A i \in 1..Len(old) : new[i] = old[i]
         \/ /\ Len(old) = RingSize
            /\ Len(new) = Len(old)
            /\ \A i \in 1..Len(old) - 1 : new[i] = old[i + 1]
      /\ new[Len(new)] = seq + 1
      /\ new # <<>>
    BY <1>1, PushedIs
<1>4. /\ old \in Seq(Ids) /\ Len(old) \in Nat /\ DOMAIN old = 1..Len(old)
      /\ RingSize \in Nat \ {0} /\ seq \in Nat
    BY RingsAre, StampsAre
<1>5. /\ \A i \in 1..Len(old) : old[i] \in 1..seq
      /\ \A i, j \in 1..Len(old) : i < j => old[i] < old[j]
    BY <1>4 DEF RingsGrow
<1> HIDE DEF old, new
<1>6. /\ rings' \in [Accounts -> Seq(Ids)]
      /\ rings'[a] = new /\ \A b \in Accounts \ {a} : rings'[b] = rings[b]
      /\ \A b \in Accounts : Len(rings'[b]) <= RingSize
    BY <1>1, <1>2, <1>3
<1>7. Len(new) \in Nat /\ DOMAIN new = 1..Len(new)
    BY <1>3
<1>8. /\ Len(new) > 0
      /\ \A i \in 1..Len(new) : new[i] \in 1..seq + 1
      /\ \A i, j \in 1..Len(new) : i < j => new[i] < new[j]
      /\ \A i \in 1..Len(old) : (\E j \in 1..Len(new) : new[j] = old[i]) \/ (Len(old) = RingSize /\ i = 1)
    <2> DEFINE k == Len(old)
               m == Len(new)
    <2>1. k \in Nat /\ m \in Nat /\ RingSize \in Nat \ {0} /\ seq \in Nat
        BY <1>4, <1>7
    <2>2. \/ k < RingSize /\ m = k + 1 /\ \A i \in 1..k : new[i] = old[i]
          \/ k = RingSize /\ m = k /\ \A i \in 1..k - 1 : new[i] = old[i + 1]
        BY <1>3
    <2>3. new[m] = seq + 1
        BY <1>3
    <2>4. /\ \A i \in 1..k : old[i] \in 1..seq
          /\ \A i, j \in 1..k : i < j => old[i] < old[j]
        BY <1>5
    <2> HIDE DEF k, m
    <2>5. /\ m > 0
          /\ \A i \in 1..m : new[i] \in 1..seq + 1
          /\ \A i, j \in 1..m : i < j => new[i] < new[j]
          /\ \A i \in 1..k : (\E j \in 1..m : new[j] = old[i]) \/ (k = RingSize /\ i = 1)
        <3>1. CASE k < RingSize /\ m = k + 1 /\ \A i \in 1..k : new[i] = old[i]
            <4>1. \A i \in 1..m : i \in 1..k \/ i = m
                BY <2>1, <2>3, <2>4, <3>1
            <4>2. \A i \in 1..m : new[i] \in 1..seq + 1
                BY <2>1, <2>3, <2>4, <3>1, <4>1
            <4>3. ASSUME NEW i \in 1..m, NEW j \in 1..m, i < j PROVE new[i] < new[j]
                <5>1. i \in 1..k /\ new[i] = old[i] /\ old[i] \in 1..seq
                    BY <2>1, <2>3, <2>4, <3>1, <4>3
                <5>2. CASE j = m
                    BY <2>1, <2>3, <2>4, <5>1, <5>2
                <5>3. CASE j \in 1..k
                    BY <2>1, <2>3, <2>4, <3>1, <4>3, <5>1, <5>3
                <5> QED BY <2>1, <2>3, <2>4, <4>1, <5>2, <5>3
            <4>4. \A i \in 1..k : i \in 1..m /\ new[i] = old[i]
                BY <2>1, <2>3, <2>4, <3>1
            <4> QED BY <2>1, <2>3, <2>4, <3>1, <4>2, <4>3, <4>4
        <3>2. CASE k = RingSize /\ m = k /\ \A i \in 1..k - 1 : new[i] = old[i + 1]
            <4>1. \A i \in 1..m : i \in 1..k - 1 \/ i = m
                BY <2>1, <2>3, <2>4, <3>2
            <4>2. \A i \in 1..k - 1 : i + 1 \in 1..k /\ old[i + 1] \in 1..seq /\ new[i] = old[i + 1]
                BY <2>1, <2>3, <2>4, <3>2
            <4>3. \A i \in 1..m : new[i] \in 1..seq + 1
                BY <2>1, <2>3, <2>4, <4>1, <4>2
            <4>4. ASSUME NEW i \in 1..m, NEW j \in 1..m, i < j PROVE new[i] < new[j]
                <5>1. i \in 1..k - 1
                    BY <2>1, <2>3, <2>4, <3>2, <4>4
                <5>2. CASE j = m
                    BY <2>1, <2>3, <2>4, <4>2, <5>1, <5>2
                <5>3. CASE j \in 1..k - 1
                    <6>1. i + 1 < j + 1 /\ i + 1 \in 1..k /\ j + 1 \in 1..k
                        BY <2>1, <2>3, <2>4, <4>4, <5>1, <5>3
                    <6> QED BY <2>1, <2>3, <2>4, <4>2, <5>1, <5>3, <6>1
                <5> QED BY <2>1, <2>3, <2>4, <4>1, <5>2, <5>3
            <4>5. ASSUME NEW i \in 1..k, i # 1 PROVE \E j \in 1..m : new[j] = old[i]
                <5>1. i - 1 \in 1..k - 1 /\ (i - 1) + 1 = i /\ i - 1 \in 1..m
                    BY <2>1, <2>3, <2>4, <3>2, <4>5
                <5>2. new[i - 1] = old[i]
                    BY <2>1, <2>3, <2>4, <4>2, <5>1
                <5> QED BY <2>1, <2>3, <2>4, <5>1, <5>2
            <4> QED BY <2>1, <2>3, <2>4, <3>2, <4>3, <4>4, <4>5
        <3> QED BY <2>2, <3>1, <3>2
    <2> QED BY <2>5 DEF k, m
<1>10. RingsGrow'
    <2> SUFFICES ASSUME NEW b \in Accounts
                 PROVE  /\ \A i \in DOMAIN rings'[b] : rings'[b][i] \in 1..seq'
                        /\ \A i, j \in DOMAIN rings'[b] : i < j => rings'[b][i] < rings'[b][j]
        BY DEF RingsGrow
    <2>1. CASE b = a
        BY <1>1, <1>6, <1>7, <1>8, <2>1
    <2>2. CASE b # a
        <3>1. \A k \in 1..seq : k \in 1..seq'
            BY <1>1, <1>4
        <3> QED BY <1>6, <2>2, <3>1 DEF RingsGrow
    <2> QED BY <2>1, <2>2
<1>11. Kept(a)' = {new[i] : i \in 1..Len(new)} /\ Kept(a) = {old[i] : i \in 1..Len(old)}
    BY <1>4, <1>6, <1>7 DEF Kept, old
<1>12. seq + 1 \in Kept(a)'
    <2>1. Len(new) \in 1..Len(new)
        BY <1>7, <1>8
    <2> QED BY <1>3, <1>11, <2>1
<1>13. ASSUME NEW n \in Kept(a)
       PROVE  n \in Kept(a)' \/ (Len(old) = RingSize /\ n = old[1])
    <2>1. PICK i \in 1..Len(old) : n = old[i]
        BY <1>11, <1>13
    <2> QED BY <1>8, <1>11, <2>1
<1>14. \A n \in Int : (old # <<>> /\ n <= old[1]) => n \in Kept(a)' \/ n < new[1]
    <2> SUFFICES ASSUME NEW n \in Int, old # <<>>, n <= old[1] PROVE n \in Kept(a)' \/ n < new[1]
        OBVIOUS
    <2>0. Len(new) > 0
        BY <1>8
    <2>1. Len(old) > 0 /\ 1 \in 1..Len(old) /\ 1 \in 1..Len(new) /\ old[1] \in 1..seq
        BY <1>4, <1>5, <1>7, <2>0
    <2>2. CASE Len(old) < RingSize
        <3>1. new[1] = old[1] /\ new[1] \in Kept(a)'
            BY <1>3, <1>11, <2>1, <2>2
        <3> QED BY <2>1, <3>1
    <2>3. CASE Len(old) = RingSize /\ Len(old) = 1
        <3>1. new[1] = seq + 1
            BY <1>3, <2>3
        <3> QED BY <1>4, <2>1, <3>1
    <2>4. CASE Len(old) = RingSize /\ Len(old) # 1
        <3>1. 1 \in 1..Len(old) - 1 /\ 2 \in 1..Len(old)
            BY <1>4, <2>1, <2>4
        <3>2. new[1] = old[2] /\ old[1] < old[2] /\ old[2] \in 1..seq
            BY <1>3, <1>5, <2>1, <2>4, <3>1
        <3> QED BY <1>4, <2>1, <3>2
    <2> QED BY <1>3, <2>2, <2>3, <2>4
<1>15. \A n \in Int : n \in Kept(a) \/ (old # <<>> /\ n < old[1]) => n \in Kept(a)' \/ n < new[1]
    <2> SUFFICES ASSUME NEW n \in Int, n \in Kept(a) \/ (old # <<>> /\ n < old[1])
                 PROVE  n \in Kept(a)' \/ n < new[1]
        OBVIOUS
    <2>1. CASE n \in Kept(a)
        <3>1. Len(old) > 0 /\ old # <<>>
            BY <1>4, <1>11, <2>1
        <3>2. n = old[1] => n <= old[1]
            OBVIOUS
        <3> QED BY <1>13, <1>14, <2>1, <3>1, <3>2
    <2>2. CASE old # <<>> /\ n < old[1]
        <3>1. old[1] \in Int
            BY <1>4, <1>5, <2>2
        <3>2. n <= old[1]
            BY <2>2, <3>1
        <3> QED BY <1>14, <2>2, <3>2
    <2> QED BY <2>1, <2>2
<1> QED BY <1>3, <1>6, <1>10, <1>12, <1>13, <1>15 DEF old

LEMMA WatchedIs == Watched \subseteq Accounts
BY StreamAssumption DEF Watched

\* What is still to be read stays in its ring as long as the client keeps up.
LEMMA AddKeepsUnread ==
    ASSUME KeepsUp, StreamTypeOK, RingsGrow, NEW a \in Accounts, Add(a), pc # "off",
           NEW n \in Ids, Unread(n)
    PROVE  Unread(n)'
<1>1. PICK b \in Watched : n \in Kept(b)
    BY DEF Unread
<1>2. \A m \in batch \cup {lastSeen} : m < n
    BY DEF Unread
<1>3. batch' = batch /\ lastSeen' = lastSeen /\ NothingUnreadEvicted(a)
    BY DEF Add
<1>4. b \in Accounts /\ n \in Int
    BY <1>1, WatchedIs, StampsAre DEF Ids
<1>5. n \in Kept(b)'
    <2>1. CASE b # a
        <3>1. rings'[b] = rings[b]
            BY <1>4, <2>1, AddKeeps
        <3> QED BY <1>1, <3>1 DEF Kept
    <2>2. CASE b = a
        <3>1. n \in Kept(a)' \/ (Len(rings[a]) = RingSize /\ n = rings[a][1])
            BY <1>1, <2>2, AddKeeps
        <3>2. ASSUME Len(rings[a]) = RingSize, n = rings[a][1] PROVE FALSE
            <4>1. rings[a] # <<>> /\ Head(rings[a]) = rings[a][1]
                BY <3>2, RingsAre
            <4>2. PICK m \in batch \cup {lastSeen} : n <= m
                BY <1>1, <1>3, <2>2, <3>2, <4>1 DEF NothingUnreadEvicted
            <4>3. m \in Nat /\ m < n
                BY <1>2, StampsAre
            <4> QED BY <1>4, <4>2, <4>3
        <3> QED BY <2>2, <3>1, <3>2
    <2> QED BY <2>1, <2>2
<1> QED BY <1>1, <1>2, <1>3, <1>5 DEF Unread

LEMMA AddKeepsTrace ==
    ASSUME StreamTypeOK, RingsGrow, NEW a \in Accounts, Add(a), NEW n \in Ids, KeptOrEvicted(n)
    PROVE  KeptOrEvicted(n)'
<1>1. PICK b \in Watched : n \in Kept(b) \/ (rings[b] # <<>> /\ n < rings[b][1])
    BY DEF KeptOrEvicted
<1>2. b \in Accounts /\ n \in Int
    BY <1>1, WatchedIs, StampsAre DEF Ids
<1>3. n \in Kept(b)' \/ (rings'[b] # <<>> /\ n < rings'[b][1])
    <2>1. CASE b # a
        <3>1. rings'[b] = rings[b]
            BY <1>2, <2>1, AddKeeps
        <3> QED BY <1>1, <3>1 DEF Kept
    <2>2. CASE b = a
        <3>1. \A k \in Int : k \in Kept(a) \/ (rings[a] # <<>> /\ k < rings[a][1]) =>
                             k \in Kept(a)' \/ (rings'[a] # <<>> /\ k < rings'[a][1])
            BY AddKeeps
        <3> QED BY <1>1, <1>2, <2>2, <3>1
    <2> QED BY <2>1, <2>2
<1> QED BY <1>1, <1>3 DEF KeptOrEvicted

LEMMA AddPreserves ==
    ASSUME StreamInv, NEW a \in Accounts, Add(a)
    PROVE  StreamInv'
<1>0. /\ StreamTypeOK /\ RingsGrow /\ GeneratorFits /\ WireFits /\ CookieFits
      /\ KeepsUp => DueFits /\ NothingSkipped
    BY DEF StreamInv
<1>1. /\ seq' = seq + 1 /\ seq < MaxSeq
      /\ UNCHANGED <<epoch, pc, lastSeen, batch, wire, cookie>>
    BY DEF Add
<1>2. /\ epoch \in Nat /\ seq \in Nat /\ lastSeen \in Nat /\ MaxSeq \in Nat
      /\ \A n \in batch : n \in Nat
      /\ cookie.epoch \in Int /\ cookie.seq \in Nat
      /\ \A d \in due : d.epoch \in Nat /\ d.seq \in Nat /\ d.seq \in Ids
    BY <1>0, StampsAre DEF Ids
<1>3. seq + 1 \in Ids
    BY <1>1, <1>2 DEF Ids
<1>4. Stamp(seq + 1) \in Stamps /\ Stamp(seq + 1).epoch = epoch /\ Stamp(seq + 1).seq = seq + 1
    BY <1>0, <1>3, StampIs
<1>5. \A d \in due' : d \in due \/ (d = Stamp(seq + 1) /\ a \in Watched)
    BY DEF Add
<1>6. StreamTypeOK'
    <2>1. rings' \in [Accounts -> Seq(Ids)] /\ \A b \in Accounts : Len(rings'[b]) <= RingSize
        BY <1>0, AddKeeps
    <2>2. woken' \in BOOLEAN
        BY DEF Add
    <2>3. due' \subseteq Stamps
        BY <1>0, <1>4, <1>5 DEF StreamTypeOK
    <2> QED BY <1>0, <1>1, <1>3, <2>1, <2>2, <2>3 DEF StreamTypeOK
<1>7. RingsGrow'
    BY <1>0, AddKeeps
<1>8. GeneratorFits'
    BY <1>0, <1>1, <1>2 DEF GeneratorFits
<1>9. WireFits'
    BY <1>0, <1>1 DEF WireFits
<1>10. CookieFits'
    BY <1>0, <1>1, <1>2 DEF CookieFits
<1>11. ASSUME KeepsUp PROVE DueFits'
    <2> SUFFICES ASSUME NEW d \in due'
                 PROVE  /\ d.epoch <= epoch
                        /\ d.epoch = epoch =>
                              /\ d.seq <= seq + 1
                              /\ KeptOrEvicted(d.seq)'
                              /\ pc # "off" => \/ d.seq \in batch \/ Resetting(d.seq)
                                               \/ Told(d.seq) \/ Unread(d.seq)'
        BY <1>1 DEF DueFits, Resetting, Told
    <2>1. CASE d \in due
        <3>1. d.epoch <= epoch
            BY <1>0, <1>11, <2>1 DEF DueFits
        <3>2. ASSUME d.epoch = epoch
              PROVE  /\ d.seq <= seq /\ KeptOrEvicted(d.seq)
                     /\ pc # "off" => d.seq \in batch \/ Resetting(d.seq) \/ Told(d.seq) \/ Unread(d.seq)
            BY <1>0, <1>11, <2>1, <3>2 DEF DueFits
        <3>3. d.seq \in Ids
            BY <1>2, <2>1
        <3>4. d.epoch = epoch => KeptOrEvicted(d.seq)'
            BY <1>0, <3>2, <3>3, AddKeepsTrace
        <3>5. pc # "off" /\ Unread(d.seq) => Unread(d.seq)'
            BY <1>0, <1>11, <3>3, AddKeepsUnread
        <3>6. d.epoch = epoch => d.seq <= seq + 1
            BY <1>2, <2>1, <3>2
        <3> QED BY <3>1, <3>2, <3>4, <3>5, <3>6
    <2>2. CASE d = Stamp(seq + 1) /\ a \in Watched
        <3>0. d.epoch = epoch /\ d.seq = seq + 1
            BY <1>4, <2>2
        <3>1. d.seq \in Kept(a)'
            BY <1>0, <3>0, AddKeeps
        <3>2. \A m \in batch \cup {lastSeen} : m < d.seq
            BY <1>0, <1>2, <3>0 DEF GeneratorFits
        <3>3. KeptOrEvicted(d.seq)'
            BY <2>2, <3>1 DEF KeptOrEvicted, Watched
        <3>4. Unread(d.seq)'
            BY <1>1, <2>2, <3>1, <3>2 DEF Unread, Watched
        <3> QED BY <1>2, <3>0, <3>3, <3>4
    <2> QED BY <1>5, <2>1, <2>2
<1>12. ASSUME KeepsUp PROVE NothingSkipped'
    <2> SUFFICES ASSUME NEW d \in due'
                 PROVE  d.epoch > cookie.epoch \/ (d.epoch = cookie.epoch /\ d.seq > cookie.seq)
        BY <1>1 DEF NothingSkipped
    <2>1. CASE d \in due
        BY <1>0, <1>12, <2>1 DEF NothingSkipped
    <2>2. CASE d = Stamp(seq + 1)
        BY <1>0, <1>2, <1>4, <2>2 DEF CookieFits
    <2> QED BY <1>5, <2>1, <2>2
<1> QED BY <1>6, <1>7, <1>8, <1>9, <1>10, <1>11, <1>12 DEF StreamInv

\* What every step finds: the parts of the invariant, and what is a number.
LEMMA StreamFacts ==
    ASSUME StreamInv
    PROVE  /\ StreamTypeOK /\ RingsGrow /\ GeneratorFits /\ WireFits /\ CookieFits
           /\ KeepsUp => DueFits /\ NothingSkipped
           /\ epoch \in Nat /\ seq \in Nat /\ lastSeen \in Nat /\ MaxSeq \in Nat /\ seq <= MaxSeq
           /\ \A n \in batch : n \in Nat
           /\ cookie.epoch \in Int /\ cookie.seq \in Nat
           /\ Len(wire) \in Nat
           /\ \A i \in 1..Len(wire) :
                 /\ wire[i] \in Frames /\ wire[i].stamp \in Stamps
                 /\ wire[i].stamp.epoch \in Nat /\ wire[i].stamp.seq \in Nat /\ wire[i].resets \in BOOLEAN
           /\ \A d \in due : /\ d.epoch \in Nat /\ d.seq \in Nat /\ d.seq \in Ids
                             /\ d = [epoch |-> d.epoch, seq |-> d.seq]
<1>1. /\ StreamTypeOK /\ RingsGrow /\ GeneratorFits /\ WireFits /\ CookieFits
      /\ KeepsUp => DueFits /\ NothingSkipped
    BY DEF StreamInv
<1>2. \A n \in Ids : n \in Nat
    BY StreamAssumption DEF Ids
<1>3. seq \in Ids /\ MaxSeq \in Nat
    BY <1>1, StreamAssumption DEF StreamTypeOK
<1>4. seq <= MaxSeq
    BY <1>3 DEF Ids
<1> QED BY <1>1, <1>2, <1>3, <1>4, StampsAre

\* Where an event of this process that is due is, while a client is connected.
LEMMA DueIs ==
    ASSUME KeepsUp, StreamInv, NEW d \in due
    PROVE  /\ d.epoch <= epoch
           /\ d.epoch = epoch => /\ d.seq <= seq /\ KeptOrEvicted(d.seq)
                                 /\ pc # "off" => \/ d.seq \in batch \/ Resetting(d.seq)
                                                  \/ Told(d.seq) \/ Unread(d.seq)
BY StreamFacts DEF DueFits

LEMMA DonePreserves ==
    ASSUME StreamInv, pc = "sending", batch = {}, pc' = "loop",
           UNCHANGED <<serverVars, woken, cookie, due, lastSeen, batch, wire>>
    PROVE  StreamInv'
<1>1. UNCHANGED <<epoch, seq, rings, woken, cookie, due, lastSeen, batch, wire>>
    BY DEF serverVars
<1>2. StreamTypeOK' /\ RingsGrow' /\ GeneratorFits' /\ WireFits' /\ (KeepsUp => NothingSkipped')
    BY <1>1, StreamFacts DEF StreamTypeOK, RingsGrow, GeneratorFits, WireFits, NothingSkipped
<1>3. CookieFits'
    BY <1>1, StreamFacts DEF CookieFits
<1>4. KeepsUp => DueFits'
    BY <1>1, StreamFacts DEF DueFits, KeptOrEvicted, Resetting, Told, Unread, Kept, Watched
<1> QED BY <1>2, <1>3, <1>4 DEF StreamInv

LEMMA YieldPreserves ==
    ASSUME StreamInv, pc = "sending", NEW n \in batch, \A m \in batch : n <= m,
           wire' = Append(wire, [stamp |-> Stamp(n), resets |-> FALSE]),
           lastSeen' = n, batch' = batch \ {n}, pc' = pc,
           UNCHANGED <<serverVars, woken, cookie, due>>
    PROVE  StreamInv'
<1> DEFINE f == [stamp |-> Stamp(n), resets |-> FALSE]
<1>0. UNCHANGED <<epoch, seq, rings, pc, woken, cookie, due>>
    BY DEF serverVars
<1>1. n \in Nat /\ n <= seq /\ lastSeen < n /\ n \in Ids
    BY StreamFacts DEF GeneratorFits, Ids
<1>2. /\ f \in Frames /\ f.stamp.epoch = epoch /\ f.stamp.seq = n /\ f.resets = FALSE
    BY <1>1, StreamFacts, StampIs DEF Frames
<1>3. /\ wire' \in Seq(Frames) /\ Len(wire') = Len(wire) + 1
      /\ \A i \in 1..Len(wire) : wire'[i] = wire[i]
      /\ wire'[Len(wire) + 1] = f
    BY <1>2, StreamFacts, AppendIs DEF StreamTypeOK
<1> HIDE DEF f
<1>4. \A i \in 1..Len(wire') : (i \in 1..Len(wire) /\ wire'[i] = wire[i]) \/ (i = Len(wire) + 1 /\ wire'[i] = f)
    BY <1>3, StreamFacts
<1>5. StreamTypeOK' /\ RingsGrow' /\ (KeepsUp => NothingSkipped')
    BY <1>0, <1>1, <1>3, StreamFacts DEF StreamTypeOK, RingsGrow, NothingSkipped
<1>6. GeneratorFits'
    <2>1. \A m \in batch' : n < m /\ m <= seq
        BY <1>1, StreamFacts DEF GeneratorFits
    <2> QED BY <1>0, <1>1, <2>1, StreamFacts DEF GeneratorFits
<1>7. WireFits'
    <2>1. \A i \in 1..Len(wire) : /\ wire[i].stamp.epoch = epoch /\ wire[i].stamp.seq < n
                                  /\ wire[i].resets => i = 1
        BY <1>1, StreamFacts DEF WireFits
    <2>2. ASSUME NEW i \in 1..Len(wire')
          PROVE  wire'[i].stamp.epoch = epoch' /\ wire'[i].stamp.seq <= lastSeen' /\ (wire'[i].resets => i = 1)
        BY <1>0, <1>1, <1>2, <1>4, <2>1, StreamFacts
    <2>3. ASSUME NEW i \in 1..Len(wire'), NEW j \in 1..Len(wire'), i < j
          PROVE  wire'[i].stamp.seq < wire'[j].stamp.seq
        <3>1. i \in 1..Len(wire) /\ wire'[i] = wire[i]
            BY <1>3, <1>4, <2>3, StreamFacts
        <3>2. CASE j \in 1..Len(wire) /\ wire'[j] = wire[j]
            BY <2>3, <3>1, <3>2, StreamFacts DEF WireFits
        <3>3. CASE wire'[j] = f
            BY <1>2, <2>1, <3>1, <3>3
        <3> QED BY <1>4, <3>2, <3>3
    <2> QED BY <2>2, <2>3 DEF WireFits
<1>8. Len(wire) > 0 => Len(wire') > 0 /\ wire'[1] = wire[1]
    BY <1>3, StreamFacts
<1>9. CookieFits'
    <2>1. pc' # "off" /\ (Len(wire') = 0 \/ ~wire'[1].resets) => cookie'.epoch = epoch'
        <3>1. Len(wire') # 0
            BY <1>3, StreamFacts
        <3>2. ~(wire'[1].resets) => Len(wire) = 0 \/ ~wire[1].resets
            BY <1>8, StreamFacts
        <3> QED BY <1>0, <3>1, <3>2, StreamFacts DEF CookieFits
    <2>2. ASSUME cookie.epoch = epoch
          PROVE  cookie.seq <= n /\ \A i \in 1..Len(wire') : cookie.seq <= wire'[i].stamp.seq
        <3>1. cookie.seq <= lastSeen /\ \A i \in 1..Len(wire) : cookie.seq <= wire[i].stamp.seq
            BY <2>2, StreamFacts DEF CookieFits
        <3>2. cookie.seq <= n
            BY <1>1, <3>1, StreamFacts
        <3> QED BY <1>2, <1>4, <3>1, <3>2
    <2> QED BY <1>0, <2>1, <2>2, StreamFacts DEF CookieFits
<1>10. ASSUME KeepsUp PROVE DueFits'
    <2> SUFFICES ASSUME NEW d \in due, d.epoch = epoch
                 PROVE  d.seq \in batch' \/ Resetting(d.seq)' \/ Told(d.seq)' \/ Unread(d.seq)'
        BY <1>10, <1>0, DueIs DEF DueFits, KeptOrEvicted, Kept, Watched
    <2>1. CASE d.seq \in batch
        <3>1. CASE d.seq = n
            <4>1. ~(wire'[Len(wire) + 1].resets) /\ wire'[Len(wire) + 1].stamp.seq = d.seq
                BY <1>2, <1>3, <3>1
            <4>2. Len(wire) + 1 \in 1..Len(wire')
                BY <1>3, StreamFacts
            <4> QED BY <4>1, <4>2 DEF Told
        <3>2. CASE d.seq # n
            BY <2>1, <3>2
        <3> QED BY <3>1, <3>2
    <2>2. CASE Resetting(d.seq)
        BY <1>8, <2>2 DEF Resetting
    <2>3. CASE Told(d.seq)
        <3>1. PICK i \in 1..Len(wire) : ~wire[i].resets /\ wire[i].stamp.seq = d.seq
            BY <2>3 DEF Told
        <3>2. i \in 1..Len(wire') /\ wire'[i] = wire[i]
            BY <1>3, StreamFacts
        <3> QED BY <3>1, <3>2 DEF Told
    <2>4. CASE Unread(d.seq)
        BY <1>0, <2>4 DEF Unread, Kept, Watched
    <2> QED BY <1>10, <2>1, <2>2, <2>3, <2>4, DueIs
<1> QED BY <1>5, <1>6, <1>7, <1>9, <1>10 DEF StreamInv

\* What the ring gives: newer ids only, and all of them unless it reports a gap.
LEMMA ReplayIs ==
    ASSUME StreamInv, NEW last \in Nat
    PROVE  /\ \A n \in Replay(last) : n \in Nat /\ last < n /\ n <= seq
           /\ Replay(last) \subseteq Ids
           /\ \A n \in Nat : (last < n /\ \E a \in Watched : n \in Kept(a)) =>
                \/ n \in Replay(last)
                \/ Replay(last) = {} /\ Filter # All /\ (rings[Filter] = <<>> \/ last < Head(rings[Filter]))
<1>1. \A n \in Replay(last) : n \in Nat /\ last < n /\ n <= seq
    BY StreamFacts DEF Replay
<1>2. Replay(last) \subseteq Ids
    BY <1>1, StreamFacts DEF Ids
<1>3. ASSUME NEW n \in Nat, NEW a \in Watched, n \in Kept(a), last < n,
             ~(Filter # All /\ (rings[Filter] = <<>> \/ last < Head(rings[Filter])))
      PROVE  n \in Replay(last)
    <2>1. PICK i \in DOMAIN rings[a] : n = rings[a][i]
        BY <1>3 DEF Kept
    <2>2. n \in 1..seq
        BY <2>1, WatchedIs, StreamFacts DEF RingsGrow
    <2> QED BY <1>3, <2>2 DEF Replay
<1>4. Filter # All /\ (rings[Filter] = <<>> \/ last < Head(rings[Filter])) => Replay(last) = {}
    BY DEF Replay
<1> QED BY <1>1, <1>2, <1>3, <1>4

LEMMA ReadPreserves ==
    ASSUME StreamInv, pc \in {"loop", "waiting"}, batch' = Replay(lastSeen),
           pc' \in {"waiting", "sending"}, pc' = "waiting" => batch' = {}, woken' \in BOOLEAN,
           UNCHANGED <<serverVars, lastSeen, wire, cookie, due>>
    PROVE  StreamInv'
<1>0. UNCHANGED <<epoch, seq, rings, lastSeen, wire, cookie, due>>
    BY DEF serverVars
<1>1. batch = {}
    BY StreamFacts DEF GeneratorFits
<1>2. /\ \A n \in batch' : lastSeen < n /\ n <= seq
      /\ batch' \subseteq Ids
    BY StreamFacts, ReplayIs
<1>3. StreamTypeOK' /\ RingsGrow' /\ WireFits' /\ (KeepsUp => NothingSkipped')
    BY <1>0, <1>2, StreamFacts DEF StreamTypeOK, RingsGrow, WireFits, NothingSkipped
<1>4. GeneratorFits'
    BY <1>0, <1>2, StreamFacts DEF GeneratorFits
<1>5. CookieFits'
    BY <1>0, StreamFacts DEF CookieFits
<1>6. ASSUME KeepsUp PROVE DueFits'
    <2> SUFFICES ASSUME NEW d \in due, d.epoch = epoch
                 PROVE  d.seq \in batch' \/ Resetting(d.seq)' \/ Told(d.seq)' \/ Unread(d.seq)'
        BY <1>6, <1>0, DueIs DEF DueFits, KeptOrEvicted, Kept, Watched
    <2>1. Resetting(d.seq) \/ Told(d.seq) \/ Unread(d.seq)
        BY <1>6, <1>1, DueIs
    <2>2. CASE Resetting(d.seq) \/ Told(d.seq)
        BY <1>0, <2>2 DEF Resetting, Told
    <2>3. CASE Unread(d.seq)
        <3>1. d.seq \in Nat /\ lastSeen < d.seq /\ \E a \in Watched : d.seq \in Kept(a)
            BY <2>3, StreamFacts DEF Unread
        <3>2. d.seq \in batch' \/ batch' = {}
            BY <3>1, StreamFacts, ReplayIs
        <3>3. CASE batch' = {}
            BY <1>0, <2>3, <3>1, <3>3 DEF Unread, Kept, Watched
        <3> QED BY <3>2, <3>3
    <2> QED BY <2>1, <2>2, <2>3
<1> QED BY <1>3, <1>4, <1>5, <1>6 DEF StreamInv

LEMMA ResumePreserves ==
    ASSUME StreamInv, pc = "off", cookie.epoch = epoch, HasEventsAfter(cookie.seq),
           batch' = Replay(cookie.seq), lastSeen' = cookie.seq, wire' = <<>>, woken' = FALSE,
           pc' = "sending", UNCHANGED <<serverVars, cookie, due>>
    PROVE  StreamInv'
<1>0. UNCHANGED <<epoch, seq, rings, cookie, due>>
    BY DEF serverVars
<1>1. cookie.seq \in Nat /\ cookie.seq <= seq /\ cookie.seq \in Ids
    BY StreamFacts DEF CookieFits, Ids
<1>2. /\ \A n \in batch' : n \in Nat /\ cookie.seq < n /\ n <= seq
      /\ batch' \subseteq Ids
    BY <1>1, ReplayIs
<1>3. wire' \in Seq(Frames) /\ Len(wire') = 0
    OBVIOUS
<1>4. StreamTypeOK' /\ RingsGrow' /\ (KeepsUp => NothingSkipped')
    BY <1>0, <1>1, <1>2, <1>3, StreamFacts DEF StreamTypeOK, RingsGrow, NothingSkipped
<1>5. GeneratorFits'
    BY <1>0, <1>1, <1>2, StreamFacts DEF GeneratorFits
<1>6. WireFits'
    BY <1>3 DEF WireFits
<1>7. CookieFits'
    BY <1>0, StreamFacts DEF CookieFits
<1>8. ASSUME KeepsUp PROVE DueFits'
    <2> SUFFICES ASSUME NEW d \in due, d.epoch = epoch
                 PROVE  d.seq \in batch'
        BY <1>8, <1>0, DueIs DEF DueFits, KeptOrEvicted, Kept, Watched
    <2>1. d.seq > cookie.seq /\ d.seq \in Nat
        BY <1>8, StreamFacts DEF NothingSkipped
    <2>2. PICK a \in Watched : d.seq \in Kept(a) \/ (rings[a] # <<>> /\ d.seq < rings[a][1])
        BY <1>8, DueIs DEF KeptOrEvicted
    <2>3. a \in Accounts
        BY WatchedIs
    <2>4. CASE rings[a] # <<>> /\ d.seq < rings[a][1]
        <3>1. Head(rings[a]) = rings[a][1] /\ Head(rings[a]) <= cookie.seq
            BY <2>3, <2>4, RingsAre, StreamFacts DEF HasEventsAfter
        <3>2. rings[a][1] \in Nat
            <4>1. 1 \in DOMAIN rings[a]
                BY <2>3, <2>4, RingsAre, StreamFacts
            <4> QED BY <2>3, <4>1, StreamFacts DEF RingsGrow
        <3> QED BY <1>1, <2>1, <2>4, <3>1, <3>2
    <2>5. CASE d.seq \in Kept(a)
        <3>1. \/ d.seq \in batch'
              \/ Filter # All /\ (rings[Filter] = <<>> \/ cookie.seq < Head(rings[Filter]))
            BY <1>1, <2>1, <2>5, ReplayIs
        <3>2. ASSUME Filter # All, rings[Filter] = <<>> \/ cookie.seq < Head(rings[Filter])
              PROVE  FALSE
            <4>1. Filter \in Watched /\ Filter \in Accounts /\ rings[Filter] # <<>>
                BY <3>2, StreamAssumption DEF Watched, HasEventsAfter
            <4>2. Head(rings[Filter]) <= cookie.seq
                BY <4>1 DEF HasEventsAfter
            <4>3. Head(rings[Filter]) \in Nat
                <5>1. 1 \in DOMAIN rings[Filter] /\ Head(rings[Filter]) = rings[Filter][1]
                    BY <4>1, RingsAre, StreamFacts
                <5> QED BY <4>1, <5>1, StreamFacts DEF RingsGrow
            <4> QED BY <1>1, <3>2, <4>1, <4>2, <4>3
        <3> QED BY <3>1, <3>2
    <2> QED BY <2>2, <2>4, <2>5
<1> QED BY <1>4, <1>5, <1>6, <1>7, <1>8 DEF StreamInv

LEMMA ResyncPreserves ==
    ASSUME StreamInv, pc = "off", batch' = {}, lastSeen' = seq, woken' = FALSE,
           wire' = <<[stamp |-> Stamp(seq), resets |-> TRUE]>>,
           pc' = "sending", UNCHANGED <<serverVars, cookie, due>>
    PROVE  StreamInv'
<1> DEFINE f == [stamp |-> Stamp(seq), resets |-> TRUE]
<1>0. UNCHANGED <<epoch, seq, rings, cookie, due>>
    BY DEF serverVars
<1>1. seq \in Ids
    BY StreamFacts DEF StreamTypeOK
<1>2. f \in Frames /\ f.stamp.epoch = epoch /\ f.stamp.seq = seq /\ f.resets = TRUE
    BY <1>1, StreamFacts, StampIs DEF Frames
<1>3. wire' \in Seq(Frames) /\ Len(wire') = 1 /\ wire'[1] = f
    BY <1>2
<1> HIDE DEF f
<1>4. StreamTypeOK' /\ RingsGrow' /\ (KeepsUp => NothingSkipped')
    BY <1>0, <1>1, <1>3, StreamFacts DEF StreamTypeOK, RingsGrow, NothingSkipped
<1>5. GeneratorFits'
    BY <1>0, StreamFacts DEF GeneratorFits
<1>6. WireFits'
    <2>1. \A i \in 1..Len(wire') : i = 1
        BY <1>3
    <2> QED BY <1>0, <1>2, <1>3, <2>1, StreamFacts DEF WireFits
<1>7. CookieFits'
    BY <1>0, <1>2, <1>3, StreamFacts DEF CookieFits
<1>8. ASSUME KeepsUp PROVE DueFits'
    <2> SUFFICES ASSUME NEW d \in due, d.epoch = epoch
                 PROVE  Resetting(d.seq)'
        BY <1>8, <1>0, DueIs DEF DueFits, KeptOrEvicted, Kept, Watched
    <2>1. d.seq <= seq
        BY <1>8, DueIs
    <2> QED BY <1>2, <1>3, <2>1 DEF Resetting
<1> QED BY <1>4, <1>5, <1>6, <1>7, <1>8 DEF StreamInv

LEMMA ReceivePreserves ==
    ASSUME StreamInv, Receive
    PROVE  StreamInv'
<1> DEFINE f == wire[1]
<1>0. UNCHANGED <<epoch, seq, rings, pc, lastSeen, batch, woken>> /\ wire # <<>> /\ wire' = Tail(wire)
    BY DEF Receive, serverVars, generatorVars
<1>1. /\ wire' \in Seq(Frames) /\ Len(wire) > 0 /\ Len(wire') = Len(wire) - 1
      /\ \A i \in 1..Len(wire') : wire'[i] = wire[i + 1]
      /\ Head(wire) = f
    BY <1>0, StreamFacts, TailIs DEF StreamTypeOK
<1>2. /\ cookie' = f.stamp
      /\ due' = IF f.resets
                THEN {d \in due : d.epoch = f.stamp.epoch /\ d.seq > f.stamp.seq}
                ELSE due \ {f.stamp}
    BY <1>1 DEF Receive
<1>3. 1 \in 1..Len(wire) /\ \A i \in 1..Len(wire') : i + 1 \in 1..Len(wire) /\ i + 1 # 1
    BY <1>1, StreamFacts
<1>4. f.stamp \in Stamps /\ f.stamp.seq \in Nat /\ f.resets \in BOOLEAN
    BY <1>3, StreamFacts
<1>5. f.stamp.epoch = epoch /\ f.stamp.seq <= lastSeen
    BY <1>3, StreamFacts DEF WireFits
<1>6. pc # "off"
    BY <1>0, StreamFacts DEF GeneratorFits
<1>7. \A i \in 1..Len(wire) : i # 1 => f.stamp.seq < wire[i].stamp.seq
    <2>1. \A i \in 1..Len(wire) : i # 1 => 1 < i
        BY StreamFacts
    <2> QED BY <1>3, <2>1, StreamFacts DEF WireFits
<1> HIDE DEF f
<1>8. \A d \in due' : d \in due
    BY <1>2
<1>9. StreamTypeOK'
    BY <1>0, <1>1, <1>2, <1>4, <1>8, StreamFacts DEF StreamTypeOK
<1>10. RingsGrow' /\ GeneratorFits'
    BY <1>0, <1>6, StreamFacts DEF RingsGrow, GeneratorFits
<1>11. WireFits'
    <2>1. ASSUME NEW i \in 1..Len(wire')
          PROVE  wire'[i].stamp.epoch = epoch' /\ wire'[i].stamp.seq <= lastSeen' /\ (wire'[i].resets => i = 1)
        <3>1. i + 1 \in 1..Len(wire) /\ i + 1 # 1 /\ wire'[i] = wire[i + 1]
            BY <1>1, <1>3
        <3> QED BY <1>0, <3>1, StreamFacts DEF WireFits
    <2>2. ASSUME NEW i \in 1..Len(wire'), NEW j \in 1..Len(wire'), i < j
          PROVE  wire'[i].stamp.seq < wire'[j].stamp.seq
        <3>1. /\ i + 1 \in 1..Len(wire) /\ wire'[i] = wire[i + 1]
              /\ j + 1 \in 1..Len(wire) /\ wire'[j] = wire[j + 1]
            BY <1>1, <1>3
        <3>2. i + 1 < j + 1
            BY <2>2
        <3> QED BY <3>1, <3>2, StreamFacts DEF WireFits
    <2> QED BY <2>1, <2>2 DEF WireFits
<1>12. CookieFits'
    <2>1. cookie'.epoch = epoch /\ cookie'.seq = f.stamp.seq /\ lastSeen <= seq
        BY <1>2, <1>5, StreamFacts DEF GeneratorFits
    <2>2. ASSUME NEW i \in 1..Len(wire') PROVE f.stamp.seq <= wire'[i].stamp.seq
        <3>1. i + 1 \in 1..Len(wire) /\ i + 1 # 1 /\ wire'[i] = wire[i + 1]
            BY <1>1, <1>3
        <3>2. wire[i + 1].stamp.seq \in Nat
            BY <3>1, StreamFacts
        <3> QED BY <1>4, <1>7, <3>1, <3>2
    <2> QED BY <1>0, <1>4, <1>5, <2>1, <2>2, StreamFacts DEF CookieFits
<1>13. ASSUME NEW d \in due', d.epoch = epoch, Told(d.seq)
       PROVE  \E i \in 1..Len(wire) : i # 1 /\ ~wire[i].resets /\ wire[i].stamp.seq = d.seq
    <2>1. PICK i \in 1..Len(wire) : ~wire[i].resets /\ wire[i].stamp.seq = d.seq
        BY <1>13 DEF Told
    <2>2. ASSUME i = 1 PROVE FALSE
        <3>1. ~f.resets /\ f.stamp.seq = d.seq
            BY <2>1, <2>2 DEF f
        <3>2. f.stamp = [epoch |-> f.stamp.epoch, seq |-> f.stamp.seq]
            BY <1>4 DEF Stamps
        <3>3. d = [epoch |-> d.epoch, seq |-> d.seq]
            BY <1>8, StreamFacts
        <3>4. d = f.stamp
            BY <1>5, <1>13, <3>1, <3>2, <3>3
        <3> QED BY <1>2, <3>1, <3>4
    <2> QED BY <2>1, <2>2
<1>14. ASSUME NEW d \in due', d.epoch = epoch, Resetting(d.seq)
       PROVE  FALSE
    <2>1. f.resets /\ d.seq <= f.stamp.seq
        BY <1>14 DEF Resetting, f
    <2>2. d.seq > f.stamp.seq
        BY <1>2, <2>1
    <2> QED BY <1>4, <1>8, <2>1, <2>2, StreamFacts
<1>15. ASSUME KeepsUp PROVE DueFits'
    <2> SUFFICES ASSUME NEW d \in due', d.epoch = epoch
                 PROVE  d.seq \in batch' \/ Told(d.seq)' \/ Unread(d.seq)'
        BY <1>15, <1>0, <1>8, DueIs DEF DueFits, KeptOrEvicted, Kept, Watched
    <2>1. d.seq \in batch \/ Told(d.seq) \/ Unread(d.seq)
        BY <1>15, <1>6, <1>8, <1>14, DueIs
    <2>2. CASE Told(d.seq)
        <3>1. PICK i \in 1..Len(wire) : i # 1 /\ ~wire[i].resets /\ wire[i].stamp.seq = d.seq
            BY <1>13, <2>2
        <3>2. i - 1 \in 1..Len(wire') /\ (i - 1) + 1 = i
            BY <1>1, <3>1, StreamFacts
        <3>3. wire'[i - 1] = wire[i]
            BY <1>1, <3>2
        <3> QED BY <3>1, <3>2, <3>3 DEF Told
    <2>3. CASE Unread(d.seq)
        BY <1>0, <2>3 DEF Unread, Kept, Watched
    <2> QED BY <1>0, <2>1, <2>2, <2>3
<1>16. ASSUME KeepsUp PROVE NothingSkipped'
    <2> SUFFICES ASSUME NEW d \in due'
                 PROVE  d.epoch > epoch \/ (d.epoch = epoch /\ d.seq > f.stamp.seq)
        BY <1>2, <1>5 DEF NothingSkipped
    <2>1. CASE f.resets
        BY <1>2, <1>5, <2>1
    <2>2. CASE ~f.resets
        <3>1. cookie.epoch = epoch
            BY <1>6, <2>2, StreamFacts DEF CookieFits, f
        <3>2. d.epoch = epoch
            BY <1>8, <1>16, <3>1, DueIs, StreamFacts DEF NothingSkipped
        <3>3. d.seq \in batch \/ Told(d.seq) \/ Unread(d.seq)
            BY <1>6, <1>8, <1>14, <1>16, <3>2, DueIs
        <3>4. d.seq \in Nat
            BY <1>8, StreamFacts
        <3>5. CASE d.seq \in batch
            <4>1. lastSeen < d.seq
                BY <3>5, StreamFacts DEF GeneratorFits
            <4> QED BY <1>4, <1>5, <3>2, <3>4, <4>1, StreamFacts
        <3>6. CASE Told(d.seq)
            <4>1. PICK i \in 1..Len(wire) : i # 1 /\ wire[i].stamp.seq = d.seq
                BY <1>13, <3>2, <3>6
            <4>2. f.stamp.seq < d.seq
                BY <1>7, <4>1
            <4> QED BY <1>4, <3>2, <3>4, <4>2
        <3>7. CASE Unread(d.seq)
            <4>1. lastSeen < d.seq
                BY <3>7 DEF Unread
            <4> QED BY <1>4, <1>5, <3>2, <3>4, <4>1, StreamFacts
        <3> QED BY <3>3, <3>5, <3>6, <3>7
    <2> QED BY <1>4, <2>1, <2>2
<1> QED BY <1>9, <1>10, <1>11, <1>12, <1>15, <1>16 DEF StreamInv

LEMMA DisconnectPreserves ==
    ASSUME StreamInv, Disconnect
    PROVE  StreamInv'
<1>0. /\ UNCHANGED <<epoch, seq, rings, cookie, due>>
      /\ pc' = "off" /\ batch' = {} /\ woken' = FALSE /\ wire' = <<>> /\ lastSeen' = 0
    BY DEF Disconnect, Closed, serverVars
<1>1. wire' \in Seq(Frames) /\ Len(wire') = 0 /\ 0 \in Ids
    BY <1>0, StreamFacts DEF Ids
<1>2. StreamTypeOK' /\ RingsGrow' /\ (KeepsUp => NothingSkipped')
    BY <1>0, <1>1, StreamFacts DEF StreamTypeOK, RingsGrow, NothingSkipped
<1>3. GeneratorFits' /\ CookieFits'
    BY <1>0, StreamFacts DEF GeneratorFits, CookieFits
<1>4. WireFits'
    BY <1>1 DEF WireFits
<1>5. KeepsUp => DueFits'
    BY <1>0, DueIs DEF DueFits, KeptOrEvicted, Kept, Watched
<1> QED BY <1>2, <1>3, <1>4, <1>5 DEF StreamInv

LEMMA RestartPreserves ==
    ASSUME StreamInv, Restart
    PROVE  StreamInv'
<1>0. /\ epoch < MaxEpoch /\ epoch' = epoch + 1 /\ seq' = 0 /\ UNCHANGED <<cookie, due>>
      /\ rings' = [a \in Accounts |-> <<>>]
      /\ pc' = "off" /\ batch' = {} /\ woken' = FALSE /\ wire' = <<>> /\ lastSeen' = 0
    BY DEF Restart, Closed
<1>1. wire' \in Seq(Frames) /\ Len(wire') = 0 /\ 0 \in Ids /\ epoch' \in 0..MaxEpoch
    BY <1>0, StreamFacts, StreamAssumption DEF Ids
<1>2. /\ rings' \in [Accounts -> Seq(Ids)]
      /\ \A a \in Accounts : Len(rings'[a]) <= RingSize /\ DOMAIN (rings'[a]) = {}
    <2>1. <<>> \in Seq(Ids) /\ Len(<<>>) = 0 /\ DOMAIN <<>> = {}
        OBVIOUS
    <2> QED BY <1>0, <2>1, StreamAssumption
<1>3. StreamTypeOK'
    BY <1>0, <1>1, <1>2, StreamFacts DEF StreamTypeOK
<1>4. RingsGrow' /\ (KeepsUp => NothingSkipped') /\ GeneratorFits'
    BY <1>0, <1>2, StreamFacts DEF RingsGrow, NothingSkipped, GeneratorFits
<1>5. CookieFits'
    BY <1>0, StreamFacts DEF CookieFits
<1>6. WireFits'
    BY <1>1 DEF WireFits
<1>7. KeepsUp => DueFits'
    <2>1. KeepsUp => \A d \in due : d.epoch <= epoch /\ d.epoch \in Nat
        BY DueIs, StreamFacts
    <2> QED BY <1>0, <2>1, StreamFacts DEF DueFits
<1> QED BY <1>3, <1>4, <1>5, <1>6, <1>7 DEF StreamInv

LEMMA StreamStep ==
    ASSUME StreamInv, [StreamNext]_streamVars
    PROVE  StreamInv'
<1>1. ASSUME NEW a \in Accounts, Add(a) PROVE StreamInv'
    BY <1>1, AddPreserves
<1>2. CASE Connect
    <2>0. pc = "off" /\ woken' = FALSE /\ pc' = "sending" /\ UNCHANGED <<serverVars, cookie, due>>
        BY <1>2 DEF Connect
    <2>1. CASE 0 <= Parse /\ Parse <= seq /\ HasEventsAfter(Parse)
        <3>1. cookie.epoch = epoch /\ Parse = cookie.seq
            BY <2>1 DEF Parse, Nothing, Foreign
        <3>2. batch' = Replay(Parse) /\ lastSeen' = Parse /\ wire' = <<>>
            BY <1>2, <2>1 DEF Connect
        <3> QED BY <2>0, <2>1, <3>1, <3>2, ResumePreserves
    <2>2. CASE ~(0 <= Parse /\ Parse <= seq /\ HasEventsAfter(Parse))
        <3>1. batch' = {} /\ lastSeen' = seq /\ wire' = <<[stamp |-> Stamp(seq), resets |-> TRUE]>>
            BY <1>2, <2>2 DEF Connect
        <3> QED BY <2>0, <3>1, ResyncPreserves
    <2> QED BY <2>1, <2>2
<1>3. CASE Send
    <2>0. pc = "sending" /\ UNCHANGED <<serverVars, woken, cookie, due>>
        BY <1>3 DEF Send
    <2>1. CASE batch = {}
        <3>1. pc' = "loop" /\ UNCHANGED <<lastSeen, batch, wire>>
            BY <1>3, <2>1 DEF Send
        <3> QED BY <2>0, <2>1, <3>1, DonePreserves
    <2>2. CASE batch # {}
        <3>1. PICK n \in batch : /\ \A m \in batch : n <= m
                                 /\ wire' = Append(wire, [stamp |-> Stamp(n), resets |-> FALSE])
                                 /\ lastSeen' = n /\ batch' = batch \ {n} /\ pc' = pc
            BY <1>3, <2>2 DEF Send, Earliest
        <3> QED BY <2>0, <3>1, YieldPreserves
    <2> QED BY <2>1, <2>2
<1>4. CASE Poll
    <2>1. /\ pc = "loop" /\ batch' = Replay(lastSeen) /\ woken' \in BOOLEAN
          /\ pc' \in {"waiting", "sending"} /\ (pc' = "waiting" => batch' = {})
          /\ UNCHANGED <<serverVars, lastSeen, wire, cookie, due>>
        BY <1>4 DEF Poll
    <2> QED BY <2>1, ReadPreserves
<1>5. CASE Wake
    <2>1. woken \in BOOLEAN
        BY StreamFacts DEF StreamTypeOK
    <2>2. /\ pc = "waiting" /\ batch' = Replay(lastSeen) /\ woken' \in BOOLEAN
          /\ pc' = "sending"
          /\ UNCHANGED <<serverVars, lastSeen, wire, cookie, due>>
        BY <1>5, <2>1 DEF Wake
    <2> QED BY <2>2, ReadPreserves
<1>6. CASE Ping
    <2>0. /\ pc = "waiting" /\ pc' = "loop"
          /\ UNCHANGED <<epoch, seq, rings, lastSeen, batch, woken, wire, cookie, due>>
        BY <1>6 DEF Ping, serverVars
    <2>1. StreamTypeOK' /\ RingsGrow' /\ GeneratorFits' /\ WireFits' /\ CookieFits' /\ (KeepsUp => NothingSkipped')
        BY <2>0, StreamFacts DEF StreamTypeOK, RingsGrow, GeneratorFits, WireFits, CookieFits, NothingSkipped
    <2>2. KeepsUp => DueFits'
        BY <2>0, StreamFacts DEF DueFits, KeptOrEvicted, Resetting, Told, Unread, Kept, Watched
    <2> QED BY <2>1, <2>2 DEF StreamInv
<1>7. CASE Receive
    BY <1>7, ReceivePreserves
<1>8. CASE Disconnect
    BY <1>8, DisconnectPreserves
<1>9. CASE Restart
    BY <1>9, RestartPreserves
<1>10. CASE UNCHANGED streamVars
    <2>0. UNCHANGED <<epoch, seq, rings, pc, lastSeen, batch, woken, wire, cookie, due>>
        BY <1>10 DEF streamVars, serverVars, generatorVars
    <2>1. StreamTypeOK' /\ RingsGrow' /\ GeneratorFits' /\ WireFits' /\ CookieFits' /\ (KeepsUp => NothingSkipped')
        BY <2>0, StreamFacts DEF StreamTypeOK, RingsGrow, GeneratorFits, WireFits, CookieFits, NothingSkipped
    <2>2. KeepsUp => DueFits'
        BY <2>0, StreamFacts DEF DueFits, KeptOrEvicted, Resetting, Told, Unread, Kept, Watched
    <2> QED BY <2>1, <2>2 DEF StreamInv
<1> QED BY <1>1, <1>2, <1>3, <1>4, <1>5, <1>6, <1>7, <1>8, <1>9, <1>10 DEF StreamNext, GeneratorStep

LEMMA StreamStart == StreamInit => StreamInv
<1> SUFFICES ASSUME StreamInit PROVE StreamInv
    OBVIOUS
<1>1. /\ epoch = 0 /\ seq = 0 /\ rings = [a \in Accounts |-> <<>>] /\ pc = "off" /\ lastSeen = 0
      /\ batch = {} /\ woken = FALSE /\ wire = <<>> /\ cookie = NoCookie /\ due = {} /\ Len(wire) = 0
    BY DEF StreamInit
<1>2. 0 \in Ids /\ 0 \in 0..MaxEpoch /\ <<>> \in Seq(Frames)
    BY StreamAssumption DEF Ids
<1>3. <<>> \in Seq(Ids) /\ Len(<<>>) = 0 /\ DOMAIN <<>> = {}
    OBVIOUS
<1>4. /\ rings \in [Accounts -> Seq(Ids)]
      /\ \A a \in Accounts : Len(rings[a]) <= RingSize /\ DOMAIN (rings[a]) = {}
    BY <1>1, <1>3, StreamAssumption
<1>5. StreamTypeOK /\ RingsGrow
    BY <1>1, <1>2, <1>4 DEF StreamTypeOK, RingsGrow
<1>6. GeneratorFits /\ WireFits /\ DueFits /\ NothingSkipped
    BY <1>1 DEF GeneratorFits, WireFits, DueFits, NothingSkipped
<1>7. CookieFits
    BY <1>1 DEF CookieFits, NoCookie
<1> QED BY <1>5, <1>6, <1>7 DEF StreamInv

\* The inductive invariant of the stream.  Where what is due is, it says of a
\* connected client that reads faster than its ring turns over: in a reset or a
\* frame on the wire, read, or still in its ring.
THEOREM StreamInvariant == StreamSpec => []StreamInv
<1>1. StreamInit => StreamInv
    BY StreamStart
<1>2. StreamInv /\ [StreamNext]_streamVars => StreamInv'
    BY StreamStep
<1> QED BY <1>1, <1>2, PTL DEF StreamSpec

\* Rings, the generator, the wire and the client keep their domains whoever reads
\* how slowly, through disconnects and restarts: a ring never holds more than
\* its size, and no frame carries an id that was never given.
THEOREM StreamTypeCorrect == StreamSpec => []StreamTypeOK
<1>1. StreamInv => StreamTypeOK
    BY DEF StreamInv
<1> QED BY <1>1, StreamInvariant, PTL

\* The id a client would reconnect with never passes over an event it was not
\* told of, for any accounts, ring size, filter, losses of the connection,
\* evictions while it is away and restarts.
THEOREM NothingIsSkipped == ASSUME KeepsUp PROVE StreamSpec => []NothingSkipped
<1>1. StreamInv => NothingSkipped
    BY DEF StreamInv
<1> QED BY <1>1, StreamInvariant, PTL

------------------------------------------------------------------------------
\* A client's Last-Event-ID never goes back: of one process it gets no event older
\* than one it has, on this connection or the next, and no frame of an earlier
\* process, however slowly it reads and whatever its ring has lost.
THEOREM NeverGoesBack == StreamSpec => CookieAdvances
<1>1. StreamInv /\ [StreamNext]_streamVars =>
          [\/ cookie'.epoch > cookie.epoch
           \/ cookie'.epoch = cookie.epoch /\ cookie'.seq >= cookie.seq]_streamVars
    <2> SUFFICES ASSUME StreamInv, StreamNext
                 PROVE  \/ cookie'.epoch > cookie.epoch
                        \/ cookie'.epoch = cookie.epoch /\ cookie'.seq >= cookie.seq
        OBVIOUS
    <2>1. CASE Receive
        <3>1. wire # <<>> /\ Len(wire) \in Nat /\ wire \in Seq(Frames)
            BY <2>1, StreamFacts DEF Receive, StreamTypeOK
        <3>2. 1 \in 1..Len(wire) /\ Head(wire) = wire[1]
            BY <3>1
        <3>3. cookie' = wire[1].stamp
            BY <2>1, <3>2 DEF Receive
        <3>4. wire[1].stamp.epoch = epoch /\ wire[1].stamp.seq \in Nat
            BY <3>2, StreamFacts DEF WireFits
        <3>5. pc # "off"
            BY <3>1, StreamFacts DEF GeneratorFits
        <3>6. cookie.epoch <= epoch /\ (cookie.epoch = epoch => cookie.seq <= wire[1].stamp.seq)
            BY <3>2, <3>5, StreamFacts DEF CookieFits
        <3> QED BY <3>3, <3>4, <3>6, StreamFacts
    <2>2. CASE ~Receive
        <3>1. cookie' = cookie
            BY <2>2 DEF StreamNext, Add, Connect, GeneratorStep, Send, Poll, Wake, Ping, Disconnect, Restart
        <3> QED BY <3>1, StreamFacts
    <2> QED BY <2>1, <2>2
<1> QED BY <1>1, StreamInvariant, PTL DEF StreamSpec, CookieAdvances

\* A stream over all accounts enters its wait only when the rings hold nothing
\* new: an event that is added between the look and the wait wakes it.
THEOREM WaitsRightly == ASSUME Filter = All PROVE StreamSpec => []WaitsOnlyWhenNothingNew
<1> DEFINE J == WaitsOnlyWhenNothingNew
<1>1. StreamInit => J
    BY DEF StreamInit, WaitsOnlyWhenNothingNew
<1>2. StreamInv /\ J /\ [StreamNext]_streamVars => J'
    <2> SUFFICES ASSUME StreamInv, WaitsOnlyWhenNothingNew, [StreamNext]_streamVars,
                        pc' = "waiting", ~woken', NEW b \in Watched, NEW i \in DOMAIN (rings'[b])
                 PROVE  rings'[b][i] <= lastSeen'
        BY DEF WaitsOnlyWhenNothingNew, Watched
    <2>0. StreamTypeOK /\ RingsGrow /\ b \in Accounts
        BY WatchedIs, StreamFacts
    <2>1. ASSUME NEW a \in Accounts, Add(a) PROVE rings'[b][i] <= lastSeen'
        <3>1. pc = "waiting" /\ ~woken /\ a \notin Watched /\ lastSeen' = lastSeen
            BY <2>1 DEF Add
        <3>2. rings'[b] = rings[b]
            BY <2>0, <2>1, <3>1, AddKeeps
        <3> QED BY <3>1, <3>2 DEF WaitsOnlyWhenNothingNew
    <2>2. CASE Poll
        <3>1. Replay(lastSeen) = {} /\ UNCHANGED <<epoch, seq, rings, lastSeen>>
            BY <2>2 DEF Poll, serverVars
        <3>2. rings[b][i] \in 1..seq /\ rings[b][i] \in Kept(b)
            BY <2>0, <3>1 DEF RingsGrow, Kept
        <3>3. ~(rings[b][i] > lastSeen)
            BY <3>1, <3>2 DEF Replay
        <3>4. lastSeen \in Int /\ rings[b][i] \in Int
            BY <2>0, <3>2, StreamFacts
        <3> QED BY <3>1, <3>3, <3>4
    <2>3. CASE Connect \/ Send \/ Wake \/ Ping \/ Disconnect \/ Restart
        BY <2>3 DEF Connect, Send, Wake, Ping, Disconnect, Restart, Closed
    <2>4. CASE Receive \/ UNCHANGED streamVars
        <3>1. UNCHANGED <<pc, woken, rings, lastSeen>>
            BY <2>4 DEF Receive, streamVars, serverVars, generatorVars
        <3> QED BY <3>1 DEF WaitsOnlyWhenNothingNew
    <2> QED BY <2>1, <2>2, <2>3, <2>4 DEF StreamNext, GeneratorStep
<1> QED BY <1>1, <1>2, StreamInvariant, PTL DEF StreamSpec
==============================================================================
