--------------------------- MODULE WebhookDelivery ---------------------------
(***************************************************************************)
(* One webhook delivery: webhooks/worker.py over the queue's row, with the *)
(* sweep for exhausted rows, the failure alerts and the explicit retry of  *)
(* webhooks/repository.py.  Every call that commits is a step of its own,  *)
(* so a crash can fall between any two of them.                            *)
(*                                                                         *)
(* The receiver's answer is one of three outcomes; bodies, headers,        *)
(* secrets and wording are left out.                                       *)
(***************************************************************************)
EXTENDS WorkQueue

CONSTANTS
    delivery,       \* the webhook_deliveries row
    MaxGeneration   \* bound: explicit retries

ASSUME WebhookAssumption == delivery \in Items /\ MaxGeneration \in Nat

VARIABLES
    task,           \* task[w]: handle_delivery in worker w
    sweep,          \* sweep[w]: generations w's sweeper failed, alert to come
    generation,     \* the row's generation column
    httpStatus,     \* the row's http_status column
    alerts,         \* generations a webhook_failed alert exists for
    ended,          \* history: generations that ended as failed
    silenced        \* history: generations whose alert a crash prevented

told == <<alerts, ended, silenced>>
hookVars == <<queueVars, task, sweep, generation, httpStatus, told>>

Generations == 0..MaxGeneration
Outcomes == {"done", "transient", "permanent"}
Idle == [pc |-> "idle", tries |-> 0, gen |-> 0, outcome |-> "done"]

HookTypeOK ==
    /\ TypeOK
    /\ task \in [Workers -> [pc : {"idle", "attempt", "settle", "status", "failing", "alert"},
                             tries : 0..MaxAttempts, gen : Generations, outcome : Outcomes]]
    /\ sweep \in [Workers -> SUBSET Generations]
    /\ generation \in Generations
    /\ httpStatus \in {"null", "ok", "error"}
    /\ alerts \subseteq Generations
    /\ ended \subseteq Generations
    /\ silenced \subseteq Generations

HookInit ==
    /\ Init
    /\ task = [w \in Workers |-> Idle]
    /\ sweep = [w \in Workers |-> {}]
    /\ generation = 0
    /\ httpStatus = "null"
    /\ alerts = {}
    /\ ended = {}
    /\ silenced = {}

\* A call guarded by the claim does nothing once the claim is lost.
IfOwned(w, A) == IF delivery \in Owned(w) THEN A ELSE UNCHANGED queueVars

Go(w, pc) == task' = [task EXCEPT ![w].pc = pc]

------------------------------------------------------------------------------
ClaimDelivery(w) ==
    /\ task[w].pc = "idle"
    /\ ClaimBatch(w, {delivery})
    /\ task' = [task EXCEPT ![w] = [Idle EXCEPT !.pc = "attempt", !.gen = generation,
                                                !.tries = attempts[delivery] + 1]]
    /\ UNCHANGED <<sweep, generation, httpStatus, told>>

\* _load_source and _attempt: one request, or none when there is nothing to
\* send or a secret is missing.
Attempt(w) ==
    /\ task[w].pc = "attempt"
    /\ \E o \in Outcomes : task' = [task EXCEPT ![w].pc = "settle", ![w].outcome = o]
    /\ UNCHANGED <<queueVars, sweep, generation, httpStatus, told>>

Beat(w) ==
    /\ task[w].pc # "idle"
    /\ delivery \in Owned(w)
    /\ Heartbeat(w, {delivery})
    /\ UNCHANGED <<task, sweep, generation, httpStatus, told>>

\* _mark_done
MarkDone(w) ==
    /\ task[w].pc = "settle"
    /\ task[w].outcome = "done"
    /\ IfOwned(w, Complete(w, delivery))
    /\ httpStatus' = IF delivery \in Owned(w) THEN "ok" ELSE httpStatus
    /\ Go(w, "idle")
    /\ UNCHANGED <<sweep, generation, told>>

GivesUp(w) == task[w].outcome = "permanent" \/ task[w].tries >= MaxAttempts

RetryDelivery(w) ==
    /\ task[w].pc = "settle"
    /\ task[w].outcome # "done"
    /\ ~GivesUp(w)
    /\ IfOwned(w, \E d \in 0..MaxWait : Retry(w, delivery, d))
    /\ Go(w, "status")
    /\ UNCHANGED <<sweep, generation, httpStatus, told>>

\* Mutant: the alert does not wait for fail() to say the row was failed.
FailRegardless(w) ==
    /\ task[w].pc = "settle"
    /\ task[w].outcome # "done"
    /\ GivesUp(w)
    /\ IfOwned(w, Fail(w, delivery))
    /\ ended' = IF delivery \in Owned(w) THEN ended \cup {generation} ELSE ended
    /\ Go(w, "failing")
    /\ UNCHANGED <<sweep, generation, httpStatus, alerts, silenced>>

\* work_queue.fail; only if it matched the row do the next two steps follow.
FailDelivery(w) ==
    /\ task[w].pc = "settle"
    /\ task[w].outcome # "done"
    /\ GivesUp(w)
    /\ IfOwned(w, Fail(w, delivery))
    /\ IF delivery \in Owned(w)
       THEN ended' = ended \cup {generation} /\ Go(w, "failing")
       ELSE Go(w, "idle") /\ UNCHANGED ended
    /\ UNCHANGED <<sweep, generation, httpStatus, alerts, silenced>>

\* Mutant: the row is all there is to a failure.
RecordStatusOnly(w) ==
    /\ task[w].pc \in {"status", "failing"}
    /\ httpStatus' \in {"null", "error"}
    /\ Go(w, "idle")
    /\ UNCHANGED <<queueVars, sweep, generation, told>>

\* _record_status: WHERE id = :id, after a retry and after a failure.
RecordStatus(w) ==
    /\ task[w].pc \in {"status", "failing"}
    /\ httpStatus' \in {"null", "error"}
    /\ Go(w, IF task[w].pc = "failing" THEN "alert" ELSE "idle")
    /\ UNCHANGED <<queueVars, sweep, generation, told>>

\* _raise_failure_alert: dedupe_key = id and generation.
RaiseAlert(w) ==
    /\ task[w].pc = "alert"
    /\ alerts' = alerts \cup {task[w].gen}
    /\ Go(w, "idle")
    /\ UNCHANGED <<queueVars, sweep, generation, httpStatus, ended, silenced>>

------------------------------------------------------------------------------
\* Mutant: a row at the cap is not exhausted yet.
ExhaustedOffByOne == status[delivery] = "pending" /\ attempts[delivery] > MaxAttempts

Exhausted == status[delivery] = "pending" /\ attempts[delivery] >= MaxAttempts

\* fail_exhausted_deliveries: one statement fails the rows, then each gets
\* its alert.
Sweep(w) ==
    /\ sweep[w] = {}
    /\ Exhausted
    /\ status' = [status EXCEPT ![delivery] = "failed"]
    /\ ended' = ended \cup {generation}
    /\ sweep' = [sweep EXCEPT ![w] = {generation}]
    /\ UNCHANGED <<claimedBy, lease, attempts, wait, expiries,
                   task, generation, httpStatus, alerts, silenced>>

SweepAlert(w) ==
    /\ \E g \in sweep[w] : alerts' = alerts \cup {g}
    /\ sweep' = [sweep EXCEPT ![w] = {}]
    /\ UNCHANGED <<queueVars, task, generation, httpStatus, ended, silenced>>

\* An exception in the loop over the failed rows is logged; the sweep goes on
\* with the next tick.
SweepRaises(w) ==
    /\ sweep[w] # {}
    /\ sweep' = [sweep EXCEPT ![w] = {}]
    /\ silenced' = silenced \cup sweep[w]
    /\ UNCHANGED <<queueVars, task, generation, httpStatus, alerts, ended>>

\* The worker's task or its process ends, its sweeper with it.
Die(w) ==
    /\ task[w].pc # "idle" \/ sweep[w] # {}
    /\ task' = [task EXCEPT ![w] = Idle]
    /\ sweep' = [sweep EXCEPT ![w] = {}]
    /\ silenced' = silenced \cup sweep[w]
                   \cup {g \in Generations : task[w].pc \in {"failing", "alert"} /\ task[w].gen = g}
    /\ UNCHANGED <<queueVars, generation, httpStatus, alerts, ended>>

LoseClaim == ReclaimExpired /\ UNCHANGED <<task, sweep, generation, httpStatus, told>>
Time == Tick /\ UNCHANGED <<task, sweep, generation, httpStatus, told>>

\* requeue_failed: a fresh budget, and the next failure alerts again.
Requeue ==
    /\ status[delivery] = "failed"
    /\ generation < MaxGeneration
    /\ status' = [status EXCEPT ![delivery] = "pending"]
    /\ attempts' = [attempts EXCEPT ![delivery] = 0]
    /\ wait' = [wait EXCEPT ![delivery] = 0]
    /\ expiries' = [expiries EXCEPT ![delivery] = 0]
    /\ generation' = generation + 1
    /\ httpStatus' = "null"
    /\ UNCHANGED <<claimedBy, lease, task, sweep, told>>

Deliver(w) ==
    \/ Attempt(w) \/ MarkDone(w) \/ RetryDelivery(w) \/ FailDelivery(w)
    \/ RecordStatus(w) \/ RaiseAlert(w)

SweepStep(w) == Sweep(w) \/ SweepAlert(w)

HookNext ==
    \/ \E w \in Workers :
          ClaimDelivery(w) \/ Deliver(w) \/ Beat(w) \/ SweepStep(w) \/ SweepRaises(w) \/ Die(w)
    \/ LoseClaim \/ Time \/ Requeue

HookSpec == HookInit /\ [][HookNext]_hookVars

\* The supervisor keeps workers running, each with its sweeper; requests time
\* out; time passes and the reclaim timer ticks.
HookFairness ==
    /\ \A w \in Workers :
          /\ SF_hookVars(ClaimDelivery(w))
          /\ WF_hookVars(Deliver(w))
          /\ WF_hookVars(SweepStep(w))
    /\ WF_hookVars(LoseClaim)
    /\ WF_hookVars(Time)

HookFairSpec == HookSpec /\ HookFairness

------------------------------------------------------------------------------
\* An alert says a delivery gave up: it is never raised by a worker whose
\* row another worker is still delivering, nor by one left over from before
\* an explicit retry.
AlertNamesItsFailure == alerts \subseteq ended

\* The claim never takes a row at the cap, "so without [the sweep] it would
\* wait forever with nothing said": whatever crashes, no generation stays
\* undelivered without ending.
DeliveryEnds ==
    \A g \in Generations :
        (generation = g) ~> (status[delivery] \in Terminal \/ generation > g)

\* worker.py: "Every failure that ends a delivery raises a webhook_failed
\* alert" -- unless a crash or an exception falls between the two commits,
\* when nothing looks at the failed row again.
FailureIsAnnounced == \A g \in Generations : (g \in ended) ~> (g \in alerts \cup silenced)
==============================================================================
