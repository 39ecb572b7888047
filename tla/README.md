# Mail Verdict: verification project

TLA+ models of the parts of Mail Verdict where several workers, timers, people
and an IMAP mirror change the same rows. Every module is translated from the
Python under `src/src/mail_verdict/` (paths below are relative to it); TLC
checks each on a small instance, and TLAPS proves the safety of every one of them
for every number of rows, workers, requests, mails and attempts.

    tlc -workers 2 -config MC_WorkerLoop.cfg MC_WorkerLoop   # one run
    tlapm WorkQueueProofs.tla                                # the proofs

## 1. The system

Mail Verdict is one asyncio process beside two others it does not contain:
PostIMAP, which mirrors IMAP accounts into Postgres tables and announces changes
by NOTIFY, and an AI provider. Postgres is the only durable state, and the only
thing the coroutines of the process share besides the event ring.

| Component | State | Operations | Hard because |
|---|---|---|---|
| Work queue engine `queue/work_queue.py` | status, claimed_by, lease_expires_at, attempts, next_attempt_at of every queue table | claim_batch, heartbeat, complete, fail, retry, release_untouched, release_all_claims, reclaim_expired | any worker may call any of them on a row it lost |
| Worker loop `queue/worker_loop.py` | the batch in hand, the row under heartbeat | claim, hand over, give back, exit | acts on what the claim returned, however stale; dies anywhere |
| Manager and supervisors `queue/manager.py`, `supervisor.py` | queue_state rows; targets; tasks running and draining | start, stop, set_state, reconcile | check, write, read back and apply are apart; retired tasks leave late |
| Circuit breaker `queue/circuit.py`, alert pass `alerts/provider_health.py` | circuit_breakers rows; alerts | is_available, try_probe, record_*; raise and resolve | answers report to a breaker that moved on |
| Pipeline runner `pipeline/runner.py`, `effects.py`, `stages/` | pipeline_runs, verdicts | one run: stages, effects, trace, outcome | a lost lease leaves two runs of one mail |
| Spam feedback `spam/` | user verdicts | human ruling; folder-move listener | moves are handled long after they happened, and carry no author |
| Arrival gate `pipeline/enqueue.py`, `embeddings/` | folder watermark, message_embeddings, pipeline_runs | live enqueue, watermark, backfill sweep, embedding's end, gap pass | events are lost and reordered, row ids are renamed |
| Event ring and SSE `api/event_ring.py`, `events.py` | a bounded ring per account; a generator per client | add, replay, resync, stream | evictions, reconnects, restarts renumber ids |
| Webhook delivery `webhooks/` | webhook_deliveries, alerts | deliver, retry, fail, sweep, explicit retry | outcome and alert commit apart |
| Glacier `glacier/` | glacier_messages beside messages | copy, verify, expunge, confirm or withdraw, restore, permanent delete | two stores, no common transaction, IMAP deletes that fail later |
| Outbox `outbox/`, `api/outbox.py` | pending_sends, outbox, outbox_submissions, advisory locks | request, repeat, undo, tick, stalled pass, sent event | a send moves between two tables while others look for it |
| Mail actions `mail_actions/`, `api/mails.py` | the row of a request key | claim, beat, check, write, store, release, prune | a repeat must tell a slow request from a dead one |
| Orders `orders/`, `api/orders.py` | orders, order_mails, order_files, order_jobs | three kinds of jobs, uploads, automatic close, prune, a person's edits | a model call lies between what a job reads and what it writes |
| Usage export `usage/` | llm_usage rows, the stored position | record, export pass, prune | ids are taken at insert, rows are seen at commit; an answer is lost after the documents arrived |
| Calendar, retention, settings, push | one table or cursor each | see section 8 | |

How they interact: PostIMAP's NOTIFY reaches `postimap/listener.py`, which hands
it to four dispatch workers; these fan out to the arrival gate, the feedback
listener and the event ring. The gate inserts embedding rows, whose worker asks
the breaker, calls the provider, and on the embedding's end inserts the pipeline
run. The runner claims it through the engine, calls the provider through the
same breaker, writes verdicts, and queues moves and webhooks. Manager and
supervisors decide how many workers each queue has; timers of `queue/manager.py`
reclaim expired leases, run the gap pass, the alert pass and the glacier sweep.
People and their clients come in through `api/` and the MCP tools: what they send
passes the outbox, what they file passes `run_once`, and what they do to an order
changes the rows its jobs read.

What makes each component correct is stated as its module's properties in
section 4; `hazards` in PROJECT.json lists, by source line, what could go wrong
and which property would notice.

## 2. Modules

| Module | Models | Composition |
|---|---|---|
| `LeaseLedger` | what a queue promises: an item is free, held by one worker, or settled; only its holder, or the end of its term, ends a hold | abstract specification |
| `WorkQueue` | the engine; one action per public method | implements `LeaseLedger` (`ImplementsLedger`) |
| `SendLifecycle` | requests to send statement by statement, undo window, tick, undo, stalled alert | alone |
| `MailAction` | one request key and the two actions that file mail under it | alone |
| `OrderBook` | the orders register: its jobs, its edits, its timers | alone |
| `WorkQueueProofs`, `GlacierMoveProofs`, `OrderBookProofs` | TLAPS proofs | each EXTENDS the module of that name |
| `WorkersProofs`, `PipelineRunProofs`, `DeliveriesProofs` | TLAPS proofs, on top of those of the engine | each EXTENDS the modules it is about and `WorkQueueProofs`; `WorkersProofs` is about `WorkerLoop` and `QueueManager`, `DeliveriesProofs` about `WebhookDelivery`, `UsageExport` and `EventStream` |
| `EmbeddingProofs` | TLAPS proofs | EXTENDS `ArrivalGate` and `ProviderCircuit` |
| `WorkerLoop` | `default_worker_loop`, `heartbeat_while`, spawn, stop, crash, reclaim | EXTENDS `WorkQueue` |
| `PipelineRun` | one run by several workers, the person, the feedback listener | EXTENDS `WorkQueue` |
| `WebhookDelivery` | one delivery, its sweep, its alert, its explicit retry | EXTENDS `WorkQueue` |
| `UsageExport` | usage rows, the export pass that may die anywhere, the prune | alone |
| `ArrivalGate` | mail row → embedding → run, with events and PostIMAP | alone |
| `QueueManager` | queue_state rows, set_state calls, supervisors' counts | alone |
| `EventStream` | ring, generator, one client | alone |
| `ProviderCircuit` | one breaker, its callers, the alert pass | alone |
| `GlacierMove` | one msg_key of the glacier, requests, the sweep, PostIMAP | alone |
| `KeyedRequestsProofs` | TLAPS proofs | EXTENDS `SendLifecycle` and `MailAction` |
| `MC_*` | constant definitions and scenes for TLC | EXTENDS the module of that name; `MC_EventStream` also `ProviderCircuit`, `MC_KeyedRequests` both modules of keyed requests |

Conventions. A timestamp compared with `now()` is the number of ticks left until
it passes (`WorkQueue.lease`, `wait`, `ProviderCircuit.retry`) or a flag that
`TimePasses` sets (`GlacierMove.g.old`); a timestamp compared with rows'
`created_at` is the set of rows that existed then (`ArrivalGate.mark`). One SQL
statement or one transaction is one step; an `await` between two of them is a
place where any other actor may step. Variables marked *history* record what
properties speak of and are read by no guard. An operator whose comment begins
with "Mutant:" is a deliberate error used to show that a property can fail; no
specification refers to it.

### State and actions beside the code

* `WorkQueue`. `status, claimedBy, lease, attempts, wait` are the columns.
  `ClaimBatch(w, C)` is the UPDATE over the locked SELECT: `Batch(C)` is its
  WHERE, ORDER BY priority and LIMIT, with ties free. SKIP LOCKED only makes a
  claim look past rows another transaction is about to change; the
  serialisation in commit order is what is modelled. `ReclaimExpired` is one
  statement over all overdue rows.
* `WorkerLoop`. `phase` is the task's life, `todo` and `cur` the rows the loop
  still carries, `lost` the ones the reclaim timer took from it meanwhile.
  `LeaveRow` is any of the calls a handler may end with.
* `PipelineRun`. `task[w].pc` names the await the coroutine is at; `seen`,
  `known`, `began`, `verdict` are what `_execute_run` read or got. The two stages
  are those of the definition an installation starts with. Every exception
  class of `_handle_item` is an action (`StageUnavailable`, `StageTransient`,
  `StageMisconfigured`, `FailRun`, `Die`). Events of moves are handled in any
  order, as four dispatch workers do (`moved` is a bag); a handler reads the
  verdict in force in one transaction and records the correction in another
  (`corrections` are the ones in between). An explicit ruling is three
  transactions (`rulings`): read, record, move. `said` is what the person
  expressed, by ruling or by filing.
* `WebhookDelivery`. `attempt → settle → status → failing/alert` follow
  `handle_delivery`; the outcome of the HTTP call is one of three classes.
* `UsageExport`. `usage[i]` is a row and the start of the transaction that wrote
  it, from its insert on ("open") and from its commit on ("stored"); `lastId` is
  the stored position. `export` holds the locals of `export_once`, and `pc` its
  next statement; `arrived` is what Elasticsearch has.
* `ArrivalGate`. `at[m]` is the row and its folder; `inserts` and `synced` are
  NOTIFY events not yet dispatched, in any order; `emb[k]` and `runOf[k]` are
  keyed by msg_key and hint at a row, as the tables do. The sweep leaves out a
  row whose twin holds the embedding, but knows a twin by its Message-ID alone
  (`Shadowed`); a twin of a key in `Headerless` stays a candidate, and its insert
  is refused each time it is tried (`HeldByTwin`).
* `QueueManager`. `active` and `leaving` count tasks; the oldest are retired
  first, so counts are enough. A `call` is between its commit and its read-back,
  or between that and `set_target`.
* `EventStream`. `lastSeen`, `batch`, `woken` are the generator's locals; `batch`
  is the set of ids it read from the rings, yielded in their order (`Earliest`),
  as `replay_from` sorts them;
  `wire` holds frames yielded but not received, `cookie` the client's
  Last-Event-ID; `due` is what the client has not been told.
* `ProviderCircuit`. The row's columns, `caller[c]` between two calls of the
  breaker, `snap` what the alert pass read before it writes.
* `GlacierMove`. `row[r]` is a message row together with what the server has of
  it ("marked": hidden, delete queued; "unseen": on the server, not mirrored
  yet), `g` the glacier row, `notice` PostIMAP's failure report. `task[p].at`
  names the next statement of a request or of the sweep. A transaction that locks
  its row, or checks it in the statement that writes, is one step. The eight that
  read without a lock and write by id what they concluded are two steps each:
  `resolve_duplicate`, `reresolve_origins`, both branches of
  `confirm_or_withdraw_removing`, `start_restore`, `confirm_restores`,
  `fail_stale_restores` and the permanent delete. Anything may commit in between.
  `overtaken` remembers the mails a write was about that came after what its read
  saw had ceased to hold; `mishaps` bounds deaths of the sweep, refused deletes,
  resyncs and damage of the storage.
* `SendLifecycle`. `staged`, `outbox`, `target` are the three tables; a message
  keeps its id from one to the other. `pc[h]` is the next statement of a request,
  since under READ COMMITTED each statement sees what was committed before it;
  the two advisory locks are derived from `pc`, being held to the end of the
  transaction. `moving` is what the tick holds locked, `pass` what the stalled
  pass has read. `age` turns `send_after` and the alert threshold into three
  classes.
* `MailAction`. `token`, `asked`, `answered`, `quiet` are the key's row; `where[c]`
  is the transaction request `c` comes to next. `quiet` counts heartbeat
  intervals. A request in `Prompt` beats within each while its action runs
  (`Beating`); like the code's, its heartbeat stops before the answer is stored or
  the claim released.
* `OrderBook`. `order`, `place`, `filed`, `job` are the tables; a text is the set
  of items it was written from (`covers`). A worker reads in `Begin...` and writes
  in `Attach` or `Write` while it holds `ORDERS_LOCK_KEY`; an edit never takes
  that lock, and is three steps: the membership rows, the order's row, the
  commit. `job` follows `WorkQueue`: any claim may run out, a dead worker's
  (`Gone`) or that of a living one whose heartbeats fail (`Reclaim(late)`), which
  goes on with what it has in hand and meets the claim of another.

## 3. The plan

Order: first what every asynchronous job rests on (engine, loop), then the path
of a mail through it (gate, run, feedback), then what governs the workers
(manager, breaker), then the two outputs that must not lie (SSE, webhooks), then
cold storage, where an error loses mail, then what people ask for and may ask
for twice (outbox, mail actions), then orders. All of that is written. Next:

1. `CalendarIntake`: superseding sequence numbers, replies.
2. `EmbeddingCutover`: the switch to another embedding model, with its prune.
3. `MailAlerts`, `Revisions`.

With them come their proofs: that a superseded invitation is never answered, and
that no embedding of a retired model survives the switch and none of the new one
is pruned.

## 4. Runs

State counts and times are those of two TLC workers on a small machine.

| Run | Configuration | States | What it shows |
|---|---|---|---|
| `worker_loop` | 2 rows, 2 workers, batch 2, 2 attempts, lease of 1 tick; one worker is prompt (its heartbeats are never late) and one not | 91,677 | What a worker has in hand is what the table says it owns, minus what was reclaimed from it (`HandMatchesTable`); a prompt worker with a batch of one never loses its row (`NoSecondRun`); a row is lost to silent workers at most `MaxAttempts` times whatever is refunded (`PoisonPillBounded`); the engine under the loop implements `LeaseLedger` (`ImplementsLedger`); every row ends, or stays pending because crashes used up its attempts (`EveryRowEnds`) |
| `pipeline_run` | one run, 2 workers that can both run it, 2 acts of the person, lease of 0 ticks | 2,767,024 | A move follows the stored verdict, or the one in force when the run began, and only out of the inbox (`MovesOnStoredVerdict`); no correction is recorded of a mail the person said nothing about (`NoFeedbackUnprompted`) |
| `arrival_gate` | scene *twins*: 2 rows of one mail with a Message-ID, 2 folders of which one is in scope (the later row stays in it), 1 row moved, one may be expunged or age, 2 attempts; scene *bare*: a mail with a Message-ID and, newer, 2 rows of one without, in one folder; 1 listener gap, sweep of 2 rows at a time | 277,079 | A run never precedes its embedding (`GateHolds`), a row the first sync brought in never runs unless it was moved (`HistoryNeverRuns`), mail that stays eligible gets its run although an event was lost (`EligibleGetsRun`); sweep and gap pass only ever lose candidates, and a sweep loses one whenever its window shows one it can change (`HintsSettle`), so the backfill loop ends unless its window is clogged (`BackfillEnds`) |
| `queue_manager` | 2 queues, budget 2, 2 requests at once, any persisted rows, restarts | 425,331 | Rows never come to commit to more than the budget (`RowsWithinBudget`), nor do targets (`TargetsWithinBudget`); what is applied is what is persisted unless requests for the queue overlapped or the start clamped it (`AppliedIsPersisted`); supervisors left alone reach their targets (`SupervisorSettles`) |
| `event_stream` | scene *stream*: 2 accounts, ring of 2, 4 events and 3 more after a restart; scene *provider*: 2 callers, at most 2 outages, a probe every 2 ticks | 43,774 | Stream: a client that keeps up never passes an event it was not told of (`NothingSkipped`), its Last-Event-ID never goes back (`CookieAdvances`), and in the end it knows everything (`EventuallyCaughtUp`). Provider: one probe per interval (`OneProbePerInterval`), a healthy provider is used again (`BreakerRecovers`), alerts of ended suspensions resolve (`AlertsResolve`) |
| `deliveries` | scene *hook*: one webhook delivery, 2 workers, 2 attempts, 1 explicit retry; scene *usage*: 3 rows in batches of 2, transactions of 1 tick, settled after 3, kept for 4, 6 ticks | 108,855 | Hook: every generation ends (`DeliveryEnds`), an alert names one that failed (`AlertNamesItsFailure`), every failure is announced unless a crash falls between the two commits (`FailureIsAnnounced`). Usage: the export's position passes no row that has not arrived, though rows appear out of order, answers are lost and passes die (`NothingPassedOver`) |
| `glacier_move` | 1 request at a time beside the sweep, 1 restore; scene *alone*: one mail, 2 row ids, 2 mishaps; scene *refill*: two mails under one Message-ID, 3 row ids, 1 refused delete, nobody moves mail between folders | 703,191 | A mail is lost only by a write that was overtaken (`LostOnlyIfOvertaken`), nothing is taken off the server that the glacier does not hold verified (`ExpungeIsCovered`), also where the glacier's one row is emptied by one mail and filled by the other between a read and its write; a restore ends (`RestoreEnds`) |
| `glacier_lost` | the scene *alone* of `glacier_move` | | **`NeverLost` is violated** (section 6) |
| `keyed_requests` | scene *race*: 2 requests at once, to send a draft under a key, to save a draft under that key, or to send the draft with no key, 2 row ids, 1 crash; scene *wait*: one request at a time, messages may wait past the threshold; scene *file*: 3 requests, two moves and a spam ruling, under one key over 2 mails, 2 moves by others, a claim abandoned after 1 interval | 392,666 | Of the sends of one draft at most one can still reach anyone (`OneLiveSendPerDraft`); a repeat finds its row although the tick moves it (`RepeatFindsItsRow`); an undo once acknowledged is kept (`UndoIsKept`); alerts of sends that left or were undone clear (`StalledAlertsClear`); a due send leaves unless one of its batch is poisoned (`DueSendsLeave`); mail is filed once per key (`AppliedOnce`) and nobody takes the claim of a request that beats while its action runs (`PromptKeepsItsClaim`) |
| `keyed_poison` | a send of a draft and a send of none | | **`PoisonStaysAlone` is violated** (section 6) |
| `orders` | 2 orders, a mail and a file of which one is placed already, 2 write rows; scene *one*: one worker that fails and is killed once, 1 edit (a mail detached or a file deleted); *two*: two workers whose calls do not raise, 2 edits (an order is deleted by the first only); *late*: one order and two workers, one of which fails and loses its lease once while it lives, 1 edit (no rewrite asked for); *open*: one worker whose calls do not raise, and everybody who decides about open and closed | 1,125,711 | A text is written from the items the order has, or a rewrite is owed, whatever happens while a text is being written (`TextFollowsMembers`); a worker bundles an item once (`BundledOnce`), although in *late* a worker without a claim reads, attaches, writes and gives up beside the one that has it now (what it may spoil is what `excuse` and `reopened` name); what a person decided about open or closed stands until they or a new item change it (`PersonDecides`) |
| `orders_wedge` | one order, one worker, 2 kills | | **`LostRowsReturn` is violated** (section 6) |

Two models that share no state are checked in one run as *scenes*: the initial
state picks the scene, and only the actions of its model are taken. A scene also
holds back kinds of events where all at once would be too many states: its guard
in `MCNext` names them, and never names a step that fairness asks for.

`MC_PipelineRun_Spurious.cfg` and `MC_OrderBook_Pruned.cfg` are no runs: each shows,
on the instance of `pipeline_run` and of the scene *late*, one divergence that
section 6 tells of.

The type invariants are proved (section 5) and say nothing that the properties of
the runs leave open, so no run repeats them. `ClaimColumnsAgree`,
`OutcomeIsFinal`, `LiveLeaseIsHonoured`, `CleanExitHoldsNothing` and `OneVerdict`
are proved for every size and have no run of their own; `WaitsOnlyWhenNothingNew`
is proved for streams over all accounts and is not true of others (section 6).

### Why the bounds are enough

The smallest instance in which the interesting case happens, and one more where
time allows. Two workers are needed for every race over a row, and nothing in
the engine depends on a third; two rows of different priority, with a batch of
two, make a claim take both, or one while the other is held or waits. The proofs
of the engine hold for any number of both. Two attempts distinguish "retry",
"last attempt" and "at the cap". A lease of one tick distinguishes running,
ending and over; `PipelineRun` and `WebhookDelivery` take a lease of 0 because
there only "lost or not" matters. A ring of two evicts while something remains,
and four events turn it over twice. Two queues make a clamp of the second depend
on the first. Two values of `since` are needed to confuse one outage with
another. In `GlacierMove` two row ids allow one resync or one restore, three a
restore beside two mails under one key; ids are not used again, so long chains of resyncs are
outside the bound (not outside the proofs). Two mishaps are what a loss takes: a
delete the server refuses, and one thing more that goes wrong before its report
is read. In `ArrivalGate` two rows of one mail are what an arrival and its
resync, or the copies of a mail to oneself, take. A mail behind two rows without
a Message-ID, one of which no sweep can change, is the smallest mailbox in which
a sweep of two rows must pass such a row over to reach another. In
`SendLifecycle` two ids are what two requests for one draft need to send it
twice, and the third request of `MCRequests` is the one no key protects; a third
handler would only repeat what a second can do after it has ended. In
`MailAction` the third request is the spam ruling, which fails the fingerprint
check of a move's row and the other way round, and which writes mail by mail.
Two of them never beat late and one may, so that both a broken and an unbroken
claim occur. In `OrderBook` a write row's id is used again once its job ended:
two are what a rewrite in progress and the one queued behind it take. With one
mail and one file each edit that empties an order occurs, and each that leaves
something in it. A second lapse of a lease, or a death beside one, was too many
states: the proofs hold for any number of both. `UsageExport` needs a row that
appears below one already stored, and a full batch with a row behind it: three
rows and batches of two. All bounds are CONSTANTS commented "bound:"; counters
refuse steps of the environment (moves, gaps, crashes, retries, restarts), and
one step of the code: `MaxOutages` stops a caller from beginning yet another
outage.

`CHECK_DEADLOCK FALSE` is given where the bounded environment may run dry:
`ArrivalGate` (all rows handled), `GlacierMove` (mail at rest), `OrderBook` (all
jobs done and the edits used up).

### Fairness

* `WorkerLoop.LoopFairness`: the database clock advances, the reclaim timer and
  the supervisor tick, a loop that can run does (asyncio; every provider call
  has a timeout). Strong fairness only for "a row handled again and again is some
  time not handed back untouched": an outage of the provider ends. Heartbeats
  are not fair at all.
* `GateFairness`: dispatch, sweep and gap pass run; an embedding claimed again
  and again is some time settled. PostIMAP owes nothing.
* `ManagerFairness`: supervisors reconcile each second, a retired worker ends its
  batch, a request proceeds.
* In `MC_EventStream` the fairness of each model is stated of its own scene
  only; the conditions are those of the two modules.
* `StreamFairness`: the client reconnects, the loop runs the generator, frames
  arrive; `EventuallyCaughtUp` assumes the end of disconnects and restarts as
  its premise.
* `HookFairness`: strong for claiming, since a worker may be busy or replaced
  whenever the row is free; weak for the steps of one delivery.
* `CircuitFairness`: strong for the reads that other steps keep disabling, and
  for a success while the provider is well.
* `GlacierFairness`: the sweep starts, and a tick works through its finite list;
  its transactions end; time passes. Nothing is assumed of requests, nor of
  PostIMAP.
* `SendFairness`: the tick of the send timer and the stalled pass run
  (`queue/manager.py` calls both every period). Nothing is assumed of requests, of
  PostIMAP, or of time.
* `UsageExport` states none; a row that Elasticsearch refuses for good holds up
  those behind it, by design.
* `OrderBook.OrderSpec`: the reclaim timer keeps trying to take back the claims of
  the dead. Nothing else is fair, as the only liveness property is about it.
* `MailAction` states none; its properties are safety.

## 5. What TLAPS proves

`WorkQueueProofs`, for any sets of rows and workers, any priorities, and any
batch size, attempt cap and lease (`WorkQueueAssumption`: `NoWorker` is no
worker, priorities are integers, the cap and the batch size are positive):

| Theorem | Says |
|---|---|
| `TypeCorrect` | `Spec => []TypeOK`: in particular attempts stay within 0..MaxAttempts |
| `ColumnsAgree` | `Spec => []ClaimColumnsAgree` |
| `PoisonPill` | `Spec => []PoisonPillBounded` |
| `FinalOutcome` | `Spec => OutcomeIsFinal` |
| `LeaseHonoured` | `Spec => LiveLeaseIsHonoured` |
| `Refinement` | `Spec => ImplementsLedger`: the engine implements `LeaseLedger` under the mapping given beside it in `WorkQueue` |

The inductive invariant is `TypeOK /\ ClaimColumnsAgree /\
LostLeasesStayCharged`. The third conjunct says that `expiries[i]`, plus one while
the row is claimed, is at most `attempts[i]`, and makes `PoisonPillBounded`
inductive: a refund (`ReleaseUntouched`) takes back only the attempt of the
*present* claim, so it can never undo the charge for a lease that was lost
before. The proof that a step preserves it has one step per action of the
engine; the refinement maps each action to the ledger's step of the same meaning,
or to a stutter. Of the engine's statements only the reclaim looks at leases
(`Overdue`), and that is where the ledger's `term` comes from.

`WorkersProofs`, first for the loops, for any workers, any finite set of rows, any
batch size and any set of prompt workers:

| Theorem | Says |
|---|---|
| `LoopIsCaller` | `LoopSpec => Spec`: whatever the loops, the reclaim timer and crashes do is a step of the engine, so every theorem above holds of the running workers |
| `LoopTypeCorrect` | `LoopSpec => []LoopTypeOK` |
| `HandsMatch` | `LoopSpec => []HandMatchesTable` |
| `CleanExit` | `LoopSpec => []CleanExitHoldsNothing` |
| `PromptKeepsItsRow` | `LoopSpec => []NoSecondRun` |
| `LoopPoisonPill` | `LoopSpec => []PoisonPillBounded` |
| `LoopKeepsLedger` | `LoopSpec => ImplementsLedger` |

The invariant joins the engine's with three facts about hands: a task that is
over has nothing in hand, and the row under the heartbeat is not also one still
to be handed over (`HandsAreTidy`); what is in hand and was not reclaimed is what
the worker owns (`HandMatchesTable`); and a prompt worker's batch of one is the
only row in its hand, with a lease that runs (`LeaseRunsInHand`), without which
the reclaim could take it.

Then the manager, for any finite number of queues, any budget and any number of
overlapping `set_state` calls:

| Theorem | Says |
|---|---|
| `ManagerTypeCorrect` | `ManagerSpec => []ManagerTypeOK` |
| `AppliedAndPersisted` | `ManagerSpec => []AppliedIsPersisted` |
| `TargetsFit` | `ManagerSpec => []TargetsWithinBudget` |
| `RowsFit` | `ManagerSpec => RowsWithinBudget` |

`ManagerInv` says of every moment what the properties say of quiet ones. A
request is admitted against the rows, not the targets, so it has to be
remembered that it was (`CallsFit`), and, for a queue nobody excuses, that the
request about it is the only one and will apply what the row says (`Agreement`).
`Agreement` gives `AppliedIsPersisted` when no request is left, and then
`TargetsWithinBudget` as far as the rows fit. Where they do not, because an
earlier deployment had more to give out, only requests that pause are admitted,
and the targets the start clamped stay within the budget (`Overcommitted`).
`TargetsWithinBudget` is silent where an excused queue's target exceeds its row: an
older request that is applied last may leave it so. Within one queue, a supervisor's
tasks stay within the budget whatever they drain (`PoolOfTasks`); over all
queues they do not (section 6).

A commitment is a sum over the queues and the clamp a recursion along them, both
written as recursive functions. What they compute for every input needs
induction; the library's induction theorems take an operator, which the provers
cannot instantiate, but that a well-founded relation has minimal elements is
stated there of sets. `SetInduction` draws the form needed from it: a set of
numbers with 0 and, for each of its members, the next, holds all of `Nat`. On
it rest `SumExists` (the recursion has a solution), what a sum becomes when one
value changes (`SumSwap`), `SumMonotonic`, and `GivenExists` and `ClampedFit`, which say that
the clamp gives out at most the budget.

`EmbeddingProofs`, first for the arrival gate, for any rows, folders, scope, keys
and bounds:

| Theorem | Says |
|---|---|
| `GateTypeCorrect` | `GateSpec => []GateTypeOK` |
| `EmbeddingPrecedesRun` | `GateSpec => []GateHolds` |
| `HistoryIsSpared` | `GateSpec => []HistoryNeverRuns` |
| `PassesComeToRest` | `GateSpec => HintsSettle` |

`HistoryNeverRuns` is not inductive: a row may run only if its folder's watermark
does not cover it, so the proof needs that a watermark, and the event that will
set it, come after the folder's first sync (`MarkFollowsSync`) and that both
cover all that was there by then and was not moved since (`HistoryIsMarked`). A
claimed embedding was charged an attempt (`ClaimIsCharged`), so that a refund
stays in the type. `PassesComeToRest` needs that a key without an embedding
hints at no row (`NoRowNoHint`): a row of the window no twin holds is then
inserted or repointed, and leaves the candidates.

Then a provider's breaker, for any callers, intervals and outages (the probe
interval is positive, as `_SUSPENDED_PROBE_INTERVAL` is):

| Theorem | Says |
|---|---|
| `CircuitTypeCorrect` | `CircuitSpec => []CircuitTypeOK`: in particular a breaker has a `since` exactly while it is out |
| `OneProbe` | `CircuitSpec => OneProbePerInterval` |

The row itself keeps probes apart: while a probe of this interval is out, the row
is suspended and its retry_after lies ahead (`ProbeHoldsOff`).

`PipelineRunProofs`, for any workers, attempts and acts of the person:

| Theorem | Says |
|---|---|
| `RunIsCaller` | `RunSpec => Spec`: the runner only ever calls the engine |
| `RunTypeCorrect` | `RunSpec => []RunTypeOK` |
| `FirstVerdictStands` | `RunSpec => []OneVerdict` |
| `MovesAreGrounded` | `RunSpec => MovesOnStoredVerdict` |
| `NoFalseFeedback` | `RunSpec => []NoFeedbackUnprompted` |
| `RunKeepsLedger` | `RunSpec => ImplementsLedger` |

The invariant says that a worker carries "spam" only where it is stored or was in
force when it began (`SpamIsStored`), which lasts because a stored verdict never
changes (`OneVerdict`); and that while the person has said nothing, every move
still to be handled was into Junk and found spam, and no correction or ruling is
under way (`SilentPerson`), so that the listener sees no contradiction in
whatever order it takes them.

`DeliveriesProofs`, first for any workers, attempts and explicit retries, and any
number of usage rows, batch size and retention:

| Theorem | Says |
|---|---|
| `HookTypeCorrect` | `HookSpec => []HookTypeOK` |
| `AlertIsTrue` | `HookSpec => []AlertNamesItsFailure` |
| `UsageTypeCorrect` | `UsageSpec => []UsageTypeOK` |
| `NoneSkipped` | `UsageSpec => []NothingPassedOver` |

An alert names the generation its worker read at the claim. It is the one the row
has when it is failed, because whoever still owns the row works on its present
generation (`HolderIsCurrent`); until the alert is raised, its worker or sweeper
carries only generations that ended (`NewsIsTrue`). The engine's own invariant is
part of the induction and survives the two statements that go past the engine,
the sweep of exhausted rows and the explicit retry.

`NothingPassedOver` rests on `UsageAssumption`: `_ROW_SETTLE` is *more than twice*
as long as a transaction that writes a usage row may stay open (60 seconds against
one INSERT). Once is not enough: a row is dated by the start of its transaction,
so one dated now may have been inserted `MaxOpen` later, just after a lower id
whose transaction has `MaxOpen` still to go; with `RowSettle = 2 * MaxOpen` TLC finds
that lower row passed over. The proof needs that ids and dates disagree by at most
`MaxOpen` (`NearlyInOrder`), which makes every row below one that is not young
ended (`BelowSettled`), and that a batch therefore has all rows between the
position and any row of it (`BatchIsWhole`).

Then for the event stream, for any accounts, ring size, filter, disconnects and
restarts:

| Theorem | Says |
|---|---|
| `StreamTypeCorrect` | `StreamSpec => []StreamTypeOK` |
| `NeverGoesBack` | `StreamSpec => CookieAdvances` |
| `NothingIsSkipped` | `StreamSpec => []NothingSkipped`, if `KeepsUp` |
| `WaitsRightly` | `StreamSpec => []WaitsOnlyWhenNothingNew`, if the stream is over all accounts |

`StreamInv` follows an event from its ring to the client: ids rise in a ring
(`RingsGrow`), what the generator has read lies past what it sent
(`GeneratorFits`), frames on the wire rise and only the first is a reset
(`WireFits`), and a client of another process is told so before anything else,
while one of this process is sent nothing older than it has (`CookieFits`). For
`NothingSkipped` it also has to be known where an event is that the client has
yet to learn of: in a reset or a frame on the wire, read and not sent, or still
in a ring past all that was read; and that it, or a younger one, is in its ring,
so that a client that comes back without it is answered with a resync
(`DueFits`). This part needs `KeepsUp`: a ring that turns over under a slow but
connected client loses events nobody notices (section 6). The others hold of
every client. `WaitsRightly` is stated for streams over all accounts because it
is false for one account.

`GlacierMoveProofs`, for any requests, rows, mails, envelopes, restores, mishaps
and crashes. Nothing is assumed of how transactions overlap:

| Theorem | Says |
|---|---|
| `GlacierTypeCorrect` | `GlacierSpec => []GlacierTypeOK` |
| `NothingLost` | `GlacierSpec => []LostOnlyIfOvertaken` |
| `ExpungeCovered` | `GlacierSpec => ExpungeIsCovered` |

So copy, verify, expunge, put-back, resync and crash lose nothing, in any
interleaving of any number of requests with the sweep. What can lose a mail is
one of four writes made on a stale read: the expunge of a duplicate, the
withdrawal of a copy or the choice of its origin, the tombstone of a restore, and
the permanent delete of a row that was refilled. `NeverLost` itself is not true
(`glacier_lost`). Both properties speak of mail whose envelope is its own
(`Alone`), since `expunge_if_matches` cannot tell two of one envelope apart; the
other mails in the model may share theirs.

`LostOnlyIfOvertaken` counts a row whose delete is queued as holding its mail,
which the next step of PostIMAP ends; the invariant therefore says that every
mail is held by a row with no delete queued or by a whole, verified copy (`Kept`).
That it survives each write rests on what each actor still knows at its place
(`Known`), on the facts about a copy every transaction keeps (`CopyFacts`), on
`OriginNamesCopy`, which ties the origin to the bytes of the copy across resyncs,
and on the appends of restores, which carry a mail (`CarryMail`).

`KeyedRequestsProofs`, for any requests, keys, drafts, handlers and crashes, and
for any requests, mails, moves by others and `Abandoned`:

| Theorem | Says |
|---|---|
| `SendTypeCorrect` | `SendSpec => []SendTypeOK` |
| `OneSend` | `SendSpec => []OneLiveSendPerDraft` |
| `RepeatAnswered` | `SendSpec => []RepeatFindsItsRow` |
| `UndoKept` | `SendSpec => []UndoIsKept` |
| `ActionTypeCorrect` | `ActionSpec => []ActionTypeOK` |
| `FiledOnce` | `ActionSpec => []AppliedOnce` |
| `ClaimKept` | `ActionSpec => []PromptKeepsItsClaim` |

That two requests never send one draft is not a matter of one state: the
invariant says that no two requests are past the lock of the same key or draft
(`LocksHold`); that what such a request did not find in `pending_sends` is not
there when it comes to ask `outbox` either, and what it found in neither is
nowhere (`NoneInFlight`; this is why the tables must be read in the order a row
moves); that what the tick holds is staged and was not undone (`RowsAgree`); and
that a key names a row that exists, in the table still to be read
(`KeysNameRows`). For an action, the invariant says that as long as no request
was broken off, the one that holds an unanswered claim is the only one that
runs, and it has filed nothing it has still to write (`OneApplies`; a claim
taken over while its holder stored the answer, with no heartbeat any more,
counts as broken off); and that the claim of a prompt request is never more than
one interval old (`PromptBeats`), less than what makes it abandoned.

`OrderBookProofs`, for any mails, files, orders, workers, attempts, edits,
crashes and leases that run out under a living worker, and any finite set of
write rows (`OrderAssumption`; a free row is chosen from them, which needs that
they can be counted):

| Theorem | Says |
|---|---|
| `OrderTypeCorrect` | `OrderSpec => []OrderTypeOK` |
| `BundlesOnce` | `OrderSpec => []BundledOnce` |
| `TextsFollow` | `OrderSpec => []TextFollowsMembers` |
| `DecisionsStay` | `OrderSpec => PersonDecides` |

The invariant has three parts. `JobsInv` ties the job table to the workers: a
claimed job is in the hands of the worker it names, with the order it was
claimed for (`ClaimsAreHeld`), though a worker may handle what it no longer
owns, and one worker at a time is at the model (`OneAtTheModel`, the advisory
lock). `BooksInv` ties items to orders across the places where the lock does
*not* protect: an edit takes other locks, so it must be known that what it moves
is still where it found it (`EditFits`), that a mail at the model is in no order
and a file there not attached (`MailsAtTheModel`, `FilesAtTheModel`), hence that
neither is what an edit moves; and an item that was bundled is dealt with, its
job over or its row in an order, and not at the model again (`BundledIsDealt`),
so a job that outlives its worker, or the claim of one that lives, finds it
placed. `TextsAreMinded` ties texts to items: if the text of a live order, or
one that is being written, does not cover its members, a rewrite is owed, by a
pending row, by one whose worker died, or by an owner that has read the present
members or has yet to read any, or `excuse` says which of the three known gaps
(section 6) it fell into. Each step is proved to preserve the parts in this
order, since each uses the ones before it.

`PersonDecides` speaks of orders that are live before and after a step: a merge
or a deletion ends the row together with its decision.

Only model-checked: all liveness properties (temporal reasoning under fairness
and ENABLED are outside the prover), and the properties of section 6, which
are not true. Every safety property of a passing run is stated by a theorem.

## 6. Where the code and its documentation part

Three have a run each:

* **A mail lost between two transactions** (`glacier_lost`). `resolve_duplicate`
  reads the glacier row without a lock and later expunges the live row;
  `confirm_or_withdraw_removing` reads the live row and later deletes the copy.
  After a delete failed and the row was put back, a person repeats the move while
  the sweep withdraws the copy: each removes what the other relied on.
  `glacier/operations.py:350` calls that expunge "provably lossless".
* **A poisoned send** (`keyed_poison`). One due send whose draft row was purged
  makes the insert raise; the session of the whole batch is unusable after it, so
  nothing of the batch leaves, and the next tick meets the same row. The comment
  at `outbox/pending.py:213-221` says that such a row is left in place rather than
  retried for ever.
* **A reclaim that can never succeed** (`orders_wedge`). Two write jobs of one
  order, one running and one queued behind it and claimed later, both lose their
  worker. `reclaim_expired` puts both back to pending in one statement, which
  `uq_order_jobs_write` forbids: it raises at every tick from then on.
  `manager._reclaim_all` (`queue/manager.py:127-131`) has no `try` per queue, so the
  queues after this one are not reclaimed either. `queue/work_queue.py:328` says
  "Return every row whose lease has expired to 'pending'".

Three more are as plain; the first two have a configuration, `Clogged` names the
third:

* **A correction nobody made** (`NoSpuriousCorrection`,
  `MC_PipelineRun_Spurious.cfg`). The listener compares a move with the verdict in
  force when it handles the event (`spam/feedback.py:222`). The pipeline files a mail
  it found spam, the person rules not-spam, and only then the event of the
  pipeline's own move is taken: it contradicts the ruling and is recorded as the
  person's spam verdict, which now is the one in force. `spam/processor.py:9-11`
  says the contradiction check makes that move "a no-op rather than a spurious
  correction". `NoFeedbackUnprompted` therefore speaks of mail the person has said
  nothing about.
* **A placed file that is pruned** (`PrunesUnplaced`, `MC_OrderBook_Pruned.cfg`).
  `_fail` ends a job under the guard of its claim, `_fail_file` then marks the file
  failed whatever became of it (`orders/worker.py:229`). A worker whose lease ran out
  at the model gives up, another has attached the file meanwhile; the prune deletes
  it days later and recounts nothing. `orders/files.py:196` says it deletes "files
  the register failed to place".
* **A backfill that does not end** (`BackfillEnds` without `Clogged`, in windows of
  one row). A twin is recognised by its Message-ID header
  (`embeddings/repository.py:159-162`), so a twin without one stays a candidate no
  sweep can change. A window full of them keeps `POST /backfill` looping and starves
  the rows behind it (`Starved`); `embeddings/repository.py:235-238` says its loop
  cannot "spin forever".

Others were met while modelling; the models show them when the line given is
added as a property, or the constant changed:

* Pipeline. A run that lost its claim still writes its trace
  (`[][trace' # trace => trace'.by = claimedBy[run]]_runVars` fails;
  `pipeline/runner.py:452`). A person's ruling during the model call is not seen
  (`pipeline/runner.py:315`; `database/repository.py:1249` promises otherwise).
* Arrival. The gap pass also runs mail that arrived elsewhere and was moved into
  scope (`enqueue.py:370`, against `:21-28`). An embedding whose workers crashed
  on every attempt stays pending at the cap and blocks its mail for good (`Stuck`;
  `docs/architecture.md:275` says never). A twin in scope of a mail whose other
  copy lies out of scope gets no run (`HeldByTwin`). A gap that swallows the
  folder's one `sync_complete` leaves the folder without a watermark for good,
  and none of its mail is ever eligible (`enqueue.py:375`).
* Manager. Overlapping set_state calls for one queue may apply in the other order
  than they committed (`excused`); the budget counts targets, so draining
  tasks come on top of it (the sum of `Tasks(q)` exceeds `Budget`); a
  queue clamped at start is not raised when room appears, until restart or request.
* Stream. With `KeepsUp = FALSE` `NothingSkipped` fails: in the live loop nothing
  checks whether the ring still reaches back to `last_seen` (`api/events.py:278`).
  With `Filter` one account, `WaitsOnlyWhenNothingNew` and `EventuallyCaughtUp`
  fail: `replay_from` answers "nothing" whenever the account's oldest event is
  newer than `last_seen` (`api/event_ring.py:144`), which on a fresh connection
  to a quiet account is its very first event, so the loop waits on news it has
  (`api/events.py:278`).
* Webhooks. A crash between `fail()` and the alert silences the failure
  (`silenced`; `webhooks/worker.py:181`).
* Breaker. `record_backoff` by a late call turns a suspension into a timed
  back-off, which then clears by time alone (`queue/circuit.py:138`, against
  `:149-155`), and the next suspension of the same outage is announced again.
* Glacier. A move repeated while the copy is "verified" takes the duplicate
  branch, which never sets `visible_at`; `reresolve_origins` finalises the copy
  all the same (`glacier/operations.py:768`), and the mail is in no list
  (`InSomeList` fails; `database/models.py:922-924`). If the delete fails, the
  move is repeated and the *second* delete lands, the copy stays "removing" and
  cannot be restored. `reresolve_origins` and `expunge_if_matches` compare
  envelopes, not hashes, so a twin of other bytes is taken for the original; two
  overlapping `start_restore` append twice.
* Orders, texts. An edit that finds a rewrite pending queues none; if that
  rewrite is claimed and reads the order before the edit commits, the text is
  never rewritten (`excuse = "raced"`; `delete_file` in `api/orders.py` promises
  otherwise). A file that is attached by one worker and marked failed by a late
  one leaves the order's items with no rewrite (`excuse = "outrun"`). A pending
  write at the attempts cap is never claimed, so the order is never rewritten
  again: `enqueue_write_job`, and with it a person's rewrite, is a no-op on it.
  The answer of one write clears `text_stale` while the next is owed, so the
  automatic close may come before the owed text. A crash between `fail()` and
  its settlement leaves the order without text, or the file pending.
* Orders, items. A mail attached to the source of a merge between the merge's
  UPDATE of `order_mails` and its DELETE of the order goes with the order
  (`Commit`), though every mail is to move to the target. When the order a file
  was meant for is merged or deleted during the model call, the worker is done
  with the job and the file stays pending for good (`SkipFile`;
  `orders/worker.py:551`), and an upload of the same bytes answers with that copy.
  A crash between the handler's commit and `complete()`, followed by a person's
  detach, lets the same job attach the mail again (`reopened`), and so does a late
  worker that marks a file failed while its job is unfinished. `prune_failed_files`
  recounts nothing, so an order may live on with nothing in it.

## 7. Abstractions worth knowing

* `WorkerLoop` uses a worker id again once its task is over and no row names it;
  the code's ids are fresh, and nobody could tell the difference.
* Wake-ups of `queue/notify.py` are hints beside polling and are left out; so
  are advisory locks around timers, whose effect is that the timer's action is a
  step of one process.
* `PipelineRun` and `WebhookDelivery` follow one row. Rows of a queue meet only
  in the claim, which `worker_loop` checks.
* `SendLifecycle` has neither texts nor attachments; a client that repeats a key
  with another text gets the first row, as in the code.
* `UsageExport` has one pass at a time and takes `now()` and the rows of a batch in
  one step; in the code the rows are read a moment after `now()`, which only makes
  more of them young.
* `MailAction` does not excuse a store that outlasts the stale limit: with the
  heartbeat stopped the claim may be taken over, which `AppliedOnce` counts among
  the requests broken off. It follows one key and the two actions that file; flags, tags,
  archive and trash write through the same guarded statements, conversations and
  saved selections only widen the set of mails.
* `OrderBook` has one edit in progress at a time, no accounts and no sealed
  orders; the thread follow-up and the catch-up, which use their own msg_key
  expressions (`orders/intake.py`, `catch_up.py`), are one `QueueMail`.
* `ArrivalGate` has one embedding model, no drafts and no glacier rows.
* `GlacierMove` leaves out where tags, verdicts and embeddings point, thread
  repair, flags of a copy, and the union of listings.
* `SQLAlchemy` sessions, retries of the driver, and Postgres failover are
  outside all modules: a statement happens or the process dies.

## 8. Not modelled

| Part | Why |
|---|---|
| Calendar intake and replies, settings and revisions, other alerts and push, switch of the embedding model | planned (section 3) |
| Retention and filing sweeps | one guarded statement per row |
| HTTP routes, MCP tools, search, unified views, statistics | reads and single statements over the components above |
| Rule conditions, sanitizers, msg_key, parsing of mail, iCalendar and vCard | pure functions of data; unit tests reach them better |
| PostIMAP, the provider, browsers | external; modelled only as far as this code relies on them |
| Web UI, charts, migrations | presentation and deployment |
