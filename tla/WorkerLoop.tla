------------------------------ MODULE WorkerLoop ------------------------------
(***************************************************************************)
(* default_worker_loop of mail_verdict/queue/worker_loop.py: claim a batch,*)
(* hand its rows over one after the other under a heartbeat, release the   *)
(* rest when asked to stop, exit.  The workers share one WorkQueue, and    *)
(* each of them acts on what its claim returned, however stale that is.    *)
(*                                                                         *)
(* Worker ids are fresh for every worker the supervisor spawns.  To stay   *)
(* finite the model uses an id again once its worker is over and no row    *)
(* names it, when nobody can tell it from a fresh one.                     *)
(***************************************************************************)
EXTENDS WorkQueue

CONSTANTS
    NoItem,
    Prompt          \* workers whose heartbeats and hand-overs are never late

ASSUME LoopAssumption ==
    /\ IsFiniteSet(Items)
    /\ NoItem \notin Items
    /\ Prompt \subseteq Workers

VARIABLES
    phase,          \* phase[w]: where worker w's task is
    todo,           \* todo[w]: rows of w's batch not yet handed over
    cur,            \* cur[w]: the row w's handler works on
    lost,           \* history: rows of w's batch that were reclaimed from it
    single          \* history: w's last claim returned one row

loopVars == <<phase, todo, cur, lost, single>>
vars == <<queueVars, loopVars>>

Phases == {"off", "running", "stopping", "exited", "dead"}

LoopTypeOK ==
    /\ TypeOK
    /\ phase \in [Workers -> Phases]
    /\ todo \in [Workers -> SUBSET Items]
    /\ cur \in [Workers -> Items \cup {NoItem}]
    /\ lost \in [Workers -> SUBSET Items]
    /\ single \in [Workers -> BOOLEAN]

LoopInit ==
    /\ Init
    /\ phase = [w \in Workers |-> "off"]
    /\ todo = [w \in Workers |-> {}]
    /\ cur = [w \in Workers |-> NoItem]
    /\ lost = [w \in Workers |-> {}]
    /\ single = [w \in Workers |-> FALSE]

Alive(w) == phase[w] \in {"running", "stopping"}
InHand(w) == todo[w] \cup ({cur[w]} \ {NoItem})

------------------------------------------------------------------------------
\* supervisor._spawn_one: a worker under an id no row and no task carries.
Spawn(w) ==
    /\ ~Alive(w)
    /\ \A i \in Items : claimedBy[i] # w
    /\ phase' = [phase EXCEPT ![w] = "running"]
    /\ UNCHANGED <<queueVars, todo, cur, lost, single>>

\* Setting a worker's stop_event: a lower target, or shutdown.
RequestStop(w) ==
    /\ phase[w] = "running"
    /\ phase' = [phase EXCEPT ![w] = "stopping"]
    /\ UNCHANGED <<queueVars, todo, cur, lost, single>>

\* Mutant: the loop claims again while rows of the last batch are left.
LoopClaimEarly(w) ==
    /\ phase[w] = "running"
    /\ cur[w] = NoItem
    /\ \E C \in SUBSET Items :
          /\ ClaimBatch(w, C)
          /\ todo' = [todo EXCEPT ![w] = @ \cup C]
          /\ single' = [single EXCEPT ![w] = Cardinality(C) = 1]
    /\ UNCHANGED <<phase, cur, lost>>

\* The head of the while loop.
LoopClaim(w) ==
    /\ phase[w] = "running"
    /\ InHand(w) = {}
    /\ \E C \in SUBSET Items :
          /\ ClaimBatch(w, C)
          /\ todo' = [todo EXCEPT ![w] = C]
          /\ single' = [single EXCEPT ![w] = Cardinality(C) = 1]
    /\ UNCHANGED <<phase, cur, lost>>

\* for row in claimed: handle_item(row) under heartbeat_while.
HandOver(w) ==
    /\ phase[w] = "running"
    /\ cur[w] = NoItem
    /\ \E i \in todo[w] :
          /\ cur' = [cur EXCEPT ![w] = i]
          /\ todo' = [todo EXCEPT ![w] = @ \ {i}]
    /\ UNCHANGED <<queueVars, phase, lost, single>>

\* for row in claimed, once stop_event is set: give the row back.  On a row
\* lost meanwhile the statement matches nothing.
GiveBackRest(w) ==
    /\ phase[w] = "stopping"
    /\ cur[w] = NoItem
    /\ \E i \in todo[w] :
          /\ IF i \in Owned(w) THEN ReleaseUntouched(w, i) ELSE UNCHANGED queueVars
          /\ todo' = [todo EXCEPT ![w] = @ \ {i}]
          /\ lost' = [lost EXCEPT ![w] = @ \ {i}]
    /\ UNCHANGED <<phase, cur, single>>

\* Mutant: a row is retried once more after its last attempt.
LeaveRowOffByOne(w, i) ==
    \/ Complete(w, i)
    \/ Fail(w, i)
    \/ attempts[i] <= MaxAttempts /\ \E delay \in 0..MaxWait : Retry(w, i, delay)
    \/ ReleaseUntouched(w, i)

\* The call a handler leaves its row with: done, failed for good, retried
\* while attempts are left, or handed back because the provider is down.
LeaveRow(w, i) ==
    \/ Complete(w, i)
    \/ Fail(w, i)
    \/ attempts[i] < MaxAttempts /\ \E delay \in 0..MaxWait : Retry(w, i, delay)
    \/ ReleaseUntouched(w, i)

FinishItem(w) ==
    /\ cur[w] # NoItem
    /\ Alive(w)
    /\ IF cur[w] \in Owned(w) THEN LeaveRow(w, cur[w]) ELSE UNCHANGED queueVars
    /\ cur' = [cur EXCEPT ![w] = NoItem]
    /\ lost' = [lost EXCEPT ![w] = @ \ {cur[w]}]
    /\ UNCHANGED <<phase, todo, single>>

\* heartbeat_while renews the row in hand and only that one.
Beat(w) ==
    /\ Alive(w)
    /\ cur[w] \in Owned(w)
    /\ Heartbeat(w, {cur[w]})
    /\ UNCHANGED loopVars

Exit(w) ==
    /\ phase[w] = "stopping"
    /\ InHand(w) = {}
    /\ phase' = [phase EXCEPT ![w] = "exited"]
    /\ UNCHANGED <<queueVars, todo, cur, lost, single>>

\* The process dies, or an exception ends the worker's task: whatever it
\* held stays claimed in the table.
Die(w) ==
    /\ Alive(w)
    /\ phase' = [phase EXCEPT ![w] = "dead"]
    /\ todo' = [todo EXCEPT ![w] = {}]
    /\ cur' = [cur EXCEPT ![w] = NoItem]
    /\ lost' = [lost EXCEPT ![w] = {}]
    /\ UNCHANGED <<queueVars, single>>

Reclaim ==
    /\ ReclaimExpired
    /\ lost' = [w \in Workers |-> lost[w] \cup (Overdue \cap Owned(w) \cap InHand(w))]
    /\ UNCHANGED <<phase, todo, cur, single>>

\* No tick passes over a heartbeat of a prompt worker that is due, or over a
\* row its loop is about to hand over.
Due(w) ==
    \/ cur[w] \in Owned(w) /\ lease[cur[w]] = 0
    \/ Alive(w) /\ cur[w] = NoItem /\ todo[w] # {}

Time ==
    /\ \A w \in Prompt : ~Due(w)
    /\ Tick
    /\ UNCHANGED loopVars

WorkerStep(w) ==
    \/ LoopClaim(w) \/ HandOver(w) \/ GiveBackRest(w) \/ FinishItem(w) \/ Exit(w)

LoopNext ==
    \/ \E w \in Workers : Spawn(w) \/ RequestStop(w) \/ WorkerStep(w) \/ Beat(w) \/ Die(w)
    \/ Reclaim
    \/ Time

LoopSpec == LoopInit /\ [][LoopNext]_vars

\* The database clock runs, the reconciliation timers run, the supervisor
\* spawns, a running loop runs (a handler returns: every provider call has a
\* timeout).  Heartbeats may all fail.  An outage of the provider ends: a
\* row handled again and again is not handed back untouched every time.
DecideItem(i) ==
    \E w \in Workers :
        /\ cur[w] = i
        /\ FinishItem(w)
        /\ status'[i] \in Terminal \/ wait'[i] > 0

LoopFairness ==
    /\ WF_vars(Time)
    /\ WF_vars(Reclaim)
    /\ \A w \in Workers : WF_vars(Spawn(w)) /\ WF_vars(WorkerStep(w))
    /\ \A i \in Items : SF_vars(DecideItem(i))

LoopFairSpec == LoopSpec /\ LoopFairness

------------------------------------------------------------------------------
\* What a live worker has in hand is what the table says it owns, except for
\* the rows that were reclaimed from it: the loop never forgets a claim, and
\* a lost row never comes back under the same worker while the worker still
\* carries the stale copy.  So complete() answers True only to the run of
\* the claim it belongs to (worker ids fence the results).
HandMatchesTable ==
    \A w \in Workers :
        /\ Alive(w) => Owned(w) = InHand(w) \ lost[w]
        /\ lost[w] \subseteq InHand(w)

\* A graceful stop leaves nothing behind for a lease to wait out: "what makes
\* a rolling restart resume work right away".
CleanExitHoldsNothing ==
    \A w \in Workers : phase[w] = "exited" => Owned(w) = {}

\* worker_loop.py: a larger batch is "safe only when either batch_size is 1"
\* or items are fast: a worker that beats in time never loses the only row of
\* its batch, so nobody runs that row beside it.
NoSecondRun == \A w \in Prompt : single[w] => lost[w] = {}

\* Once operators leave the workers alone and no worker dies any more, every
\* row comes to an outcome, or stays pending only because it used up its
\* attempts on workers that never reported back.
EveryRowEnds ==
    <>[][\A w \in Workers : ~RequestStop(w) /\ ~Die(w)]_vars =>
        \A i \in Items :
            <>[](\/ status[i] \in Terminal
                 \/ status[i] = "pending" /\ attempts[i] = MaxAttempts /\ expiries[i] > 0)
==============================================================================
