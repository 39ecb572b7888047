------------------------------ MODULE WorkQueue ------------------------------
(***************************************************************************)
(* The Postgres work queue of mail_verdict/queue/work_queue.py: one table  *)
(* whose rows are claimed, leased, renewed, and put back or finished.      *)
(* Every public method is one SQL statement in one transaction, so each is *)
(* one action here.  The module is about the engine alone: any worker may  *)
(* call any method with any row at any moment, also long after it lost the *)
(* row -- "every method above is public and a caller may drive it          *)
(* directly" (worker_loop.py).  WorkerLoop adds the loop that calls it.    *)
(*                                                                         *)
(* Time is Postgres' own now(), one clock.  Deadlines are kept as the      *)
(* ticks left until they pass, so no clock value is unbounded:             *)
(*   lease[i] >= 0    lease_expires_at >= now()                            *)
(*   lease[i] = -1    lease_expires_at < now(), or no lease                *)
(*   wait[i]  = 0     next_attempt_at <= now()                             *)
(* next_attempt_at and created_at only order rows of one priority once     *)
(* they are due; the model lets any of those go first.                     *)
(***************************************************************************)
EXTENDS Integers, FiniteSets

CONSTANTS
    Items,          \* rows of the table
    Workers,        \* worker ids; NoWorker is the NULL of claimed_by
    NoWorker,
    Priority,       \* Priority[i]: the row's priority column, lower first
    MaxAttempts,    \* claim_batch's max_attempts
    BatchSize,      \* claim_batch's batch_size
    LeaseTicks,     \* lease_seconds
    MaxWait         \* bound: the longest delay retry is given

ASSUME WorkQueueAssumption ==
    /\ NoWorker \notin Workers
    /\ Priority \in [Items -> Int]
    /\ MaxAttempts \in Nat \ {0}
    /\ BatchSize \in Nat \ {0}
    /\ LeaseTicks \in Nat
    /\ MaxWait \in Nat

VARIABLES
    status,         \* the status column
    claimedBy,      \* claimed_by
    lease,          \* ticks until lease_expires_at
    attempts,       \* attempts
    wait,           \* ticks until next_attempt_at
    expiries        \* history: how often reclaim_expired took row i back

queueVars == <<status, claimedBy, lease, attempts, wait, expiries>>

Terminal == {"done", "failed"}
Expired == -1

TypeOK ==
    /\ status \in [Items -> {"pending", "claimed"} \cup Terminal]
    /\ claimedBy \in [Items -> Workers \cup {NoWorker}]
    /\ lease \in [Items -> Expired..LeaseTicks]
    /\ attempts \in [Items -> 0..MaxAttempts]
    /\ wait \in [Items -> 0..MaxWait]
    /\ expiries \in [Items -> Nat]

Init ==
    /\ status = [i \in Items |-> "pending"]
    /\ claimedBy = [i \in Items |-> NoWorker]
    /\ lease = [i \in Items |-> Expired]
    /\ attempts = [i \in Items |-> 0]
    /\ wait = [i \in Items |-> 0]
    /\ expiries = [i \in Items |-> 0]

------------------------------------------------------------------------------
\* The columns a row gets when its claim ends with status s.
Unclaim(H, s) ==
    /\ status' = [i \in Items |-> IF i \in H THEN s ELSE status[i]]
    /\ claimedBy' = [i \in Items |-> IF i \in H THEN NoWorker ELSE claimedBy[i]]
    /\ lease' = [i \in Items |-> IF i \in H THEN Expired ELSE lease[i]]

\* WHERE status = 'claimed' AND claimed_by = :worker_id
Owned(w) == {i \in Items : status[i] = "claimed" /\ claimedBy[i] = w}

Claimable ==
    {i \in Items : status[i] = "pending" /\ wait[i] = 0 /\ attempts[i] < MaxAttempts}

\* ORDER BY priority LIMIT :batch_size over the claimable rows.
Batch(C) ==
    /\ C \subseteq Claimable
    /\ Cardinality(C) <= BatchSize
    /\ \A i \in Claimable \ C :
          /\ Cardinality(C) = BatchSize
          /\ \A c \in C : Priority[c] <= Priority[i]

ClaimBatch(w, C) ==
    /\ C # {}
    /\ Batch(C)
    /\ status' = [i \in Items |-> IF i \in C THEN "claimed" ELSE status[i]]
    /\ claimedBy' = [i \in Items |-> IF i \in C THEN w ELSE claimedBy[i]]
    /\ lease' = [i \in Items |-> IF i \in C THEN LeaseTicks ELSE lease[i]]
    /\ attempts' = [i \in Items |-> IF i \in C THEN attempts[i] + 1 ELSE attempts[i]]
    /\ UNCHANGED <<wait, expiries>>

Heartbeat(w, H) ==
    /\ H \subseteq Owned(w)
    /\ lease' = [i \in Items |-> IF i \in H THEN LeaseTicks ELSE lease[i]]
    /\ UNCHANGED <<status, claimedBy, attempts, wait, expiries>>

Complete(w, i) ==
    /\ i \in Owned(w)
    /\ Unclaim({i}, "done")
    /\ UNCHANGED <<attempts, wait, expiries>>

Fail(w, i) ==
    /\ i \in Owned(w)
    /\ Unclaim({i}, "failed")
    /\ UNCHANGED <<attempts, wait, expiries>>

Retry(w, i, delay) ==
    /\ i \in Owned(w)
    /\ Unclaim({i}, "pending")
    /\ wait' = [wait EXCEPT ![i] = delay]
    /\ UNCHANGED <<attempts, expiries>>

\* GREATEST(attempts - 1, 0)
Refunded(n) == IF n > 0 THEN n - 1 ELSE 0

ReleaseUntouched(w, i) ==
    /\ i \in Owned(w)
    /\ Unclaim({i}, "pending")
    /\ attempts' = [attempts EXCEPT ![i] = Refunded(attempts[i])]
    /\ UNCHANGED <<wait, expiries>>

ReleaseAllClaims(w) ==
    /\ Unclaim(Owned(w), "pending")
    /\ attempts' = [i \in Items |->
                       IF i \in Owned(w) THEN Refunded(attempts[i]) ELSE attempts[i]]
    /\ UNCHANGED <<wait, expiries>>

\* Mutant: a lease counts as expired in its last tick.
OverdueTooEarly == {i \in Items : status[i] = "claimed" /\ lease[i] <= 0}

Overdue == {i \in Items : status[i] = "claimed" /\ lease[i] = Expired}

\* Mutant: the attempt of a lost lease is refunded.
ReclaimWithRefund ==
    /\ Overdue # {}
    /\ Unclaim(Overdue, "pending")
    /\ expiries' = [i \in Items |-> IF i \in Overdue THEN expiries[i] + 1 ELSE expiries[i]]
    /\ attempts' = [i \in Items |-> IF i \in Overdue THEN Refunded(attempts[i]) ELSE attempts[i]]
    /\ UNCHANGED wait

ReclaimExpired ==
    /\ Overdue # {}
    /\ Unclaim(Overdue, "pending")
    /\ expiries' = [i \in Items |-> IF i \in Overdue THEN expiries[i] + 1 ELSE expiries[i]]
    /\ UNCHANGED <<attempts, wait>>

\* now() moves on by one tick.
Tick ==
    /\ lease' = [i \in Items |-> IF lease[i] > Expired THEN lease[i] - 1 ELSE Expired]
    /\ wait' = [i \in Items |-> IF wait[i] > 0 THEN wait[i] - 1 ELSE 0]
    /\ UNCHANGED <<status, claimedBy, attempts, expiries>>

CallerStep(w) ==
    \/ \E C \in SUBSET Items : ClaimBatch(w, C)
    \/ \E H \in SUBSET Items : Heartbeat(w, H)
    \/ \E i \in Items : Complete(w, i)
    \/ \E i \in Items : Fail(w, i)
    \/ \E i \in Items, delay \in 0..MaxWait : Retry(w, i, delay)
    \/ \E i \in Items : ReleaseUntouched(w, i)
    \/ ReleaseAllClaims(w)

Next ==
    \/ \E w \in Workers : CallerStep(w)
    \/ ReclaimExpired
    \/ Tick

Spec == Init /\ [][Next]_queueVars

------------------------------------------------------------------------------
\* A row has a claimant exactly while its status is 'claimed', and only a
\* claimed row carries a lease: the three columns are written by seven
\* different statements and every one of them must keep them in step.
ClaimColumnsAgree ==
    \A i \in Items :
        /\ (status[i] = "claimed") <=> (claimedBy[i] # NoWorker)
        /\ lease[i] # Expired => status[i] = "claimed"

\* claim_batch: "a row that kills its worker every time still exhausts its
\* attempts rather than looping forever".  However claims, refunds and lost
\* leases interleave, a lost lease is never refunded: a row is taken back
\* from a silent worker at most MaxAttempts times, the claim it is under now
\* included.
PoisonPillBounded ==
    \A i \in Items :
        expiries[i] + (IF status[i] = "claimed" THEN 1 ELSE 0) <= MaxAttempts

\* The inductive form: every lost lease, and the claim in force, is still
\* charged to the row.
LostLeasesStayCharged ==
    \A i \in Items :
        expiries[i] + (IF status[i] = "claimed" THEN 1 ELSE 0) <= attempts[i]

\* complete/fail return False to a worker whose claim was reclaimed: whatever
\* a worker that lost its row still calls, a recorded outcome never changes.
OutcomeIsFinal ==
    [][\A i \in Items : status[i] \in Terminal => status'[i] = status[i]]_status

\* A claim whose lease still runs cannot be taken from its holder: it ends
\* only in a step that holder itself takes.
LiveLeaseIsHonoured ==
    [][\A i \in Items :
          (status[i] = "claimed" /\ lease[i] # Expired /\ claimedBy'[i] # claimedBy[i])
              => CallerStep(claimedBy[i])]_queueVars

\* The engine keeps the promise of LeaseLedger.
Ledger == INSTANCE LeaseLedger WITH
              settled <- {i \in Items : status[i] \in Terminal},
              holder <- claimedBy,
              term <- [i \in Items |-> lease[i] # Expired]
ImplementsLedger == Ledger!LedgerSpec
==============================================================================
