--------------------------- MODULE WorkQueueProofs ---------------------------
(***************************************************************************)
(* Proofs about the work queue, for every table, every set of workers and  *)
(* every bound.  The inductive invariant is IInv: a lost lease stays       *)
(* charged only because a claim that ends was charged when it began, which *)
(* needs the columns of a claim to agree.                                  *)
(***************************************************************************)
EXTENDS WorkQueue, TLAPS

IInv == TypeOK /\ ClaimColumnsAgree /\ LostLeasesStayCharged

\* What ending the claims of H with status s does to the typed columns.
LEMMA UnclaimType ==
    ASSUME TypeOK, NEW H \in SUBSET Items,
           NEW s \in {"pending", "claimed"} \cup Terminal, Unclaim(H, s)
    PROVE  /\ status' \in [Items -> {"pending", "claimed"} \cup Terminal]
           /\ claimedBy' \in [Items -> Workers \cup {NoWorker}]
           /\ lease' \in [Items -> Expired..LeaseTicks]
    BY WorkQueueAssumption DEF TypeOK, Unclaim, Expired

\* Ending claims keeps status, claimant and lease of every row in step.
LEMMA UnclaimAgrees ==
    ASSUME TypeOK, ClaimColumnsAgree, NEW H \in SUBSET Items,
           NEW s \in {"pending"} \cup Terminal, Unclaim(H, s)
    PROVE  ClaimColumnsAgree'
    BY WorkQueueAssumption DEF TypeOK, ClaimColumnsAgree, Unclaim, Expired, Terminal

\* A fresh table satisfies the invariant.
LEMMA InitIInv == Init => IInv
    BY WorkQueueAssumption
       DEF Init, IInv, TypeOK, ClaimColumnsAgree, LostLeasesStayCharged, Expired, Terminal

\* One step of the worker w keeps the invariant.
LEMMA CallerKeepsIInv ==
    ASSUME IInv, NEW w \in Workers, CallerStep(w)
    PROVE  IInv'
<1> USE WorkQueueAssumption DEF IInv
<1>1. ASSUME NEW C \in SUBSET Items, ClaimBatch(w, C) PROVE IInv'
    <2>1. \A i \in C : status[i] = "pending" /\ attempts[i] < MaxAttempts
        BY <1>1 DEF ClaimBatch, Batch, Claimable
    <2>2. TypeOK'
        BY <1>1, <2>1 DEF ClaimBatch, TypeOK, Expired
    <2>3. ClaimColumnsAgree'
        BY <1>1, <2>1 DEF ClaimBatch, TypeOK, ClaimColumnsAgree, Expired
    <2>4. LostLeasesStayCharged'
        BY <1>1, <2>1 DEF ClaimBatch, TypeOK, LostLeasesStayCharged
    <2> QED BY <2>2, <2>3, <2>4
<1>2. ASSUME NEW H \in SUBSET Items, Heartbeat(w, H) PROVE IInv'
    <2>1. TypeOK'
        BY <1>2 DEF Heartbeat, TypeOK, Expired
    <2>2. ClaimColumnsAgree'
        BY <1>2 DEF Heartbeat, Owned, TypeOK, ClaimColumnsAgree
    <2>3. LostLeasesStayCharged'
        BY <1>2 DEF Heartbeat, LostLeasesStayCharged
    <2> QED BY <2>1, <2>2, <2>3
<1>3. ASSUME NEW i \in Items, Complete(w, i) \/ Fail(w, i) PROVE IInv'
    <2>1. PICK s \in Terminal : Unclaim({i}, s)
        BY <1>3 DEF Complete, Fail, Terminal
    <2>2. UNCHANGED <<attempts, wait, expiries>>
        BY <1>3 DEF Complete, Fail
    <2>3. TypeOK'
        BY <2>1, <2>2, UnclaimType DEF TypeOK
    <2>4. ClaimColumnsAgree'
        BY <2>1, UnclaimAgrees
    <2>5. LostLeasesStayCharged'
        BY <2>1, <2>2 DEF Unclaim, TypeOK, LostLeasesStayCharged, Terminal
    <2> QED BY <2>3, <2>4, <2>5
<1>4. ASSUME NEW i \in Items, NEW delay \in 0..MaxWait, Retry(w, i, delay) PROVE IInv'
    <2>1. TypeOK'
        BY <1>4, UnclaimType DEF Retry, TypeOK
    <2>2. ClaimColumnsAgree'
        BY <1>4, UnclaimAgrees DEF Retry
    <2>3. LostLeasesStayCharged'
        BY <1>4 DEF Retry, Unclaim, TypeOK, LostLeasesStayCharged
    <2> QED BY <2>1, <2>2, <2>3
<1>5. ASSUME NEW i \in Items, ReleaseUntouched(w, i) PROVE IInv'
    <2>1. TypeOK'
        BY <1>5, UnclaimType DEF ReleaseUntouched, Refunded, TypeOK
    <2>2. ClaimColumnsAgree'
        BY <1>5, UnclaimAgrees DEF ReleaseUntouched
    <2>3. LostLeasesStayCharged'
        BY <1>5 DEF ReleaseUntouched, Refunded, Owned, Unclaim, TypeOK, LostLeasesStayCharged
    <2> QED BY <2>1, <2>2, <2>3
<1>6. CASE ReleaseAllClaims(w)
    <2>1. Owned(w) \in SUBSET Items
        BY DEF Owned
    <2>2. TypeOK'
        BY <1>6, <2>1, UnclaimType DEF ReleaseAllClaims, Refunded, TypeOK
    <2>3. ClaimColumnsAgree'
        BY <1>6, <2>1, UnclaimAgrees DEF ReleaseAllClaims
    <2>4. LostLeasesStayCharged'
        BY <1>6 DEF ReleaseAllClaims, Refunded, Owned, Unclaim, TypeOK, LostLeasesStayCharged
    <2> QED BY <2>2, <2>3, <2>4
<1> QED BY <1>1, <1>2, <1>3, <1>4, <1>5, <1>6 DEF CallerStep

\* Every step of the queue keeps the invariant.
LEMMA NextKeepsIInv == IInv /\ [Next]_queueVars => IInv'
<1> SUFFICES ASSUME IInv, [Next]_queueVars PROVE IInv'
    OBVIOUS
<1> USE WorkQueueAssumption
<1>1. ASSUME NEW w \in Workers, CallerStep(w) PROVE IInv'
    BY <1>1, CallerKeepsIInv
<1>2. CASE ReclaimExpired
    <2>1. Overdue \in SUBSET Items
        BY DEF Overdue
    <2>2. TypeOK'
        <3>1. expiries' \in [Items -> Nat] /\ UNCHANGED <<attempts, wait>>
            BY <1>2 DEF ReclaimExpired, IInv, TypeOK
        <3> QED BY <1>2, <2>1, <3>1, UnclaimType DEF ReclaimExpired, IInv, TypeOK
    <2>3. ClaimColumnsAgree'
        BY <1>2, <2>1, UnclaimAgrees DEF ReclaimExpired, IInv
    <2>4. LostLeasesStayCharged'
        BY <1>2 DEF ReclaimExpired, Overdue, Unclaim, IInv, TypeOK, LostLeasesStayCharged
    <2> QED BY <2>2, <2>3, <2>4 DEF IInv
<1>3. CASE Tick
    <2>1. TypeOK'
        BY <1>3 DEF Tick, IInv, TypeOK, Expired
    <2>2. ClaimColumnsAgree' /\ LostLeasesStayCharged'
        BY <1>3 DEF Tick, IInv, TypeOK, ClaimColumnsAgree, LostLeasesStayCharged, Expired
    <2> QED BY <2>1, <2>2 DEF IInv
<1>4. CASE UNCHANGED queueVars
    BY <1>4 DEF queueVars, IInv, TypeOK, ClaimColumnsAgree, LostLeasesStayCharged
<1> QED BY <1>1, <1>2, <1>3, <1>4 DEF Next

\* The invariant holds in every reachable state.
THEOREM Invariant == Spec => []IInv
    BY InitIInv, NextKeepsIInv, PTL DEF Spec

\* Every column stays in its type, attempts within 0..MaxAttempts included:
\* claim_batch's cap and the refunds can never push it out.
THEOREM TypeCorrect == Spec => []TypeOK
    BY Invariant, PTL DEF IInv

\* Status, claimant and lease of a row agree after every statement.
THEOREM ColumnsAgree == Spec => []ClaimColumnsAgree
    BY Invariant, PTL DEF IInv

\* claim_batch's poison-pill promise: a row is taken back from a silent worker
\* at most MaxAttempts times.
THEOREM PoisonPill == Spec => []PoisonPillBounded
<1>1. IInv => PoisonPillBounded
    BY WorkQueueAssumption DEF IInv, TypeOK, LostLeasesStayCharged, PoisonPillBounded
<1> QED BY <1>1, Invariant, PTL

\* complete and fail: a recorded outcome never changes, whatever a worker
\* that lost its claim still calls.
THEOREM FinalOutcome == Spec => OutcomeIsFinal
<1>1. IInv /\ [Next]_queueVars
          => [\A i \in Items : status[i] \in Terminal => status'[i] = status[i]]_status
    <2> SUFFICES ASSUME IInv, [Next]_queueVars,
                        NEW i \in Items, status[i] \in Terminal
                 PROVE  status'[i] = status[i]
        OBVIOUS
    <2> USE DEF IInv, TypeOK, Terminal
    <2>1. ASSUME NEW w \in Workers, CallerStep(w) PROVE status'[i] = status[i]
        BY <2>1 DEF CallerStep, ClaimBatch, Batch, Claimable, Heartbeat, Complete, Fail, Retry,
                    ReleaseUntouched, ReleaseAllClaims, Owned, Unclaim
    <2>2. CASE ReclaimExpired
        BY <2>2 DEF ReclaimExpired, Overdue, Unclaim
    <2>3. CASE Tick \/ UNCHANGED queueVars
        BY <2>3 DEF Tick, queueVars
    <2> QED BY <2>1, <2>2, <2>3 DEF Next
<1> QED BY <1>1, Invariant, PTL DEF Spec, OutcomeIsFinal

\* reclaim_expired and the claimed_by guards: while a lease runs, its claim
\* ends only in a step of its own holder.
THEOREM LeaseHonoured == Spec => LiveLeaseIsHonoured
<1>1. IInv /\ [Next]_queueVars
          => [\A i \in Items :
                 (status[i] = "claimed" /\ lease[i] # Expired /\ claimedBy'[i] # claimedBy[i])
                     => CallerStep(claimedBy[i])]_queueVars
    <2> SUFFICES ASSUME IInv, Next, NEW i \in Items, status[i] = "claimed",
                        lease[i] # Expired, claimedBy'[i] # claimedBy[i]
                 PROVE  CallerStep(claimedBy[i])
        OBVIOUS
    <2> USE DEF IInv, TypeOK
    <2>1. ASSUME NEW w \in Workers, CallerStep(w) PROVE w = claimedBy[i]
        BY <2>1 DEF CallerStep, ClaimBatch, Batch, Claimable, Heartbeat, Complete, Fail, Retry,
                    ReleaseUntouched, ReleaseAllClaims, Owned, Unclaim
    <2>2. CASE ReclaimExpired
        BY <2>2 DEF ReclaimExpired, Overdue, Unclaim
    <2>3. CASE Tick
        BY <2>3 DEF Tick
    <2> QED BY <2>1, <2>2, <2>3 DEF Next
<1> QED BY <1>1, Invariant, PTL DEF Spec, LiveLeaseIsHonoured

------------------------------------------------------------------------------
\* The refinement mapping of WorkQueue.tla, named for the proof.
Settled == {i \in Items : status[i] \in Terminal}
Term == [i \in Items |-> lease[i] # Expired]

\* Ending the claims of H without an outcome gives H back or evicts it; the
\* other rows keep what they had.
LEMMA UnclaimMapped ==
    ASSUME IInv, NEW H \in SUBSET Items, \A i \in H : status[i] = "claimed",
           Unclaim(H, "pending")
    PROVE  /\ Settled' = Settled
           /\ claimedBy' = [i \in Items |-> IF i \in H THEN NoWorker ELSE claimedBy[i]]
           /\ Term' = [i \in Items |-> IF i \in H THEN FALSE ELSE Term[i]]
<1>1. Settled' = Settled
    BY DEF Settled, Unclaim, Terminal, IInv, TypeOK
<1>2. Term' = [i \in Items |-> IF i \in H THEN FALSE ELSE Term[i]]
    BY DEF Term, Unclaim
<1> QED BY <1>1, <1>2 DEF Unclaim

\* Every call of a worker is a step of the ledger.
LEMMA CallerRefines ==
    ASSUME IInv, NEW w \in Workers, CallerStep(w)
    PROVE  Ledger!LedgerNext \/ UNCHANGED <<Settled, claimedBy, Term>>
<1> USE WorkQueueAssumption DEF IInv
<1> DEFINE LNext == Ledger!LedgerNext
<1>1. ASSUME NEW C \in SUBSET Items, ClaimBatch(w, C) PROVE LNext
    <2>1. \A i \in C : status[i] = "pending"
        BY <1>1 DEF ClaimBatch, Batch, Claimable
    <2>2. \A i \in C : i \notin Settled /\ claimedBy[i] = NoWorker
        BY <2>1 DEF Settled, Terminal, ClaimColumnsAgree
    <2>3. Settled' = Settled
        BY <1>1, <2>1 DEF ClaimBatch, Settled, Terminal, TypeOK
    <2>4. Term' = [i \in Items |-> IF i \in C THEN TRUE ELSE Term[i]]
        <3>1. LeaseTicks # Expired
            BY DEF Expired
        <3>2. lease' = [i \in Items |-> IF i \in C THEN LeaseTicks ELSE lease[i]]
            BY <1>1 DEF ClaimBatch
        <3> QED BY <3>1, <3>2, Zenon DEF Term
    <2>5. Ledger!Take(w, C)
        BY <1>1, <2>2, <2>3, <2>4
           DEF Ledger!Take, Ledger!Free, Settled, Term, ClaimBatch
    <2> QED BY <2>5 DEF Ledger!LedgerNext
<1>2. ASSUME NEW H \in SUBSET Items, Heartbeat(w, H) PROVE LNext
    <2>1. Term' = [i \in Items |-> IF i \in H THEN TRUE ELSE Term[i]]
        <3>1. LeaseTicks # Expired
            BY DEF Expired
        <3>2. lease' = [i \in Items |-> IF i \in H THEN LeaseTicks ELSE lease[i]]
            BY <1>2 DEF Heartbeat
        <3> QED BY <3>1, <3>2, Zenon DEF Term
    <2>2. \A i \in H : claimedBy[i] = w
        BY <1>2 DEF Heartbeat, Owned
    <2>3. Settled' = Settled
        BY <1>2 DEF Heartbeat, Settled
    <2>4. Ledger!Renew(w, H)
        BY <1>2, <2>1, <2>2, <2>3 DEF Ledger!Renew, Settled, Term, Heartbeat
    <2> QED BY <2>4 DEF Ledger!LedgerNext
<1>3. ASSUME NEW i \in Items, Complete(w, i) \/ Fail(w, i) PROVE LNext
    <2>1. PICK s \in Terminal : Unclaim({i}, s)
        BY <1>3 DEF Complete, Fail, Terminal
    <2>2. claimedBy[i] = w
        BY <1>3 DEF Complete, Fail, Owned
    <2>3. Settled' = Settled \cup {i}
        BY <2>1 DEF Unclaim, Settled, TypeOK
    <2>4. claimedBy' = [claimedBy EXCEPT ![i] = NoWorker]
        <3>1. claimedBy' = [j \in Items |-> IF j \in {i} THEN NoWorker ELSE claimedBy[j]]
            BY <2>1 DEF Unclaim
        <3> QED BY <3>1 DEF TypeOK
    <2>5. Term' = [Term EXCEPT ![i] = FALSE]
        <3>1. lease' = [j \in Items |-> IF j \in {i} THEN Expired ELSE lease[j]]
            BY <2>1 DEF Unclaim
        <3> QED BY <3>1 DEF Term
    <2>6. Ledger!Settle(w, i)
        BY <2>2, <2>3, <2>4, <2>5 DEF Ledger!Settle, Settled, Term
    <2> QED BY <2>6 DEF Ledger!LedgerNext
<1>4. ASSUME NEW H \in SUBSET Items, H \subseteq Owned(w), Unclaim(H, "pending")
      PROVE  LNext
    <2>1. \A i \in H : status[i] = "claimed" /\ claimedBy[i] = w
        BY <1>4 DEF Owned
    <2>2. Ledger!GiveBack(w, H)
        BY <1>4, <2>1, UnclaimMapped DEF Ledger!GiveBack, Settled, Term
    <2> QED BY <2>2 DEF Ledger!LedgerNext
<1>5. ASSUME NEW i \in Items, NEW delay \in 0..MaxWait, Retry(w, i, delay) PROVE LNext
    BY <1>5, <1>4 DEF Retry
<1>6. ASSUME NEW i \in Items, ReleaseUntouched(w, i) PROVE LNext
    BY <1>6, <1>4 DEF ReleaseUntouched
<1>7. CASE ReleaseAllClaims(w)
    <2>1. Owned(w) \in SUBSET Items
        BY DEF Owned
    <2> QED BY <1>7, <2>1, <1>4 DEF ReleaseAllClaims
<1> QED BY <1>1, <1>2, <1>3, <1>5, <1>6, <1>7 DEF CallerStep

\* The engine implements LeaseLedger: nobody but the holder ends a running
\* hold, only holds that ran out are evicted, and what is settled stays so.
THEOREM Refinement == Spec => ImplementsLedger
<1>1. Init => Ledger!LedgerInit
    BY DEF Init, Ledger!LedgerInit, Terminal, Expired
<1>2. IInv /\ [Next]_queueVars => [Ledger!LedgerNext]_(Ledger!ledgerVars)
    <2> SUFFICES ASSUME IInv, [Next]_queueVars
                 PROVE  Ledger!LedgerNext \/ UNCHANGED <<Settled, claimedBy, Term>>
        BY DEF Ledger!ledgerVars, Settled, Term
    <2>1. ASSUME NEW w \in Workers, CallerStep(w)
          PROVE  Ledger!LedgerNext \/ UNCHANGED <<Settled, claimedBy, Term>>
        BY <2>1, CallerRefines
    <2>2. CASE ReclaimExpired
        <3>1. Overdue \in SUBSET Items /\ \A i \in Overdue : status[i] = "claimed"
            BY DEF Overdue
        <3>2. \A i \in Overdue : claimedBy[i] # NoWorker /\ ~Term[i]
            BY <3>1 DEF Overdue, Term, IInv, ClaimColumnsAgree
        <3>3. /\ Settled' = Settled
              /\ claimedBy' = [i \in Items |-> IF i \in Overdue THEN NoWorker ELSE claimedBy[i]]
              /\ Term' = [i \in Items |-> IF i \in Overdue THEN FALSE ELSE Term[i]]
            BY <2>2, <3>1, UnclaimMapped DEF ReclaimExpired
        <3>4. Term' = Term
            BY <3>2, <3>3 DEF Term
        <3>5. Ledger!Evict(Overdue)
            BY <3>1, <3>2, <3>3, <3>4 DEF Ledger!Evict, Settled, Term
        <3> QED BY <3>1, <3>5 DEF Ledger!LedgerNext
    <2>3. CASE Tick
        <3>1. PICK E \in SUBSET Items : E = {i \in Items : lease[i] = 0}
            OBVIOUS
        <3>2. Term' = [i \in Items |-> IF i \in E THEN FALSE ELSE Term[i]]
            <4>1. \A i \in Items : (lease'[i] # Expired) <=> (i \notin E /\ lease[i] # Expired)
                BY <2>3, <3>1 DEF Tick, Expired, IInv, TypeOK
            <4> QED BY <4>1, Zenon DEF Term
        <3>3. Settled' = Settled /\ claimedBy' = claimedBy
            BY <2>3 DEF Tick, Settled
        <3>4. Ledger!RunOut(E)
            BY <3>2, <3>3 DEF Ledger!RunOut, Settled, Term
        <3> QED BY <3>4 DEF Ledger!LedgerNext
    <2>4. CASE UNCHANGED queueVars
        BY <2>4 DEF queueVars, Settled, Term
    <2> QED BY <2>1, <2>2, <2>3, <2>4 DEF Next
<1> QED BY <1>1, <1>2, Invariant, PTL DEF Spec, ImplementsLedger, Ledger!LedgerSpec
==============================================================================
