----------------------------- MODULE LeaseLedger -----------------------------
(***************************************************************************)
(* What a work queue promises its callers, with the table, the timers and  *)
(* the attempt counter left out: an item is free, held by one worker, or   *)
(* settled for good.  A hold ends when its own holder settles it or gives  *)
(* it back, or when its term ran out; nothing else ends it.                *)
(***************************************************************************)
CONSTANTS Items,      \* rows of the queue
          Workers,    \* worker ids
          NoWorker    \* the holder of an item nobody holds

VARIABLES
    settled,          \* items whose outcome is recorded
    holder,           \* holder[i]: the worker holding i, or NoWorker
    term              \* term[i]: TRUE while the term of i's hold runs

ledgerVars == <<settled, holder, term>>

LedgerTypeOK ==
    /\ settled \subseteq Items
    /\ holder \in [Items -> Workers \cup {NoWorker}]
    /\ term \in [Items -> BOOLEAN]

LedgerInit ==
    /\ settled = {}
    /\ holder = [i \in Items |-> NoWorker]
    /\ term = [i \in Items |-> FALSE]

Free(i) == i \notin settled /\ holder[i] = NoWorker

\* One worker takes a whole set of free items in one step.
Take(w, C) ==
    /\ \A i \in C : Free(i)
    /\ holder' = [i \in Items |-> IF i \in C THEN w ELSE holder[i]]
    /\ term' = [i \in Items |-> IF i \in C THEN TRUE ELSE term[i]]
    /\ UNCHANGED settled

\* A holder renews: even a term that ran out runs again, as long as nobody
\* ended the hold in between.
Renew(w, H) ==
    /\ \A i \in H : holder[i] = w
    /\ term' = [i \in Items |-> IF i \in H THEN TRUE ELSE term[i]]
    /\ UNCHANGED <<settled, holder>>

\* The terms of some holds run out.
RunOut(H) ==
    /\ term' = [i \in Items |-> IF i \in H THEN FALSE ELSE term[i]]
    /\ UNCHANGED <<settled, holder>>

\* A worker gives back items it holds.
GiveBack(w, H) ==
    /\ \A i \in H : holder[i] = w
    /\ holder' = [i \in Items |-> IF i \in H THEN NoWorker ELSE holder[i]]
    /\ term' = [i \in Items |-> IF i \in H THEN FALSE ELSE term[i]]
    /\ UNCHANGED settled

\* The holder records the outcome.
Settle(w, i) ==
    /\ holder[i] = w
    /\ settled' = settled \cup {i}
    /\ holder' = [holder EXCEPT ![i] = NoWorker]
    /\ term' = [term EXCEPT ![i] = FALSE]

\* Holds whose term ran out are ended by somebody else.
Evict(H) ==
    /\ \A i \in H : holder[i] # NoWorker /\ ~term[i]
    /\ holder' = [i \in Items |-> IF i \in H THEN NoWorker ELSE holder[i]]
    /\ UNCHANGED <<settled, term>>

LedgerNext ==
    \/ \E w \in Workers, C \in SUBSET Items :
          Take(w, C) \/ Renew(w, C) \/ GiveBack(w, C)
    \/ \E w \in Workers, i \in Items : Settle(w, i)
    \/ \E H \in SUBSET Items : RunOut(H) \/ Evict(H)

LedgerSpec == LedgerInit /\ [][LedgerNext]_ledgerVars
==============================================================================
