------------------------------- MODULE OrderBook -------------------------------
(***************************************************************************)
(* The orders register: the jobs of the orders queue (orders/worker.py,    *)
(* repository.py, files.py), what puts them there (intake.py, catch_up.py, *)
(* uploads), the automatic close, and the edits a person makes meanwhile   *)
(* (api/orders.py).                                                        *)
(*                                                                         *)
(* A handler is one transaction that holds ORDERS_LOCK from its first read *)
(* to its commit, the model call in between: it reads in Begin..., writes  *)
(* in Attach or Write, and what others commit in between it does not see.  *)
(* An edit never takes that lock: it changes membership rows, then holds   *)
(* the rows of the orders it touches until it commits.  One edit is in     *)
(* progress at a time (bound).  The queue is WorkQueue's: a dead claimant's *)
(* lease runs out, and so does that of a live one whose heartbeats fail;   *)
(* such a worker goes on with what it has in hand.  Texts, facts,          *)
(* documents and sealed orders are left out; a mail that is gone, spam or  *)
(* of an account switched off is one the model refuses.                    *)
(***************************************************************************)
EXTENDS Integers, FiniteSets

CONSTANTS
    Orders,         \* ids of orders; none is used twice
    Mails, Files,   \* what may belong to one
    Rows,           \* ids of write jobs; a finished one's is used again
    Workers,        \* workers of the orders queue, each its own process
    Nowhere,        \* no order
    Nobody, Gone,   \* no claimant; one that died
    Books,          \* the orders of the items already in the register: where it may begin
    MaxAttempts,    \* orders.max_attempts
    MaxEdits,       \* bound: edits by a person
    MaxLosses       \* bound: processes killed, and reclaims from living ones

Items == Mails \cup Files

ASSUME OrderAssumption ==
    /\ Mails \cap Files = {} /\ Items \cap Rows = {}
    /\ Nowhere \notin Orders /\ {Nobody, Gone} \cap Workers = {} /\ Nobody # Gone
    /\ Books \subseteq [Items -> Orders \cup {Nowhere}]
    /\ IsFiniteSet(Rows)
    /\ MaxAttempts \in Nat \ {0} /\ MaxEdits \in Nat /\ MaxLosses \in Nat

VARIABLES
    order,          \* order[o]: the row of orders, and the items its text was written from
    place,          \* place[i]: order_mails / order_files.order_id
    filed,          \* filed[f]: order_files.status; "absent" before and "gone" after the row
    job,            \* job[j]: the row of order_jobs; an item's is named by the item
    at,             \* at[w]: where worker w is in its job, and what it has read
    edit,           \* the edit in progress
    edits, losses,  \* used of their bounds
    excuse,         \* history: why a text is behind its items with no rewrite owed
    bundled,        \* history: times a worker put the item in an order
    reopened        \* history: it was taken out while its job was unfinished

bookVars == <<order, place, filed>>
historyVars == <<excuse, bundled, reopened>>
boundVars == <<edits, losses>>
orderVars == <<bookVars, job, at, edit, boundVars, historyVars>>

NoJob == [st |-> "none", by |-> Nobody, tries |-> 0, about |-> Nowhere]
Unwritten == [st |-> "none", written |-> FALSE, stale |-> TRUE, covers |-> {}, owner |-> "ai",
              open |-> TRUE]
NoEdit == [at |-> "none", kind |-> "none", from |-> Nowhere, to |-> Nowhere,
           moves |-> {}, owed |-> {}]
Resting == [pc |-> "idle", job |-> Nobody, about |-> Nowhere, tries |-> 0, saw |-> {}]

OrderRecords ==
    [st : {"none", "live", "gone"}, written : BOOLEAN, stale : BOOLEAN, covers : SUBSET Items,
     owner : {"ai", "user", "auto"}, open : BOOLEAN]
JobRecords ==
    [st : {"none", "pending", "claimed", "done"}, by : Workers \cup {Nobody, Gone},
     tries : 0..MaxAttempts, about : Orders \cup {Nowhere}]
Positions ==
    [pc : {"idle", "begin", "model", "raised", "finish", "settle"},
     job : Items \cup Rows \cup {Nobody}, about : Orders \cup {Nowhere}, tries : 0..MaxAttempts,
     saw : SUBSET (Items \cup Orders)]
Edits ==
    [at : {"none", "moved", "locked"}, kind : {"none", "detach", "file", "merge", "delete"},
     from : Orders \cup {Nowhere}, to : Orders \cup {Nowhere}, moves : SUBSET Items,
     owed : SUBSET Orders]

OrderTypeOK ==
    /\ order \in [Orders -> OrderRecords]
    /\ place \in [Items -> Orders \cup {Nowhere}]
    /\ filed \in [Files -> {"absent", "pending", "attached", "failed", "gone"}]
    /\ job \in [Items \cup Rows -> JobRecords]
    /\ at \in [Workers -> Positions]
    /\ edit \in Edits
    /\ edits \in 0..MaxEdits /\ losses \in 0..MaxLosses
    /\ excuse \in [Orders -> {"none", "gave_up", "raced", "outrun"}]
    /\ bundled \in [Items -> 0..2] /\ reopened \subseteq Items

Live(o) == o \in Orders /\ order[o].st = "live"
Held(o) == {i \in Items : place[i] = o}
Members(o) == {i \in Held(o) : i \in Files => filed[i] = "attached"}

OrderInit ==
    /\ place \in Books
    /\ order = [o \in Orders |->
            IF Held(o) = {} THEN Unwritten
            ELSE [Unwritten EXCEPT !.st = "live", !.written = TRUE, !.stale = FALSE,
                                   !.covers = Held(o)]]
    /\ filed = [f \in Files |-> IF place[f] = Nowhere THEN "absent" ELSE "attached"]
    /\ job = [j \in Items \cup Rows |->
            IF j \in Items /\ place[j] # Nowhere THEN [NoJob EXCEPT !.st = "done"] ELSE NoJob]
    /\ at = [w \in Workers |-> Resting]
    /\ edit = NoEdit
    /\ edits = 0 /\ losses = 0
    /\ excuse = [o \in Orders |-> "none"]
    /\ bundled = [i \in Items |-> IF place[i] = Nowhere THEN 0 ELSE 1]
    /\ reopened = {}

------------------------------------------------------------------------------
\* The table of jobs after a statement.
PendingWrite(jobs, o) == \E r \in Rows : jobs[r].st = "pending" /\ jobs[r].about = o
FreeRows(jobs) == {r \in Rows : jobs[r].st = "none"}
Inserted(jobs, j, o) ==
    [jobs EXCEPT ![j] = [NoJob EXCEPT !.st = "pending", !.about = o]]

\* enqueue_write_job: a no-op on a pending one of the order (uq_order_jobs_write).
Enqueued(jobs, o) ==
    IF PendingWrite(jobs, o) THEN jobs
    ELSE Inserted(jobs, CHOOSE r \in FreeRows(jobs) : TRUE, o)

\* A write job's row is forgotten when it ends; an item's is kept for ever.
Ended(jobs, j) ==
    [jobs EXCEPT ![j] = [NoJob EXCEPT !.st = IF j \in Rows THEN "none" ELSE "done"]]

\* What uq_order_jobs_write forbids: the statement that leads here raises.
Twins(jobs) ==
    \E r, q \in Rows : /\ r # q /\ jobs[r].about = jobs[q].about
                       /\ jobs[r].st = "pending" /\ jobs[q].st = "pending"

Unplaced == UNCHANGED <<bookVars, edit, boundVars, historyVars>>

\* Mutant: the gate forgets a mail that is in no order.
QueueUnplacedMail(i) ==
    /\ i \in Mails /\ place[i] = Nowhere /\ job[i].st \in {"none", "done"}
    /\ job' = Inserted(job, i, Nowhere)
    /\ Unplaced /\ UNCHANGED at

\* enqueue_mail_job (the pipeline's effect, the thread follow-up) and the
\* catch-up: one row per mail, ever (uq_order_jobs_mail).
QueueMail(i) ==
    /\ i \in Mails /\ job[i].st = "none"
    /\ job' = Inserted(job, i, Nowhere)
    /\ Unplaced /\ UNCHANGED at

\* The rows of orders an edit holds: an update of one waits for its commit.
Locked(o) == edit.at = "locked" /\ o \in {edit.from, edit.to} \ {Nowhere}

\* create_file: an upload to an order or to the register (one that overlaps
\* an edit of its order is taken to come before or after it).
Upload(f, o) ==
    /\ f \in Files /\ filed[f] = "absent"
    /\ o = Nowhere \/ (Live(o) /\ ~Locked(o))
    /\ filed' = [filed EXCEPT ![f] = "pending"]
    /\ place' = [place EXCEPT ![f] = o]
    /\ job' = Inserted(job, f, Nowhere)
    /\ UNCHANGED <<at, order, edit, boundVars, historyVars>>

------------------------------------------------------------------------------
\* The worker.
Goto(w, s) ==
    at' = [at EXCEPT ![w] = IF s = "idle" THEN Resting ELSE [@ EXCEPT !.pc = s, !.saw = {}]]
Reads(w, what) == at' = [at EXCEPT ![w] = [@ EXCEPT !.pc = "model", !.saw = what]]
\* Mutant: whoever has claimed the row, it may be written.
OwnedByAny(w) == job[at[w].job].st = "claimed"

Owns(w) == job[at[w].job].st = "claimed" /\ job[at[w].job].by = w

\* Its job may still come to the model: it waits in the queue, or for the lock.
Unfinished(i) ==
    \/ job[i].st \in {"pending", "claimed"}
    \/ \E w \in Workers : at[w].pc = "begin" /\ at[w].job = i

\* pg_advisory_xact_lock(ORDERS_LOCK_KEY)
LockFree == \A w \in Workers : at[w].pc # "model"

Claim(w, j) ==
    /\ at[w].pc = "idle"
    /\ job[j].st = "pending" /\ job[j].tries < MaxAttempts
    /\ job' = [job EXCEPT ![j] = [@ EXCEPT !.st = "claimed", !.by = w, !.tries = job[j].tries + 1]]
    /\ at' = [at EXCEPT ![w] = [pc |-> "begin", job |-> j, about |-> job[j].about,
                                tries |-> job[j].tries + 1, saw |-> {}]]
    /\ Unplaced

\* _handle_mail_job and _handle_file_job up to the model call: done with an
\* item that is placed or gone, else the orders it may join.
BeginItem(w) ==
    LET i == at[w].job
        over == IF i \in Mails THEN place[i] # Nowhere ELSE filed[i] \in {"attached", "gone"}
    IN /\ at[w].pc = "begin" /\ i \in Items /\ LockFree
       /\ IF over THEN Goto(w, "finish")
          ELSE Reads(w, IF place[i] # Nowhere THEN {place[i]} ELSE {o \in Orders : Live(o)})
       /\ Unplaced /\ UNCHANGED job

\* The model's answer for a mail is "none".
Refuse(w) ==
    /\ at[w].pc = "model" /\ at[w].job \in Mails
    /\ Goto(w, "finish")
    /\ Unplaced /\ UNCHANGED job

\* ... or one of those orders, or a new one (create_order): attached, handed
\* back to the model, its text stale, its rewrite queued.
Attach(w, o) ==
    LET i == at[w].job
    IN /\ at[w].pc = "model" /\ i \in Items
       /\ \/ o \in at[w].saw /\ Live(o) /\ ~Locked(o)
          \/ order[o].st = "none" /\ place[i] = Nowhere
       /\ i \in Files => filed[i] # "gone"
       /\ FreeRows(job) # {}
       /\ place' = [place EXCEPT ![i] = o]
       /\ filed' = [f \in Files |-> IF f = i THEN "attached" ELSE filed[f]]
       /\ order' = [order EXCEPT ![o] = [@ EXCEPT !.st = "live", !.owner = "ai", !.stale = TRUE]]
       /\ job' = Enqueued(job, o)
       /\ Goto(w, "finish")
       /\ excuse' = [excuse EXCEPT ![o] = "none"]
       /\ bundled' = [bundled EXCEPT ![i] = IF @ < 2 THEN @ + 1 ELSE @]
       /\ UNCHANGED <<edit, boundVars, reopened>>

\* A file's order is gone by then: the job is done with it ("order gone").
\* (A mail's insert breaks the foreign key, so does a deleted file's: Raise.)
SkipFile(w) ==
    /\ at[w].pc = "model" /\ at[w].job \in Files
    /\ \E o \in at[w].saw : ~Live(o)
    /\ Goto(w, "finish")
    /\ Unplaced /\ UNCHANGED job

\* _handle_write_job: the items the text is to be written from.  (A live
\* order's counts are never both zero: who recounts to zero deletes it.)
BeginWrite(w) ==
    LET o == at[w].about
    IN /\ at[w].pc = "begin" /\ at[w].job \in Rows /\ LockFree
       /\ IF Live(o) THEN Reads(w, Members(o)) ELSE Goto(w, "finish")
       /\ Unplaced /\ UNCHANGED job

\* Mutant: the answer decides open or closed, whoever decided before.
WrittenOver(row, saw, open) ==
    [row EXCEPT !.written = TRUE, !.stale = FALSE, !.covers = saw, !.open = open]

\* write_order_text
Written(row, saw, open) ==
    [row EXCEPT !.written = TRUE, !.stale = FALSE, !.covers = saw,
                !.open = IF row.owner = "ai" THEN open ELSE @]

\* The model's text is stored; nothing is when the order is gone.
Write(w, open) ==
    LET o == at[w].about
    IN /\ at[w].pc = "model" /\ at[w].job \in Rows /\ ~Locked(o)
       /\ order' = IF Live(o) THEN [order EXCEPT ![o] = Written(@, at[w].saw, open)] ELSE order
       /\ Goto(w, "finish")
       /\ UNCHANGED <<job, place, filed, edit, boundVars, historyVars>>

\* complete(): a no-op when the row is no longer this worker's.
Complete(w) ==
    /\ at[w].pc = "finish"
    /\ job' = IF Owns(w) THEN Ended(job, at[w].job) ELSE job
    /\ Goto(w, "idle")
    /\ Unplaced

\* StageTransient or any exception: the transaction is rolled back.
Raise(w) ==
    /\ at[w].pc = "model"
    /\ Goto(w, "raised")
    /\ Unplaced /\ UNCHANGED job

\* The claimed row returns to pending, once no edit is about to commit the
\* pending row of its order.  Where the order has one, the statement raises:
\* the worker's task ends, and the row stays claimed by nobody alive.
PutBack(w, tries) ==
    LET j == at[w].job
        back == [job EXCEPT ![j] = [@ EXCEPT !.st = "pending", !.by = Nobody, !.tries = tries]]
    IN /\ at[w].about \notin edit.owed
       /\ job' = IF ~Owns(w) THEN job
                 ELSE IF Twins(back) THEN [job EXCEPT ![j].by = Gone] ELSE back
       /\ Goto(w, "idle")
       /\ Unplaced

\* StageThrottled, StageUnavailable: release_untouched refunds the attempt;
\* the retry() after it finds the claim gone.
GiveBack(w) == at[w].pc = "model" /\ PutBack(w, at[w].tries - 1)

\* _retry_or_fail
Retry(w) == at[w].pc = "raised" /\ at[w].tries < MaxAttempts /\ PutBack(w, at[w].tries)

\* _fail: the row ends (StageMisconfigured: at once) ...
Fail(w) ==
    /\ \/ at[w].pc = "raised" /\ at[w].tries = MaxAttempts
       \/ at[w].pc = "model"
    /\ job' = IF Owns(w) THEN Ended(job, at[w].job) ELSE job
    /\ Goto(w, IF at[w].job \in Mails THEN "idle" ELSE "settle")
    /\ Unplaced

\* ... then, in another transaction, the file is marked failed (_fail_file),
\* also when the job was lost and another worker has attached the file ...
SettleFile(w) ==
    LET f == at[w].job
        attached == filed[f] = "attached"
    IN /\ at[w].pc = "settle" /\ f \in Files
       /\ filed' = [filed EXCEPT ![f] = IF @ = "gone" THEN @ ELSE "failed"]
       /\ Goto(w, "idle")
       /\ excuse' = [o \in Orders |->
                        IF attached /\ o = place[f] THEN "outrun" ELSE excuse[o]]
       /\ reopened' = reopened \cup {i \in {f} : attached /\ Unfinished(i)}
       /\ UNCHANGED <<job, order, place, edit, boundVars, bundled>>

\* ... or the order keeps its text, or gets a placeholder (_settle_failed_write).
SettleWrite(w) ==
    LET o == at[w].about
    IN /\ at[w].pc = "settle" /\ at[w].job \in Rows /\ LockFree /\ ~Locked(o)
       /\ order' = IF ~Live(o) THEN order
                   ELSE IF order[o].written THEN [order EXCEPT ![o].stale = FALSE]
                   ELSE [order EXCEPT ![o] = Written(@, {}, TRUE)]
       /\ excuse' = [excuse EXCEPT ![o] = IF Live(o) THEN "gave_up" ELSE @]
       /\ Goto(w, "idle")
       /\ UNCHANGED <<job, place, filed, edit, boundVars, bundled, reopened>>

\* A worker's process is killed.
Crash(w) ==
    LET o == at[w].about
    IN /\ at[w].pc # "idle" /\ losses < MaxLosses
       /\ losses' = losses + 1
       /\ job' = IF Owns(w) THEN [job EXCEPT ![at[w].job].by = Gone] ELSE job
       /\ Goto(w, "idle")
       /\ excuse' = IF at[w].pc = "settle" /\ at[w].job \in Rows
                    /\ Live(o)
                    THEN [excuse EXCEPT ![o] = "gave_up"] ELSE excuse
       /\ UNCHANGED <<bookVars, edit, edits, bundled, reopened>>

\* The claims whose lease ran out: those of the dead, and of the late, workers
\* that live but whose heartbeats fail.
Lost(late) == {j \in Items \cup Rows : job[j].st = "claimed" /\ job[j].by \in {Gone} \cup late}

\* reclaim_expired: one statement over every lease that ran out.
Reclaim(late) ==
    LET back == [j \in Items \cup Rows |-> IF j \in Lost(late)
                    THEN [job[j] EXCEPT !.st = "pending", !.by = Nobody] ELSE job[j]]
    IN /\ Lost(late) # {}
       /\ \A j \in Lost(late) : job[j].about \notin edit.owed
       /\ ~Twins(back)
       /\ job' = back
       /\ late # {} => losses < MaxLosses
       /\ losses' = IF late = {} THEN losses ELSE losses + 1
       /\ UNCHANGED <<bookVars, at, edit, edits, historyVars>>

\* close_overdue_orders
AutoClose(o) ==
    /\ LockFree /\ Live(o) /\ ~Locked(o)
    /\ order[o].open /\ order[o].owner = "ai" /\ order[o].written /\ ~order[o].stale
    /\ order' = [order EXCEPT ![o] = [@ EXCEPT !.open = FALSE, !.owner = "auto"]]
    /\ UNCHANGED <<job, at, place, filed, edit, boundVars, historyVars>>

\* prune_failed_files; nothing recounts the order.  (One that overlaps an edit
\* of the order is taken to come before or after it.)
Prune(f) ==
    /\ filed[f] = "failed" /\ ~Locked(place[f]) /\ f \notin edit.moves
    /\ filed' = [filed EXCEPT ![f] = "gone"]
    /\ place' = [place EXCEPT ![f] = Nowhere]
    /\ UNCHANGED <<order, job, at, edit, boundVars, historyVars>>

------------------------------------------------------------------------------
\* What a person does.
\* update_controls: open or closed.
SetOpen(o, open) ==
    /\ Live(o) /\ edit = NoEdit
    /\ order' = [order EXCEPT ![o] = [@ EXCEPT !.open = open, !.owner = "user"]]
    /\ UNCHANGED <<job, at, place, filed, edit, boundVars, historyVars>>

\* rewrite_order
Rewrite(o) ==
    /\ Live(o) /\ edit = NoEdit /\ FreeRows(job) # {}
    /\ job' = Enqueued(job, o)
    /\ Unplaced /\ UNCHANGED at

\* An edit begins: the membership rows it changes.
StartEdit(kind, from, to, moves) ==
    /\ edit = NoEdit /\ edits < MaxEdits
    /\ Live(from)
    /\ edits' = edits + 1
    /\ edit' = [NoEdit EXCEPT !.at = "moved", !.kind = kind, !.from = from, !.to = to,
                              !.moves = moves]
    /\ UNCHANGED <<bookVars, job, at, losses, historyVars>>

Detach(i, to) ==
    /\ i \in Mails /\ to # place[i] /\ (to = Nowhere \/ Live(to))
    /\ StartEdit("detach", place[i], to, {i})
DeleteFile(f) == f \in Files /\ StartEdit("file", place[f], Nowhere, {f})
Merge(from, to) == to # from /\ Live(to) /\ StartEdit("merge", from, to, Held(from))
Delete(o) == StartEdit("delete", o, Nowhere, Held(o))

\* merge_order and delete_order delete it, the others when nothing is left.
Dies == edit.kind \in {"merge", "delete"} \/ Held(edit.from) \subseteq edit.moves
ToRewrite == ({edit.to} \cup (IF Dies THEN {} ELSE {edit.from})) \ {Nowhere}

\* It updates the orders' rows and queues their rewrites.
Lock ==
    /\ edit.at = "moved"
    /\ edit' = [edit EXCEPT !.at = "locked",
                            !.owed = {o \in ToRewrite : ~PendingWrite(job, o)}]
    /\ UNCHANGED <<bookVars, job, at, boundVars, historyVars>>

\* It commits.  What joined an order that dies after its rows were moved goes
\* with it (ON DELETE CASCADE), and so do its write jobs.
Commit ==
    LET to(i) == IF i \in edit.moves THEN edit.to
                 ELSE IF Dies /\ place[i] = edit.from THEN Nowhere ELSE place[i]
        dropped == {i \in Items : place[i] # Nowhere /\ to(i) = Nowhere}
        kept == [j \in DOMAIN job |->
                    IF Dies /\ j \in Rows /\ job[j].about = edit.from THEN Ended(job, j)[j] ELSE job[j]]
        Queue(jobs, o) == IF o \in edit.owed THEN Enqueued(jobs, o) ELSE jobs
    IN /\ edit.at = "locked"
       /\ Cardinality(FreeRows(kept)) >= Cardinality(edit.owed)
       /\ place' = [i \in Items |-> to(i)]
       /\ filed' = [f \in Files |-> IF f \in dropped THEN "gone" ELSE filed[f]]
       /\ order' = [o \in Orders |->
                        IF Dies /\ o = edit.from THEN [Unwritten EXCEPT !.st = "gone"]
                        ELSE IF o \in ToRewrite THEN [order[o] EXCEPT !.stale = TRUE] ELSE order[o]]
       /\ job' = Queue(Queue(kept, edit.from), edit.to)
       /\ edit' = NoEdit
       /\ excuse' = [o \in Orders |->
                        IF Dies /\ o = edit.from THEN "none"
                        ELSE IF o \in ToRewrite /\ PendingWrite(job', o) THEN "none"
                        ELSE IF o \in ToRewrite THEN "raced" ELSE excuse[o]]
       /\ reopened' = reopened \cup {i \in dropped : Unfinished(i)}
       /\ UNCHANGED <<at, boundVars, bundled>>

------------------------------------------------------------------------------
WorkerStep(w) ==
    \/ \E j \in Items \cup Rows : Claim(w, j)
    \/ BeginItem(w) \/ Refuse(w) \/ SkipFile(w) \/ \E o \in Orders : Attach(w, o)
    \/ BeginWrite(w) \/ \E open \in BOOLEAN : Write(w, open)
    \/ Complete(w) \/ Raise(w) \/ GiveBack(w) \/ Retry(w) \/ Fail(w)
    \/ SettleFile(w) \/ SettleWrite(w) \/ Crash(w)

PersonStep ==
    \/ \E i \in Mails, o \in Orders \cup {Nowhere} : Detach(i, o)
    \/ \E f \in Files : DeleteFile(f)
    \/ \E f \in Files, o \in Orders \cup {Nowhere} : Upload(f, o)
    \/ \E from, to \in Orders : Merge(from, to)
    \/ \E o \in Orders : Delete(o) \/ Rewrite(o) \/ \E open \in BOOLEAN : SetOpen(o, open)
    \/ Lock \/ Commit

OrderNext ==
    \/ \E w \in Workers : WorkerStep(w)
    \/ PersonStep
    \/ \E i \in Mails : QueueMail(i)
    \/ \E late \in SUBSET Workers : Reclaim(late)
    \/ \E o \in Orders : AutoClose(o)
    \/ \E f \in Files : Prune(f)

\* The reconciliation timer keeps trying.
OrderSpec == OrderInit /\ [][OrderNext]_orderVars /\ WF_orderVars(Reclaim({}))

------------------------------------------------------------------------------
\* A rewrite of o is owed: a pending write job, be it at the attempts cap where
\* no worker claims it; one that was lost and is to be reclaimed; one whose
\* worker has not read the order's items, or has read the present ones; or
\* one whose failure is being settled.
Reading(w, o) ==
    /\ at[w].about = o
    /\ \/ at[w].pc \in {"begin", "raised"} /\ Owns(w)
       \/ at[w].pc = "model" /\ at[w].saw = Members(o) /\ Owns(w)
       \/ at[w].pc = "settle"
RewriteOwed(o) ==
    \/ PendingWrite(job, o)
    \/ \E r \in Rows : job[r].about = o /\ job[r].st = "claimed" /\ job[r].by = Gone
    \/ \E w \in Workers : Reading(w, o)

\* An order's text is written from its items, or a rewrite is owed, whatever
\* was attached, moved, merged or deleted while a text was being written.
\* Three cases are excused: a write job given up, an edit that found a rewrite
\* pending which then read the order before the edit's commit, and a file
\* attached by one worker that another, which had lost its job, marks failed.
\* A pending rewrite counts as owed even at the attempts cap, where no worker
\* claims it.
TextFollowsMembers ==
    \A o \in Orders :
        Live(o) /\ order[o].covers # Members(o) => RewriteOwed(o) \/ excuse[o] # "none"

\* What a person decided about open or closed stays until that person or a
\* newly attached item changes it (update_controls, write_order_text).
PersonDecides ==
    [][\A o \in Orders :
        Live(o) /\ Live(o)' /\ order[o].owner = "user" =>
            \/ order'[o].owner = "user" /\ order'[o].open = order[o].open
            \/ order'[o].owner = "user" /\ SetOpen(o, order'[o].open)
            \/ order'[o].owner = "ai" /\ \E w \in Workers : Attach(w, o)]_orderVars

\* A worker bundles an item once: after a crash or a lost lease the job finds
\* it placed, and a mail taken out by a person is not queued again.  (Not so
\* when it is taken out before the job that placed it is done with, be it by
\* a person or by a late worker that marks a file failed.)
BundledOnce == \A i \in Items : bundled[i] > 1 => i \in reopened

\* A job whose claimant died is given back (reclaim_expired).
LostRowsReturn ==
    \A j \in Items \cup Rows : (j \in Lost({})) ~> (j \notin Lost({}))

\* prune_failed_files deletes "files the register failed to place": never one
\* that a worker has placed.
PrunesUnplaced == [][\A f \in Files : Prune(f) => bundled[f] = 0]_orderVars
==============================================================================
