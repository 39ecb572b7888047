--------------------------- MODULE OrderBookProofs ---------------------------
(***************************************************************************)
(* Proofs about the register of orders, for any mails, files, orders,      *)
(* workers and attempts. The invariant is in three parts, each of which    *)
(* needs the ones before it: JobsInv ties the job table to the workers,    *)
(* BooksInv the items to their orders, TextsAreMinded the texts to the     *)
(* items.                                                                  *)
(* A worker attaches an item under the lock around the model, a person     *)
(* edits under the rows of the orders; MailsAtTheModel and FilesAtTheModel *)
(* say why the two do not meet, and BundledIsDealt why a job whose worker  *)
(* died is not bundled again by the next one.                              *)
(***************************************************************************)
EXTENDS OrderBook, FiniteSetTheorems, TLAPS

\* A worker between its claim and the end of its job.
Handling(w) == at[w].pc \in {"begin", "model", "raised", "finish"}

\* What a worker remembers of its claim, lost or not: an item, which has had its
\* job since, or a row and the order it is about, which exists or once did.
PositionsFit ==
    \A w \in Workers :
        /\ at[w].pc = "idle" => at[w].about = Nowhere
        /\ at[w].pc # "idle" => at[w].job \in Items \cup Rows /\ at[w].tries > 0
        /\ at[w].pc # "idle" /\ at[w].job \in Items =>
              at[w].about = Nowhere /\ job[at[w].job].st # "none"
        /\ at[w].pc # "idle" /\ at[w].job \in Rows =>
              at[w].about \in Orders /\ order[at[w].about].st # "none"

\* A rewrite that is wanted or under way is about an order that exists or once did.
RowsFit ==
    /\ \A i \in Items : job[i].about = Nowhere
    /\ \A r \in Rows : job[r].st \in {"pending", "claimed"} =>
            job[r].about \in Orders /\ order[job[r].about].st # "none"

\* A claimed job is in the hands of the worker it names.
ClaimsAreHeld ==
    \A w \in Workers, j \in Items \cup Rows :
        job[j].st = "claimed" /\ job[j].by = w =>
            Handling(w) /\ at[w].job = j /\ at[w].about = job[j].about

\* The advisory lock: one worker at a time decides about orders.
OneAtTheModel ==
    \A w, v \in Workers : at[w].pc = "model" /\ at[v].pc = "model" => w = v

\* Of a file that was never uploaded there is no trace.
AbsentFiles ==
    \A f \in Files : filed[f] = "absent" =>
        place[f] = Nowhere /\ job[f].st = "none" /\ bundled[f] = 0

\* The edit under way is about orders that exist or once did, and the items it
\* moves are still where it found them; files move only with a whole order.
EditFits ==
    /\ edit.at = "none" => edit = NoEdit
    /\ edit.at # "none" =>
          /\ edit.from \in Orders /\ edit.from # edit.to
          /\ \A o \in {edit.from, edit.to} \ {Nowhere} : order[o].st # "none"
          /\ \A i \in edit.moves : place[i] = edit.from
          /\ edit.owed \subseteq {edit.from, edit.to}
          /\ edit.to # Nowhere /\ edit.moves \cap Files # {} => edit.kind = "merge"

\* A mail at the model is in no order.
MailsAtTheModel ==
    \A w \in Workers : at[w].pc = "model" /\ at[w].job \in Mails => place[at[w].job] = Nowhere

\* A file at the model is not attached, be it by the worker there or by one to
\* whom its job went; what the model sees open is the order the file was uploaded
\* to, if any.
FilesAtTheModel ==
    \A w \in Workers : at[w].pc = "model" /\ at[w].job \in Files =>
        /\ filed[at[w].job] # "attached"
        /\ place[at[w].job] # Nowhere =>
              \A o \in at[w].saw : Live(o) => o = place[at[w].job]

\* An item is in an order that exists or once did.
PlacedSomewhere == \A i \in Items : place[i] # Nowhere => order[place[i]].st # "none"

\* The model sees orders for an item, and the items of its order for a rewrite.
SawWhatItIs ==
    \A w \in Workers : at[w].pc = "model" =>
        /\ at[w].job \in Items => \A o \in at[w].saw : o \in Orders /\ order[o].st # "none"
        /\ at[w].job \in Rows => at[w].saw \subseteq Items

\* Nobody will bundle item i again of itself.
Dealt(i) ==
    ~Unfinished(i) \/ (IF i \in Mails THEN place[i] # Nowhere ELSE filed[i] \in {"attached", "gone"})

\* An item that was bundled and not reopened since was bundled once, is dealt
\* with, and is not at the model.
BundledIsDealt ==
    \A i \in Items :
        /\ bundled[i] > 0 => job[i].st # "none"
        /\ bundled[i] > 0 /\ i \notin reopened =>
              /\ bundled[i] = 1
              /\ Dealt(i)
              /\ \A w \in Workers : ~(at[w].pc = "model" /\ at[w].job = i)

\* The text of an order, or one that is being written, is not of its members.
Behind(o) ==
    \/ order[o].covers # Members(o)
    \/ \E w \in Workers : at[w].pc = "model" /\ at[w].about = o /\ at[w].saw # Members(o)

\* A text that is behind will be rewritten or the reason why not is known.
TextsAreMinded ==
    \A o \in Orders : Live(o) /\ Behind(o) => RewriteOwed(o) \/ excuse[o] # "none"

\* Who has which job.
JobsInv ==
    /\ OrderTypeOK
    /\ PositionsFit
    /\ RowsFit
    /\ ClaimsAreHeld
    /\ OneAtTheModel

\* Which item is in which order.
BooksInv ==
    /\ AbsentFiles
    /\ EditFits
    /\ MailsAtTheModel
    /\ FilesAtTheModel
    /\ PlacedSomewhere
    /\ SawWhatItIs
    /\ BundledIsDealt

------------------------------------------------------------------------------
\* The jobs of items and orders, as a table.
JobTable == [Items \cup Rows -> JobRecords]

\* What queueing a rewrite does to the table.
LEMMA EnqueuedIs ==
    ASSUME NEW jobs \in JobTable, NEW o \in Orders, PendingWrite(jobs, o) \/ FreeRows(jobs) # {}
    PROVE  /\ Enqueued(jobs, o) \in JobTable
           /\ PendingWrite(Enqueued(jobs, o), o)
           /\ \A j \in Items \cup Rows :
                 \/ Enqueued(jobs, o)[j] = jobs[j]
                 \/ /\ j \in Rows /\ jobs[j].st = "none"
                    /\ Enqueued(jobs, o)[j].st = "pending" /\ Enqueued(jobs, o)[j].about = o
<1>1. CASE PendingWrite(jobs, o)
    BY <1>1 DEF Enqueued
<1>2. CASE ~PendingWrite(jobs, o)
    <2> DEFINE r == CHOOSE x \in FreeRows(jobs) : TRUE
               row == [NoJob EXCEPT !.st = "pending", !.about = o]
    <2>1. r \in Rows /\ jobs[r].st = "none"
        BY <1>2 DEF FreeRows
    <2>2. Enqueued(jobs, o) = [jobs EXCEPT ![r] = row]
        BY <1>2 DEF Enqueued, Inserted
    <2>3. row \in JobRecords /\ row.st = "pending" /\ row.about = o
        <3>1. 0 \in 0..MaxAttempts
            BY OrderAssumption
        <3> QED BY <3>1 DEF NoJob, JobRecords
    <2> HIDE DEF r, row
    <2>4. Enqueued(jobs, o) \in JobTable /\ Enqueued(jobs, o)[r] = row
          /\ \A j \in (Items \cup Rows) \ {r} : Enqueued(jobs, o)[j] = jobs[j]
        BY <2>1, <2>2, <2>3 DEF JobTable
    <2>5. PendingWrite(Enqueued(jobs, o), o)
        BY <2>1, <2>3, <2>4 DEF PendingWrite
    <2> QED BY <2>1, <2>3, <2>4, <2>5
<1> QED BY <1>1, <1>2

\* Where Goto leaves a worker.
LEMMA GotoIs ==
    ASSUME OrderTypeOK, NEW w \in Workers,
           NEW s \in {"idle", "finish", "raised", "settle"}, Goto(w, s)
    PROVE  /\ at' \in [Workers -> Positions]
           /\ at'[w].pc = s
           /\ s # "idle" => /\ at'[w].job = at[w].job /\ at'[w].about = at[w].about
                            /\ at'[w].tries = at[w].tries
           /\ s = "idle" => at'[w].about = Nowhere /\ at'[w].job = Nobody
           /\ \A v \in Workers \ {w} : at'[v] = at[v]
<1>1. at \in [Workers -> Positions]
    BY DEF OrderTypeOK
<1>2. Resting \in Positions
    BY OrderAssumption DEF Resting, Positions
<1>3. [at[w] EXCEPT !.pc = s, !.saw = {}] \in Positions
    BY <1>1 DEF Positions
<1>4. at' = [at EXCEPT ![w] = IF s = "idle" THEN Resting ELSE [at[w] EXCEPT !.pc = s, !.saw = {}]]
    BY DEF Goto
<1>5. /\ at' \in [Workers -> Positions] /\ \A v \in Workers \ {w} : at'[v] = at[v]
      /\ at'[w] = IF s = "idle" THEN Resting ELSE [at[w] EXCEPT !.pc = s, !.saw = {}]
    BY <1>1, <1>2, <1>3, <1>4
<1>6. s # "idle" => [at[w] EXCEPT !.pc = s, !.saw = {}].pc = s /\ at'[w].job = at[w].job /\ at'[w].about = at[w].about /\ at'[w].tries = at[w].tries
    BY <1>1, <1>5 DEF Positions
<1>7. s = "idle" => at'[w].pc = s /\ at'[w].about = Nowhere /\ at'[w].job = Nobody
    BY <1>5 DEF Resting
<1> QED BY <1>1, <1>5, <1>6, <1>7 DEF Positions

LEMMA ReadsIs ==
    ASSUME OrderTypeOK, NEW w \in Workers,
           NEW what \in SUBSET (Items \cup Orders), Reads(w, what)
    PROVE  /\ at' \in [Workers -> Positions]
           /\ at'[w].pc = "model" /\ at'[w].saw = what
           /\ at'[w].job = at[w].job /\ at'[w].about = at[w].about /\ at'[w].tries = at[w].tries
           /\ \A v \in Workers \ {w} : at'[v] = at[v]
BY DEF OrderTypeOK, Reads, Positions

------------------------------------------------------------------------------
\* The rows of the table one by one, in the form the steps need.
LEMMA RowsAre ==
    ASSUME OrderTypeOK, NEW j \in Items \cup Rows
    PROVE  /\ job[j] \in JobRecords
           /\ [job[j] EXCEPT !.st = "pending", !.by = Nobody] \in JobRecords
           /\ [job[j] EXCEPT !.by = Gone] \in JobRecords
           /\ [NoJob EXCEPT !.st = "done"] \in JobRecords /\ NoJob \in JobRecords
           /\ [NoJob EXCEPT !.st = "none"] \in JobRecords
           /\ \A o \in Orders \cup {Nowhere} : [NoJob EXCEPT !.st = "pending", !.about = o] \in JobRecords
           /\ \A w \in Workers : job[j].tries < MaxAttempts =>
                 [job[j] EXCEPT !.st = "claimed", !.by = w, !.tries = job[j].tries + 1] \in JobRecords
           /\ \A n \in 0..MaxAttempts :
                 [job[j] EXCEPT !.st = "pending", !.by = Nobody, !.tries = n] \in JobRecords
<1>1. MaxAttempts \in Nat /\ 0 \in 0..MaxAttempts
    BY OrderAssumption
<1>2. job[j] \in JobRecords
    BY DEF OrderTypeOK
<1>3. NoJob \in JobRecords
    BY <1>1 DEF NoJob, JobRecords
<1>4. \A w \in Workers : job[j].tries < MaxAttempts =>
          [job[j] EXCEPT !.st = "claimed", !.by = w, !.tries = job[j].tries + 1] \in JobRecords
    <2>1. \A n \in 0..MaxAttempts : n < MaxAttempts => n + 1 \in 0..MaxAttempts
        BY <1>1
    <2> QED BY <1>2, <2>1 DEF JobRecords
<1>5. /\ [job[j] EXCEPT !.st = "pending", !.by = Nobody] \in JobRecords
      /\ [job[j] EXCEPT !.by = Gone] \in JobRecords
      /\ \A n \in 0..MaxAttempts :
            [job[j] EXCEPT !.st = "pending", !.by = Nobody, !.tries = n] \in JobRecords
    BY <1>2 DEF JobRecords
<1>6. /\ [NoJob EXCEPT !.st = "done"] \in JobRecords
      /\ [NoJob EXCEPT !.st = "none"] \in JobRecords
      /\ \A o \in Orders \cup {Nowhere} : [NoJob EXCEPT !.st = "pending", !.about = o] \in JobRecords
    BY <1>3 DEF JobRecords
<1> QED BY <1>2, <1>3, <1>4, <1>5, <1>6

\* How orders age.
OrdersAge ==
    \A o \in Orders : order[o].st # "none" =>
        order'[o].st # "none" /\ (order'[o].st = "live" => order[o].st = "live")

\* What one row of the table may become in a step that claims nothing.
RowStep(j) ==
    \/ job'[j] = job[j]
    \/ /\ job[j].st = "none" /\ j \in Items
       /\ job'[j].st = "pending" /\ job'[j].about = Nowhere
    \/ /\ j \in Rows
       /\ job'[j].st = "pending"
       /\ job'[j].about \in Orders /\ order'[job'[j].about].st # "none"
    \/ /\ job[j].st = "claimed"
       /\ job'[j].st = "pending" \/ (job'[j].st = "claimed" /\ job'[j].by = Gone)
       /\ job'[j].about = job[j].about
    \/ /\ job[j].st = "claimed" /\ j \in Items
       /\ job'[j].st = "done" /\ job'[j].about = Nowhere
    \/ /\ j \in Rows
       /\ job'[j].st = "none"

\* Where a worker may go without claiming.
Moves(w) ==
    \/ at'[w] = at[w]
    \/ /\ at'[w].pc = "idle" /\ at'[w].about = Nowhere /\ at[w].pc # "idle"
       /\ ~(job'[at[w].job].st = "claimed" /\ job'[at[w].job].by = w)
    \/ /\ at[w].pc # "idle" /\ at'[w].pc # "idle"
       /\ at'[w].job = at[w].job /\ at'[w].about = at[w].about /\ at'[w].tries = at[w].tries
       /\ Handling(w)
       /\ \/ Handling(w)'
          \/ /\ at'[w].pc = "settle"
             /\ ~(job'[at[w].job].st = "claimed" /\ job'[at[w].job].by = w)
       /\ at'[w].pc = "model" => LockFree /\ \A v \in Workers \ {w} : at'[v] = at[v]

LEMMA StepKeepsJobs ==
    ASSUME JobsInv, OrderTypeOK', OrdersAge,
           \A j \in Items \cup Rows : RowStep(j),
           \A w \in Workers : Moves(w)
    PROVE  JobsInv'
<1> USE DEF JobsInv
<1>0. Gone \notin Workers /\ Nobody \notin Workers /\ Nowhere \notin Orders /\ Items \cap Rows = {}
    BY OrderAssumption
<1>1. PositionsFit'
    <2>1. ASSUME NEW i \in Items, job[i].st # "none" PROVE job'[i].st # "none"
        BY <1>0, <2>1 DEF RowStep
    <2> QED BY <2>1 DEF PositionsFit, Moves, OrdersAge, Handling
<1>2. RowsFit'
    <2>1. ASSUME NEW i \in Items PROVE job'[i].about = Nowhere
        BY <1>0 DEF RowsFit, RowStep, NoJob
    <2>2. ASSUME NEW r \in Rows, job'[r].st \in {"pending", "claimed"}
          PROVE  job'[r].about \in Orders /\ order'[job'[r].about].st # "none"
        <3>1. CASE job[r].st \in {"pending", "claimed"} /\ job'[r].about = job[r].about
            BY <3>1 DEF RowsFit, OrdersAge
        <3>2. CASE job'[r] = job[r]
            BY <2>2, <3>1, <3>2
        <3>3. CASE job'[r] # job[r]
            BY <1>0, <2>2, <3>1, <3>3 DEF RowStep, NoJob
        <3> QED BY <3>2, <3>3
    <2> QED BY <2>1, <2>2 DEF RowsFit
<1>3. ClaimsAreHeld'
    <2> SUFFICES ASSUME NEW w \in Workers, NEW j \in Items \cup Rows,
                        job'[j].st = "claimed", job'[j].by = w
                 PROVE  Handling(w)' /\ at'[w].job = j /\ at'[w].about = job'[j].about
        BY DEF ClaimsAreHeld, Handling
    <2>1. job'[j] = job[j]
        BY <1>0 DEF RowStep, NoJob
    <2>2. Handling(w) /\ at[w].job = j /\ at[w].about = job[j].about
        BY <2>1 DEF ClaimsAreHeld
    <2> QED BY <2>1, <2>2 DEF Moves, Handling
<1>6. OneAtTheModel'
    <2> SUFFICES ASSUME NEW w \in Workers, NEW v \in Workers,
                        at'[w].pc = "model", at'[v].pc = "model", w # v PROVE FALSE
        BY DEF OneAtTheModel
    <2>1. CASE at'[w] = at[w] /\ at'[v] = at[v]
        BY <2>1 DEF OneAtTheModel
    <2>2. CASE at'[w] # at[w]
        <3>1. LockFree /\ at'[v] = at[v]
            BY <2>2 DEF Moves
        <3> QED BY <3>1 DEF LockFree
    <2>3. CASE at'[v] # at[v]
        <3>1. LockFree /\ at'[w] = at[w]
            BY <2>3 DEF Moves
        <3> QED BY <3>1 DEF LockFree
    <2> QED BY <2>1, <2>2, <2>3
<1> QED BY <1>1, <1>2, <1>3, <1>6

------------------------------------------------------------------------------
\* A step of one worker that leaves the table and the orders' lives alone.
LEMMA WalkKeepsJobs ==
    ASSUME JobsInv, OrderTypeOK', OrdersAge, UNCHANGED job, NEW w \in Workers,
           \A v \in Workers \ {w} : at'[v] = at[v], Moves(w)
    PROVE  JobsInv'
<1>1. \A j \in Items \cup Rows : RowStep(j)
    BY DEF RowStep
<1>2. \A v \in Workers : Moves(v)
    BY DEF Moves
<1> QED BY <1>1, <1>2, StepKeepsJobs

\* A step that moves no worker and touches no row of the table.
LEMMA StillKeepsJobs ==
    ASSUME JobsInv, OrderTypeOK', OrdersAge, UNCHANGED <<job, at>>
    PROVE  JobsInv'
<1>1. \A j \in Items \cup Rows : RowStep(j)
    BY DEF RowStep
<1>2. \A v \in Workers : Moves(v)
    BY DEF Moves
<1> QED BY <1>1, <1>2, StepKeepsJobs

LEMMA BooksStayType ==
    ASSUME OrderTypeOK, UNCHANGED <<bookVars, edit, boundVars, historyVars>>,
           job' \in JobTable, at' \in [Workers -> Positions]
    PROVE  OrderTypeOK' /\ OrdersAge
BY DEF OrderTypeOK, bookVars, boundVars, historyVars, OrdersAge, JobTable

LEMMA QueueMailKeepsJobs ==
    ASSUME JobsInv, NEW i \in Mails, QueueMail(i)
    PROVE  JobsInv'
<1> DEFINE row == [NoJob EXCEPT !.st = "pending", !.about = Nowhere]
<1>1. i \in Items /\ job \in JobTable /\ job[i].st = "none" /\ job' = [job EXCEPT ![i] = row] /\ at' = at
    BY DEF QueueMail, Inserted, Items, JobsInv, OrderTypeOK, JobTable
<1>2. row \in JobRecords
    BY <1>1, RowsAre DEF JobsInv
<1>3. row.about = Nowhere
    BY DEF NoJob
<1> HIDE DEF row
<1>4. job' \in JobTable /\ job'[i] = row /\ \A j \in (Items \cup Rows) \ {i} : job'[j] = job[j]
    BY <1>1, <1>2 DEF JobTable
<1>5. OrderTypeOK' /\ OrdersAge
    BY <1>1, <1>4, BooksStayType DEF QueueMail, Unplaced, JobsInv, OrderTypeOK
<1>6. \A j \in Items \cup Rows : RowStep(j)
    BY <1>1, <1>3, <1>4 DEF RowStep, row
<1>7. \A w \in Workers : Moves(w)
    BY <1>1 DEF Moves
<1> QED BY <1>5, <1>6, <1>7, StepKeepsJobs

LEMMA UploadKeepsJobs ==
    ASSUME JobsInv, AbsentFiles, NEW f \in Files, NEW o \in Orders \cup {Nowhere}, Upload(f, o)
    PROVE  JobsInv'
<1> DEFINE row == [NoJob EXCEPT !.st = "pending", !.about = Nowhere]
<1>1. f \in Items /\ job \in JobTable /\ job[f].st = "none" /\ job' = [job EXCEPT ![f] = row] /\ at' = at
    BY DEF Upload, AbsentFiles, Inserted, Items, JobsInv, OrderTypeOK, JobTable
<1>2. row \in JobRecords
    BY <1>1, RowsAre DEF JobsInv
<1>3. row.about = Nowhere
    BY DEF NoJob
<1> HIDE DEF row
<1>4. job' \in JobTable /\ job'[f] = row /\ \A j \in (Items \cup Rows) \ {f} : job'[j] = job[j]
    BY <1>1, <1>2 DEF JobTable
<1>5. OrderTypeOK' /\ OrdersAge
    BY <1>1, <1>4 DEF Upload, JobsInv, OrderTypeOK, boundVars, historyVars, JobTable, OrdersAge
<1>6. \A j \in Items \cup Rows : RowStep(j)
    BY <1>1, <1>3, <1>4 DEF RowStep, row
<1>7. \A w \in Workers : Moves(w)
    BY <1>1 DEF Moves
<1> QED BY <1>5, <1>6, <1>7, StepKeepsJobs

\* Steps of the model's call and what follows it that only move the worker.
LEMMA WalksKeepJobs ==
    ASSUME JobsInv, NEW w \in Workers,
           \/ BeginItem(w) \/ Refuse(w) \/ SkipFile(w) \/ BeginWrite(w) \/ Raise(w)
    PROVE  JobsInv'
<1>1. /\ job' = job /\ UNCHANGED <<bookVars, edit, boundVars, historyVars>>
      /\ at[w].pc \in {"begin", "model"}
    BY DEF BeginItem, Refuse, SkipFile, BeginWrite, Raise, Unplaced
<1>2. \/ Goto(w, "finish")
      \/ Goto(w, "raised")
      \/ LockFree /\ \E what \in SUBSET (Items \cup Orders) : Reads(w, what)
    <2>1. CASE BeginItem(w)
        <3>1. {place[at[w].job]} \subseteq Orders \cup {Nowhere} /\ {o \in Orders : Live(o)} \subseteq Orders
            BY <2>1 DEF BeginItem, JobsInv, OrderTypeOK
        <3> QED BY <2>1, <3>1 DEF BeginItem
    <2>2. CASE BeginWrite(w)
        <3>1. \A o : Members(o) \in SUBSET (Items \cup Orders)
            BY DEF Members, Held
        <3> QED BY <2>2, <3>1 DEF BeginWrite
    <2> QED BY <2>1, <2>2 DEF Refuse, SkipFile, Raise
<1>3. /\ at' \in [Workers -> Positions]
      /\ \A v \in Workers \ {w} : at'[v] = at[v]
      /\ Moves(w)
    <2>1. ASSUME NEW s \in {"finish", "raised"}, Goto(w, s)
          PROVE  /\ at' \in [Workers -> Positions]
                 /\ \A v \in Workers \ {w} : at'[v] = at[v]
                 /\ Moves(w)
        BY <1>1, <2>1, GotoIs DEF Moves, Handling, JobsInv
    <2>2. ASSUME LockFree, NEW what \in SUBSET (Items \cup Orders), Reads(w, what)
          PROVE  /\ at' \in [Workers -> Positions]
                 /\ \A v \in Workers \ {w} : at'[v] = at[v]
                 /\ Moves(w)
        BY <1>1, <2>2, ReadsIs DEF Moves, Handling, JobsInv
    <2> QED BY <1>2, <2>1, <2>2
<1>4. OrderTypeOK' /\ OrdersAge
    BY <1>1, <1>3, BooksStayType DEF JobsInv, OrderTypeOK, JobTable
<1> QED BY <1>1, <1>3, <1>4, WalkKeepsJobs

\* A row of orders whose text is written or whose state is decided stays of its type.
LEMMA WrittenIs ==
    ASSUME OrderTypeOK, NEW o \in Orders, NEW saw \in SUBSET Items, NEW open \in BOOLEAN
    PROVE  /\ Written(order[o], saw, open) \in OrderRecords
           /\ Written(order[o], saw, open).st = order[o].st
           /\ Written(order[o], saw, open).covers = saw
           /\ Written(order[o], saw, open).owner = order[o].owner
           /\ order[o].owner # "ai" => Written(order[o], saw, open).open = order[o].open
<1>1. order[o] \in OrderRecords
    BY DEF OrderTypeOK
<1> QED BY <1>1 DEF Written, OrderRecords

LEMMA WriteKeepsJobs ==
    ASSUME JobsInv, NEW w \in Workers, NEW open \in BOOLEAN, Write(w, open),
           at[w].saw \subseteq Items
    PROVE  JobsInv'
<1> DEFINE o == at[w].about
<1>1. /\ at[w].pc = "model" /\ Goto(w, "finish")
      /\ UNCHANGED <<job, place, filed, edit, boundVars, historyVars>>
      /\ order' = IF Live(o) THEN [order EXCEPT ![o] = Written(order[o], at[w].saw, open)] ELSE order
    BY DEF Write
<1>2. /\ at' \in [Workers -> Positions] /\ (\A v \in Workers \ {w} : at'[v] = at[v]) /\ Moves(w)
    BY <1>1, GotoIs DEF Moves, Handling, JobsInv
<1>3. order' \in [Orders -> OrderRecords] /\ OrdersAge
    <2>1. CASE Live(o)
        <3>1. o \in Orders
            BY <2>1 DEF Live
        <3>2. Written(order[o], at[w].saw, open) \in OrderRecords
              /\ Written(order[o], at[w].saw, open).st = order[o].st
            <4>1. OrderTypeOK
                BY DEF JobsInv
            <4> HIDE DEF o
            <4> QED BY <3>1, <4>1, WrittenIs
        <3>3. order \in [Orders -> OrderRecords]
            BY DEF JobsInv, OrderTypeOK
        <3> HIDE DEF o
        <3> QED BY <1>1, <2>1, <3>1, <3>2, <3>3 DEF OrdersAge
    <2>2. CASE ~Live(o)
        BY <1>1, <2>2 DEF OrdersAge, JobsInv, OrderTypeOK
    <2> QED BY <2>1, <2>2
<1>4. OrderTypeOK'
    BY <1>1, <1>2, <1>3 DEF JobsInv, OrderTypeOK, boundVars, historyVars
<1> QED BY <1>1, <1>2, <1>3, <1>4, WalkKeepsJobs

LEMMA SettleFileKeepsJobs ==
    ASSUME JobsInv, NEW w \in Workers, SettleFile(w)
    PROVE  JobsInv'
<1>1. at[w].pc = "settle" /\ at[w].job \in Files /\ Goto(w, "idle")
      /\ UNCHANGED <<job, order, place, edit, boundVars, bundled>>
    BY DEF SettleFile
<1>2. ~(job[at[w].job].st = "claimed" /\ job[at[w].job].by = w)
    BY <1>1 DEF JobsInv, ClaimsAreHeld, Handling, Items
<1>3. /\ at' \in [Workers -> Positions] /\ (\A v \in Workers \ {w} : at'[v] = at[v]) /\ Moves(w)
    BY <1>1, <1>2, GotoIs DEF Moves, JobsInv
<1>4. excuse' \in [Orders -> {"none", "gave_up", "raced", "outrun"}] /\ reopened' \subseteq Items
    BY <1>1 DEF SettleFile, JobsInv, OrderTypeOK, Items
<1>5. filed' \in [Files -> {"absent", "pending", "attached", "failed", "gone"}]
    BY <1>1 DEF SettleFile, JobsInv, OrderTypeOK
<1>6. OrderTypeOK' /\ OrdersAge
    BY <1>1, <1>3, <1>4, <1>5 DEF JobsInv, OrderTypeOK, boundVars, OrdersAge
<1> QED BY <1>1, <1>3, <1>6, WalkKeepsJobs

LEMMA SettleWriteKeepsJobs ==
    ASSUME JobsInv, NEW w \in Workers, SettleWrite(w)
    PROVE  JobsInv'
<1> DEFINE o == at[w].about
<1>1. /\ at[w].pc = "settle" /\ at[w].job \in Rows /\ Goto(w, "idle")
      /\ UNCHANGED <<job, place, filed, edit, boundVars, bundled, reopened>>
      /\ excuse' = [excuse EXCEPT ![o] = IF Live(o) THEN "gave_up" ELSE excuse[o]]
      /\ order' = IF ~Live(o) THEN order
                  ELSE IF order[o].written THEN [order EXCEPT ![o].stale = FALSE]
                  ELSE [order EXCEPT ![o] = Written(order[o], {}, TRUE)]
    BY DEF SettleWrite
<1>2. ~(job[at[w].job].st = "claimed" /\ job[at[w].job].by = w)
    BY <1>1 DEF JobsInv, ClaimsAreHeld, Handling
<1>3. /\ at' \in [Workers -> Positions] /\ (\A v \in Workers \ {w} : at'[v] = at[v]) /\ Moves(w)
    BY <1>1, <1>2, GotoIs DEF Moves, JobsInv
<1>4. o \in Orders
    BY <1>1 DEF JobsInv, PositionsFit
<1>5. order' \in [Orders -> OrderRecords] /\ OrdersAge
    <2>1. Written(order[o], {}, TRUE) \in OrderRecords /\ Written(order[o], {}, TRUE).st = order[o].st
        <3>1. OrderTypeOK /\ {} \in SUBSET Items /\ TRUE \in BOOLEAN
            BY DEF JobsInv
        <3> HIDE DEF o
        <3> QED BY <1>4, <3>1, WrittenIs
    <2>2. [order[o] EXCEPT !.stale = FALSE] \in OrderRecords
          /\ [order[o] EXCEPT !.stale = FALSE].st = order[o].st
        <3>1. order[o] \in OrderRecords
            BY <1>4 DEF JobsInv, OrderTypeOK
        <3> HIDE DEF o
        <3> QED BY <3>1 DEF OrderRecords
    <2>3. order \in [Orders -> OrderRecords]
        BY DEF JobsInv, OrderTypeOK
    <2> HIDE DEF o
    <2> QED BY <1>1, <1>4, <2>1, <2>2, <2>3 DEF OrdersAge
<1>6. excuse' \in [Orders -> {"none", "gave_up", "raced", "outrun"}]
    BY <1>1, <1>4 DEF JobsInv, OrderTypeOK
<1>7. OrderTypeOK'
    BY <1>1, <1>3, <1>5, <1>6 DEF JobsInv, OrderTypeOK, boundVars
<1> QED BY <1>1, <1>3, <1>5, <1>7, WalkKeepsJobs

\* A worker that ends its job, or is told that it is no longer its own.
LEMMA EndsKeepJobs ==
    ASSUME JobsInv, NEW w \in Workers, Complete(w) \/ Fail(w)
    PROVE  JobsInv'
<1> DEFINE j == at[w].job
           row == [NoJob EXCEPT !.st = IF j \in Rows THEN "none" ELSE "done"]
<1>1. /\ Handling(w) /\ j \in Items \cup Rows
      /\ job' = (IF Owns(w) THEN [job EXCEPT ![j] = row] ELSE job)
      /\ \E s \in {"idle", "settle"} : Goto(w, s)
      /\ UNCHANGED <<bookVars, edit, boundVars, historyVars>>
    BY DEF Complete, Fail, Ended, Handling, Unplaced, JobsInv, PositionsFit
<1>2. job \in JobTable
    BY DEF JobsInv, OrderTypeOK, JobTable
<1>3. row \in JobRecords /\ row.st \in {"none", "done"}
    BY <1>1, RowsAre DEF JobsInv, NoJob
<1>4. Items \cap Rows = {}
    BY OrderAssumption
<1>5. /\ job' \in JobTable
      /\ Owns(w) => job'[j] = row
      /\ ~Owns(w) => job'[j] = job[j]
      /\ \A k \in (Items \cup Rows) \ {j} : job'[k] = job[k]
    <2> HIDE DEF row, j
    <2> QED BY <1>1, <1>2, <1>3 DEF JobTable
<1>6. /\ at' \in [Workers -> Positions] /\ (\A v \in Workers \ {w} : at'[v] = at[v])
      /\ at'[w].pc \in {"idle", "settle"}
      /\ at'[w].pc = "idle" => at'[w].about = Nowhere
      /\ at'[w].pc = "settle" => /\ at'[w].job = at[w].job /\ at'[w].about = at[w].about
                                 /\ at'[w].tries = at[w].tries
    BY <1>1, GotoIs DEF JobsInv
<1>7. ~(job'[j].st = "claimed" /\ job'[j].by = w)
    BY <1>3, <1>5 DEF Owns
<1>8. \A v \in Workers : Moves(v)
    BY <1>1, <1>6, <1>7 DEF Moves, Handling
<1>9. \A k \in Items \cup Rows : RowStep(k)
    <2> SUFFICES ASSUME NEW k \in Items \cup Rows, k = j, Owns(w)
                 PROVE  RowStep(k)
        BY <1>5 DEF RowStep
    <2>1. job[j].st = "claimed" /\ job[j].by = w
        BY DEF Owns
    <2>2. job'[j].st = (IF j \in Rows THEN "none" ELSE "done") /\ job'[j].about = Nowhere
        BY <1>5 DEF NoJob
    <2> QED BY <1>1, <1>4, <2>1, <2>2 DEF RowStep
<1>10. OrderTypeOK' /\ OrdersAge
    BY <1>1, <1>5, <1>6, BooksStayType DEF JobsInv
<1> QED BY <1>8, <1>9, <1>10, StepKeepsJobs

\* A worker that gives its row back, or dies with it: either way the row is
\* pending again or nobody's, and the worker at rest.
LEMMA LeavesKeepJobs ==
    ASSUME JobsInv, NEW w \in Workers, at[w].pc # "idle", Goto(w, "idle"),
           OrderTypeOK', order' = order,
           \/ job' = job /\ ~Owns(w)
           \/ /\ Owns(w)
              /\ \A k \in (Items \cup Rows) \ {at[w].job} : job'[k] = job[k]
              /\ job'[at[w].job].about = job[at[w].job].about
              /\ \/ job'[at[w].job].st = "pending"
                 \/ job'[at[w].job].st = "claimed" /\ job'[at[w].job].by = Gone
    PROVE  JobsInv'
<1>1. /\ at'[w].pc = "idle" /\ at'[w].about = Nowhere
      /\ \A v \in Workers \ {w} : at'[v] = at[v]
    BY GotoIs DEF JobsInv
<1>2. Gone \notin Workers
    BY OrderAssumption
<1>3. \A k \in Items \cup Rows : RowStep(k)
    BY <1>1, <1>2 DEF RowStep, Owns
<1>4. \A v \in Workers : Moves(v)
    BY <1>1, <1>2 DEF Moves, Owns
<1>5. OrdersAge
    BY DEF OrdersAge
<1> QED BY <1>3, <1>4, <1>5, StepKeepsJobs

LEMMA PutBackIs ==
    ASSUME JobsInv, NEW w \in Workers, at[w].pc # "idle", NEW n \in 0..MaxAttempts, PutBack(w, n)
    PROVE  /\ Goto(w, "idle") /\ job' \in JobTable
           /\ UNCHANGED <<bookVars, edit, boundVars, historyVars>>
           /\ \/ job' = job /\ ~Owns(w)
              \/ /\ Owns(w)
                 /\ \A k \in (Items \cup Rows) \ {at[w].job} : job'[k] = job[k]
                 /\ job'[at[w].job].about = job[at[w].job].about
                 /\ \/ job'[at[w].job].st = "pending"
                    \/ job'[at[w].job].st = "claimed" /\ job'[at[w].job].by = Gone
<1> DEFINE j == at[w].job
           back == [job EXCEPT ![j] = [job[j] EXCEPT !.st = "pending", !.by = Nobody, !.tries = n]]
           gone == [job EXCEPT ![j] = [job[j] EXCEPT !.by = Gone]]
<1>1. /\ Goto(w, "idle") /\ UNCHANGED <<bookVars, edit, boundVars, historyVars>>
      /\ job' = IF ~Owns(w) THEN job ELSE IF Twins(back) THEN gone ELSE back
    BY DEF PutBack, Unplaced
<1>2. j \in Items \cup Rows /\ job \in JobTable
    BY DEF JobsInv, PositionsFit, OrderTypeOK, JobTable
<1>3. /\ [job[j] EXCEPT !.st = "pending", !.by = Nobody, !.tries = n] \in JobRecords
      /\ [job[j] EXCEPT !.by = Gone] \in JobRecords
      /\ job[j] \in JobRecords
    BY <1>2, RowsAre DEF JobsInv
<1> HIDE DEF j
<1>4. /\ back \in JobTable /\ gone \in JobTable
      /\ \A k \in (Items \cup Rows) \ {j} : back[k] = job[k] /\ gone[k] = job[k]
      /\ back[j].about = job[j].about /\ back[j].st = "pending"
      /\ gone[j].about = job[j].about /\ gone[j].st = job[j].st /\ gone[j].by = Gone
    BY <1>2, <1>3 DEF JobTable, JobRecords
<1> HIDE DEF back, gone
<1>5. Owns(w) => job[j].st = "claimed"
    BY DEF Owns, j
<1> QED BY <1>1, <1>2, <1>4, <1>5 DEF j

LEMMA GivesBackKeepJobs ==
    ASSUME JobsInv, NEW w \in Workers, GiveBack(w) \/ Retry(w)
    PROVE  JobsInv'
<1>1. at[w].pc # "idle"
    BY DEF GiveBack, Retry
<1>2. PICK n \in 0..MaxAttempts : PutBack(w, n)
    <2>1. at[w].tries \in 0..MaxAttempts /\ at[w].tries > 0 /\ MaxAttempts \in Nat
        BY <1>1, OrderAssumption DEF JobsInv, PositionsFit, OrderTypeOK, Positions
    <2>2. at[w].tries - 1 \in 0..MaxAttempts
        BY <2>1
    <2> QED BY <2>1, <2>2 DEF GiveBack, Retry
<1>3. OrderTypeOK'
    <2>1. job' \in JobTable /\ UNCHANGED <<bookVars, edit, boundVars, historyVars>> /\ Goto(w, "idle")
        BY <1>1, <1>2, PutBackIs
    <2>2. at' \in [Workers -> Positions]
        BY <2>1, GotoIs DEF JobsInv
    <2> QED BY <2>1, <2>2, BooksStayType DEF JobsInv
<1>4. order' = order
    BY <1>2 DEF PutBack, Unplaced, bookVars
<1> QED BY <1>1, <1>2, <1>3, <1>4, PutBackIs, LeavesKeepJobs

LEMMA CrashIs ==
    ASSUME JobsInv, NEW w \in Workers, Crash(w)
    PROVE  /\ Goto(w, "idle") /\ job' \in JobTable /\ at[w].pc # "idle"
           /\ \/ job' = job /\ ~Owns(w)
              \/ /\ Owns(w)
                 /\ \A k \in (Items \cup Rows) \ {at[w].job} : job'[k] = job[k]
                 /\ job'[at[w].job].about = job[at[w].job].about
                 /\ job'[at[w].job].st = "claimed" /\ job'[at[w].job].by = Gone
<1> DEFINE j == at[w].job
           gone == [job EXCEPT ![j] = [job[j] EXCEPT !.by = Gone]]
<1>1. Goto(w, "idle") /\ at[w].pc # "idle" /\ job' = IF Owns(w) THEN gone ELSE job
    BY DEF Crash
<1>2. j \in Items \cup Rows /\ job \in JobTable
    BY <1>1 DEF JobsInv, PositionsFit, OrderTypeOK, JobTable
<1>3. [job[j] EXCEPT !.by = Gone] \in JobRecords /\ job[j] \in JobRecords
    BY <1>2, RowsAre DEF JobsInv
<1> HIDE DEF j
<1>4. /\ gone \in JobTable /\ \A k \in (Items \cup Rows) \ {j} : gone[k] = job[k]
      /\ gone[j].about = job[j].about /\ gone[j].st = job[j].st /\ gone[j].by = Gone
    BY <1>2, <1>3 DEF JobTable, JobRecords
<1> HIDE DEF gone
<1>5. Owns(w) => job[j].st = "claimed"
    BY DEF Owns, j
<1> QED BY <1>1, <1>2, <1>4, <1>5 DEF j

LEMMA CrashKeepsJobs ==
    ASSUME JobsInv, NEW w \in Workers, Crash(w)
    PROVE  JobsInv'
<1>1. order' = order
    BY DEF Crash, bookVars
<1>2. OrderTypeOK'
    <2>1. job' \in JobTable /\ at' \in [Workers -> Positions]
        BY CrashIs, GotoIs DEF JobsInv
    <2>2. losses' \in 0..MaxLosses
        BY OrderAssumption DEF Crash, JobsInv, OrderTypeOK
    <2>3. excuse' \in [Orders -> {"none", "gave_up", "raced", "outrun"}]
        BY DEF Crash, JobsInv, OrderTypeOK
    <2> QED BY <2>1, <2>2, <2>3 DEF Crash, JobsInv, OrderTypeOK, bookVars, JobTable
<1> QED BY <1>1, <1>2, CrashIs, LeavesKeepJobs

LEMMA ClaimIs ==
    ASSUME JobsInv, NEW w \in Workers, NEW j \in Items \cup Rows, Claim(w, j)
    PROVE  /\ at[w].pc = "idle" /\ job[j].st = "pending"
           /\ job' \in JobTable /\ at' \in [Workers -> Positions]
           /\ \A v \in Workers \ {w} : at'[v] = at[v]
           /\ \A k \in (Items \cup Rows) \ {j} : job'[k] = job[k]
           /\ at'[w].pc = "begin" /\ at'[w].job = j /\ at'[w].about = job[j].about /\ at'[w].tries > 0
           /\ job'[j].st = "claimed" /\ job'[j].by = w /\ job'[j].about = job[j].about
           /\ UNCHANGED <<bookVars, edit, boundVars, historyVars>>
<1> DEFINE row == [job[j] EXCEPT !.st = "claimed", !.by = w, !.tries = job[j].tries + 1]
           place1 == [pc |-> "begin", job |-> j, about |-> job[j].about,
                      tries |-> job[j].tries + 1, saw |-> {}]
<1>1. /\ at[w].pc = "idle" /\ job[j].st = "pending" /\ job[j].tries < MaxAttempts
      /\ job' = [job EXCEPT ![j] = row] /\ at' = [at EXCEPT ![w] = place1]
      /\ UNCHANGED <<bookVars, edit, boundVars, historyVars>>
    <2>1. at[w].pc = "idle" /\ job[j].st = "pending" /\ job[j].tries < MaxAttempts
        BY DEF Claim
    <2>2. at' = [at EXCEPT ![w] = place1]
        BY DEF Claim
    <2>3. UNCHANGED <<bookVars, edit, boundVars, historyVars>>
        BY DEF Claim, Unplaced
    <2>4. job' = [job EXCEPT ![j] = row]
        BY DEF Claim
    <2> QED BY <2>1, <2>2, <2>3, <2>4
<1>2. row \in JobRecords /\ job[j] \in JobRecords
    BY <1>1, RowsAre DEF JobsInv
<1>3. row.st = "claimed" /\ row.by = w /\ row.about = job[j].about
    BY <1>2 DEF JobRecords
<1>4. job[j].tries \in 0..MaxAttempts /\ job[j].about \in Orders \cup {Nowhere}
    BY <1>2 DEF JobRecords
<1>5. job[j].tries + 1 \in 0..MaxAttempts /\ job[j].tries + 1 > 0
    BY <1>1, <1>4, OrderAssumption
<1>6. /\ place1 \in Positions /\ place1.pc = "begin" /\ place1.job = j
      /\ place1.about = job[j].about /\ place1.tries > 0
    BY <1>4, <1>5 DEF Positions
<1> HIDE DEF row, place1
<1>7. job \in JobTable /\ at \in [Workers -> Positions]
    BY DEF JobsInv, OrderTypeOK, JobTable
<1>8. /\ job' \in JobTable /\ job'[j] = row /\ \A k \in (Items \cup Rows) \ {j} : job'[k] = job[k]
      /\ at' \in [Workers -> Positions] /\ at'[w] = place1 /\ \A v \in Workers \ {w} : at'[v] = at[v]
    BY <1>1, <1>2, <1>6, <1>7 DEF JobTable
<1> QED BY <1>1, <1>3, <1>6, <1>8

LEMMA ClaimKeepsJobs ==
    ASSUME JobsInv, NEW w \in Workers, NEW j \in Items \cup Rows, Claim(w, j)
    PROVE  JobsInv'
<1>1. /\ at[w].pc = "idle" /\ job[j].st = "pending"
      /\ \A v \in Workers \ {w} : at'[v] = at[v]
      /\ \A k \in (Items \cup Rows) \ {j} : job'[k] = job[k]
      /\ at'[w].pc = "begin" /\ at'[w].job = j /\ at'[w].about = job[j].about /\ at'[w].tries > 0
      /\ job'[j].st = "claimed" /\ job'[j].by = w /\ job'[j].about = job[j].about
      /\ order' = order
    BY ClaimIs DEF bookVars
<1>2. OrderTypeOK'
    BY ClaimIs, BooksStayType DEF JobsInv
<1>3. PositionsFit' /\ RowsFit'
    BY <1>1 DEF JobsInv, PositionsFit, RowsFit
<1>4. ClaimsAreHeld'
    BY <1>1 DEF JobsInv, ClaimsAreHeld, Handling
<1>5. OneAtTheModel'
    BY <1>1 DEF JobsInv, OneAtTheModel
<1> QED BY <1>2, <1>3, <1>4, <1>5 DEF JobsInv

\* What attaching an item leaves.
LEMMA AttachIs ==
    ASSUME JobsInv, NEW w \in Workers, NEW o \in Orders, Attach(w, o)
    PROVE  /\ at[w].pc = "model" /\ at[w].job \in Items /\ Goto(w, "finish")
           /\ order[o].st \in {"none", "live"}
           /\ order' \in [Orders -> OrderRecords]
           /\ order'[o].st = "live" /\ order'[o].covers = order[o].covers /\ order'[o].owner = "ai"
           /\ \A p \in Orders \ {o} : order'[p] = order[p]
           /\ place' \in [Items -> Orders \cup {Nowhere}]
           /\ place'[at[w].job] = o /\ \A k \in Items \ {at[w].job} : place'[k] = place[k]
           /\ filed' \in [Files -> {"absent", "pending", "attached", "failed", "gone"}]
           /\ at[w].job \in Files => filed'[at[w].job] = "attached"
           /\ \A f \in Files \ {at[w].job} : filed'[f] = filed[f]
           /\ job' = Enqueued(job, o) /\ job' \in JobTable /\ PendingWrite(job', o)
           /\ \A j \in Items \cup Rows :
                 \/ job'[j] = job[j]
                 \/ /\ j \in Rows /\ job[j].st = "none"
                    /\ job'[j].st = "pending" /\ job'[j].about = o
           /\ excuse' \in [Orders -> {"none", "gave_up", "raced", "outrun"}]
           /\ \A p \in Orders \ {o} : excuse'[p] = excuse[p]
           /\ bundled' \in [Items -> 0..2]
           /\ \A k \in Items \ {at[w].job} : bundled'[k] = bundled[k]
           /\ bundled[at[w].job] = 0 => bundled'[at[w].job] = 1
           /\ edit' = edit /\ edits' = edits /\ losses' = losses /\ reopened' = reopened
<1> DEFINE i == at[w].job
           row == [order[o] EXCEPT !.st = "live", !.owner = "ai", !.stale = TRUE]
<1>1. /\ at[w].pc = "model" /\ i \in Items /\ Goto(w, "finish")
      /\ order[o].st \in {"none", "live"} /\ FreeRows(job) # {}
      /\ place' = [place EXCEPT ![i] = o]
      /\ filed' = [f \in Files |-> IF f = i THEN "attached" ELSE filed[f]]
      /\ order' = [order EXCEPT ![o] = row]
      /\ job' = Enqueued(job, o)
      /\ excuse' = [excuse EXCEPT ![o] = "none"]
      /\ bundled' = [bundled EXCEPT ![i] = IF bundled[i] < 2 THEN bundled[i] + 1 ELSE bundled[i]]
      /\ edit' = edit /\ edits' = edits /\ losses' = losses /\ reopened' = reopened
    BY DEF Attach, Live, boundVars
<1>2. job \in JobTable
    BY DEF JobsInv, OrderTypeOK, JobTable
<1>3. /\ job' \in JobTable /\ PendingWrite(job', o)
      /\ \A j \in Items \cup Rows :
            \/ job'[j] = job[j]
            \/ /\ j \in Rows /\ job[j].st = "none"
               /\ job'[j].st = "pending" /\ job'[j].about = o
    <2>1. /\ Enqueued(job, o) \in JobTable /\ PendingWrite(Enqueued(job, o), o)
          /\ \A j \in Items \cup Rows :
                \/ Enqueued(job, o)[j] = job[j]
                \/ /\ j \in Rows /\ job[j].st = "none"
                   /\ Enqueued(job, o)[j].st = "pending" /\ Enqueued(job, o)[j].about = o
        BY <1>1, <1>2, EnqueuedIs
    <2> QED BY <1>1, <2>1
<1>4. order \in [Orders -> OrderRecords]
    BY DEF JobsInv, OrderTypeOK
<1>5. row \in OrderRecords /\ row.st = "live" /\ row.covers = order[o].covers /\ row.owner = "ai"
    <2>1. order[o] \in OrderRecords
        BY <1>4
    <2> QED BY <2>1 DEF OrderRecords
<1>6. /\ order' \in [Orders -> OrderRecords]
      /\ order'[o].st = "live" /\ order'[o].covers = order[o].covers /\ order'[o].owner = "ai"
      /\ \A p \in Orders \ {o} : order'[p] = order[p]
    <2> HIDE DEF row
    <2> QED BY <1>1, <1>4, <1>5
<1>7. /\ place \in [Items -> Orders \cup {Nowhere}]
      /\ filed \in [Files -> {"absent", "pending", "attached", "failed", "gone"}]
      /\ excuse \in [Orders -> {"none", "gave_up", "raced", "outrun"}]
      /\ bundled \in [Items -> 0..2]
    BY DEF JobsInv, OrderTypeOK
<1> HIDE DEF i, row
<1>8. /\ place' \in [Items -> Orders \cup {Nowhere}]
      /\ place'[i] = o /\ \A k \in Items \ {i} : place'[k] = place[k]
    BY <1>1, <1>7
<1>9. /\ filed' \in [Files -> {"absent", "pending", "attached", "failed", "gone"}]
      /\ i \in Files => filed'[i] = "attached"
      /\ \A f \in Files \ {i} : filed'[f] = filed[f]
    BY <1>1, <1>7
<1>10. /\ excuse' \in [Orders -> {"none", "gave_up", "raced", "outrun"}]
       /\ \A p \in Orders \ {o} : excuse'[p] = excuse[p]
    BY <1>1, <1>7
<1>11. /\ bundled' \in [Items -> 0..2]
       /\ \A k \in Items \ {i} : bundled'[k] = bundled[k]
       /\ bundled[i] = 0 => bundled'[i] = 1
    BY <1>1, <1>7
<1> QED BY <1>1, <1>3, <1>6, <1>8, <1>9, <1>10, <1>11 DEF i

LEMMA AttachKeepsJobs ==
    ASSUME JobsInv, NEW w \in Workers, NEW o \in Orders, Attach(w, o)
    PROVE  JobsInv'
<1>1. /\ at[w].pc = "model" /\ Goto(w, "finish") /\ job' \in JobTable
      /\ order[o].st \in {"none", "live"} /\ order'[o].st = "live"
      /\ \A p \in Orders \ {o} : order'[p] = order[p]
      /\ \A j \in Items \cup Rows :
            \/ job'[j] = job[j]
            \/ /\ j \in Rows /\ job[j].st = "none"
               /\ job'[j].st = "pending" /\ job'[j].about = o
    <2>1. at[w].pc = "model" /\ Goto(w, "finish") /\ job' \in JobTable
        BY AttachIs
    <2>2. order[o].st \in {"none", "live"} /\ order'[o].st = "live"
        BY AttachIs
    <2>3. \A p \in Orders \ {o} : order'[p] = order[p]
        BY AttachIs
    <2>4. \A j \in Items \cup Rows :
            \/ job'[j] = job[j]
            \/ /\ j \in Rows /\ job[j].st = "none"
               /\ job'[j].st = "pending" /\ job'[j].about = o
        BY AttachIs
    <2> QED BY <2>1, <2>2, <2>3, <2>4
<1>2. /\ at' \in [Workers -> Positions] /\ (\A v \in Workers \ {w} : at'[v] = at[v])
      /\ at'[w].pc = "finish" /\ at'[w].job = at[w].job /\ at'[w].about = at[w].about
      /\ at'[w].tries = at[w].tries
    BY <1>1, GotoIs DEF JobsInv
<1>3. OrderTypeOK'
    BY <1>2, AttachIs DEF JobsInv, OrderTypeOK, JobTable
<1>4. \A v \in Workers : Moves(v)
    BY <1>1, <1>2 DEF Moves, Handling
<1>5. Items \cap Rows = {}
    BY OrderAssumption
<1>6. \A j \in Items \cup Rows : RowStep(j)
    <2> SUFFICES ASSUME NEW j \in Rows, job[j].st = "none",
                        job'[j].st = "pending" /\ job'[j].about = o
                 PROVE  RowStep(j)
        BY <1>1 DEF RowStep
    <2> QED BY <1>1, <1>5 DEF RowStep
<1>7. OrdersAge
    BY <1>1 DEF OrdersAge
<1> QED BY <1>3, <1>4, <1>6, <1>7, StepKeepsJobs

LEMMA RewriteKeepsJobs ==
    ASSUME JobsInv, NEW o \in Orders, Rewrite(o)
    PROVE  JobsInv'
<1>1. /\ Live(o) /\ FreeRows(job) # {} /\ job' = Enqueued(job, o) /\ at' = at
      /\ UNCHANGED <<bookVars, edit, boundVars, historyVars>>
      /\ job \in JobTable
    BY DEF Rewrite, Unplaced, JobsInv, OrderTypeOK, JobTable
<1>2. /\ job' \in JobTable
      /\ \A j \in Items \cup Rows :
            \/ job'[j] = job[j]
            \/ /\ j \in Rows /\ job[j].st = "none"
               /\ job'[j].st = "pending" /\ job'[j].about = o
    <2>1. /\ Enqueued(job, o) \in JobTable
          /\ \A j \in Items \cup Rows :
                \/ Enqueued(job, o)[j] = job[j]
                \/ /\ j \in Rows /\ job[j].st = "none"
                   /\ Enqueued(job, o)[j].st = "pending" /\ Enqueued(job, o)[j].about = o
        BY <1>1, EnqueuedIs
    <2> QED BY <1>1, <2>1
<1>3. OrderTypeOK' /\ OrdersAge
    BY <1>1, <1>2, BooksStayType DEF JobsInv, OrderTypeOK
<1>4. Items \cap Rows = {}
    BY OrderAssumption
<1>5. \A j \in Items \cup Rows : RowStep(j)
    <2> SUFFICES ASSUME NEW j \in Rows, job[j].st = "none",
                        job'[j].st = "pending" /\ job'[j].about = o
                 PROVE  RowStep(j)
        BY <1>2 DEF RowStep
    <2>1. job'[j].about = o /\ order'[o].st # "none"
        BY <1>1 DEF bookVars, Live
    <2> QED BY <1>4, <2>1 DEF RowStep
<1>6. \A v \in Workers : Moves(v)
    BY <1>1 DEF Moves
<1> QED BY <1>3, <1>5, <1>6, StepKeepsJobs

\* Every lost row, and no other, is pending again.
LEMMA ReclaimIs ==
    ASSUME JobsInv, NEW late \in SUBSET Workers, Reclaim(late)
    PROVE  /\ job' \in JobTable /\ UNCHANGED at
           /\ UNCHANGED <<bookVars, edit, edits, historyVars>> /\ losses' \in 0..MaxLosses
           /\ \A j \in Items \cup Rows :
                 IF job[j].st = "claimed" /\ job[j].by \in {Gone} \cup late
                 THEN job'[j].st = "pending" /\ job'[j].about = job[j].about
                 ELSE job'[j] = job[j]
<1>1. /\ job' = [j \in Items \cup Rows |-> IF j \in Lost(late)
                    THEN [job[j] EXCEPT !.st = "pending", !.by = Nobody] ELSE job[j]]
      /\ UNCHANGED at /\ UNCHANGED <<bookVars, edit, edits, historyVars>>
    BY DEF Reclaim
<1>2. \A j \in Items \cup Rows :
          /\ job[j] \in JobRecords
          /\ [job[j] EXCEPT !.st = "pending", !.by = Nobody] \in JobRecords
    BY RowsAre DEF JobsInv
<1>3. job' \in JobTable
    BY <1>1, <1>2 DEF JobTable
<1>4. losses' \in 0..MaxLosses
    <2>1. /\ late # {} => losses < MaxLosses
          /\ losses' = IF late = {} THEN losses ELSE losses + 1
        BY DEF Reclaim
    <2>2. losses \in 0..MaxLosses /\ MaxLosses \in Nat
        BY OrderAssumption DEF JobsInv, OrderTypeOK
    <2> QED BY <2>1, <2>2
<1>5. ASSUME NEW j \in Items \cup Rows
      PROVE  IF job[j].st = "claimed" /\ job[j].by \in {Gone} \cup late
             THEN job'[j].st = "pending" /\ job'[j].about = job[j].about
             ELSE job'[j] = job[j]
    <2>1. j \in Lost(late) <=> job[j].st = "claimed" /\ job[j].by \in {Gone} \cup late
        BY DEF Lost
    <2>2. job'[j] = IF j \in Lost(late)
                    THEN [job[j] EXCEPT !.st = "pending", !.by = Nobody] ELSE job[j]
        BY <1>1
    <2> QED BY <1>2, <2>1, <2>2 DEF JobRecords
<1> QED BY <1>1, <1>3, <1>4, <1>5

LEMMA ReclaimKeepsJobs ==
    ASSUME JobsInv, NEW late \in SUBSET Workers, Reclaim(late)
    PROVE  JobsInv'
<1>1. /\ job' \in JobTable /\ UNCHANGED at
      /\ UNCHANGED <<bookVars, edit, edits, historyVars>> /\ losses' \in 0..MaxLosses
      /\ \A j \in Items \cup Rows :
            IF job[j].st = "claimed" /\ job[j].by \in {Gone} \cup late
            THEN job'[j].st = "pending" /\ job'[j].about = job[j].about
            ELSE job'[j] = job[j]
    BY ReclaimIs
<1>2. OrderTypeOK' /\ OrdersAge
    BY <1>1 DEF JobsInv, OrderTypeOK, bookVars, historyVars, OrdersAge, JobTable
<1>3. \A j \in Items \cup Rows : RowStep(j)
    BY <1>1 DEF RowStep
<1>4. \A w \in Workers : Moves(w)
    BY <1>1 DEF Moves
<1> QED BY <1>2, <1>3, <1>4, StepKeepsJobs

------------------------------------------------------------------------------
\* One row of orders is decided open or closed.
LEMMA DecidesKeepJobs ==
    ASSUME JobsInv, NEW o \in Orders, AutoClose(o) \/ \E open \in BOOLEAN : SetOpen(o, open)
    PROVE  JobsInv'
<1>1. PICK open \in BOOLEAN, owner \in {"user", "auto"} :
          order' = [order EXCEPT ![o] = [order[o] EXCEPT !.open = open, !.owner = owner]]
    BY DEF AutoClose, SetOpen
<1>2. UNCHANGED <<job, at, place, filed, edit, boundVars, historyVars>>
    BY DEF AutoClose, SetOpen
<1> DEFINE row == [order[o] EXCEPT !.open = open, !.owner = owner]
<1>3. order \in [Orders -> OrderRecords]
    BY DEF JobsInv, OrderTypeOK
<1>4. row \in OrderRecords /\ row.st = order[o].st
    <2>1. order[o] \in OrderRecords
        BY <1>3
    <2> QED BY <2>1 DEF OrderRecords
<1> HIDE DEF row
<1>5. order' \in [Orders -> OrderRecords] /\ order'[o] = row /\ \A p \in Orders \ {o} : order'[p] = order[p]
    BY <1>1, <1>3, <1>4 DEF row
<1>6. OrdersAge
    BY <1>4, <1>5 DEF OrdersAge
<1>7. OrderTypeOK'
    BY <1>2, <1>5 DEF JobsInv, OrderTypeOK, boundVars, historyVars
<1> QED BY <1>2, <1>6, <1>7, StillKeepsJobs

LEMMA PruneKeepsJobs ==
    ASSUME JobsInv, NEW f \in Files, Prune(f)
    PROVE  JobsInv'
<1>1. f \in Items
    BY DEF Items
<1>2. OrderTypeOK'
    BY <1>1 DEF Prune, JobsInv, OrderTypeOK, boundVars, historyVars
<1>3. OrdersAge /\ UNCHANGED <<job, at>>
    BY DEF Prune, OrdersAge
<1> QED BY <1>2, <1>3, StillKeepsJobs

LEMMA StartEditIs ==
    ASSUME OrderTypeOK, NEW kind \in {"detach", "file", "merge", "delete"}, NEW from,
           NEW to \in Orders \cup {Nowhere}, NEW moves \in SUBSET Items,
           StartEdit(kind, from, to, moves)
    PROVE  /\ OrderTypeOK'
           /\ edit = NoEdit /\ Live(from) /\ from \in Orders
           /\ edit'.at = "moved" /\ edit'.kind = kind /\ edit'.from = from /\ edit'.to = to
           /\ edit'.moves = moves /\ edit'.owed = {}
           /\ UNCHANGED <<bookVars, job, at, losses, historyVars>>
<1>1. /\ edit = NoEdit /\ Live(from) /\ edits < MaxEdits /\ edits' = edits + 1
      /\ edit' = [NoEdit EXCEPT !.at = "moved", !.kind = kind, !.from = from, !.to = to,
                                !.moves = moves]
      /\ UNCHANGED <<bookVars, job, at, losses, historyVars>>
    BY DEF StartEdit
<1>2. from \in Orders
    BY <1>1 DEF Live
<1>3. /\ edit' \in Edits /\ edit'.at = "moved" /\ edit'.kind = kind /\ edit'.from = from /\ edit'.to = to
      /\ edit'.moves = moves /\ edit'.owed = {}
    BY <1>1, <1>2 DEF NoEdit, Edits
<1>4. edits' \in 0..MaxEdits
    BY <1>1, OrderAssumption DEF OrderTypeOK
<1>5. OrderTypeOK'
    BY <1>1, <1>3, <1>4 DEF OrderTypeOK, bookVars, historyVars
<1> QED BY <1>1, <1>2, <1>3, <1>5

\* How an edit may begin.
EditBegins ==
    \E kind \in {"detach", "file", "merge", "delete"}, from \in Orders,
       to \in Orders \cup {Nowhere}, moves \in SUBSET Items :
        /\ StartEdit(kind, from, to, moves)
        /\ from # to /\ moves \subseteq Held(from)
        /\ to # Nowhere => Live(to)
        /\ to # Nowhere /\ moves \cap Files # {} => kind = "merge"

LEMMA EditsBegin ==
    ASSUME JobsInv,
           \/ \E i \in Mails, o \in Orders \cup {Nowhere} : Detach(i, o)
           \/ \E f \in Files : DeleteFile(f)
           \/ \E from, to \in Orders : Merge(from, to)
           \/ \E o \in Orders : Delete(o)
    PROVE  EditBegins
<1>0. Mails \cap Files = {} /\ Nowhere \notin Orders
    BY OrderAssumption
<1>1. ASSUME NEW i \in Mails, NEW o \in Orders \cup {Nowhere}, Detach(i, o)
      PROVE  EditBegins
    <2>1. /\ StartEdit("detach", place[i], o, {i}) /\ place[i] # o
          /\ o # Nowhere => Live(o)
          /\ {i} \in SUBSET Items /\ {i} \cap Files = {} /\ {i} \subseteq Held(place[i])
        BY <1>0, <1>1 DEF Detach, Items, Held
    <2>2. place[i] \in Orders
        BY <2>1 DEF StartEdit, Live
    <2> QED BY <2>1, <2>2 DEF EditBegins
<1>2. ASSUME NEW f \in Files, DeleteFile(f)
      PROVE  EditBegins
    <2>1. /\ StartEdit("file", place[f], Nowhere, {f})
          /\ {f} \in SUBSET Items /\ {f} \subseteq Held(place[f])
        BY <1>2 DEF DeleteFile, Items, Held
    <2>2. place[f] \in Orders
        BY <2>1 DEF StartEdit, Live
    <2> QED BY <1>0, <2>1, <2>2 DEF EditBegins
<1>3. ASSUME NEW from \in Orders, NEW to \in Orders, Merge(from, to)
      PROVE  EditBegins
    <2>1. StartEdit("merge", from, to, Held(from)) /\ from # to /\ Held(from) \in SUBSET Items
          /\ Live(to)
        BY <1>3 DEF Merge, Held
    <2> QED BY <2>1 DEF EditBegins
<1>4. ASSUME NEW o \in Orders, Delete(o)
      PROVE  EditBegins
    <2>1. StartEdit("delete", o, Nowhere, Held(o)) /\ Held(o) \in SUBSET Items
        BY <1>4 DEF Delete, Held
    <2> QED BY <1>0, <2>1 DEF EditBegins
<1> QED BY <1>1, <1>2, <1>3, <1>4

LEMMA EditBeginsKeepsJobs ==
    ASSUME JobsInv, EditBegins
    PROVE  JobsInv'
<1> PICK kind \in {"detach", "file", "merge", "delete"}, from \in Orders,
         to \in Orders \cup {Nowhere}, moves \in SUBSET Items : StartEdit(kind, from, to, moves)
    BY DEF EditBegins
<1>1. OrderTypeOK' /\ UNCHANGED <<bookVars, job, at, losses, historyVars>>
    BY StartEditIs DEF JobsInv
<1>2. OrdersAge
    BY <1>1 DEF OrdersAge, bookVars
<1> QED BY <1>1, <1>2, StillKeepsJobs

LEMMA LockIs ==
    ASSUME OrderTypeOK, Lock
    PROVE  /\ OrderTypeOK'
           /\ edit.at = "moved" /\ edit'.at = "locked" /\ edit'.kind = edit.kind
           /\ edit'.from = edit.from /\ edit'.to = edit.to /\ edit'.moves = edit.moves
           /\ edit'.owed = {o \in ToRewrite : ~PendingWrite(job, o)}
           /\ UNCHANGED <<bookVars, job, at, boundVars, historyVars>>
<1>1. edit \in Edits
    BY DEF OrderTypeOK
<1>2. ToRewrite \subseteq Orders
    BY <1>1 DEF ToRewrite, Edits
<1>3. {o \in ToRewrite : ~PendingWrite(job, o)} \in SUBSET Orders
    BY <1>2
<1> DEFINE owed == {o \in ToRewrite : ~PendingWrite(job, o)}
<1>4. edit' = [edit EXCEPT !.at = "locked", !.owed = owed] /\ edit.at = "moved"
      /\ UNCHANGED <<bookVars, job, at, boundVars, historyVars>>
    BY DEF Lock
<1> HIDE DEF owed
<1>5. /\ edit' \in Edits /\ edit'.at = "locked" /\ edit'.kind = edit.kind
      /\ edit'.from = edit.from /\ edit'.to = edit.to /\ edit'.moves = edit.moves
      /\ edit'.owed = owed
    BY <1>1, <1>3, <1>4 DEF Edits, owed
<1>6. OrderTypeOK'
    BY <1>4, <1>5 DEF OrderTypeOK, bookVars, boundVars, historyVars
<1> QED BY <1>4, <1>5, <1>6 DEF owed

LEMMA LockKeepsJobs == JobsInv /\ Lock => JobsInv'
<1> SUFFICES ASSUME JobsInv, Lock PROVE JobsInv'
    OBVIOUS
<1>1. OrderTypeOK' /\ OrdersAge /\ UNCHANGED <<job, at>>
    BY LockIs DEF JobsInv, OrdersAge, bookVars
<1> QED BY <1>1, StillKeepsJobs

------------------------------------------------------------------------------
\* What queueing a rewrite takes of the free rows.
LEMMA EnqueuedTakesOne ==
    ASSUME NEW jobs \in JobTable, NEW o \in Orders, PendingWrite(jobs, o) \/ FreeRows(jobs) # {}
    PROVE  \E r : FreeRows(jobs) \ {r} \subseteq FreeRows(Enqueued(jobs, o))
<1>1. CASE PendingWrite(jobs, o)
    BY <1>1 DEF Enqueued
<1>2. CASE ~PendingWrite(jobs, o)
    <2> DEFINE r == CHOOSE x \in FreeRows(jobs) : TRUE
    <2>1. Enqueued(jobs, o) = [jobs EXCEPT ![r] = [NoJob EXCEPT !.st = "pending", !.about = o]]
        BY <1>2 DEF Enqueued, Inserted
    <2> HIDE DEF r
    <2>2. FreeRows(jobs) \ {r} \subseteq FreeRows(Enqueued(jobs, o))
        BY <2>1 DEF FreeRows, JobTable
    <2> QED BY <2>2
<1> QED BY <1>1, <1>2

\* Both orders of an edit get their rewrite queued when there is room for both.
Queued(jobs, O, o) == IF o \in O THEN Enqueued(jobs, o) ELSE jobs

LEMMA QueuedBoth ==
    ASSUME NEW jobs \in JobTable, NEW a, NEW b, a # b, NEW O \in SUBSET Orders, O \subseteq {a, b},
           Cardinality(FreeRows(jobs)) >= Cardinality(O)
    PROVE  LET new == Queued(Queued(jobs, O, a), O, b) IN
           /\ new \in JobTable
           /\ \A o \in O : PendingWrite(new, o)
           /\ \A j \in Items \cup Rows :
                 \/ new[j] = jobs[j]
                 \/ j \in Rows /\ jobs[j].st = "none" /\ new[j].st = "pending" /\ new[j].about \in O
<1> DEFINE mid == Queued(jobs, O, a)
           new == Queued(mid, O, b)
<1>1. IsFiniteSet(FreeRows(jobs))
    <2>1. IsFiniteSet(Rows) /\ FreeRows(jobs) \subseteq Rows
        BY OrderAssumption DEF FreeRows
    <2> QED BY <2>1, FS_Subset
<1>2. IsFiniteSet(O) /\ Cardinality(O) \in Nat /\ Cardinality(FreeRows(jobs)) \in Nat
    <2>1. IsFiniteSet({a, b})
        <3>1. IsFiniteSet({a}) /\ {a, b} = {a} \cup {b}
            BY FS_Singleton
        <3> QED BY <3>1, FS_AddElement
    <2>2. IsFiniteSet(O)
        BY <2>1, FS_Subset
    <2> QED BY <1>1, <2>2, FS_CardinalityType
<1>3. O # {} => FreeRows(jobs) # {}
    BY <1>1, <1>2, FS_EmptySet
<1>4. ASSUME NEW r, FreeRows(jobs) \ {r} = {}, a \in O, b \in O PROVE FALSE
    <2>1. IsFiniteSet({a}) /\ Cardinality({a}) = 1 /\ O = {a} \cup {b} /\ b \notin {a}
        BY <1>4, FS_Singleton
    <2>2. Cardinality(O) = 2
        BY <2>1, FS_AddElement
    <2>3. FreeRows(jobs) \subseteq {r} /\ IsFiniteSet({r}) /\ Cardinality({r}) = 1
        BY <1>4, FS_Singleton
    <2>4. Cardinality(FreeRows(jobs)) <= 1
        BY <2>3, FS_Subset
    <2> QED BY <1>2, <2>2, <2>4
<1>5. /\ mid \in JobTable
      /\ a \in O => PendingWrite(mid, a)
      /\ \A j \in Items \cup Rows :
            \/ mid[j] = jobs[j]
            \/ j \in Rows /\ jobs[j].st = "none" /\ mid[j].st = "pending" /\ mid[j].about \in O
      /\ b \in O => FreeRows(mid) # {}
    <2>1. CASE a \in O
        <3>1. a \in Orders /\ FreeRows(jobs) # {} /\ mid = Enqueued(jobs, a)
            BY <1>3, <2>1 DEF Queued
        <3>2. PICK r : FreeRows(jobs) \ {r} \subseteq FreeRows(Enqueued(jobs, a))
            BY <3>1, EnqueuedTakesOne
        <3>3. b \in O => FreeRows(mid) # {}
            BY <1>4, <2>1, <3>1, <3>2
        <3>4. /\ Enqueued(jobs, a) \in JobTable
              /\ PendingWrite(Enqueued(jobs, a), a)
              /\ \A j \in Items \cup Rows :
                    \/ Enqueued(jobs, a)[j] = jobs[j]
                    \/ /\ j \in Rows /\ jobs[j].st = "none"
                       /\ Enqueued(jobs, a)[j].st = "pending" /\ Enqueued(jobs, a)[j].about = a
            BY <3>1, EnqueuedIs
        <3> QED BY <2>1, <3>1, <3>3, <3>4
    <2>2. CASE a \notin O
        BY <1>3, <2>2 DEF Queued
    <2> QED BY <2>1, <2>2
<1> HIDE DEF mid
<1>6. CASE b \in O
    <2>1. b \in Orders /\ FreeRows(mid) # {} /\ new = Enqueued(mid, b)
        BY <1>5, <1>6 DEF Queued
    <2>2. /\ Enqueued(mid, b) \in JobTable
          /\ PendingWrite(Enqueued(mid, b), b)
          /\ \A j \in Items \cup Rows :
                \/ Enqueued(mid, b)[j] = mid[j]
                \/ /\ j \in Rows /\ mid[j].st = "none"
                   /\ Enqueued(mid, b)[j].st = "pending" /\ Enqueued(mid, b)[j].about = b
        BY <1>5, <2>1, EnqueuedIs
    <2>3. \A j \in Items \cup Rows :
                 \/ new[j] = jobs[j]
                 \/ j \in Rows /\ jobs[j].st = "none" /\ new[j].st = "pending" /\ new[j].about \in O
        BY <1>5, <1>6, <2>1, <2>2
    <2>4. a \in O => PendingWrite(new, a)
        BY <1>5, <2>1, <2>2 DEF PendingWrite
    <2> HIDE DEF new
    <2>5. new \in JobTable /\ \A o \in O : PendingWrite(new, o)
        BY <2>1, <2>2, <2>4
    <2> QED BY <2>3, <2>5 DEF new, mid
<1>7. CASE b \notin O
    <2>1. new = mid /\ O \subseteq {a}
        BY <1>7 DEF Queued
    <2> QED BY <1>5, <2>1 DEF mid
<1> QED BY <1>6, <1>7

\* Where an edit's commit leaves an item, and the table before the rewrites
\* are queued.
PlaceAfter(i) ==
    IF i \in edit.moves THEN edit.to
    ELSE IF Dies /\ place[i] = edit.from THEN Nowhere ELSE place[i]
Dropped == {i \in Items : place[i] # Nowhere /\ PlaceAfter(i) = Nowhere}
Kept == [j \in DOMAIN job |->
            IF Dies /\ j \in Rows /\ job[j].about = edit.from THEN Ended(job, j)[j] ELSE job[j]]

LEMMA KeptIs ==
    ASSUME JobsInv
    PROVE  /\ Kept \in JobTable
           /\ \A j \in Items \cup Rows :
                 IF Dies /\ j \in Rows /\ job[j].about = edit.from THEN Kept[j].st = "none"
                 ELSE Kept[j] = job[j]
<1>1. job \in JobTable /\ DOMAIN job = Items \cup Rows
    BY DEF JobsInv, OrderTypeOK, JobTable
<1>2. ASSUME NEW j \in Rows
      PROVE  Ended(job, j)[j] \in JobRecords /\ Ended(job, j)[j].st = "none"
    <2>1. [NoJob EXCEPT !.st = "none"] \in JobRecords
        BY RowsAre DEF JobsInv
    <2>2. Ended(job, j)[j] = [NoJob EXCEPT !.st = "none"]
        BY <1>1 DEF Ended, JobTable
    <2> QED BY <2>1, <2>2 DEF NoJob
<1>3. \A j \in Items \cup Rows : job[j] \in JobRecords
    BY <1>1 DEF JobTable
<1>4. Kept \in JobTable
    BY <1>1, <1>2, <1>3 DEF Kept, JobTable
<1>5. \A j \in Items \cup Rows :
          IF Dies /\ j \in Rows /\ job[j].about = edit.from THEN Kept[j].st = "none"
          ELSE Kept[j] = job[j]
    BY <1>1, <1>2 DEF Kept
<1> QED BY <1>4, <1>5

LEMMA CommitJobs ==
    ASSUME JobsInv, EditFits, Commit
    PROVE  /\ job' \in JobTable
           /\ \A j \in Items \cup Rows :
                 \/ job'[j] = job[j]
                 \/ /\ j \in Rows
                    /\ job[j].st = "none" \/ (Dies /\ job[j].about = edit.from)
                    /\ \/ job'[j].st = "none"
                       \/ job'[j].st = "pending" /\ job'[j].about \in edit.owed
           /\ \A o \in edit.owed : PendingWrite(job', o)
           /\ edit.at = "locked" /\ edit.from \in Orders /\ at' = at
<1>1. /\ edit.at = "locked" /\ at' = at
      /\ Cardinality(FreeRows(Kept)) >= Cardinality(edit.owed)
      /\ job' = Queued(Queued(Kept, edit.owed, edit.from), edit.owed, edit.to)
    BY DEF Commit, Kept, Queued
<1>2. /\ edit.from \in Orders /\ edit.from # edit.to /\ edit.owed \subseteq {edit.from, edit.to}
      /\ edit.owed \in SUBSET Orders
    BY <1>1 DEF EditFits, JobsInv, OrderTypeOK, Edits
<1>3. /\ job' \in JobTable
      /\ \A o \in edit.owed : PendingWrite(job', o)
      /\ \A j \in Items \cup Rows :
            \/ job'[j] = Kept[j]
            \/ /\ j \in Rows /\ Kept[j].st = "none"
               /\ job'[j].st = "pending" /\ job'[j].about \in edit.owed
    BY <1>1, <1>2, KeptIs, QueuedBoth
<1> QED BY <1>1, <1>2, <1>3, KeptIs

LEMMA CommitBooks ==
    ASSUME JobsInv, EditFits, Commit
    PROVE  /\ place' \in [Items -> Orders \cup {Nowhere}]
           /\ \A i \in Items : place'[i] = PlaceAfter(i)
           /\ filed' \in [Files -> {"absent", "pending", "attached", "failed", "gone"}]
           /\ \A f \in Files : filed'[f] = IF f \in Dropped THEN "gone" ELSE filed[f]
           /\ order' \in [Orders -> OrderRecords]
           /\ \A o \in Orders :
                 IF Dies /\ o = edit.from THEN order'[o].st = "gone"
                 ELSE order'[o].st = order[o].st /\ order'[o].covers = order[o].covers
           /\ excuse' \in [Orders -> {"none", "gave_up", "raced", "outrun"}]
           /\ \A o \in Orders : ~(Dies /\ o = edit.from) =>
                 IF o \in ToRewrite THEN excuse'[o] # "none" \/ PendingWrite(job', o)
                 ELSE excuse'[o] = excuse[o]
           /\ reopened' = reopened \cup {i \in Dropped : Unfinished(i)}
           /\ edit' = NoEdit /\ edits' = edits /\ losses' = losses /\ bundled' = bundled
<1>1. /\ place' = [i \in Items |-> PlaceAfter(i)]
      /\ filed' = [f \in Files |-> IF f \in Dropped THEN "gone" ELSE filed[f]]
      /\ reopened' = reopened \cup {i \in Dropped : Unfinished(i)}
      /\ edit' = NoEdit /\ edits' = edits /\ losses' = losses /\ bundled' = bundled
    BY DEF Commit, PlaceAfter, Dropped, boundVars
<1>2. order' = [o \in Orders |->
                    IF Dies /\ o = edit.from THEN [Unwritten EXCEPT !.st = "gone"]
                    ELSE IF o \in ToRewrite THEN [order[o] EXCEPT !.stale = TRUE] ELSE order[o]]
    BY DEF Commit
<1>3. excuse' = [o \in Orders |->
                    IF Dies /\ o = edit.from THEN "none"
                    ELSE IF o \in ToRewrite /\ PendingWrite(job', o) THEN "none"
                    ELSE IF o \in ToRewrite THEN "raced" ELSE excuse[o]]
    BY DEF Commit
<1>4. /\ place \in [Items -> Orders \cup {Nowhere}]
      /\ filed \in [Files -> {"absent", "pending", "attached", "failed", "gone"}]
      /\ order \in [Orders -> OrderRecords]
      /\ excuse \in [Orders -> {"none", "gave_up", "raced", "outrun"}]
      /\ edit \in Edits
    BY DEF JobsInv, OrderTypeOK
<1>5. \A i \in Items : PlaceAfter(i) \in Orders \cup {Nowhere}
    BY <1>4 DEF PlaceAfter, Edits
<1>6. /\ place' \in [Items -> Orders \cup {Nowhere}]
      /\ \A i \in Items : place'[i] = PlaceAfter(i)
    BY <1>1, <1>5
<1>7. /\ filed' \in [Files -> {"absent", "pending", "attached", "failed", "gone"}]
      /\ \A f \in Files : filed'[f] = IF f \in Dropped THEN "gone" ELSE filed[f]
    BY <1>1, <1>4
<1>8. [Unwritten EXCEPT !.st = "gone"] \in OrderRecords /\ [Unwritten EXCEPT !.st = "gone"].st = "gone"
    BY DEF Unwritten, OrderRecords
<1>9. ASSUME NEW o \in Orders
      PROVE  /\ order[o] \in OrderRecords
             /\ [order[o] EXCEPT !.stale = TRUE] \in OrderRecords
             /\ [order[o] EXCEPT !.stale = TRUE].st = order[o].st
             /\ [order[o] EXCEPT !.stale = TRUE].covers = order[o].covers
    <2>1. order[o] \in OrderRecords
        BY <1>4
    <2> QED BY <2>1 DEF OrderRecords
<1>10. /\ order' \in [Orders -> OrderRecords]
       /\ \A o \in Orders :
             IF Dies /\ o = edit.from THEN order'[o].st = "gone"
             ELSE order'[o].st = order[o].st /\ order'[o].covers = order[o].covers
    <2> DEFINE gone == [Unwritten EXCEPT !.st = "gone"]
               stale(o) == [order[o] EXCEPT !.stale = TRUE]
    <2>1. order' = [o \in Orders |-> IF Dies /\ o = edit.from THEN gone
                                     ELSE IF o \in ToRewrite THEN stale(o) ELSE order[o]]
        BY <1>2
    <2>2. gone \in OrderRecords /\ gone.st = "gone"
        BY <1>8
    <2>3. \A o \in Orders : /\ order[o] \in OrderRecords /\ stale(o) \in OrderRecords
                            /\ stale(o).st = order[o].st /\ stale(o).covers = order[o].covers
        BY <1>9
    <2> HIDE DEF gone, stale
    <2> QED BY <2>1, <2>2, <2>3
<1>11. /\ excuse' \in [Orders -> {"none", "gave_up", "raced", "outrun"}]
       /\ \A o \in Orders : ~(Dies /\ o = edit.from) =>
             IF o \in ToRewrite THEN excuse'[o] # "none" \/ PendingWrite(job', o)
             ELSE excuse'[o] = excuse[o]
    BY <1>3, <1>4
<1> QED BY <1>1, <1>6, <1>7, <1>10, <1>11

LEMMA CommitKeepsJobs ==
    ASSUME JobsInv, EditFits, Commit
    PROVE  JobsInv'
<1>1. /\ job' \in JobTable
      /\ \A j \in Items \cup Rows :
            \/ job'[j] = job[j]
            \/ /\ j \in Rows
               /\ job[j].st = "none" \/ (Dies /\ job[j].about = edit.from)
               /\ \/ job'[j].st = "none"
                  \/ job'[j].st = "pending" /\ job'[j].about \in edit.owed
      /\ edit.at = "locked" /\ edit.from \in Orders /\ at' = at
    BY CommitJobs
<1>2. OrderTypeOK'
    <2>1. NoEdit \in Edits
        BY DEF NoEdit, Edits
    <2>2. /\ place' \in [Items -> Orders \cup {Nowhere}]
          /\ filed' \in [Files -> {"absent", "pending", "attached", "failed", "gone"}]
          /\ order' \in [Orders -> OrderRecords]
          /\ excuse' \in [Orders -> {"none", "gave_up", "raced", "outrun"}]
          /\ edit' = NoEdit /\ edits' = edits /\ losses' = losses /\ bundled' = bundled
        BY CommitBooks
    <2>3. reopened' \subseteq Items
        BY CommitBooks DEF Dropped, JobsInv, OrderTypeOK
    <2> QED BY <1>1, <2>1, <2>2, <2>3 DEF JobsInv, OrderTypeOK, JobTable
<1>3. \A o \in Orders :
          IF Dies /\ o = edit.from THEN order'[o].st = "gone" ELSE order'[o].st = order[o].st
    BY CommitBooks
<1>4. OrdersAge
    BY <1>3 DEF OrdersAge
<1>5. \A o \in edit.owed : o \in Orders /\ order'[o].st # "none"
    <2>1. edit.owed \subseteq Orders /\ edit.owed \subseteq {edit.from, edit.to}
        BY <1>1 DEF JobsInv, OrderTypeOK, Edits, EditFits
    <2>2. \A o \in edit.owed : order[o].st # "none"
        BY <1>1, <2>1, OrderAssumption DEF EditFits
    <2> QED BY <1>3, <2>1, <2>2
<1>6. \A j \in Items \cup Rows : RowStep(j)
    BY <1>1, <1>5 DEF RowStep
<1>7. \A w \in Workers : Moves(w)
    BY <1>1 DEF Moves
<1> QED BY <1>2, <1>4, <1>6, <1>7, StepKeepsJobs

------------------------------------------------------------------------------
\* What the job of an item may become.
ItemStep(i) ==
    /\ job[i].st = "done" => job'[i].st = "done"
    /\ job[i].st # "none" => job'[i].st # "none"
    /\ job[i].st = "none" /\ i \in Files => job'[i].st = "none"

\* A step in which nobody comes to the model, or back to a job that had ended.
NobodyArrives ==
    \A w \in Workers :
        /\ at'[w].pc = "model" => at'[w] = at[w]
        /\ at'[w].pc = "begin" => at'[w] = at[w] \/ job[at'[w].job].st = "pending"

\* So an item that was ended stays so.
LEMMA EndedStays ==
    ASSUME NEW i \in Items, ItemStep(i), NobodyArrives, job \in JobTable,
           Unfinished(i)', job[i].st # "none"
    PROVE  Unfinished(i)
<1>1. job[i].st \in {"none", "pending", "claimed", "done"}
    BY DEF JobTable, JobRecords
<1> QED BY <1>1 DEF Unfinished, ItemStep, NobodyArrives

LEMMA QuietKeepsBooks ==
    ASSUME JobsInv, BooksInv, UNCHANGED <<place, filed, edit, bundled, reopened>>,
           OrdersAge, \A i \in Items : ItemStep(i), NobodyArrives
    PROVE  BooksInv'
<1>0. Mails \subseteq Items /\ Files \subseteq Items
    BY DEF Items
<1>1. AbsentFiles'
    BY <1>0 DEF BooksInv, AbsentFiles, ItemStep
<1>2. EditFits'
    <2>1. edit \in Edits
        BY DEF JobsInv, OrderTypeOK
    <2>2. edit.at # "none" => \A o \in {edit.from, edit.to} \ {Nowhere} : order'[o].st # "none"
        BY <2>1 DEF BooksInv, EditFits, OrdersAge, Edits
    <2> QED BY <2>2 DEF BooksInv, EditFits
<1>3. MailsAtTheModel'
    BY DEF BooksInv, MailsAtTheModel, NobodyArrives
<1>4. FilesAtTheModel'
    <2> SUFFICES ASSUME NEW w \in Workers, at'[w].pc = "model", at'[w].job \in Files
                 PROVE  /\ filed[at'[w].job] # "attached"
                        /\ place[at'[w].job] # Nowhere =>
                              \A o \in at'[w].saw : Live(o)' => o = place[at'[w].job]
        BY DEF FilesAtTheModel, Live
    <2>1. at'[w] = at[w]
        BY DEF NobodyArrives
    <2>2. ASSUME place[at'[w].job] # Nowhere, NEW o \in at'[w].saw, Live(o)'
          PROVE  o = place[at'[w].job]
        <3>1. order[o].st # "none" /\ o \in Orders
            BY <1>0, <2>1, <2>2 DEF BooksInv, SawWhatItIs
        <3>2. Live(o)
            BY <2>2, <3>1 DEF OrdersAge, Live
        <3> QED BY <2>1, <2>2, <3>2 DEF BooksInv, FilesAtTheModel
    <2> QED BY <2>1, <2>2 DEF BooksInv, FilesAtTheModel
<1>5. SawWhatItIs'
    BY DEF BooksInv, SawWhatItIs, NobodyArrives, OrdersAge
<1>6. BundledIsDealt'
    <2>1. job \in JobTable
        BY DEF JobsInv, OrderTypeOK, JobTable
    <2>2. ASSUME NEW i \in Items, job[i].st # "none", Dealt(i) PROVE Dealt(i)'
        <3>1. Unfinished(i)' => Unfinished(i)
            BY <2>1, <2>2, EndedStays
        <3> QED BY <2>2, <3>1 DEF Dealt
    <2> QED BY <2>2 DEF BooksInv, BundledIsDealt, ItemStep, NobodyArrives
<1>7. PlacedSomewhere'
    <2>1. place \in [Items -> Orders \cup {Nowhere}]
        BY DEF JobsInv, OrderTypeOK
    <2> QED BY <2>1 DEF BooksInv, PlacedSomewhere, OrdersAge
<1> QED BY <1>1, <1>2, <1>3, <1>4, <1>5, <1>6, <1>7 DEF BooksInv

LEMMA QueueMailKeepsBooks ==
    ASSUME JobsInv, BooksInv, NEW i \in Mails, QueueMail(i)
    PROVE  BooksInv'
<1>1. /\ job[i].st = "none" /\ at' = at /\ UNCHANGED <<bookVars, edit, boundVars, historyVars>>
      /\ job' = [job EXCEPT ![i] = [NoJob EXCEPT !.st = "pending", !.about = Nowhere]]
    BY DEF QueueMail, Unplaced, Inserted
<1>2. Mails \cap Files = {} /\ i \in Items
    BY OrderAssumption DEF Items
<1>3. job \in JobTable
    BY DEF JobsInv, OrderTypeOK, JobTable
<1>4. job'[i].st = "pending" /\ \A j \in Items \ {i} : job'[j] = job[j]
    BY <1>1, <1>2, <1>3 DEF JobTable, NoJob
<1>5. \A j \in Items : ItemStep(j)
    BY <1>1, <1>2, <1>4 DEF ItemStep
<1>6. OrdersAge /\ NobodyArrives /\ UNCHANGED <<place, filed, edit, bundled, reopened>>
    BY <1>1 DEF OrdersAge, NobodyArrives, bookVars, historyVars
<1> QED BY <1>5, <1>6, QuietKeepsBooks

LEMMA ClaimKeepsBooks ==
    ASSUME JobsInv, BooksInv, NEW w \in Workers, NEW j \in Items \cup Rows, Claim(w, j)
    PROVE  BooksInv'
<1>1. /\ job[j].st = "pending" /\ job'[j].st = "claimed"
      /\ \A v \in Workers \ {w} : at'[v] = at[v]
      /\ \A k \in (Items \cup Rows) \ {j} : job'[k] = job[k]
      /\ at'[w].pc = "begin" /\ at'[w].job = j
      /\ UNCHANGED <<bookVars, edit, boundVars, historyVars>>
    BY ClaimIs
<1>2. \A i \in Items : ItemStep(i)
    BY <1>1 DEF ItemStep
<1>3. OrdersAge /\ NobodyArrives /\ UNCHANGED <<place, filed, edit, bundled, reopened>>
    BY <1>1 DEF OrdersAge, NobodyArrives, bookVars, historyVars
<1> QED BY <1>2, <1>3, QuietKeepsBooks

LEMMA WalksKeepBooks ==
    ASSUME JobsInv, BooksInv, NEW w \in Workers, Refuse(w) \/ SkipFile(w) \/ Raise(w)
    PROVE  BooksInv'
<1>1. /\ at[w].pc = "model" /\ job' = job /\ UNCHANGED <<bookVars, edit, boundVars, historyVars>>
      /\ \E s \in {"finish", "raised"} : Goto(w, s)
    BY DEF Refuse, SkipFile, Raise, Unplaced
<1>2. /\ \A v \in Workers \ {w} : at'[v] = at[v]
      /\ at'[w].pc \in {"finish", "raised"} /\ at'[w].job = at[w].job
    BY <1>1, GotoIs DEF JobsInv
<1>3. \A i \in Items : ItemStep(i)
    BY <1>1 DEF ItemStep
<1>4. OrdersAge /\ NobodyArrives /\ UNCHANGED <<place, filed, edit, bundled, reopened>>
    BY <1>1, <1>2 DEF OrdersAge, NobodyArrives, bookVars, historyVars
<1> QED BY <1>3, <1>4, QuietKeepsBooks

LEMMA EndsKeepBooks ==
    ASSUME JobsInv, BooksInv, NEW w \in Workers, Complete(w) \/ Fail(w)
    PROVE  BooksInv'
<1> DEFINE j == at[w].job
           row == [NoJob EXCEPT !.st = IF j \in Rows THEN "none" ELSE "done"]
<1>1. /\ at[w].pc \in {"model", "raised", "finish"} /\ j \in Items \cup Rows
      /\ at[w].pc = "finish" => Goto(w, "idle")
      /\ job' = (IF Owns(w) THEN [job EXCEPT ![j] = row] ELSE job)
      /\ \E s \in {"idle", "settle"} : Goto(w, s)
      /\ UNCHANGED <<bookVars, edit, boundVars, historyVars>>
    BY DEF Complete, Fail, Ended, Unplaced, JobsInv, PositionsFit
<1>2. job \in JobTable /\ Items \cap Rows = {}
    BY OrderAssumption DEF JobsInv, OrderTypeOK, JobTable
<1>3. /\ \A v \in Workers \ {w} : at'[v] = at[v]
      /\ at'[w].pc \in {"idle", "settle"}
      /\ at'[w].pc = "settle" => at'[w].job = at[w].job /\ at[w].pc # "finish"
    BY <1>1, GotoIs DEF JobsInv
<1>4. row.st = IF j \in Rows THEN "none" ELSE "done"
    BY DEF NoJob
<1>5. \A i \in Items : ItemStep(i)
    <2>1. CASE Owns(w)
        <3>1. job' = [job EXCEPT ![j] = row] /\ job[j].st = "claimed"
            BY <1>1, <2>1 DEF Owns
        <3> HIDE DEF row, j
        <3>2. job'[j] = row /\ \A k \in (Items \cup Rows) \ {j} : job'[k] = job[k]
            BY <1>1, <1>2, <3>1 DEF JobTable
        <3> QED BY <1>2, <1>4, <3>1, <3>2 DEF ItemStep
    <2>2. CASE ~Owns(w)
        BY <1>1, <2>2 DEF ItemStep
    <2> QED BY <2>1, <2>2
<1>6. OrdersAge /\ NobodyArrives /\ UNCHANGED <<place, filed, edit, bundled, reopened>>
    BY <1>1, <1>3 DEF OrdersAge, NobodyArrives, bookVars, historyVars
<1> QED BY <1>5, <1>6, QuietKeepsBooks

LEMMA LeavesKeepBooks ==
    ASSUME JobsInv, BooksInv, NEW w \in Workers, GiveBack(w) \/ Retry(w) \/ Crash(w)
    PROVE  BooksInv'
<1>1. /\ Goto(w, "idle") /\ UNCHANGED <<bookVars, edit, bundled, reopened>>
      /\ \/ job' = job
         \/ /\ Owns(w)
            /\ \A k \in (Items \cup Rows) \ {at[w].job} : job'[k] = job[k]
            /\ job'[at[w].job].st \in {"pending", "claimed"}
    <2>1. CASE Crash(w)
        BY <2>1, CrashIs DEF Crash
    <2>2. CASE GiveBack(w) \/ Retry(w)
        <3>1. at[w].pc # "idle"
            BY <2>2 DEF GiveBack, Retry
        <3>2. PICK n \in 0..MaxAttempts : PutBack(w, n)
            <4>1. at[w].tries \in 0..MaxAttempts /\ at[w].tries > 0 /\ MaxAttempts \in Nat
                BY <3>1, OrderAssumption DEF JobsInv, PositionsFit, OrderTypeOK, Positions
            <4>2. at[w].tries - 1 \in 0..MaxAttempts
                BY <4>1
            <4> QED BY <2>2, <4>1, <4>2 DEF GiveBack, Retry
        <3> QED BY <3>1, <3>2, PutBackIs DEF historyVars
    <2> QED BY <2>1, <2>2
<1>2. (\A v \in Workers \ {w} : at'[v] = at[v]) /\ at'[w].pc = "idle"
    BY <1>1, GotoIs DEF JobsInv
<1>3. \A i \in Items : ItemStep(i)
    BY <1>1 DEF ItemStep, Owns
<1>4. OrdersAge /\ NobodyArrives /\ UNCHANGED <<place, filed, edit, bundled, reopened>>
    BY <1>1, <1>2 DEF OrdersAge, NobodyArrives, bookVars
<1> QED BY <1>3, <1>4, QuietKeepsBooks

LEMMA WriteKeepsBooks ==
    ASSUME JobsInv, BooksInv, NEW w \in Workers, NEW open \in BOOLEAN, Write(w, open)
    PROVE  BooksInv'
<1> DEFINE o == at[w].about
<1>1. /\ at[w].pc = "model" /\ at[w].job \in Rows /\ Goto(w, "finish")
      /\ UNCHANGED <<job, place, filed, edit, bundled, reopened>>
      /\ order' = IF Live(o) THEN [order EXCEPT ![o] = Written(order[o], at[w].saw, open)] ELSE order
    BY DEF Write, historyVars
<1>2. (\A v \in Workers \ {w} : at'[v] = at[v]) /\ at'[w].pc = "finish"
    BY <1>1, GotoIs DEF JobsInv
<1>3. at[w].saw \in SUBSET Items
    BY <1>1 DEF BooksInv, SawWhatItIs
<1>4. OrdersAge
    <2>1. CASE Live(o)
        <3>1. o \in Orders /\ order \in [Orders -> OrderRecords]
            BY <2>1 DEF Live, JobsInv, OrderTypeOK
        <3>2. Written(order[o], at[w].saw, open).st = order[o].st
            BY <1>3, <3>1, WrittenIs DEF JobsInv
        <3> HIDE DEF o
        <3> QED BY <1>1, <2>1, <3>1, <3>2 DEF OrdersAge
    <2>2. CASE ~Live(o)
        BY <1>1, <2>2 DEF OrdersAge
    <2> QED BY <2>1, <2>2
<1>5. (\A i \in Items : ItemStep(i)) /\ NobodyArrives
    BY <1>1, <1>2 DEF ItemStep, NobodyArrives
<1> QED BY <1>1, <1>4, <1>5, QuietKeepsBooks

LEMMA SettleWriteKeepsBooks ==
    ASSUME JobsInv, BooksInv, NEW w \in Workers, SettleWrite(w)
    PROVE  BooksInv'
<1> DEFINE o == at[w].about
<1>1. /\ at[w].pc = "settle" /\ at[w].job \in Rows /\ Goto(w, "idle")
      /\ UNCHANGED <<job, place, filed, edit, bundled, reopened>>
      /\ order' = IF ~Live(o) THEN order
                  ELSE IF order[o].written THEN [order EXCEPT ![o].stale = FALSE]
                  ELSE [order EXCEPT ![o] = Written(order[o], {}, TRUE)]
    BY DEF SettleWrite
<1>2. (\A v \in Workers \ {w} : at'[v] = at[v]) /\ at'[w].pc = "idle"
    BY <1>1, GotoIs DEF JobsInv
<1>3. o \in Orders /\ order \in [Orders -> OrderRecords]
    BY <1>1 DEF JobsInv, PositionsFit, OrderTypeOK
<1>4. OrdersAge
    <2> HIDE DEF o
    <2>1. Written(order[o], {}, TRUE).st = order[o].st
        <3>1. OrderTypeOK /\ {} \in SUBSET Items /\ TRUE \in BOOLEAN
            BY DEF JobsInv
        <3> QED BY <1>3, <3>1, WrittenIs
    <2>2. order[o] \in OrderRecords /\ [order[o] EXCEPT !.stale = FALSE].st = order[o].st
        BY <1>3 DEF OrderRecords
    <2> QED BY <1>1, <1>3, <2>1, <2>2 DEF OrdersAge
<1>5. (\A i \in Items : ItemStep(i)) /\ NobodyArrives
    BY <1>1, <1>2 DEF ItemStep, NobodyArrives
<1> QED BY <1>1, <1>4, <1>5, QuietKeepsBooks

LEMMA ReclaimKeepsBooks ==
    ASSUME JobsInv, BooksInv, NEW late \in SUBSET Workers, Reclaim(late)
    PROVE  BooksInv'
<1>1. UNCHANGED at /\ UNCHANGED <<bookVars, edit, historyVars>>
    BY ReclaimIs
<1>2. \A i \in Items : ItemStep(i)
    BY ReclaimIs DEF ItemStep
<1>3. OrdersAge /\ NobodyArrives /\ UNCHANGED <<place, filed, edit, bundled, reopened>>
    BY <1>1 DEF OrdersAge, NobodyArrives, bookVars, historyVars
<1> QED BY <1>2, <1>3, QuietKeepsBooks

LEMMA RewriteKeepsBooks ==
    ASSUME JobsInv, BooksInv, NEW o \in Orders, Rewrite(o)
    PROVE  BooksInv'
<1>1. /\ FreeRows(job) # {} /\ job' = Enqueued(job, o) /\ at' = at
      /\ UNCHANGED <<bookVars, edit, boundVars, historyVars>>
      /\ job \in JobTable /\ Items \cap Rows = {}
    BY OrderAssumption DEF Rewrite, Unplaced, JobsInv, OrderTypeOK, JobTable
<1>2. \A i \in Items : Enqueued(job, o)[i] = job[i]
    BY <1>1, EnqueuedIs
<1>3. \A i \in Items : ItemStep(i)
    BY <1>1, <1>2 DEF ItemStep
<1>4. OrdersAge /\ NobodyArrives /\ UNCHANGED <<place, filed, edit, bundled, reopened>>
    BY <1>1 DEF OrdersAge, NobodyArrives, bookVars, historyVars
<1> QED BY <1>3, <1>4, QuietKeepsBooks

LEMMA DecidesKeepBooks ==
    ASSUME JobsInv, BooksInv, NEW o \in Orders, AutoClose(o) \/ \E open \in BOOLEAN : SetOpen(o, open)
    PROVE  BooksInv'
<1>1. PICK open \in BOOLEAN, owner \in {"user", "auto"} :
          order' = [order EXCEPT ![o] = [order[o] EXCEPT !.open = open, !.owner = owner]]
    BY DEF AutoClose, SetOpen
<1>2. UNCHANGED <<job, at, place, filed, edit, bundled, reopened>>
    BY DEF AutoClose, SetOpen, historyVars
<1>3. OrdersAge
    <2> DEFINE row == [order[o] EXCEPT !.open = open, !.owner = owner]
    <2>1. order \in [Orders -> OrderRecords]
        BY DEF JobsInv, OrderTypeOK
    <2>2. row.st = order[o].st
        <3>1. order[o] \in OrderRecords
            BY <2>1
        <3> QED BY <3>1 DEF OrderRecords
    <2>3. order' = [order EXCEPT ![o] = row]
        BY <1>1
    <2> HIDE DEF row
    <2> QED BY <2>1, <2>2, <2>3 DEF OrdersAge
<1>4. (\A i \in Items : ItemStep(i)) /\ NobodyArrives
    BY <1>2 DEF ItemStep, NobodyArrives
<1> QED BY <1>2, <1>3, <1>4, QuietKeepsBooks

\* A worker comes to the model with an item that is in no order, or with a
\* file and that file's order only.
LEMMA BeginItemKeepsBooks ==
    ASSUME JobsInv, BooksInv, NEW w \in Workers, BeginItem(w)
    PROVE  BooksInv'
<1> DEFINE i == at[w].job
           over == IF i \in Mails THEN place[i] # Nowhere ELSE filed[i] \in {"attached", "gone"}
           what == IF place[i] # Nowhere THEN {place[i]} ELSE {o \in Orders : Live(o)}
<1>0. Mails \cap Files = {} /\ Items = Mails \cup Files /\ Items \cap Rows = {}
    BY OrderAssumption DEF Items
<1>1. /\ at[w].pc = "begin" /\ i \in Items /\ job' = job
      /\ UNCHANGED <<bookVars, edit, boundVars, historyVars>>
      /\ IF over THEN Goto(w, "finish") ELSE Reads(w, what)
    BY DEF BeginItem, Unplaced
<1>2. UNCHANGED <<order, place, filed, edit, bundled, reopened>>
    BY <1>1 DEF bookVars, historyVars
<1>3. CASE over
    <2>1. (\A v \in Workers \ {w} : at'[v] = at[v]) /\ at'[w].pc = "finish"
        BY <1>1, <1>3, GotoIs DEF JobsInv
    <2>2. OrdersAge /\ (\A k \in Items : ItemStep(k)) /\ NobodyArrives
        BY <1>1, <1>2, <2>1 DEF OrdersAge, ItemStep, NobodyArrives
    <2> QED BY <1>2, <2>2, QuietKeepsBooks
<1>4. CASE ~over
    <2>0. place \in [Items -> Orders \cup {Nowhere}] /\ what \in SUBSET (Items \cup Orders)
        BY <1>1 DEF JobsInv, OrderTypeOK
    <2>1. /\ \A v \in Workers \ {w} : at'[v] = at[v]
          /\ at'[w].pc = "model" /\ at'[w].saw = what /\ at'[w].job = i
        BY <1>1, <1>4, <2>0, ReadsIs DEF JobsInv
    <2>2. Unfinished(i)
        BY <1>1 DEF Unfinished
    <2>3. \A o \in what : o \in Orders /\ order[o].st # "none"
        <3>1. CASE place[i] # Nowhere
            <4>1. place[i] \in Orders
                BY <1>1, <2>0, <3>1
            <4>2. order[place[i]].st # "none"
                BY <1>1, <3>1, <4>1 DEF BooksInv, PlacedSomewhere
            <4> QED BY <3>1, <4>1, <4>2
        <3>2. CASE place[i] = Nowhere
            BY <3>2 DEF Live
        <3> QED BY <3>1, <3>2
    <2>4. AbsentFiles' /\ EditFits' /\ PlacedSomewhere'
        BY <1>1, <1>2 DEF BooksInv, AbsentFiles, EditFits, PlacedSomewhere
    <2>5. MailsAtTheModel'
        BY <1>2, <1>4, <2>1 DEF BooksInv, MailsAtTheModel
    <2>6. FilesAtTheModel'
        <3> SUFFICES ASSUME NEW v \in Workers, at'[v].pc = "model", at'[v].job \in Files
                     PROVE  /\ filed[at'[v].job] # "attached"
                            /\ place[at'[v].job] # Nowhere =>
                                  \A o \in at'[v].saw : Live(o) => o = place[at'[v].job]
            BY <1>2 DEF FilesAtTheModel, Live
        <3>1. CASE v = w
            BY <1>0, <1>4, <2>1, <3>1
        <3>2. CASE v # w
            BY <2>1, <3>2 DEF BooksInv, FilesAtTheModel
        <3> QED BY <3>1, <3>2
    <2>7. SawWhatItIs'
        BY <1>0, <1>1, <1>2, <2>1, <2>3 DEF BooksInv, SawWhatItIs
    <2>8. BundledIsDealt'
        <3>1. bundled[i] > 0 => i \in reopened
            BY <1>1, <1>4, <2>2 DEF BooksInv, BundledIsDealt, Dealt
        <3> HIDE DEF i
        <3>2. \A k \in Items : Unfinished(k)' => Unfinished(k)
            BY <1>1, <2>1 DEF Unfinished
        <3> QED BY <1>1, <1>2, <2>1, <3>1, <3>2 DEF BooksInv, BundledIsDealt, Dealt
    <2> QED BY <2>4, <2>5, <2>6, <2>7, <2>8 DEF BooksInv
<1> QED BY <1>3, <1>4

LEMMA BeginWriteKeepsBooks ==
    ASSUME JobsInv, BooksInv, NEW w \in Workers, BeginWrite(w)
    PROVE  BooksInv'
<1> DEFINE o == at[w].about
<1>0. Items \cap Rows = {} /\ Items = Mails \cup Files
    BY OrderAssumption DEF Items
<1>1. /\ at[w].pc = "begin" /\ at[w].job \in Rows /\ job' = job
      /\ UNCHANGED <<order, place, filed, edit, bundled, reopened>>
      /\ IF Live(o) THEN Reads(w, Members(o)) ELSE Goto(w, "finish")
    BY DEF BeginWrite, Unplaced, bookVars, historyVars
<1>2. (\A k \in Items : ItemStep(k)) /\ OrdersAge
    BY <1>1 DEF ItemStep, OrdersAge
<1>3. CASE ~Live(o)
    <2>1. (\A v \in Workers \ {w} : at'[v] = at[v]) /\ at'[w].pc = "finish"
        BY <1>1, <1>3, GotoIs DEF JobsInv
    <2>2. NobodyArrives
        BY <2>1 DEF NobodyArrives
    <2> QED BY <1>1, <1>2, <2>2, QuietKeepsBooks
<1>4. CASE Live(o)
    <2>0. Members(o) \in SUBSET Items
        BY DEF Members, Held
    <2>1. /\ \A v \in Workers \ {w} : at'[v] = at[v]
          /\ at'[w].pc = "model" /\ at'[w].saw \subseteq Items /\ at'[w].job \in Rows
        BY <1>1, <1>4, <2>0, ReadsIs DEF JobsInv
    <2>2. AbsentFiles' /\ EditFits' /\ PlacedSomewhere'
        BY <1>1 DEF BooksInv, AbsentFiles, EditFits, PlacedSomewhere
    <2>3. MailsAtTheModel'
        BY <1>0, <1>1, <2>1 DEF BooksInv, MailsAtTheModel
    <2>4. FilesAtTheModel'
        BY <1>0, <1>1, <2>1 DEF BooksInv, FilesAtTheModel, Live
    <2>5. SawWhatItIs'
        BY <1>0, <1>1, <2>1 DEF BooksInv, SawWhatItIs
    <2>6. BundledIsDealt'
        <3>1. \A k \in Items : Unfinished(k)' => Unfinished(k)
            BY <1>1, <2>1 DEF Unfinished
        <3> QED BY <1>0, <1>1, <2>1, <3>1 DEF BooksInv, BundledIsDealt, Dealt
    <2> QED BY <2>2, <2>3, <2>4, <2>5, <2>6 DEF BooksInv
<1> QED BY <1>3, <1>4

LEMMA UploadKeepsBooks ==
    ASSUME JobsInv, BooksInv, NEW f \in Files, NEW o \in Orders \cup {Nowhere}, Upload(f, o)
    PROVE  BooksInv'
<1>0. Mails \cap Files = {} /\ Items = Mails \cup Files /\ Items \cap Rows = {} /\ Nowhere \notin Orders
    BY OrderAssumption DEF Items
<1>1. /\ filed[f] = "absent" /\ (o # Nowhere => Live(o))
      /\ UNCHANGED <<at, order, edit, bundled, reopened>>
    BY DEF Upload, historyVars
<1>2. /\ place \in [Items -> Orders \cup {Nowhere}] /\ job \in JobTable
      /\ filed \in [Files -> {"absent", "pending", "attached", "failed", "gone"}]
    BY DEF JobsInv, OrderTypeOK, JobTable
<1>3. /\ filed'[f] = "pending" /\ \A g \in Files \ {f} : filed'[g] = filed[g]
      /\ place'[f] = o /\ \A i \in Items \ {f} : place'[i] = place[i]
    <2>1. filed' = [filed EXCEPT ![f] = "pending"] /\ place' = [place EXCEPT ![f] = o]
        BY DEF Upload
    <2> QED BY <1>0, <1>2, <2>1
<1>4. job'[f].st = "pending" /\ \A j \in Items \ {f} : job'[j] = job[j]
    <2>1. job' = [job EXCEPT ![f] = [NoJob EXCEPT !.st = "pending", !.about = Nowhere]]
        BY DEF Upload, Inserted
    <2> QED BY <1>0, <1>2, <2>1 DEF JobTable, NoJob
<1>5. place[f] = Nowhere /\ job[f].st = "none" /\ bundled[f] = 0
    BY <1>1 DEF BooksInv, AbsentFiles
<1>6. AbsentFiles'
    BY <1>0, <1>1, <1>3, <1>4 DEF BooksInv, AbsentFiles
<1>7. EditFits'
    <2>1. edit \in Edits
        BY DEF JobsInv, OrderTypeOK
    <2>2. edit.at # "none" => \A i \in edit.moves : place'[i] = edit.from
        BY <1>0, <1>3, <1>5, <2>1 DEF BooksInv, EditFits, Edits
    <2> QED BY <1>1, <2>2 DEF BooksInv, EditFits
<1>8. MailsAtTheModel'
    BY <1>0, <1>1, <1>3 DEF BooksInv, MailsAtTheModel
<1>9. \A w \in Workers : at[w].pc # "idle" => at[w].job # f
    BY <1>0, <1>5 DEF JobsInv, PositionsFit
<1>13. FilesAtTheModel'
    <2> SUFFICES ASSUME NEW w \in Workers, at[w].pc = "model", at[w].job \in Files
                 PROVE  /\ filed'[at[w].job] # "attached"
                        /\ place'[at[w].job] # Nowhere =>
                              \A p \in at[w].saw : Live(p) => p = place'[at[w].job]
        BY <1>1 DEF FilesAtTheModel, Live
    <2> QED BY <1>0, <1>3, <1>9 DEF BooksInv, FilesAtTheModel
<1>10. PlacedSomewhere'
    <2> SUFFICES ASSUME NEW i \in Items, place'[i] # Nowhere PROVE order[place'[i]].st # "none"
        BY <1>1 DEF PlacedSomewhere
    <2>1. CASE i = f
        BY <1>1, <1>3, <2>1 DEF Live
    <2>2. CASE i # f
        BY <1>3, <2>2 DEF BooksInv, PlacedSomewhere
    <2> QED BY <2>1, <2>2
<1>11. SawWhatItIs'
    BY <1>1 DEF BooksInv, SawWhatItIs
<1>12. BundledIsDealt'
    <2>1. ASSUME NEW i \in Items, i # f, bundled[i] > 0, i \notin reopened
          PROVE  Dealt(i)'
        <3>1. Dealt(i)
            BY <2>1 DEF BooksInv, BundledIsDealt
        <3>2. Unfinished(i)' => Unfinished(i)
            BY <1>1, <1>4, <2>1 DEF Unfinished
        <3> QED BY <1>0, <1>3, <2>1, <3>1, <3>2 DEF Dealt
    <2> QED BY <1>1, <1>4, <1>5, <2>1 DEF BooksInv, BundledIsDealt
<1> QED BY <1>6, <1>7, <1>8, <1>10, <1>11, <1>12, <1>13 DEF BooksInv

\* Nobody but the worker that attaches an item is at the model.
LEMMA AttachKeepsBooks ==
    ASSUME JobsInv, BooksInv, NEW w \in Workers, NEW o \in Orders, Attach(w, o)
    PROVE  BooksInv'
<1> DEFINE i == at[w].job
<1>0. Mails \cap Files = {} /\ Items = Mails \cup Files /\ Items \cap Rows = {} /\ Nowhere \notin Orders
    BY OrderAssumption DEF Items
<1>1. /\ at[w].pc = "model" /\ i \in Items /\ Goto(w, "finish")
      /\ order[o].st \in {"none", "live"} /\ order'[o].st = "live"
      /\ \A p \in Orders \ {o} : order'[p] = order[p]
    BY AttachIs
<1>2. /\ place'[i] = o /\ \A k \in Items \ {i} : place'[k] = place[k]
      /\ i \in Files => filed'[i] = "attached"
      /\ \A f \in Files \ {i} : filed'[f] = filed[f]
    BY AttachIs
<1>3. \A k \in Items : job'[k] = job[k]
    BY <1>0, AttachIs
<1>4. /\ \A k \in Items \ {i} : bundled'[k] = bundled[k]
      /\ bundled[i] = 0 => bundled'[i] = 1
      /\ edit' = edit /\ reopened' = reopened
    BY AttachIs
<1>5. /\ \A v \in Workers \ {w} : at'[v] = at[v]
      /\ at'[w].pc = "finish" /\ at'[w].job = at[w].job
    BY <1>1, GotoIs DEF JobsInv
<1>6. \A v \in Workers : at'[v].pc # "model"
    BY <1>1, <1>5 DEF JobsInv, OneAtTheModel
<1>7. place[i] \in {Nowhere, o}
    <2>1. (o \in at[w].saw /\ Live(o)) \/ place[i] = Nowhere
        BY DEF Attach
    <2>2. CASE i \in Mails
        BY <1>1, <2>2 DEF BooksInv, MailsAtTheModel
    <2>3. CASE i \in Files
        BY <1>1, <2>1, <2>3 DEF BooksInv, FilesAtTheModel
    <2> QED BY <1>0, <1>1, <2>2, <2>3
<1>8. job[i].st # "none"
    BY <1>1 DEF JobsInv, PositionsFit
<1>9. \A p \in Orders : order[p].st # "none" => order'[p].st # "none"
    BY <1>1
<1> HIDE DEF i
<1>10. AbsentFiles'
    <2> SUFFICES ASSUME NEW f \in Files, filed'[f] = "absent"
                 PROVE  place'[f] = Nowhere /\ job'[f].st = "none" /\ bundled'[f] = 0
        BY DEF AbsentFiles
    <2>1. f # i /\ filed[f] = "absent" /\ f \in Items
        BY <1>0, <1>2
    <2> QED BY <1>2, <1>3, <1>4, <2>1 DEF BooksInv, AbsentFiles
<1>11. EditFits'
    <2>1. edit \in Edits
        BY DEF JobsInv, OrderTypeOK
    <2>2. edit.at # "none" => /\ \A k \in edit.moves : place'[k] = edit.from
                              /\ \A p \in {edit.from, edit.to} \ {Nowhere} : order'[p].st # "none"
        BY <1>0, <1>2, <1>7, <1>9, <2>1 DEF BooksInv, EditFits, Edits
    <2> QED BY <1>4, <2>2 DEF BooksInv, EditFits
<1>12. MailsAtTheModel' /\ SawWhatItIs'
    BY <1>6 DEF MailsAtTheModel, SawWhatItIs
<1>13. FilesAtTheModel'
    BY <1>6 DEF FilesAtTheModel
<1>14. PlacedSomewhere'
    <2>1. place \in [Items -> Orders \cup {Nowhere}]
        BY DEF JobsInv, OrderTypeOK
    <2> QED BY <1>1, <1>2, <1>9, <2>1 DEF BooksInv, PlacedSomewhere
<1>15. BundledIsDealt'
    <2>0. \A k \in Items : Unfinished(k)' => Unfinished(k)
        BY <1>3, <1>5 DEF Unfinished
    <2>1. bundled[i] > 0 => i \in reopened
        BY <1>1 DEF BooksInv, BundledIsDealt, i
    <2>2. bundled[i] \in Nat
        BY <1>1 DEF JobsInv, OrderTypeOK, i
    <2>3. i \in Items
        BY <1>1 DEF i
    <2>4. \A k \in Items : k = i \/ Dealt(k) => Dealt(k)'
        <3>1. ASSUME NEW k \in Items, k = i PROVE Dealt(k)'
            BY <1>0, <1>2, <3>1 DEF Dealt
        <3>2. ASSUME NEW k \in Items, k # i, Dealt(k) PROVE Dealt(k)'
            BY <1>0, <1>2, <2>0, <3>2 DEF Dealt
        <3> QED BY <3>1, <3>2
    <2>5. i \notin reopened => bundled'[i] = 1
        BY <1>4, <2>1, <2>2
    <2>6. ASSUME NEW k \in Items, bundled'[k] > 0
          PROVE  /\ job'[k].st # "none"
                 /\ k \notin reopened => bundled'[k] = 1 /\ Dealt(k)'
        <3>1. CASE k = i
            BY <1>3, <1>8, <2>4, <2>5, <3>1
        <3>2. CASE k # i
            BY <1>3, <1>4, <2>4, <2>6, <3>2 DEF BooksInv, BundledIsDealt
        <3> QED BY <3>1, <3>2
    <2> QED BY <1>4, <1>6, <2>6 DEF BundledIsDealt
<1> QED BY <1>10, <1>11, <1>12, <1>13, <1>14, <1>15 DEF BooksInv

LEMMA SettleFileKeepsBooks ==
    ASSUME JobsInv, BooksInv, NEW w \in Workers, SettleFile(w)
    PROVE  BooksInv'
<1> DEFINE f == at[w].job
<1>0. Mails \cap Files = {} /\ Items = Mails \cup Files
    BY OrderAssumption DEF Items
<1>1. /\ at[w].pc = "settle" /\ f \in Files /\ Goto(w, "idle")
      /\ filed' = [filed EXCEPT ![f] = IF filed[f] = "gone" THEN "gone" ELSE "failed"]
      /\ reopened' = reopened \cup {i \in {f} : filed[f] = "attached" /\ Unfinished(i)}
      /\ UNCHANGED <<job, order, place, edit, bundled>>
    BY DEF SettleFile
<1>2. (\A v \in Workers \ {w} : at'[v] = at[v]) /\ at'[w].pc = "idle"
    BY <1>1, GotoIs DEF JobsInv
<1>3. \A i \in Items : Unfinished(i)' => Unfinished(i)
    BY <1>1, <1>2 DEF Unfinished
<1>4. filed \in [Files -> {"absent", "pending", "attached", "failed", "gone"}]
    BY DEF JobsInv, OrderTypeOK
<1> HIDE DEF f
<1>5. filed'[f] = (IF filed[f] = "gone" THEN "gone" ELSE "failed")
      /\ \A g \in Files \ {f} : filed'[g] = filed[g]
    BY <1>1, <1>4
<1>6. AbsentFiles' /\ EditFits' /\ PlacedSomewhere'
    BY <1>1, <1>5 DEF BooksInv, AbsentFiles, EditFits, PlacedSomewhere
<1>7. MailsAtTheModel' /\ SawWhatItIs'
    BY <1>1, <1>2 DEF BooksInv, MailsAtTheModel, SawWhatItIs
<1>8. FilesAtTheModel'
    <2> SUFFICES ASSUME NEW v \in Workers, at'[v].pc = "model", at'[v].job \in Files
                 PROVE  /\ filed'[at'[v].job] # "attached"
                        /\ place[at'[v].job] # Nowhere =>
                              \A p \in at'[v].saw : Live(p) => p = place[at'[v].job]
        BY <1>1 DEF FilesAtTheModel, Live
    <2>1. at'[v] = at[v]
        BY <1>2
    <2> QED BY <1>5, <2>1 DEF BooksInv, FilesAtTheModel
<1>9. BundledIsDealt'
    <2>1. ASSUME NEW i \in Items, Dealt(i), i \notin reopened' PROVE Dealt(i)'
        BY <1>0, <1>1, <1>3, <1>5, <2>1 DEF Dealt
    <2>2. \A i \in Items : i \notin reopened' => i \notin reopened
        BY <1>1
    <2> QED BY <1>1, <1>2, <2>1, <2>2 DEF BooksInv, BundledIsDealt
<1> QED BY <1>6, <1>7, <1>8, <1>9 DEF BooksInv

LEMMA PruneKeepsBooks ==
    ASSUME JobsInv, BooksInv, NEW f \in Files, Prune(f)
    PROVE  BooksInv'
<1>0. Mails \cap Files = {} /\ Items = Mails \cup Files
    BY OrderAssumption DEF Items
<1>1. /\ f \notin edit.moves
      /\ filed' = [filed EXCEPT ![f] = "gone"] /\ place' = [place EXCEPT ![f] = Nowhere]
      /\ UNCHANGED <<order, job, at, edit, bundled, reopened>>
    BY DEF Prune, historyVars
<1>2. /\ place \in [Items -> Orders \cup {Nowhere}]
      /\ filed \in [Files -> {"absent", "pending", "attached", "failed", "gone"}]
    BY DEF JobsInv, OrderTypeOK
<1>3. /\ filed'[f] = "gone" /\ \A g \in Files \ {f} : filed'[g] = filed[g]
      /\ place'[f] = Nowhere /\ \A i \in Items \ {f} : place'[i] = place[i]
    BY <1>0, <1>1, <1>2
<1>4. AbsentFiles' /\ PlacedSomewhere'
    BY <1>0, <1>1, <1>3 DEF BooksInv, AbsentFiles, PlacedSomewhere
<1>5. EditFits'
    <2>1. edit \in Edits
        BY DEF JobsInv, OrderTypeOK
    <2>2. edit.at # "none" => \A i \in edit.moves : place'[i] = edit.from
        BY <1>1, <1>3, <2>1 DEF BooksInv, EditFits, Edits
    <2> QED BY <1>1, <2>2 DEF BooksInv, EditFits
<1>6. MailsAtTheModel' /\ SawWhatItIs'
    BY <1>0, <1>1, <1>3 DEF BooksInv, MailsAtTheModel, SawWhatItIs
<1>7. FilesAtTheModel'
    BY <1>0, <1>1, <1>3 DEF BooksInv, FilesAtTheModel, Live
<1>8. BundledIsDealt'
    <2>1. \A i \in Items : Unfinished(i)' <=> Unfinished(i)
        BY <1>1 DEF Unfinished
    <2>2. \A i \in Items : Dealt(i) => Dealt(i)'
        BY <1>0, <1>3, <2>1 DEF Dealt
    <2> QED BY <1>1, <2>2 DEF BooksInv, BundledIsDealt
<1> QED BY <1>4, <1>5, <1>6, <1>7, <1>8 DEF BooksInv

\* A step that only changes the edit.
LEMMA EditStepKeepsBooks ==
    ASSUME BooksInv, UNCHANGED <<bookVars, job, at, historyVars>>, EditFits'
    PROVE  BooksInv'
<1>1. UNCHANGED <<order, place, filed, job, at, bundled, reopened>>
    BY DEF bookVars, historyVars
<1>2. AbsentFiles' /\ MailsAtTheModel' /\ PlacedSomewhere' /\ SawWhatItIs'
    BY <1>1 DEF BooksInv, AbsentFiles, MailsAtTheModel, PlacedSomewhere, SawWhatItIs
<1>3. FilesAtTheModel'
    BY <1>1 DEF BooksInv, FilesAtTheModel, Live
<1>4. BundledIsDealt'
    BY <1>1 DEF BooksInv, BundledIsDealt, Dealt, Unfinished
<1> QED BY <1>2, <1>3, <1>4 DEF BooksInv

LEMMA EditBeginsKeepsBooks ==
    ASSUME JobsInv, BooksInv, EditBegins
    PROVE  BooksInv'
<1> PICK kind \in {"detach", "file", "merge", "delete"}, from \in Orders,
         to \in Orders \cup {Nowhere}, moves \in SUBSET Items :
            /\ StartEdit(kind, from, to, moves)
            /\ from # to /\ moves \subseteq Held(from)
            /\ to # Nowhere => Live(to)
            /\ to # Nowhere /\ moves \cap Files # {} => kind = "merge"
    BY DEF EditBegins
<1>1. /\ Live(from)
      /\ edit'.at = "moved" /\ edit'.kind = kind /\ edit'.from = from /\ edit'.to = to
      /\ edit'.moves = moves /\ edit'.owed = {}
      /\ UNCHANGED <<bookVars, job, at, losses, historyVars>>
    BY StartEditIs DEF JobsInv
<1>2. UNCHANGED <<place, order>>
    BY <1>1 DEF bookVars
<1>3. EditFits'
    <2>1. \A o \in {from, to} \ {Nowhere} : order'[o].st # "none"
        BY <1>1, <1>2 DEF Live
    <2>2. \A i \in moves : place'[i] = from
        BY <1>2 DEF Held
    <2> QED BY <1>1, <2>1, <2>2 DEF EditFits
<1> QED BY <1>1, <1>3, EditStepKeepsBooks

LEMMA LockKeepsBooks == JobsInv /\ BooksInv /\ Lock => BooksInv'
<1> SUFFICES ASSUME JobsInv, BooksInv, Lock PROVE BooksInv'
    OBVIOUS
<1>1. /\ edit.at = "moved" /\ edit'.at = "locked" /\ edit'.kind = edit.kind
      /\ edit'.from = edit.from /\ edit'.to = edit.to /\ edit'.moves = edit.moves
      /\ edit'.owed = {o \in ToRewrite : ~PendingWrite(job, o)}
      /\ UNCHANGED <<bookVars, job, at, boundVars, historyVars>>
    BY LockIs DEF JobsInv
<1>2. edit'.owed \subseteq {edit.from, edit.to}
    BY <1>1 DEF ToRewrite
<1>3. UNCHANGED <<place, order>>
    BY <1>1 DEF bookVars
<1>4. EditFits'
    BY <1>1, <1>2, <1>3 DEF BooksInv, EditFits
<1> QED BY <1>1, <1>4, EditStepKeepsBooks

\* What an edit takes from a register it takes with the row that held it, and
\* an item it takes while its job is unfinished is reopened.
LEMMA CommitKeepsBooks == JobsInv /\ BooksInv /\ Commit => BooksInv'
<1> SUFFICES ASSUME JobsInv, BooksInv, Commit PROVE BooksInv'
    OBVIOUS
<1>0. Mails \cap Files = {} /\ Items = Mails \cup Files /\ Items \cap Rows = {} /\ Nowhere \notin Orders
    BY OrderAssumption DEF Items
<1>1. EditFits
    BY DEF BooksInv
<1>2. edit.at = "locked" /\ edit.from \in Orders /\ at' = at /\ \A i \in Items : job'[i] = job[i]
    BY <1>0, <1>1, CommitJobs
<1>3. /\ \A i \in Items : place'[i] = PlaceAfter(i)
      /\ \A f \in Files : filed'[f] = IF f \in Dropped THEN "gone" ELSE filed[f]
      /\ \A o \in Orders : IF Dies /\ o = edit.from THEN order'[o].st = "gone"
                           ELSE order'[o].st = order[o].st
      /\ reopened' = reopened \cup {i \in Dropped : Unfinished(i)}
      /\ edit' = NoEdit /\ bundled' = bundled
    BY <1>1, CommitBooks
<1>4. /\ place \in [Items -> Orders \cup {Nowhere}] /\ edit \in Edits
      /\ \A i \in Items : job[i].st \in {"none", "pending", "claimed", "done"}
    BY DEF JobsInv, OrderTypeOK, Edits, JobRecords
<1>5. \A i \in edit.moves : place[i] = edit.from
    BY <1>1, <1>2 DEF EditFits
<1>6. \A i \in Items : place[i] = Nowhere => place'[i] = Nowhere
    BY <1>0, <1>2, <1>3, <1>5 DEF PlaceAfter
<1>7. AbsentFiles'
    <2> SUFFICES ASSUME NEW f \in Files, filed'[f] = "absent"
                 PROVE  place'[f] = Nowhere /\ job'[f].st = "none" /\ bundled'[f] = 0
        BY DEF AbsentFiles
    <2>1. filed[f] = "absent" /\ f \in Items
        BY <1>0, <1>3
    <2>2. place[f] = Nowhere /\ job[f].st = "none" /\ bundled[f] = 0
        BY <2>1 DEF BooksInv, AbsentFiles
    <2> QED BY <1>2, <1>3, <1>6, <2>1, <2>2
<1>8. EditFits'
    BY <1>3 DEF EditFits, NoEdit
<1>9. MailsAtTheModel'
    BY <1>0, <1>2, <1>6 DEF BooksInv, MailsAtTheModel
<1>10. FilesAtTheModel'
    <2> SUFFICES ASSUME NEW w \in Workers, at[w].pc = "model", at[w].job \in Files
                 PROVE  /\ filed'[at[w].job] # "attached"
                        /\ place'[at[w].job] # Nowhere =>
                              \A o \in at[w].saw : Live(o)' => o = place'[at[w].job]
        BY <1>2 DEF FilesAtTheModel, Live
    <2>1. filed'[at[w].job] # "attached"
        BY <1>3 DEF BooksInv, FilesAtTheModel
    <2>2. ASSUME place'[at[w].job] # Nowhere, NEW o \in at[w].saw, Live(o)'
          PROVE  o = place'[at[w].job]
        <3> DEFINE f == at[w].job
        <3>1. o \in Orders /\ Live(o) /\ ~(Dies /\ o = edit.from)
            BY <1>3, <2>2 DEF Live
        <3>2. f \in Items /\ place[f] # Nowhere
            BY <1>0, <1>6, <2>2
        <3>3. o = place[f]
            BY <2>2, <3>1, <3>2 DEF BooksInv, FilesAtTheModel
        <3>4. CASE f \in edit.moves
            <4>1. place'[f] = edit.to
                BY <1>3, <3>2, <3>4 DEF PlaceAfter
            <4>2. edit.kind = "merge"
                BY <1>1, <1>2, <2>2, <3>4, <4>1 DEF EditFits
            <4> QED BY <1>5, <3>1, <3>3, <3>4, <4>2 DEF Dies
        <3>5. CASE f \notin edit.moves
            BY <1>3, <2>2, <3>2, <3>3, <3>5 DEF PlaceAfter
        <3> QED BY <3>4, <3>5
    <2> QED BY <2>1, <2>2
<1>11. PlacedSomewhere'
    <2> SUFFICES ASSUME NEW i \in Items, place'[i] # Nowhere PROVE order'[place'[i]].st # "none"
        BY DEF PlacedSomewhere
    <2>1. place'[i] \in {edit.to, place[i]}
        BY <1>3 DEF PlaceAfter
    <2>2. place'[i] \in Orders /\ order[place'[i]].st # "none"
        <3>1. CASE place'[i] = edit.to
            BY <1>1, <1>2, <1>4, <3>1 DEF EditFits, Edits
        <3>2. CASE place'[i] = place[i]
            BY <1>4, <3>2 DEF BooksInv, PlacedSomewhere
        <3> QED BY <2>1, <3>1, <3>2
    <2> QED BY <1>3, <2>2
<1>12. SawWhatItIs'
    BY <1>2, <1>3 DEF BooksInv, SawWhatItIs
<1>13. BundledIsDealt'
    <2>1. \A i \in Items : Unfinished(i)' <=> Unfinished(i)
        BY <1>2 DEF Unfinished
    <2>2. ASSUME NEW i \in Items, Dealt(i), i \notin reopened' PROVE Dealt(i)'
        <3>1. CASE Unfinished(i)
            <4>1. i \notin Dropped
                BY <1>3, <2>2, <3>1
            <4>2. place[i] # Nowhere => place'[i] # Nowhere
                BY <1>3, <4>1 DEF Dropped
            <4> QED BY <1>0, <1>3, <2>2, <3>1, <4>1, <4>2 DEF Dealt
        <3>2. CASE ~Unfinished(i)
            BY <2>1, <3>2 DEF Dealt
        <3> QED BY <3>1, <3>2
    <2>3. \A i \in Items : i \notin reopened' => i \notin reopened
        BY <1>3
    <2> QED BY <1>2, <1>3, <2>2, <2>3 DEF BooksInv, BundledIsDealt
<1> QED BY <1>7, <1>8, <1>9, <1>10, <1>11, <1>12, <1>13 DEF BooksInv

\* Somebody minds o's text.
Minded(o) == RewriteOwed(o) \/ excuse[o] # "none"
\* The step leaves o's members alone.
SameItems(o) == Members(o)' = Members(o)
\* Row r will have o rewritten.
OwedRow(jobs, r, o) ==
    jobs[r].about = o /\ (jobs[r].st = "pending" \/ (jobs[r].st = "claimed" /\ jobs[r].by = Gone))

\* What is behind was behind, unless its text was just read or written.
LEMMA StillBehind ==
    ASSUME NEW o \in Orders, Behind(o)', SameItems(o), order'[o].covers = order[o].covers,
           \A v \in Workers : at'[v].pc = "model" /\ at'[v].about = o =>
                at'[v] = at[v] \/ at'[v].saw = Members(o)
    PROVE  Behind(o)
<1>1. CASE order'[o].covers # Members(o)'
    BY <1>1 DEF Behind, SameItems
<1>2. CASE \E w \in Workers : at'[w].pc = "model" /\ at'[w].about = o /\ at'[w].saw # Members(o)'
    BY <1>2 DEF Behind, SameItems
<1> QED BY <1>1, <1>2 DEF Behind

\* An order minded before the step is minded after it.
LEMMA StaysMinded ==
    ASSUME NEW o \in Orders, Minded(o),
           \A r \in Rows : OwedRow(job, r, o) => OwedRow(job', r, o) \/ Minded(o)',
           \A w \in Workers : Reading(w, o) => Minded(o)',
           excuse[o] # "none" => Minded(o)'
    PROVE  Minded(o)'
<1>1. CASE excuse[o] # "none"
    BY <1>1
<1>2. CASE \E w \in Workers : Reading(w, o)
    BY <1>2
<1>3. CASE \E r \in Rows : OwedRow(job, r, o)
    BY <1>3 DEF OwedRow, Minded, RewriteOwed, PendingWrite
<1> QED BY <1>1, <1>2, <1>3 DEF OwedRow, Minded, RewriteOwed, PendingWrite

LEMMA ReaderStays ==
    ASSUME NEW o \in Orders, NEW w \in Workers, Reading(w, o), at'[w] = at[w], SameItems(o),
           Owns(w) => job'[at[w].job] = job[at[w].job]
    PROVE  Minded(o)'
<1>1. Reading(w, o)'
    BY DEF Reading, Owns, SameItems
<1> QED BY <1>1 DEF Minded, RewriteOwed

\* Steps that move no worker.
LEMMA StillKeepsTexts ==
    ASSUME JobsInv, TextsAreMinded, at' = at,
           NEW o \in Orders, Live(o)', Behind(o)',
           Live(o), SameItems(o), order'[o].covers = order[o].covers, excuse'[o] = excuse[o],
           \A r \in Rows : \/ job'[r] = job[r]
                           \/ job[r].st = "none"
                           \/ job[r].about # o
                           \/ OwedRow(job', r, o)
    PROVE  Minded(o)'
<1>1. Minded(o)
    BY StillBehind DEF TextsAreMinded, Minded
<1>2. \A r \in Rows : OwedRow(job, r, o) => OwedRow(job', r, o)
    BY DEF OwedRow
<1>3. ASSUME NEW w \in Workers, Reading(w, o) PROVE Minded(o)'
    <2> SUFFICES ASSUME \A r \in Rows : ~OwedRow(job', r, o) PROVE Minded(o)'
        BY DEF OwedRow, Minded, RewriteOwed, PendingWrite
    <2>1. Owns(w) => job'[at[w].job] = job[at[w].job]
        <3>1. at[w].pc # "idle" /\ at[w].about = o
            BY <1>3 DEF Reading
        <3>2. at[w].job \in Rows
            BY <3>1, OrderAssumption DEF JobsInv, PositionsFit
        <3>3. Owns(w) => job[at[w].job].st = "claimed" /\ job[at[w].job].by = w
            BY DEF Owns
        <3>4. Owns(w) => job[at[w].job].about = o /\ Gone # w
            BY <3>1, <3>2, <3>3, OrderAssumption DEF JobsInv, ClaimsAreHeld
        <3> QED BY <3>2, <3>3, <3>4
    <2> QED BY <1>3, <2>1, ReaderStays
<1>4. excuse[o] # "none" => Minded(o)'
    BY DEF Minded
<1> QED BY <1>1, <1>2, <1>3, <1>4, StaysMinded

\* Steps of one worker, for an order that is minded before them.
LEMMA WalkStaysMinded ==
    ASSUME JobsInv, NEW w \in Workers, \A v \in Workers \ {w} : at'[v] = at[v],
           NEW o \in Orders, Minded(o), SameItems(o),
           excuse[o] # "none" => Minded(o)',
           \A r \in Rows : \/ job'[r] = job[r]
                           \/ job[r].st = "none"
                           \/ r = at[w].job /\ Owns(w)
                           \/ Minded(o)',
           Reading(w, o) => Minded(o)'
    PROVE  Minded(o)'
<1>0. Gone \notin Workers
    BY OrderAssumption
<1>1. \A r \in Rows : OwedRow(job, r, o) => OwedRow(job', r, o) \/ Minded(o)'
    BY <1>0 DEF OwedRow, Owns
<1>2. ASSUME NEW v \in Workers, Reading(v, o) PROVE Minded(o)'
    <2>1. CASE v = w
        BY <1>2, <2>1
    <2>2. CASE v # w /\ ~(Minded(o)')
        <3>1. at'[v] = at[v] /\ at[v].pc # "idle" /\ at[v].about = o
            BY <1>2, <2>2 DEF Reading
        <3>2. at[v].job \in Rows
            BY <3>1, OrderAssumption DEF JobsInv, PositionsFit
        <3>3. Owns(v) => job'[at[v].job] = job[at[v].job]
            BY <2>2, <3>2 DEF Owns
        <3> QED BY <1>2, <3>1, <3>3, ReaderStays
    <2> QED BY <2>1, <2>2
<1> QED BY <1>1, <1>2, StaysMinded

LEMMA WalkKeepsTexts ==
    ASSUME JobsInv, TextsAreMinded, NEW w \in Workers, \A v \in Workers \ {w} : at'[v] = at[v],
           NEW o \in Orders, Behind(o)', Live(o), SameItems(o), order'[o].covers = order[o].covers,
           at'[w].pc = "model" /\ at'[w].about = o => at'[w].saw = Members(o),
           excuse[o] # "none" => Minded(o)',
           \A r \in Rows : \/ job'[r] = job[r]
                           \/ job[r].st = "none"
                           \/ r = at[w].job /\ Owns(w)
                           \/ Minded(o)',
           Reading(w, o) => Minded(o)'
    PROVE  Minded(o)'
<1>1. Behind(o)
    <2>1. \A v \in Workers : at'[v].pc = "model" /\ at'[v].about = o =>
                at'[v] = at[v] \/ at'[v].saw = Members(o)
        OBVIOUS
    <2> QED BY <2>1, StillBehind
<1>2. Minded(o)
    BY <1>1 DEF TextsAreMinded, Minded
<1> QED BY <1>2, WalkStaysMinded

LEMMA TextsByOrder ==
    ASSUME \A o \in Orders : Live(o)' /\ Behind(o)' => Minded(o)'
    PROVE  TextsAreMinded'
BY DEF TextsAreMinded, Minded, Live

LEMMA BooksKeepItems ==
    ASSUME UNCHANGED <<place, filed>>, NEW o \in Orders PROVE SameItems(o)
BY DEF SameItems, Members, Held

LEMMA QueueMailKeepsTexts ==
    ASSUME JobsInv, TextsAreMinded, NEW i \in Mails, QueueMail(i) PROVE TextsAreMinded'
<1>1. /\ at' = at /\ UNCHANGED <<order, place, filed, excuse>>
      /\ job' = [job EXCEPT ![i] = [NoJob EXCEPT !.st = "pending", !.about = Nowhere]]
    BY DEF QueueMail, Unplaced, Inserted, bookVars, historyVars
<1>2. \A r \in Rows : job'[r] = job[r]
    BY <1>1, OrderAssumption DEF Items, JobsInv, OrderTypeOK
<1>3. ASSUME NEW o \in Orders, Live(o)', Behind(o)' PROVE Minded(o)'
    <2>1. SameItems(o) /\ Live(o)
        BY <1>1, <1>3, BooksKeepItems DEF Live
    <2> QED BY <1>1, <1>2, <1>3, <2>1, StillKeepsTexts
<1> QED BY <1>3, TextsByOrder

LEMMA UploadKeepsTexts ==
    ASSUME JobsInv, BooksInv, TextsAreMinded, NEW f \in Files, NEW p \in Orders \cup {Nowhere},
           Upload(f, p)
    PROVE  TextsAreMinded'
<1>0. Items = Mails \cup Files /\ Items \cap Rows = {} /\ Mails \cap Files = {} /\ Nowhere \notin Orders
    BY OrderAssumption DEF Items
<1>1. at' = at /\ UNCHANGED <<order, excuse>> /\ filed[f] = "absent"
    BY DEF Upload, historyVars
<1>2. \A r \in Rows : job'[r] = job[r]
    <2>1. job' = [job EXCEPT ![f] = [NoJob EXCEPT !.st = "pending", !.about = Nowhere]]
        BY DEF Upload, Inserted
    <2> QED BY <1>0, <2>1 DEF JobsInv, OrderTypeOK
<1>3. /\ filed'[f] = "pending" /\ \A g \in Files \ {f} : filed'[g] = filed[g]
      /\ \A i \in Items \ {f} : place'[i] = place[i]
    BY <1>0 DEF Upload, JobsInv, OrderTypeOK
<1>4. ASSUME NEW o \in Orders, Live(o)', Behind(o)' PROVE Minded(o)'
    <2>1. SameItems(o)
        <3>1. \A i \in Items : (place'[i] = o /\ (i \in Files => filed'[i] = "attached"))
                               <=> (place[i] = o /\ (i \in Files => filed[i] = "attached"))
            BY <1>0, <1>1, <1>3
        <3> QED BY <3>1 DEF SameItems, Members, Held
    <2>2. Live(o)
        BY <1>1, <1>4 DEF Live
    <2> QED BY <1>1, <1>2, <1>4, <2>1, <2>2, StillKeepsTexts
<1> QED BY <1>4, TextsByOrder

LEMMA PruneKeepsTexts ==
    ASSUME JobsInv, BooksInv, TextsAreMinded, NEW f \in Files, Prune(f)
    PROVE  TextsAreMinded'
<1>0. Items = Mails \cup Files /\ Mails \cap Files = {} /\ Nowhere \notin Orders
    BY OrderAssumption DEF Items
<1>1. at' = at /\ job' = job /\ UNCHANGED <<order, excuse>> /\ filed[f] = "failed"
    BY DEF Prune, historyVars
<1>2. /\ place'[f] = Nowhere /\ \A g \in Files \ {f} : filed'[g] = filed[g]
      /\ \A i \in Items \ {f} : place'[i] = place[i]
    BY <1>0 DEF Prune, JobsInv, OrderTypeOK
<1>3. ASSUME NEW o \in Orders, Live(o)', Behind(o)' PROVE Minded(o)'
    <2>1. SameItems(o)
        <3>1. \A i \in Items : (place'[i] = o /\ (i \in Files => filed'[i] = "attached"))
                               <=> (place[i] = o /\ (i \in Files => filed[i] = "attached"))
            BY <1>0, <1>1, <1>2
        <3> QED BY <3>1 DEF SameItems, Members, Held
    <2>2. Live(o)
        BY <1>1, <1>3 DEF Live
    <2> QED BY <1>1, <1>3, <2>1, <2>2, StillKeepsTexts
<1> QED BY <1>3, TextsByOrder

LEMMA EditStepKeepsTexts ==
    ASSUME JobsInv, TextsAreMinded, UNCHANGED <<bookVars, job, at, historyVars>>
    PROVE  TextsAreMinded'
<1>1. UNCHANGED <<order, place, filed, job, at, excuse>>
    BY DEF bookVars, historyVars
<1>2. ASSUME NEW o \in Orders, Live(o)', Behind(o)' PROVE Minded(o)'
    <2>1. SameItems(o) /\ Live(o)
        BY <1>1, <1>2, BooksKeepItems DEF Live
    <2> QED BY <1>1, <1>2, <2>1, StillKeepsTexts
<1> QED BY <1>2, TextsByOrder

LEMMA DecidesKeepTexts ==
    ASSUME JobsInv, TextsAreMinded, NEW p \in Orders,
           AutoClose(p) \/ \E open \in BOOLEAN : SetOpen(p, open)
    PROVE  TextsAreMinded'
<1>1. PICK open \in BOOLEAN, owner \in {"user", "auto"} :
          order' = [order EXCEPT ![p] = [order[p] EXCEPT !.open = open, !.owner = owner]]
    BY DEF AutoClose, SetOpen
<1>2. UNCHANGED <<job, at, place, filed, excuse>>
    BY DEF AutoClose, SetOpen, historyVars
<1>3. \A o \in Orders : order'[o].st = order[o].st /\ order'[o].covers = order[o].covers
    <2> DEFINE row == [order[p] EXCEPT !.open = open, !.owner = owner]
    <2>1. order \in [Orders -> OrderRecords]
        BY DEF JobsInv, OrderTypeOK
    <2>2. row.st = order[p].st /\ row.covers = order[p].covers
        <3>1. order[p] \in OrderRecords
            BY <2>1
        <3> QED BY <3>1 DEF OrderRecords
    <2>3. order' = [order EXCEPT ![p] = row]
        BY <1>1
    <2> HIDE DEF row
    <2> QED BY <2>1, <2>2, <2>3
<1>4. ASSUME NEW o \in Orders, Live(o)', Behind(o)' PROVE Minded(o)'
    <2>1. SameItems(o) /\ Live(o)
        BY <1>2, <1>3, <1>4, BooksKeepItems DEF Live
    <2> QED BY <1>2, <1>3, <1>4, <2>1, StillKeepsTexts
<1> QED BY <1>4, TextsByOrder

LEMMA RewriteKeepsTexts ==
    ASSUME JobsInv, TextsAreMinded, NEW p \in Orders, Rewrite(p) PROVE TextsAreMinded'
<1>1. /\ FreeRows(job) # {} /\ job' = Enqueued(job, p) /\ at' = at
      /\ UNCHANGED <<order, place, filed, excuse>> /\ job \in JobTable
    BY DEF Rewrite, Unplaced, bookVars, historyVars, JobsInv, OrderTypeOK, JobTable
<1>2. \A r \in Rows : Enqueued(job, p)[r] = job[r] \/ job[r].st = "none"
    BY <1>1, EnqueuedIs
<1>3. ASSUME NEW o \in Orders, Live(o)', Behind(o)' PROVE Minded(o)'
    <2>1. SameItems(o) /\ Live(o)
        BY <1>1, <1>3, BooksKeepItems DEF Live
    <2>2. \A r \in Rows : job'[r] = job[r] \/ job[r].st = "none"
        BY <1>1, <1>2
    <2>3. order' = order /\ excuse' = excuse /\ at' = at
        BY <1>1
    <2> QED BY <1>3, <2>1, <2>2, <2>3, StillKeepsTexts
<1> QED BY <1>3, TextsByOrder

LEMMA ReclaimKeepsTexts ==
    ASSUME JobsInv, TextsAreMinded, NEW late \in SUBSET Workers, Reclaim(late)
    PROVE  TextsAreMinded'
<1>1. at' = at /\ UNCHANGED <<order, place, filed, excuse>>
    BY ReclaimIs DEF bookVars, historyVars
<1>2. ASSUME NEW o \in Orders, Live(o)', Behind(o)' PROVE Minded(o)'
    <2>1. SameItems(o) /\ Live(o)
        BY <1>1, <1>2, BooksKeepItems DEF Live
    <2>2. \A r \in Rows : \/ job'[r] = job[r]
                          \/ job[r].about # o
                          \/ OwedRow(job', r, o)
        BY ReclaimIs DEF OwedRow
    <2> QED BY <1>1, <1>2, <2>1, <2>2, StillKeepsTexts
<1> QED BY <1>2, TextsByOrder

\* An edit's commit queues a rewrite of every order whose items it changed,
\* or finds that one was pending when it took the order's row.
LEMMA CommitKeepsTexts == JobsInv /\ BooksInv /\ TextsAreMinded /\ Commit => TextsAreMinded'
<1> SUFFICES ASSUME JobsInv, BooksInv, TextsAreMinded, Commit PROVE TextsAreMinded'
    OBVIOUS
<1>0. Items = Mails \cup Files /\ Mails \cap Files = {} /\ Nowhere \notin Orders
    BY OrderAssumption DEF Items
<1>1. EditFits
    BY DEF BooksInv
<1>2. /\ edit.at = "locked" /\ edit.from \in Orders /\ at' = at
      /\ \A r \in Rows : \/ job'[r] = job[r]
                         \/ job[r].st = "none"
                         \/ Dies /\ job[r].about = edit.from
    BY <1>1, CommitJobs
<1>3. /\ \A i \in Items : place'[i] = PlaceAfter(i)
      /\ \A f \in Files : filed'[f] = IF f \in Dropped THEN "gone" ELSE filed[f]
    BY <1>1, CommitBooks
<1>4. \A o \in Orders : IF Dies /\ o = edit.from THEN order'[o].st = "gone"
                        ELSE order'[o].st = order[o].st /\ order'[o].covers = order[o].covers
    BY <1>1, CommitBooks
<1>5. \A o \in Orders : ~(Dies /\ o = edit.from) =>
          IF o \in ToRewrite THEN excuse'[o] # "none" \/ PendingWrite(job', o)
          ELSE excuse'[o] = excuse[o]
    BY <1>1, CommitBooks
<1>6. \A i \in edit.moves : place[i] = edit.from
    BY <1>1, <1>2 DEF EditFits
<1>7. ASSUME NEW o \in Orders, Live(o)', Behind(o)' PROVE Minded(o)'
    <2>1. ~(Dies /\ o = edit.from)
        BY <1>4, <1>7 DEF Live
    <2>2. CASE o \in ToRewrite
        <3>1. excuse'[o] # "none" \/ PendingWrite(job', o)
            BY <1>5, <2>1, <2>2
        <3> QED BY <3>1 DEF Minded, RewriteOwed
    <2>3. CASE o \notin ToRewrite
        <3>1. o # edit.to /\ o # edit.from
            BY <1>0, <2>1, <2>3 DEF ToRewrite
        <3>2. \A i \in Items : place'[i] = o <=> place[i] = o
            BY <1>0, <1>3, <1>6, <3>1 DEF PlaceAfter
        <3>3. \A f \in Files : place[f] = o => filed'[f] = filed[f]
            BY <1>0, <1>3, <3>2 DEF Dropped
        <3>4. SameItems(o)
            <4>1. \A i \in Items : (place'[i] = o /\ (i \in Files => filed'[i] = "attached"))
                                   <=> (place[i] = o /\ (i \in Files => filed[i] = "attached"))
                BY <3>2, <3>3
            <4> QED BY <4>1 DEF SameItems, Members, Held
        <3>5. Live(o) /\ order'[o].covers = order[o].covers /\ excuse'[o] = excuse[o]
            BY <1>4, <1>5, <1>7, <2>1, <2>3 DEF Live
        <3>6. \A r \in Rows : job'[r] = job[r] \/ job[r].st = "none" \/ job[r].about # o
            BY <1>2, <3>1
        <3> QED BY <1>2, <1>7, <3>4, <3>5, <3>6, StillKeepsTexts
    <2> QED BY <2>2, <2>3
<1> QED BY <1>7, TextsByOrder

\* A worker whose job is an item's reads no order's text.
LEMMA ItemsReadNothing ==
    ASSUME JobsInv, NEW w \in Workers, at[w].pc # "idle" => at[w].job \in Items, NEW o \in Orders
    PROVE  ~Reading(w, o) /\ at[w].about # o
BY OrderAssumption DEF JobsInv, PositionsFit, Reading

LEMMA ClaimKeepsTexts ==
    ASSUME JobsInv, TextsAreMinded, NEW w \in Workers, NEW j \in Items \cup Rows, Claim(w, j)
    PROVE  TextsAreMinded'
<1>1. /\ at[w].pc = "idle" /\ job[j].st = "pending"
      /\ \A v \in Workers \ {w} : at'[v] = at[v]
      /\ \A k \in (Items \cup Rows) \ {j} : job'[k] = job[k]
      /\ at'[w].pc = "begin" /\ at'[w].job = j /\ at'[w].about = job[j].about
      /\ job'[j].st = "claimed" /\ job'[j].by = w
      /\ UNCHANGED <<order, place, filed, excuse>>
    BY ClaimIs DEF bookVars, historyVars
<1>2. ASSUME NEW o \in Orders, Live(o)', Behind(o)' PROVE Minded(o)'
    <2>1. SameItems(o) /\ Live(o)
        BY <1>1, <1>2, BooksKeepItems DEF Live
    <2>2. CASE job[j].about = o
        <3>1. Reading(w, o)'
            BY <1>1, <2>2 DEF Reading, Owns
        <3> QED BY <3>1 DEF Minded, RewriteOwed
    <2>3. CASE job[j].about # o
        <3>1. Minded(o)
            <4>1. Behind(o)
                <5>1. \A v \in Workers : at'[v].pc = "model" /\ at'[v].about = o =>
                          at'[v] = at[v] \/ at'[v].saw = Members(o)
                    BY <1>1
                <5> QED BY <1>1, <1>2, <2>1, <5>1, StillBehind
            <4> QED BY <2>1, <4>1 DEF TextsAreMinded, Minded
        <3>2. \A r \in Rows : OwedRow(job, r, o) => OwedRow(job', r, o)
            BY <1>1, <2>3 DEF OwedRow
        <3>3. ASSUME NEW v \in Workers, Reading(v, o) PROVE Minded(o)'
            <4>1. v # w
                BY <1>1, <3>3 DEF Reading
            <4>2. Owns(v) => job'[at[v].job] = job[at[v].job]
                <5>1. at[v].job \in Items \cup Rows
                    BY <3>3 DEF Reading, JobsInv, PositionsFit
                <5> QED BY <1>1, <5>1 DEF Owns
            <4> QED BY <1>1, <2>1, <3>3, <4>1, <4>2, ReaderStays
        <3>4. excuse[o] # "none" => Minded(o)'
            BY <1>1 DEF Minded
        <3> QED BY <3>1, <3>2, <3>3, <3>4, StaysMinded
    <2> QED BY <2>2, <2>3
<1> QED BY <1>2, TextsByOrder

LEMMA BeginItemKeepsTexts ==
    ASSUME JobsInv, TextsAreMinded, NEW w \in Workers, BeginItem(w) PROVE TextsAreMinded'
<1>1. /\ at[w].job \in Items /\ job' = job /\ UNCHANGED <<order, place, filed, excuse>>
    BY DEF BeginItem, Unplaced, bookVars, historyVars
<1>2. (\A v \in Workers \ {w} : at'[v] = at[v]) /\ at'[w].about = at[w].about
    <2>1. CASE Goto(w, "finish")
        BY <2>1, GotoIs DEF JobsInv
    <2>2. CASE \E what \in SUBSET (Items \cup Orders) : Reads(w, what)
        BY <2>2, ReadsIs DEF JobsInv
    <2>3. (IF place[at[w].job] # Nowhere THEN {place[at[w].job]} ELSE {o \in Orders : Live(o)})
              \in SUBSET (Items \cup Orders)
        BY <1>1 DEF JobsInv, OrderTypeOK
    <2>4. Goto(w, "finish") \/ \E what \in SUBSET (Items \cup Orders) : Reads(w, what)
        BY <2>3 DEF BeginItem
    <2> QED BY <2>1, <2>2, <2>4
<1>3. ASSUME NEW o \in Orders, Live(o)', Behind(o)' PROVE Minded(o)'
    <2>1. SameItems(o) /\ Live(o)
        BY <1>1, <1>3, BooksKeepItems DEF Live
    <2>2. ~Reading(w, o) /\ at[w].about # o
        BY <1>1, ItemsReadNothing
    <2>3. excuse[o] # "none" => Minded(o)'
        BY <1>1 DEF Minded
    <2> QED BY <1>1, <1>2, <1>3, <2>1, <2>2, <2>3, WalkKeepsTexts
<1> QED BY <1>3, TextsByOrder

\* A text is written from what the order holds now, or its being behind was
\* seen before.
LEMMA BeginWriteKeepsTexts ==
    ASSUME JobsInv, TextsAreMinded, NEW w \in Workers, BeginWrite(w) PROVE TextsAreMinded'
<1> DEFINE p == at[w].about
<1>1. /\ at[w].pc = "begin" /\ at[w].job \in Rows /\ job' = job
      /\ UNCHANGED <<order, place, filed, excuse>>
      /\ IF Live(p) THEN Reads(w, Members(p)) ELSE Goto(w, "finish")
    BY DEF BeginWrite, Unplaced, bookVars, historyVars
<1>2. Members(p) \in SUBSET (Items \cup Orders)
    BY DEF Members, Held
<1>3. /\ \A v \in Workers \ {w} : at'[v] = at[v]
      /\ at'[w].about = at[w].about /\ at'[w].job = at[w].job
      /\ Live(p) => at'[w].pc = "model" /\ at'[w].saw = Members(p)
      /\ ~Live(p) => at'[w].pc = "finish"
    <2>1. CASE Live(p)
        BY <1>1, <1>2, <2>1, ReadsIs DEF JobsInv
    <2>2. CASE ~Live(p)
        BY <1>1, <2>2, GotoIs DEF JobsInv
    <2> QED BY <2>1, <2>2
<1>4. ASSUME NEW o \in Orders, Live(o)', Behind(o)' PROVE Minded(o)'
    <2>1. SameItems(o) /\ Live(o)
        BY <1>1, <1>4, BooksKeepItems DEF Live
    <2>2. at'[w].pc = "model" /\ at'[w].about = o => at'[w].saw = Members(o)
        BY <1>3
    <2>3. excuse[o] # "none" => Minded(o)'
        BY <1>1 DEF Minded
    <2>4. Reading(w, o) => Minded(o)'
        <3>1. SUFFICES ASSUME Reading(w, o) PROVE Reading(w, o)'
            BY DEF Minded, RewriteOwed
        <3>2. at[w].about = o
            BY <3>1 DEF Reading
        <3>3. /\ at'[w].about = o /\ at'[w].pc = "model" /\ at'[w].saw = Members(o)'
              /\ at'[w].job = at[w].job
            BY <1>3, <2>1, <3>2 DEF SameItems
        <3>4. Owns(w)'
            BY <1>1, <3>1, <3>3 DEF Reading, Owns
        <3> QED BY <3>3, <3>4 DEF Reading
    <2> QED BY <1>1, <1>3, <1>4, <2>1, <2>2, <2>3, <2>4, WalkKeepsTexts
<1> QED BY <1>4, TextsByOrder

LEMMA WalksKeepTexts ==
    ASSUME JobsInv, TextsAreMinded, NEW w \in Workers, Refuse(w) \/ SkipFile(w) \/ Raise(w)
    PROVE  TextsAreMinded'
<1>1. /\ at[w].pc = "model" /\ job' = job /\ UNCHANGED <<order, place, filed, excuse>>
      /\ \/ at[w].job \in Items /\ Goto(w, "finish")
         \/ Goto(w, "raised")
    BY DEF Refuse, SkipFile, Raise, Unplaced, bookVars, historyVars, Items
<1>2. /\ \A v \in Workers \ {w} : at'[v] = at[v]
      /\ at'[w].pc \in {"finish", "raised"} /\ at'[w].job = at[w].job /\ at'[w].about = at[w].about
      /\ at[w].job \in Items \/ at'[w].pc = "raised"
    BY <1>1, GotoIs DEF JobsInv
<1>3. ASSUME NEW o \in Orders, Live(o)', Behind(o)' PROVE Minded(o)'
    <2>1. SameItems(o) /\ Live(o)
        BY <1>1, <1>3, BooksKeepItems DEF Live
    <2>2. excuse[o] # "none" => Minded(o)'
        BY <1>1 DEF Minded
    <2>3. Reading(w, o) => Minded(o)'
        <3>1. CASE at[w].job \in Items
            BY <3>1, ItemsReadNothing
        <3>2. CASE at'[w].pc = "raised" /\ at[w].about = o
            <4>1. Reading(w, o) => Reading(w, o)'
                BY <1>1, <1>2, <3>2 DEF Reading, Owns
            <4> QED BY <4>1 DEF Minded, RewriteOwed
        <3> QED BY <1>2, <3>1, <3>2 DEF Reading
    <2> QED BY <1>1, <1>2, <1>3, <2>1, <2>2, <2>3, WalkKeepsTexts
<1> QED BY <1>3, TextsByOrder

LEMMA EndsKeepTexts ==
    ASSUME JobsInv, TextsAreMinded, NEW w \in Workers, Complete(w) \/ Fail(w)
    PROVE  TextsAreMinded'
<1>0. Mails \subseteq Items
    BY DEF Items
<1>1. /\ at[w].pc \in {"model", "raised", "finish"} /\ UNCHANGED <<order, place, filed, excuse>>
      /\ \E row : job' = IF Owns(w) THEN [job EXCEPT ![at[w].job] = row] ELSE job
      /\ \/ at[w].pc = "finish" /\ Goto(w, "idle")
         \/ at[w].job \in Items /\ Goto(w, "idle")
         \/ Goto(w, "settle")
    BY <1>0 DEF Complete, Fail, Ended, Unplaced, bookVars, historyVars
<1>2. /\ \A v \in Workers \ {w} : at'[v] = at[v]
      /\ \/ at'[w].pc = "idle" /\ (at[w].pc = "finish" \/ at[w].job \in Items)
         \/ at'[w].pc = "settle" /\ at'[w].about = at[w].about
    BY <1>1, GotoIs DEF JobsInv
<1>3. \A r \in Rows : job'[r] = job[r] \/ (r = at[w].job /\ Owns(w))
    BY <1>1 DEF JobsInv, OrderTypeOK
<1>4. ASSUME NEW o \in Orders, Live(o)', Behind(o)' PROVE Minded(o)'
    <2>1. SameItems(o) /\ Live(o)
        BY <1>1, <1>4, BooksKeepItems DEF Live
    <2>2. excuse[o] # "none" => Minded(o)'
        BY <1>1 DEF Minded
    <2>3. Reading(w, o) => Minded(o)'
        <3>1. CASE at[w].job \in Items
            BY <3>1, ItemsReadNothing
        <3>2. CASE at[w].pc = "finish"
            BY <3>2 DEF Reading
        <3>3. CASE at'[w].pc = "settle" /\ at'[w].about = at[w].about
            BY <3>3 DEF Reading, Minded, RewriteOwed
        <3> QED BY <1>2, <3>1, <3>2, <3>3
    <2>4. at'[w].pc # "model"
        BY <1>2
    <2> QED BY <1>1, <1>2, <1>3, <1>4, <2>1, <2>2, <2>3, <2>4, WalkKeepsTexts
<1> QED BY <1>4, TextsByOrder

\* What a worker had to do is pending again, or lost with it until its lease
\* runs out; a failure that was being settled is excused.
LEMMA LeavesKeepTexts ==
    ASSUME JobsInv, TextsAreMinded, NEW w \in Workers, GiveBack(w) \/ Retry(w) \/ Crash(w)
    PROVE  TextsAreMinded'
<1>0. Gone \notin Workers /\ Items \cap Rows = {} /\ Nowhere \notin Orders
    BY OrderAssumption
<1>1. /\ Goto(w, "idle") /\ at[w].pc # "idle" /\ UNCHANGED <<order, place, filed>>
      /\ \/ job' = job /\ ~Owns(w)
         \/ /\ Owns(w)
            /\ \A k \in (Items \cup Rows) \ {at[w].job} : job'[k] = job[k]
            /\ job'[at[w].job].about = job[at[w].job].about
            /\ \/ job'[at[w].job].st = "pending"
               \/ job'[at[w].job].st = "claimed" /\ job'[at[w].job].by = Gone
    <2>1. CASE Crash(w)
        BY <2>1, CrashIs DEF Crash, bookVars
    <2>2. CASE GiveBack(w) \/ Retry(w)
        <3>1. at[w].pc # "idle"
            BY <2>2 DEF GiveBack, Retry
        <3>2. PICK n \in 0..MaxAttempts : PutBack(w, n)
            <4>1. at[w].tries \in 0..MaxAttempts /\ at[w].tries > 0 /\ MaxAttempts \in Nat
                BY <3>1, OrderAssumption DEF JobsInv, PositionsFit, OrderTypeOK, Positions
            <4>2. at[w].tries - 1 \in 0..MaxAttempts
                BY <4>1
            <4> QED BY <2>2, <4>1, <4>2 DEF GiveBack, Retry
        <3> QED BY <3>1, <3>2, PutBackIs DEF bookVars
    <2> QED BY <2>1, <2>2
<1>2. \A o \in Orders :
          \/ excuse'[o] = excuse[o]
          \/ excuse'[o] = "gave_up"
    <2>1. excuse \in [Orders -> {"none", "gave_up", "raced", "outrun"}]
        BY DEF JobsInv, OrderTypeOK
    <2> QED BY <2>1 DEF GiveBack, Retry, PutBack, Crash, Unplaced, historyVars
<1>3. \A v \in Workers \ {w} : at'[v] = at[v]
    BY <1>1, GotoIs DEF JobsInv
<1>4. at'[w].pc = "idle"
    BY <1>1, GotoIs DEF JobsInv
<1>5. ASSUME NEW o \in Orders, Live(o)', Behind(o)' PROVE Minded(o)'
    <2>1. SameItems(o) /\ Live(o)
        BY <1>1, <1>5, BooksKeepItems DEF Live
    <2>2. excuse[o] # "none" => Minded(o)'
        BY <1>2 DEF Minded
    <2>3. Reading(w, o) => Minded(o)'
        <3> SUFFICES ASSUME Reading(w, o) PROVE Minded(o)'
            OBVIOUS
        <3>1. at[w].about = o /\ at[w].job \in Rows
            BY <1>0, <1>1 DEF Reading, JobsInv, PositionsFit
        <3>2. CASE at[w].pc # "settle"
            <4>1. Owns(w)
                BY <3>2 DEF Reading
            <4>2. job[at[w].job].about = o
                BY <3>1, <4>1 DEF Owns, JobsInv, ClaimsAreHeld
            <4>3. OwedRow(job', at[w].job, o)
                BY <1>1, <4>1, <4>2 DEF OwedRow
            <4>4. \E r \in Rows : OwedRow(job', r, o)
                BY <3>1, <4>3
            <4> QED BY <4>4 DEF OwedRow, Minded, RewriteOwed, PendingWrite
        <3>3. CASE at[w].pc = "settle"
            <4>1. Crash(w)
                BY <3>3 DEF GiveBack, Retry
            <4>2. excuse' = [excuse EXCEPT ![o] = "gave_up"]
                BY <2>1, <3>1, <3>3, <4>1 DEF Crash
            <4>3. excuse'[o] = "gave_up"
                BY <4>2 DEF JobsInv, OrderTypeOK
            <4> QED BY <4>3 DEF Minded
        <3> QED BY <3>2, <3>3
    <2>4. \A r \in Rows : job'[r] = job[r] \/ (r = at[w].job /\ Owns(w))
        BY <1>1
    <2>5. at'[w].pc # "model" /\ order'[o].covers = order[o].covers
        BY <1>1, <1>4
    <2> QED BY <1>3, <1>5, <2>1, <2>2, <2>3, <2>4, <2>5, WalkKeepsTexts
<1> QED BY <1>5, TextsByOrder

\* A text is stored: it covers the order's items, or was behind them already
\* and its next rewrite is owed by somebody else.
LEMMA WriteKeepsTexts ==
    ASSUME JobsInv, BooksInv, TextsAreMinded, NEW w \in Workers, NEW open \in BOOLEAN, Write(w, open)
    PROVE  TextsAreMinded'
<1> DEFINE p == at[w].about
<1>1. /\ at[w].pc = "model" /\ at[w].job \in Rows /\ Goto(w, "finish")
      /\ UNCHANGED <<job, place, filed, excuse>>
      /\ order' = IF Live(p) THEN [order EXCEPT ![p] = Written(order[p], at[w].saw, open)] ELSE order
    BY DEF Write, historyVars
<1>2. at'[w].pc = "finish" /\ \A v \in Workers \ {w} : at'[v] = at[v]
    BY <1>1, GotoIs DEF JobsInv
<1>3. \A v \in Workers : at'[v].pc # "model"
    BY <1>1, <1>2 DEF JobsInv, OneAtTheModel
<1>4. at[w].saw \in SUBSET Items
    BY <1>1 DEF BooksInv, SawWhatItIs
<1>5. ASSUME NEW o \in Orders
      PROVE  order'[o].st = order[o].st
             /\ order'[o].covers = IF o = p /\ Live(p) THEN at[w].saw ELSE order[o].covers
    <2>1. order \in [Orders -> OrderRecords] /\ OrderTypeOK
        BY DEF JobsInv, OrderTypeOK
    <2>2. Written(order[o], at[w].saw, open).st = order[o].st
          /\ Written(order[o], at[w].saw, open).covers = at[w].saw
        BY <1>4, <2>1, WrittenIs
    <2> HIDE DEF p
    <2>3. CASE Live(p)
        <3>1. order' = [order EXCEPT ![p] = Written(order[p], at[w].saw, open)]
            BY <1>1, <2>3
        <3>2. CASE o = p
            BY <2>1, <2>2, <2>3, <3>1, <3>2
        <3>3. CASE o # p
            BY <2>1, <3>1, <3>3
        <3> QED BY <3>2, <3>3
    <2>4. CASE ~Live(p)
        BY <1>1, <2>4
    <2> QED BY <2>3, <2>4
<1>6. ASSUME NEW o \in Orders, Live(o)', Behind(o)' PROVE Minded(o)'
    <2>1. SameItems(o) /\ Live(o)
        BY <1>1, <1>5, <1>6, BooksKeepItems DEF Live
    <2>2. excuse[o] # "none" => Minded(o)'
        BY <1>1 DEF Minded
    <2>3. CASE o # p
        <3>1. ~Reading(w, o)
            BY <2>3 DEF Reading
        <3>2. order'[o].covers = order[o].covers
            BY <1>5, <2>3
        <3>3. at'[w].pc # "model" /\ job' = job
            BY <1>1, <1>2
        <3> QED BY <1>2, <1>6, <2>1, <2>2, <3>1, <3>2, <3>3, WalkKeepsTexts
    <2>4. CASE o = p
        <3>1. order'[o].covers = at[w].saw
            BY <1>5, <2>1, <2>4
        <3>2. at[w].saw # Members(o)
            BY <1>3, <1>6, <2>1, <3>1 DEF Behind, SameItems
        <3>3. Behind(o) /\ ~Reading(w, o)
            BY <1>1, <2>4, <3>2 DEF Behind, Reading
        <3>4. Minded(o)
            BY <2>1, <3>3 DEF TextsAreMinded, Minded
        <3> QED BY <1>1, <1>2, <2>1, <2>2, <3>3, <3>4, WalkStaysMinded
    <2> QED BY <2>3, <2>4
<1> QED BY <1>6, TextsByOrder

LEMMA SettleWriteKeepsTexts ==
    ASSUME JobsInv, TextsAreMinded, NEW w \in Workers, SettleWrite(w) PROVE TextsAreMinded'
<1> DEFINE p == at[w].about
<1>1. /\ at[w].pc = "settle" /\ at[w].job \in Rows /\ Goto(w, "idle")
      /\ UNCHANGED <<job, place, filed>>
    BY DEF SettleWrite
<1>2. at'[w].pc = "idle" /\ \A v \in Workers \ {w} : at'[v] = at[v]
    BY <1>1, GotoIs DEF JobsInv
<1>3. p \in Orders
    BY <1>1 DEF JobsInv, PositionsFit
<1>4. order'[p].st = order[p].st /\ \A o \in Orders \ {p} : order'[o] = order[o]
    <2>1. order' = IF ~Live(p) THEN order
                   ELSE IF order[p].written THEN [order EXCEPT ![p].stale = FALSE]
                   ELSE [order EXCEPT ![p] = Written(order[p], {}, TRUE)]
        BY DEF SettleWrite
    <2>2. order \in [Orders -> OrderRecords] /\ OrderTypeOK
        BY DEF JobsInv, OrderTypeOK
    <2>3. {} \in SUBSET Items /\ TRUE \in BOOLEAN
        OBVIOUS
    <2> HIDE DEF p
    <2>4. Written(order[p], {}, TRUE).st = order[p].st
        BY <1>3, <2>2, <2>3, WrittenIs
    <2>5. order[p] \in OrderRecords /\ [order[p] EXCEPT !.stale = FALSE].st = order[p].st
        BY <1>3, <2>2 DEF OrderRecords
    <2> QED BY <1>3, <2>1, <2>2, <2>4, <2>5
<1>5. \A o \in Orders : excuse'[o] = IF o = p /\ Live(p) THEN "gave_up" ELSE excuse[o]
    <2>1. excuse' = [excuse EXCEPT ![p] = IF Live(p) THEN "gave_up" ELSE excuse[p]]
        BY DEF SettleWrite
    <2> QED BY <1>3, <2>1 DEF JobsInv, OrderTypeOK
<1>6. ASSUME NEW o \in Orders, Live(o)', Behind(o)' PROVE Minded(o)'
    <2>1. SameItems(o) /\ Live(o)
        BY <1>1, <1>4, <1>6, BooksKeepItems DEF Live
    <2>2. CASE o = p
        BY <1>5, <2>1, <2>2 DEF Minded
    <2>3. CASE o # p
        <3>1. ~Reading(w, o) /\ excuse'[o] = excuse[o] /\ order'[o].covers = order[o].covers
            BY <1>4, <1>5, <2>3 DEF Reading
        <3>2. excuse[o] # "none" => Minded(o)'
            BY <3>1 DEF Minded
        <3>3. at'[w].pc # "model" /\ job' = job
            BY <1>1, <1>2
        <3> QED BY <1>2, <1>6, <2>1, <3>1, <3>2, <3>3, WalkKeepsTexts
    <2> QED BY <2>2, <2>3
<1> QED BY <1>6, TextsByOrder

LEMMA SettleFileKeepsTexts ==
    ASSUME JobsInv, BooksInv, TextsAreMinded, NEW w \in Workers, SettleFile(w) PROVE TextsAreMinded'
<1> DEFINE f == at[w].job
<1>0. Items = Mails \cup Files /\ Mails \cap Files = {}
    BY OrderAssumption DEF Items
<1>1. /\ at[w].pc = "settle" /\ f \in Files /\ Goto(w, "idle")
      /\ UNCHANGED <<job, place, order>>
    BY DEF SettleFile
<1>2. at'[w].pc = "idle" /\ \A v \in Workers \ {w} : at'[v] = at[v]
    BY <1>1, GotoIs DEF JobsInv
<1>3. \A o \in Orders : excuse'[o] = IF filed[f] = "attached" /\ o = place[f] THEN "outrun"
                                   ELSE excuse[o]
    BY DEF SettleFile
<1>4. filed'[f] # "attached" /\ \A g \in Files \ {f} : filed'[g] = filed[g]
    <2>1. filed' = [filed EXCEPT ![f] = IF filed[f] = "gone" THEN "gone" ELSE "failed"]
        BY DEF SettleFile
    <2>2. filed \in [Files -> {"absent", "pending", "attached", "failed", "gone"}]
        BY DEF JobsInv, OrderTypeOK
    <2> HIDE DEF f
    <2> QED BY <1>1, <2>1, <2>2
<1>5. ASSUME NEW o \in Orders, Live(o)', Behind(o)', ~(filed[f] = "attached" /\ o = place[f])
      PROVE  Minded(o)'
    <2>1. SameItems(o)
        <3>1. \A i \in Items : (place'[i] = o /\ (i \in Files => filed'[i] = "attached"))
                               <=> (place[i] = o /\ (i \in Files => filed[i] = "attached"))
            <4> HIDE DEF f
            <4> QED BY <1>1, <1>4, <1>5
        <3> QED BY <3>1 DEF SameItems, Members, Held
    <2>2. Live(o) /\ ~Reading(w, o)
        BY <1>0, <1>1, <1>5, ItemsReadNothing DEF Live
    <2>3. excuse[o] # "none" => Minded(o)'
        BY <1>3, <1>5 DEF Minded
    <2>4. at'[w].pc # "model" /\ job' = job /\ order' = order
        BY <1>1, <1>2
    <2> QED BY <1>2, <1>5, <2>1, <2>2, <2>3, <2>4, WalkKeepsTexts
<1>6. \A o \in Orders : filed[f] = "attached" /\ o = place[f] => Minded(o)'
    BY <1>3 DEF Minded
<1> QED BY <1>5, <1>6, TextsByOrder

\* Only what is in no order, or in that order already, is attached to one.
LEMMA AttachFrom ==
    ASSUME BooksInv, NEW w \in Workers, NEW o \in Orders, Attach(w, o)
    PROVE  place[at[w].job] \in {Nowhere, o}
<1>1. /\ at[w].pc = "model" /\ at[w].job \in Items
      /\ (o \in at[w].saw /\ Live(o)) \/ place[at[w].job] = Nowhere
    BY DEF Attach
<1>2. CASE at[w].job \in Mails
    BY <1>1, <1>2 DEF BooksInv, MailsAtTheModel
<1>3. CASE at[w].job \in Files
    BY <1>1, <1>3 DEF BooksInv, FilesAtTheModel
<1> QED BY <1>1, <1>2, <1>3 DEF Items

\* The order that took an item is owed a rewrite; the others did not change.
LEMMA AttachKeepsTexts ==
    ASSUME JobsInv, BooksInv, TextsAreMinded, NEW w \in Workers, NEW p \in Orders, Attach(w, p)
    PROVE  TextsAreMinded'
<1> DEFINE i == at[w].job
<1>0. Items = Mails \cup Files /\ Mails \cap Files = {} /\ Nowhere \notin Orders
    BY OrderAssumption DEF Items
<1>1. /\ i \in Items /\ Goto(w, "finish")
      /\ \A o \in Orders \ {p} : order'[o] = order[o]
      /\ PendingWrite(job', p)
    BY AttachIs
<1>2. /\ place'[i] = p /\ \A k \in Items \ {i} : place'[k] = place[k]
      /\ \A f \in Files \ {i} : filed'[f] = filed[f]
      /\ \A o \in Orders \ {p} : excuse'[o] = excuse[o]
    BY AttachIs
<1>3. \A r \in Rows : job'[r] = job[r] \/ job[r].st = "none"
    BY AttachIs
<1>4. at'[w].pc = "finish" /\ \A v \in Workers \ {w} : at'[v] = at[v]
    BY <1>1, GotoIs DEF JobsInv
<1>5. place[i] \in {Nowhere, p}
    BY AttachFrom
<1>6. ASSUME NEW o \in Orders, Live(o)', Behind(o)' PROVE Minded(o)'
    <2>1. CASE o = p
        BY <1>1, <2>1 DEF Minded, RewriteOwed
    <2>2. CASE o # p
        <3>1. SameItems(o)
            <4>1. \A k \in Items : (place'[k] = o /\ (k \in Files => filed'[k] = "attached"))
                                   <=> (place[k] = o /\ (k \in Files => filed[k] = "attached"))
                <5> HIDE DEF i
                <5> QED BY <1>0, <1>2, <1>5, <2>2
            <4> QED BY <4>1 DEF SameItems, Members, Held
        <3>2. Live(o) /\ ~Reading(w, o)
            BY <1>1, <1>6, <2>2, ItemsReadNothing DEF Live
        <3>3. order'[o] = order[o] /\ excuse'[o] = excuse[o]
            BY <1>1, <1>2, <2>2
        <3>4. excuse[o] # "none" => Minded(o)'
            BY <3>3 DEF Minded
        <3> QED BY <1>3, <1>4, <1>6, <3>1, <3>2, <3>3, <3>4, WalkKeepsTexts
    <2> QED BY <2>1, <2>2
<1> QED BY <1>6, TextsByOrder

OrderInv == JobsInv /\ BooksInv /\ TextsAreMinded

LEMMA InitIsMinded == OrderInit => OrderInv
<1> SUFFICES ASSUME OrderInit PROVE OrderInv
    OBVIOUS
<1>0. /\ Items = Mails \cup Files /\ Mails \cap Files = {} /\ Items \cap Rows = {}
      /\ Nowhere \notin Orders /\ Nobody \notin Workers /\ Gone \notin Workers
      /\ MaxAttempts \in Nat /\ MaxEdits \in Nat /\ MaxLosses \in Nat
    BY OrderAssumption DEF Items
<1>1. place \in [Items -> Orders \cup {Nowhere}]
    BY OrderAssumption DEF OrderInit
<1>2. order = [o \in Orders |->
            IF Held(o) = {} THEN Unwritten
            ELSE [Unwritten EXCEPT !.st = "live", !.written = TRUE, !.stale = FALSE,
                                   !.covers = Held(o)]]
    BY DEF OrderInit
<1>3. filed = [f \in Files |-> IF place[f] = Nowhere THEN "absent" ELSE "attached"]
    BY DEF OrderInit
<1>4. job = [j \in Items \cup Rows |->
            IF j \in Items /\ place[j] # Nowhere THEN [NoJob EXCEPT !.st = "done"] ELSE NoJob]
    BY DEF OrderInit
<1>5. at = [w \in Workers |-> Resting]
    BY DEF OrderInit
<1>6. /\ edit = NoEdit /\ edits = 0 /\ losses = 0
      /\ excuse = [o \in Orders |-> "none"]
      /\ bundled = [i \in Items |-> IF place[i] = Nowhere THEN 0 ELSE 1]
      /\ reopened = {}
    BY DEF OrderInit
<1>7. ASSUME NEW o \in Orders
      PROVE  /\ order[o] \in OrderRecords
             /\ Held(o) # {} => order[o].st = "live" /\ order[o].covers = Held(o)
             /\ Held(o) = {} => order[o].st = "none"
    <2> DEFINE full == [Unwritten EXCEPT !.st = "live", !.written = TRUE, !.stale = FALSE,
                                         !.covers = Held(o)]
    <2>1. Held(o) \in SUBSET Items
        BY DEF Held
    <2>2. full \in OrderRecords /\ full.st = "live" /\ full.covers = Held(o)
        BY <2>1 DEF Unwritten, OrderRecords
    <2>3. Unwritten \in OrderRecords /\ Unwritten.st = "none"
        BY DEF Unwritten, OrderRecords
    <2>4. order[o] = IF Held(o) = {} THEN Unwritten ELSE full
        BY <1>2
    <2> HIDE DEF full
    <2> QED BY <2>2, <2>3, <2>4
<1>8. ASSUME NEW j \in Items \cup Rows
      PROVE  /\ job[j] \in JobRecords /\ job[j].about = Nowhere
             /\ job[j].st = IF j \in Items /\ place[j] # Nowhere THEN "done" ELSE "none"
    <2> DEFINE done == [NoJob EXCEPT !.st = "done"]
    <2>1. 0 \in 0..MaxAttempts
        BY <1>0
    <2>2. NoJob \in JobRecords /\ NoJob.st = "none" /\ NoJob.about = Nowhere
        BY <2>1 DEF NoJob, JobRecords
    <2>3. done \in JobRecords /\ done.st = "done" /\ done.about = Nowhere
        BY <2>1 DEF NoJob, JobRecords
    <2>4. job[j] = IF j \in Items /\ place[j] # Nowhere THEN done ELSE NoJob
        BY <1>4
    <2> HIDE DEF done
    <2> QED BY <2>2, <2>3, <2>4
<1>9. \A w \in Workers : at[w] = Resting /\ Resting \in Positions
    BY <1>0, <1>5 DEF Resting, Positions
<1>10. \A w \in Workers : at[w].pc = "idle" /\ at[w].about = Nowhere /\ at[w].job = Nobody
    BY <1>5 DEF Resting
<1>11. JobsInv
    <2>1. OrderTypeOK
        <3>1. order \in [Orders -> OrderRecords]
            BY <1>2, <1>7
        <3>2. job \in [Items \cup Rows -> JobRecords]
            BY <1>4, <1>8
        <3>3. at \in [Workers -> Positions]
            BY <1>5, <1>9
        <3>4. edit \in Edits
            BY <1>6 DEF NoEdit, Edits
        <3>5. filed \in [Files -> {"absent", "pending", "attached", "failed", "gone"}]
            BY <1>3
        <3> QED BY <1>0, <1>1, <1>6, <3>1, <3>2, <3>3, <3>4, <3>5 DEF OrderTypeOK
    <2>2. PositionsFit
        BY <1>10 DEF PositionsFit
    <2>3. RowsFit /\ ClaimsAreHeld
        BY <1>0, <1>8 DEF RowsFit, ClaimsAreHeld
    <2>4. OneAtTheModel
        BY <1>10 DEF OneAtTheModel
    <2> QED BY <2>1, <2>2, <2>3, <2>4 DEF JobsInv
<1>12. BooksInv
    <2>1. AbsentFiles
        BY <1>0, <1>3, <1>6, <1>8 DEF AbsentFiles
    <2>2. EditFits
        BY <1>6 DEF EditFits, NoEdit
    <2>3. MailsAtTheModel /\ SawWhatItIs
        BY <1>10 DEF MailsAtTheModel, SawWhatItIs
    <2>4. FilesAtTheModel
        BY <1>10 DEF FilesAtTheModel
    <2>5. PlacedSomewhere
        BY <1>1, <1>7 DEF PlacedSomewhere, Held
    <2>6. BundledIsDealt
        BY <1>6, <1>8, <1>10 DEF BundledIsDealt, Dealt, Unfinished
    <2> QED BY <2>1, <2>2, <2>3, <2>4, <2>5, <2>6 DEF BooksInv
<1>13. TextsAreMinded
    <2> SUFFICES ASSUME NEW o \in Orders, Live(o) PROVE ~Behind(o)
        BY DEF TextsAreMinded
    <2>1. Members(o) = Held(o)
        BY <1>0, <1>3 DEF Members, Held
    <2>2. order[o].covers = Held(o)
        BY <1>7 DEF Live
    <2> QED BY <1>10, <2>1, <2>2 DEF Behind
<1> QED BY <1>11, <1>12, <1>13 DEF OrderInv

LEMMA WorkerKeepsInv ==
    ASSUME OrderInv, NEW w \in Workers, WorkerStep(w) PROVE OrderInv'
<1> USE DEF OrderInv
<1>1. ASSUME NEW j \in Items \cup Rows, Claim(w, j) PROVE OrderInv'
    BY <1>1, ClaimKeepsJobs, ClaimKeepsBooks, ClaimKeepsTexts
<1>2. CASE BeginItem(w)
    BY <1>2, WalksKeepJobs, BeginItemKeepsBooks, BeginItemKeepsTexts
<1>3. CASE BeginWrite(w)
    BY <1>3, WalksKeepJobs, BeginWriteKeepsBooks, BeginWriteKeepsTexts
<1>4. CASE Refuse(w) \/ SkipFile(w) \/ Raise(w)
    BY <1>4, WalksKeepJobs, WalksKeepBooks, WalksKeepTexts
<1>5. ASSUME NEW o \in Orders, Attach(w, o) PROVE OrderInv'
    BY <1>5, AttachKeepsJobs, AttachKeepsBooks, AttachKeepsTexts
<1>6. ASSUME NEW open \in BOOLEAN, Write(w, open) PROVE OrderInv'
    <2>1. at[w].saw \subseteq Items
        BY <1>6 DEF Write, BooksInv, SawWhatItIs
    <2> QED BY <1>6, <2>1, WriteKeepsJobs, WriteKeepsBooks, WriteKeepsTexts
<1>7. CASE Complete(w) \/ Fail(w)
    BY <1>7, EndsKeepJobs, EndsKeepBooks, EndsKeepTexts
<1>8. CASE GiveBack(w) \/ Retry(w)
    BY <1>8, GivesBackKeepJobs, LeavesKeepBooks, LeavesKeepTexts
<1>9. CASE Crash(w)
    BY <1>9, CrashKeepsJobs, LeavesKeepBooks, LeavesKeepTexts
<1>10. CASE SettleFile(w)
    BY <1>10, SettleFileKeepsJobs, SettleFileKeepsBooks, SettleFileKeepsTexts
<1>11. CASE SettleWrite(w)
    BY <1>11, SettleWriteKeepsJobs, SettleWriteKeepsBooks, SettleWriteKeepsTexts
<1> QED BY <1>1, <1>2, <1>3, <1>4, <1>5, <1>6, <1>7, <1>8, <1>9, <1>10, <1>11 DEF WorkerStep

LEMMA PersonKeepsInv == OrderInv /\ PersonStep => OrderInv'
<1> SUFFICES ASSUME OrderInv, PersonStep PROVE OrderInv'
    OBVIOUS
<1> USE DEF OrderInv
<1>1. ASSUME EditBegins PROVE OrderInv'
    <2>1. UNCHANGED <<bookVars, job, at, historyVars>>
        BY <1>1 DEF EditBegins, StartEdit
    <2> QED BY <1>1, <2>1, EditBeginsKeepsJobs, EditBeginsKeepsBooks, EditStepKeepsTexts
<1>2. ASSUME NEW f \in Files, NEW o \in Orders \cup {Nowhere}, Upload(f, o) PROVE OrderInv'
    BY <1>2, UploadKeepsJobs, UploadKeepsBooks, UploadKeepsTexts DEF BooksInv
<1>3. ASSUME NEW o \in Orders, Rewrite(o) PROVE OrderInv'
    BY <1>3, RewriteKeepsJobs, RewriteKeepsBooks, RewriteKeepsTexts
<1>4. ASSUME NEW o \in Orders, NEW open \in BOOLEAN, SetOpen(o, open) PROVE OrderInv'
    BY <1>4, DecidesKeepJobs, DecidesKeepBooks, DecidesKeepTexts
<1>5. CASE Lock
    <2>1. UNCHANGED <<bookVars, job, at, historyVars>>
        BY <1>5 DEF Lock
    <2> QED BY <1>5, <2>1, LockKeepsJobs, LockKeepsBooks, EditStepKeepsTexts
<1>6. CASE Commit
    BY <1>6, CommitKeepsJobs, CommitKeepsBooks, CommitKeepsTexts DEF BooksInv
<1>7. CASE \/ \E i \in Mails, o \in Orders \cup {Nowhere} : Detach(i, o)
           \/ \E f \in Files : DeleteFile(f)
           \/ \E from, to \in Orders : Merge(from, to)
           \/ \E o \in Orders : Delete(o)
    BY <1>1, <1>7, EditsBegin
<1> QED BY <1>2, <1>3, <1>4, <1>5, <1>6, <1>7 DEF PersonStep

LEMMA NextKeepsInv == OrderInv /\ [OrderNext]_orderVars => OrderInv'
<1> SUFFICES ASSUME OrderInv, [OrderNext]_orderVars PROVE OrderInv'
    OBVIOUS
<1>1. ASSUME NEW i \in Mails, QueueMail(i) PROVE OrderInv'
    BY <1>1, QueueMailKeepsJobs, QueueMailKeepsBooks, QueueMailKeepsTexts DEF OrderInv
<1>2. ASSUME NEW late \in SUBSET Workers, Reclaim(late) PROVE OrderInv'
    BY <1>2, ReclaimKeepsJobs, ReclaimKeepsBooks, ReclaimKeepsTexts DEF OrderInv
<1>3. ASSUME NEW o \in Orders, AutoClose(o) PROVE OrderInv'
    BY <1>3, DecidesKeepJobs, DecidesKeepBooks, DecidesKeepTexts DEF OrderInv
<1>4. ASSUME NEW f \in Files, Prune(f) PROVE OrderInv'
    BY <1>4, PruneKeepsJobs, PruneKeepsBooks, PruneKeepsTexts DEF OrderInv
<1>5. CASE UNCHANGED orderVars
    <2>1. UNCHANGED <<bookVars, job, at, edit, boundVars, historyVars>>
        BY <1>5 DEF orderVars
    <2>2. JobsInv'
        <3>1. OrderTypeOK' /\ OrdersAge
            BY <2>1 DEF OrderInv, JobsInv, OrderTypeOK, OrdersAge, bookVars, boundVars, historyVars
        <3> QED BY <2>1, <3>1, StillKeepsJobs DEF OrderInv
    <2>3. BooksInv'
        <3>1. EditFits'
            BY <2>1 DEF OrderInv, BooksInv, EditFits, bookVars
        <3> QED BY <2>1, <3>1, EditStepKeepsBooks DEF OrderInv
    <2>4. TextsAreMinded'
        BY <2>1, EditStepKeepsTexts DEF OrderInv
    <2> QED BY <2>2, <2>3, <2>4 DEF OrderInv
<1> QED BY <1>1, <1>2, <1>3, <1>4, <1>5, WorkerKeepsInv, PersonKeepsInv DEF OrderNext

\* The inductive invariant of the register of orders: jobs and their workers,
\* items and their orders, texts and what they cover, through the lock around
\* the model, edits by a person, losses, reclaims and pruned files.
THEOREM OrderInvariant == OrderSpec => []OrderInv
BY InitIsMinded, NextKeepsInv, PTL DEF OrderSpec

\* Jobs, workers, orders and edits keep their domains for any mails, files,
\* orders, workers and attempts: no job exceeds its attempts, no order holds
\* what is no item.
THEOREM OrderTypeCorrect == OrderSpec => []OrderTypeOK
<1>1. OrderInv => OrderTypeOK
    BY DEF OrderInv, JobsInv
<1> QED BY <1>1, OrderInvariant, PTL

\* An item is bundled a second time only after it was reopened, whoever claims,
\* loses and reclaims its job: what it became is looked at again under the lock.
THEOREM BundlesOnce == OrderSpec => []BundledOnce
<1>1. OrderInv => BundledOnce
    BY DEF OrderInv, BooksInv, BundledIsDealt, BundledOnce, JobsInv, OrderTypeOK
<1> QED BY <1>1, OrderInvariant, PTL

\* The text of a live order covers exactly its members, or its rewrite is still
\* owed, whatever items come and go while the model writes: excused are only a
\* write job that was given up, an edit that met a rewrite already reading, and a
\* placed file that a worker without its job marked failed.
THEOREM TextsFollow == OrderSpec => []TextFollowsMembers
<1>1. OrderInv => TextFollowsMembers
    BY DEF OrderInv, TextsAreMinded, TextFollowsMembers, Behind
<1> QED BY <1>1, OrderInvariant, PTL

\* What a step may make of an order a person has decided.
Decided(o) ==
    \/ order'[o].owner = "user" /\ order'[o].open = order[o].open
    \/ order'[o].owner = "user" /\ SetOpen(o, order'[o].open)
    \/ order'[o].owner = "ai" /\ \E w \in Workers : Attach(w, o)

LEMMA AttachDecides ==
    ASSUME OrderInv, NEW w \in Workers, NEW p \in Orders, Attach(w, p),
           NEW o \in Orders, order[o].owner = "user"
    PROVE  Decided(o)
<1>1. order'[p].owner = "ai" /\ \A q \in Orders \ {p} : order'[q] = order[q]
    BY AttachIs DEF OrderInv
<1> QED BY <1>1 DEF Decided

LEMMA WritesDecide ==
    ASSUME OrderInv, NEW w \in Workers,
           SettleWrite(w) \/ \E open \in BOOLEAN : Write(w, open),
           NEW o \in Orders, order[o].owner = "user"
    PROVE  order'[o].owner = "user" /\ order'[o].open = order[o].open
<1>1. order \in [Orders -> OrderRecords] /\ OrderTypeOK
    BY DEF OrderInv, JobsInv, OrderTypeOK
<1>2. PICK saw \in SUBSET Items, open \in BOOLEAN :
          \/ order' = order
          \/ order' = [order EXCEPT ![at[w].about].stale = FALSE]
          \/ order' = [order EXCEPT ![at[w].about] = Written(order[at[w].about], saw, open)]
    <2>1. CASE SettleWrite(w)
        <3>1. {} \in SUBSET Items /\ TRUE \in BOOLEAN
            OBVIOUS
        <3> QED BY <2>1, <3>1 DEF SettleWrite
    <2>2. CASE \E open \in BOOLEAN : Write(w, open)
        <3>1. at[w].saw \in SUBSET Items
            BY <2>2 DEF Write, OrderInv, BooksInv, SawWhatItIs
        <3> QED BY <2>2, <3>1 DEF Write
    <2> QED BY <2>1, <2>2
<1>3. /\ Written(order[o], saw, open).owner = "user"
      /\ Written(order[o], saw, open).open = order[o].open
    BY <1>1, WrittenIs
<1>4. /\ [order[o] EXCEPT !.stale = FALSE].owner = "user"
      /\ [order[o] EXCEPT !.stale = FALSE].open = order[o].open
    <2>1. order[o] \in OrderRecords
        BY <1>1
    <2> QED BY <2>1 DEF OrderRecords
<1> DEFINE p == at[w].about
<1> HIDE DEF p
<1>5. CASE order' = [order EXCEPT ![p] = Written(order[p], saw, open)]
    BY <1>1, <1>3, <1>5
<1>6. CASE order' = [order EXCEPT ![p].stale = FALSE]
    BY <1>1, <1>4, <1>6
<1> QED BY <1>2, <1>5, <1>6 DEF p

LEMMA CommitDecides ==
    ASSUME OrderInv, Commit, NEW o \in Orders, Live(o)', order[o].owner = "user"
    PROVE  order'[o].owner = "user" /\ order'[o].open = order[o].open
<1> DEFINE gone == [Unwritten EXCEPT !.st = "gone"]
           stale == [order[o] EXCEPT !.stale = TRUE]
<1>1. order'[o] = IF Dies /\ o = edit.from THEN gone
                  ELSE IF o \in ToRewrite THEN stale ELSE order[o]
    BY DEF Commit
<1>2. gone.st = "gone"
    BY DEF Unwritten
<1>3. stale.owner = order[o].owner /\ stale.open = order[o].open
    <2>1. order[o] \in OrderRecords
        BY DEF OrderInv, JobsInv, OrderTypeOK
    <2> QED BY <2>1 DEF OrderRecords
<1> HIDE DEF gone, stale
<1> QED BY <1>1, <1>2, <1>3 DEF Live

LEMMA StepDecides ==
    ASSUME OrderInv, [OrderNext]_orderVars, NEW o \in Orders, Live(o)', order[o].owner = "user"
    PROVE  Decided(o)
<1>1. CASE order' = order
    BY <1>1 DEF Decided
<1>2. ASSUME NEW w \in Workers, WorkerStep(w), order' # order PROVE Decided(o)
    <2>1. \/ \E p \in Orders : Attach(w, p)
          \/ SettleWrite(w) \/ \E open \in BOOLEAN : Write(w, open)
        BY <1>2 DEF WorkerStep, Claim, BeginItem, Refuse, SkipFile, BeginWrite, Complete, Raise,
                    GiveBack, Retry, PutBack, Fail, SettleFile, Crash, Unplaced, bookVars
    <2>2. CASE \E p \in Orders : Attach(w, p)
        BY <2>2, AttachDecides
    <2>3. CASE SettleWrite(w) \/ \E open \in BOOLEAN : Write(w, open)
        BY <2>3, WritesDecide DEF Decided
    <2> QED BY <2>1, <2>2, <2>3
<1>3. ASSUME NEW p \in Orders, NEW open \in BOOLEAN, SetOpen(p, open) PROVE Decided(o)
    <2>1. order' = [order EXCEPT ![p] = [order[p] EXCEPT !.open = open, !.owner = "user"]]
        BY <1>3 DEF SetOpen
    <2>2. order \in [Orders -> OrderRecords]
        BY DEF OrderInv, JobsInv, OrderTypeOK
    <2>3. [order[p] EXCEPT !.open = open, !.owner = "user"].open = open
          /\ [order[p] EXCEPT !.open = open, !.owner = "user"].owner = "user"
        <3>1. order[p] \in OrderRecords
            BY <2>2
        <3> QED BY <3>1 DEF OrderRecords
    <2> DEFINE row == [order[p] EXCEPT !.open = open, !.owner = "user"]
    <2> HIDE DEF row
    <2>4. order'[p] = row /\ \A q \in Orders \ {p} : order'[q] = order[q]
        BY <2>1, <2>2 DEF row
    <2>5. CASE o = p
        <3>1. order'[o].owner = "user" /\ order'[o].open = open
            BY <2>3, <2>4, <2>5 DEF row
        <3>2. SetOpen(o, order'[o].open)
            BY <1>3, <2>5, <3>1
        <3> QED BY <3>1, <3>2 DEF Decided
    <2>6. CASE o # p
        BY <2>4, <2>6 DEF Decided
    <2> QED BY <2>5, <2>6
<1>4. ASSUME NEW p \in Orders, AutoClose(p) PROVE Decided(o)
    <2>1. order[p].owner = "ai" /\ \A q \in Orders \ {p} : order'[q] = order[q]
        BY <1>4 DEF AutoClose, OrderInv, JobsInv, OrderTypeOK
    <2> QED BY <2>1 DEF Decided
<1>5. CASE Commit
    BY <1>5, CommitDecides DEF Decided
<1>6. \/ order' = order \/ Commit
      \/ \E w \in Workers : WorkerStep(w)
      \/ \E p \in Orders : AutoClose(p) \/ \E open \in BOOLEAN : SetOpen(p, open)
    BY DEF OrderNext, PersonStep, QueueMail, Reclaim, Prune, Detach, DeleteFile, Upload, Merge,
           Delete, StartEdit, Rewrite, Lock, Unplaced, bookVars, orderVars
<1> QED BY <1>1, <1>2, <1>3, <1>4, <1>5, <1>6

\* Whether an order is open stays as a person decided it until a person decides
\* otherwise or the bundler attaches a new item to it; a rewrite by the model
\* never reopens or closes it.
THEOREM DecisionsStay == OrderSpec => PersonDecides
<1>1. OrderInv /\ [OrderNext]_orderVars =>
          [\A o \in Orders :
              Live(o) /\ Live(o)' /\ order[o].owner = "user" =>
                  \/ order'[o].owner = "user" /\ order'[o].open = order[o].open
                  \/ order'[o].owner = "user" /\ SetOpen(o, order'[o].open)
                  \/ order'[o].owner = "ai" /\ \E w \in Workers : Attach(w, o)]_orderVars
    BY StepDecides DEF Decided
<1> QED BY <1>1, OrderInvariant, PTL DEF OrderSpec, PersonDecides
==============================================================================
