----------------------------- MODULE QueueManager -----------------------------
(***************************************************************************)
(* queue/manager.py and queue/supervisor.py: an operator sets a queue's    *)
(* state and concurrency, the row is persisted, and a supervisor brings    *)
(* the number of running worker tasks to the target.  All queues share     *)
(* one database pool, of which Budget connections are theirs.              *)
(*                                                                         *)
(* A set_state call is three steps: the transaction under the advisory     *)
(* lock, the read of the row afterwards, and set_target.  A supervisor     *)
(* retires its oldest tasks first, so the tasks told to stop are always    *)
(* the oldest and numbers are enough.                                      *)
(***************************************************************************)
EXTENDS Integers, Sequences, FiniteSets, Functions

CONSTANTS
    Order,          \* the queues, in the order they were registered
    Budget,         \* pool_capacity - reserved_for_requests
    Sizes,          \* bound: the concurrencies anyone asks for
    Calls           \* bound: set_state calls in flight

Queues == {Order[i] : i \in DOMAIN Order}

ASSUME ManagerAssumption ==
    /\ Order \in Seq(Queues)
    /\ \A i, j \in DOMAIN Order : Order[i] = Order[j] => i = j
    /\ Budget \in Nat
    /\ Sizes \subseteq Nat

VARIABLES
    app,            \* "down", "up" or "draining"
    row,            \* row[q]: q's queue_state row
    target,         \* target[q]: supervisor._target
    active,         \* active[q]: running tasks nobody told to stop
    leaving,        \* leaving[q]: tasks whose stop_event is set
    call,           \* call[c]: a set_state call
    excused         \* history: queues whose start was clamped, or whose last
                    \* requests overlapped

managerVars == <<app, row, target, active, leaving, call, excused>>

Rows == [state : {"running", "paused"}, concurrency : Sizes]
NoCall == [pc |-> "none"]

ManagerTypeOK ==
    /\ app \in {"down", "up", "draining"}
    /\ row \in [Queues -> Rows]
    /\ target \in [Queues -> 0..Budget]
    /\ active \in [Queues -> 0..Budget]
    /\ leaving \in [Queues -> 0..Budget]
    /\ call \in [Calls -> {NoCall} \cup [pc : {"read"}, queue : Queues]
                                   \cup [pc : {"apply"}, queue : Queues, to : 0..Budget]]
    /\ excused \subseteq Queues

\* The concurrency a row asks the supervisor for.
Effective(r) == IF r.state = "running" THEN r.concurrency ELSE 0

\* The connections that the rows of the running queues among Q commit to.
Committed(Q) == SumFunctionOnSet([q \in Queues |-> Effective(row[q])], Q)

\* The rows are new, or were persisted by an earlier deployment, perhaps
\* under a larger pool.
ManagerInit ==
    /\ app = "down"
    /\ row \in [Queues -> Rows]
    /\ target = [q \in Queues |-> 0]
    /\ active = [q \in Queues |-> 0]
    /\ leaving = [q \in Queues |-> 0]
    /\ call = [c \in Calls |-> NoCall]
    /\ excused = {}

------------------------------------------------------------------------------
\* Mutant: every queue is clamped to the whole budget.
ClampedAlone(q) == IF Effective(row[q]) > Budget THEN Budget ELSE Effective(row[q])

\* start: each queue gets its row's concurrency, clamped to what the queues
\* before it left of the budget.
Clamped(q) ==
    LET given[i \in 0..Len(Order)] ==
            IF i = 0 THEN 0
            ELSE LET left == Budget - given[i - 1]
                     asked == Effective(row[Order[i]])
                 IN given[i - 1] + (IF asked > left THEN left ELSE asked)
        at == CHOOSE i \in DOMAIN Order : Order[i] = q
    IN given[at] - given[at - 1]

\* QueueManager.start: set_target, then supervisor.start, which reconciles.
Start ==
    /\ app = "down"
    /\ app' = "up"
    /\ target' = [q \in Queues |-> Clamped(q)]
    /\ active' = target'
    /\ leaving' = [q \in Queues |-> 0]
    /\ excused' = {q \in Queues : Clamped(q) # Effective(row[q])}
    /\ UNCHANGED <<row, call>>

\* QueueManager.stop: every task is told to stop; nothing reconciles any more.
Stop ==
    /\ app = "up"
    /\ app' = "draining"
    /\ leaving' = [q \in Queues |-> active[q] + leaving[q]]
    /\ active' = [q \in Queues |-> 0]
    /\ UNCHANGED <<row, target, call, excused>>

\* The process ends: drained, timed out or killed.
Down ==
    /\ app # "down"
    /\ app' = "down"
    /\ target' = [q \in Queues |-> 0]
    /\ active' = [q \in Queues |-> 0]
    /\ leaving' = [q \in Queues |-> 0]
    /\ call' = [c \in Calls |-> NoCall]
    /\ excused' = {}
    /\ UNCHANGED row

\* Mutant: only a request that names a concurrency is checked.
FitsNamed(q, state, concurrency) ==
    \A n \in concurrency :
        Committed(Queues \ {q}) + n <= Budget

\* The row q has after a request; {} leaves a column as it is.
Requested(q, state, concurrency) ==
    [state |-> IF state = {} THEN row[q].state ELSE CHOOSE s \in state : TRUE,
     concurrency |-> IF concurrency = {} THEN row[q].concurrency
                     ELSE CHOOSE n \in concurrency : TRUE]

\* The check of set_state: what q would run, beside what every other
\* running queue's row commits to.
Fits(q, state, concurrency) ==
    LET asked == Effective(Requested(q, state, concurrency))
    IN asked > 0 => Committed(Queues \ {q}) + asked <= Budget

\* The transaction: check and write behind pg_advisory_xact_lock.  A request
\* that does not fit raises ValueError and leaves everything as it is.
CommitState(c, q, state, concurrency) ==
    /\ app # "down"
    /\ call[c] = NoCall
    /\ Fits(q, state, concurrency)
    /\ row' = [row EXCEPT ![q] = Requested(q, state, concurrency)]
    /\ call' = [call EXCEPT ![c] = [pc |-> "read", queue |-> q]]
    /\ excused' = IF \E d \in Calls \ {c} : call[d] # NoCall /\ call[d].queue = q
                  THEN excused \cup {q}
                  ELSE excused \ {q}
    /\ UNCHANGED <<app, target, active, leaving>>

\* Mutant: set_target gets the concurrency of a paused queue.
ReadBackPaused(c) ==
    /\ call[c].pc = "read"
    /\ call' = [call EXCEPT ![c] = [pc |-> "apply", queue |-> call[c].queue,
                                    to |-> row[call[c].queue].concurrency]]
    /\ UNCHANGED <<app, row, target, active, leaving, excused>>

\* _get_or_create_state, in a session of its own.
ReadBack(c) ==
    /\ call[c].pc = "read"
    /\ call' = [call EXCEPT ![c] = [pc |-> "apply", queue |-> call[c].queue,
                                    to |-> Effective(row[call[c].queue])]]
    /\ UNCHANGED <<app, row, target, active, leaving, excused>>

Apply(c) ==
    /\ call[c].pc = "apply"
    /\ target' = [target EXCEPT ![call[c].queue] = call[c].to]
    /\ call' = [call EXCEPT ![c] = NoCall]
    /\ UNCHANGED <<app, row, active, leaving, excused>>

------------------------------------------------------------------------------
Tasks(q) == active[q] + leaving[q]

\* Mutant: a deficit of one is overlooked.
SpawnOffByOne(q) ==
    IF target[q] > Tasks(q) + 1
    THEN <<target[q] - leaving[q], leaving[q]>>
    ELSE LET surplus == Tasks(q) - target[q]
             gone == IF surplus > leaving[q] THEN surplus ELSE leaving[q]
         IN <<Tasks(q) - gone, gone>>

\* What _reconcile_once leaves: new tasks for a deficit, or the oldest
\* surplus tasks told to stop -- some of which may have been told before.
Reconciled(q) ==
    IF target[q] > Tasks(q)
    THEN <<target[q] - leaving[q], leaving[q]>>
    ELSE LET surplus == Tasks(q) - target[q]
             gone == IF surplus > leaving[q] THEN surplus ELSE leaving[q]
         IN <<Tasks(q) - gone, gone>>

Reconcile(q) ==
    /\ app = "up"
    /\ Reconciled(q) # <<active[q], leaving[q]>>
    /\ active' = [active EXCEPT ![q] = Reconciled(q)[1]]
    /\ leaving' = [leaving EXCEPT ![q] = Reconciled(q)[2]]
    /\ UNCHANGED <<app, row, target, call, excused>>

\* A worker sees its stop_event and its body returns.
Leave(q) ==
    /\ leaving[q] > 0
    /\ leaving' = [leaving EXCEPT ![q] = @ - 1]
    /\ UNCHANGED <<app, row, target, active, call, excused>>

\* A worker body raises; _run_worker logs it and the task is over.
Crash(q) ==
    /\ active[q] > 0
    /\ active' = [active EXCEPT ![q] = @ - 1]
    /\ UNCHANGED <<app, row, target, leaving, call, excused>>

------------------------------------------------------------------------------
Optional(S) == {{}} \cup {{x} : x \in S}

Operator ==
    \E c \in Calls, q \in Queues, state \in Optional({"running", "paused"}),
       concurrency \in Optional(Sizes) :
       CommitState(c, q, state, concurrency)

CallStep(c) == ReadBack(c) \/ Apply(c)

ManagerNext ==
    \/ Start \/ Stop \/ Down
    \/ Operator
    \/ \E c \in Calls : CallStep(c)
    \/ \E q \in Queues : Reconcile(q) \/ Leave(q) \/ Crash(q)

ManagerSpec == ManagerInit /\ [][ManagerNext]_managerVars

\* Each supervisor reconciles every second, and a worker told to stop ends
\* its batch; coroutines of the event loop all get their turn.
ManagerFairness ==
    /\ \A q \in Queues : WF_managerVars(Reconcile(q)) /\ WF_managerVars(Leave(q))
    /\ \A c \in Calls : WF_managerVars(CallStep(c))

ManagerFairSpec == ManagerSpec /\ ManagerFairness

------------------------------------------------------------------------------
Commitment == Committed(Queues)
Quiet == app = "up" /\ \A c \in Calls : call[c] = NoCall

\* However many requests race, pause or resume, the rows of the running
\* queues never come to commit to more connections than the pool spares for
\* them: "two callers that both read before either writes" is what the lock
\* stops.  Rows that never fitted stay what they were.
RowsWithinBudget == [][Commitment <= Budget => (Commitment <= Budget)']_managerVars

\* Once no request is under way the supervisors aim for what the budget
\* holds, also after a start on rows that never fitted -- unless requests
\* for one queue overlapped.
TargetsWithinBudget ==
    (Quiet /\ \A q \in excused : target[q] <= Effective(row[q]))
        => SumFunction(target) <= Budget

\* set_state: the change is "applied to the live supervisor immediately and
\* persisted so it survives a restart" -- once no request is under way, row
\* and supervisor agree, unless requests for the queue overlapped.
AppliedIsPersisted == Quiet => \A q \in Queues \ excused : target[q] = Effective(row[q])

\* Left alone, the supervisors end with exactly their targets of running
\* tasks, whatever crashed or was told to stop and then wanted again.
SupervisorSettles ==
    (<>[](app = "up") /\ <>[][UNCHANGED target /\ \A q \in Queues : ~Crash(q)]_managerVars)
        => <>[](\A q \in Queues : active[q] = target[q] /\ leaving[q] = 0)
==============================================================================
