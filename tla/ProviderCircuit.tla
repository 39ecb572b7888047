---------------------------- MODULE ProviderCircuit ---------------------------
(***************************************************************************)
(* One AI provider's breaker: queue/circuit.py, the callers that ask it    *)
(* and report to it (pipeline/context.py, embeddings/worker.py), and the   *)
(* pass that alerts about a lasting suspension (alerts/provider_health.py).*)
(*                                                                         *)
(* Each database call is a step, so an answer is reported to a breaker     *)
(* that may have moved on since the call was let through.  The time a row  *)
(* carries in `since` is the number of the outage it began.                *)
(***************************************************************************)
EXTENDS Integers, FiniteSets

CONSTANTS
    Callers,
    Backoff,        \* record_backoff's retry_after
    ProbeInterval,
    Threshold,      \* how long a suspension lasts before it is announced
    MaxOutages      \* bound: outages, and hence values of since

ASSUME CircuitAssumption ==
    /\ Backoff \in Nat /\ Threshold \in Nat /\ MaxOutages \in Nat
    /\ ProbeInterval \in Nat \ {0}

VARIABLES
    state,          \* circuit_breakers.state
    since,          \* .since, 0 for NULL
    retry,          \* ticks until .retry_after
    age,            \* ticks since .since, up to Threshold
    outages,        \* the newest value of since (bounded)
    caller,         \* caller[c]: what caller c is doing
    healthy,        \* the provider would answer
    announced,      \* announced[s]: the alert of the outage that began at s
    snap,           \* what the alert pass read: a set of at most one outage
    probed          \* history: a probe was let through in this interval

breaker == <<state, since, retry, age, outages>>
alerting == <<announced, snap>>
circuitVars == <<breaker, caller, healthy, alerting, probed>>

Outages == 1..MaxOutages
Timers == 0..(Backoff + ProbeInterval)

\* Types; and a breaker has a time it went out exactly while it is out, which
\* is what both reports and the alert pass tell outages apart by.
CircuitTypeOK ==
    /\ state \in {"closed", "open", "suspended"}
    /\ since \in Outages \cup {0}
    /\ retry \in Timers
    /\ age \in 0..Threshold
    /\ outages \in 0..MaxOutages
    /\ caller \in [Callers -> {"idle", "suspended", "probing", "calling"}]
    /\ healthy \in BOOLEAN
    /\ announced \in [Outages -> {"none", "open", "dismissed"}]
    /\ snap \in SUBSET [since : Outages, due : BOOLEAN]
    /\ probed \in BOOLEAN
    /\ (state = "closed") <=> (since = 0)

CircuitInit ==
    /\ state = "closed"
    /\ since = 0
    /\ retry = 0
    /\ age = 0
    /\ outages = 0
    /\ caller = [c \in Callers |-> "idle"]
    /\ healthy = TRUE
    /\ announced = [s \in Outages |-> "none"]
    /\ snap = {}
    /\ probed = FALSE

Become(c, pc) == caller' = [caller EXCEPT ![c] = pc]

------------------------------------------------------------------------------
\* Mutant: a suspended breaker is left for the operator to reset.
CheckWithoutProbe(c) ==
    /\ caller[c] = "idle"
    /\ state = "closed" \/ (state = "open" /\ retry = 0)
    /\ Become(c, "calling")
    /\ UNCHANGED <<breaker, healthy, alerting, probed>>

\* is_available.  A caller turned away by an open breaker comes back later.
Check(c) ==
    /\ caller[c] = "idle"
    /\ \/ state = "closed" /\ Become(c, "calling")
       \/ state = "open" /\ retry = 0 /\ Become(c, "calling")
       \/ state = "suspended" /\ Become(c, "suspended")
    /\ UNCHANGED <<breaker, healthy, alerting, probed>>

\* status(), read once more after is_available said no.
CheckAgain(c) ==
    /\ caller[c] = "suspended"
    /\ Become(c, IF state = "suspended" THEN "probing" ELSE "idle")
    /\ UNCHANGED <<breaker, healthy, alerting, probed>>

\* Mutant: the statement does not ask for retry_after.
ProbeAnyTime(c) ==
    /\ caller[c] = "probing"
    /\ IF state = "suspended"
       THEN retry' = ProbeInterval /\ probed' = TRUE /\ Become(c, "calling")
       ELSE Become(c, "idle") /\ UNCHANGED <<retry, probed>>
    /\ UNCHANGED <<state, since, age, outages, healthy, alerting>>

\* try_probe: one guarded UPDATE; whoever matches the row may call.
TryProbe(c) ==
    /\ caller[c] = "probing"
    /\ IF state = "suspended" /\ retry = 0
       THEN retry' = ProbeInterval /\ probed' = TRUE /\ Become(c, "calling")
       ELSE Become(c, "idle") /\ UNCHANGED <<retry, probed>>
    /\ UNCHANGED <<state, since, age, outages, healthy, alerting>>

\* record_success
Close ==
    /\ state' = "closed"
    /\ since' = 0
    /\ retry' = 0
    /\ age' = 0
    /\ probed' = FALSE
    /\ UNCHANGED <<outages, announced, snap>>

\* A new since, unless the row keeps the one it has.
GoOut(keeps) ==
    IF keeps
    THEN UNCHANGED <<since, age, outages>>
    ELSE /\ outages < MaxOutages
         /\ outages' = outages + 1
         /\ since' = outages + 1
         /\ age' = 0

Succeed(c) ==
    /\ caller[c] = "calling"
    /\ healthy
    /\ Close
    /\ Become(c, "idle")
    /\ UNCHANGED healthy

\* record_backoff: a rate limit, a 5xx, a timeout.
BackOff(c) ==
    /\ caller[c] = "calling"
    /\ ~healthy
    /\ state' = "open"
    /\ retry' = Backoff
    /\ GoOut(state # "closed")
    /\ probed' = FALSE
    /\ Become(c, "idle")
    /\ UNCHANGED <<healthy, alerting>>

\* record_unavailable: no key, a rejected key, no credit.
Suspend(c) ==
    /\ caller[c] = "calling"
    /\ ~healthy
    /\ state' = "suspended"
    /\ retry' = ProbeInterval
    /\ GoOut(state = "suspended")
    /\ probed' = FALSE
    /\ Become(c, "idle")
    /\ UNCHANGED <<healthy, alerting>>

\* No row to work on, a refusal, a crash: nothing is reported.
SayNothing(c) ==
    /\ caller[c] # "idle"
    /\ Become(c, "idle")
    /\ UNCHANGED <<breaker, healthy, alerting, probed>>

\* QueueManager.reset_circuit
Reset ==
    /\ state # "closed"
    /\ Close
    /\ UNCHANGED <<caller, healthy>>

Turn ==
    /\ healthy' = ~healthy
    /\ UNCHANGED <<breaker, caller, alerting, probed>>

Clock ==
    /\ retry' = IF retry > 0 THEN retry - 1 ELSE 0
    /\ age' = IF since # 0 /\ age < Threshold THEN age + 1 ELSE age
    /\ probed' = (probed /\ retry > 1)
    /\ UNCHANGED <<state, since, outages, caller, healthy, alerting>>

------------------------------------------------------------------------------
\* raise_provider_alerts_once, up to what it reads of the breakers.
ReadBreaker ==
    /\ snap' = IF state = "suspended" /\ since # 0
               THEN {[since |-> since, due |-> age >= Threshold]}
               ELSE {}
    /\ UNCHANGED <<breaker, caller, healthy, announced, probed>>

\* Mutant: an alert is open as long as its breaker is suspended again.
ResolvedByName == [s \in Outages |->
    IF announced[s] = "open" /\ snap = {} THEN "dismissed" ELSE announced[s]]

\* _resolve_recovered
Resolved == [s \in Outages |->
    IF announced[s] = "open" /\ s \notin {x.since : x \in snap} THEN "dismissed" ELSE announced[s]]

\* The alerts it resolves and raises; the dedupe_key holds one per outage.
AlertPass ==
    LET due == {s \in Outages : announced[s] = "none" /\ [since |-> s, due |-> TRUE] \in snap}
    IN /\ announced' = [s \in Outages |-> IF s \in due THEN "open" ELSE Resolved[s]]
       /\ UNCHANGED <<breaker, caller, healthy, snap, probed>>

------------------------------------------------------------------------------
ReporterStep(c) ==
    \/ Check(c) \/ CheckAgain(c) \/ TryProbe(c)
    \/ Succeed(c) \/ BackOff(c) \/ Suspend(c) \/ SayNothing(c)

CircuitNext ==
    \/ \E c \in Callers : ReporterStep(c)
    \/ Reset \/ Turn \/ Clock
    \/ ReadBreaker \/ AlertPass

CircuitSpec == CircuitInit /\ [][CircuitNext]_circuitVars

\* Time passes and the alert timer ticks; there is work, so callers keep
\* asking, keep probing, and a provider that is well answers some of them.
CircuitFairness ==
    /\ WF_circuitVars(Clock)
    /\ SF_circuitVars(ReadBreaker)
    /\ SF_circuitVars(AlertPass)
    /\ \A c \in Callers :
          /\ WF_circuitVars(Check(c))
          /\ SF_circuitVars(CheckAgain(c))
          /\ SF_circuitVars(caller[c] = "probing" /\ retry = 0 /\ TryProbe(c))
          /\ SF_circuitVars(Succeed(c))

CircuitFairSpec == CircuitSpec /\ CircuitFairness

------------------------------------------------------------------------------
\* "At most one of them fires a probe per interval rather than every worker
\* hammering the still-revoked credential at once."
OneProbePerInterval ==
    [][\A c \in Callers :
          (caller[c] = "probing" /\ caller'[c] = "calling") => ~probed]_circuitVars

\* A provider that is well again is used again, with no one to reset it: no
\* caller's race leaves the breaker suspended with nobody probing.
BreakerRecovers == <>[]healthy => <>[](state = "closed")

\* An alert "resolves itself once that breaker is no longer suspended" --
\* also when the breaker has been suspended anew meanwhile.
AlertsResolve ==
    \A s \in Outages :
        (announced[s] = "open" /\ (state # "suspended" \/ since # s)) ~>
            (announced[s] = "dismissed" \/ (state = "suspended" /\ since = s))
==============================================================================
