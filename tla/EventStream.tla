----------------------------- MODULE EventStream -----------------------------
(***************************************************************************)
(* api/event_ring.py and api/events.py: the ring that keeps the last       *)
(* events of every account, and one client's Server-Sent Events stream.    *)
(* Streams share nothing but the ring, so one client is enough.            *)
(*                                                                         *)
(* The generator runs between two awaits without interruption: looking at  *)
(* the ring is one step, each frame it yields another.  Frames on the wire *)
(* die with the connection; the client reconnects with the last id it got. *)
(***************************************************************************)
EXTENDS Integers, Sequences

CONSTANTS
    Accounts,
    Filter,         \* the account_id the client asked for, or All
    All,
    RingSize,       \* events kept per account
    KeepsUp,        \* a connected client reads faster than the ring turns over
    MaxSeq,         \* bound: events one process emits
    MaxEpoch        \* bound: restarts

ASSUME StreamAssumption ==
    /\ All \notin Accounts
    /\ Filter \in Accounts \cup {All}
    /\ RingSize \in Nat \ {0}
    /\ KeepsUp \in BOOLEAN
    /\ {MaxSeq, MaxEpoch} \subseteq Nat

VARIABLES
    epoch,          \* EventRing.epoch: which process this is
    seq,            \* EventRing._seq
    rings,          \* rings[a]: ids of the events kept for a, the oldest first
    pc,             \* the generator: "off", "loop", "sending" or "waiting"
    lastSeen,       \* the generator's last_seen
    batch,          \* ids it has read from the ring and not yielded yet
    woken,          \* its waiter is set
    wire,           \* frames yielded that have not reached the client
    cookie,         \* the client's Last-Event-ID, or NoCookie
    due             \* history: events the client has yet to learn of

serverVars == <<epoch, seq, rings>>
generatorVars == <<pc, lastSeen, batch, woken>>
streamVars == <<serverVars, generatorVars, wire, cookie, due>>

Ids == 0..MaxSeq
Stamps == [epoch : 0..MaxEpoch, seq : Ids]
NoCookie == [epoch |-> -1, seq |-> 0]
\* FOREIGN_EVENT_ID, and what a client without an id presents.
Foreign == -1
Nothing == -2

\* A frame invalidates what the client knows, or tells it one event.
Frames == [stamp : Stamps, resets : BOOLEAN]

StreamTypeOK ==
    /\ epoch \in 0..MaxEpoch
    /\ seq \in Ids
    /\ rings \in [Accounts -> Seq(Ids)]
    /\ \A a \in Accounts : Len(rings[a]) <= RingSize
    /\ pc \in {"off", "loop", "sending", "waiting"}
    /\ lastSeen \in Ids
    /\ batch \subseteq Ids
    /\ woken \in BOOLEAN
    /\ wire \in Seq(Frames)
    /\ cookie \in Stamps \cup {NoCookie}
    /\ due \subseteq Stamps

StreamInit ==
    /\ epoch = 0
    /\ seq = 0
    /\ rings = [a \in Accounts |-> <<>>]
    /\ pc = "off"
    /\ lastSeen = 0
    /\ batch = {}
    /\ woken = FALSE
    /\ wire = <<>>
    /\ cookie = NoCookie
    /\ due = {}

Watched == IF Filter = All THEN Accounts ELSE {Filter}
Stamp(n) == [epoch |-> epoch, seq |-> n]

------------------------------------------------------------------------------
\* deque(maxlen): the oldest event makes room.
Pushed(a) ==
    LET ring == Append(rings[a], seq + 1)
    IN IF Len(ring) > RingSize THEN Tail(ring) ELSE ring

\* The event that adding to a's ring pushes out was read by the generator.
NothingUnreadEvicted(a) ==
    (pc # "off" /\ a \in Watched /\ Len(rings[a]) = RingSize)
        => \E n \in batch \cup {lastSeen} : Head(rings[a]) <= n

\* EventRing.add, for an account the stream carries or another one.
Add(a) ==
    /\ seq < MaxSeq
    /\ KeepsUp => NothingUnreadEvicted(a)
    /\ seq' = seq + 1
    /\ rings' = [rings EXCEPT ![a] = Pushed(a)]
    /\ woken' = (woken \/ (pc # "off" /\ a \in Watched))
    /\ due' = IF a \in Watched /\ (pc # "off" \/ cookie # NoCookie)
              THEN due \cup {Stamp(seq + 1)}
              ELSE due
    /\ UNCHANGED <<epoch, pc, lastSeen, batch, wire, cookie>>

Kept(a) == {rings[a][i] : i \in DOMAIN rings[a]}

\* replay_from: for one account, nothing if its ring starts after last.
Replay(last) ==
    IF Filter # All /\ (rings[Filter] = <<>> \/ last < Head(rings[Filter]))
    THEN {}
    ELSE {n \in 1..seq : n > last /\ \E a \in Watched : n \in Kept(a)}

\* Mutant: the accounts' rings are read one after the other.
AnyOf(ids) == ids

\* The events of several rings are merged in the order of their ids.
Earliest(ids) == {n \in ids : \A m \in ids : n <= m}

\* Mutant: one ring that reaches back far enough is enough.
HasEventsAfterSomewhere(last) ==
    \E a \in Watched : rings[a] # <<>> /\ Head(rings[a]) <= last

HasEventsAfter(last) ==
    /\ Filter # All => rings[Filter] # <<>>
    /\ \A a \in Watched : rings[a] # <<>> => Head(rings[a]) <= last

\* Mutant: ids carry no epoch.
ParseAnyEpoch == IF cookie = NoCookie THEN Nothing ELSE cookie.seq

\* parse_event_id, as sse_endpoint calls it.
Parse ==
    IF cookie = NoCookie THEN Nothing
    ELSE IF cookie.epoch = epoch THEN cookie.seq ELSE Foreign

\* The generator up to its loop.  A fresh client gets a connected frame, one
\* whose gap is not in the ring a resync; both carry the newest id and make
\* the client read everything anew.
Connect ==
    /\ pc = "off"
    /\ woken' = FALSE
    /\ IF 0 <= Parse /\ Parse <= seq /\ HasEventsAfter(Parse)
       THEN /\ batch' = Replay(Parse)
            /\ lastSeen' = Parse
            /\ wire' = <<>>
       ELSE /\ batch' = {}
            /\ lastSeen' = seq
            /\ wire' = <<[stamp |-> Stamp(seq), resets |-> TRUE]>>
    /\ pc' = "sending"
    /\ UNCHANGED <<serverVars, cookie, due>>

\* One frame is yielded, the events in the order of their ids; after the
\* last one the loop goes on.
Send ==
    /\ pc = "sending"
    /\ IF batch = {}
       THEN pc' = "loop" /\ UNCHANGED <<lastSeen, batch, wire>>
       ELSE \E n \in Earliest(batch) :
            /\ wire' = Append(wire, [stamp |-> Stamp(n), resets |-> FALSE])
            /\ lastSeen' = n
            /\ batch' = batch \ {n}
            /\ UNCHANGED pc
    /\ UNCHANGED <<serverVars, woken, cookie, due>>

\* waiter.clear(), then the ring, then the wait if there is nothing new.
Poll ==
    /\ pc = "loop"
    /\ woken' = FALSE
    /\ batch' = Replay(lastSeen)
    /\ pc' = IF batch' = {} THEN "waiting" ELSE "sending"
    /\ UNCHANGED <<serverVars, lastSeen, wire, cookie, due>>

Wake ==
    /\ pc = "waiting"
    /\ woken
    /\ batch' = Replay(lastSeen)
    /\ pc' = "sending"
    /\ UNCHANGED <<serverVars, lastSeen, woken, wire, cookie, due>>

\* KEEPALIVE_INTERVAL_S without a wake: a ping, which has no id.
Ping ==
    /\ pc = "waiting"
    /\ pc' = "loop"
    /\ UNCHANGED <<serverVars, lastSeen, batch, woken, wire, cookie, due>>

------------------------------------------------------------------------------
\* A frame reaches the client.  What a reset covers is everything up to the
\* id it carries.
Receive ==
    /\ wire # <<>>
    /\ LET f == Head(wire)
       IN /\ cookie' = f.stamp
          /\ due' = IF f.resets
                    THEN {d \in due : d.epoch = f.stamp.epoch /\ d.seq > f.stamp.seq}
                    ELSE due \ {f.stamp}
    /\ wire' = Tail(wire)
    /\ UNCHANGED <<serverVars, generatorVars>>

Closed == pc' = "off" /\ batch' = {} /\ woken' = FALSE /\ wire' = <<>> /\ lastSeen' = 0

Disconnect ==
    /\ pc # "off"
    /\ Closed
    /\ UNCHANGED <<serverVars, cookie, due>>

\* A new process: a new epoch, ids from 1 again, empty rings.
Restart ==
    /\ epoch < MaxEpoch
    /\ epoch' = epoch + 1
    /\ seq' = 0
    /\ rings' = [a \in Accounts |-> <<>>]
    /\ Closed
    /\ UNCHANGED <<cookie, due>>

GeneratorStep == Send \/ Poll \/ Wake \/ Ping

StreamNext ==
    \/ \E a \in Accounts : Add(a)
    \/ Connect \/ GeneratorStep \/ Receive \/ Disconnect \/ Restart

StreamSpec == StreamInit /\ [][StreamNext]_streamVars

\* The client keeps reconnecting, the event loop runs the generator and
\* arms its timeout, the network delivers.
StreamFairness ==
    /\ WF_streamVars(Connect)
    /\ WF_streamVars(GeneratorStep)
    /\ WF_streamVars(Receive)

StreamFairSpec == StreamSpec /\ StreamFairness

------------------------------------------------------------------------------
\* The id a client would reconnect with never lies at or past an event it
\* was not told of: whatever was lost on the wire, evicted while it was away
\* or renumbered by a restart is replayed or answered with a resync.
NothingSkipped ==
    \A d \in due : \/ d.epoch > cookie.epoch
                   \/ d.epoch = cookie.epoch /\ d.seq > cookie.seq

\* A client's Last-Event-ID never goes back: of one process it gets no event
\* older than one it has, on this connection or a later one, and no frame of
\* an earlier process.
CookieAdvances ==
    [][\/ cookie'.epoch > cookie.epoch
       \/ cookie'.epoch = cookie.epoch /\ cookie'.seq >= cookie.seq]_streamVars

\* "The wait is only entered once the ring is confirmed to have nothing new",
\* and a wake is "never discarded outright".
WaitsOnlyWhenNothingNew ==
    (pc = "waiting" /\ ~woken) =>
        \A a \in Watched : \A i \in DOMAIN rings[a] : rings[a][i] <= lastSeen

\* A client that is not cut off for ever learns of everything that changed.
EventuallyCaughtUp ==
    (<>[][~(Disconnect \/ Restart)]_streamVars) => <>[](due = {})
==============================================================================
