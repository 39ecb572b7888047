---------------------------- MODULE SendLifecycle ----------------------------
(***************************************************************************)
(* A composed message on its way out: POST /outbox and the MCP send tools  *)
(* (api/outbox.py, api/mcp_tools.py, outbox/submissions.py), the undo      *)
(* window (outbox/pending.py) and the alert for a message that waits too   *)
(* long (outbox/stalled.py).  PostIMAP, which empties the outbox table, is *)
(* another program.                                                        *)
(*                                                                         *)
(* A request is one transaction of several statements; each statement sees *)
(* what was committed before it (READ COMMITTED), so each read is a step,  *)
(* and the two advisory locks are held from the step that takes them to    *)
(* the end of the transaction.  A message keeps its id from pending_sends  *)
(* to outbox.  Its text and its attachments are left out.                  *)
(***************************************************************************)
EXTENDS Integers, FiniteSets

CONSTANTS
    Ids,            \* ids of pending_sends and outbox rows
    Drafts,         \* messages.id of drafts
    Handlers,       \* requests that may be in progress at once
    Requests,       \* what clients ask for: [key, kind, draft]
    None,           \* no key, no draft
    MaxCrashes      \* bound: process deaths in the middle of a pass

ASSUME SendAssumption ==
    /\ None \notin Ids /\ None \notin Drafts
    /\ \A r \in Requests : r.kind \in {"send", "draft"} /\ r.draft \in Drafts \cup {None}
    /\ MaxCrashes \in Nat

Keys == {r.key : r \in Requests} \ {None}
NoRequest == [key |-> None, kind |-> "draft", draft |-> None]

VARIABLES
    pc,             \* pc[h]: the next statement of handler h
    req,            \* req[h]: the request it serves
    staged,         \* staged[i]: "none", "waiting", "cancelled" (pending_sends)
    outbox,         \* outbox[i]: "none" or the row's status
    message,        \* message[i]: kind and replaces_message_id of row i
    age,            \* age[i]: "young", "due" (past send_after), "old" (past the alert threshold)
    target,         \* target[k]: outbox_submissions.target_id
    draftAt,        \* draftAt[d]: "live", "expunged", or "purged" from messages
    moving,         \* rows the due-send tick holds locked
    alert,          \* alert[i]: the outbox_stalled alert of row i
    pass,           \* where the stalled pass is, and the rows it found
    undone,         \* history: sends whose cancel was acknowledged
    crashes         \* deaths so far (bounded)

handlerVars == <<pc, req>>
rowVars == <<staged, outbox, message, age, target>>
tickVars == <<moving, alert, pass, undone, crashes>>
sendVars == <<handlerVars, rowVars, draftAt, tickVars>>

Statuses == {"pending", "processing", "failed", "sent", "dead"}
Steps == {"idle", "replay1", "replay2", "lost", "draft", "flight1", "flight2", "insert"}

SendTypeOK ==
    /\ pc \in [Handlers -> Steps]
    /\ req \in [Handlers -> Requests \cup {NoRequest}]
    /\ staged \in [Ids -> {"none", "waiting", "cancelled"}]
    /\ outbox \in [Ids -> {"none"} \cup Statuses]
    /\ message \in [Ids -> [kind : {"send", "draft"}, draft : Drafts \cup {None}]]
    /\ age \in [Ids -> {"young", "due", "old"}]
    /\ target \in [Keys -> Ids \cup {None}]
    /\ draftAt \in [Drafts -> {"live", "expunged", "purged"}]
    /\ moving \subseteq Ids
    /\ alert \in [Ids -> {"none", "open", "dismissed"}]
    /\ pass \in [at : {"idle", "find", "raise"}, found : SUBSET Ids]
    /\ undone \subseteq Ids
    /\ crashes \in 0..MaxCrashes

SendInit ==
    /\ pc = [h \in Handlers |-> "idle"]
    /\ req = [h \in Handlers |-> NoRequest]
    /\ staged = [i \in Ids |-> "none"]
    /\ outbox = [i \in Ids |-> "none"]
    /\ message = [i \in Ids |-> [kind |-> "send", draft |-> None]]
    /\ age = [i \in Ids |-> "young"]
    /\ target = [k \in Keys |-> None]
    /\ draftAt = [d \in Drafts |-> "live"]
    /\ moving = {}
    /\ alert = [i \in Ids |-> "none"]
    /\ pass = [at |-> "idle", found |-> {}]
    /\ undone = {}
    /\ crashes = 0

------------------------------------------------------------------------------
\* The request transaction.
Goto(h, s) ==
    /\ pc' = [pc EXCEPT ![h] = s]
    /\ req' = [req EXCEPT ![h] = IF s = "idle" THEN NoRequest ELSE @]

\* pg_advisory_xact_lock: held until the transaction ends.
KeyLockFree(h, k) == \A g \in Handlers \ {h} : req[g].key # k

DraftLockFree(h) ==
    \A g \in Handlers \ {h} :
        (req[g].draft = req[h].draft /\ req[g].kind = "send") => pc[g] \notin {"flight2", "insert"}

\* The request begins: find_submission takes the lock of its key and looks
\* the key up; 409 if it was used for the other kind.  Waiting for the lock
\* is not having begun.
Begin(h, r) ==
    LET i == IF r.key = None THEN None ELSE target[r.key]
    IN /\ pc[h] = "idle"
       /\ r.key # None => KeyLockFree(h, r.key)
       /\ i # None => message[i].kind = r.kind
       /\ pc' = [pc EXCEPT ![h] = IF i = None THEN "draft" ELSE "replay1"]
       /\ req' = [req EXCEPT ![h] = r]
       /\ UNCHANGED <<rowVars, draftAt, tickVars>>

\* replay_submission answers with the row wherever it is now: rows move from
\* pending_sends to outbox, and the tables are read in that order.
ReadTable(h, table, here, otherwise) ==
    /\ pc[h] = here
    /\ Goto(h, IF table[target[req[h].key]] # "none" THEN "idle" ELSE otherwise)
    /\ UNCHANGED <<rowVars, draftAt, tickVars>>

\* Mutant: outbox is read first.
ReplaySwapped(h) ==
    ReadTable(h, outbox, "replay1", "replay2") \/ ReadTable(h, staged, "replay2", "lost")

Replay(h) ==
    ReadTable(h, staged, "replay1", "replay2") \/ ReadTable(h, outbox, "replay2", "lost")

\* 409: "already accepted as ..., which no longer exists".
AnswerLost(h) ==
    /\ pc[h] = "lost"
    /\ Goto(h, "idle")
    /\ UNCHANGED <<rowVars, draftAt, tickVars>>

\* The named draft must be a live message: 404 otherwise.  Only a send asks
\* whether the draft is already being sent.
CheckDraft(h) ==
    LET r == req[h]
    IN /\ pc[h] = "draft"
       /\ Goto(h, IF r.draft = None THEN "insert"
                  ELSE IF draftAt[r.draft] # "live" THEN "idle"
                  ELSE IF r.kind = "send" THEN "flight1" ELSE "insert")
       /\ UNCHANGED <<rowVars, draftAt, tickVars>>

StagedFor(d) == \E i \in Ids : staged[i] = "waiting" /\ message[i].draft = d
QueuedFor(d) ==
    \E i \in Ids :
        /\ outbox[i] \in Statuses \ {"dead"}
        /\ message[i] = [kind |-> "send", draft |-> d]

\* draft_send_in_flight: the lock, then one table, then the other; 409 when
\* a send of the draft is found.
AskTable(h, found, here, otherwise) ==
    /\ pc[h] = here
    /\ here = "flight1" => DraftLockFree(h)
    /\ Goto(h, IF found THEN "idle" ELSE otherwise)
    /\ UNCHANGED <<rowVars, draftAt, tickVars>>

\* Mutant: outbox is read first.
InFlightSwapped(h) ==
    \/ AskTable(h, QueuedFor(req[h].draft), "flight1", "flight2")
    \/ AskTable(h, StagedFor(req[h].draft), "flight2", "insert")

InFlight(h) ==
    \/ AskTable(h, StagedFor(req[h].draft), "flight1", "flight2")
    \/ AskTable(h, QueuedFor(req[h].draft), "flight2", "insert")

\* outbox.replaces_message_id is a foreign key of PostIMAP's; pending_sends
\* has none.  An account deleted meanwhile has the same effect.
Insertable(d) == d # None => draftAt[d] # "purged"

\* stage_send or insert_outbox, record_submission, commit.
CommitRequest(h) ==
    LET r == req[h]
    IN /\ pc[h] = "insert"
       /\ r.key # None => target[r.key] = None
       /\ \E i \in Ids, undo \in BOOLEAN :
             /\ staged[i] = "none" /\ outbox[i] = "none"
             /\ undo => r.kind = "send"
             /\ ~undo => Insertable(r.draft)
             /\ staged' = IF undo THEN [staged EXCEPT ![i] = "waiting"] ELSE staged
             /\ outbox' = IF undo THEN outbox ELSE [outbox EXCEPT ![i] = "pending"]
             /\ message' = [message EXCEPT ![i] = [kind |-> r.kind, draft |-> r.draft]]
             /\ target' = IF r.key = None THEN target ELSE [target EXCEPT ![r.key] = i]
       /\ Goto(h, "idle")
       /\ UNCHANGED <<age, draftAt, tickVars>>

\* A failed insert, a client that went away, a death: the transaction is
\* rolled back and nothing of it remains.
RollBack(h) ==
    /\ pc[h] # "idle"
    /\ Goto(h, "idle")
    /\ UNCHANGED <<rowVars, draftAt, tickVars>>

Handle(h) ==
    \/ (\E r \in Requests : Begin(h, r)) \/ Replay(h) \/ AnswerLost(h) \/ CheckDraft(h)
    \/ InFlight(h) \/ CommitRequest(h) \/ RollBack(h)

------------------------------------------------------------------------------
\* The message went out, or was undone.
\* Mutant: only a sent message settles its alert.
SettledWhenSent(i) == outbox[i] = "sent"

Settled(i) == outbox[i] = "sent" \/ staged[i] = "cancelled"

\* resolve_settled_stalled_alerts over the rows in S.
Resolved(S, settled) ==
    [i \in Ids |-> IF i \in S /\ i \in settled /\ alert[i] = "open" THEN "dismissed" ELSE alert[i]]

\* Mutant: the tick does not lock the rows it is about to move.
CancelUnlocked(i) ==
    /\ staged[i] = "waiting"
    /\ staged' = [staged EXCEPT ![i] = "cancelled"]
    /\ undone' = undone \cup {i}
    /\ alert' = [alert EXCEPT ![i] = IF @ = "open" THEN "dismissed" ELSE @]
    /\ UNCHANGED <<handlerVars, outbox, message, age, target, draftAt, moving, pass, crashes>>

\* POST /outbox/pending/{id}/cancel.  One UPDATE, which waits for a row the
\* tick holds and then finds it gone.
Cancel(i) ==
    /\ staged[i] = "waiting"
    /\ i \notin moving
    /\ staged' = [staged EXCEPT ![i] = "cancelled"]
    /\ undone' = undone \cup {i}
    /\ alert' = [alert EXCEPT ![i] = IF @ = "open" THEN "dismissed" ELSE @]
    /\ UNCHANGED <<handlerVars, outbox, message, age, target, draftAt, moving, pass, crashes>>

\* Mutant: only a row that has just come due is taken.
DueJustNow(i) == staged[i] = "waiting" /\ age[i] = "due"

Due(i) == staged[i] = "waiting" /\ age[i] # "young"

\* _process_due_sends, SELECT ... FOR UPDATE SKIP LOCKED.  (Fewer rows are
\* staged here than one batch takes.)
ClaimDue ==
    /\ moving = {}
    /\ \E i \in Ids : Due(i)
    /\ moving' = {i \in Ids : Due(i)}
    /\ UNCHANGED <<handlerVars, rowVars, draftAt, alert, pass, undone, crashes>>

\* Each row is inserted into outbox and deleted here, and the tick commits.
\* An insert that raises is logged and passed over, but it leaves the session
\* unusable: the next statement or the commit raises, and all is rolled back.
MoveDue ==
    /\ moving # {}
    /\ moving' = {}
    /\ IF \A i \in moving : Insertable(message[i].draft)
       THEN /\ outbox' = [i \in Ids |-> IF i \in moving THEN "pending" ELSE outbox[i]]
            /\ staged' = [i \in Ids |-> IF i \in moving THEN "none" ELSE staged[i]]
            /\ age' = [i \in Ids |-> IF i \in moving THEN "young" ELSE age[i]]
       ELSE UNCHANGED <<outbox, staged, age>>
    /\ UNCHANGED <<handlerVars, message, target, draftAt, alert, pass, undone, crashes>>

------------------------------------------------------------------------------
\* The stalled pass: resolve, find, then one insert per row.
Waiting(i) == outbox[i] \in {"pending", "processing"} \/ Due(i)
Stalled == {i \in Ids : Waiting(i) /\ age[i] = "old" /\ alert[i] = "none"}

SettledIds == {i \in Ids : Settled(i)}

\* A pass that would find nothing to do is left out.
PassResolve ==
    /\ pass.at = "idle"
    /\ Stalled # {} \/ \E i \in SettledIds : alert[i] = "open"
    /\ alert' = Resolved(Ids, SettledIds)
    /\ pass' = [at |-> "find", found |-> {}]
    /\ UNCHANGED <<handlerVars, rowVars, draftAt, moving, undone, crashes>>

PassFind ==
    /\ pass.at = "find"
    /\ pass' = [at |-> IF Stalled = {} THEN "idle" ELSE "raise", found |-> Stalled]
    /\ UNCHANGED <<handlerVars, rowVars, draftAt, moving, alert, undone, crashes>>

\* create_outbox_stalled_alert: ON CONFLICT DO NOTHING on the row's id.
PassRaise(i) ==
    /\ i \in pass.found
    /\ alert' = [alert EXCEPT ![i] = IF @ = "none" THEN "open" ELSE @]
    /\ pass' = [at |-> IF pass.found = {i} THEN "idle" ELSE "raise", found |-> pass.found \ {i}]
    /\ UNCHANGED <<handlerVars, rowVars, draftAt, moving, undone, crashes>>

PassStep == PassResolve \/ PassFind \/ \E i \in Ids : PassRaise(i)

\* resolve_stalled_for_outbox_event: a sent event, which may never come.
SentEvent(i) ==
    /\ outbox[i] = "sent"
    /\ alert[i] = "open"
    /\ alert' = Resolved({i}, SettledIds)
    /\ UNCHANGED <<handlerVars, rowVars, draftAt, moving, pass, undone, crashes>>

\* The process dies: the tick's transaction is rolled back, the pass ends.
CrashPasses ==
    /\ crashes < MaxCrashes
    /\ moving # {} \/ pass.at # "idle"
    /\ crashes' = crashes + 1
    /\ moving' = {}
    /\ pass' = [at |-> "idle", found |-> {}]
    /\ UNCHANGED <<handlerVars, rowVars, draftAt, alert, undone>>

------------------------------------------------------------------------------
\* Time: the undo window, then the alert threshold.
Grow(i) ==
    /\ \/ staged[i] = "waiting" /\ age' = [age EXCEPT ![i] = IF @ = "young" THEN "due" ELSE "old"]
       \/ outbox[i] \in {"pending", "processing"} /\ age' = [age EXCEPT ![i] = "old"]
    /\ age' # age
    /\ UNCHANGED <<handlerVars, staged, outbox, message, target, draftAt, tickVars>>

\* PostIMAP works on the outbox: a send that succeeds removes its draft.
Deliver(i, s) ==
    /\ \/ outbox[i] \in {"pending", "failed"} /\ s = "processing"
       \/ outbox[i] = "processing" /\ s \in {"sent", "failed", "dead"}
    /\ outbox' = [outbox EXCEPT ![i] = s]
    /\ draftAt' = [d \in Drafts |->
                      IF s = "sent" /\ message[i].draft = d /\ draftAt[d] = "live"
                      THEN "expunged" ELSE draftAt[d]]
    /\ UNCHANGED <<handlerVars, staged, message, age, target, tickVars>>

\* The draft is deleted in another client, or its row goes with a resync.
DropDraft(d) ==
    /\ draftAt[d] # "purged"
    /\ \E s \in {"expunged", "purged"} \ {draftAt[d]} : draftAt' = [draftAt EXCEPT ![d] = s]
    /\ UNCHANGED <<handlerVars, rowVars, tickVars>>

SendNext ==
    \/ \E h \in Handlers : Handle(h)
    \/ \E i \in Ids : Cancel(i) \/ SentEvent(i) \/ Grow(i) \/ \E s \in Statuses : Deliver(i, s)
    \/ ClaimDue \/ MoveDue \/ PassStep \/ CrashPasses
    \/ \E d \in Drafts : DropDraft(d)

SendSpec == SendInit /\ [][SendNext]_sendVars

\* The two timers tick.
SendFairness ==
    /\ WF_sendVars(ClaimDue)
    /\ WF_sendVars(MoveDue)
    /\ WF_sendVars(PassStep)

SendFairSpec == SendSpec /\ SendFairness

------------------------------------------------------------------------------
\* "One message is sent once, whatever the client does": of the sends that
\* name one draft, at most one can still reach anyone -- whatever keys the
\* requests carry, and while the tick moves rows between the two tables
\* draft_send_in_flight looks into.
LiveSend(i) ==
    \/ staged[i] = "waiting"
    \/ message[i].kind = "send" /\ outbox[i] \in Statuses \ {"dead"}

OneLiveSendPerDraft ==
    \A i, j \in Ids :
        (i # j /\ LiveSend(i) /\ LiveSend(j) /\ message[i].draft # None)
            => message[i].draft # message[j].draft

\* A repeated request is answered with the row the first one created: a
\* message on its way from one table to the other is never missed in both.
RepeatFindsItsRow == \A h \in Handlers : pc[h] # "lost"

\* "The two can never both believe they won": a send whose undo was
\* acknowledged is never handed to PostIMAP.
UndoIsKept == \A i \in undone : outbox[i] = "none"

\* stalled.py: "the alert resolves itself once the message stops waiting on
\* the user", although the pass raises alerts for rows it read earlier.
StalledAlertsClear ==
    \A i \in Ids :
        (alert[i] = "open" /\ (outbox[i] = "sent" \/ staged[i] = "cancelled"))
            ~> (alert[i] = "dismissed")

\* A due send that was not undone reaches the outbox, as long as no send of
\* its batch has lost its draft for good.
Overdue(i) == staged[i] = "waiting" /\ age[i] # "young"
Poisoned(i) == Overdue(i) /\ ~Insertable(message[i].draft)

DueSendsLeave ==
    \A i \in Ids : Overdue(i) ~> (staged[i] # "waiting" \/ \E j \in Ids : Poisoned(j))

\* The comment in _process_due_sends says of the poisoned row that it "sits
\* here for manual inspection": the sends beside it would still leave.
PoisonStaysAlone ==
    \A i \in Ids : Overdue(i) ~> (staged[i] # "waiting" \/ Poisoned(i))
==============================================================================
