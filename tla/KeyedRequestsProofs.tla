-------------------------- MODULE KeyedRequestsProofs --------------------------
(***************************************************************************)
(* What the two protocols behind an idempotency key guarantee for any      *)
(* requests, rows, drafts and mails: of the sends of one draft one at most *)
(* is alive, a repeat finds its row, an undo is kept; and a keyed filing   *)
(* is applied once.                                                        *)
(***************************************************************************)
EXTENDS SendLifecycle, MailAction, TLAPS

------------------------------------------------------------------------------
\* A request that reads changes its own place and nothing else.
Reads(h) ==
    /\ \E s \in Steps : Goto(h, s)
    /\ UNCHANGED <<rowVars, draftAt, tickVars>>

\* Every statement of a request but its first and its last only reads
\* (replay_submission, draft_send_in_flight).
LEMMA MostlyReads ==
  ASSUME NEW h \in Handlers,
         Replay(h) \/ AnswerLost(h) \/ CheckDraft(h) \/ InFlight(h) \/ RollBack(h)
  PROVE  Reads(h)
<1> USE DEF Reads, Steps
<1>1. CASE Replay(h)
  BY <1>1 DEF Replay, ReadTable
<1>2. CASE AnswerLost(h) \/ RollBack(h)
  BY <1>2 DEF AnswerLost, RollBack
<1>3. CASE CheckDraft(h)
  BY <1>3 DEF CheckDraft
<1>4. CASE InFlight(h)
  BY <1>4 DEF InFlight, AskTable
<1> QED
  BY <1>1, <1>2, <1>3, <1>4

\* The columns of pending_sends, outbox and outbox_submissions, the handlers'
\* places and the passes stay in their domains (models.py PendingSend).
THEOREM SendTypeCorrect == SendSpec => []SendTypeOK
<1>1. SendInit => SendTypeOK
  BY SendAssumption DEF SendInit, SendTypeOK, Statuses, Steps, NoRequest
<1>2. SendTypeOK /\ [SendNext]_sendVars => SendTypeOK'
  <2> SUFFICES ASSUME SendTypeOK, [SendNext]_sendVars PROVE SendTypeOK'
    OBVIOUS
  <2> USE SendAssumption DEF SendTypeOK, Statuses, Steps
  <2>1. ASSUME NEW h \in Handlers, Handle(h) PROVE SendTypeOK'
    <3>1. ASSUME NEW r \in Requests, Begin(h, r) PROVE SendTypeOK'
      BY <3>1 DEF Begin, rowVars, tickVars
    <3>2. CASE Replay(h) \/ AnswerLost(h) \/ CheckDraft(h) \/ InFlight(h) \/ RollBack(h)
      <4>1. PICK s \in Steps : Goto(h, s)
        BY <3>2, MostlyReads DEF Reads
      <4>2. UNCHANGED <<rowVars, draftAt, tickVars>>
        BY <3>2, MostlyReads DEF Reads
      <4>3. req' \in [Handlers -> Requests \cup {NoRequest}]
        BY <4>1 DEF Goto
      <4>4. pc' \in [Handlers -> Steps]
        BY <4>1 DEF Goto
      <4> QED
        BY <4>2, <4>3, <4>4 DEF rowVars, tickVars
    <3>3. CASE CommitRequest(h)
      <4>1. req[h] \in Requests \cup {NoRequest}
        OBVIOUS
      <4>2. /\ req[h].kind \in {"send", "draft"} /\ req[h].draft \in Drafts \cup {None}
            /\ req[h].key # None => req[h].key \in Keys
        BY <4>1 DEF NoRequest, Keys
      <4>3. PICK i \in Ids, undo \in BOOLEAN :
               /\ staged' = IF undo THEN [staged EXCEPT ![i] = "waiting"] ELSE staged
               /\ outbox' = IF undo THEN outbox ELSE [outbox EXCEPT ![i] = "pending"]
               /\ message' = [message EXCEPT ![i] = [kind |-> req[h].kind, draft |-> req[h].draft]]
               /\ target' = IF req[h].key = None THEN target
                            ELSE [target EXCEPT ![req[h].key] = i]
        BY <3>3 DEF CommitRequest
      <4>4. req' \in [Handlers -> Requests \cup {NoRequest}]
        BY <3>3 DEF CommitRequest, Goto
      <4>5. pc' \in [Handlers -> Steps]
        BY <3>3 DEF CommitRequest, Goto
      <4>6. target' \in [Keys -> Ids \cup {None}]
        BY <4>2, <4>3
      <4>7. staged' \in [Ids -> {"none", "waiting", "cancelled"}] /\ outbox' \in [Ids -> {"none"} \cup Statuses]
        BY <4>3
      <4>8. message' \in [Ids -> [kind : {"send", "draft"}, draft : Drafts \cup {None}]]
        BY <4>2, <4>3
      <4> QED
        BY <3>3, <4>4, <4>5, <4>6, <4>7, <4>8 DEF CommitRequest, tickVars
    <3> QED
      BY <2>1, <3>1, <3>2, <3>3 DEF Handle
  <2>2. ASSUME NEW i \in Ids, Cancel(i) \/ SentEvent(i) \/ Grow(i) PROVE SendTypeOK'
    <3>1. CASE Cancel(i)
      BY <3>1 DEF Cancel, handlerVars
    <3>2. CASE SentEvent(i)
      BY <3>2 DEF SentEvent, Resolved, handlerVars, rowVars
    <3>3. CASE Grow(i)
      <4>1. age' \in [Ids -> {"young", "due", "old"}]
        BY <3>3 DEF Grow
      <4> QED
        BY <3>3, <4>1 DEF Grow, handlerVars, tickVars
    <3> QED
      BY <2>2, <3>1, <3>2, <3>3
  <2>3. ASSUME NEW i \in Ids, NEW s \in Statuses, Deliver(i, s) PROVE SendTypeOK'
    BY <2>3 DEF Deliver, handlerVars, tickVars
  <2>4. CASE ClaimDue \/ MoveDue
    BY <2>4 DEF ClaimDue, MoveDue, handlerVars, rowVars
  <2>5. CASE PassStep
    <3>1. CASE PassResolve
      BY <3>1 DEF PassResolve, Resolved, handlerVars, rowVars
    <3>2. CASE PassFind
      BY <3>2 DEF PassFind, Stalled, handlerVars, rowVars
    <3>3. ASSUME NEW i \in Ids, PassRaise(i) PROVE SendTypeOK'
      BY <3>3 DEF PassRaise, handlerVars, rowVars
    <3> QED
      BY <2>5, <3>1, <3>2, <3>3 DEF PassStep
  <2>6. CASE CrashPasses
    BY <2>6 DEF CrashPasses, handlerVars, rowVars
  <2>7. ASSUME NEW d \in Drafts, DropDraft(d) PROVE SendTypeOK'
    BY <2>7 DEF DropDraft, handlerVars, rowVars, tickVars
  <2>8. CASE UNCHANGED sendVars
    BY <2>8 DEF sendVars, handlerVars, rowVars, tickVars
  <2> QED
    BY <2>1, <2>2, <2>3, <2>4, <2>5, <2>6, <2>7, <2>8 DEF SendNext
<1> QED
  BY <1>1, <1>2, PTL DEF SendSpec

------------------------------------------------------------------------------
\* A request past the draft's lock.
Asking(h) ==
    /\ pc[h] \in {"flight2", "insert"}
    /\ req[h].kind = "send" /\ req[h].draft # None

\* The draft's lock keeps such requests apart.
LocksHold ==
    /\ \A h \in Handlers :
          /\ pc[h] = "idle" => req[h] = NoRequest
          /\ pc[h] \in {"flight1", "flight2"} => req[h].kind = "send" /\ req[h].draft # None
    /\ \A g, h \in Handlers :
          g # h /\ Asking(g) /\ Asking(h) => req[g].draft # req[h].draft

\* What a request found in the first table stays out of it until it ends,
\* so that what it did not find in the second is nowhere.
NoneInFlight ==
    \A h \in Handlers : Asking(h) =>
        \A i \in Ids :
            (IF pc[h] = "insert" THEN LiveSend(i) ELSE staged[i] = "waiting")
                => message[i].draft # req[h].draft

RowsAgree ==
    /\ \A i \in moving : staged[i] = "waiting"
    /\ \A i \in Ids : staged[i] = "waiting" => outbox[i] = "none" /\ message[i].kind = "send"
    /\ \A i \in undone : staged[i] = "cancelled" /\ outbox[i] = "none"

Stored(i) == staged[i] # "none" \/ outbox[i] # "none"

\* A key names a row that exists; a repeat that did not find it in the first
\* table finds it in the second.
KeysNameRows ==
    /\ \A k \in Keys : target[k] # None => Stored(target[k])
    /\ \A h \in Handlers :
          /\ pc[h] \in {"replay1", "replay2"} =>
                req[h].key \in Keys /\ target[req[h].key] # None
          /\ pc[h] = "replay2" => outbox[target[req[h].key]] # "none"
          /\ pc[h] # "lost"

SendInv == LocksHold /\ NoneInFlight /\ RowsAgree /\ KeysNameRows /\ OneLiveSendPerDraft

\* The ticks, the passes and the others: no send comes to life by them.
LEMMA NothingRevives ==
  ASSUME SendTypeOK, SendInv, RowsAgree',
         UNCHANGED <<handlerVars, message, target>>,
         \A i \in Ids :
            /\ LiveSend(i)' => LiveSend(i)
            /\ staged'[i] = "waiting" => staged[i] = "waiting"
            /\ outbox[i] # "none" => outbox'[i] # "none"
            /\ Stored(i) => Stored(i)'
  PROVE  SendInv'
<1> USE DEF SendInv, handlerVars
<1>1. LocksHold'
  BY DEF LocksHold, Asking
<1>2. NoneInFlight'
  BY DEF NoneInFlight, Asking
<1>3. KeysNameRows'
  BY SendAssumption DEF KeysNameRows, SendTypeOK
<1>4. OneLiveSendPerDraft'
  BY DEF OneLiveSendPerDraft
<1> QED
  BY <1>1, <1>2, <1>3, <1>4

\* A request that only reads: its locks and what it knows of the tables.
LEMMA ReadingKeeps ==
  ASSUME SendTypeOK, SendInv, NEW h \in Handlers,
         Replay(h) \/ AnswerLost(h) \/ CheckDraft(h) \/ InFlight(h) \/ RollBack(h)
  PROVE  SendInv'
<1> USE DEF SendInv
<1>1. UNCHANGED <<staged, outbox, message, target, moving, undone>>
  BY MostlyReads DEF Reads, rowVars, tickVars
<1>2. \A g \in Handlers \ {h} : pc'[g] = pc[g] /\ req'[g] = req[g]
  BY MostlyReads DEF Reads, Goto, SendTypeOK
<1>3. /\ pc'[h] = "idle" => req'[h] = NoRequest
      /\ pc'[h] # "idle" => req'[h] = req[h]
  BY MostlyReads DEF Reads, Goto, SendTypeOK
<1>4. RowsAgree' /\ OneLiveSendPerDraft'
  BY <1>1 DEF RowsAgree, OneLiveSendPerDraft, LiveSend
<1>5. Replay(h) => pc'[h] \in {"idle", "replay2", "lost"}
  BY DEF Replay, ReadTable, Goto, SendTypeOK
<1>6. AnswerLost(h) \/ RollBack(h) => pc'[h] = "idle"
  BY DEF AnswerLost, RollBack, Goto, SendTypeOK
<1>7. CheckDraft(h) =>
        \/ pc'[h] = "idle"
        \/ pc'[h] = "flight1" /\ req[h].kind = "send" /\ req[h].draft # None
        \/ pc'[h] = "insert" /\ (req[h].kind # "send" \/ req[h].draft = None)
  BY DEF CheckDraft, Goto, SendTypeOK
<1>8. InFlight(h) =>
        \/ pc'[h] = "idle"
        \/ /\ pc[h] = "flight1" /\ pc'[h] = "flight2"
           /\ DraftLockFree(h) /\ ~StagedFor(req[h].draft)
        \/ /\ pc[h] = "flight2" /\ pc'[h] = "insert"
           /\ ~QueuedFor(req[h].draft)
  BY DEF InFlight, AskTable, Goto, SendTypeOK
<1>9. /\ pc'[h] = "flight1" => req[h].kind = "send" /\ req[h].draft # None
      /\ pc'[h] = "flight2" =>
            pc[h] = "flight1" /\ DraftLockFree(h) /\ ~StagedFor(req[h].draft)
      /\ pc'[h] = "insert" =>
            \/ req[h].kind # "send" \/ req[h].draft = None
            \/ pc[h] = "flight2" /\ ~QueuedFor(req[h].draft)
  BY <1>5, <1>6, <1>7, <1>8
<1>10. LocksHold'
  <2>1. \A g \in Handlers : pc'[g] = "idle" => req'[g] = NoRequest
    BY <1>2, <1>3 DEF LocksHold
  <2>2. \A g \in Handlers :
           pc'[g] \in {"flight1", "flight2"} => req'[g].kind = "send" /\ req'[g].draft # None
    BY <1>2, <1>3, <1>9 DEF LocksHold
  <2>3. ASSUME NEW g \in Handlers \ {h}, Asking(g)', Asking(h)'
        PROVE  req'[g].draft # req'[h].draft
    <3>1. Asking(g) /\ req'[g] = req[g] /\ req'[h] = req[h]
      BY <1>2, <1>3, <2>3 DEF Asking
    <3>2. CASE pc'[h] = "flight2"
      BY <1>9, <2>3, <3>1, <3>2 DEF DraftLockFree, Asking
    <3>3. CASE pc'[h] = "insert"
      BY <1>9, <2>3, <3>1, <3>3 DEF LocksHold, Asking
    <3> QED
      BY <2>3, <3>2, <3>3 DEF Asking
  <2>4. ASSUME NEW g \in Handlers \ {h}, NEW f \in Handlers \ {h}, g # f, Asking(g)', Asking(f)'
        PROVE  req'[g].draft # req'[f].draft
    BY <1>2, <2>4 DEF LocksHold, Asking
  <2> QED
    BY <2>1, <2>2, <2>3, <2>4 DEF LocksHold
<1>11. NoneInFlight'
  <2>1. ASSUME NEW g \in Handlers \ {h}, Asking(g)', NEW i \in Ids,
               IF pc'[g] = "insert" THEN LiveSend(i)' ELSE staged'[i] = "waiting"
        PROVE  message'[i].draft # req'[g].draft
    BY <1>1, <1>2, <2>1 DEF NoneInFlight, Asking, LiveSend
  <2>2. ASSUME Asking(h)', NEW i \in Ids,
               IF pc'[h] = "insert" THEN LiveSend(i)' ELSE staged'[i] = "waiting"
        PROVE  message'[i].draft # req'[h].draft
    <3>1. req'[h] = req[h]
      BY <1>3, <2>2 DEF Asking
    <3>2. CASE pc'[h] = "flight2"
      BY <1>1, <1>9, <2>2, <3>1, <3>2 DEF StagedFor
    <3>3. CASE pc'[h] = "insert"
      <4>1. pc[h] = "flight2" /\ ~QueuedFor(req[h].draft) /\ Asking(h)
        BY <1>9, <2>2, <3>1, <3>3 DEF Asking
      <4>2. CASE staged[i] = "waiting"
        BY <1>1, <3>1, <4>1, <4>2 DEF NoneInFlight
      <4>3. CASE message[i].kind = "send" /\ outbox[i] \in Statuses \ {"dead"}
        <5>1. message[i] = [kind |-> message[i].kind, draft |-> message[i].draft]
          BY DEF SendTypeOK
        <5> QED
          BY <1>1, <3>1, <4>1, <4>3, <5>1 DEF QueuedFor
      <4> QED
        BY <1>1, <2>2, <3>3, <4>2, <4>3 DEF LiveSend
    <3> QED
      BY <2>2, <3>2, <3>3 DEF Asking
  <2> QED
    BY <2>1, <2>2 DEF NoneInFlight
<1>12. KeysNameRows'
  <2>1. /\ pc'[h] # "replay1" /\ pc'[h] # "lost"
        /\ pc'[h] = "replay2" => pc[h] = "replay1" /\ staged[target[req[h].key]] = "none"
    BY DEF Replay, ReadTable, AnswerLost, CheckDraft, InFlight, AskTable, RollBack, Goto,
           SendTypeOK, KeysNameRows
  <2>2. pc[h] = "replay1" => Stored(target[req[h].key])
    BY DEF KeysNameRows
  <2> QED
    BY <1>1, <1>2, <1>3, <2>1, <2>2 DEF KeysNameRows, Stored
<1> QED
  BY <1>4, <1>10, <1>11, <1>12

\* A request begins: a key that is known leads to a row that exists.
LEMMA BeginningKeeps ==
  ASSUME SendTypeOK, SendInv, NEW h \in Handlers, NEW r \in Requests, Begin(h, r)
  PROVE  SendInv'
<1> USE DEF SendInv
<1>1. UNCHANGED <<staged, outbox, message, target, moving, undone>>
  BY DEF Begin, rowVars, tickVars
<1>2. \A g \in Handlers \ {h} : pc'[g] = pc[g] /\ req'[g] = req[g]
  BY DEF Begin, SendTypeOK
<1>3. pc'[h] \in {"draft", "replay1"} /\ req'[h] = r
  BY DEF Begin, SendTypeOK
<1>4. RowsAgree' /\ OneLiveSendPerDraft'
  BY <1>1 DEF RowsAgree, OneLiveSendPerDraft, LiveSend
<1>5. LocksHold'
  BY <1>2, <1>3 DEF LocksHold, Asking
<1>6. NoneInFlight'
  BY <1>1, <1>2, <1>3 DEF NoneInFlight, Asking, LiveSend
<1>7. pc'[h] = "replay1" => r.key \in Keys /\ target[r.key] # None
  BY SendAssumption DEF Begin, SendTypeOK, Keys
<1>8. KeysNameRows'
  BY <1>1, <1>2, <1>3, <1>7 DEF KeysNameRows, Stored
<1> QED
  BY <1>4, <1>5, <1>6, <1>8

\* A request commits: its send is the only one of its draft.
LEMMA CommittingKeeps ==
  ASSUME SendTypeOK, SendInv, NEW h \in Handlers, CommitRequest(h)
  PROVE  SendInv'
<1> USE DEF SendInv
<1>1. PICK i \in Ids, undo \in BOOLEAN :
         /\ staged[i] = "none" /\ outbox[i] = "none"
         /\ undo => req[h].kind = "send"
         /\ staged' = IF undo THEN [staged EXCEPT ![i] = "waiting"] ELSE staged
         /\ outbox' = IF undo THEN outbox ELSE [outbox EXCEPT ![i] = "pending"]
         /\ message' = [message EXCEPT ![i] = [kind |-> req[h].kind, draft |-> req[h].draft]]
         /\ target' = IF req[h].key = None THEN target ELSE [target EXCEPT ![req[h].key] = i]
  BY DEF CommitRequest
<1>2. /\ pc[h] = "insert" /\ UNCHANGED <<moving, undone>>
      /\ req[h].key # None => target[req[h].key] = None
  BY DEF CommitRequest, tickVars
<1>3. \A g \in Handlers \ {h} : pc'[g] = pc[g] /\ req'[g] = req[g]
  BY DEF CommitRequest, Goto, SendTypeOK
<1>4. pc'[h] = "idle" /\ req'[h] = NoRequest
  BY DEF CommitRequest, Goto, SendTypeOK
<1>5. LocksHold'
  BY <1>3, <1>4 DEF LocksHold, Asking
<1>6. \A j \in Ids \ {i} :
         /\ staged'[j] = staged[j] /\ outbox'[j] = outbox[j] /\ message'[j] = message[j]
         /\ LiveSend(j)' = LiveSend(j)
  BY <1>1 DEF LiveSend, SendTypeOK
<1>7. /\ message'[i].kind = req[h].kind /\ message'[i].draft = req[h].draft
      /\ staged'[i] = "waiting" <=> undo
      /\ outbox'[i] # "none" <=> ~undo
      /\ staged'[i] \in {"none", "waiting"}
      /\ LiveSend(i)' => req[h].kind = "send"
  BY <1>1 DEF LiveSend, SendTypeOK
<1>8. RowsAgree'
  BY <1>1, <1>2, <1>6, <1>7 DEF RowsAgree, SendTypeOK
<1>9. ASSUME LiveSend(i)', req[h].draft # None PROVE Asking(h)
  BY <1>2, <1>7, <1>9 DEF Asking
<1>10. NoneInFlight'
  <2>1. ASSUME NEW g \in Handlers, Asking(g)', NEW j \in Ids,
               IF pc'[g] = "insert" THEN LiveSend(j)' ELSE staged'[j] = "waiting"
        PROVE  message'[j].draft # req'[g].draft
    <3>1. g # h /\ Asking(g) /\ req'[g] = req[g] /\ pc'[g] = pc[g]
      BY <1>3, <1>4, <2>1 DEF Asking
    <3>2. CASE j # i
      BY <1>6, <2>1, <3>1, <3>2 DEF NoneInFlight
    <3>3. CASE j = i
      <4>1. LiveSend(i)'
        BY <2>1, <3>3 DEF LiveSend
      <4> QED
        BY <1>7, <1>9, <3>1, <3>3, <4>1 DEF LocksHold, Asking
    <3> QED
      BY <3>2, <3>3
  <2> QED
    BY <2>1 DEF NoneInFlight
<1>11. KeysNameRows'
  <2>1. ASSUME NEW k \in Keys, target'[k] # None
        PROVE  staged'[target'[k]] # "none" \/ outbox'[target'[k]] # "none"
    <3>1. CASE target'[k] = i
      BY <1>7, <3>1
    <3>2. CASE target'[k] # i
      <4>1. target'[k] = target[k]
        BY <1>1, <3>2 DEF SendTypeOK
      <4>2. target[k] \in Ids \ {i} /\ Stored(target[k])
        BY <2>1, <3>2, <4>1 DEF KeysNameRows, SendTypeOK
      <4> QED
        BY <1>6, <4>1, <4>2 DEF Stored
    <3> QED
      BY <3>1, <3>2
  <2>2. ASSUME NEW g \in Handlers, pc'[g] \in {"replay1", "replay2"}
        PROVE  /\ req'[g].key \in Keys /\ target'[req'[g].key] # None
               /\ pc'[g] = "replay2" => outbox'[target'[req'[g].key]] # "none"
    <3>1. g # h /\ pc'[g] = pc[g] /\ req'[g] = req[g]
      BY <1>3, <1>4, <2>2
    <3>2. req[g].key \in Keys /\ target[req[g].key] # None
      BY <2>2, <3>1 DEF KeysNameRows
    <3>3. target'[req[g].key] = target[req[g].key]
      BY <1>1, <1>2, <3>2 DEF SendTypeOK, Keys
    <3>4. pc[g] = "replay2" => outbox[target[req[g].key]] # "none"
      BY DEF KeysNameRows
    <3>5. target[req[g].key] \in Ids
      BY <3>2 DEF SendTypeOK
    <3> QED
      BY <1>1, <1>6, <3>1, <3>2, <3>3, <3>4, <3>5
  <2>3. \A g \in Handlers : pc'[g] # "lost"
    BY <1>3, <1>4 DEF KeysNameRows
  <2> QED
    BY <2>1, <2>2, <2>3 DEF KeysNameRows, Stored
<1>12. OneLiveSendPerDraft'
  <2>1. ASSUME NEW j \in Ids \ {i}, LiveSend(j), LiveSend(i)', req[h].draft # None
        PROVE  message[j].draft # req[h].draft
    BY <1>2, <1>9, <2>1 DEF NoneInFlight
  <2> QED
    BY <1>6, <1>7, <2>1 DEF OneLiveSendPerDraft
<1> QED
  BY <1>5, <1>8, <1>10, <1>11, <1>12

\* Before the first request there is no row and nothing to keep.
LEMMA SendInvInit == SendInit => SendInv
  BY DEF SendInit, SendInv, LocksHold, NoneInFlight, RowsAgree, KeysNameRows,
         OneLiveSendPerDraft, Asking, LiveSend, Statuses

\* No handler, tick, cancel, delivery or clean-up breaks what the keys and the
\* rows of one send have to do with each other (outbox/pending.py).
LEMMA SendInvStep == SendTypeOK /\ SendInv /\ [SendNext]_sendVars => SendInv'
<1> SUFFICES ASSUME SendTypeOK, SendInv, [SendNext]_sendVars PROVE SendInv'
  OBVIOUS
<1>1. ASSUME NEW h \in Handlers, Handle(h) PROVE SendInv'
  BY <1>1, ReadingKeeps, BeginningKeeps, CommittingKeeps DEF Handle
<1>2. ASSUME NEW i \in Ids, Cancel(i) PROVE SendInv'
  <2>1. /\ UNCHANGED <<handlerVars, outbox, message, target, moving>>
        /\ staged[i] = "waiting" /\ i \notin moving
        /\ staged' = [staged EXCEPT ![i] = "cancelled"] /\ undone' = undone \cup {i}
    BY <1>2 DEF Cancel
  <2>2. RowsAgree'
    BY <2>1 DEF RowsAgree, SendInv, SendTypeOK
  <2>3. \A j \in Ids :
           /\ LiveSend(j)' => LiveSend(j)
           /\ staged'[j] = "waiting" => staged[j] = "waiting"
           /\ outbox[j] # "none" => outbox'[j] # "none"
           /\ Stored(j) => Stored(j)'
    BY <2>1 DEF LiveSend, Stored, SendTypeOK
  <2> QED
    BY <2>1, <2>2, <2>3, NothingRevives
<1>3. ASSUME NEW i \in Ids, NEW s \in Statuses, Deliver(i, s) PROVE SendInv'
  <2>1. /\ UNCHANGED <<handlerVars, staged, message, target, moving, undone>>
        /\ outbox[i] \in {"pending", "failed", "processing"}
        /\ outbox' = [outbox EXCEPT ![i] = s]
    BY <1>3 DEF Deliver, tickVars
  <2>2. RowsAgree'
    BY <2>1 DEF RowsAgree, SendInv, SendTypeOK
  <2>3. \A j \in Ids :
           /\ LiveSend(j)' => LiveSend(j)
           /\ staged'[j] = "waiting" => staged[j] = "waiting"
           /\ outbox[j] # "none" => outbox'[j] # "none"
           /\ Stored(j) => Stored(j)'
    BY <2>1 DEF LiveSend, Stored, SendTypeOK, Statuses
  <2> QED
    BY <2>1, <2>2, <2>3, NothingRevives
<1>4. CASE ClaimDue \/ CrashPasses
  <2>1. UNCHANGED <<handlerVars, staged, outbox, message, target, undone>>
    BY <1>4 DEF ClaimDue, CrashPasses, rowVars
  <2>2. RowsAgree'
    BY <1>4, <2>1 DEF ClaimDue, CrashPasses, Due, RowsAgree, SendInv
  <2> QED
    BY <2>1, <2>2, NothingRevives DEF LiveSend, Stored
<1>5. CASE MoveDue
  <2>1. /\ UNCHANGED <<handlerVars, message, target, undone>>
        /\ moving' = {}
        /\ \/ UNCHANGED <<staged, outbox>>
           \/ /\ outbox' = [i \in Ids |-> IF i \in moving THEN "pending" ELSE outbox[i]]
              /\ staged' = [i \in Ids |-> IF i \in moving THEN "none" ELSE staged[i]]
    BY <1>5 DEF MoveDue
  <2>2. \A i \in moving : staged[i] = "waiting" /\ message[i].kind = "send" /\ i \notin undone
    BY DEF SendInv, RowsAgree, SendTypeOK
  <2>3. RowsAgree'
    BY <2>1, <2>2 DEF RowsAgree, SendInv, SendTypeOK
  <2>4. \A j \in Ids :
           /\ LiveSend(j)' => LiveSend(j)
           /\ staged'[j] = "waiting" => staged[j] = "waiting"
           /\ outbox[j] # "none" => outbox'[j] # "none"
           /\ Stored(j) => Stored(j)'
    BY <2>1, <2>2 DEF LiveSend, Stored, SendTypeOK
  <2> QED
    BY <2>1, <2>3, <2>4, NothingRevives
<1>6. CASE \/ PassStep
           \/ \E i \in Ids : SentEvent(i) \/ Grow(i)
           \/ \E d \in Drafts : DropDraft(d)
           \/ UNCHANGED sendVars
  <2>1. UNCHANGED <<handlerVars, staged, outbox, message, target, moving, undone>>
    BY <1>6 DEF PassStep, PassResolve, PassFind, PassRaise, SentEvent, Grow, DropDraft,
                sendVars, handlerVars, rowVars, tickVars
  <2>2. RowsAgree'
    BY <2>1 DEF RowsAgree, SendInv
  <2> QED
    BY <2>1, <2>2, NothingRevives DEF LiveSend, Stored
<1> QED
  BY <1>1, <1>2, <1>3, <1>4, <1>5, <1>6 DEF SendNext

\* The keys, the locks and the rows of the two tables agree in every reachable
\* state (outbox/pending.py, submissions.py).
THEOREM SendInvariant == SendSpec => []SendInv
  BY SendInvInit, SendInvStep, SendTypeCorrect, PTL DEF SendSpec

\* "One message is sent once, whatever the client does" (outbox/pending.py):
\* of the sends of one draft at most one is alive, staged or queued.
THEOREM OneSend == SendSpec => []OneLiveSendPerDraft
  BY SendInvariant, PTL DEF SendInv

\* replay_submission finds the row of its key, though the row moves from one
\* table to the other between its two reads.
THEOREM RepeatAnswered == SendSpec => []RepeatFindsItsRow
<1>1. SendInv => RepeatFindsItsRow
  BY DEF SendInv, KeysNameRows, RepeatFindsItsRow
<1> QED
  BY <1>1, SendInvariant, PTL

\* "The two can never both believe they won": a cancel that was acknowledged
\* is never overtaken by the tick (cancel_outbox_pending, _process_due_sends).
THEOREM UndoKept == SendSpec => []UndoIsKept
<1>1. SendInv => UndoIsKept
  BY DEF SendInv, RowsAgree, UndoIsKept
<1> QED
  BY <1>1, SendInvariant, PTL

------------------------------------------------------------------------------
\* The key's row, the requests and the mail stay in their domains
\* (models.py MailActionSubmission).
THEOREM ActionTypeCorrect == ActionSpec => []ActionTypeOK
<1> USE ActionAssumption DEF ActionTypeOK
<1>1. ActionInit => ActionTypeOK
  <2> SUFFICES ASSUME ActionInit PROVE ActionTypeOK
    OBVIOUS
  <2>1. /\ at \in [Mails -> {Source, Target, Elsewhere}]
        /\ where \in [Calls -> {"idle", "check", "write", "store", "release", "over"}]
    BY DEF ActionInit
  <2>2. todo \in [Calls -> SUBSET Mails] /\ filings \in [Mails -> Nat]
    BY DEF ActionInit
  <2>3. /\ token \in Calls \cup {NoCall} /\ asked \in {"move", "spam"}
        /\ answered \in BOOLEAN /\ broken \in BOOLEAN
    BY DEF ActionInit
  <2>4. quiet \in 0..(Abandoned + 1) /\ moves \in 0..MaxMoves
    BY DEF ActionInit
  <2> QED
    BY <2>1, <2>2, <2>3, <2>4
<1>2. ActionTypeOK /\ [ActionNext]_actionVars => ActionTypeOK'
  <2> SUFFICES ASSUME ActionTypeOK, [ActionNext]_actionVars PROVE ActionTypeOK'
    OBVIOUS
  <2>1. ASSUME NEW c \in Calls, CallStep(c) PROVE ActionTypeOK'
    <3>1. CASE Claim(c)
      <4>1. token' = c /\ asked' = Asks[c] /\ quiet' = 0
            /\ where' = [where EXCEPT ![c] = "check"]
        BY <3>1 DEF Claim
      <4>2. broken' \in BOOLEAN
        BY <3>1, Zenon DEF Claim
      <4>3. UNCHANGED <<at, answered, todo, moves, filings>>
        BY <3>1 DEF Claim
      <4> QED
        BY <4>1, <4>2, <4>3
    <3>2a. CASE Refuse(c)
      BY <3>2a DEF Refuse, keyVars
    <3>2. CASE Check(c)
      BY <3>2 DEF Check, keyVars
    <3>3. CASE Write(c)
      <4>1. PICK S \in SUBSET todo[c] :
               /\ at' = [m \in Mails |-> IF m \in Guarded(S) THEN Target ELSE at[m]]
               /\ filings' = [m \in Mails |-> IF m \in Guarded(S) THEN filings[m] + 1 ELSE filings[m]]
               /\ todo' = [todo EXCEPT ![c] = @ \ S]
               /\ where' = [where EXCEPT ![c] = IF S = todo[c] THEN "store" ELSE "write"]
        BY <3>3 DEF Write
      <4>2. at' \in [Mails -> {Source, Target, Elsewhere}]
        BY <4>1
      <4>3. filings' \in [Mails -> Nat]
        BY <4>1
      <4>4. /\ todo' \in [Calls -> SUBSET Mails]
            /\ where' \in [Calls -> {"idle", "check", "write", "store", "release", "over"}]
        BY <4>1
      <4>5. UNCHANGED <<token, asked, answered, quiet, moves, broken>>
        BY <3>3 DEF Write, keyVars
      <4> QED
        BY <4>2, <4>3, <4>4, <4>5
    <3>4. CASE Store(c)
      <4>1. answered' \in BOOLEAN
        BY <3>4, Zenon DEF Store
      <4>2. /\ where' = [where EXCEPT ![c] = "over"]
            /\ UNCHANGED <<at, token, asked, quiet, todo, moves, filings, broken>>
        BY <3>4 DEF Store
      <4> QED
        BY <4>1, <4>2
    <3>6. CASE Repeat(c)
      BY <3>6 DEF Repeat, keyVars
    <3>7. CASE BeatClaim(c)
      BY <3>7 DEF BeatClaim, callVars
    <3>5. CASE FailAction(c) \/ Release(c) \/ DieRunning(c)
      BY <3>5 DEF FailAction, Release, DieRunning, Beating, Running, keyVars
    <3> QED
      BY <2>1, <3>1, <3>2a, <3>2, <3>3, <3>4, <3>5, <3>6, <3>7 DEF CallStep
  <2>2. ASSUME NEW m \in Mails, NEW f \in {Source, Elsewhere}, MoveByOthers(m, f)
        PROVE  ActionTypeOK'
    <3>1. at' \in [Mails -> {Source, Target, Elsewhere}] /\ moves' \in 0..MaxMoves
      BY <2>2 DEF MoveByOthers
    <3>2. UNCHANGED <<token, asked, answered, quiet, where, todo, filings, broken>>
      BY <2>2 DEF MoveByOthers, keyVars, callVars
    <3> QED
      BY <3>1, <3>2
  <2>4. CASE Interval
    <3>1. quiet' \in 0..(Abandoned + 1)
      BY <2>4 DEF Interval
    <3>2. UNCHANGED <<at, token, asked, answered, where, todo, moves, filings, broken>>
      BY <2>4 DEF Interval, callVars
    <3> QED
      BY <3>1, <3>2
  <2>5. CASE Prune
    <3>1. /\ token' = NoCall /\ answered' = FALSE /\ filings' = [m \in Mails |-> 0]
          /\ broken' = FALSE /\ UNCHANGED <<at, asked, quiet, where, todo, moves>>
      BY <2>5 DEF Prune, callVars
    <3> QED
      BY <3>1
  <2>3. CASE UNCHANGED actionVars
    BY <2>3 DEF actionVars, keyVars, callVars
  <2> QED
    BY <2>1, <2>2, <2>3, <2>4, <2>5 DEF ActionNext
<1> QED
  BY <1>1, <1>2, PTL DEF ActionSpec

\* A prompt request holds its claim, and at most one interval went by since
\* it beat.
PromptBeats == \A c \in Prompt : Beating(c) => token = c /\ quiet <= 1

\* Unless a request was broken off, the one that holds an unanswered claim
\* is running, no other is, and it has filed only what it has done with.
OneApplies ==
    ~broken =>
        /\ \A c \in Calls : Running(c) => token = c /\ ~answered
        /\ \A c \in Calls : where[c] \in {"check", "release"} => \A m \in Mails : filings[m] = 0
        /\ \A c \in Calls : where[c] = "write" => \A m \in todo[c] : filings[m] = 0
        /\ token \in Calls /\ ~answered => Running(token)
        /\ token = NoCall => \A m \in Mails : filings[m] = 0
        /\ \A m \in Mails : filings[m] <= 1

NoRowNoAnswer == token = NoCall => ~answered

ActionInv == PromptBeats /\ OneApplies /\ NoRowNoAnswer

\* Before the first request the key has no row and no mail was filed.
LEMMA ActionInvInit == ActionInit => ActionInv
  BY ActionAssumption DEF ActionInit, ActionInv, PromptBeats, OneApplies, NoRowNoAnswer, Running, Beating

\* No step of a request, of a heartbeat or of the person breaks the claim's
\* hold on the action (run_once, _beat, _release).
LEMMA ActionInvStep == ActionTypeOK /\ ActionInv /\ [ActionNext]_actionVars => ActionInv'
<1> SUFFICES ASSUME ActionTypeOK, ActionInv, [ActionNext]_actionVars PROVE ActionInv'
  OBVIOUS
<1> USE ActionAssumption DEF ActionTypeOK, ActionInv, Running, Beating
<1>1. ASSUME NEW c \in Calls, Claim(c) PROVE ActionInv'
  <2>1. \A d \in Prompt : ~Beating(d)
    BY <1>1 DEF Claim, Silent, PromptBeats
  <2>2. /\ token' = c /\ quiet' = 0 /\ where' = [where EXCEPT ![c] = "check"]
        /\ broken' = (broken \/ (token # NoCall /\ ~(token \in Prompt /\ Beating(token))))
        /\ ~answered /\ UNCHANGED <<answered, todo, filings>>
    BY <1>1 DEF Claim, NoRowNoAnswer
  <2>3. PromptBeats'
    BY <2>1, <2>2 DEF PromptBeats
  <2>4. ~broken' => token = NoCall
    BY <2>1, <2>2 DEF OneApplies
  <2>5. OneApplies'
    BY <2>2, <2>4 DEF OneApplies
  <2> QED
    BY <2>2, <2>3, <2>5 DEF NoRowNoAnswer
<1>2. ASSUME NEW c \in Calls, Refuse(c) \/ Repeat(c) PROVE ActionInv'
  <2>1. /\ where[c] \in {"idle", "over"} /\ UNCHANGED <<keyVars, todo, filings, broken>>
        /\ \E s \in {"idle", "over"} : where' = [where EXCEPT ![c] = s]
    BY <1>2 DEF Refuse, Repeat
  <2> QED
    BY <2>1 DEF PromptBeats, OneApplies, NoRowNoAnswer, keyVars
<1>3. ASSUME NEW c \in Calls, Check(c) PROVE ActionInv'
  <2>1. /\ where[c] = "check" /\ UNCHANGED <<keyVars, filings, broken>>
        /\ where' = [where EXCEPT ![c] = IF todo'[c] = {} THEN "store" ELSE "write"]
        /\ \E S \in SUBSET Mails : todo' = [todo EXCEPT ![c] = S]
    BY <1>3 DEF Check
  <2>2. PromptBeats' /\ NoRowNoAnswer'
    BY <2>1 DEF PromptBeats, NoRowNoAnswer, keyVars
  <2>3. OneApplies'
    BY <2>1 DEF OneApplies, keyVars
  <2> QED
    BY <2>2, <2>3
<1>4. ASSUME NEW c \in Calls, Write(c) PROVE ActionInv'
  <2>1. PICK S \in SUBSET todo[c] :
           /\ filings' = [m \in Mails |-> IF m \in Guarded(S) THEN filings[m] + 1 ELSE filings[m]]
           /\ todo' = [todo EXCEPT ![c] = @ \ S]
           /\ where' = [where EXCEPT ![c] = IF S = todo[c] THEN "store" ELSE "write"]
    BY <1>4 DEF Write
  <2>2. where[c] = "write" /\ UNCHANGED <<keyVars, broken>>
    BY <1>4 DEF Write
  <2>3. PromptBeats' /\ NoRowNoAnswer'
    BY <2>1, <2>2 DEF PromptBeats, NoRowNoAnswer, keyVars
  <2>4. ASSUME ~broken' PROVE \A d \in Calls \ {c} : where[d] \notin {"check", "write", "store", "release"}
    BY <2>2, <2>4 DEF OneApplies
  <2>5. \A m \in Mails \ S : filings'[m] = filings[m]
    BY <2>1 DEF Guarded
  <2>6. \A m \in S : filings'[m] \in {filings[m], filings[m] + 1}
    BY <2>1
  <2>7. ASSUME ~broken' PROVE OneApplies'
    <3>1. ~broken /\ token = c /\ ~answered /\ token' = token /\ answered' = answered
      BY <2>2, <2>7 DEF OneApplies, keyVars
    <3>2. \A m \in todo[c] : filings[m] = 0
      BY <2>2, <3>1 DEF OneApplies
    <3>3. \A m \in Mails : filings[m] <= 1
      BY <3>1 DEF OneApplies
    <3>4. \A m \in Mails : filings'[m] <= 1
      BY <2>5, <2>6, <3>2, <3>3
    <3>5. todo'[c] = todo[c] \ S /\ todo[c] \subseteq Mails
      BY <2>1
    <3>6. \A m \in todo'[c] : filings'[m] = 0
      BY <2>5, <3>2, <3>5
    <3>7. /\ where'[c] \in {"write", "store"}
          /\ \A d \in Calls \ {c} : where'[d] \notin {"check", "write", "store", "release"}
      BY <2>1, <2>4, <2>7
    <3>8. \A d \in Calls : Running(d)' => d = c
      BY <3>7
    <3>9. /\ \A d \in Calls : Running(d)' => token' = d /\ ~answered'
          /\ token' \in Calls /\ ~answered' => Running(token)'
      BY <3>1, <3>7, <3>8
    <3>10. /\ \A d \in Calls : where'[d] \in {"check", "release"} => \A m \in Mails : filings'[m] = 0
           /\ \A d \in Calls : where'[d] = "write" => \A m \in todo'[d] : filings'[m] = 0
      BY <3>6, <3>7
    <3>11. token' # NoCall
      BY <3>1
    <3> QED
      BY <3>4, <3>9, <3>10, <3>11 DEF OneApplies
  <2> QED
    BY <2>3, <2>7 DEF OneApplies
<1>5. ASSUME NEW c \in Calls, Store(c) PROVE ActionInv'
  BY <1>5 DEF Store, PromptBeats, OneApplies, NoRowNoAnswer
<1>6. ASSUME NEW c \in Calls, FailAction(c) PROVE ActionInv'
  <2>1. /\ where[c] \in {"check", "write"} /\ where' = [where EXCEPT ![c] = "release"]
        /\ todo' = [todo EXCEPT ![c] = {}]
        /\ broken' = (broken \/ \E m \in Mails : filings[m] > 0)
        /\ UNCHANGED <<keyVars, filings>>
    BY <1>6 DEF FailAction
  <2>2. PromptBeats' /\ NoRowNoAnswer'
    BY <2>1 DEF PromptBeats, NoRowNoAnswer, keyVars
  <2>3. ASSUME ~broken' PROVE OneApplies'
    <3>1. ~broken /\ \A m \in Mails : ~(filings[m] > 0) /\ filings[m] \in Nat /\ filings' = filings
      BY <2>1, <2>3
    <3>2. \A m \in Mails : filings'[m] = 0
      BY <3>1
    <3> QED
      BY <2>1, <3>1, <3>2 DEF OneApplies, keyVars
  <2> QED
    BY <2>2, <2>3 DEF OneApplies
<1>13. ASSUME NEW c \in Calls, Release(c) PROVE ActionInv'
  <2>1. /\ where[c] = "release" /\ where' = [where EXCEPT ![c] = "over"]
        /\ token' = IF token = c /\ ~answered THEN NoCall ELSE token
        /\ UNCHANGED <<asked, answered, quiet, todo, filings, broken>>
    BY <1>13 DEF Release
  <2>2. PromptBeats' /\ NoRowNoAnswer'
    BY <2>1 DEF PromptBeats, NoRowNoAnswer
  <2>3. ASSUME ~broken' PROVE OneApplies'
    <3>1. /\ token = c /\ ~answered /\ token' = NoCall
          /\ \A m \in Mails : filings[m] = 0
      BY <2>1, <2>3 DEF OneApplies
    <3>2. \A d \in Calls : ~Running(d)'
      BY <2>1, <2>3, <3>1 DEF OneApplies
    <3> QED
      BY <2>1, <3>1, <3>2 DEF OneApplies
  <2> QED
    BY <2>2, <2>3 DEF OneApplies
<1>7. ASSUME NEW c \in Calls, DieRunning(c) PROVE ActionInv'
  BY <1>7 DEF DieRunning, PromptBeats, OneApplies, NoRowNoAnswer, keyVars
<1>8. ASSUME NEW c \in Calls, BeatClaim(c) PROVE ActionInv'
  BY <1>8 DEF BeatClaim, PromptBeats, OneApplies, NoRowNoAnswer, callVars
<1>9. CASE \E m \in Mails, f \in {Source, Elsewhere} : MoveByOthers(m, f)
  BY <1>9 DEF MoveByOthers, PromptBeats, OneApplies, NoRowNoAnswer, keyVars, callVars
<1>10. CASE Interval
  BY <1>10 DEF Interval, PromptBeats, OneApplies, NoRowNoAnswer, callVars
<1>11. CASE Prune
  BY <1>11 DEF Prune, PromptBeats, OneApplies, NoRowNoAnswer, callVars
<1>12. CASE UNCHANGED actionVars
  BY <1>12 DEF actionVars, keyVars, callVars, PromptBeats, OneApplies, NoRowNoAnswer
<1> QED
  BY <1>1, <1>2, <1>3, <1>4, <1>5, <1>6, <1>7, <1>8, <1>9, <1>10, <1>11, <1>12, <1>13
     DEF ActionNext, CallStep

\* One claim, one running request, and what it filed is what it ticked off, in
\* every reachable state (mail_actions/submissions.py).
THEOREM ActionInvariant == ActionSpec => []ActionInv
  BY ActionInvInit, ActionInvStep, ActionTypeCorrect, PTL DEF ActionSpec

\* "A keyed message action is applied once, however often the request that
\* carries it arrives" (mail_actions/submissions.py run_once), unless one of
\* the requests died, failed half way, or was taken over when its beat was late or it
\* was storing its answer.
THEOREM FiledOnce == ActionSpec => []AppliedOnce
<1>1. ActionInv => AppliedOnce
  BY DEF ActionInv, OneApplies, AppliedOnce
<1> QED
  BY <1>1, ActionInvariant, PTL

\* "However long the action takes, a repeat never mistakes it for abandoned":
\* no other request takes the claim of one that beats in time.
THEOREM ClaimKept == ActionSpec => []PromptKeepsItsClaim
<1>1. ActionInv => PromptKeepsItsClaim
  BY DEF ActionInv, PromptBeats, PromptKeepsItsClaim
<1> QED
  BY <1>1, ActionInvariant, PTL
==============================================================================
