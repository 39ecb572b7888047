------------------------------ MODULE GlacierMove ------------------------------
(***************************************************************************)
(* Moving one mail of one account into the glacier and out of it again:    *)
(* glacier/operations.py, glacier/restore.py, the sweep that finishes what *)
(* was begun (glacier/sweep.py), and the permanent delete in api/mails.py. *)
(*                                                                         *)
(* A request or the sweep may die between any two steps.  A transaction    *)
(* that locks the row it changes, or checks it in the statement that       *)
(* changes it, is one step.  The others read without a lock and write by   *)
(* id what they concluded: a reading step and a writing step, and under    *)
(* the READ COMMITTED the code runs in anything may commit between the two.*)
(* The glacier has at most one row per msg_key, so one row is all there    *)
(* is; Mails are the raw sources that share the key.                       *)
(***************************************************************************)
EXTENDS Integers, FiniteSets

CONSTANTS
    Calls,          \* requests of the API, each one at a time
    Sweep,          \* the task that holds the sweep lock
    Rows,           \* ids PostIMAP may give a row (bound: it never reuses one)
    Mails,          \* raw sources
    Starts,         \* which mail each row may hold at first, or None
    Envelope,       \* Envelope[m]: Message-ID, size and date of m
    Appends,        \* outbox rows (bound: restores)
    MaxMishaps,     \* bound: mishaps of the sweep, the server and the storage
    None

ASSUME GlacierAssumption ==
    /\ Calls # {} /\ Sweep \notin Calls
    /\ None \notin Rows \cup Mails \cup Appends
    /\ MaxMishaps \in Nat
    /\ Starts \subseteq [Rows -> Mails \cup {None}]

VARIABLES
    row,            \* messages, and what the server has of each
    notice,         \* sync_notifications: the newest failed delete of a row
    g,              \* the row of glacier_messages
    outbox,         \* the appends of restores
    task,           \* what each request, and the sweep, is doing
    mishaps,        \* ticks that died, refused deletes, resyncs, damage (bounded)
    destroyed,      \* history: mails a person deleted for good
    overtaken       \* history: mails a write was about that came too late

history == <<destroyed, overtaken>>
glacierVars == <<row, notice, g, outbox, task, mishaps, history>>

Actors == Calls \cup {Sweep}

\* A row is shown while it is live or its move is pending; marked is a row whose
\* expunge is queued; the server holds a mail whose row PostIMAP has not (re)made.
Shown == {"live", "moving"}
OnServer == Shown \cup {"marked", "unseen"}
Holders(m) == {r \in Rows : row[r].mail = m /\ row[r].st \in OnServer}

\* A copy is old once the grace, or the timeout of its restore, has passed.
NoCopy == [st |-> "none", mail |-> None, origin |-> None, raw |-> "none",
           visible |-> FALSE, restored |-> FALSE, append |-> None, old |-> FALSE]
Fresh == [st |-> "fresh", mail |-> None, at |-> "archive"]

Steps == {"idle", "copy", "resolve", "resolving", "verify", "expunge", "reresolve",
          "reresolving", "appending", "orphaned", "deleting", "removing", "confirming",
          "withdrawing", "verifying", "expunging", "restores", "restored", "stale",
          "failing", "candidates"}

\* Where a write to the glacier's row by its id is due.
Writing == {"reresolving", "appending", "deleting", "confirming", "withdrawing",
            "restored", "failing"}

\* Types; and that a write which is due finds the row it read.
GlacierTypeOK ==
    /\ row \in [Rows -> [st : OnServer \cup {"fresh", "gone"}, mail : Mails \cup {None},
                         at : {"archive", "inbox"}]]
    /\ notice \in [Rows -> {"none", "open", "reverted"}]
    /\ g \in [st : {"none", "copied", "verified", "removing", "glaciered", "restoring",
                    "restored", "expunged"},
              mail : Mails \cup {None}, origin : Rows \cup {None},
              raw : {"none", "whole", "damaged"}, visible : BOOLEAN, restored : BOOLEAN,
              append : Appends \cup {None}, old : BOOLEAN]
    /\ outbox \in [Appends -> [st : {"unused", "pending", "sent", "dead"},
                               mail : Mails \cup {None}]]
    /\ task \in [Actors -> [at : Steps, arg : Rows \cup Mails \cup {None}]]
    /\ mishaps \in 0..MaxMishaps
    /\ destroyed \subseteq Mails
    /\ overtaken \subseteq Mails
    /\ \A r \in Rows : row[r].st = "fresh" <=> row[r].mail = None
    /\ g.st = "none" <=> g.mail = None
    /\ \A p \in Actors : task[p].at \in Writing => g.st # "none"

GlacierInit ==
    /\ \E start \in Starts :
         row = [r \in Rows |-> IF start[r] = None THEN Fresh ELSE
                   [st |-> "live", mail |-> start[r], at |-> "archive"]]
    /\ notice = [r \in Rows |-> "none"]
    /\ g = NoCopy
    /\ outbox = [a \in Appends |-> [st |-> "unused", mail |-> None]]
    /\ task = [p \in Actors |-> [at |-> "idle", arg |-> None]]
    /\ mishaps = 0
    /\ destroyed = {}
    /\ overtaken = {}

Put(r, state) == row' = [row EXCEPT ![r].st = state]
Go(p, step) == task' = [task EXCEPT ![p].at = step]
Rest(p) == task' = [task EXCEPT ![p] =
    [at |-> IF p = Sweep THEN "candidates" ELSE "idle", arg |-> None]]

At(p, step) == task[p].at = step

Mishap == mishaps < MaxMishaps /\ mishaps' = mishaps + 1

\* What a writing step notes of mail m: whether what its read saw holds still.
Note(condition, m) ==
    /\ overtaken' = IF condition THEN overtaken ELSE overtaken \cup {m}
    /\ UNCHANGED destroyed

\* Mutant: any mail under the id will do.
MatchesAnyMail(r, m) == r # None /\ row[r].st \in Shown

\* expunge_if_matches: still shown, and of the identity the copy was made under.
Matches(r, m) == r # None /\ row[r].st \in Shown /\ Envelope[row[r].mail] = Envelope[m]

------------------------------------------------------------------------------
(* copy, verify, expunge: glacier_message_now, and the sweep's candidates.  *)

Replaceable == g.st = "none" \/ g.restored

\* copy_message.  The insert takes the place of a restored row and of no other;
\* then the same bytes are a duplicate to resolve, other bytes a conflict.
CopyMessage(p) ==
    /\ At(p, "copy")
    /\ LET r == task[p].arg IN
       \/ /\ row[r].st # "live"
          /\ Rest(p)
          /\ UNCHANGED g
       \/ /\ row[r].st = "live"
          /\ Replaceable
          /\ g' = [NoCopy EXCEPT !.st = "copied", !.mail = row[r].mail,
                                 !.origin = r, !.raw = "whole"]
          /\ task' = [task EXCEPT ![p] = [at |-> "verify", arg |-> None]]
       \/ /\ row[r].st = "live"
          /\ ~Replaceable
          /\ IF row[r].mail = g.mail THEN Go(p, "resolve") ELSE Rest(p)
          /\ UNCHANGED g
    /\ UNCHANGED <<row, notice, outbox, mishaps, history>>

\* A verified copy, its bytes hashed again, and of this row's identity.
Duplicate(r) ==
    /\ g.st \in {"verified", "removing", "glaciered"} /\ g.raw = "whole"
    /\ Envelope[row[r].mail] = Envelope[g.mail]

\* resolve_duplicate: the existing copy is looked at, and its identity taken ...
ReadDuplicate(p) ==
    /\ At(p, "resolve")
    /\ IF Duplicate(task[p].arg) THEN Go(p, "resolving") ELSE Rest(p)
    /\ UNCHANGED <<row, notice, g, outbox, mishaps, history>>

\* ... and the live row, whose identity it is, expunged.
ExpungeDuplicate(p) ==
    /\ At(p, "resolving")
    /\ LET r == task[p].arg IN
       \/ row[r].st \in Shown /\ Put(r, "marked") /\ Note(Duplicate(r), row[r].mail)
       \/ row[r].st \notin Shown /\ UNCHANGED <<row, history>>
    /\ Rest(p)
    /\ UNCHANGED <<notice, g, outbox, mishaps>>

\* verify_message: copied, and equal to its live origin.
Verifies ==
    /\ g.st = "copied"
    /\ row[g.origin].st \in Shown
    /\ row[g.origin].mail = g.mail
    /\ g.raw = "whole"

VerifyMessage(p) ==
    /\ At(p, "verify")
    /\ IF Verifies
       THEN g' = [g EXCEPT !.st = "verified"] /\ Go(p, "expunge")
       ELSE UNCHANGED g /\ Rest(p)
    /\ UNCHANGED <<row, notice, outbox, mishaps, history>>

Removable == g.st = "verified" /\ g.origin # None

\* expunge_message's one transaction: both rows change, or neither.
TakeOffServer ==
    /\ g' = [g EXCEPT !.st = "removing", !.visible = TRUE, !.old = FALSE]
    /\ Put(g.origin, "marked")
    /\ notice' = [notice EXCEPT ![g.origin] = "none"]

ExpungeMessage(p) ==
    /\ At(p, "expunge")
    /\ \/ /\ Removable /\ Matches(g.origin, g.mail)
          /\ TakeOffServer
          /\ Rest(p)
       \/ /\ Removable /\ ~Matches(g.origin, g.mail)
          /\ IF p = Sweep THEN Rest(p) ELSE Go(p, "reresolve")
          /\ UNCHANGED <<row, notice, g>>
       \/ /\ ~Removable
          /\ Rest(p)
          /\ UNCHANGED <<row, notice, g>>
    /\ UNCHANGED <<outbox, mishaps, history>>

\* The verified copy's origin is no live row: a resync renamed it, or it is gone.
Unresolved ==
    /\ g.st = "verified"
    /\ g.origin # None => row[g.origin].st \notin Shown

AfterReresolve(p) == task' = [task EXCEPT ![p] =
    [at |-> IF p = Sweep THEN "verifying" ELSE "idle", arg |-> None]]

\* reresolve_origins reads the live row of the copy's identity, if there is one ...
ReadOrigin(p) ==
    /\ At(p, "reresolve")
    /\ \/ /\ Unresolved
          /\ \E r \in Rows \cup {None} :
                /\ Matches(r, g.mail) \/ (r = None /\ ~\E q \in Rows : Matches(q, g.mail))
                /\ task' = [task EXCEPT ![p] = [at |-> "reresolving", arg |-> r]]
       \/ ~Unresolved /\ AfterReresolve(p)
    /\ UNCHANGED <<row, notice, g, outbox, mishaps, history>>

\* ... and makes it the copy's origin, or the copy the only one there is.
WriteOrigin(p) ==
    /\ At(p, "reresolving")
    /\ LET r == task[p].arg IN
       \/ /\ r # None
          /\ g' = [g EXCEPT !.origin = r]
          /\ Note(Matches(r, g.mail), g.mail)
       \/ /\ r = None
          /\ g' = [g EXCEPT !.st = "glaciered", !.origin = None]
          /\ UNCHANGED history
    /\ AfterReresolve(p)
    /\ UNCHANGED <<row, notice, outbox, mishaps>>

------------------------------------------------------------------------------
(* The sweep: _sweep_account_once, one step per transaction, in its order.  *)

StartSweep ==
    /\ task[Sweep].at = "idle"
    /\ Go(Sweep, "removing")
    /\ UNCHANGED <<row, notice, g, outbox, mishaps, history>>

\* What confirm_or_withdraw_removing reads: the newest failure since the expunge,
\* past the grace; and whether the live row has verifiably been put back.
GraceOver == g.st = "removing" /\ g.old
Confirmable == GraceOver /\ notice[g.origin] = "none"

\* Mutant: the live row counts as intact because a revert was reported.
WithdrawUnchecked == GraceOver /\ notice[g.origin] = "reverted"

Withdrawable ==
    GraceOver /\ notice[g.origin] = "reverted" /\ row[g.origin].st = "live"

\* Reported and not yet put back, or put back and not intact: a later tick.
ReadRemoval ==
    /\ At(Sweep, "removing")
    /\ Go(Sweep, IF Confirmable THEN "confirming"
                 ELSE IF Withdrawable THEN "withdrawing" ELSE "reresolve")
    /\ UNCHANGED <<row, notice, g, outbox, mishaps, history>>

ConfirmRemoval ==
    /\ At(Sweep, "confirming")
    /\ g' = [g EXCEPT !.st = "glaciered", !.old = FALSE]
    /\ Go(Sweep, "reresolve")
    /\ UNCHANGED <<row, notice, outbox, mishaps, history>>

\* The delete failed and the live row is back: the copy is deleted.  A request
\* that holds its id finds nothing under it, even when the mail is copied again.
WithdrawCopy ==
    /\ At(Sweep, "withdrawing")
    /\ Note(Withdrawable, g.mail)
    /\ g' = NoCopy
    /\ task' = [p \in Actors |->
          IF p = Sweep THEN [task[p] EXCEPT !.at = "reresolve"]
          ELSE IF task[p].at = "appending" THEN [task[p] EXCEPT !.at = "orphaned"]
          ELSE IF task[p].at \in {"resolve", "verify", "expunge"} \cup Writing
          THEN [at |-> "idle", arg |-> None]
          ELSE task[p]]
    /\ UNCHANGED <<row, notice, outbox, mishaps>>

\* _progress_mid_flight: verify what was left copied ...
ProgressCopied ==
    /\ At(Sweep, "verifying")
    /\ g' = IF Verifies THEN [g EXCEPT !.st = "verified"] ELSE g
    /\ Go(Sweep, "expunging")
    /\ UNCHANGED <<row, notice, outbox, mishaps, history>>

\* ... and expunge what was left verified, unless something on the account (a
\* pending move here; a failure or the account's state anywhere) forbids it.
ProgressVerified ==
    /\ At(Sweep, "expunging")
    /\ \/ /\ \A r \in Rows : row[r].st # "moving"
          /\ Removable /\ Matches(g.origin, g.mail)
          /\ TakeOffServer
       \/ UNCHANGED <<row, notice, g>>
    /\ Go(Sweep, "restores")
    /\ UNCHANGED <<outbox, mishaps, history>>

\* confirm_restores reads that the append was sent and its bytes lie in the folder,
Landed ==
    /\ g.st = "restoring"
    /\ outbox[g.append].st = "sent"
    /\ g.raw = "whole"
    /\ \E r \in Rows : row[r] = [st |-> "live", mail |-> g.mail, at |-> "inbox"]

ReadRestore ==
    /\ At(Sweep, "restores")
    /\ Go(Sweep, IF Landed THEN "restored" ELSE "stale")
    /\ UNCHANGED <<row, notice, g, outbox, mishaps, history>>

\* and leaves a tombstone.
ConfirmRestore ==
    /\ At(Sweep, "restored")
    /\ Note(Landed, g.mail)
    /\ g' = [g EXCEPT !.st = "restored", !.restored = TRUE, !.visible = FALSE,
                       !.raw = "none", !.old = FALSE]
    /\ Go(Sweep, "stale")
    /\ UNCHANGED <<row, notice, outbox, mishaps>>

\* Mutant: only a dead append fails a restore.
DeadRestore == g.st = "restoring" /\ ~g.restored /\ outbox[g.append].st = "dead"

\* fail_stale_restores reads a restore that died or took too long,
StaleRestore ==
    g.st = "restoring" /\ ~g.restored /\ (outbox[g.append].st = "dead" \/ g.old)

ReadStale ==
    /\ At(Sweep, "stale")
    /\ Go(Sweep, IF StaleRestore THEN "failing" ELSE "candidates")
    /\ UNCHANGED <<row, notice, g, outbox, mishaps, history>>

\* and makes it one that can be asked for again.
FailRestore ==
    /\ At(Sweep, "failing")
    /\ g' = [g EXCEPT !.st = "glaciered", !.old = FALSE]
    /\ Go(Sweep, "candidates")
    /\ UNCHANGED <<row, notice, outbox, mishaps, history>>

\* A candidate of _claim_archive_candidates; the guards passed.
Candidate(r) ==
    /\ task[Sweep].at = "candidates"
    /\ row[r].st = "live" /\ row[r].at = "archive"
    /\ task' = [task EXCEPT ![Sweep] = [at |-> "copy", arg |-> r]]
    /\ UNCHANGED <<row, notice, g, outbox, mishaps, history>>

\* The guards refuse, or the candidates are done.
EndSweep ==
    /\ task[Sweep].at = "candidates"
    /\ Go(Sweep, "idle")
    /\ UNCHANGED <<row, notice, g, outbox, mishaps, history>>

------------------------------------------------------------------------------
(* What a person asks for.                                                   *)

\* Move to the glacier, on a mail of the list or of a list gone stale.
AskMove(c, r) ==
    /\ task[c].at = "idle"
    /\ row[r].st \in Shown
    /\ task' = [task EXCEPT ![c] = [at |-> "copy", arg |-> r]]
    /\ UNCHANGED <<row, notice, g, outbox, mishaps, history>>

\* start_restore reads the row ...
AskRestore(c) ==
    /\ At(c, "idle")
    /\ g.visible /\ g.st = "glaciered" /\ g.raw = "whole"
    /\ \E a \in Appends : outbox[a].st = "unused"
    /\ task' = [task EXCEPT ![c] = [at |-> "appending", arg |-> g.mail]]
    /\ UNCHANGED <<row, notice, g, outbox, mishaps, history>>

\* ... and writes the append and the row, whatever became of it.
StartRestore(c, a) ==
    /\ task[c].at \in {"appending", "orphaned"}
    /\ outbox[a].st = "unused"
    /\ outbox' = [outbox EXCEPT ![a] = [st |-> "pending", mail |-> task[c].arg]]
    /\ g' = IF task[c].at = "orphaned" THEN g
            ELSE [g EXCEPT !.st = "restoring", !.append = a, !.old = FALSE]
    /\ Rest(c)
    /\ UNCHANGED <<row, notice, mishaps, history>>

\* The confirmed permanent delete of a mail in the glacier's list: its row is
\* looked up in one transaction ...
AskDelete(c) ==
    /\ At(c, "idle")
    /\ g.visible
    /\ task' = [task EXCEPT ![c] = [at |-> "deleting", arg |-> g.mail]]
    /\ UNCHANGED <<row, notice, g, outbox, mishaps, history>>

\* ... and emptied in the next, whatever mail it holds by then.
DeleteForGood(c) ==
    /\ At(c, "deleting")
    /\ g' = [g EXCEPT !.st = "expunged", !.visible = FALSE, !.raw = "none",
                       !.old = FALSE]
    /\ \/ g.mail = task[c].arg /\ destroyed' = destroyed \cup {g.mail} /\ UNCHANGED overtaken
       \/ g.mail # task[c].arg /\ Note(FALSE, g.mail)
    /\ Rest(c)
    /\ UNCHANGED <<row, notice, outbox, mishaps>>

\* A request dies; an open transaction is rolled back.
DropRequest(c) ==
    /\ task[c].at # "idle"
    /\ task' = [task EXCEPT ![c] = [at |-> "idle", arg |-> None]]
    /\ UNCHANGED <<row, notice, g, outbox, mishaps, history>>

CrashSweep ==
    /\ task[Sweep].at # "idle"
    /\ Mishap
    /\ task' = [task EXCEPT ![Sweep] = [at |-> "idle", arg |-> None]]
    /\ UNCHANGED <<row, notice, g, outbox, history>>

------------------------------------------------------------------------------
(* PostIMAP and the world.                                                   *)

\* The queued delete reaches the server.
DeleteLands(r) ==
    /\ row[r].st = "marked" /\ notice[r] # "open"
    /\ Put(r, "gone")
    /\ UNCHANGED <<notice, g, outbox, task, mishaps, history>>

\* The server refuses it: first the notification, then the row is put back.
DeleteFails(r) ==
    /\ Mishap
    /\ row[r].st = "marked" /\ notice[r] # "open"
    /\ notice' = [notice EXCEPT ![r] = "open"]
    /\ UNCHANGED <<row, g, outbox, task, history>>

PutBack(r) ==
    /\ row[r].st = "marked" /\ notice[r] = "open"
    /\ Put(r, "live")
    /\ notice' = [notice EXCEPT ![r] = "reverted"]
    /\ UNCHANGED <<g, outbox, task, mishaps, history>>

\* A UIDVALIDITY resync deletes the row; the mail gets a new one.
Resync(r, s) ==
    /\ Mishap
    /\ row[r].st = "live" /\ row[s].st = "fresh"
    /\ row' = [row EXCEPT ![r].st = "gone", ![s] = [row[r] EXCEPT !.st = "unseen"]]
    /\ UNCHANGED <<notice, g, outbox, task, history>>

Mirror(s) ==
    /\ row[s].st = "unseen"
    /\ Put(s, "live")
    /\ UNCHANGED <<notice, g, outbox, task, mishaps, history>>

\* A person moves the mail to the other folder (bound: and not back); its uid is
\* unknown until the server has done it.
MoveMail(r) ==
    /\ row[r].st = "live" /\ row[r].at = "archive"
    /\ row' = [row EXCEPT ![r].st = "moving", ![r].at = "inbox"]
    /\ UNCHANGED <<notice, g, outbox, task, mishaps, history>>

MoveLands(r) ==
    /\ row[r].st = "moving"
    /\ Put(r, "live")
    /\ UNCHANGED <<notice, g, outbox, task, mishaps, history>>

AppendSent(a, s) ==
    /\ outbox[a].st = "pending" /\ row[s].st = "fresh"
    /\ outbox' = [outbox EXCEPT ![a].st = "sent"]
    /\ row' = [row EXCEPT ![s] = [st |-> "unseen", mail |-> outbox[a].mail, at |-> "inbox"]]
    /\ UNCHANGED <<notice, g, task, mishaps, history>>

AppendDies(a) ==
    /\ Mishap
    /\ outbox[a].st = "pending"
    /\ outbox' = [outbox EXCEPT ![a].st = "dead"]
    /\ UNCHANGED <<row, notice, g, task, history>>

\* The stored bytes are damaged between the copy and its verification.
Damage ==
    /\ Mishap
    /\ g.st = "copied" /\ g.raw = "whole"
    /\ g' = [g EXCEPT !.raw = "damaged"]
    /\ UNCHANGED <<row, notice, outbox, task, history>>

TimePasses ==
    /\ g.st \in {"removing", "restoring"} /\ ~g.old
    /\ g' = [g EXCEPT !.old = TRUE]
    /\ UNCHANGED <<row, notice, outbox, task, mishaps, history>>

------------------------------------------------------------------------------
MoveStep(p) ==
    \/ CopyMessage(p) \/ ReadDuplicate(p) \/ ExpungeDuplicate(p)
    \/ VerifyMessage(p) \/ ExpungeMessage(p) \/ ReadOrigin(p) \/ WriteOrigin(p)

SweepStep ==
    \/ ReadRemoval \/ ConfirmRemoval \/ WithdrawCopy
    \/ ProgressCopied \/ ProgressVerified
    \/ ReadRestore \/ ConfirmRestore \/ ReadStale \/ FailRestore

RequestStep(c) ==
    \/ \E r \in Rows : AskMove(c, r)
    \/ AskRestore(c)
    \/ \E a \in Appends : StartRestore(c, a)
    \/ AskDelete(c) \/ DeleteForGood(c)
    \/ DropRequest(c)

ServerStep ==
    \/ \E r \in Rows : \/ DeleteLands(r) \/ DeleteFails(r) \/ PutBack(r)
                       \/ Mirror(r) \/ MoveMail(r) \/ MoveLands(r)
    \/ \E r, s \in Rows : Resync(r, s)
    \/ \E a \in Appends : AppendDies(a) \/ \E s \in Rows : AppendSent(a, s)

GlacierNext ==
    \/ \E p \in Actors : MoveStep(p)
    \/ StartSweep \/ SweepStep \/ EndSweep \/ CrashSweep
    \/ \E r \in Rows : Candidate(r)
    \/ \E c \in Calls : RequestStep(c)
    \/ ServerStep \/ Damage \/ TimePasses

\* The timer runs the sweep and a tick works through a finite list; time passes.
\* Nothing is assumed of the requests or of PostIMAP.
GlacierFairness ==
    /\ WF_glacierVars(StartSweep)
    /\ WF_glacierVars(SweepStep)
    /\ WF_glacierVars(MoveStep(Sweep))
    /\ SF_glacierVars(EndSweep)
    /\ WF_glacierVars(TimePasses)

GlacierSpec == GlacierInit /\ [][GlacierNext]_glacierVars
GlacierFairSpec == GlacierSpec /\ GlacierFairness

------------------------------------------------------------------------------
Born == {m \in Mails : \E r \in Rows : row[r].mail = m}

\* No other raw source has m's Message-ID, size and date: the guard of the expunge
\* tells m from every other mail.
Alone(m) == \A n \in Mails : Envelope[n] = Envelope[m] => n = m

\* resolve_duplicate calls its expunge provably lossless, and the module says a
\* mail is on the server or in the glacier at every moment: unless a person
\* deleted it for good, the server holds it or the glacier does, bytes intact.
NeverLost ==
    \A m \in Born \ destroyed : Holders(m) # {} \/ (g.mail = m /\ g.raw = "whole")

\* The same of every mail but those that one of the four writes was about which
\* can take a mail's last copy (the expunge of a duplicate, the withdrawal of a
\* copy or the choice of its origin, the tombstone of a restore, the delete of a
\* row that was refilled) after what its unlocked read saw had ceased to hold.
\* Copy, verify, expunge and put-back lose nothing, mishaps and all.
LostOnlyIfOvertaken ==
    \A m \in Born \ (destroyed \cup overtaken) :
        Alone(m) => Holders(m) # {} \/ (g.mail = m /\ g.raw = "whole")

\* What the glacier takes off the server it holds at that moment, verified: a
\* row is marked only while the copy of its very bytes is whole and out of
\* "copied", however the mirror's rows were renamed in between; only a write
\* that was overtaken marks another.
ExpungeIsCovered ==
    [][\A r \in Rows :
         /\ row[r].st # "marked" /\ row'[r].st = "marked"
         /\ Alone(row[r].mail) /\ row[r].mail \notin overtaken'
         => g'.mail = row[r].mail /\ g'.raw = "whole" /\ g'.st # "copied"]_glacierVars

\* A restore of bytes the glacier holds ends, confirmed or for a retry, even
\* when PostIMAP never answers.
RestoreEnds ==
    g.st = "restoring" /\ g.raw = "whole" ~> g.st # "restoring"

\* The comment on visible_at: a message is never in neither list.  A mail the
\* glacier has taken over is in its list, unless the server still holds it.
InSomeList ==
    g.st \in {"removing", "glaciered", "restoring"} =>
        g.visible \/ Holders(g.mail) # {}
==============================================================================
