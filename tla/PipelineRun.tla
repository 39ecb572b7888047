----------------------------- MODULE PipelineRun -----------------------------
(***************************************************************************)
(* One run of the message pipeline: pipeline/runner.py and effects.py over *)
(* the definition pipeline/revisions.py starts an installation with -- the *)
(* classify stage, then move-spam -- together with the person reading the  *)
(* same mail and the feedback listener of spam/, whose dispatch workers    *)
(* take the events of the mail's moves in any order.                       *)
(*                                                                         *)
(* The row is claimed through WorkQueue.  Each await of the runner ends a  *)
(* step, so a worker that lost its claim runs on beside the worker that    *)
(* has it now.  A definition that is disabled is not modelled.             *)
(***************************************************************************)
EXTENDS WorkQueue

CONSTANTS
    run,            \* the pipeline_runs row of the mail
    MaxUserActs     \* bound: what the person does with the mail

ASSUME PipelineRunAssumption == run \in Items /\ MaxUserActs \in Nat

VARIABLES
    task,           \* task[w]: the coroutine of worker w
    trace,          \* who wrote the row's trace columns, and with what result
    folder,         \* where the mail is
    ai,             \* the verdict row of source 'ai'
    human,          \* the latest verdict row of source 'user_feedback'
    moved,          \* moved[m]: folder-move events m no dispatch worker took yet
    corrections,    \* corrections[v]: dispatch workers about to record verdict v
    rulings,        \* rulings[r]: a person's explicit rulings in progress
    said,           \* history: verdicts the person expressed, in words or by filing
    issued,         \* history: verdict.issued events of source 'ai'
    acts            \* what the person has done so far (bounded)

mailVars == <<folder, ai, human, moved, corrections, rulings, said, issued, acts>>
runVars == <<queueVars, task, trace, mailVars>>

Folders == {"inbox", "junk", "archive", "gone"}
Verdicts == {"spam", "ham"}
NoVerdict == "none"
Steps == {"idle", "begin", "classify", "record", "move", "trace", "complete", "blame", "fail"}

\* A coroutine that holds no row.  Of the others: tries is the attempt
\* number the claim returned; seen, known and began are the folder, the
\* existence of an AI verdict and the verdict in force as Begin read them;
\* verdict is RunContext.verdict.
Idle == [pc |-> "idle", tries |-> 0, seen |-> "inbox", known |-> FALSE,
         began |-> NoVerdict, verdict |-> NoVerdict, answer |-> NoVerdict, result |-> "done"]

\* The event of a move does not say who moved.
Moves == [from : Folders, to : Folders]

\* moves: the ruling files the mail, by the verdict it read before its own.
Rulings == [says : Verdicts, moves : BOOLEAN, recorded : BOOLEAN]

RunTypeOK ==
    /\ TypeOK
    /\ task \in [Workers -> [pc : Steps, tries : 0..MaxAttempts, seen : Folders, known : BOOLEAN,
                             began : Verdicts \cup {NoVerdict},
                             verdict : Verdicts \cup {NoVerdict},
                             answer : Verdicts \cup {NoVerdict}, result : {"done", "skipped"}]]
    /\ trace \in [by : Workers \cup {NoWorker}, result : {"done", "skipped", "failed_stage"}]
    /\ folder \in Folders
    /\ {ai, human} \subseteq Verdicts \cup {NoVerdict}
    /\ moved \in [Moves -> Nat]
    /\ corrections \in [Verdicts -> Nat]
    /\ rulings \in [Rulings -> Nat]
    /\ said \subseteq Verdicts
    /\ issued \in Nat
    /\ acts \in 0..MaxUserActs

RunInit ==
    /\ Init
    /\ task = [w \in Workers |-> Idle]
    /\ trace = [by |-> NoWorker, result |-> "done"]
    /\ folder = "inbox"
    /\ ai = NoVerdict
    /\ human = NoVerdict
    /\ moved = [m \in Moves |-> 0]
    /\ corrections = [v \in Verdicts |-> 0]
    /\ rulings = [r \in Rulings |-> 0]
    /\ said = {}
    /\ issued = 0
    /\ acts = 0

\* A user_feedback verdict wins over the classifier's.
CurrentVerdict == IF human # NoVerdict THEN human ELSE ai

\* Worker w goes on to step pc.
Go(w, pc) == task' = [task EXCEPT ![w].pc = pc]

\* move_message: the mail changes folders and PostIMAP tells the listener.
MoveTo(to) ==
    /\ folder' = to
    /\ moved' = [moved EXCEPT ![[from |-> folder, to |-> to]] = @ + 1]

\* A call guarded by the claim does nothing once the claim is lost.
IfOwned(w, A) == IF run \in Owned(w) THEN A ELSE UNCHANGED queueVars

------------------------------------------------------------------------------
ClaimRun(w) ==
    /\ task[w].pc = "idle"
    /\ ClaimBatch(w, {run})
    /\ task' = [task EXCEPT ![w] = [Idle EXCEPT !.pc = "begin", !.tries = attempts[run] + 1]]
    /\ UNCHANGED <<trace, mailVars>>

\* _execute_run up to the first stage: the mail, the verdict in force and
\* whether an AI verdict exists are read once.
Begin(w) ==
    /\ task[w].pc = "begin"
    /\ task' = [task EXCEPT ![w] =
                  IF folder = "inbox"
                  THEN [@ EXCEPT !.pc = "classify", !.seen = folder, !.known = (ai # NoVerdict),
                                 !.began = CurrentVerdict, !.verdict = CurrentVerdict]
                  ELSE [@ EXCEPT !.pc = "trace", !.result = "skipped"]]
    /\ UNCHANGED <<queueVars, trace, mailVars>>

\* ClassifyStage.execute: no call for a mail that has its verdict.
SkipClassify(w) ==
    /\ task[w].pc = "classify"
    /\ task[w].known
    /\ Go(w, "move")
    /\ UNCHANGED <<queueVars, trace, mailVars>>

CallModel(w) ==
    /\ task[w].pc = "classify"
    /\ ~task[w].known
    /\ \E a \in Verdicts : task' = [task EXCEPT ![w].answer = a, ![w].pc = "record"]
    /\ UNCHANGED <<queueVars, trace, mailVars>>

\* The provider suspended or throttles: back to pending, attempt refunded,
\* next_attempt_at pushed.  (Two statements; nothing can tell them apart.)
StageUnavailable(w) ==
    /\ task[w].pc = "classify"
    /\ ~task[w].known
    /\ IfOwned(w, ReleaseUntouched(w, run))
    /\ task' = [task EXCEPT ![w] = Idle]
    /\ UNCHANGED <<trace, mailVars>>

\* _retry_transient.
StageTransient(w) ==
    /\ task[w].pc = "classify"
    /\ ~task[w].known
    /\ IfOwned(w, IF task[w].tries >= MaxAttempts
                  THEN Fail(w, run)
                  ELSE \E d \in 0..MaxWait : Retry(w, run, d))
    /\ task' = [task EXCEPT ![w] = Idle]
    /\ UNCHANGED <<trace, mailVars>>

\* StageMisconfigured: a refusal, or a move target that does not resolve.
StageMisconfigured(w) ==
    /\ \/ task[w].pc = "classify" /\ ~task[w].known
       \/ task[w].pc = "move" /\ task[w].verdict = "spam"
    /\ Go(w, "blame")
    /\ UNCHANGED <<queueVars, trace, mailVars>>

\* Mutant: the verdict is projected whether or not its insert landed.
ProjectAlways(w) ==
    /\ task[w].pc = "record"
    /\ task' = [task EXCEPT ![w].verdict = task[w].answer, ![w].pc = "move"]
    /\ IF ai = NoVerdict
       THEN ai' = task[w].answer /\ issued' = issued + 1
       ELSE UNCHANGED <<ai, issued>>
    /\ UNCHANGED <<queueVars, trace, folder, human, moved, corrections, rulings, said, acts>>

\* RecordVerdict: ON CONFLICT DO NOTHING; the answer becomes the run's
\* verdict, and is announced, only if its row was inserted.
RecordVerdict(w) ==
    /\ task[w].pc = "record"
    /\ IF ai = NoVerdict
       THEN /\ ai' = task[w].answer
            /\ issued' = issued + 1
            /\ task' = [task EXCEPT ![w].verdict = task[w].answer, ![w].pc = "move"]
       ELSE /\ Go(w, "move")
            /\ UNCHANGED <<ai, issued>>
    /\ UNCHANGED <<queueVars, trace, folder, human, moved, corrections, rulings, said, acts>>

\* Mutant: the move is not guarded by the folder the run saw.
MoveUnguarded(w) ==
    /\ task[w].pc = "move"
    /\ IF task[w].verdict = "spam" /\ folder # "gone"
       THEN MoveTo("junk")
       ELSE UNCHANGED <<folder, moved>>
    /\ Go(w, "trace")
    /\ UNCHANGED <<queueVars, trace, ai, human, corrections, rulings, said, issued, acts>>

\* The move-spam stage: move_message_guarded.
MoveSpam(w) ==
    /\ task[w].pc = "move"
    /\ IF task[w].verdict = "spam" /\ folder = task[w].seen
       THEN MoveTo("junk")
       ELSE UNCHANGED <<folder, moved>>
    /\ Go(w, "trace")
    /\ UNCHANGED <<queueVars, trace, ai, human, corrections, rulings, said, issued, acts>>

\* _finish_ok: the trace columns first, WHERE id = :id and nothing more.
WriteTrace(w) ==
    /\ task[w].pc = "trace"
    /\ trace' = [by |-> w, result |-> task[w].result]
    /\ Go(w, "complete")
    /\ UNCHANGED <<queueVars, mailVars>>

CompleteRun(w) ==
    /\ task[w].pc = "complete"
    /\ IfOwned(w, Complete(w, run))
    /\ task' = [task EXCEPT ![w] = Idle]
    /\ UNCHANGED <<trace, mailVars>>

\* _finish_failed: failed_stage first, WHERE id = :id.
BlameStage(w) ==
    /\ task[w].pc = "blame"
    /\ trace' = [by |-> w, result |-> "failed_stage"]
    /\ Go(w, "fail")
    /\ UNCHANGED <<queueVars, mailVars>>

FailRun(w) ==
    /\ task[w].pc = "fail"
    /\ IfOwned(w, Fail(w, run))
    /\ task' = [task EXCEPT ![w] = Idle]
    /\ UNCHANGED <<trace, mailVars>>

\* The process dies between any two steps; the row waits out its lease.
Die(w) ==
    /\ task[w].pc # "idle"
    /\ task' = [task EXCEPT ![w] = Idle]
    /\ UNCHANGED <<queueVars, trace, mailVars>>

\* The lease runs out and the reconciliation timer takes the row back.
LoseClaims == ReclaimExpired /\ UNCHANGED <<task, trace, mailVars>>
Time == Tick /\ UNCHANGED <<task, trace, mailVars>>

------------------------------------------------------------------------------
Act == acts < MaxUserActs /\ acts' = acts + 1

\* The person files the mail.  Filed in another mail client it leaves under
\* its old id, as a deleted mail does: "gone".
FileMail(to) ==
    /\ Act
    /\ folder \notin {to, "gone"}
    /\ IF to = "gone" THEN folder' = to /\ UNCHANGED moved ELSE MoveTo(to)
    /\ said' = said \cup (IF to = "junk" THEN {"spam"}
                          ELSE IF folder = "junk" /\ to # "gone" THEN {"ham"} ELSE {})
    /\ UNCHANGED <<queueVars, task, trace, ai, human, corrections, rulings, issued>>

\* apply_human_ruling reads the verdict in force, records its own whatever
\* that said, and moves the mail: three transactions.  Spam goes to Junk,
\* not-spam back to the inbox if the verdict it read said spam.
AskRuling(v) ==
    /\ Act
    /\ folder # "gone"
    /\ LET r == [says |-> v, moves |-> "spam" \in {v, CurrentVerdict}, recorded |-> FALSE]
       IN rulings' = [rulings EXCEPT ![r] = @ + 1]
    /\ said' = said \cup {v}
    /\ UNCHANGED <<queueVars, task, trace, folder, ai, human, moved, corrections, issued>>

\* An insert that fails is only logged.
RecordRuling(r) ==
    /\ rulings[r] > 0 /\ ~r.recorded
    /\ human' \in {human, r.says}
    /\ rulings' = IF r.moves
                  THEN [rulings EXCEPT ![r] = @ - 1, ![[r EXCEPT !.recorded = TRUE]] = @ + 1]
                  ELSE [rulings EXCEPT ![r] = @ - 1]
    /\ UNCHANGED <<queueVars, task, trace, folder, ai, moved, corrections, said, issued, acts>>

MoveRuled(r) ==
    /\ rulings[r] > 0 /\ r.recorded
    /\ LET to == IF r.says = "spam" THEN "junk" ELSE "inbox"
       IN folder \notin {to, "gone"} /\ MoveTo(to)
    /\ rulings' = [rulings EXCEPT ![r] = @ - 1]
    /\ UNCHANGED <<queueVars, task, trace, ai, human, corrections, said, issued, acts>>

\* The rest of a ruling is left: the mail is there already or is not where the
\* client last saw it, the account has no such folder, or the process dies.
LeaveRuling(r) ==
    /\ rulings[r] > 0
    /\ rulings' = [rulings EXCEPT ![r] = @ - 1]
    /\ UNCHANGED <<queueVars, task, trace, folder, ai, human, moved, corrections, said, issued, acts>>

\* What a move corrects: into Junk, or out of it to anywhere but Trash, when
\* that contradicts the verdict in force.
Corrects(m) ==
    CASE m.to = "junk" /\ CurrentVerdict = "ham" -> {"spam"}
      [] m.to # "junk" /\ m.from = "junk" /\ CurrentVerdict = "spam" -> {"ham"}
      [] OTHER -> {}

\* SpamFeedbackListener.handle_message_event reads the verdict in force ...
HandleMove(m) ==
    /\ moved[m] > 0
    /\ moved' = [moved EXCEPT ![m] = @ - 1]
    /\ corrections' = [v \in Verdicts |-> corrections[v] + (IF v \in Corrects(m) THEN 1 ELSE 0)]
    /\ UNCHANGED <<queueVars, task, trace, folder, ai, human, rulings, said, issued, acts>>

\* ... and records the correction in a transaction of its own, or fails to.
RecordFeedback(v) ==
    /\ corrections[v] > 0
    /\ corrections' = [corrections EXCEPT ![v] = @ - 1]
    /\ human' \in {human, v}
    /\ UNCHANGED <<queueVars, task, trace, folder, ai, moved, rulings, said, issued, acts>>

\* An event of a listener's gap, or one its full queue has no room for.
LoseMove(m) ==
    /\ moved[m] > 0
    /\ moved' = [moved EXCEPT ![m] = @ - 1]
    /\ UNCHANGED <<queueVars, task, trace, folder, ai, human, corrections, rulings, said, issued, acts>>

RunStep(w) ==
    \/ ClaimRun(w) \/ Begin(w) \/ SkipClassify(w) \/ CallModel(w)
    \/ StageUnavailable(w) \/ StageTransient(w) \/ StageMisconfigured(w)
    \/ RecordVerdict(w) \/ MoveSpam(w) \/ WriteTrace(w) \/ CompleteRun(w)
    \/ BlameStage(w) \/ FailRun(w) \/ Die(w)

Person ==
    \/ \E f \in Folders : FileMail(f)
    \/ \E v \in Verdicts : AskRuling(v)
    \/ \E r \in Rulings : RecordRuling(r) \/ MoveRuled(r) \/ LeaveRuling(r)

Listener ==
    \/ \E m \in Moves : HandleMove(m) \/ LoseMove(m)
    \/ \E v \in Verdicts : RecordFeedback(v)

RunNext ==
    \/ \E w \in Workers : RunStep(w)
    \/ Person
    \/ Listener
    \/ LoseClaims
    \/ Time

RunSpec == RunInit /\ [][RunNext]_runVars

------------------------------------------------------------------------------
\* "Never classifying the same message twice" (architecture.md): however
\* many workers end up running the mail at once, the first AI verdict stands
\* and is the only one announced.
OneVerdict == issued = (IF ai = NoVerdict THEN 0 ELSE 1)

\* A worker whose own verdict lost the race to another's acts on neither: a
\* run files mail as spam only on the verdict that is stored, or on the one in
\* force when it began; and whatever the person did with the mail since the run
\* read it, only mail that is still in the inbox is filed.
MovesOnStoredVerdict ==
    [][\A w \in Workers :
          (MoveSpam(w) /\ folder' # folder) =>
              "spam" \in {ai, task[w].began} /\ folder = "inbox"]_runVars

\* spam/feedback.py: a move is recorded as a correction when it contradicts
\* the stored verdict, which "is something the classifier can never do to
\* what it just wrote in the same run": while the person has said nothing of
\* the mail, neither in words nor by filing it into Junk or out of it, no
\* verdict of theirs is recorded, however many runs file it at once.
NoFeedbackUnprompted == said = {} => human = NoVerdict

\* spam/processor.py: a move-spam effect fires "exactly this same update
\* event", and the contradiction check "is what makes that a no-op rather than
\* a spurious correction": no verdict of the person's but one they expressed.
NoSpuriousCorrection == human \in said \cup {NoVerdict}
==============================================================================
