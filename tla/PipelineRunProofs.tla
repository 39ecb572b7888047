-------------------------- MODULE PipelineRunProofs --------------------------
(***************************************************************************)
(* Proofs about a pipeline run, for any workers that race for it, any      *)
(* number of acts of the person and any order of the listener's events.    *)
(* That the first verdict stands is what everything else rests on: a run   *)
(* that acts on "spam" acts on a verdict that cannot change any more.      *)
(***************************************************************************)
EXTENDS PipelineRun, WorkQueueProofs

MaybeVerdict == Verdicts \cup {NoVerdict}

TaskType == [pc : Steps, tries : 0..MaxAttempts, seen : Folders, known : BOOLEAN,
             began : MaybeVerdict, verdict : MaybeVerdict, answer : MaybeVerdict,
             result : {"done", "skipped"}]

\* The types of what a run has beside the queue's columns.
RunColumns ==
    /\ task \in [Workers -> TaskType]
    /\ trace \in [by : Workers \cup {NoWorker}, result : {"done", "skipped", "failed_stage"}]
    /\ folder \in Folders
    /\ ai \in MaybeVerdict
    /\ human \in MaybeVerdict
    /\ moved \in [Moves -> Nat]
    /\ corrections \in [Verdicts -> Nat]
    /\ rulings \in [Rulings -> Nat]
    /\ said \subseteq Verdicts
    /\ issued \in Nat
    /\ acts \in 0..MaxUserActs

\* What a worker carries: an answer while it records one, the inbox as the folder
\* it saw, and "spam" only where it is stored or was in force when it began.
SpamIsStored ==
    \A w \in Workers :
        /\ task[w].seen = "inbox"
        /\ task[w].pc = "record" => task[w].answer \in Verdicts
        /\ task[w].verdict = "spam" => "spam" \in {ai, task[w].began}

\* A mail the person said nothing of: what was in force when a run began was the
\* AI's, the moves into Junk that the listener has yet to see are those of runs that
\* found it spam, none leads out of Junk, and no dispatch worker and no request has a
\* verdict of a person's to record.
SilentPerson ==
    said = {} =>
        /\ human = NoVerdict
        /\ \A w \in Workers : task[w].began = "spam" => ai = "spam"
        /\ \A m \in Moves : moved[m] > 0 =>
              IF m.to = "junk" THEN ai = "spam" ELSE m.from # "junk"
        /\ \A v \in Verdicts : corrections[v] = 0
        /\ \A r \in Rulings : rulings[r] = 0

RunInv ==
    /\ IInv
    /\ RunColumns
    /\ OneVerdict
    /\ SpamIsStored
    /\ SilentPerson

\* A mail in the inbox and a run nobody has claimed.
LEMMA InitRunInv == RunInit => RunInv
<1> SUFFICES ASSUME RunInit PROVE RunInv
    OBVIOUS
<1>1. IInv
    BY InitIInv DEF RunInit
<1>2. RunColumns
    BY PipelineRunAssumption, WorkQueueAssumption
       DEF RunInit, RunColumns, TaskType, Idle, Steps, Folders, MaybeVerdict, NoVerdict
<1>3. OneVerdict /\ SpamIsStored /\ SilentPerson
    BY DEF RunInit, OneVerdict, SpamIsStored, SilentPerson, Idle, NoVerdict
<1> QED BY <1>1, <1>2, <1>3 DEF RunInv

------------------------------------------------------------------------------
\* Every step leaves the queue alone or is a step of the engine's callers.
LEMMA RunStepIsQueueStep ==
    ASSUME [RunNext]_runVars
    PROVE  [Next]_queueVars
<1> USE PipelineRunAssumption
<1>1. ASSUME NEW w \in Workers, RunStep(w) PROVE [Next]_queueVars
    <2>1. CASE ClaimRun(w)
        BY <2>1 DEF ClaimRun, Next, CallerStep
    <2>2. CASE StageUnavailable(w) \/ CompleteRun(w) \/ FailRun(w)
        BY <2>2 DEF StageUnavailable, CompleteRun, FailRun, IfOwned, Next, CallerStep
    <2>3. CASE StageTransient(w)
        <3>1. Fail(w, run) \/ (\E d \in 0..MaxWait : Retry(w, run, d)) \/ UNCHANGED queueVars
            BY <2>3 DEF StageTransient, IfOwned
        <3> QED BY <3>1 DEF Next, CallerStep
    <2>4. CASE \/ Begin(w) \/ SkipClassify(w) \/ CallModel(w) \/ StageMisconfigured(w)
               \/ RecordVerdict(w) \/ MoveSpam(w) \/ WriteTrace(w) \/ BlameStage(w) \/ Die(w)
        BY <2>4 DEF Begin, SkipClassify, CallModel, StageMisconfigured, RecordVerdict, MoveSpam,
                    WriteTrace, BlameStage, Die
    <2> QED BY <1>1, <2>1, <2>2, <2>3, <2>4 DEF RunStep
<1>2. CASE Person \/ Listener
    BY <1>2 DEF Person, FileMail, AskRuling, RecordRuling, MoveRuled, LeaveRuling,
                Listener, HandleMove, RecordFeedback, LoseMove
<1>3. CASE LoseClaims \/ Time
    BY <1>3 DEF LoseClaims, Time, Next
<1>4. CASE UNCHANGED runVars
    BY <1>4 DEF runVars
<1> QED BY <1>1, <1>2, <1>3, <1>4 DEF RunNext

\* A step of worker w that touches neither the mail nor its verdicts.
LEMMA WorkerStepKeeps ==
    ASSUME RunInv, NEW w \in Workers, [Next]_queueVars, UNCHANGED mailVars,
           trace' \in [by : Workers \cup {NoWorker}, result : {"done", "skipped", "failed_stage"}],
           task' = [task EXCEPT ![w] = task'[w]], task'[w] \in TaskType,
           task'[w].seen = "inbox",
           task'[w].pc = "record" => task'[w].answer \in Verdicts,
           \/ task'[w].verdict = task[w].verdict /\ task'[w].began = task[w].began
           \/ task'[w].verdict = CurrentVerdict /\ task'[w].began = CurrentVerdict
           \/ task'[w].verdict = NoVerdict /\ task'[w].began = NoVerdict
    PROVE  RunInv'
<1> USE DEF RunInv, mailVars
<1>0. \A v \in Workers \ {w} : task'[v] = task[v]
    BY DEF RunColumns
<1>1. IInv'
    BY NextKeepsIInv
<1>2. RunColumns'
    BY DEF RunColumns
<1>3. OneVerdict'
    BY DEF OneVerdict
<1>4. SpamIsStored'
    BY <1>0 DEF SpamIsStored, NoVerdict
<1>5. SilentPerson'
    BY <1>0 DEF SilentPerson, CurrentVerdict, NoVerdict
<1> QED BY <1>1, <1>2, <1>3, <1>4, <1>5

\* The claim, the calls of the model and all the ways a run ends.
LEMMA CarryingOnKeeps ==
    ASSUME RunInv, NEW w \in Workers, RunStep(w), ~RecordVerdict(w), ~MoveSpam(w)
    PROVE  RunInv'
<1> USE PipelineRunAssumption, WorkQueueAssumption
<1>0. task \in [Workers -> TaskType] /\ task[w].seen = "inbox" /\ IInv /\ RunColumns
    BY DEF RunInv, RunColumns, SpamIsStored
<1>1. [Next]_queueVars
    BY RunStepIsQueueStep DEF RunNext
<1>2. UNCHANGED mailVars
    BY DEF RunStep, ClaimRun, Begin, SkipClassify, CallModel, StageUnavailable, StageTransient,
           StageMisconfigured, WriteTrace, CompleteRun, BlameStage, FailRun, Die
<1>3. trace' \in [by : Workers \cup {NoWorker}, result : {"done", "skipped", "failed_stage"}]
    <2>1. CASE WriteTrace(w) \/ BlameStage(w)
        BY <1>0, <2>1 DEF WriteTrace, BlameStage, TaskType
    <2>2. CASE UNCHANGED trace
        BY <1>0, <2>2 DEF RunColumns
    <2> QED BY <2>1, <2>2 DEF RunStep, ClaimRun, Begin, SkipClassify, CallModel,
                              StageUnavailable, StageTransient, StageMisconfigured, CompleteRun,
                              FailRun, Die
<1>4. CASE ClaimRun(w)
    <2>1. attempts[run] + 1 \in 0..MaxAttempts
        BY <1>0, <1>4 DEF ClaimRun, ClaimBatch, Batch, Claimable, IInv, TypeOK
    <2>2. /\ task' = [task EXCEPT ![w] = task'[w]] /\ task'[w] \in TaskType
          /\ task'[w].seen = "inbox" /\ task'[w].pc = "begin"
          /\ task'[w].verdict = NoVerdict /\ task'[w].began = NoVerdict
        BY <1>0, <1>4, <2>1 DEF ClaimRun, Idle, TaskType, Steps, Folders, MaybeVerdict
    <2> QED BY <1>1, <1>2, <1>3, <2>2, WorkerStepKeeps
<1>5. CASE Begin(w)
    <2>1. CurrentVerdict \in MaybeVerdict
        BY <1>0 DEF CurrentVerdict, RunColumns
    <2>2. /\ task' = [task EXCEPT ![w] = task'[w]] /\ task'[w] \in TaskType
          /\ task'[w].seen = "inbox" /\ task'[w].pc \in {"classify", "trace"}
          /\ \/ task'[w].verdict = task[w].verdict /\ task'[w].began = task[w].began
             \/ task'[w].verdict = CurrentVerdict /\ task'[w].began = CurrentVerdict
        BY <1>0, <1>5, <2>1 DEF Begin, TaskType, Steps, Folders
    <2> QED BY <1>1, <1>2, <1>3, <2>2, WorkerStepKeeps
<1>6. CASE CallModel(w)
    <2>1. /\ task' = [task EXCEPT ![w] = task'[w]] /\ task'[w] \in TaskType
          /\ task'[w].seen = "inbox" /\ task'[w].answer \in Verdicts
          /\ task'[w].verdict = task[w].verdict /\ task'[w].began = task[w].began
        BY <1>0, <1>6 DEF CallModel, TaskType, Steps, MaybeVerdict
    <2> QED BY <1>1, <1>2, <1>3, <2>1, WorkerStepKeeps
<1>7. CASE SkipClassify(w) \/ StageMisconfigured(w) \/ WriteTrace(w) \/ BlameStage(w)
    <2>1. /\ task' = [task EXCEPT ![w] = task'[w]] /\ task'[w] \in TaskType
          /\ task'[w].seen = "inbox" /\ task'[w].pc # "record"
          /\ task'[w].verdict = task[w].verdict /\ task'[w].began = task[w].began
        BY <1>0, <1>7
           DEF SkipClassify, StageMisconfigured, WriteTrace, BlameStage, Go, TaskType, Steps
    <2> QED BY <1>1, <1>2, <1>3, <2>1, WorkerStepKeeps
<1>8. CASE StageUnavailable(w) \/ StageTransient(w) \/ CompleteRun(w) \/ FailRun(w) \/ Die(w)
    <2>1. task' = [task EXCEPT ![w] = Idle]
        BY <1>8 DEF StageUnavailable, StageTransient, CompleteRun, FailRun, Die
    <2>2. /\ task' = [task EXCEPT ![w] = task'[w]] /\ task'[w] \in TaskType
          /\ task'[w].seen = "inbox" /\ task'[w].pc = "idle"
          /\ task'[w].verdict = NoVerdict /\ task'[w].began = NoVerdict
        BY <1>0, <2>1 DEF Idle, TaskType, Steps, Folders, MaybeVerdict
    <2> QED BY <1>1, <1>2, <1>3, <2>2, WorkerStepKeeps
<1> QED BY <1>4, <1>5, <1>6, <1>7, <1>8 DEF RunStep

\* RecordVerdict: only the first answer is stored, announced and acted on.
LEMMA RecordKeeps ==
    ASSUME RunInv, NEW w \in Workers, RecordVerdict(w)
    PROVE  RunInv'
<1> USE DEF RunInv
<1>1. [Next]_queueVars /\ UNCHANGED <<trace, folder, human, moved, corrections, rulings, said, acts>>
    BY DEF RecordVerdict
<1>2. task \in [Workers -> TaskType] /\ task[w].seen = "inbox" /\ task[w].answer \in Verdicts
    BY DEF RecordVerdict, RunColumns, SpamIsStored
<1>3. CASE ai = NoVerdict
    <2>1. ai' = task[w].answer /\ issued' = issued + 1
        BY <1>3 DEF RecordVerdict
    <2>2. /\ task' \in [Workers -> TaskType]
          /\ \A v \in Workers \ {w} : task'[v] = task[v]
          /\ task'[w].verdict = ai' /\ task'[w].began = task[w].began
          /\ task'[w].pc = "move" /\ task'[w].seen = "inbox"
        BY <1>2, <1>3, <2>1 DEF RecordVerdict, TaskType, Steps, MaybeVerdict
    <2>3. IInv' /\ RunColumns' /\ OneVerdict'
        BY <1>1, <1>2, <1>3, <2>1, <2>2, NextKeepsIInv
           DEF RunColumns, OneVerdict, MaybeVerdict, Verdicts, NoVerdict
    <2>4. SpamIsStored'
        BY <1>3, <2>1, <2>2 DEF SpamIsStored, NoVerdict
    <2>5. SilentPerson'
        BY <1>1, <1>3, <2>1, <2>2 DEF SilentPerson, NoVerdict
    <2> QED BY <2>3, <2>4, <2>5
<1>4. CASE ai # NoVerdict
    <2>1. /\ task' = [task EXCEPT ![w] = task'[w]] /\ task'[w] \in TaskType
          /\ task'[w].seen = "inbox" /\ task'[w].pc = "move"
          /\ task'[w].verdict = task[w].verdict /\ task'[w].began = task[w].began
        BY <1>2, <1>4 DEF RecordVerdict, Go, TaskType, Steps
    <2>2. UNCHANGED mailVars
        BY <1>1, <1>4 DEF RecordVerdict, mailVars
    <2> QED BY <1>1, <2>1, <2>2, WorkerStepKeeps DEF RunColumns
<1> QED BY <1>3, <1>4

\* The move-spam stage: while the person is silent, it moves what the AI found spam.
LEMMA MoveKeeps ==
    ASSUME RunInv, NEW w \in Workers, MoveSpam(w)
    PROVE  RunInv'
<1> USE DEF RunInv
<1>1. [Next]_queueVars /\ UNCHANGED <<trace, ai, human, corrections, rulings, said, issued, acts>>
    BY DEF MoveSpam
<1>2. task \in [Workers -> TaskType] /\ task[w].seen = "inbox"
    BY DEF RunColumns, SpamIsStored
<1>3. /\ task' = [task EXCEPT ![w] = task'[w]] /\ task'[w] \in TaskType
      /\ task'[w].seen = "inbox" /\ task'[w].pc = "trace"
      /\ task'[w].verdict = task[w].verdict /\ task'[w].began = task[w].began
    BY <1>2 DEF MoveSpam, Go, TaskType, Steps
<1>4. CASE UNCHANGED <<folder, moved>>
    BY <1>1, <1>3, <1>4, WorkerStepKeeps DEF mailVars, RunColumns
<1>5. CASE /\ task[w].verdict = "spam"
           /\ folder' = "junk"
           /\ moved' = [moved EXCEPT ![[from |-> folder, to |-> "junk"]] = @ + 1]
    <2>1. \A v \in Workers \ {w} : task'[v] = task[v]
        BY <1>2, <1>3
    <2>2. moved' \in [Moves -> Nat]
        <3>1. [from |-> folder, to |-> "junk"] \in Moves
            BY DEF RunColumns, Moves, Folders
        <3> QED BY <1>5, <3>1 DEF RunColumns
    <2>3. IInv' /\ RunColumns' /\ OneVerdict'
        BY <1>1, <1>3, <1>5, <2>2, NextKeepsIInv DEF RunColumns, OneVerdict, Folders
    <2>4. SpamIsStored'
        BY <1>1, <1>3, <2>1 DEF SpamIsStored
    <2>5. SilentPerson'
        <3> SUFFICES ASSUME said = {} PROVE SilentPerson'
            BY <1>1 DEF SilentPerson
        <3>1. ai = "spam"
            BY <1>5 DEF SpamIsStored, SilentPerson
        <3>2. \A m \in Moves : moved'[m] > 0 => m.to = "junk" \/ m.from # "junk"
            BY <1>5 DEF SilentPerson, RunColumns
        <3>3. \A v \in Workers : task'[v].began = task[v].began
            BY <1>3, <2>1
        <3> QED BY <1>1, <3>1, <3>2, <3>3 DEF SilentPerson
    <2> QED BY <2>3, <2>4, <2>5
<1> QED BY <1>4, <1>5 DEF MoveSpam, MoveTo

\* The person: filing and rulings, and what a ruling has left to do.
LEMMA PersonKeeps ==
    ASSUME RunInv, Person
    PROVE  RunInv'
<1> USE DEF RunInv
<1>1. [Next]_queueVars /\ UNCHANGED <<task, trace, ai, issued, corrections>>
    BY DEF Person, FileMail, AskRuling, RecordRuling, MoveRuled, LeaveRuling
<1>2. IInv' /\ OneVerdict' /\ SpamIsStored'
    BY <1>1, NextKeepsIInv DEF OneVerdict, SpamIsStored
<1>3. \A to \in Folders : MoveTo(to) => folder' \in Folders /\ moved' \in [Moves -> Nat]
    <2> SUFFICES ASSUME NEW to \in Folders, MoveTo(to)
                 PROVE  folder' \in Folders /\ moved' \in [Moves -> Nat]
        OBVIOUS
    <2>1. [from |-> folder, to |-> to] \in Moves
        BY DEF RunColumns, Moves
    <2> QED BY <2>1 DEF MoveTo, RunColumns
<1>4. \A r \in Rulings : r.says \in Verdicts /\ [r EXCEPT !.recorded = TRUE] \in Rulings
    BY DEF Rulings
<1>5. ASSUME NEW r \in Rulings, rulings[r] > 0 PROVE said # {}
    BY <1>5 DEF SilentPerson, RunColumns
<1>6. ASSUME NEW to \in Folders, FileMail(to) PROVE RunInv'
    <2>1. acts' \in 0..MaxUserActs /\ UNCHANGED <<human, rulings>>
        BY <1>6, PipelineRunAssumption DEF FileMail, Act, RunColumns
    <2>2. folder' \in Folders /\ moved' \in [Moves -> Nat]
        BY <1>3, <1>6 DEF FileMail, RunColumns
    <2>3. said' = said \cup (IF to = "junk" THEN {"spam"}
                             ELSE IF folder = "junk" /\ to # "gone" THEN {"ham"} ELSE {})
        BY <1>6 DEF FileMail
    <2>4. said' \subseteq Verdicts
        BY <2>3 DEF RunColumns, Verdicts
    <2>5. SilentPerson'
        <3> SUFFICES ASSUME said' = {} PROVE SilentPerson'
            BY DEF SilentPerson
        <3>1. said = {} /\ to # "junk" /\ (folder # "junk" \/ to = "gone")
            BY <2>3
        <3>2. \A m \in Moves : moved'[m] > 0 =>
                  moved[m] > 0 \/ (m.to = to /\ m.from = folder /\ to # "gone")
            BY <1>6 DEF FileMail, MoveTo, RunColumns
        <3> QED BY <1>1, <2>1, <3>1, <3>2 DEF SilentPerson
    <2> QED BY <1>1, <1>2, <2>1, <2>2, <2>4, <2>5 DEF RunColumns
<1>7. ASSUME NEW v \in Verdicts, AskRuling(v) PROVE RunInv'
    <2>1. acts' \in 0..MaxUserActs /\ said' \subseteq Verdicts /\ said' # {}
        BY <1>7, PipelineRunAssumption DEF AskRuling, Act, RunColumns
    <2>2. rulings' \in [Rulings -> Nat] /\ UNCHANGED <<folder, human, moved>>
        <3>1. PICK r : /\ r = [says |-> v, moves |-> "spam" \in {v, CurrentVerdict},
                                recorded |-> FALSE]
                       /\ rulings' = [rulings EXCEPT ![r] = @ + 1]
            BY <1>7 DEF AskRuling
        <3>2. r \in Rulings
            BY <3>1 DEF Rulings
        <3> QED BY <1>7, <3>1, <3>2 DEF AskRuling, RunColumns
    <2> QED BY <1>1, <1>2, <2>1, <2>2 DEF RunColumns, SilentPerson
<1>8. ASSUME NEW r \in Rulings, RecordRuling(r) PROVE RunInv'
    <2>1. said # {} /\ UNCHANGED <<said, acts, folder, moved>>
        BY <1>5, <1>8 DEF RecordRuling
    <2>2. rulings' \in [Rulings -> Nat] /\ human' \in MaybeVerdict
        BY <1>4, <1>8 DEF RecordRuling, RunColumns, MaybeVerdict
    <2> QED BY <1>1, <1>2, <2>1, <2>2 DEF RunColumns, SilentPerson
<1>9. ASSUME NEW r \in Rulings, MoveRuled(r) PROVE RunInv'
    <2>1. said # {} /\ UNCHANGED <<said, acts, human>>
        BY <1>5, <1>9 DEF MoveRuled
    <2>2. folder' \in Folders /\ moved' \in [Moves -> Nat]
        BY <1>3, <1>9 DEF MoveRuled, Folders
    <2>3. rulings' \in [Rulings -> Nat]
        BY <1>9 DEF MoveRuled, RunColumns
    <2> QED BY <1>1, <1>2, <2>1, <2>2, <2>3 DEF RunColumns, SilentPerson
<1>10. ASSUME NEW r \in Rulings, LeaveRuling(r) PROVE RunInv'
    <2>1. said # {} /\ UNCHANGED <<said, acts, human, folder, moved>>
        BY <1>5, <1>10 DEF LeaveRuling
    <2>2. rulings' \in [Rulings -> Nat]
        BY <1>10 DEF LeaveRuling, RunColumns
    <2> QED BY <1>1, <1>2, <2>1, <2>2 DEF RunColumns, SilentPerson
<1> QED BY <1>6, <1>7, <1>8, <1>9, <1>10 DEF Person

\* The listener; a move of the pipeline's contradicts nothing.
LEMMA ListenerKeeps ==
    ASSUME RunInv, Listener
    PROVE  RunInv'
<1> USE DEF RunInv
<1>1. [Next]_queueVars /\ UNCHANGED <<task, trace, folder, ai, rulings, said, issued, acts>>
    BY DEF Listener, HandleMove, RecordFeedback, LoseMove
<1>2. IInv' /\ OneVerdict' /\ SpamIsStored'
    BY <1>1, NextKeepsIInv DEF OneVerdict, SpamIsStored
<1>3. ASSUME NEW m \in Moves, HandleMove(m) PROVE RunInv'
    <2>1. /\ moved[m] > 0 /\ moved' = [moved EXCEPT ![m] = @ - 1] /\ human' = human
          /\ corrections' = [v \in Verdicts |->
                                corrections[v] + (IF v \in Corrects(m) THEN 1 ELSE 0)]
        BY <1>3 DEF HandleMove
    <2>2. moved' \in [Moves -> Nat] /\ corrections' \in [Verdicts -> Nat]
        BY <2>1 DEF RunColumns
    <2>3. SilentPerson'
        <3> SUFFICES ASSUME said = {} PROVE SilentPerson'
            BY <1>1 DEF SilentPerson
        <3>1. IF m.to = "junk" THEN CurrentVerdict = "spam" ELSE m.from # "junk"
            BY <2>1 DEF SilentPerson, CurrentVerdict, NoVerdict
        <3>2. Corrects(m) = {}
            BY <3>1 DEF Corrects
        <3>3. \A v \in Verdicts : corrections'[v] = 0
            BY <2>1, <3>2 DEF SilentPerson
        <3>4. \A n \in Moves : moved'[n] > 0 => moved[n] > 0
            BY <2>1 DEF RunColumns
        <3> QED BY <1>1, <2>1, <3>3, <3>4 DEF SilentPerson
    <2> QED BY <1>1, <1>2, <2>1, <2>2, <2>3 DEF RunColumns
<1>4. ASSUME NEW v \in Verdicts, RecordFeedback(v) PROVE RunInv'
    <2>1. said # {}
        BY <1>4 DEF RecordFeedback, SilentPerson, RunColumns
    <2>2. corrections' \in [Verdicts -> Nat] /\ human' \in MaybeVerdict /\ moved' = moved
        BY <1>4 DEF RecordFeedback, RunColumns, MaybeVerdict
    <2> QED BY <1>1, <1>2, <2>1, <2>2 DEF RunColumns, SilentPerson
<1>5. ASSUME NEW m \in Moves, LoseMove(m) PROVE RunInv'
    <2>1. moved' \in [Moves -> Nat] /\ \A n \in Moves : moved'[n] > 0 => moved[n] > 0
        BY <1>5 DEF LoseMove, RunColumns
    <2>2. UNCHANGED <<human, corrections>>
        BY <1>5 DEF LoseMove
    <2> QED BY <1>1, <1>2, <2>1, <2>2 DEF RunColumns, SilentPerson
<1> QED BY <1>3, <1>4, <1>5 DEF Listener

LEMMA NextKeepsRunInv == RunInv /\ [RunNext]_runVars => RunInv'
<1> SUFFICES ASSUME RunInv, [RunNext]_runVars PROVE RunInv'
    OBVIOUS
<1>1. ASSUME NEW w \in Workers, RunStep(w) PROVE RunInv'
    BY <1>1, CarryingOnKeeps, RecordKeeps, MoveKeeps
<1>2. CASE Person \/ Listener
    BY <1>2, PersonKeeps, ListenerKeeps
<1>3. CASE LoseClaims \/ Time \/ UNCHANGED runVars
    <2>1. IInv'
        BY RunStepIsQueueStep, NextKeepsIInv DEF RunInv
    <2>2. UNCHANGED <<task, trace, mailVars>>
        BY <1>3 DEF LoseClaims, Time, runVars
    <2> QED BY <2>1, <2>2 DEF mailVars, RunInv, RunColumns, OneVerdict, SpamIsStored, SilentPerson
<1> QED BY <1>1, <1>2, <1>3 DEF RunNext

------------------------------------------------------------------------------
\* The runner only ever calls the engine: its workers are callers of WorkQueue, and
\* what is proved of those holds of pipeline_runs.
THEOREM RunIsCaller == RunSpec => Spec
    BY RunStepIsQueueStep, PTL DEF RunSpec, RunInit, Spec

\* Runs that lose their row, are retried or refunded still hold it one worker at a
\* time, and what the engine recorded of them stays.
THEOREM RunKeepsLedger == RunSpec => ImplementsLedger
    BY RunIsCaller, Refinement

\* The invariant in every reachable state.
THEOREM RunInvariant == RunSpec => []RunInv
    BY InitRunInv, NextKeepsRunInv, PTL DEF RunSpec

\* Coroutines, trace, verdicts and events stay in their domains.
THEOREM RunTypeCorrect == RunSpec => []RunTypeOK
<1>1. RunInv => RunTypeOK
    BY DEF RunInv, IInv, RunColumns, RunTypeOK, TaskType, MaybeVerdict
<1> QED BY <1>1, RunInvariant, PTL

\* RecordVerdict's ON CONFLICT DO NOTHING: of any number of racing runs one stores
\* its verdict, and that one alone is announced.
THEOREM FirstVerdictStands == RunSpec => []OneVerdict
    BY RunInvariant, PTL DEF RunInv

\* move-spam: a run files mail as spam only out of the inbox, and only on the verdict
\* that is stored or was in force when it began, never on an answer that lost.
THEOREM MovesAreGrounded == RunSpec => MovesOnStoredVerdict
<1>1. RunInv /\ [RunNext]_runVars =>
        [\A w \in Workers :
            (MoveSpam(w) /\ folder' # folder) =>
                "spam" \in {ai, task[w].began} /\ folder = "inbox"]_runVars
    BY DEF RunInv, SpamIsStored, MoveSpam, MoveTo
<1> QED BY <1>1, RunInvariant, PTL DEF RunSpec, MovesOnStoredVerdict

\* spam/feedback.py: of a mail the person said nothing of, the listener never takes
\* the pipeline's own move, nor one between other folders, for their correction.
THEOREM NoFalseFeedback == RunSpec => []NoFeedbackUnprompted
<1>1. RunInv => NoFeedbackUnprompted
    BY DEF RunInv, SilentPerson, NoFeedbackUnprompted
<1> QED BY <1>1, RunInvariant, PTL
==============================================================================
