--------------------------- MODULE GlacierMoveProofs ---------------------------
(***************************************************************************)
(* Proofs about the glacier for any requests, rows, mails, envelopes and   *)
(* restores, whatever commits between an unlocked read and its write: a    *)
(* mail no other shares its envelope with is lost only by a write that was *)
(* overtaken.                                                              *)
(***************************************************************************)
EXTENDS GlacierMove, TLAPS

\* Where a row keeps its mail on the server with no delete queued.
Safe == {"live", "moving", "unseen"}

SafeRow(m) == \E r \in Rows : row[r].mail = m /\ row[r].st \in Safe
SafeCopy(m) == g.mail = m /\ g.raw = "whole" /\ g.st # "copied"

\* The strengthening of LostOnlyIfOvertaken: a queued delete keeps nothing, nor
\* does a copy nobody verified, nor an append that may die.
Kept ==
    \A m \in Born \ (destroyed \cup overtaken) : Alone(m) => SafeRow(m) \/ SafeCopy(m)

\* Every append that may still be sent carries a mail.
CarryMail == \A a \in Appends : outbox[a].st = "pending" => outbox[a].mail \in Mails

\* Verified is whole, a tombstone of a restore is empty, and a copy whose expunge
\* is queued names its row.
CopyFacts ==
    /\ g.st = "verified" => g.raw = "whole"
    /\ g.restored \/ g.st = "none" => g.raw = "none"
    /\ g.visible => g.st # "none"
    /\ g.st = "removing" => g.origin # None

\* The origin is a row of the copy's envelope, by whatever id it goes.
OriginNamesCopy ==
    g.origin # None /\ g.mail \notin overtaken =>
        row[g.origin].st # "fresh" /\ Envelope[row[g.origin].mail] = Envelope[g.mail]

\* What an actor holds at each place.
Known(p) ==
    /\ task[p].at \in {"copy", "resolve", "resolving"} =>
          task[p].arg \in Rows /\ row[task[p].arg].st # "fresh"
    /\ task[p].at = "reresolving" => task[p].arg \in Rows \cup {None}
    /\ task[p].at \in {"appending", "orphaned"} => task[p].arg \in Mails

GlacierInv ==
    /\ GlacierTypeOK
    /\ CarryMail
    /\ CopyFacts
    /\ OriginNamesCopy
    /\ \A p \in Actors : Known(p)
    /\ Kept

RowType == [st : OnServer \cup {"fresh", "gone"}, mail : Mails \cup {None},
            at : {"archive", "inbox"}]
CopyType == [st : {"none", "copied", "verified", "removing", "glaciered", "restoring",
                   "restored", "expunged"},
             mail : Mails \cup {None}, origin : Rows \cup {None},
             raw : {"none", "whole", "damaged"}, visible : BOOLEAN, restored : BOOLEAN,
             append : Appends \cup {None}, old : BOOLEAN]
TaskType == [at : Steps, arg : Rows \cup Mails \cup {None}]

LEMMA InitGlacierInv == GlacierInit => GlacierInv
<1> SUFFICES ASSUME GlacierInit PROVE GlacierInv
    OBVIOUS
<1> USE GlacierAssumption
<1>1. PICK start \in Starts :
         row = [r \in Rows |-> IF start[r] = None THEN Fresh ELSE
                   [st |-> "live", mail |-> start[r], at |-> "archive"]]
    BY DEF GlacierInit
<1>2. start \in [Rows -> Mails \cup {None}]
    OBVIOUS
<1>3. \A r \in Rows : \/ row[r] = Fresh
                      \/ row[r].st = "live" /\ row[r].mail \in Mails /\ row[r].at = "archive"
    BY <1>1, <1>2
<1>4. GlacierTypeOK
    <2>1. row \in [Rows -> RowType]
        BY <1>1, <1>2 DEF Fresh, OnServer, Shown, RowType
    <2>2. \A r \in Rows : row[r].st = "fresh" <=> row[r].mail = None
        BY <1>3 DEF Fresh
    <2> QED BY <2>1, <2>2 DEF GlacierInit, GlacierTypeOK, NoCopy, Steps, Writing, RowType
<1>5. CarryMail /\ CopyFacts /\ OriginNamesCopy
    BY DEF GlacierInit, CarryMail, CopyFacts, OriginNamesCopy, NoCopy
<1>6. \A p \in Actors : Known(p)
    BY DEF GlacierInit, Known
<1>7. Kept
    BY <1>3 DEF Kept, Born, SafeRow, Safe, Fresh
<1> QED BY <1>4, <1>5, <1>6, <1>7 DEF GlacierInv

------------------------------------------------------------------------------
\* Rows that only PostIMAP changed: none is used twice or loses its mail, and
\* what one row kept another keeps.
RowsMoveOn ==
    /\ row' \in [Rows -> RowType]
    /\ \A r \in Rows : row[r].st # "fresh" =>
          /\ row'[r].st # "fresh"
          /\ row'[r].mail = row[r].mail
          /\ row[r].st \in Safe => \E s \in Rows : row'[s].st \in Safe /\ row'[s].mail = row[r].mail
    /\ \A r \in Rows : row[r].st = "fresh" =>
          \/ row'[r] = row[r]
          \/ row'[r].st \in Safe /\ row'[r].mail \in Mails

LEMMA RowsMoveOnKeep ==
    ASSUME GlacierInv, RowsMoveOn, UNCHANGED <<g, task, history>>, mishaps' \in 0..MaxMishaps,
           notice' \in [Rows -> {"none", "open", "reverted"}],
           outbox' \in [Appends -> [st : {"unused", "pending", "sent", "dead"},
                                    mail : Mails \cup {None}]],
           \A a \in Appends : outbox'[a].st = "pending" => outbox'[a].mail \in Mails
    PROVE  GlacierInv'
<1> USE GlacierAssumption DEF GlacierInv, history
<1>0. \A r \in Rows : row'[r].st = "fresh" <=> row'[r].mail = None
    <2> SUFFICES ASSUME NEW r \in Rows PROVE row'[r].st = "fresh" <=> row'[r].mail = None
        OBVIOUS
    <2>1. CASE row[r].st # "fresh"
        BY <2>1 DEF GlacierTypeOK, RowsMoveOn
    <2>2. CASE row[r].st = "fresh"
        BY <2>2 DEF GlacierTypeOK, RowsMoveOn, Safe
    <2> QED BY <2>1, <2>2
<1>1. GlacierTypeOK'
    BY <1>0 DEF GlacierTypeOK, RowsMoveOn, RowType
<1>2. CarryMail' /\ CopyFacts'
    BY DEF CarryMail, CopyFacts
<1>3. OriginNamesCopy'
    BY DEF OriginNamesCopy, RowsMoveOn, GlacierTypeOK
<1>4. \A m : SafeRow(m) => SafeRow(m)'
    BY DEF SafeRow, RowsMoveOn, Safe
<1>5. \A p \in Actors : Known(p)'
    BY DEF Known, RowsMoveOn
<1>6. Kept'
    <2> SUFFICES ASSUME NEW m \in Mails, NEW r \in Rows, row'[r].mail = m,
                        m \notin destroyed \cup overtaken, Alone(m)
                 PROVE  SafeRow(m)' \/ SafeCopy(m)'
        BY DEF Kept, Born, Alone
    <2>1. CASE row[r].mail = m
        <3>1. m \in Born \ (destroyed \cup overtaken)
            BY <2>1 DEF Born
        <3> QED BY <1>4, <3>1 DEF Kept, SafeCopy
    <2>2. CASE row[r].mail # m
        <3>1. row'[r].st \in Safe
            BY <2>2 DEF RowsMoveOn
        <3> QED BY <3>1 DEF SafeRow
    <2> QED BY <2>1, <2>2
<1> QED BY <1>1, <1>2, <1>3, <1>5, <1>6

LEMMA ServerKeeps == GlacierInv /\ ServerStep => GlacierInv'
<1> SUFFICES ASSUME GlacierInv, ServerStep PROVE GlacierInv'
    OBVIOUS
<1> USE GlacierAssumption DEF GlacierInv
<1>0. row \in [Rows -> RowType]
    BY DEF GlacierTypeOK, RowType
<1>m. mishaps \in 0..MaxMishaps /\ (Mishap => mishaps' \in 0..MaxMishaps)
    BY DEF GlacierTypeOK, Mishap
<1>1. ASSUME NEW r \in Rows,
             DeleteLands(r) \/ PutBack(r) \/ Mirror(r) \/ MoveLands(r) \/ DeleteFails(r)
      PROVE  GlacierInv'
    <2>1. RowsMoveOn
        BY <1>0, <1>1 DEF RowsMoveOn, DeleteLands, PutBack, Mirror, MoveLands, DeleteFails, Put,
                          Safe, OnServer, Shown, RowType
    <2>2. notice' \in [Rows -> {"none", "open", "reverted"}]
        BY <1>1 DEF DeleteLands, PutBack, Mirror, MoveLands, DeleteFails, GlacierTypeOK
    <2> QED BY <1>m, <1>1, <2>1, <2>2, RowsMoveOnKeep
            DEF DeleteLands, PutBack, Mirror, MoveLands, DeleteFails, GlacierTypeOK, CarryMail
<1>2. ASSUME NEW r \in Rows, MoveMail(r) PROVE GlacierInv'
    <2>1. RowsMoveOn
        BY <1>0, <1>2 DEF RowsMoveOn, MoveMail, Safe, OnServer, Shown, RowType
    <2> QED BY <1>2, <2>1, RowsMoveOnKeep DEF MoveMail, GlacierTypeOK, CarryMail
<1>3. ASSUME NEW r \in Rows, NEW s \in Rows, Resync(r, s) PROVE GlacierInv'
    <2>1. r # s /\ row[r].mail \in Mails
        BY <1>0, <1>3 DEF Resync, GlacierTypeOK, RowType
    <2>2. row'[s].st = "unseen" /\ row'[s].mail = row[r].mail /\ row'[s].at = row[r].at
        BY <1>0, <1>3, <2>1 DEF Resync, RowType
    <2>3. row'[r].st = "gone" /\ row'[r].mail = row[r].mail /\ row'[r].at = row[r].at
        BY <1>0, <1>3, <2>1 DEF Resync, RowType
    <2>4. \A q \in Rows \ {r, s} : row'[q] = row[q]
        BY <1>0, <1>3 DEF Resync
    <2>5. row' \in [Rows -> RowType]
        BY <1>0, <1>3, <2>1 DEF Resync, OnServer, Shown, RowType
    <2>6. RowsMoveOn
        BY <1>0, <1>3, <2>1, <2>2, <2>3, <2>4, <2>5 DEF RowsMoveOn, Resync, Safe
    <2> QED BY <1>m, <1>3, <2>6, RowsMoveOnKeep DEF Resync, GlacierTypeOK, CarryMail
<1>4. ASSUME NEW a \in Appends, AppendDies(a) PROVE GlacierInv'
    <2>1. RowsMoveOn
        BY <1>0, <1>4 DEF AppendDies, RowsMoveOn
    <2> QED BY <1>m, <1>4, <2>1, RowsMoveOnKeep DEF AppendDies, GlacierTypeOK, CarryMail
<1>5. ASSUME NEW a \in Appends, NEW s \in Rows, AppendSent(a, s) PROVE GlacierInv'
    <2>1. outbox[a].mail \in Mails
        BY <1>5 DEF AppendSent, CarryMail
    <2>2. RowsMoveOn
        BY <1>0, <1>5, <2>1 DEF AppendSent, RowsMoveOn, Safe, OnServer, Shown, RowType
    <2> QED BY <1>5, <2>2, RowsMoveOnKeep DEF AppendSent, GlacierTypeOK, CarryMail
<1> QED BY <1>1, <1>2, <1>3, <1>4, <1>5 DEF ServerStep

------------------------------------------------------------------------------
\* A step that only moves p on.
LEMMA TaskStepKeeps ==
    ASSUME GlacierInv, NEW p \in Actors,
           UNCHANGED <<row, notice, g, outbox, history>>, mishaps' \in 0..MaxMishaps,
           task' = [task EXCEPT ![p] = task'[p]], task'[p] \in TaskType, Known(p)',
           task'[p].at \in Writing => g.st # "none"
    PROVE  GlacierInv'
<1> USE GlacierAssumption DEF GlacierInv, history
<1>0. task \in [Actors -> TaskType] /\ \A q \in Actors \ {p} : task'[q] = task[q]
    BY DEF GlacierTypeOK, TaskType
<1>1. GlacierTypeOK'
    <2>1. task' \in [Actors -> TaskType]
        BY <1>0
    <2>2. \A q \in Actors : task'[q].at \in Writing => g.st # "none"
        BY <1>0 DEF GlacierTypeOK
    <2> QED BY <2>1, <2>2 DEF GlacierTypeOK, TaskType
<1>2. CarryMail' /\ CopyFacts' /\ OriginNamesCopy' /\ Kept'
    BY DEF CarryMail, CopyFacts, OriginNamesCopy, Kept, Born, SafeRow, SafeCopy
<1>3. \A q \in Actors : Known(q)'
    <2> SUFFICES ASSUME NEW q \in Actors \ {p} PROVE Known(q)'
        OBVIOUS
    <2> QED BY <1>0 DEF Known
<1> QED BY <1>1, <1>2, <1>3

\* A step that leaves the rows alone loses no mail, unless it takes a safe copy
\* whose mail no safe row holds and it is not recorded.
LEMMA CopyStepKept ==
    ASSUME GlacierInv, UNCHANGED row,
           destroyed \subseteq destroyed', overtaken \subseteq overtaken',
           \/ ~SafeCopy(g.mail)
           \/ SafeCopy(g.mail)' /\ g'.mail = g.mail
           \/ g.mail \in destroyed' \cup overtaken'
           \/ Alone(g.mail) => SafeRow(g.mail)
    PROVE  Kept'
<1> SUFFICES ASSUME NEW m \in Born, m \notin destroyed' \cup overtaken', Alone(m)
             PROVE  SafeRow(m)' \/ SafeCopy(m)'
    BY DEF Kept, Born, Alone
<1>1. SafeRow(m) \/ SafeCopy(m)
    BY DEF GlacierInv, Kept
<1>2. SafeRow(m) => SafeRow(m)'
    BY DEF SafeRow
<1>3. ASSUME SafeCopy(m) PROVE SafeRow(m)' \/ SafeCopy(m)'
    <2>1. m = g.mail
        BY <1>3 DEF SafeCopy
    <2> QED BY <1>2, <1>3, <2>1
<1> QED BY <1>1, <1>2, <1>3

\* A step of p that changes the glacier's row in place.
LEMMA CopyStepKeeps ==
    ASSUME GlacierInv, NEW p \in Actors, UNCHANGED <<row, mishaps>>,
           notice' = notice, outbox' \in [Appends -> [st : {"unused", "pending", "sent", "dead"},
                                                       mail : Mails \cup {None}]],
           g' \in CopyType, g.st # "none", g'.st # "none", g'.mail = g.mail, g.mail # None,
           task' = [task EXCEPT ![p] = task'[p]], task'[p] \in TaskType, Known(p)',
           destroyed \subseteq destroyed', overtaken \subseteq overtaken',
           destroyed' \subseteq Mails, overtaken' \subseteq Mails,
           CarryMail', CopyFacts', OriginNamesCopy', Kept'
    PROVE  GlacierInv'
<1> USE GlacierAssumption DEF GlacierInv
<1>0. task \in [Actors -> TaskType] /\ \A q \in Actors \ {p} : task'[q] = task[q]
    BY DEF GlacierTypeOK, TaskType
<1>1. GlacierTypeOK'
    <2>1. task' \in [Actors -> TaskType]
        BY <1>0
    <2> QED BY <2>1 DEF GlacierTypeOK, TaskType, CopyType
<1>2. \A q \in Actors : Known(q)'
    <2> SUFFICES ASSUME NEW q \in Actors \ {p} PROVE Known(q)'
        OBVIOUS
    <2> QED BY <1>0 DEF Known
<1> QED BY <1>1, <1>2

\* Queueing the expunge of a row whose mail is kept elsewhere, or recorded.
LEMMA MarkKept ==
    ASSUME GlacierInv, NEW r \in Rows, row' = [row EXCEPT ![r].st = "marked"],
           overtaken \subseteq overtaken', UNCHANGED destroyed,
           g'.mail = g.mail, SafeCopy(g.mail) => SafeCopy(g.mail)',
           \/ row[r].mail \in overtaken'
           \/ Alone(row[r].mail) =>
                  g'.mail = row[r].mail /\ g'.raw = "whole" /\ g'.st # "copied"
    PROVE  Kept'
<1> SUFFICES ASSUME NEW m \in Mails, m \in Born', m \notin destroyed' \cup overtaken', Alone(m)
             PROVE  SafeRow(m)' \/ SafeCopy(m)'
    BY DEF Kept, Born, Alone
<1>0. row \in [Rows -> RowType]
    BY DEF GlacierInv, GlacierTypeOK, RowType
<1>1. m \in Born
    BY <1>0 DEF Born
<1>2. SafeRow(m) \/ SafeCopy(m)
    BY <1>1 DEF GlacierInv, Kept
<1>3. CASE SafeCopy(m)
    BY <1>3 DEF SafeCopy
<1>4. CASE SafeRow(m)
    <2>1. PICK q \in Rows : row[q].mail = m /\ row[q].st \in Safe
        BY <1>4 DEF SafeRow
    <2>2. CASE q = r
        BY <2>1, <2>2 DEF SafeCopy
    <2>3. CASE q # r
        BY <1>0, <2>1, <2>3 DEF SafeRow
    <2> QED BY <2>2, <2>3
<1> QED BY <1>2, <1>3, <1>4

LEMMA Facts ==
    GlacierInv =>
        /\ row \in [Rows -> RowType] /\ g \in CopyType
        /\ task \in [Actors -> TaskType] /\ mishaps \in 0..MaxMishaps
        /\ outbox \in [Appends -> [st : {"unused", "pending", "sent", "dead"},
                                    mail : Mails \cup {None}]]
        /\ destroyed \subseteq Mails /\ overtaken \subseteq Mails
        /\ (g.st # "none" => g.mail \in Mails)
        /\ \A r \in Rows : row[r].st # "fresh" => row[r].mail \in Mails
        /\ \A p \in Actors : task[p].at \in Writing => g.st # "none"
    BY GlacierAssumption DEF GlacierInv, GlacierTypeOK, RowType, CopyType, TaskType


------------------------------------------------------------------------------
\* copy_message.
LEMMA CopyMessageKeeps ==
    ASSUME GlacierInv, NEW p \in Actors, CopyMessage(p) PROVE GlacierInv'
<1> USE GlacierAssumption
<1> DEFINE r == task[p].arg
<1>0. r \in Rows /\ row[r].st # "fresh"
    BY DEF GlacierInv, Known, CopyMessage, At
<1>1. task' = [task EXCEPT ![p] = task'[p]] /\ task'[p] \in TaskType
    BY Facts DEF CopyMessage, Go, Rest, TaskType, Steps
<1>2. CASE UNCHANGED g
    <2>1. Known(p)' /\ task'[p].at \notin Writing
        BY <1>0, <1>2, Facts DEF CopyMessage, Go, Rest, Known, Replaceable, NoCopy, TaskType, Writing
    <2> QED BY <1>1, <1>2, <2>1, TaskStepKeeps, Facts DEF CopyMessage
<1>3. CASE /\ row[r].st = "live" /\ Replaceable
           /\ g' = [NoCopy EXCEPT !.st = "copied", !.mail = row[r].mail,
                                  !.origin = r, !.raw = "whole"]
           /\ task' = [task EXCEPT ![p] = [at |-> "verify", arg |-> None]]
    <2>1. g' \in CopyType /\ row[r].mail \in Mails
        BY <1>0, <1>3, Facts DEF NoCopy, CopyType
    <2>2. GlacierTypeOK'
        <3>1. task' \in [Actors -> TaskType]
            BY <1>3, Facts DEF TaskType, Steps
        <3> QED BY <1>3, <2>1, <3>1 DEF CopyMessage, GlacierInv, GlacierTypeOK, CopyType, TaskType,
                                        NoCopy, history
    <2>3. CarryMail' /\ CopyFacts' /\ OriginNamesCopy'
        BY <1>0, <1>3 DEF CopyMessage, GlacierInv, CarryMail, CopyFacts, OriginNamesCopy, NoCopy
    <2>4. \A q \in Actors : Known(q)'
        BY <1>3, Facts DEF CopyMessage, GlacierInv, Known
    <2>5. ~SafeCopy(g.mail)
        BY <1>3 DEF GlacierInv, CopyFacts, Replaceable, SafeCopy
    <2>6. Kept'
        BY <2>5, CopyStepKept DEF CopyMessage, history
    <2> QED BY <2>2, <2>3, <2>4, <2>6 DEF GlacierInv
<1> QED BY <1>2, <1>3 DEF CopyMessage

\* resolve_duplicate.
LEMMA ReadDuplicateKeeps ==
    ASSUME GlacierInv, NEW p \in Actors, ReadDuplicate(p) PROVE GlacierInv'
<1>1. task' = [task EXCEPT ![p] = task'[p]] /\ task'[p] \in TaskType
    BY Facts DEF ReadDuplicate, Go, Rest, TaskType, Steps
<1>2. Known(p)' /\ task'[p].at \notin Writing
    BY Facts DEF ReadDuplicate, At, Go, Rest, GlacierInv, Known, TaskType, Writing
<1> QED BY <1>1, <1>2, TaskStepKeeps, Facts DEF ReadDuplicate

\* A step that marks row r leaves what is known of rows and origins.
LEMMA MarkFacts ==
    ASSUME GlacierInv, NEW r \in Rows, row[r].st # "fresh",
           row' = [row EXCEPT ![r].st = "marked"]
    PROVE  /\ row' \in [Rows -> RowType]
           /\ \A q \in Rows : /\ row'[q].st = "fresh" <=> row[q].st = "fresh"
                              /\ row'[q].mail = row[q].mail
    BY Facts DEF RowType, OnServer

LEMMA ExpungeDuplicateKeeps ==
    ASSUME GlacierInv, NEW p \in Actors, ExpungeDuplicate(p) PROVE GlacierInv'
<1> USE GlacierAssumption
<1> DEFINE r == task[p].arg
<1>0. r \in Rows /\ row[r].st # "fresh"
    BY DEF GlacierInv, Known, ExpungeDuplicate, At
<1>1. /\ task' = [task EXCEPT ![p] = task'[p]] /\ task'[p] \in TaskType
      /\ Known(p)' /\ task'[p].at \notin Writing
    BY Facts DEF ExpungeDuplicate, Rest, TaskType, Steps, Known, Writing
<1>2. CASE UNCHANGED <<row, history>>
    BY <1>1, <1>2, TaskStepKeeps, Facts DEF ExpungeDuplicate
<1>3. CASE row[r].st \in Shown /\ Put(r, "marked") /\ Note(Duplicate(r), row[r].mail)
    <2>1. /\ row' \in [Rows -> RowType]
          /\ \A q \in Rows : /\ row'[q].st = "fresh" <=> row[q].st = "fresh"
                             /\ row'[q].mail = row[q].mail
        BY <1>0, <1>3, MarkFacts DEF Put
    <2>2. overtaken \subseteq overtaken' /\ overtaken' \subseteq Mails /\ UNCHANGED destroyed
        BY <1>0, <1>3, Facts DEF Note
    <2>3. GlacierTypeOK'
        <3>1. task' \in [Actors -> TaskType] /\ \A q \in Actors : task'[q].at \in Writing => g.st # "none"
            BY <1>1, Facts
        <3> QED BY <2>1, <2>2, <3>1 DEF ExpungeDuplicate, GlacierInv, GlacierTypeOK, TaskType, RowType
    <2>4. CarryMail' /\ CopyFacts'
        BY DEF ExpungeDuplicate, GlacierInv, CarryMail, CopyFacts
    <2>5. OriginNamesCopy'
        BY <2>1, <2>2, Facts DEF ExpungeDuplicate, GlacierInv, OriginNamesCopy, CopyType
    <2>6. \A q \in Actors : Known(q)'
        BY <1>1, <2>1, Facts DEF GlacierInv, Known
    <2>7. \/ row[r].mail \in overtaken'
          \/ Alone(row[r].mail) =>
                 g'.mail = row[r].mail /\ g'.raw = "whole" /\ g'.st # "copied"
        <3>1. CASE Duplicate(r)
            <4>1. g.mail \in Mails /\ Envelope[g.mail] = Envelope[row[r].mail]
                BY <3>1, Facts DEF Duplicate
            <4> QED BY <3>1, <4>1 DEF Duplicate, Alone, ExpungeDuplicate
        <3>2. CASE ~Duplicate(r)
            BY <1>3, <3>2 DEF Note
        <3> QED BY <3>1, <3>2
    <2>8. Kept'
        <3>1. row' = [row EXCEPT ![r].st = "marked"] /\ UNCHANGED g
            BY <1>3 DEF Put, ExpungeDuplicate
        <3>2. SafeCopy(g.mail) => SafeCopy(g.mail)'
            BY <3>1 DEF SafeCopy
        <3> HIDE DEF r
        <3> QED BY <1>0, <2>2, <2>7, <3>1, <3>2, MarkKept
    <2> QED BY <2>3, <2>4, <2>5, <2>6, <2>8 DEF GlacierInv
<1> QED BY <1>2, <1>3 DEF ExpungeDuplicate

\* verify_message, of a request or of the sweep.
LEMMA VerifyKeeps ==
    ASSUME GlacierInv, NEW p \in Actors, UNCHANGED <<row, notice, outbox, mishaps, history>>,
           \/ Verifies /\ g' = [g EXCEPT !.st = "verified"]
           \/ UNCHANGED g,
           task' = [task EXCEPT ![p] = task'[p]], task'[p] \in TaskType, Known(p)',
           task'[p].at \notin Writing
    PROVE  GlacierInv'
<1> USE GlacierAssumption
<1>1. CASE UNCHANGED g
    BY <1>1, TaskStepKeeps, Facts
<1>2. CASE Verifies /\ g' = [g EXCEPT !.st = "verified"]
    <2>1. g' \in CopyType /\ g.mail \in Mails /\ g'.mail = g.mail
        BY <1>2, Facts DEF Verifies, CopyType
    <2>2. CarryMail' /\ CopyFacts' /\ OriginNamesCopy'
        BY <1>2, Facts DEF Verifies, GlacierInv, CarryMail, CopyFacts, OriginNamesCopy, CopyType, history
    <2>3. ~SafeCopy(g.mail)
        BY <1>2 DEF Verifies, SafeCopy
    <2>4. Kept'
        BY <2>3, CopyStepKept DEF history
    <2>5. g.st # "none" /\ g'.st # "none" /\ destroyed' = destroyed /\ overtaken' = overtaken
        BY <1>2, Facts DEF Verifies, CopyType, history
    <2> QED BY <2>1, <2>2, <2>4, <2>5, CopyStepKeeps, Facts
<1> QED BY <1>1, <1>2

\* Removable's copy is off to the server side: the row it names is its own mail.
LEMMA TakeOffKeeps ==
    ASSUME GlacierInv, NEW p \in Actors, Removable, Matches(g.origin, g.mail), TakeOffServer,
           UNCHANGED <<outbox, mishaps, history>>,
           task' = [task EXCEPT ![p] = task'[p]], task'[p] \in TaskType, Known(p)'
    PROVE  GlacierInv'
<1> USE GlacierAssumption
<1> DEFINE r == g.origin
<1>0. r \in Rows /\ row[r].st # "fresh" /\ g.st = "verified" /\ g.raw = "whole"
    BY Facts DEF Removable, Matches, Shown, CopyType, GlacierInv, CopyFacts
<1>1. /\ row' \in [Rows -> RowType]
      /\ \A q \in Rows : /\ row'[q].st = "fresh" <=> row[q].st = "fresh"
                         /\ row'[q].mail = row[q].mail
    BY <1>0, MarkFacts DEF TakeOffServer, Put
<1>2. /\ g' \in CopyType /\ g'.st = "removing" /\ g'.raw = "whole" /\ g'.mail = g.mail
      /\ g'.origin = g.origin /\ g'.restored = g.restored /\ g.mail \in Mails
    BY <1>0, Facts DEF TakeOffServer, CopyType
<1>3. notice' \in [Rows -> {"none", "open", "reverted"}]
    BY <1>0 DEF TakeOffServer, GlacierInv, GlacierTypeOK
<1>4. GlacierTypeOK'
    <2>1. task' \in [Actors -> TaskType]
        BY Facts
    <2> QED BY <1>1, <1>2, <1>3, <2>1 DEF GlacierInv, GlacierTypeOK, TaskType, RowType, CopyType, history
<1>5. CarryMail' /\ CopyFacts'
    BY <1>0, <1>2 DEF GlacierInv, CarryMail, CopyFacts
<1>6. OriginNamesCopy'
    BY <1>0, <1>1, <1>2 DEF GlacierInv, OriginNamesCopy, history
<1>7. \A q \in Actors : Known(q)'
    BY <1>1, Facts DEF GlacierInv, Known
<1>8. Kept'
    <2>1. row' = [row EXCEPT ![r].st = "marked"]
        BY DEF TakeOffServer, Put
    <2>2. Alone(row[r].mail) => g.mail = row[r].mail
        BY <1>2 DEF Matches, Alone
    <2>3. SafeCopy(g.mail) => SafeCopy(g.mail)'
        BY <1>2 DEF SafeCopy
    <2>4. overtaken' = overtaken /\ destroyed' = destroyed
        BY DEF history
    <2> HIDE DEF r
    <2> QED BY <1>0, <1>2, <2>1, <2>2, <2>3, <2>4, MarkKept
<1> QED BY <1>4, <1>5, <1>6, <1>7, <1>8 DEF GlacierInv

\* expunge_message, and reresolve_origins.
LEMMA ExpungeMessageKeeps ==
    ASSUME GlacierInv, NEW p \in Actors, ExpungeMessage(p) PROVE GlacierInv'
<1>1. /\ task' = [task EXCEPT ![p] = task'[p]] /\ task'[p] \in TaskType
      /\ Known(p)' /\ task'[p].at \notin Writing
    BY Facts DEF ExpungeMessage, Go, Rest, TaskType, Steps, Known, Writing
<1>2. CASE Removable /\ Matches(g.origin, g.mail) /\ TakeOffServer
    BY <1>1, <1>2, TakeOffKeeps DEF ExpungeMessage
<1>3. CASE UNCHANGED <<row, notice, g>>
    BY <1>1, <1>3, TaskStepKeeps, Facts DEF ExpungeMessage
<1> QED BY <1>2, <1>3 DEF ExpungeMessage

LEMMA ReadOriginKeeps ==
    ASSUME GlacierInv, NEW p \in Actors, ReadOrigin(p) PROVE GlacierInv'
<1>1. task' = [task EXCEPT ![p] = task'[p]] /\ task'[p] \in TaskType
    BY Facts DEF ReadOrigin, AfterReresolve, Go, Rest, TaskType, Steps
<1>2. Known(p)'
    BY Facts DEF ReadOrigin, AfterReresolve, Go, Rest, Known, TaskType
<1>3. task'[p].at \in Writing => g.st # "none"
    BY Facts DEF ReadOrigin, Unresolved, AfterReresolve, Go, Rest, Writing, TaskType
<1> QED BY <1>1, <1>2, <1>3, TaskStepKeeps, Facts DEF ReadOrigin

LEMMA WriteOriginKeeps ==
    ASSUME GlacierInv, NEW p \in Actors, WriteOrigin(p) PROVE GlacierInv'
<1> USE GlacierAssumption
<1> DEFINE r == task[p].arg
<1>0. g.st # "none" /\ g.mail \in Mails /\ r \in Rows \cup {None}
    BY Facts DEF WriteOrigin, At, Writing, GlacierInv, Known
<1>1. /\ task' = [task EXCEPT ![p] = task'[p]] /\ task'[p] \in TaskType /\ Known(p)'
    BY Facts DEF WriteOrigin, AfterReresolve, Go, Rest, TaskType, Steps, Known
<1>2. CASE r # None /\ g' = [g EXCEPT !.origin = r] /\ Note(Matches(r, g.mail), g.mail)
    <2>1. /\ g' \in CopyType /\ g'.mail = g.mail /\ g'.st = g.st /\ g'.raw = g.raw
          /\ g'.restored = g.restored /\ g'.origin = r
        BY <1>0, <1>2, Facts DEF CopyType
    <2>2. overtaken \subseteq overtaken' /\ overtaken' \subseteq Mails /\ UNCHANGED destroyed
        BY <1>0, <1>2, Facts DEF Note
    <2>3. CarryMail' /\ CopyFacts'
        BY <1>2, <2>1 DEF WriteOrigin, GlacierInv, CarryMail, CopyFacts
    <2>4. OriginNamesCopy'
        <3>1. CASE Matches(r, g.mail)
            BY <2>1, <3>1 DEF Matches, Shown, OriginNamesCopy, WriteOrigin
        <3>2. CASE ~Matches(r, g.mail)
            BY <1>2, <2>1, <3>2 DEF Note, OriginNamesCopy
        <3> QED BY <3>1, <3>2
    <2>5. Kept'
        BY <2>1, <2>2, CopyStepKept DEF WriteOrigin, SafeCopy
    <2> QED BY <1>0, <1>1, <2>1, <2>2, <2>3, <2>4, <2>5, CopyStepKeeps, Facts DEF WriteOrigin
<1>3. CASE r = None /\ g' = [g EXCEPT !.st = "glaciered", !.origin = None] /\ UNCHANGED history
    <2>1. /\ g' \in CopyType /\ g'.mail = g.mail /\ g'.st = "glaciered" /\ g'.raw = g.raw
          /\ g'.restored = g.restored /\ g'.origin = None
        BY <1>3, Facts DEF CopyType
    <2>2. overtaken' = overtaken /\ destroyed' = destroyed
        BY <1>3 DEF history
    <2>3. CarryMail' /\ CopyFacts' /\ OriginNamesCopy'
        BY <2>1 DEF WriteOrigin, GlacierInv, CarryMail, CopyFacts, OriginNamesCopy
    <2>5. Kept'
        BY <2>1, <2>2, CopyStepKept DEF WriteOrigin, SafeCopy
    <2> QED BY <1>0, <1>1, <2>1, <2>2, <2>3, <2>5, CopyStepKeeps, Facts DEF WriteOrigin
<1> QED BY <1>2, <1>3 DEF WriteOrigin

------------------------------------------------------------------------------
\* The sweep's reading steps, and the places it only passes.
LEMMA SweepReadKeeps ==
    ASSUME GlacierInv, ReadRemoval \/ ReadRestore \/ ReadStale \/ StartSweep \/ EndSweep
    PROVE  GlacierInv'
<1> USE DEF Actors
<1>1. task' = [task EXCEPT ![Sweep] = task'[Sweep]] /\ task'[Sweep] \in TaskType /\ Known(Sweep)'
    BY Facts DEF ReadRemoval, ReadRestore, ReadStale, StartSweep, EndSweep, Go, TaskType, Steps, Known
<1>2. task'[Sweep].at \in Writing => g.st # "none"
    BY Facts DEF ReadRemoval, ReadRestore, ReadStale, StartSweep, EndSweep, Go, TaskType, Writing,
                 Confirmable, Withdrawable, GraceOver, Landed, StaleRestore
<1> QED BY <1>1, <1>2, TaskStepKeeps, Facts
        DEF ReadRemoval, ReadRestore, ReadStale, StartSweep, EndSweep

LEMMA CandidateKeeps ==
    ASSUME GlacierInv, CrashSweep \/ \E r \in Rows : Candidate(r)
    PROVE  GlacierInv'
<1> USE DEF Actors
<1>1. /\ task' = [task EXCEPT ![Sweep] = task'[Sweep]] /\ task'[Sweep] \in TaskType
      /\ Known(Sweep)' /\ task'[Sweep].at \notin Writing
    BY Facts DEF Candidate, CrashSweep, TaskType, Steps, Known, Writing
<1>2. mishaps' \in 0..MaxMishaps
    BY Facts, GlacierAssumption DEF Candidate, CrashSweep, Mishap
<1> QED BY <1>1, <1>2, TaskStepKeeps DEF Candidate, CrashSweep

\* confirm_or_withdraw_removing and fail_stale_restores: the state, not the bytes.
LEMMA GlacieredKeeps ==
    ASSUME GlacierInv, ConfirmRemoval \/ FailRestore PROVE GlacierInv'
<1> USE DEF Actors
<1>0. g.st # "none" /\ g.mail \in Mails /\ g.mail # None
    BY Facts, GlacierAssumption DEF ConfirmRemoval, FailRestore, At, Writing
<1>1. task' = [task EXCEPT ![Sweep] = task'[Sweep]] /\ task'[Sweep] \in TaskType /\ Known(Sweep)'
    BY Facts DEF ConfirmRemoval, FailRestore, Go, TaskType, Steps, Known
<1>2. /\ g' \in CopyType /\ g'.mail = g.mail /\ g'.st = "glaciered" /\ g'.raw = g.raw
      /\ g'.restored = g.restored /\ g'.origin = g.origin
    BY Facts DEF CopyType, ConfirmRemoval, FailRestore
<1>3. overtaken' = overtaken /\ destroyed' = destroyed
    BY DEF ConfirmRemoval, FailRestore, history
<1>4. CarryMail' /\ CopyFacts' /\ OriginNamesCopy'
    BY <1>2, <1>3 DEF ConfirmRemoval, FailRestore, GlacierInv, CarryMail, CopyFacts, OriginNamesCopy
<1>5. Kept'
    BY <1>2, <1>3, CopyStepKept DEF ConfirmRemoval, FailRestore, SafeCopy
<1> QED BY <1>0, <1>1, <1>2, <1>3, <1>4, <1>5, CopyStepKeeps, Facts DEF ConfirmRemoval, FailRestore

\* The withdrawal: the origin the read saw is a safe row of the copy's mail, or
\* the mail is recorded.
LEMMA WithdrawCopyKeeps ==
    ASSUME GlacierInv, WithdrawCopy PROVE GlacierInv'
<1> USE GlacierAssumption
<1>0. g.st # "none" /\ g.mail \in Mails
    BY Facts DEF WithdrawCopy, At, Writing, Actors
<1>1. /\ g' = NoCopy /\ UNCHANGED <<row, notice, outbox, mishaps>>
      /\ overtaken \subseteq overtaken' /\ overtaken' \subseteq Mails /\ UNCHANGED destroyed
    BY <1>0, Facts DEF WithdrawCopy, Note
<1>2. ASSUME NEW p \in Actors
      PROVE  \/ task'[p].at \in {"reresolve", "idle"} /\ task'[p] \in TaskType
             \/ /\ task[p].at = "appending" /\ task'[p].at = "orphaned"
                /\ task'[p].arg = task[p].arg /\ task'[p] \in TaskType
             \/ task'[p] = task[p] /\ task[p].at \notin Writing
    <2>1. task[p] \in TaskType
        BY Facts
    <2>2. [task[p] EXCEPT !.at = "reresolve"] \in TaskType
        BY <2>1 DEF TaskType, Steps
    <2>3. [task[p] EXCEPT !.at = "orphaned"] \in TaskType
        BY <2>1 DEF TaskType, Steps
    <2>4. [at |-> "idle", arg |-> None] \in TaskType
        BY DEF TaskType, Steps
    <2>5. CASE p = Sweep
        BY <2>1, <2>2, <2>5 DEF WithdrawCopy, TaskType
    <2>6. CASE p # Sweep /\ task[p].at = "appending"
        BY <2>1, <2>3, <2>6 DEF WithdrawCopy, TaskType
    <2>7. CASE p # Sweep /\ task[p].at # "appending"
        BY <2>4, <2>7 DEF WithdrawCopy
    <2> QED BY <2>5, <2>6, <2>7
<1>3. task' \in [Actors -> TaskType] /\ \A p \in Actors : task'[p].at \notin Writing
    <2>1. \A p \in Actors : task'[p] \in TaskType /\ task'[p].at \notin Writing
        BY <1>2, Facts DEF Writing
    <2> QED BY <2>1 DEF WithdrawCopy
<1>4. GlacierTypeOK'
    BY <1>1, <1>3 DEF GlacierInv, GlacierTypeOK, TaskType, NoCopy
<1>5. CarryMail' /\ CopyFacts' /\ OriginNamesCopy'
    BY <1>1 DEF GlacierInv, CarryMail, CopyFacts, OriginNamesCopy, NoCopy
<1>6. \A p \in Actors : Known(p)'
    <2> SUFFICES ASSUME NEW p \in Actors PROVE Known(p)'
        OBVIOUS
    <2>1. Known(p)
        BY DEF GlacierInv
    <2> QED BY <1>1, <1>2, <2>1 DEF Known
<1>7. \/ g.mail \in overtaken'
      \/ Alone(g.mail) => SafeRow(g.mail)
    <2>1. CASE ~Withdrawable \/ g.mail \in overtaken
        BY <2>1, <1>1 DEF WithdrawCopy, Note
    <2>2. CASE Withdrawable /\ g.mail \notin overtaken
        <3>1. g.origin # None => /\ row[g.origin].st # "fresh"
                                 /\ Envelope[row[g.origin].mail] = Envelope[g.mail]
            BY <2>2 DEF GlacierInv, OriginNamesCopy
        <3>2. CASE g.origin # None
            <4>1. g.origin \in Rows /\ row[g.origin].mail \in Mails
                BY <3>1, <3>2, Facts DEF CopyType
            <4> QED BY <2>2, <3>1, <3>2, <4>1 DEF Withdrawable, SafeRow, Safe, Alone
        <3>3. CASE g.origin = None
            BY <1>0, <2>2, <3>3 DEF GlacierInv, CopyFacts, Withdrawable, GraceOver
        <3> QED BY <3>2, <3>3
    <2> QED BY <2>1, <2>2
<1>8. Kept'
    BY <1>1, <1>7, CopyStepKept
<1> QED BY <1>4, <1>5, <1>6, <1>8 DEF GlacierInv

\* _progress_mid_flight.
LEMMA ProgressKeeps ==
    ASSUME GlacierInv, ProgressCopied \/ ProgressVerified PROVE GlacierInv'
<1> USE DEF Actors
<1>1. /\ task' = [task EXCEPT ![Sweep] = task'[Sweep]] /\ task'[Sweep] \in TaskType
      /\ Known(Sweep)' /\ task'[Sweep].at \notin Writing
    BY Facts DEF ProgressCopied, ProgressVerified, Go, TaskType, Steps, Known, Writing
<1>2. CASE ProgressCopied
    BY <1>1, <1>2, VerifyKeeps DEF ProgressCopied
<1>3. CASE ProgressVerified
    <2>1. CASE Removable /\ Matches(g.origin, g.mail) /\ TakeOffServer
        BY <1>1, <1>3, <2>1, TakeOffKeeps DEF ProgressVerified
    <2>2. CASE UNCHANGED <<row, notice, g>>
        BY <1>1, <1>3, <2>2, TaskStepKeeps, Facts DEF ProgressVerified
    <2> QED BY <1>3, <2>1, <2>2 DEF ProgressVerified
<1> QED BY <1>2, <1>3

\* confirm_restores.
LEMMA ConfirmRestoreKeeps ==
    ASSUME GlacierInv, ConfirmRestore PROVE GlacierInv'
<1> USE DEF Actors
<1>0. g.st # "none" /\ g.mail \in Mails /\ g.mail # None
    BY Facts, GlacierAssumption DEF ConfirmRestore, At, Writing
<1>1. task' = [task EXCEPT ![Sweep] = task'[Sweep]] /\ task'[Sweep] \in TaskType /\ Known(Sweep)'
    BY Facts DEF ConfirmRestore, Go, TaskType, Steps, Known
<1>2. /\ g' \in CopyType /\ g'.mail = g.mail /\ g'.st = "restored" /\ g'.raw = "none"
      /\ g'.origin = g.origin
    BY Facts DEF CopyType, ConfirmRestore
<1>3. overtaken \subseteq overtaken' /\ overtaken' \subseteq Mails /\ destroyed' = destroyed
    BY <1>0, Facts DEF ConfirmRestore, Note
<1>4. CarryMail' /\ CopyFacts' /\ OriginNamesCopy'
    BY <1>2, <1>3 DEF ConfirmRestore, GlacierInv, CarryMail, CopyFacts, OriginNamesCopy
<1>5. g.mail \in overtaken' \/ SafeRow(g.mail)
    BY DEF ConfirmRestore, Note, Landed, SafeRow, Safe
<1>6. Kept'
    BY <1>3, <1>5, CopyStepKept DEF ConfirmRestore
<1> QED BY <1>0, <1>1, <1>2, <1>3, <1>4, <1>6, CopyStepKeeps, Facts DEF ConfirmRestore

------------------------------------------------------------------------------
\* A person's requests.
LEMMA AskKeeps ==
    ASSUME GlacierInv, NEW c \in Calls,
           AskRestore(c) \/ AskDelete(c) \/ DropRequest(c) \/ \E r \in Rows : AskMove(c, r)
    PROVE  GlacierInv'
<1> USE DEF Actors
<1>1. task' = [task EXCEPT ![c] = task'[c]] /\ task'[c] \in TaskType /\ Known(c)'
    <2>1. CASE AskRestore(c)
        <3>1. g.mail \in Mails
            BY <2>1, Facts DEF AskRestore
        <3> QED BY <2>1, <3>1, Facts DEF AskRestore, TaskType, Steps, Known
    <2>2. CASE AskDelete(c)
        BY <2>2, Facts DEF AskDelete, TaskType, Steps, Known, CopyType
    <2>3. CASE DropRequest(c)
        BY <2>3, Facts DEF DropRequest, TaskType, Steps, Known
    <2>4. CASE \E r \in Rows : AskMove(c, r)
        BY <2>4, Facts DEF AskMove, TaskType, Steps, Known, Shown
    <2> QED BY <2>1, <2>2, <2>3, <2>4
<1>2. task'[c].at \in Writing => g.st # "none"
    <2>1. CASE AskRestore(c)
        BY <2>1 DEF AskRestore
    <2>2. CASE AskDelete(c)
        BY <2>2 DEF AskDelete, GlacierInv, CopyFacts
    <2>3. CASE DropRequest(c) \/ \E r \in Rows : AskMove(c, r)
        BY <2>3, Facts DEF DropRequest, AskMove, Writing
    <2> QED BY <2>1, <2>2, <2>3
<1> QED BY <1>1, <1>2, TaskStepKeeps, Facts DEF AskRestore, AskDelete, DropRequest, AskMove

LEMMA StartRestoreKeeps ==
    ASSUME GlacierInv, NEW c \in Calls, NEW a \in Appends, StartRestore(c, a)
    PROVE  GlacierInv'
<1> USE GlacierAssumption DEF Actors
<1>0. task[c].arg \in Mails
    BY DEF StartRestore, GlacierInv, Known
<1>1. /\ task' = [task EXCEPT ![c] = task'[c]] /\ task'[c] \in TaskType
      /\ Known(c)' /\ task'[c].at \notin Writing
    BY Facts DEF StartRestore, Rest, TaskType, Steps, Known, Writing
<1>2. /\ outbox' \in [Appends -> [st : {"unused", "pending", "sent", "dead"},
                                  mail : Mails \cup {None}]]
      /\ CarryMail'
    BY <1>0, Facts DEF StartRestore, GlacierInv, CarryMail
<1>3. overtaken' = overtaken /\ destroyed' = destroyed
    BY DEF StartRestore, history
<1>4. CASE task[c].at = "appending"
    <2>0. g.st # "none" /\ g.mail \in Mails /\ g.mail # None
        BY <1>4, Facts DEF Writing
    <2>1. /\ g' \in CopyType /\ g'.mail = g.mail /\ g'.st = "restoring" /\ g'.raw = g.raw
          /\ g'.restored = g.restored /\ g'.origin = g.origin
        BY <1>4, Facts DEF CopyType, StartRestore
    <2>2. CopyFacts' /\ OriginNamesCopy'
        BY <1>3, <2>1 DEF StartRestore, GlacierInv, CopyFacts, OriginNamesCopy
    <2>3. Kept'
        BY <1>3, <2>1, CopyStepKept DEF StartRestore, SafeCopy
    <2> QED BY <1>1, <1>2, <1>3, <2>0, <2>1, <2>2, <2>3, CopyStepKeeps, Facts DEF StartRestore
<1>5. CASE task[c].at = "orphaned"
    <2>1. UNCHANGED <<row, notice, g, mishaps>>
        BY <1>5 DEF StartRestore
    <2>2. task' \in [Actors -> TaskType] /\ \A q \in Actors : task'[q].at \in Writing => g.st # "none"
        BY <1>1, Facts
    <2>3. GlacierTypeOK'
        BY <1>2, <1>3, <2>1, <2>2 DEF GlacierInv, GlacierTypeOK, TaskType
    <2>4. CopyFacts' /\ OriginNamesCopy' /\ Kept'
        BY <1>3, <2>1 DEF GlacierInv, CopyFacts, OriginNamesCopy, Kept, Born, SafeRow, SafeCopy
    <2>5. \A q \in Actors : Known(q)'
        BY <1>1, <2>1, Facts DEF GlacierInv, Known
    <2> QED BY <1>2, <2>3, <2>4, <2>5 DEF GlacierInv
<1> QED BY <1>4, <1>5 DEF StartRestore

LEMMA DeleteKeeps ==
    ASSUME GlacierInv, NEW c \in Calls, DeleteForGood(c) PROVE GlacierInv'
<1> USE GlacierAssumption DEF Actors
<1>0. g.st # "none" /\ g.mail \in Mails /\ g.mail # None
    BY Facts DEF DeleteForGood, At, Writing
<1>1. task' = [task EXCEPT ![c] = task'[c]] /\ task'[c] \in TaskType /\ Known(c)'
    BY Facts DEF DeleteForGood, Rest, TaskType, Steps, Known
<1>2. /\ g' \in CopyType /\ g'.mail = g.mail /\ g'.st = "expunged" /\ g'.raw = "none"
      /\ g'.origin = g.origin
    BY Facts DEF CopyType, DeleteForGood
<1>3. /\ overtaken \subseteq overtaken' /\ overtaken' \subseteq Mails
      /\ destroyed \subseteq destroyed' /\ destroyed' \subseteq Mails
      /\ g.mail \in destroyed' \cup overtaken'
    BY <1>0, Facts DEF DeleteForGood, Note
<1>4. CarryMail' /\ CopyFacts' /\ OriginNamesCopy'
    BY <1>2, <1>3 DEF DeleteForGood, GlacierInv, CarryMail, CopyFacts, OriginNamesCopy
<1>5. Kept'
    BY <1>3, CopyStepKept DEF DeleteForGood
<1> QED BY <1>0, <1>1, <1>2, <1>3, <1>4, <1>5, CopyStepKeeps, Facts DEF DeleteForGood

\* Storage and time.
LEMMA WorldKeeps ==
    ASSUME GlacierInv, Damage \/ TimePasses PROVE GlacierInv'
<1> USE GlacierAssumption
<1>1. /\ g' \in CopyType /\ g'.mail = g.mail /\ g'.st = g.st /\ g'.origin = g.origin
      /\ g'.restored = g.restored /\ g'.visible = g.visible
      /\ g'.raw = g.raw \/ (g.st = "copied" /\ g'.raw = "damaged" /\ g.raw = "whole")
    BY Facts DEF CopyType, Damage, TimePasses
<1>m. mishaps' \in 0..MaxMishaps
    BY Facts DEF Damage, TimePasses, Mishap
<1>2. overtaken' = overtaken /\ destroyed' = destroyed
    BY DEF Damage, TimePasses, history
<1>3. GlacierTypeOK'
    BY <1>1, <1>m, <1>2 DEF Damage, TimePasses, GlacierInv, GlacierTypeOK, CopyType
<1>4. CarryMail' /\ CopyFacts' /\ OriginNamesCopy'
    BY <1>1, <1>2 DEF Damage, TimePasses, GlacierInv, CarryMail, CopyFacts, OriginNamesCopy
<1>5. \A p \in Actors : Known(p)'
    BY DEF Damage, TimePasses, GlacierInv, Known
<1>6. Kept'
    BY <1>1, <1>2, CopyStepKept DEF Damage, TimePasses, SafeCopy
<1> QED BY <1>3, <1>4, <1>5, <1>6 DEF GlacierInv

LEMMA NextKeepsGlacierInv == GlacierInv /\ [GlacierNext]_glacierVars => GlacierInv'
<1> SUFFICES ASSUME GlacierInv, [GlacierNext]_glacierVars PROVE GlacierInv'
    OBVIOUS
<1>1. CASE \E p \in Actors : MoveStep(p)
    <2>1. ASSUME NEW p \in Actors, VerifyMessage(p) PROVE GlacierInv'
        <3>1. /\ task' = [task EXCEPT ![p] = task'[p]] /\ task'[p] \in TaskType
              /\ Known(p)' /\ task'[p].at \notin Writing
            BY <2>1, Facts DEF VerifyMessage, Go, Rest, TaskType, Steps, Known, Writing
        <3> QED BY <2>1, <3>1, VerifyKeeps DEF VerifyMessage
    <2> QED BY <1>1, <2>1, CopyMessageKeeps, ReadDuplicateKeeps, ExpungeDuplicateKeeps,
               ExpungeMessageKeeps, ReadOriginKeeps, WriteOriginKeeps DEF MoveStep
<1>2. CASE StartSweep \/ SweepStep \/ EndSweep \/ CrashSweep \/ \E r \in Rows : Candidate(r)
    BY <1>2, SweepReadKeeps, CandidateKeeps, GlacieredKeeps, WithdrawCopyKeeps, ProgressKeeps,
       ConfirmRestoreKeeps DEF SweepStep
<1>3. CASE \E c \in Calls : RequestStep(c)
    BY <1>3, AskKeeps, StartRestoreKeeps, DeleteKeeps DEF RequestStep
<1>4. CASE ServerStep \/ Damage \/ TimePasses
    BY <1>4, ServerKeeps, WorldKeeps
<1>5. CASE UNCHANGED glacierVars
    BY <1>5 DEF glacierVars, history, GlacierInv, GlacierTypeOK, CarryMail, CopyFacts,
                OriginNamesCopy, Known, Kept, Born, SafeRow, SafeCopy
<1> QED BY <1>1, <1>2, <1>3, <1>4, <1>5 DEF GlacierNext

------------------------------------------------------------------------------
\* Only expunge_message, in either of its places, and resolve_duplicate queue a
\* delete; each for a row the glacier's copy covers, or the mail is recorded.
LEMMA MarksAreCovered ==
    ASSUME GlacierInv, GlacierNext, NEW r \in Rows,
           row[r].st # "marked", row'[r].st = "marked",
           Alone(row[r].mail), row[r].mail \notin overtaken'
    PROVE  g'.mail = row[r].mail /\ g'.raw = "whole" /\ g'.st # "copied"
<1> USE GlacierAssumption
<1>0. row \in [Rows -> RowType] /\ g \in CopyType /\ (g.st # "none" => g.mail \in Mails)
    BY Facts
<1>1. ASSUME NEW p \in Actors, ExpungeDuplicate(p)
      PROVE  g'.mail = row[r].mail /\ g'.raw = "whole" /\ g'.st # "copied"
    <2>1. r = task[p].arg /\ UNCHANGED g
        BY <1>0, <1>1 DEF ExpungeDuplicate, Put
    <2>2. Duplicate(r)
        BY <1>0, <1>1, <2>1 DEF ExpungeDuplicate, Note
    <2> QED BY <1>0, <2>1, <2>2 DEF Duplicate, Alone
<1>2. ASSUME Removable, Matches(g.origin, g.mail), TakeOffServer
      PROVE  g'.mail = row[r].mail /\ g'.raw = "whole" /\ g'.st # "copied"
    <2>1. r = g.origin
        BY <1>0, <1>2 DEF TakeOffServer, Put
    <2>2. g.mail = row[r].mail /\ g.raw = "whole"
        BY <1>0, <1>2, <2>1 DEF Removable, Matches, Alone, GlacierInv, CopyFacts
    <2>3. g'.mail = g.mail /\ g'.raw = g.raw /\ g'.st = "removing"
        BY <1>0, <1>2 DEF TakeOffServer, CopyType
    <2> QED BY <2>2, <2>3
<1>3. ASSUME NEW p \in Actors, MoveStep(p)
      PROVE  g'.mail = row[r].mail /\ g'.raw = "whole" /\ g'.st # "copied"
    BY <1>1, <1>2, <1>3
       DEF MoveStep, CopyMessage, ReadDuplicate, VerifyMessage, ExpungeMessage, ReadOrigin,
           WriteOrigin
<1>4. CASE SweepStep
    BY <1>2, <1>4 DEF SweepStep, ReadRemoval, ConfirmRemoval, WithdrawCopy, ProgressCopied,
                      ProgressVerified, ReadRestore, ConfirmRestore, ReadStale, FailRestore
<1>5. CASE StartSweep \/ EndSweep \/ CrashSweep \/ \E s \in Rows : Candidate(s)
    BY <1>5 DEF StartSweep, EndSweep, CrashSweep, Candidate
<1>6. ASSUME NEW c \in Calls, RequestStep(c) PROVE FALSE
    BY <1>6 DEF RequestStep, AskMove, AskRestore, StartRestore, AskDelete, DeleteForGood,
                DropRequest
<1>7. CASE Damage \/ TimePasses
    BY <1>7 DEF Damage, TimePasses
<1>8. CASE ServerStep
    <2>1. ASSUME NEW s \in Rows, DeleteLands(s) \/ DeleteFails(s) \/ PutBack(s) \/ Mirror(s)
                                 \/ MoveMail(s) \/ MoveLands(s)
          PROVE  FALSE
        BY <1>0, <2>1
           DEF DeleteLands, DeleteFails, PutBack, Mirror, MoveMail, MoveLands, Put, RowType
    <2>2. ASSUME NEW s \in Rows, NEW t \in Rows, Resync(s, t) PROVE FALSE
        BY <1>0, <2>2 DEF Resync, RowType
    <2>3. ASSUME NEW a \in Appends, AppendDies(a) \/ \E s \in Rows : AppendSent(a, s)
          PROVE  FALSE
        BY <1>0, <2>3 DEF AppendDies, AppendSent
    <2> QED BY <1>8, <2>1, <2>2, <2>3 DEF ServerStep
<1> QED BY <1>3, <1>4, <1>5, <1>6, <1>7, <1>8 DEF GlacierNext

\* The invariant holds at every step of glacier/, a person and the server, in
\* every order, whatever commits between a read and its write.
THEOREM GlacierInvariant == GlacierSpec => []GlacierInv
<1>1. GlacierInit => GlacierInv
    BY InitGlacierInv
<1>2. GlacierInv /\ [GlacierNext]_glacierVars => GlacierInv'
    BY NextKeepsGlacierInv
<1> QED BY <1>1, <1>2, PTL DEF GlacierSpec

\* glacier_messages keeps its states, and a write by id that is due finds the row
\* its read saw: what is withdrawn takes the requests that hold its id with it.
THEOREM GlacierTypeCorrect == GlacierSpec => []GlacierTypeOK
<1>1. GlacierInv => GlacierTypeOK
    BY DEF GlacierInv
<1> QED BY <1>1, GlacierInvariant, PTL

\* No mail whose envelope is its own is lost, but one a person deleted for good or
\* one that an overtaken write of the four was about: a row with no delete queued
\* holds it, or a copy that is whole and verified.
THEOREM NothingLost == GlacierSpec => []LostOnlyIfOvertaken
<1>1. GlacierInv => LostOnlyIfOvertaken
    <2> SUFFICES ASSUME GlacierInv, NEW m \in Born \ (destroyed \cup overtaken), Alone(m)
                 PROVE  Holders(m) # {} \/ (g.mail = m /\ g.raw = "whole")
        BY DEF LostOnlyIfOvertaken
    <2>1. SafeRow(m) \/ SafeCopy(m)
        BY DEF GlacierInv, Kept
    <2> QED BY <2>1 DEF SafeRow, SafeCopy, Safe, Holders, OnServer, Shown
<1> QED BY <1>1, GlacierInvariant, PTL

\* expunge_message and resolve_duplicate never take off the server what the
\* glacier does not hold, verified, at that moment, unless the write was overtaken.
THEOREM ExpungeCovered == GlacierSpec => ExpungeIsCovered
<1>1. GlacierInv /\ [GlacierNext]_glacierVars =>
        [\A r \in Rows :
             /\ row[r].st # "marked" /\ row'[r].st = "marked"
             /\ Alone(row[r].mail) /\ row[r].mail \notin overtaken'
             => g'.mail = row[r].mail /\ g'.raw = "whole" /\ g'.st # "copied"]_glacierVars
    BY MarksAreCovered
<1> QED BY <1>1, GlacierInvariant, PTL DEF GlacierSpec, ExpungeIsCovered
==============================================================================
