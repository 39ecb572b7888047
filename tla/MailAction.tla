------------------------------ MODULE MailAction ------------------------------
(***************************************************************************)
(* A keyed filing of mail: POST .../bulk-action and .../action in          *)
(* api/mails.py under run_once of mail_actions/submissions.py.  A client   *)
(* repeats a request whose answer it did not get; meanwhile the person and *)
(* other clients move the mail.                                            *)
(*                                                                         *)
(* A request is claimed in one transaction, applied in several, and its    *)
(* answer stored in one more.  "move" writes all its mail in one           *)
(* transaction, "spam" rules on one mail after the other                   *)
(* (apply_human_ruling).  Every mail is named with the folder the client   *)
(* saw it in (expected_folder_ids).  One key; the response is kept as the  *)
(* fact that there is one.  Actions that file nothing, conversations and   *)
(* mail in the glacier are left out.                                       *)
(***************************************************************************)
EXTENDS Integers, FiniteSets

CONSTANTS
    Calls,          \* requests that carry the key, each with a token of its own
    Asks,           \* Asks[c]: "move" or "spam", the fingerprint of request c
    NoCall,
    Mails,
    Source,         \* the folder the client saw the mail in
    Target,         \* the folder the action files it into
    Elsewhere,      \* the folder somebody else files it into
    Abandoned,      \* _ABANDONED_AFTER_SECONDS, in heartbeat intervals
    Prompt,         \* requests whose heartbeats are never late
    MaxMoves        \* bound: moves made by others

ASSUME ActionAssumption ==
    /\ NoCall \notin Calls
    /\ Asks \in [Calls -> {"move", "spam"}]
    /\ Source # Target /\ Source # Elsewhere /\ Target # Elsewhere
    /\ Abandoned \in Nat \ {0}
    /\ Prompt \subseteq Calls
    /\ MaxMoves \in Nat

VARIABLES
    at,             \* at[m]: messages.folder_id
    token,          \* the key's row: claim_token, NoCall when there is no row
    asked,          \* its fingerprint
    answered,       \* it has a response
    quiet,          \* heartbeat intervals since heartbeat_at
    where,          \* where[c]: what request c does next
    todo,           \* todo[c]: mail that passed its check and is to be written
    moves,          \* moves by others so far (bounded)
    filings,        \* history: filings[m], how often the key's requests filed m
    broken          \* history: a request died, failed or lost its claim half way

keyVars == <<token, asked, answered, quiet>>
callVars == <<where, todo>>
actionVars == <<at, keyVars, callVars, moves, filings, broken>>

Running(c) == where[c] \in {"check", "write", "store", "release"}

\* The heartbeat lives as long as the action: it is stopped before the answer
\* is stored and before a failing request drops its claim.
Beating(c) == where[c] \in {"check", "write"}

ActionTypeOK ==
    /\ at \in [Mails -> {Source, Target, Elsewhere}]
    /\ token \in Calls \cup {NoCall}
    /\ asked \in {"move", "spam"}
    /\ answered \in BOOLEAN
    /\ quiet \in 0..(Abandoned + 1)
    /\ where \in [Calls -> {"idle", "check", "write", "store", "release", "over"}]
    /\ todo \in [Calls -> SUBSET Mails]
    /\ moves \in 0..MaxMoves
    /\ filings \in [Mails -> Nat]
    /\ broken \in BOOLEAN

ActionInit ==
    /\ at = [m \in Mails |-> Source]
    /\ token = NoCall
    /\ asked = "move"
    /\ answered = FALSE
    /\ quiet = 0
    /\ where = [c \in Calls |-> "idle"]
    /\ todo = [c \in Calls |-> {}]
    /\ moves = 0
    /\ filings = [m \in Mails |-> 0]
    /\ broken = FALSE

------------------------------------------------------------------------------
\* Mutant: a claim is taken over as soon as a repeat arrives.
TakenAtOnce == TRUE

\* heartbeat_at < now() - _ABANDONED_AFTER_SECONDS
Silent == quiet > Abandoned

\* run_once up to its first commit: the key is new, or its claim abandoned.
Claim(c) ==
    /\ where[c] = "idle"
    /\ \/ token = NoCall
       \/ asked = Asks[c] /\ ~answered /\ Silent
    /\ token' = c
    /\ asked' = Asks[c]
    /\ quiet' = 0
    /\ where' = [where EXCEPT ![c] = "check"]
    /\ broken' = (broken \/ (token # NoCall /\ ~(token \in Prompt /\ Beating(token))))
    /\ UNCHANGED <<at, answered, todo, moves, filings>>

\* 409, 503, or the stored response.
Refuse(c) ==
    /\ where[c] = "idle"
    /\ token # NoCall
    /\ asked # Asks[c] \/ answered \/ ~Silent
    /\ where' = [where EXCEPT ![c] = "over"]
    /\ UNCHANGED <<at, keyVars, todo, moves, filings, broken>>

\* The check before the write: mail not where the client saw it is skipped,
\* mail already in the target folder is done.
Check(c) ==
    /\ where[c] = "check"
    /\ todo' = [todo EXCEPT ![c] = {m \in Mails : at[m] = Source}]
    /\ where' = [where EXCEPT ![c] = IF todo'[c] = {} THEN "store" ELSE "write"]
    /\ UNCHANGED <<at, keyVars, moves, filings, broken>>

\* move_messages_from: WHERE folder_id = :source
Guarded(S) == {m \in S : at[m] = Source}

\* One transaction of the action: all mail of a move, one mail of a ruling.
Write(c) ==
    /\ where[c] = "write"
    /\ \E S \in SUBSET todo[c] :
          /\ S # {}
          /\ IF Asks[c] = "move" THEN S = todo[c] ELSE Cardinality(S) = 1
          /\ at' = [m \in Mails |-> IF m \in Guarded(S) THEN Target ELSE at[m]]
          /\ filings' = [m \in Mails |-> IF m \in Guarded(S) THEN filings[m] + 1 ELSE filings[m]]
          /\ todo' = [todo EXCEPT ![c] = @ \ S]
          /\ where' = [where EXCEPT ![c] = IF S = todo[c] THEN "store" ELSE "write"]
    /\ UNCHANGED <<keyVars, moves, broken>>

\* UPDATE ... SET response WHERE claim_token = :token
Store(c) ==
    /\ where[c] = "store"
    /\ answered' = (answered \/ token = c)
    /\ where' = [where EXCEPT ![c] = "over"]
    /\ UNCHANGED <<at, token, asked, quiet, todo, moves, filings, broken>>

\* The action raises, or answers success=false.  One that wrote nothing yet
\* leaves nothing half done.
FailAction(c) ==
    /\ Beating(c)
    /\ where' = [where EXCEPT ![c] = "release"]
    /\ todo' = [todo EXCEPT ![c] = {}]
    /\ broken' = (broken \/ \E m \in Mails : filings[m] > 0)
    /\ UNCHANGED <<at, keyVars, moves, filings>>

\* Mutant: a failing request drops the claim whoever holds it.
ReleaseAny(c) ==
    /\ where[c] = "release"
    /\ token' = NoCall
    /\ where' = [where EXCEPT ![c] = "over"]
    /\ UNCHANGED <<at, asked, answered, quiet, todo, moves, filings, broken>>

\* _release: only this request's own unfinished claim.
Release(c) ==
    /\ where[c] = "release"
    /\ token' = IF token = c /\ ~answered THEN NoCall ELSE token
    /\ where' = [where EXCEPT ![c] = "over"]
    /\ UNCHANGED <<at, asked, answered, quiet, todo, moves, filings, broken>>

\* The process dies: the claim stays.
DieRunning(c) ==
    /\ Running(c)
    /\ where' = [where EXCEPT ![c] = "over"]
    /\ todo' = [todo EXCEPT ![c] = {}]
    /\ broken' = TRUE
    /\ UNCHANGED <<at, keyVars, moves, filings>>

\* The client sends the request again: a new request with the same key.
Repeat(c) ==
    /\ where[c] = "over"
    /\ where' = [where EXCEPT ![c] = "idle"]
    /\ UNCHANGED <<at, keyVars, todo, moves, filings, broken>>

\* _beat
BeatClaim(c) ==
    /\ Beating(c)
    /\ token = c
    /\ quiet > 0
    /\ quiet' = 0
    /\ UNCHANGED <<at, token, asked, answered, callVars, moves, filings, broken>>

\* A heartbeat interval passes; a prompt request beats within each, as long as
\* its heartbeat lives.
Interval ==
    /\ quiet <= Abandoned
    /\ \A c \in Prompt : Beating(c) /\ token = c => quiet = 0
    /\ quiet' = quiet + 1
    /\ UNCHANGED <<at, token, asked, answered, callVars, moves, filings, broken>>

\* prune_submissions_once, long after the last request of the key is over.
Prune ==
    /\ token # NoCall
    /\ Silent
    /\ \A c \in Calls : ~Running(c)
    /\ token' = NoCall
    /\ answered' = FALSE
    /\ filings' = [m \in Mails |-> 0]
    /\ broken' = FALSE
    /\ UNCHANGED <<at, asked, quiet, callVars, moves>>

\* The person, or another client, files the mail.
MoveByOthers(m, f) ==
    /\ moves < MaxMoves
    /\ at[m] # f
    /\ f \in {Source, Elsewhere}
    /\ at' = [at EXCEPT ![m] = f]
    /\ moves' = moves + 1
    /\ UNCHANGED <<keyVars, callVars, filings, broken>>

CallStep(c) ==
    \/ Claim(c) \/ Refuse(c) \/ Check(c) \/ Write(c) \/ Store(c)
    \/ FailAction(c) \/ Release(c) \/ DieRunning(c) \/ Repeat(c) \/ BeatClaim(c)

ActionNext ==
    \/ \E c \in Calls : CallStep(c)
    \/ \E m \in Mails, f \in {Source, Elsewhere} : MoveByOthers(m, f)
    \/ Interval \/ Prune

ActionSpec == ActionInit /\ [][ActionNext]_actionVars

------------------------------------------------------------------------------
\* "A keyed message action is applied once, however often the request that
\* carries it arrives": unless one of them died, failed half way, or was taken
\* over after a late beat or while it stored its answer, the key's requests
\* file a mail at most once -- also when the person has moved the mail back
\* since and a repeat finds it where it was.
AppliedOnce == ~broken => \A m \in Mails : filings[m] <= 1

\* "However long the action takes, a repeat never mistakes it for abandoned",
\* and a request whose claim was taken over "releases only its own claim,
\* never one another request has since taken over": the claim of a request
\* that beats in time stands until its action is over.
PromptKeepsItsClaim == \A c \in Prompt : Beating(c) => token = c
==============================================================================
