---------------------------- MODULE MC_GlacierMove ---------------------------
(* Two scenes:                                                               *)
(*   alone    one mail, one more row that PostIMAP may give it, and every    *)
(*            mishap                                                         *)
(*   refill   two mails of different sizes under one Message-ID, a row for   *)
(*            one of them restored, one refused delete, and nobody moves     *)
(*            mail to other folders                                          *)
EXTENDS GlacierMove

CONSTANTS r1, r2, r3, m1, m2

VARIABLE scene

MCEnvelope == [m \in Mails |-> m]

MCOneMail == {[r \in Rows |-> IF r = r1 THEN m1 ELSE None]}
MCTwoMails == {[start EXCEPT ![r2] = m2] : start \in MCOneMail}
MCStarts == MCOneMail \cup MCTwoMails

MCInit ==
    /\ GlacierInit
    /\ scene = IF m2 \in {row[r].mail : r \in Rows} THEN "refill" ELSE "alone"

MCNext ==
    /\ GlacierNext
    /\ scene = "alone" => row'[r3].st = "fresh"
    /\ scene = "refill" =>
          /\ mishaps' # mishaps => mishaps' = 1 /\ notice' # notice
          /\ \A r \in Rows : row'[r].st # "moving"
    /\ UNCHANGED scene

MCSpec == MCInit /\ [][MCNext]_<<glacierVars, scene>> /\ GlacierFairness
==============================================================================
