--------------------------- MODULE MC_KeyedRequests ---------------------------
(* The two protocols behind an idempotency key.  They share no state, so one *)
(* scene is played at a time:                                                *)
(*   race   two requests to send race (a send, its repeat, the same key for  *)
(*          a draft save, a client that lost its guard and sends the draft   *)
(*          without the key); nothing waits long enough for an alert         *)
(*   wait   one request at a time, and messages may wait for ever            *)
(*   file   three requests to file two mails under one key                   *)
EXTENDS SendLifecycle, MailAction

VARIABLE scene

MCRequests ==
    {[key |-> "k1", kind |-> "send", draft |-> "d1"],
     [key |-> "k1", kind |-> "draft", draft |-> "d1"],
     [key |-> None, kind |-> "send", draft |-> "d1"]}

\* Two sends, one of a draft and one of none.
MCApart ==
    {[key |-> None, kind |-> "send", draft |-> "d1"],
     [key |-> None, kind |-> "send", draft |-> None]}

MCAsks == [c \in Calls |-> IF c = "c3" THEN "spam" ELSE "move"]

MCInit == SendInit /\ ActionInit /\ scene \in {"race", "wait", "file"}

MCNext ==
    /\ \/ /\ scene # "file"
          /\ SendNext
          /\ scene = "race" => \A i \in Ids : age'[i] # "old"
          /\ scene = "wait" => pc'["h2"] = "idle"
          /\ UNCHANGED actionVars
       \/ /\ scene = "file"
          /\ ActionNext
          /\ UNCHANGED sendVars
    /\ UNCHANGED scene

MCSpec == MCInit /\ [][MCNext]_<<sendVars, actionVars, scene>> /\ SendFairness
==============================================================================
