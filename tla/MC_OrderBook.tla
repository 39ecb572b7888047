------------------------------ MODULE MC_OrderBook ------------------------------
(* One item is in an order when the register is opened, the other is new.     *)
(* Scenes:                                                                    *)
(*   one    one worker, whose calls fail and whose process is killed, while a *)
(*          person detaches a mail or deletes a file                          *)
(*   two    two workers, no call that raises, two edits, of which only the    *)
(*          first may be the order's deletion                                 *)
(*   late   one order and two workers: one's calls fail, and it loses its     *)
(*          lease once while it lives; nobody dies, and a person makes an     *)
(*          edit, but asks for no rewrite                                     *)
(*   open   one worker, no call that raises, and no edits: a person, the      *)
(*          texts and the automatic close decide what is open (it stays open  *)
(*          in the other scenes)                                              *)
(* A configuration that looks for one history may have the scene "all", with  *)
(* nothing held back.                                                         *)
EXTENDS OrderBook

CONSTANT Scenes

InOne(i) == [j \in Items |-> IF j = i THEN "o1" ELSE Nowhere]
OneOrder == {InOne(i) : i \in Items}

VARIABLE scene

MCInit == OrderInit /\ scene \in Scenes

\* Nothing is taken back that w has in hand.
Kept(w) == \A j \in Items \cup Rows : job[j].by = w => job'[j] = job[j]

Smooth(w) == at'[w].pc \notin {"raised", "settle"}

One == edit'.kind \notin {"merge", "delete"}

Two ==
    /\ \A w \in Workers : Smooth(w)
    /\ edit'.kind = "delete" => edits' = 1

Late ==
    /\ \A o \in Orders \ {"o1"} : order'[o] = Unwritten
    /\ ~\E o \in Orders : Rewrite(o)
    /\ Smooth("b")
    /\ \A j \in Items \cup Rows : job'[j].by # Gone
    /\ losses' # losses => Kept("b")

MCNext ==
    /\ OrderNext
    /\ scene = "one" => One
    /\ scene = "two" => Two
    /\ scene = "late" => Late
    /\ scene = "open" => Smooth("a")
    /\ scene \in {"one", "open"} => at'["b"] = Resting
    /\ scene \in {"two", "open"} => losses' = 0
    /\ edits' <= CASE scene \in {"one", "late"} -> 1 [] scene = "open" -> 0 [] OTHER -> MaxEdits
    /\ scene \in {"one", "two", "late"} => \A o \in Orders : order'[o].open /\ order'[o].owner = "ai"
    /\ UNCHANGED scene

MCSpec == MCInit /\ [][MCNext]_<<orderVars, scene>> /\ WF_orderVars(Reclaim({}))
==============================================================================
