--------------------------- MODULE WriteOnceStore ---------------------------
(* What the content-addressed store promises its readers: a slot is empty  *)
(* until it holds, in one step, the whole tree it is named after, and then *)
(* never changes again.                                                    *)
CONSTANTS Tree, NoTree

VARIABLE slot

Init == slot = [t \in Tree |-> NoTree]

Admit(t) ==
    /\ slot[t] = NoTree
    /\ slot' = [slot EXCEPT ![t] = t]

Next == \E t \in Tree : Admit(t)

Spec == Init /\ [][Next]_slot
=============================================================================
