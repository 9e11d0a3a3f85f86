--------------------------- MODULE RefundPromise ---------------------------
(***************************************************************************)
(* What the refund workflow promises for a card refund, whatever fails on  *)
(* the way: nothing is paid before a manager approved it, a case is paid   *)
(* at most once, and it is done only after it was paid.                    *)
(***************************************************************************)
EXTENDS Naturals

CONSTANT Cases
VARIABLES state, paid

Init ==
    /\ state = [c \in Cases |-> "open"]
    /\ paid = [c \in Cases |-> 0]

Approve(c) ==
    /\ state[c] = "open"
    /\ state' = [state EXCEPT ![c] = "approved"]
    /\ UNCHANGED paid

Pay(c) ==
    /\ state[c] = "approved"
    /\ paid[c] = 0
    /\ paid' = [paid EXCEPT ![c] = 1]
    /\ UNCHANGED state

Finish(c) ==
    /\ state[c] = "approved"
    /\ paid[c] = 1
    /\ state' = [state EXCEPT ![c] = "done"]
    /\ UNCHANGED paid

Next == \E c \in Cases : Approve(c) \/ Pay(c) \/ Finish(c)

Spec == Init /\ [][Next]_<<state, paid>>
=============================================================================
