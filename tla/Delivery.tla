------------------------------ MODULE Delivery ------------------------------
(***************************************************************************)
(* What the network loop promises a sender of pushes (execute_cmd, the     *)
(* select of run_network and request, seen from outside): a numbered       *)
(* channel that hands over what was sent in the order it was sent, each    *)
(* push once, until the connection breaks.  What is then on its way may    *)
(* still be handed over or be lost, but nothing after something lost.      *)
(* Commands, answers and time limits do not appear.                        *)
(***************************************************************************)
EXTENDS Naturals, Sequences

CONSTANT MaxPushes   \* bound: pushes sent

VARIABLES
    sent,      \* pushes sent so far
    handled,   \* the pushes handed over, in order
    broken     \* the connection is closed or reset

vars == <<sent, handled, broken>>

Init == sent = 0 /\ handled = <<>> /\ broken = FALSE

Send ==
    /\ ~ broken
    /\ sent < MaxPushes
    /\ sent' = sent + 1
    /\ UNCHANGED <<handled, broken>>

Deliver ==
    /\ Len(handled) < sent
    /\ handled' = Append(handled, Len(handled) + 1)
    /\ UNCHANGED <<sent, broken>>

Break ==
    /\ ~ broken
    /\ broken' = TRUE
    /\ UNCHANGED <<sent, handled>>

Next == Send \/ Deliver \/ Break

Spec == Init /\ [][Next]_vars

\* An unbroken connection delivers.
FairSpec == Spec /\ WF_vars(Deliver /\ ~ broken)
=============================================================================
