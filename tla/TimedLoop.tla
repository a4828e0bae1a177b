------------------------------ MODULE TimedLoop ------------------------------
(***************************************************************************)
(* ClientLoop with the clock of request (src/client.rs): the time limit is *)
(* put around each recv and not around the request, so that every frame    *)
(* that is set aside starts it anew.  A step of the loop takes no time;    *)
(* time passes, one tick at a time, while a response is awaited.  At its   *)
(* select the loop has no limit and no tick is counted.                    *)
(*                                                                         *)
(* A frame that is there when the limit ends is taken, for timeout polls   *)
(* recv before its timer; a frame of down may also still be on its way.    *)
(***************************************************************************)
EXTENDS ClientLoop

CONSTANT Limit   \* Client.timeout, in ticks

ASSUME LimitAssumption == Limit \in Nat

VARIABLES
    left,     \* ticks until the recv in progress times out
    waited    \* ticks since the request was sent

clock == <<left, waited>>
timedVars == <<vars, clock>>

TimedInit == Init /\ left = 0 /\ waited = 0

Arm == left' = Limit /\ waited' = 0

\* Mutant: the limit is longer when it starts anew.
RearmDoubled == left' = 2 * Limit /\ UNCHANGED waited

\* The next turn of request's loop calls timeout again.
Rearm == left' = Limit /\ UNCHANGED waited

Disarm == left' = 0 /\ waited' = 0

\* The timer of the recv in progress fires at its end, so that time cannot
\* pass it.
Tick ==
    /\ awaiting # {}
    /\ left > 0
    /\ left' = left - 1
    /\ waited' = waited + 1
    /\ UNCHANGED vars

TimedNetStep ==
    \/ SendRequest /\ Arm
    \/ CollectFrame /\ Rearm
    \/ left = 0 /\ RequestTimeout /\ Disarm
    \/ (AcceptResponse \/ RequestRecvError) /\ Disarm
    \/ (RecvPush \/ ConnectionLost \/ SendFails \/ DispatchDrained) /\ UNCHANGED clock

TimedNext ==
    \/ \E kind \in Kinds : Submit(kind) /\ UNCHANGED clock
    \/ TimedNetStep
    \/ ServerStep /\ UNCHANGED clock
    \/ Tick

TimedSpec == TimedInit /\ [][TimedNext]_timedVars

\* As FairSpec, and time goes on.
TimedFairSpec == TimedSpec /\ WF_timedVars(TimedNetStep) /\ WF_timedVars(Tick)

-----------------------------------------------------------------------------
(* How long a request can take, and with it the commands behind it and the *)
(* pushes it has set aside: not the limit, but one limit for it and one    *)
(* more for every frame that was set aside meanwhile.                      *)
WaitBound ==
    awaiting # {} => waited + left <= Limit * (Len(pending) + 1)
=============================================================================
