--------------------------- MODULE TimedLoopProofs ---------------------------
(***************************************************************************)
(* The loop with its clock, for any limit and any number of commands and   *)
(* pushes.  It is ClientLoop, so the theorems about that hold of it, and a *)
(* request can wait no longer than WaitBound says.  That bound is          *)
(* inductive with the types of the clock.                                  *)
(***************************************************************************)
EXTENDS TimedLoop, ClientLoopProofs

ClockOK == left \in Nat /\ waited \in Nat

(* With the clock left out every step is one of ClientLoop, or none.       *)
LEMMA TimedStepIsUntimed == [TimedNext]_timedVars => [Next]_vars
BY DEF TimedNext, TimedNetStep, Next, NetStep, Tick, timedVars

(* The clock only takes behaviours away.                                   *)
THEOREM TimedLoopIsClientLoop == TimedSpec => Spec
<1>1. TimedInit => Init
  BY DEF TimedInit
<1>. QED
  BY <1>1, TimedStepIsUntimed, PTL DEF TimedSpec, Spec

(* Setting a frame aside makes pending longer by one.                      *)
LEMMA CollectLengthens ==
    ASSUME TypeOK, CollectFrame
    PROVE  Len(pending') = Len(pending) + 1 /\ Len(pending) \in Nat
BY DEF CollectFrame, TypeOK

(* The bound grows by one limit with every frame.                          *)
LEMMA OneMoreLimit ==
    ASSUME NEW l \in Nat, NEW n \in Nat
    PROVE  l * (n + 1 + 1) = l * (n + 1) + l /\ l * (n + 1) \in Nat /\ l <= l * (n + 1)
<1>1. l * (n + 1 + 1) = l * (n + 1) + l
  OBVIOUS
<1>2. l * n \in Nat /\ l * (n + 1) = l * n + l
  OBVIOUS
<1>. QED
  BY <1>1, <1>2

(* The clock's types and the bound are kept by every step.                 *)
LEMMA NextWaitBound ==
    TypeOK /\ Places /\ ClockOK /\ WaitBound /\ [TimedNext]_timedVars => ClockOK' /\ WaitBound'
<1> SUFFICES ASSUME TypeOK, Places, ClockOK, WaitBound, [TimedNext]_timedVars
             PROVE  ClockOK' /\ WaitBound'
  OBVIOUS
<1>1. Limit \in Nat /\ Len(pending) \in Nat
  BY LimitAssumption DEF TypeOK
<1>2. CASE SendRequest /\ Arm
  <2>1. pending' = <<>> /\ left' = Limit /\ waited' = 0
    BY <1>2 DEF SendRequest, Arm, AtSelect, Places
  <2>. QED
    BY <1>1, <2>1 DEF ClockOK, WaitBound
<1>3. CASE CollectFrame /\ Rearm
  <2>1. left' = Limit /\ waited' = waited /\ awaiting # {}
    BY <1>3 DEF CollectFrame, Rearm
  <2>2. Len(pending') = Len(pending) + 1
    BY <1>3, CollectLengthens
  <2>3. Limit * (Len(pending) + 1 + 1) = Limit * (Len(pending) + 1) + Limit
        /\ Limit * (Len(pending) + 1) \in Nat
    BY <1>1, OneMoreLimit
  <2>4. waited + left <= Limit * (Len(pending) + 1)
    BY <2>1 DEF WaitBound
  <2>5. waited + Limit <= Limit * (Len(pending) + 1) + Limit
    BY <1>1, <2>3, <2>4 DEF ClockOK
  <2>. QED
    BY <1>1, <2>1, <2>2, <2>3, <2>5 DEF ClockOK, WaitBound
<1>4. CASE (RequestTimeout \/ AcceptResponse \/ RequestRecvError) /\ Disarm
  BY <1>4 DEF RequestTimeout, AcceptResponse, RequestRecvError, Finish, Disarm, ClockOK, WaitBound
<1>5. CASE (RecvPush \/ ConnectionLost \/ SendFails \/ DispatchDrained) /\ UNCHANGED clock
  BY <1>5 DEF RecvPush, ConnectionLost, SendFails, DispatchDrained, Finish, AtSelect, Places,
      clock, client, ClockOK, WaitBound
<1>6. CASE ((\E kind \in Kinds : Submit(kind)) \/ ServerStep) /\ UNCHANGED clock
  BY <1>6 DEF Submit, ServerStep, Answer, AnswerInvalid, Push, Close, client, clock, ClockOK,
      WaitBound
<1>7. CASE Tick
  BY <1>7 DEF Tick, vars, ClockOK, WaitBound
<1>8. CASE UNCHANGED timedVars
  BY <1>8 DEF timedVars, vars, clock, ClockOK, WaitBound
<1>. QED
  BY <1>2, <1>3, <1>4, <1>5, <1>6, <1>7, <1>8 DEF TimedNext, TimedNetStep

(* A request waits no longer than its limit and one limit more for every   *)
(* frame set aside, whatever the server sends and however long it takes.   *)
THEOREM TimedLoopWaitBound == TimedSpec => []WaitBound
<1>1. TimedInit => ClockOK /\ WaitBound
  BY DEF TimedInit, Init, ClockOK, WaitBound
<1>2. TimedSpec => [](TypeOK /\ Places)
  <2>1. IInv => TypeOK /\ Places
    BY DEF IInv
  <2>. QED
    BY <2>1, SpecIInv, TimedLoopIsClientLoop, PTL
<1>. QED
  BY <1>1, <1>2, NextWaitBound, PTL DEF TimedSpec

(* Pushes keep their order and none is lost while the connection is up,    *)
(* also when time limits end when they do.                                 *)
THEOREM TimedLoopPushes == TimedSpec => [](PushesInOrder /\ NoPushLost)
BY TimedLoopIsClientLoop, ClientLoopPushesInOrder, ClientLoopNoPushLost, PTL
=============================================================================
