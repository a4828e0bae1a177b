---------------------------- MODULE MCClientLoop ----------------------------
(***************************************************************************)
(* TimedLoop, and with it ClientLoop, for TLC.  The kinds of push are      *)
(* alike to the loop, so one kind of push next to the 1500 envelope is     *)
(* enough to see any order.                                                *)
(***************************************************************************)
EXTENDS TimedLoop

OnePushId == \A i \in DOMAIN down : IsPush(down[i]) => down[i].id = NOTIFY_TEXT_CHAT

MCNext == TimedNext /\ OnePushId'

MCSpec == TimedInit /\ [][MCNext]_timedVars

MCFairSpec == MCSpec /\ WF_timedVars(TimedNetStep) /\ WF_timedVars(Tick)
=============================================================================
