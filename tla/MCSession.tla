----------------------------- MODULE MCSession -----------------------------
(***************************************************************************)
(* Sessions of three users for TLC: me, u1 = alice and u2 = bob.           *)
(***************************************************************************)
EXTENDS Session

CONSTANTS
    me, u1, u2,                  \* uids
    self, alice, bob, lm, l1, l2, none \* names, and the labels of the uids

MCUserName == [u \in Uid |-> CASE u = me -> self [] u = u1 -> alice [] u = u2 -> bob]
MCUidLabel == [u \in Uid |-> CASE u = me -> lm [] u = u1 -> l1 [] u = u2 -> l2]

\* bob is on my chat server
TextsOfAll == [u \in Uid |-> IF u = u2 THEN {NOTIFY_AUTH_FRIEND} ELSE {NOTIFY_TEXT_CHAT}]
TextsOfOthers == [u \in Uid |-> IF u = me THEN {} ELSE TextsOfAll[u]]

MCText == 1 .. (IF MaxPushes > MaxSends THEN MaxPushes ELSE MaxSends)

Alice == [id |-> u1, name |-> alice]
BobUnknown == [id |-> NoUid, name |-> bob]
BobApply == [from_uid |-> u2, name |-> bob, status |-> 0]

\* alice's uid is supplied, bob's is left for the client to learn
OneUnknown == <<Alice, BobUnknown>>
OnlyAlice == <<Alice>>
AliceUnknown == <<[id |-> NoUid, name |-> alice]>>
Nobody == <<>>
BobApplies == <<BobApply>>
=============================================================================
