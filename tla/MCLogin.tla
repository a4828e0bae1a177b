------------------------------ MODULE MCLogin ------------------------------
(***************************************************************************)
(* Login for TLC: what the gate and the chat server may answer.            *)
(***************************************************************************)
EXTENDS Login

CONSTANTS me, u, m, l   \* my uid, another user's, a friend's name, a label

MCLabel == [v \in Uid |-> l]

GateData == [id |-> me, user |-> m, token |-> m, host |-> m, port |-> 1, email |-> m]

\* With data, without, and refused.
MCGateReplies ==
    {[status |-> 0, data |-> {GateData}], [status |-> 0, data |-> {}], [status |-> 1]}

Friends == <<[name |-> m]>>
Applies == <<[id |-> u, name |-> l, status |-> 0], [id |-> u, name |-> m]>>

Response(body) == [id |-> LOGIN_RESPONSE, body |-> body]

\* A login granted, one without data, one with a friend without a name, a
\* refusal, and an apply that comes first.
MCLoginFrames ==
    {Response([status |-> 0, data |-> {[uid |-> me, token |-> m, friend_list |-> Friends,
                                        apply_list |-> Applies]}]),
     Response([status |-> 0, data |-> {}]),
     Response([status |-> 0, data |-> {[uid |-> me, token |-> m, friend_list |-> <<[id |-> u]>>]}]),
     Response([status |-> 1]),
     [id |-> NOTIFY_ADD_FRIEND, body |-> [applyuid |-> u, name |-> m]]}
=============================================================================
