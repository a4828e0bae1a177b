----------------------------- MODULE MCReducer -----------------------------
(***************************************************************************)
(* Bounds for checking Reducer with TLC.  Two users and the friends' two   *)
(* kinds of entry: one whose uid the server supplied and one whose uid is  *)
(* still to be learned.                                                    *)
(***************************************************************************)
EXTENDS Reducer

CONSTANTS
    u1, u2,            \* two uids
    a, l1, l2,         \* a display name and the labels of u1 and u2
    MaxMessages        \* bound: messages in all conversations together

MCUidLabel == [u \in Uid |-> IF u = u1 THEN l1 ELSE l2]

Known == [id |-> u1, name |-> a]
Unknown == [id |-> NoUid, name |-> a]
Other == [id |-> NoUid, name |-> l2]

MCFriendLists == {<<>>, <<Known>>, <<Unknown>>, <<Unknown, Known>>, <<Unknown, Other>>}

Apply(uid, status) == [from_uid |-> uid, name |-> a, status |-> status]

MCApplyLists ==
    {<<>>, <<Apply(u1, 1), Apply(u1, 0)>>, <<Apply(u2, 0), Apply(NoUid, 0)>>}

\* Bounds on the inputs and on the history: pushed applies carry the name a,
\* the one user to be found is u1, and conversations stay short.
Bounded ==
    /\ Len(app.conversations[a]) + Len(app.conversations[l1])
         + Len(app.conversations[l2]) <= MaxMessages
    /\ \A p \in app.applies : p.name = a
    /\ app.search_result \subseteq {Known}

MCNext == Next /\ Bounded'

MCSpec == Init /\ [][MCNext]_app
=============================================================================
