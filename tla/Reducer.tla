------------------------------ MODULE Reducer ------------------------------
(***************************************************************************)
(* The reducer as a state machine: one action per method of AppState, in   *)
(* any order the client's two threads can call them.  The methods are      *)
(* atomic, every caller holding the mutex around the call.                 *)
(*                                                                         *)
(* One process logs in at most once, because the receiver of the command   *)
(* channel is taken by the first net thread (src/main.rs:56), and nothing  *)
(* but begin_login and login_failed is called before that login.           *)
(***************************************************************************)
EXTENDS AppState

CONSTANTS
    FriendLists,   \* the friend lists a login response may carry
    ApplyLists     \* the apply lists a login response may carry

\* A uid names one user, so no friend list gives it to two friends.
UniqueUids(friends) ==
    \A i, j \in DOMAIN friends :
        friends[i].id = friends[j].id /\ friends[i].id # NoUid => i = j

ASSUME FriendListsAssumption ==
    \A l \in FriendLists : l \in Seq(Friend) /\ UniqueUids(l)
ASSUME ApplyListsAssumption == \A l \in ApplyLists : l \in Seq(FriendApply)

VARIABLE app

LoggedIn == app.my_uid # NoUid

Init == app = New

BeginLogin == app' = begin_login(app)

LoginFailed == app' = login_failed(app)

\* do_login takes the mutex once for both calls.
LoginSucceeded ==
    /\ ~ LoggedIn
    /\ \E uid \in Uid, fs \in FriendLists, as \in ApplyLists :
          app' = seed_applies(login_succeeded(app, uid, fs), as)

ApplyReceived ==
    /\ LoggedIn
    /\ \E uid \in Uid, name \in Name : app' = apply_received(app, uid, name)

\* main.rs sends no approval for uid 0.
ApproveApply ==
    /\ LoggedIn
    /\ \E uid \in Uid : app' = approve_apply(app, uid)

RejectApply ==
    /\ LoggedIn
    /\ \E name \in Name : app' = reject_apply(app, name)

SetSearchResult ==
    /\ LoggedIn
    /\ \E result \in {{}} \cup {{f} : f \in [id : Uid, name : Name]} :
          app' = set_search_result(app, result)

ReceivePush ==
    /\ LoggedIn
    /\ \E uid \in Uid, text \in Text : app' = receive_push(app, uid, text)

OpenConversation ==
    /\ LoggedIn
    /\ \E friend \in Name : app' = open_conversation(app, friend)

SentMessage ==
    /\ LoggedIn
    /\ \E friend \in Name, text \in Text : app' = sent_message(app, friend, text)

Next ==
    \/ BeginLogin \/ LoginFailed \/ LoginSucceeded
    \/ ApplyReceived \/ ApproveApply \/ RejectApply \/ SetSearchResult
    \/ ReceivePush \/ OpenConversation \/ SentMessage

Spec == Init /\ [][Next]_app

-----------------------------------------------------------------------------
(* The type invariant: AppState keeps the shape src/app.rs declares. *)
TypeOK == app \in State

(* No two friends carry the same uid, although uids arrive on three paths: *)
(* the login list, approve_apply and the learning in receive_push.  Were   *)
(* it false, friend_name would file one user's texts under another.        *)
FriendUidsUnique == UniqueUids(app.friends)

(* There is at most one apply per uid, however the login list, repeated    *)
(* 1011 pushes and approvals mix; approve_apply removes just one entry.    *)
ApplyUidsUnique ==
    \A a, b \in app.applies : a.from_uid = b.from_uid => a = b

HasReceived(s, friend) ==
    \E i \in DOMAIN s.conversations[friend] : ~ s.conversations[friend][i].mine

(* The unread markers are exact: the friends marked are those with a       *)
(* received message whose conversation was never opened.  received_message *)
(* tests open only when a message arrives and open_conversation clears the *)
(* marker once, so this needs every order of the two to come out right.    *)
UnreadExact ==
    app.unread = {f \in Name : f \notin app.open /\ HasReceived(app, f)}

AppendStep ==
    /\ app.started \subseteq app.started'
    /\ \A f \in Name :
          \/ app.conversations'[f] = app.conversations[f]
          \/ \E m \in ChatMessage :
                app.conversations'[f] = Append(app.conversations[f], m)

(* A step may only append to a conversation, by at most one message: no    *)
(* method loses, rewrites or reorders what was said.                       *)
AppendOnly == [][AppendStep]_app

StableStep ==
    LoggedIn =>
        /\ DOMAIN app.friends \subseteq DOMAIN app.friends'
        /\ \A i \in DOMAIN app.friends :
              /\ app.friends'[i].name = app.friends[i].name
              /\ app.friends[i].id # NoUid => app.friends'[i].id = app.friends[i].id

(* Once logged in the friend list only grows, an entry keeps its name, and *)
(* a uid that is known or has been learned is never given up or replaced.  *)
(* A conversation's addressee therefore cannot change under the user.      *)
FriendsStable == [][StableStep]_app
=============================================================================
