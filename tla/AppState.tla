------------------------------ MODULE AppState ------------------------------
(***************************************************************************)
(* The reducer of the chat client (src/app.rs): the record AppState and    *)
(* one operator per method, each mapping a state and its arguments to the  *)
(* next state.  There are no variables here: Reducer makes a state machine *)
(* of these operators and Session runs them from two threads.              *)
(*                                                                         *)
(* What the Vecs become.  friends is a sequence, as in the code, because   *)
(* entries are changed in place.  conversations holds at most one entry    *)
(* per friend, so it is a function from names to messages, with started    *)
(* the names that have an entry.  open, unread and applies are sets:       *)
(* nothing below depends on their order, but for approve_apply_uid, which  *)
(* takes the first apply of a name and is stated as the set of the uids it *)
(* may answer.                                                             *)
(***************************************************************************)
EXTENDS Naturals, Sequences

CONSTANTS
    Uid,       \* the uids the server hands out
    NoUid,     \* uid 0: "the server did not supply one"
    Name,      \* display names, and the labels of unknown senders
    Text,      \* message contents
    UidLabel   \* uid |-> its label, format!("uid:{uid}")

ASSUME NoUidAssumption == NoUid \notin Uid
ASSUME UidLabelAssumption == UidLabel \in [Uid -> Name]

AnyUid == Uid \cup {NoUid}
LoginStatus == {"Idle", "Connecting", "Connected", "Failed"}
Friend == [id : AnyUid, name : Name]
ChatMessage == [mine : BOOLEAN, text : Text]

\* status: 0 pending, 1 accepted
FriendApply == [from_uid : AnyUid, name : Name, status : {0, 1}]

State ==
    [login_status  : LoginStatus,
     my_uid        : AnyUid,
     friends       : Seq(Friend),
     conversations : [Name -> Seq(ChatMessage)],
     started       : SUBSET Name,
     open          : SUBSET Name,
     unread        : SUBSET Name,
     applies       : SUBSET FriendApply,
     search_result : {{}} \cup {{f} : f \in Friend}]

New ==
    [login_status  |-> "Idle",
     my_uid        |-> NoUid,
     friends       |-> <<>>,
     conversations |-> [f \in Name |-> <<>>],
     started       |-> {},
     open          |-> {},
     unread        |-> {},
     applies       |-> {},
     search_result |-> {}]

-----------------------------------------------------------------------------
(* Queries. *)

is_friend(s, uid) == \E i \in DOMAIN s.friends : s.friends[i].id = uid

has_apply(s, uid) == \E a \in s.applies : a.from_uid = uid

\* The uid behind a friend's name; 0 when there is none (unwrap_or(0)).
friend_uid(s, name) ==
    LET Named == {i \in DOMAIN s.friends : s.friends[i].name = name}
    IN  IF Named = {}
        THEN NoUid
        ELSE s.friends[CHOOSE i \in Named : \A j \in Named : i <= j].id

\* The name a push is filed under.  No two friends share a uid (see
\* FriendUidsUnique in Reducer), so which of the matches is taken is moot.
friend_for_uid(s, uid) ==
    IF is_friend(s, uid)
    THEN s.friends[CHOOSE i \in DOMAIN s.friends : s.friends[i].id = uid].name
    ELSE UidLabel[uid]

\* The uids approve_apply_uid may answer for a display name.
approve_apply_uids(s, name) ==
    {a.from_uid : a \in {b \in s.applies : b.name = name}}

search_uid(s) ==
    IF s.search_result = {} THEN NoUid ELSE (CHOOSE f \in s.search_result : TRUE).id

-----------------------------------------------------------------------------
(* The login lifecycle. *)

begin_login(s) == [s EXCEPT !.login_status = "Connecting"]

login_failed(s) == [s EXCEPT !.login_status = "Failed"]

login_succeeded(s, uid, friends) ==
    [s EXCEPT !.login_status = "Connected", !.my_uid = uid, !.friends = friends]

\* Mutant: an apply the reducer already has is added again.
seed_applies_again(s, list) == [s EXCEPT !.applies = @ \cup {list[i] : i \in DOMAIN list}]

\* Of several applies with one uid only the first is kept, and none when the
\* reducer already has one.
seed_applies(s, list) ==
    LET fresh(i) == /\ ~ has_apply(s, list[i].from_uid)
                    /\ \A j \in 1 .. (i - 1) : list[j].from_uid # list[i].from_uid
    IN  [s EXCEPT !.applies = @ \cup {list[i] : i \in {k \in DOMAIN list : fresh(k)}}]

-----------------------------------------------------------------------------
(* Friend applies and search. *)

apply_received(s, uid, name) ==
    IF has_apply(s, uid)
    THEN s
    ELSE [s EXCEPT !.applies = @ \cup {[from_uid |-> uid, name |-> name, status |-> 0]}]

\* Mutant: a user who is a friend already is added again.
approve_apply_unchecked(s, uid) ==
    IF ~ has_apply(s, uid)
    THEN s
    ELSE LET apply == CHOOSE a \in s.applies : a.from_uid = uid
         IN  [s EXCEPT !.applies = @ \ {apply},
                       !.friends = Append(@, [id |-> uid, name |-> apply.name])]

approve_apply(s, uid) ==
    IF ~ has_apply(s, uid)
    THEN s
    ELSE LET apply == CHOOSE a \in s.applies : a.from_uid = uid
         IN  [s EXCEPT !.applies = @ \ {apply},
                       !.friends = IF is_friend(s, uid)
                                   THEN @
                                   ELSE Append(@, [id |-> uid, name |-> apply.name])]

\* Mutant: the apply is kept with a status nobody else knows.
reject_apply_marked(s, name) ==
    [s EXCEPT !.applies = {IF a.name = name THEN [a EXCEPT !.status = 2] ELSE a : a \in @}]

reject_apply(s, name) == [s EXCEPT !.applies = {a \in @ : a.name # name}]

\* Mutant: a result already stored is kept.
set_search_result_once(s, result) ==
    [s EXCEPT !.search_result = IF s.search_result = {} THEN result ELSE s.search_result]

set_search_result(s, result) == [s EXCEPT !.search_result = result]

-----------------------------------------------------------------------------
(* Conversations. *)

push_to_conversation(s, friend, msg) ==
    [s EXCEPT !.conversations[friend] = Append(@, msg), !.started = @ \cup {friend}]

\* Mutant: a conversation starts anew whenever it is opened.
open_conversation_anew(s, friend) ==
    [s EXCEPT !.conversations[friend] = <<>>,
              !.started = @ \cup {friend},
              !.open = @ \cup {friend},
              !.unread = @ \ {friend}]

open_conversation(s, friend) ==
    [s EXCEPT !.started = @ \cup {friend},
              !.open = @ \cup {friend},
              !.unread = @ \ {friend}]

sent_message(s, friend, text) ==
    push_to_conversation(s, friend, [mine |-> TRUE, text |-> text])

\* Mutant: an open conversation is marked too.
received_message_marking(s, friend, text) ==
    [push_to_conversation(s, friend, [mine |-> FALSE, text |-> text])
        EXCEPT !.unread = @ \cup {friend}]

received_message(s, friend, text) ==
    [push_to_conversation(s, friend, [mine |-> FALSE, text |-> text])
        EXCEPT !.unread = IF friend \in s.open THEN @ ELSE @ \cup {friend}]

\* Mutant: a single friend takes any sender's uid, its own being known or not.
learn_uid_of_only_friend(s, uid) ==
    IF ~ is_friend(s, uid) /\ Len(s.friends) = 1
    THEN [s EXCEPT !.friends[1].id = uid]
    ELSE s

\* Mutant: the uid of a friend is given to another one too.
learn_uid_again(s, uid) ==
    LET Unknown == {i \in DOMAIN s.friends : s.friends[i].id = NoUid}
    IN  IF \E i \in Unknown : Unknown = {i}
        THEN [s EXCEPT !.friends[CHOOSE i \in Unknown : TRUE].id = uid]
        ELSE s

\* Give the sender's uid to the friend whose uid is unknown, if the sender is
\* nobody's and there is exactly one such friend.
learn_uid(s, uid) ==
    LET Unknown == {i \in DOMAIN s.friends : s.friends[i].id = NoUid}
    IN  IF ~ is_friend(s, uid) /\ \E i \in Unknown : Unknown = {i}
        THEN [s EXCEPT !.friends[CHOOSE i \in Unknown : TRUE].id = uid]
        ELSE s

receive_push(s, uid, text) ==
    LET learned == learn_uid(s, uid)
    IN  received_message(learned, friend_for_uid(learned, uid), text)
=============================================================================
