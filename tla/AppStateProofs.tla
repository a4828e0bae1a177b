--------------------------- MODULE AppStateProofs ---------------------------
(***************************************************************************)
(* What the methods of AppState keep and change, for every state and       *)
(* argument: the lemmas the proofs about Reducer, Login and Session share. *)
(***************************************************************************)
EXTENDS AppState, WellFoundedInduction, TLAPS

(* The queue of closures: one more at its end, and without its first.      *)
LEMMA Queued ==
    ASSUME NEW S, NEW q \in Seq(S), NEW c \in S, NEW r, r = Append(q, c)
    PROVE  /\ r \in Seq(S)
           /\ \A i \in DOMAIN r : r[i] = c \/ (i \in DOMAIN q /\ r[i] = q[i])
OBVIOUS

(* And without its first.                                                  *)
LEMMA Dequeued ==
    ASSUME NEW S, NEW q \in Seq(S), q # <<>>, NEW r, r = Tail(q)
    PROVE  /\ r \in Seq(S) /\ Head(q) \in S
           /\ Head(q) = q[1] /\ 1 \in DOMAIN q
           /\ \A i \in DOMAIN r : i + 1 \in DOMAIN q /\ r[i] = q[i + 1]
OBVIOUS

-----------------------------------------------------------------------------
(* The login. *)

(* Of the entries of a list with one uid there is a first.                 *)
LEMMA FirstOfUid ==
    ASSUME NEW list \in Seq(FriendApply), NEW i \in DOMAIN list
    PROVE  \E k \in DOMAIN list :
              /\ list[k].from_uid = list[i].from_uid
              /\ \A j \in 1 .. (k - 1) : list[j].from_uid # list[i].from_uid
<1> DEFINE Same == {k \in DOMAIN list : list[k].from_uid = list[i].from_uid}
<1>1. Same \subseteq Nat /\ Same # {}
  OBVIOUS
<1>2. PICK k \in Same : \A j \in Same : ~ (<<j, k>> \in OpToRel(<, Nat))
  BY <1>1, NatLessThanWellFounded, WFMin
<1>3. \A j \in Same : ~ (j < k)
  BY <1>1, <1>2 DEF OpToRel
<1>4. DOMAIN list = 1 .. Len(list) /\ Len(list) \in Nat
  OBVIOUS
<1>. QED
  BY <1>3, <1>4

(* A state without applies takes over the uids of the list, and nothing    *)
(* but its applies changes.                                                *)
LEMMA SeedEmpty ==
    ASSUME NEW s \in State, s.applies = {}, NEW list \in Seq(FriendApply)
    PROVE  /\ seed_applies(s, list) \in State
           /\ seed_applies(s, list).my_uid = s.my_uid
           /\ seed_applies(s, list).friends = s.friends
           /\ {a.from_uid : a \in seed_applies(s, list).applies}
                = {list[i].from_uid : i \in DOMAIN list}
<1> DEFINE fresh(i) == /\ ~ has_apply(s, list[i].from_uid)
                       /\ \A j \in 1 .. (i - 1) : list[j].from_uid # list[i].from_uid
           Fresh == {list[i] : i \in {k \in DOMAIN list : fresh(k)}}
<1>1. seed_applies(s, list) = [s EXCEPT !.applies = Fresh]
  BY DEF seed_applies
<1>2. Fresh \subseteq FriendApply
  OBVIOUS
<1>3. \A i \in DOMAIN list : \E a \in Fresh : a.from_uid = list[i].from_uid
  <2> SUFFICES ASSUME NEW i \in DOMAIN list
               PROVE  \E a \in Fresh : a.from_uid = list[i].from_uid
    OBVIOUS
  <2>1. PICK k \in DOMAIN list :
              /\ list[k].from_uid = list[i].from_uid
              /\ \A j \in 1 .. (k - 1) : list[j].from_uid # list[i].from_uid
    BY FirstOfUid
  <2>2. fresh(k)
    BY <2>1 DEF has_apply
  <2>. QED
    BY <2>1, <2>2
<1>4. {a.from_uid : a \in Fresh} = {list[i].from_uid : i \in DOMAIN list}
  BY <1>3
<1> HIDE DEF Fresh
<1>. QED
  BY <1>1, <1>2, <1>4 DEF State

(* The state left by a granted login.                                      *)
LEMMA LoginLeaves ==
    ASSUME NEW s \in State, s.applies = {},
           NEW d, d.uid \in Uid, d.friends \in Seq(Friend), d.applies \in Seq(FriendApply),
           NEW t, t = seed_applies(login_succeeded(s, d.uid, d.friends), d.applies)
    PROVE  /\ t \in State
           /\ t.my_uid = d.uid /\ t.friends = d.friends
           /\ {a.from_uid : a \in t.applies} = {d.applies[i].from_uid : i \in DOMAIN d.applies}
<1> DEFINE l == login_succeeded(s, d.uid, d.friends)
<1>1. /\ l \in State /\ l.applies = {}
      /\ l.my_uid = d.uid /\ l.friends = d.friends
  BY DEF login_succeeded, State, LoginStatus, AnyUid
<1> HIDE DEF l
<1>. QED
  BY <1>1, SeedEmpty DEF l

(* The two other methods of the login touch the status alone.              *)
LEMMA StatusOnly ==
    ASSUME NEW s \in State, NEW t, t \in {begin_login(s), login_failed(s)}
    PROVE  /\ t \in State
           /\ t.my_uid = s.my_uid /\ t.friends = s.friends /\ t.applies = s.applies
BY DEF begin_login, login_failed, State, LoginStatus

-----------------------------------------------------------------------------
(* Learning and filing. *)

(* The state whose friend has learned a uid: either the same state, or one *)
(* entry of unknown uid now has it, and it was nobody's before.            *)
LEMMA LearnUid ==
    ASSUME NEW s \in State, NEW uid \in Uid
    PROVE  \/ learn_uid(s, uid) = s
           \/ \E k \in DOMAIN s.friends :
                 /\ s.friends[k].id = NoUid
                 /\ ~ is_friend(s, uid)
                 /\ learn_uid(s, uid) = [s EXCEPT !.friends = [s.friends EXCEPT ![k] = [@ EXCEPT !.id = uid]]]
<1> DEFINE Unknown == {i \in DOMAIN s.friends : s.friends[i].id = NoUid}
<1>1. CASE ~ is_friend(s, uid) /\ \E i \in Unknown : Unknown = {i}
  <2>1. PICK k \in Unknown : k = CHOOSE i \in Unknown : TRUE
    BY <1>1
  <2>2. learn_uid(s, uid) = [s EXCEPT !.friends[k].id = uid]
    BY <1>1, <2>1 DEF learn_uid
  <2>. QED
    BY <1>1, <2>1, <2>2 DEF State
<1>2. CASE ~ (~ is_friend(s, uid) /\ \E i \in Unknown : Unknown = {i})
  BY <1>2 DEF learn_uid
<1>. QED
  BY <1>1, <1>2

(* Learning a uid touches nothing but the friends' uids.                   *)
LEMMA LearnUidType ==
    ASSUME NEW s \in State, NEW uid \in Uid, NEW l, l = learn_uid(s, uid)
    PROVE  /\ l \in State
           /\ l.my_uid = s.my_uid /\ l.applies = s.applies
           /\ DOMAIN l.friends = DOMAIN s.friends
           /\ \A i \in DOMAIN s.friends :
                 /\ l.friends[i].name = s.friends[i].name
                 /\ l.friends[i].id \in {s.friends[i].id, uid}
                 /\ s.friends[i].id # NoUid => l.friends[i].id = s.friends[i].id
<1>1. CASE l = s
  BY <1>1
<1>2. ASSUME NEW k \in DOMAIN s.friends,
             s.friends[k].id = NoUid,
             l = [s EXCEPT !.friends = [s.friends EXCEPT ![k] = [@ EXCEPT !.id = uid]]]
      PROVE  /\ l \in State
             /\ l.my_uid = s.my_uid /\ l.applies = s.applies
             /\ DOMAIN l.friends = DOMAIN s.friends
             /\ \A i \in DOMAIN s.friends :
                   /\ l.friends[i].name = s.friends[i].name
                   /\ l.friends[i].id \in {s.friends[i].id, uid}
                   /\ s.friends[i].id # NoUid => l.friends[i].id = s.friends[i].id
  <2> DEFINE fs == s.friends
             gs == [fs EXCEPT ![k] = [@ EXCEPT !.id = uid]]
  <2>1. fs \in Seq(Friend)
    BY DEF State
  <2>2. fs[k] \in Friend /\ uid \in AnyUid
    BY <2>1 DEF AnyUid
  <2>3. [fs[k] EXCEPT !.id = uid] \in Friend
    BY <2>2 DEF Friend
  <2>4. gs \in Seq(Friend) /\ DOMAIN gs = DOMAIN fs
    BY <2>1, <2>3
  <2>5. l \in State /\ l.friends = gs /\ l.my_uid = s.my_uid /\ l.applies = s.applies
    BY <1>2, <2>4 DEF State
  <2>6. \A i \in DOMAIN fs : i # k => gs[i] = fs[i]
    BY <2>1
  <2>7. gs[k] = [fs[k] EXCEPT !.id = uid]
    BY <2>1
  <2>8. gs[k].name = fs[k].name /\ gs[k].id = uid
    BY <2>7, <2>2 DEF Friend
  <2>. QED
    BY <1>2, <2>4, <2>5, <2>6, <2>8
<1>. QED
  BY <1>1, <1>2, LearnUid

(* The label or name a push is filed under is a name. *)
LEMMA FriendForUidType ==
    ASSUME NEW s \in State, NEW uid \in Uid
    PROVE  friend_for_uid(s, uid) \in Name
<1>1. CASE is_friend(s, uid)
  <2>1. PICK i \in DOMAIN s.friends :
            i = CHOOSE j \in DOMAIN s.friends : s.friends[j].id = uid
    BY <1>1 DEF is_friend
  <2>2. s.friends[i] \in Friend
    BY DEF State
  <2>. QED
    BY <1>1, <2>1, <2>2 DEF friend_for_uid, Friend
<1>2. CASE ~ is_friend(s, uid)
  BY <1>2, UidLabelAssumption DEF friend_for_uid
<1>. QED
  BY <1>1, <1>2

(* A message added to a conversation.                                      *)
LEMMA PushToConversationType ==
    ASSUME NEW s \in State, NEW friend \in Name, NEW msg \in ChatMessage
    PROVE  push_to_conversation(s, friend, msg) \in State
<1>1. [s.conversations EXCEPT ![friend] = Append(@, msg)] \in [Name -> Seq(ChatMessage)]
  BY DEF State
<1>. QED
  BY <1>1 DEF push_to_conversation, State

(* A text of mine is filed.                                                *)
LEMMA SentMessageType ==
    ASSUME NEW s \in State, NEW friend \in Name, NEW text \in Text
    PROVE  sent_message(s, friend, text) \in State
BY PushToConversationType DEF sent_message, ChatMessage

(* A text is filed after its sender's uid may have been learned.           *)
LEMMA ReceivePushType ==
    ASSUME NEW s \in State, NEW uid \in Uid, NEW text \in Text
    PROVE  /\ receive_push(s, uid, text) \in State
           /\ receive_push(s, uid, text).my_uid = s.my_uid
           /\ receive_push(s, uid, text).friends = learn_uid(s, uid).friends
           /\ receive_push(s, uid, text).applies = s.applies
<1> DEFINE l == learn_uid(s, uid)
           friend == friend_for_uid(l, uid)
           p == push_to_conversation(l, friend, [mine |-> FALSE, text |-> text])
<1>1. l \in State /\ l.my_uid = s.my_uid /\ l.applies = s.applies
  BY LearnUidType
<1> HIDE DEF l
<1>2. friend \in Name
  BY <1>1, FriendForUidType
<1> HIDE DEF friend
<1>3. p \in State /\ p.my_uid = l.my_uid /\ p.friends = l.friends /\ p.applies = l.applies
  BY <1>1, <1>2, PushToConversationType DEF ChatMessage, push_to_conversation, State
<1> HIDE DEF p
<1>4. \E u \in SUBSET Name : received_message(l, friend, text) = [p EXCEPT !.unread = u]
  BY <1>2, <1>3 DEF received_message, State, p
<1>5. \A u \in SUBSET Name : LET q == [p EXCEPT !.unread = u]
        IN  /\ q \in State /\ q.my_uid = p.my_uid
            /\ q.friends = p.friends /\ q.applies = p.applies
  BY <1>3 DEF State
<1>. QED
  BY <1>1, <1>3, <1>4, <1>5 DEF receive_push, l, friend

(* A conversation is opened.                                               *)
LEMMA OpenConversationType ==
    ASSUME NEW s \in State, NEW friend \in Name
    PROVE  open_conversation(s, friend) \in State
BY DEF open_conversation, State

-----------------------------------------------------------------------------
(* Applies and search. *)

(* An apply is added.                                                      *)
LEMMA ApplyReceivedType ==
    ASSUME NEW s \in State, NEW uid \in Uid, NEW name \in Name
    PROVE  apply_received(s, uid, name) \in State
<1>1. [from_uid |-> uid, name |-> name, status |-> 0] \in FriendApply
  BY DEF FriendApply, AnyUid
<1>. QED
  BY <1>1 DEF apply_received, State

(* An approval adds at most one friend, with the uid approved and the name *)
(* its apply gave.                                                         *)
LEMMA ApproveApplyAdds ==
    ASSUME NEW s \in State, NEW uid \in Uid, NEW t, t = approve_apply(s, uid)
    PROVE  /\ t \in State
           /\ t.my_uid = s.my_uid /\ t.applies \subseteq s.applies
           /\ \/ t.friends = s.friends
              \/ \E a \in s.applies :
                    a.from_uid = uid /\ t.friends = Append(s.friends, [id |-> uid, name |-> a.name])
<1>1. CASE ~ has_apply(s, uid)
  BY <1>1 DEF approve_apply
<1>2. CASE has_apply(s, uid)
  <2> DEFINE apply == CHOOSE a \in s.applies : a.from_uid = uid
  <2>1. apply \in s.applies /\ apply.from_uid = uid
    BY <1>2 DEF has_apply
  <2> HIDE DEF apply
  <2> DEFINE fs == IF is_friend(s, uid)
                   THEN s.friends
                   ELSE Append(s.friends, [id |-> uid, name |-> apply.name])
  <2>2. t = [s EXCEPT !.applies = @ \ {apply}, !.friends = fs]
    BY <1>2 DEF approve_apply, apply
  <2>3. [id |-> uid, name |-> apply.name] \in Friend
    BY <2>1 DEF State, FriendApply, Friend, AnyUid
  <2>4. fs \in Seq(Friend)
    BY <2>3 DEF State
  <2> HIDE DEF fs
  <2>5. t \in State /\ t.my_uid = s.my_uid /\ t.applies \subseteq s.applies /\ t.friends = fs
    BY <2>2, <2>4 DEF State
  <2>. QED
    BY <2>1, <2>5 DEF fs
<1>. QED
  BY <1>1, <1>2

(* Applies are removed by name.                                            *)
LEMMA RejectApplyType ==
    ASSUME NEW s \in State, NEW name \in Name
    PROVE  reject_apply(s, name) \in State
BY DEF reject_apply, State

(* A result is stored, or none.                                            *)
LEMMA SetSearchResultType ==
    ASSUME NEW s \in State, NEW result \in {{}} \cup {{f} : f \in Friend}
    PROVE  set_search_result(s, result) \in State
BY DEF set_search_result, State
=============================================================================
