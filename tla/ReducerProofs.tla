--------------------------- MODULE ReducerProofs ---------------------------
(***************************************************************************)
(* Proofs that the invariants of Reducer hold for every set of uids, names *)
(* and texts and every list the login response may carry.                  *)
(*                                                                         *)
(* The conjunction IInv is inductive.  TypeOK carries the rest; UnreadExact *)
(* and the two uniqueness invariants are inductive beside it.              *)
(***************************************************************************)
EXTENDS Reducer, AppStateProofs, TLAPS

IInv ==
    /\ TypeOK
    /\ FriendUidsUnique
    /\ ApplyUidsUnique
    /\ UnreadExact

(* Learning a uid keeps the type and the uniqueness of uids, gives no      *)
(* known uid up, renames nobody, and touches nothing but the friends.      *)
LEMMA LearnUidKeeps ==
    ASSUME NEW s \in State, NEW uid \in Uid, UniqueUids(s.friends),
           NEW l, l = learn_uid(s, uid)
    PROVE  /\ l \in State
           /\ UniqueUids(l.friends)
           /\ DOMAIN l.friends = DOMAIN s.friends
           /\ \A i \in DOMAIN s.friends :
                 /\ l.friends[i].name = s.friends[i].name
                 /\ s.friends[i].id # NoUid => l.friends[i].id = s.friends[i].id
           /\ l.conversations = s.conversations /\ l.started = s.started
           /\ l.open = s.open /\ l.unread = s.unread /\ l.applies = s.applies
<1>1. CASE l = s
  BY <1>1
<1>2. ASSUME NEW k \in DOMAIN s.friends,
             s.friends[k].id = NoUid,
             ~ is_friend(s, uid),
             l = [s EXCEPT !.friends = [s.friends EXCEPT ![k] = [@ EXCEPT !.id = uid]]]
      PROVE  /\ l \in State
             /\ UniqueUids(l.friends)
             /\ DOMAIN l.friends = DOMAIN s.friends
             /\ \A i \in DOMAIN s.friends :
                   /\ l.friends[i].name = s.friends[i].name
                   /\ s.friends[i].id # NoUid => l.friends[i].id = s.friends[i].id
             /\ l.conversations = s.conversations /\ l.started = s.started
             /\ l.open = s.open /\ l.unread = s.unread /\ l.applies = s.applies
  <2> DEFINE entry == [s.friends[k] EXCEPT !.id = uid]
             friends == [s.friends EXCEPT ![k] = entry]
  <2>1. s.friends \in Seq(Friend) /\ s.friends[k] \in Friend
    BY DEF State
  <2>2. entry \in Friend /\ entry.id = uid /\ entry.name = s.friends[k].name
    BY <2>1 DEF Friend, AnyUid
  <2> HIDE DEF entry
  <2>3. /\ friends \in Seq(Friend)
        /\ DOMAIN friends = DOMAIN s.friends
        /\ friends[k] = entry
        /\ \A i \in DOMAIN s.friends : i # k => friends[i] = s.friends[i]
    BY <2>1, <2>2
  <2>4. l = [s EXCEPT !.friends = friends]
    BY <1>2 DEF entry
  <2> HIDE DEF friends
  <2>5. /\ l \in State
        /\ l.friends = friends
        /\ l.conversations = s.conversations /\ l.started = s.started
        /\ l.open = s.open /\ l.unread = s.unread /\ l.applies = s.applies
    BY <2>3, <2>4 DEF State
  <2>6. UniqueUids(l.friends)
    <3>1. \A i \in DOMAIN s.friends : s.friends[i].id # uid
      BY <1>2 DEF is_friend
    <3>. QED
      BY <2>2, <2>3, <2>5, <3>1 DEF UniqueUids
  <2>. QED
    BY <1>2, <2>2, <2>3, <2>5, <2>6
<1>. QED
  BY <1>1, <1>2, LearnUid

(* Appending msg to one conversation: a received message is there          *)
(* afterwards if one was there before or msg is received.                  *)
LEMMA AppendReceived ==
    ASSUME NEW s \in State, NEW friend \in Name, NEW msg \in ChatMessage, NEW f \in Name
    PROVE  /\ push_to_conversation(s, friend, msg) \in State
           /\ HasReceived(push_to_conversation(s, friend, msg), f)
                 <=> HasReceived(s, f) \/ (f = friend /\ ~ msg.mine)
<1> DEFINE conv == s.conversations
           conv2 == [conv EXCEPT ![friend] = Append(@, msg)]
           s2 == push_to_conversation(s, friend, msg)
<1>1. conv \in [Name -> Seq(ChatMessage)]
  BY DEF State
<1>2. /\ conv2 \in [Name -> Seq(ChatMessage)]
      /\ conv2[friend] = Append(conv[friend], msg)
      /\ \A g \in Name : g # friend => conv2[g] = conv[g]
  BY <1>1
<1>3. /\ s2 \in State
      /\ s2.conversations = conv2
  BY <1>2 DEF push_to_conversation, State
<1>4. CASE f # friend
  BY <1>2, <1>3, <1>4 DEF HasReceived
<1>5. CASE f = friend
  <2>1. /\ DOMAIN conv2[f] = 1 .. Len(conv[f]) + 1
        /\ DOMAIN conv[f] = 1 .. Len(conv[f])
        /\ \A i \in DOMAIN conv[f] : conv2[f][i] = conv[f][i]
        /\ conv2[f][Len(conv[f]) + 1] = msg
        /\ Len(conv[f]) \in Nat
    BY <1>1, <1>2, <1>5
  <2>2. HasReceived(s2, f) => HasReceived(s, f) \/ ~ msg.mine
    BY <2>1, <1>3, <1>5 DEF HasReceived
  <2>3. HasReceived(s, f) => HasReceived(s2, f)
    BY <2>1, <1>3, <1>5 DEF HasReceived
  <2>4. ~ msg.mine => HasReceived(s2, f)
    <3>1. Len(conv[f]) + 1 \in DOMAIN conv2[f]
      BY <2>1
    <3>. QED
      BY <3>1, <2>1, <1>3 DEF HasReceived
  <2>. QED
    BY <2>2, <2>3, <2>4, <1>3, <1>5
<1>. QED
  BY <1>3, <1>4, <1>5

(* Seeding keeps one apply per uid: an entry is taken only if its uid is   *)
(* neither in the reducer nor earlier in the list.                         *)
LEMMA SeedApplies ==
    ASSUME NEW s \in State, NEW list \in Seq(FriendApply),
           \A x, y \in s.applies : x.from_uid = y.from_uid => x = y
    PROVE  /\ seed_applies(s, list) \in State
           /\ \A x, y \in seed_applies(s, list).applies : x.from_uid = y.from_uid => x = y
           /\ seed_applies(s, list) = [s EXCEPT !.applies = seed_applies(s, list).applies]
<1> DEFINE fresh(i) == /\ ~ has_apply(s, list[i].from_uid)
                       /\ \A j \in 1 .. (i - 1) : list[j].from_uid # list[i].from_uid
           Fresh == {list[i] : i \in {k \in DOMAIN list : fresh(k)}}
<1>1. Fresh \subseteq FriendApply
  OBVIOUS
<1>2. seed_applies(s, list) = [s EXCEPT !.applies = @ \cup Fresh]
  BY DEF seed_applies
<1>3. ASSUME NEW x \in Fresh, NEW y \in Fresh, x.from_uid = y.from_uid
      PROVE  x = y
  <2>1. PICK i \in DOMAIN list : fresh(i) /\ x = list[i]
    OBVIOUS
  <2>2. PICK j \in DOMAIN list : fresh(j) /\ y = list[j]
    OBVIOUS
  <2>3. i \in Nat \ {0} /\ j \in Nat \ {0}
    OBVIOUS
  <2>4. ~ (i < j) /\ ~ (j < i)
    BY <2>1, <2>2, <2>3, <1>3
  <2>. QED
    BY <2>1, <2>2, <2>3, <2>4
<1>4. ASSUME NEW x \in Fresh, NEW y \in s.applies
      PROVE  x.from_uid # y.from_uid
  BY DEF has_apply
<1>5. s.applies \subseteq FriendApply
  BY DEF State
<1>6. /\ seed_applies(s, list) \in State
      /\ seed_applies(s, list).applies = s.applies \cup Fresh
  <2> HIDE DEF Fresh
  <2>. QED
    BY <1>1, <1>2, <1>5 DEF State
<1>7. ASSUME NEW x \in s.applies \cup Fresh, NEW y \in s.applies \cup Fresh,
             x.from_uid = y.from_uid
      PROVE  x = y
  <2> HIDE DEF Fresh
  <2>. QED
    BY <1>3, <1>4, <1>7
<1>8. seed_applies(s, list) = [s EXCEPT !.applies = seed_applies(s, list).applies]
  <2> HIDE DEF Fresh
  <2>. QED
    BY <1>2, <1>6 DEF State
<1>. QED
  BY <1>6, <1>7, <1>8

-----------------------------------------------------------------------------
(* The fresh AppState of main satisfies the inductive invariant.           *)
THEOREM InitIInv == Init => IInv
BY DEF Init, IInv, TypeOK, New, State, LoginStatus, AnyUid, Friend, ChatMessage,
       FriendUidsUnique, UniqueUids, ApplyUidsUnique, UnreadExact, HasReceived

(* Each method keeps IInv.  receive_push is learning followed by an append, *)
(* so its case first moves IInv to the state that has learned the uid.     *)
THEOREM NextIInv == IInv /\ [Next]_app => IInv'
<1> SUFFICES ASSUME IInv, [Next]_app
             PROVE  IInv'
  OBVIOUS
<1> USE DEF TypeOK
<1>0. app \in State
  BY DEF IInv
<1>1. CASE BeginLogin
  <2>1. app' \in State
    BY <1>0, <1>1 DEF BeginLogin, begin_login, State, LoginStatus
  <2>. QED
    BY <1>0, <1>1, <2>1 DEF BeginLogin, begin_login, IInv, State, FriendUidsUnique,
        UniqueUids, ApplyUidsUnique, UnreadExact, HasReceived
<1>2. CASE LoginFailed
  <2>1. app' \in State
    BY <1>0, <1>2 DEF LoginFailed, login_failed, State, LoginStatus
  <2>. QED
    BY <1>0, <1>2, <2>1 DEF LoginFailed, login_failed, IInv, State, FriendUidsUnique,
        UniqueUids, ApplyUidsUnique, UnreadExact, HasReceived
<1>3. CASE LoginSucceeded
  <2>1. PICK uid \in Uid, fs \in FriendLists, as \in ApplyLists :
            app' = seed_applies(login_succeeded(app, uid, fs), as)
    BY <1>3 DEF LoginSucceeded
  <2> DEFINE s == login_succeeded(app, uid, fs)
  <2>2. /\ fs \in Seq(Friend) /\ UniqueUids(fs)
        /\ as \in Seq(FriendApply)
    BY FriendListsAssumption, ApplyListsAssumption
  <2>3. s \in State
    BY <1>0, <2>2 DEF login_succeeded, State, AnyUid, LoginStatus
  <2>4. /\ s.friends = fs /\ s.applies = app.applies
        /\ s.conversations = app.conversations /\ s.started = app.started
        /\ s.open = app.open /\ s.unread = app.unread
    BY <1>0 DEF login_succeeded, State
  <2>5. \A x, y \in s.applies : x.from_uid = y.from_uid => x = y
    BY <2>4 DEF IInv, ApplyUidsUnique
  <2> HIDE DEF s
  <2>6. /\ app' \in State
        /\ \A x, y \in app'.applies : x.from_uid = y.from_uid => x = y
        /\ app' = [s EXCEPT !.applies = app'.applies]
    BY <2>1, <2>2, <2>3, <2>5, SeedApplies DEF s
  <2>7. /\ app'.friends = fs /\ app'.conversations = app.conversations
        /\ app'.started = app.started
        /\ app'.open = app.open /\ app'.unread = app.unread
    BY <2>3, <2>4, <2>6 DEF State
  <2>. QED
    BY <2>2, <2>6, <2>7 DEF IInv, FriendUidsUnique, ApplyUidsUnique, UnreadExact,
        HasReceived
<1>4. CASE ApplyReceived
  <2>1. PICK uid \in Uid, name \in Name : app' = apply_received(app, uid, name)
    BY <1>4 DEF ApplyReceived
  <2>2. CASE has_apply(app, uid)
    BY <2>1, <2>2 DEF apply_received, IInv, FriendUidsUnique, ApplyUidsUnique,
        UnreadExact, HasReceived
  <2>3. CASE ~ has_apply(app, uid)
    <3> DEFINE apply == [from_uid |-> uid, name |-> name, status |-> 0]
    <3>1. apply \in FriendApply
      BY DEF FriendApply, AnyUid
    <3>2. app' = [app EXCEPT !.applies = @ \cup {apply}]
      BY <2>1, <2>3 DEF apply_received
    <3>3. \A x \in app.applies : x.from_uid # apply.from_uid
      BY <2>3 DEF has_apply
    <3> HIDE DEF apply
    <3>4. /\ app' \in State
          /\ app'.applies = app.applies \cup {apply}
          /\ app'.friends = app.friends
          /\ app'.conversations = app.conversations /\ app'.started = app.started
          /\ app'.open = app.open /\ app'.unread = app.unread
      BY <1>0, <3>1, <3>2 DEF State
    <3>. QED
      BY <3>3, <3>4 DEF IInv, FriendUidsUnique, ApplyUidsUnique, UnreadExact,
          HasReceived
  <2>. QED
    BY <2>2, <2>3
<1>5. CASE ApproveApply
  <2>1. PICK uid \in Uid : app' = approve_apply(app, uid)
    BY <1>5 DEF ApproveApply
  <2>2. CASE ~ has_apply(app, uid)
    BY <2>1, <2>2 DEF approve_apply, IInv, FriendUidsUnique, ApplyUidsUnique,
        UnreadExact, HasReceived
  <2>3. CASE has_apply(app, uid)
    <3>1. PICK apply \in app.applies : apply = CHOOSE x \in app.applies : x.from_uid = uid
      BY <2>3 DEF has_apply
    <3> DEFINE friends == IF is_friend(app, uid)
                          THEN app.friends
                          ELSE Append(app.friends, [id |-> uid, name |-> apply.name])
    <3>2. app' = [app EXCEPT !.applies = @ \ {apply}, !.friends = friends]
      BY <2>1, <2>3, <3>1 DEF approve_apply
    <3>3. app.friends \in Seq(Friend) /\ UniqueUids(app.friends)
      BY <1>0 DEF State, IInv, FriendUidsUnique
    <3>4. [id |-> uid, name |-> apply.name] \in Friend
      BY <1>0 DEF State, FriendApply, Friend, AnyUid
    <3>5. friends \in Seq(Friend)
      BY <3>3, <3>4
    <3>6. UniqueUids(friends)
      <4>1. CASE is_friend(app, uid)
        BY <3>3, <4>1
      <4>2. CASE ~ is_friend(app, uid)
        <5>1. \A i \in DOMAIN app.friends : app.friends[i].id # uid
          BY <4>2 DEF is_friend
        <5>2. /\ DOMAIN friends = 1 .. Len(app.friends) + 1
              /\ DOMAIN app.friends = 1 .. Len(app.friends)
              /\ Len(app.friends) \in Nat
              /\ \A i \in DOMAIN app.friends : friends[i] = app.friends[i]
              /\ friends[Len(app.friends) + 1].id = uid
          BY <3>3, <3>4, <4>2
        <5> HIDE DEF friends
        <5>. QED
          BY <3>3, <5>1, <5>2 DEF UniqueUids
      <4>. QED
        BY <4>1, <4>2
    <3> HIDE DEF friends
    <3>7. /\ app' \in State
          /\ app'.applies \subseteq app.applies
          /\ app'.friends = friends
          /\ app'.conversations = app.conversations /\ app'.started = app.started
          /\ app'.open = app.open /\ app'.unread = app.unread
      BY <1>0, <3>2, <3>5 DEF State
    <3>. QED
      BY <3>6, <3>7 DEF IInv, FriendUidsUnique, ApplyUidsUnique, UnreadExact,
          HasReceived
  <2>. QED
    BY <2>2, <2>3
<1>6. CASE RejectApply
  <2>1. PICK name \in Name : app' = reject_apply(app, name)
    BY <1>6 DEF RejectApply
  <2>2. /\ app' \in State
        /\ app'.applies \subseteq app.applies
        /\ app'.friends = app.friends
        /\ app'.conversations = app.conversations /\ app'.started = app.started
        /\ app'.open = app.open /\ app'.unread = app.unread
    BY <1>0, <2>1 DEF reject_apply, State
  <2>. QED
    BY <2>2 DEF IInv, FriendUidsUnique, ApplyUidsUnique, UnreadExact, HasReceived
<1>7. CASE SetSearchResult
  <2>1. PICK result \in {{}} \cup {{f} : f \in [id : Uid, name : Name]} :
            app' = set_search_result(app, result)
    BY <1>7 DEF SetSearchResult
  <2>2. result \in {{}} \cup {{f} : f \in Friend}
    BY DEF Friend, AnyUid
  <2>3. /\ app' \in State
        /\ app'.applies = app.applies /\ app'.friends = app.friends
        /\ app'.conversations = app.conversations /\ app'.started = app.started
        /\ app'.open = app.open /\ app'.unread = app.unread
    BY <1>0, <2>1, <2>2 DEF set_search_result, State
  <2>. QED
    BY <2>3 DEF IInv, FriendUidsUnique, ApplyUidsUnique, UnreadExact, HasReceived
<1>8. CASE ReceivePush
  <2>1. PICK uid \in Uid, text \in Text : app' = receive_push(app, uid, text)
    BY <1>8 DEF ReceivePush
  <2> DEFINE l == learn_uid(app, uid)
             friend == friend_for_uid(l, uid)
             msg == [mine |-> FALSE, text |-> text]
             pushed == push_to_conversation(l, friend, msg)
  <2>2. /\ l \in State /\ UniqueUids(l.friends)
        /\ l.conversations = app.conversations /\ l.started = app.started
        /\ l.open = app.open /\ l.unread = app.unread /\ l.applies = app.applies
    BY <1>0, LearnUidKeeps DEF IInv, FriendUidsUnique
  <2>3. friend \in Name
    BY <2>2, FriendForUidType
  <2>4. msg \in ChatMessage /\ ~ msg.mine
    BY DEF ChatMessage
  <2>5. app' = [pushed EXCEPT !.unread = IF friend \in l.open THEN @ ELSE @ \cup {friend}]
    BY <2>1 DEF receive_push, received_message
  <2> HIDE DEF l, friend, msg
  <2>6. /\ pushed \in State
        /\ \A f \in Name : HasReceived(pushed, f) <=> HasReceived(l, f) \/ f = friend
    BY <2>2, <2>3, <2>4, AppendReceived
  <2>7. /\ pushed.friends = l.friends /\ pushed.applies = l.applies
        /\ pushed.open = l.open /\ pushed.unread = l.unread
        /\ l.started \subseteq pushed.started
    BY <2>2 DEF push_to_conversation, State
  <2> HIDE DEF pushed
  <2>8. /\ app' \in State
        /\ app'.friends = l.friends /\ app'.applies = l.applies
        /\ app'.open = l.open /\ l.started \subseteq app'.started
        /\ app'.conversations = pushed.conversations
        /\ app'.unread = IF friend \in l.open THEN l.unread ELSE l.unread \cup {friend}
    BY <2>3, <2>5, <2>6, <2>7 DEF State
  <2>9. \A f \in Name : HasReceived(app', f) <=> HasReceived(app, f) \/ f = friend
    BY <2>2, <2>6, <2>8 DEF HasReceived
  <2>10. UnreadExact'
    BY <2>2, <2>3, <2>8, <2>9 DEF IInv, UnreadExact
  <2>. QED
    BY <2>2, <2>8, <2>10 DEF IInv, FriendUidsUnique, ApplyUidsUnique
<1>9. CASE OpenConversation
  <2>1. PICK friend \in Name : app' = open_conversation(app, friend)
    BY <1>9 DEF OpenConversation
  <2>2. /\ app' \in State
        /\ app'.applies = app.applies /\ app'.friends = app.friends
        /\ app'.conversations = app.conversations
        /\ app'.started = app.started \cup {friend}
        /\ app'.open = app.open \cup {friend}
        /\ app'.unread = app.unread \ {friend}
    BY <1>0, <2>1 DEF open_conversation, State
  <2>3. UnreadExact'
    BY <2>2 DEF IInv, UnreadExact, HasReceived
  <2>. QED
    BY <2>2, <2>3 DEF IInv, FriendUidsUnique, ApplyUidsUnique
<1>10. CASE SentMessage
  <2>1. PICK friend \in Name, text \in Text : app' = sent_message(app, friend, text)
    BY <1>10 DEF SentMessage
  <2> DEFINE msg == [mine |-> TRUE, text |-> text]
  <2>2. msg \in ChatMessage /\ msg.mine
    BY DEF ChatMessage
  <2>3. app' = push_to_conversation(app, friend, msg)
    BY <2>1 DEF sent_message
  <2> HIDE DEF msg
  <2>4. /\ app' \in State
        /\ \A f \in Name : HasReceived(app', f) <=> HasReceived(app, f)
    BY <1>0, <2>2, <2>3, AppendReceived
  <2>5. /\ app'.applies = app.applies /\ app'.friends = app.friends
        /\ app.started \subseteq app'.started
        /\ app'.open = app.open /\ app'.unread = app.unread
    BY <1>0, <2>3 DEF push_to_conversation, State
  <2>6. UnreadExact'
    BY <2>4, <2>5 DEF IInv, UnreadExact
  <2>. QED
    BY <2>4, <2>5, <2>6 DEF IInv, FriendUidsUnique, ApplyUidsUnique
<1>11. CASE UNCHANGED app
  BY <1>11 DEF IInv, FriendUidsUnique, ApplyUidsUnique, UnreadExact, HasReceived
<1>. QED
  BY <1>1, <1>2, <1>3, <1>4, <1>5, <1>6, <1>7, <1>8, <1>9, <1>10, <1>11 DEF Next

(* Every state the reducer reaches satisfies the inductive invariant.      *)
THEOREM SpecIInv == Spec => []IInv
BY InitIInv, NextIInv, PTL DEF Spec

(* AppState keeps its declared shape, whatever the server lists and sends. *)
THEOREM ReducerTypeOK == Spec => []TypeOK
<1>1. IInv => TypeOK
  BY DEF IInv
<1>. QED
  BY <1>1, SpecIInv, PTL

(* No order of logins, approvals and learned uids gives one uid to two     *)
(* friends.                                                                *)
THEOREM ReducerFriendUidsUnique == Spec => []FriendUidsUnique
<1>1. IInv => FriendUidsUnique
  BY DEF IInv
<1>. QED
  BY <1>1, SpecIInv, PTL

(* However the login list, pushes and approvals mix, a uid has at most one *)
(* apply.                                                                  *)
THEOREM ReducerApplyUidsUnique == Spec => []ApplyUidsUnique
<1>1. IInv => ApplyUidsUnique
  BY DEF IInv
<1>. QED
  BY <1>1, SpecIInv, PTL

(* The unread markers are exactly the never-opened conversations with a    *)
(* received message.                                                       *)
THEOREM ReducerUnreadExact == Spec => []UnreadExact
<1>1. IInv => UnreadExact
  BY DEF IInv
<1>. QED
  BY <1>1, SpecIInv, PTL

-----------------------------------------------------------------------------
(* What each method does to the conversations and the friends: enough for  *)
(* both action properties.                                                 *)
LEMMA StepEffects ==
    ASSUME IInv, Next
    PROVE  AppendStep /\ StableStep
<1>0. app \in State /\ UniqueUids(app.friends)
  BY DEF IInv, TypeOK, FriendUidsUnique
<1>1. CASE BeginLogin
  BY <1>0, <1>1 DEF BeginLogin, begin_login, State, AppendStep, StableStep
<1>2. CASE LoginFailed
  BY <1>0, <1>2 DEF LoginFailed, login_failed, State, AppendStep, StableStep
<1>3. CASE LoginSucceeded
  <2>1. PICK uid \in Uid, fs \in FriendLists, as \in ApplyLists :
            app' = seed_applies(login_succeeded(app, uid, fs), as)
    BY <1>3 DEF LoginSucceeded
  <2>2. /\ app'.conversations = app.conversations /\ app'.started = app.started
    BY <1>0, <2>1 DEF seed_applies, login_succeeded, State
  <2>. QED
    BY <2>2, <1>3 DEF AppendStep, StableStep, LoginSucceeded
<1>4. CASE ApplyReceived
  <2>1. PICK uid \in Uid, name \in Name : app' = apply_received(app, uid, name)
    BY <1>4 DEF ApplyReceived
  <2>. QED
    BY <1>0, <2>1 DEF apply_received, State, AppendStep, StableStep
<1>5. CASE ApproveApply
  <2>1. PICK uid \in Uid : app' = approve_apply(app, uid)
    BY <1>5 DEF ApproveApply
  <2>2. CASE app' = app
    BY <2>2 DEF AppendStep, StableStep
  <2>3. ASSUME NEW name, app.friends \in Seq(Friend),
               app'.friends = Append(app.friends, [id |-> uid, name |-> name])
        PROVE  StableStep
    <3>1. /\ DOMAIN app'.friends = 1 .. Len(app.friends) + 1
          /\ DOMAIN app.friends = 1 .. Len(app.friends)
          /\ Len(app.friends) \in Nat
          /\ \A i \in DOMAIN app.friends : app'.friends[i] = app.friends[i]
      BY <2>3
    <3>. QED
      BY <3>1 DEF StableStep
  <2>4. CASE has_apply(app, uid)
    <3>1. app'.conversations = app.conversations /\ app'.started = app.started
      BY <1>0, <2>1 DEF approve_apply, State
    <3>2. \/ app'.friends = app.friends
          \/ \E name : app'.friends = Append(app.friends, [id |-> uid, name |-> name])
      BY <1>0, <2>1, <2>4 DEF approve_apply, State
    <3>3. app.friends \in Seq(Friend)
      BY <1>0 DEF State
    <3>4. CASE app'.friends = app.friends
      BY <3>1, <3>4 DEF AppendStep, StableStep
    <3>. QED
      BY <2>3, <3>1, <3>2, <3>3, <3>4 DEF AppendStep
  <2>. QED
    BY <2>1, <2>2, <2>4 DEF approve_apply
<1>6. CASE RejectApply
  BY <1>0, <1>6 DEF RejectApply, reject_apply, State, AppendStep, StableStep
<1>7. CASE SetSearchResult
  BY <1>0, <1>7 DEF SetSearchResult, set_search_result, State, AppendStep, StableStep
<1>8. CASE ReceivePush
  <2>1. PICK uid \in Uid, text \in Text : app' = receive_push(app, uid, text)
    BY <1>8 DEF ReceivePush
  <2> DEFINE l == learn_uid(app, uid)
             friend == friend_for_uid(l, uid)
             msg == [mine |-> FALSE, text |-> text]
  <2>2. /\ l \in State
        /\ DOMAIN l.friends = DOMAIN app.friends
        /\ \A i \in DOMAIN app.friends :
              /\ l.friends[i].name = app.friends[i].name
              /\ app.friends[i].id # NoUid => l.friends[i].id = app.friends[i].id
        /\ l.conversations = app.conversations /\ l.started = app.started
    BY <1>0, LearnUidKeeps
  <2>3. app' = received_message(l, friend, text)
    BY <2>1 DEF receive_push
  <2>4. msg \in ChatMessage /\ friend \in Name
    BY <2>2, FriendForUidType DEF ChatMessage
  <2> HIDE DEF l, friend
  <2>5. /\ app'.conversations = [l.conversations EXCEPT ![friend] = Append(@, msg)]
        /\ app'.started = l.started \cup {friend}
        /\ app'.friends = l.friends
    BY <2>2, <2>3 DEF received_message, push_to_conversation, State
  <2>6. AppendStep
    BY <1>0, <2>2, <2>4, <2>5 DEF AppendStep, State
  <2>7. StableStep
    BY <2>2, <2>5 DEF StableStep
  <2>. QED
    BY <2>6, <2>7
<1>9. CASE OpenConversation
  BY <1>0, <1>9 DEF OpenConversation, open_conversation, State, AppendStep, StableStep
<1>10. CASE SentMessage
  <2>1. PICK friend \in Name, text \in Text : app' = sent_message(app, friend, text)
    BY <1>10 DEF SentMessage
  <2> DEFINE msg == [mine |-> TRUE, text |-> text]
  <2>2. msg \in ChatMessage
    BY DEF ChatMessage
  <2>3. /\ app'.conversations = [app.conversations EXCEPT ![friend] = Append(@, msg)]
        /\ app'.started = app.started \cup {friend}
        /\ app'.friends = app.friends
    BY <1>0, <2>1 DEF sent_message, push_to_conversation, State
  <2>. QED
    BY <1>0, <2>2, <2>3 DEF AppendStep, StableStep, State
<1>. QED
  BY <1>1, <1>2, <1>3, <1>4, <1>5, <1>6, <1>7, <1>8, <1>9, <1>10 DEF Next

(* Nothing that was said is lost, rewritten or reordered.                  *)
THEOREM ReducerAppendOnly == Spec => AppendOnly
<1>1. IInv /\ [Next]_app => [AppendStep]_app
  BY StepEffects
<1>. QED
  BY <1>1, SpecIInv, PTL DEF Spec, AppendOnly

(* Once logged in, no friend is dropped or renamed and no known uid given  *)
(* up.                                                                     *)
THEOREM ReducerFriendsStable == Spec => FriendsStable
<1>1. IInv /\ [Next]_app => [StableStep]_app
  BY StepEffects
<1>. QED
  BY <1>1, SpecIInv, PTL DEF Spec, FriendsStable
=============================================================================
