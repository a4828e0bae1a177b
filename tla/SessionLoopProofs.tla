------------------------- MODULE SessionLoopProofs -------------------------
(***************************************************************************)
(* Proofs of the invariants of Session that need the loop's invariant:     *)
(* texts are filed once and go to the friend shown, a search result shown  *)
(* is the one stored, and nothing is claimed that was not granted.         *)
(*                                                                         *)
(* Each invariant is one conjunct set that holds with those before it:     *)
(*                                                                         *)
(*   LoopInv      the invariants of ClientLoopProofs, of this loop         *)
(*   PushInv      what bodies the frames on their way have                 *)
(*   FriendsInv   entries of the friend list with one uid have one name    *)
(*   TextInv      where the texts stand and which is on its way            *)
(*   SearchInv    what the window and the queued closures show of a result *)
(*   ClaimInv     which closures and answers stand behind a claim          *)
(*                                                                         *)
(* NetCases reduces the loop's nine steps to three: a frame is handled, a  *)
(* command ends, or neither.                                               *)
(***************************************************************************)
EXTENDS SessionProofs

Loop == INSTANCE ClientLoopProofs

(* The loop's assumptions hold of the session's constants.                 *)
LEMMA LoopKinds == Loop!KindsAssumption
BY CommandsAssumption DEF Kind, Loop!Kind

LEMMA LoopBounds == Loop!BoundsAssumption
BY CommandsAssumption, TextsAssumption

(* The instances of ClientLoop are one.                                    *)
LEMMA LoopIsNet ==
    /\ Net!Init <=> Loop!Init
    /\ Net!Next <=> Loop!Next
    /\ netVars = Loop!vars
<1> USE DEF Net!client, Loop!client, Net!network, Loop!network
<1>1. Net!Init <=> Loop!Init
  BY DEF Net!Init, Loop!Init
<1>2. Net!PushId = Loop!PushId /\ Net!ResponseId = Loop!ResponseId
  BY DEF Net!PushId, Net!ResponseId, Net!Kind, Loop!PushId, Loop!ResponseId, Loop!Kind,
       Net!SEARCH_RESPONSE, Net!ADD_FRIEND_RESPONSE, Net!AUTH_FRIEND_RESPONSE, Net!TEXT_CHAT_RESPONSE,
       Loop!SEARCH_RESPONSE, Loop!ADD_FRIEND_RESPONSE, Loop!AUTH_FRIEND_RESPONSE, Loop!TEXT_CHAT_RESPONSE,
       Net!NOTIFY_ADD_FRIEND, Net!NOTIFY_AUTH_FRIEND, Net!NOTIFY_TEXT_CHAT,
       Loop!NOTIFY_ADD_FRIEND, Loop!NOTIFY_AUTH_FRIEND, Loop!NOTIFY_TEXT_CHAT
<1>3. \A kind : Net!Submit(kind) <=> Loop!Submit(kind)
  BY DEF Net!Submit, Loop!Submit
<1>4. \A f : Net!HandlePush(f) <=> Loop!HandlePush(f)
  BY <1>2 DEF Net!HandlePush, Loop!HandlePush, Net!IsPush, Loop!IsPush
<1>5. \A r, by : Net!Finish(r, by) <=> Loop!Finish(r, by)
  BY DEF Net!Finish, Loop!Finish
<1>6. Net!RecvPush <=> Loop!RecvPush
  BY <1>4 DEF Net!RecvPush, Loop!RecvPush, Net!AtSelect, Loop!AtSelect
<1>7. /\ Net!ConnectionLost <=> Loop!ConnectionLost
      /\ Net!SendRequest <=> Loop!SendRequest
      /\ Net!SendFails <=> Loop!SendFails
  BY <1>5 DEF Net!ConnectionLost, Loop!ConnectionLost, Net!AtSelect, Loop!AtSelect,
       Net!SendRequest, Loop!SendRequest, Net!SendFails, Loop!SendFails
<1>8. /\ Net!AcceptResponse <=> Loop!AcceptResponse
      /\ Net!CollectFrame <=> Loop!CollectFrame
      /\ Net!RequestTimeout <=> Loop!RequestTimeout
      /\ Net!RequestRecvError <=> Loop!RequestRecvError
  BY <1>2, <1>5 DEF Net!AcceptResponse, Loop!AcceptResponse, Net!CollectFrame, Loop!CollectFrame,
     Net!RequestTimeout, Loop!RequestTimeout, Net!RequestRecvError, Loop!RequestRecvError
<1>9. Net!DispatchDrained <=> Loop!DispatchDrained
  BY <1>4 DEF Net!DispatchDrained, Loop!DispatchDrained
<1>10. Net!NetStep <=> Loop!NetStep
  BY <1>6, <1>7, <1>8, <1>9 DEF Net!NetStep, Loop!NetStep
<1>11. Net!ServerStep <=> Loop!ServerStep
  BY <1>2 DEF Net!ServerStep, Loop!ServerStep, Net!Answer, Loop!Answer, Net!AnswerInvalid,
     Loop!AnswerInvalid, Net!Push, Loop!Push, Net!Close, Loop!Close,
     Net!INVALID_REQUEST, Loop!INVALID_REQUEST
<1>12. Net!Next <=> Loop!Next
  BY <1>3, <1>10, <1>11 DEF Net!Next, Loop!Next
<1>13. netVars = Loop!vars
  BY DEF netVars, Loop!vars
<1>. QED
  BY <1>1, <1>12, <1>13

LoopInv == Loop!IInv /\ Loop!AInv

(* A step of the session is one of the loop's that LoopInv knows.          *)
LEMMA NextLoopInv ==
    ASSUME SendsTexts, LoopInv, [Next]_vars
    PROVE  LoopInv' /\ [Loop!Next]_(Loop!vars)
<1>1. [Net!Next]_netVars
  BY StepIsNetStep
<1>2. [Loop!Next]_(Loop!vars)
  BY <1>1, LoopIsNet DEF netVars, Loop!vars
<1>3. Loop!IInv /\ Loop!AInv
  BY DEF LoopInv
<1>4. Loop!IInv'
  BY <1>2, <1>3, LoopKinds, LoopBounds, Loop!NextIInv
<1>5. Loop!AInv'
  BY <1>2, <1>3, <1>4, LoopKinds, LoopBounds, Loop!NextAInv
<1>. QED
  BY <1>2, <1>4, <1>5 DEF LoopInv

LEMMA InitLoopInv == Init => LoopInv
<1> SUFFICES ASSUME Init PROVE LoopInv
  OBVIOUS
<1>1. Loop!Init
  BY LoopIsNet DEF Init
<1>. QED
  BY <1>1, LoopKinds, LoopBounds, Loop!InitIInv, Loop!InitAInv DEF LoopInv

(* The loop of the session keeps the invariant of the loop by itself.      *)
THEOREM SpecLoopInv == Spec => []LoopInv
<1>1. SendsTexts /\ LoopInv /\ [Next]_vars => LoopInv'
  BY NextLoopInv
<1>. QED
  BY <1>1, InitLoopInv, SpecSInv, PTL DEF Spec

-----------------------------------------------------------------------------
(* Pushes.  A text carries its own number, and no frame announces an apply *)
(* whose body is a text.                                                   *)

PushesNumbered ==
    \A n \in DOMAIN pushes :
        \A t \in IncomingText(pushes[n]) : t.text = n /\ t.fromuid = pushes[n].fromuid

FitFrame == {f \in SentFrame : f.id = NOTIFY_ADD_FRIEND => ~ IsText(f.tag)}

FramesFit == down \in Seq(FitFrame) /\ todo \in Seq(FitFrame) /\ pending \in Seq(FitFrame)

PushInv == PushesNumbered /\ FramesFit

(* The loop only moves frames.                                             *)
LEMMA NetQueues ==
    ASSUME NEW F, down \in Seq(F), todo \in Seq(F), pending \in Seq(F), Net!NetStep
    PROVE  down' \in Seq(F) /\ todo' \in Seq(F) /\ pending' \in Seq(F)
<1>1. CASE Net!RecvPush
  BY <1>1 DEF Net!RecvPush, Net!client
<1>2. CASE Net!ConnectionLost
  BY <1>2 DEF Net!ConnectionLost
<1>3. CASE Net!SendRequest
  BY <1>3 DEF Net!SendRequest
<1>4. CASE Net!SendFails
  BY <1>4 DEF Net!SendFails, Net!Finish, Net!network
<1>5. CASE Net!AcceptResponse
  BY <1>5 DEF Net!AcceptResponse, Net!Finish
<1>6. CASE Net!CollectFrame
  BY <1>6 DEF Net!CollectFrame
<1>7. CASE Net!RequestTimeout
  BY <1>7 DEF Net!RequestTimeout, Net!Finish, Net!network
<1>8. CASE Net!RequestRecvError
  BY <1>8 DEF Net!RequestRecvError, Net!Finish
<1>9. CASE Net!DispatchDrained
  BY <1>9 DEF Net!DispatchDrained, Net!network
<1>. QED
  BY <1>1, <1>2, <1>3, <1>4, <1>5, <1>6, <1>7, <1>8, <1>9 DEF Net!NetStep

(* A body is added to the pushes.                                          *)
LEMMA PushAdded ==
    ASSUME SInv, PushInv, NEW id \in PushId, NEW body, pushes' = Append(pushes, body),
           npush' = npush + 1, down' = Append(down, [id |-> id, tag |-> npush']),
           UNCHANGED <<todo, pending>>,
           id = NOTIFY_ADD_FRIEND => IncomingText(body) = {},
           \A t \in IncomingText(body) : t.text = npush' /\ t.fromuid = body.fromuid
    PROVE  PushInv'
<1>1. npush \in Nat /\ pushes \in Seq(PushBody) /\ Len(pushes) = npush
  BY DEF SInv, FramesOK, BodiesOK
<1>2. /\ \A n \in 1 .. npush : n \in DOMAIN pushes /\ pushes'[n] = pushes[n]
      /\ pushes'[npush'] = body /\ DOMAIN pushes' = 1 .. npush'
      /\ \A n \in 1 .. npush' : n \in 1 .. npush \/ n = npush'
  BY <1>1
<1>3. PushesNumbered'
  BY <1>2 DEF PushInv, PushesNumbered
<1> DEFINE F == FitFrame
           G == FitFrame'
<1>4. F \subseteq G
  <2> SUFFICES ASSUME NEW f \in F PROVE f \in G
    OBVIOUS
  <2>1. f \in SentFrame'
    BY <1>1 DEF FitFrame, SentFrame
  <2>2. f.id = NOTIFY_ADD_FRIEND => f.tag \in 1 .. npush /\ ~ IsText(f.tag)
    BY DEF FitFrame, SentFrame, PushId
  <2>3. f.id = NOTIFY_ADD_FRIEND => ~ IsText(f.tag)'
    BY <1>2, <2>2 DEF IsText
  <2>. QED
    BY <2>1, <2>3 DEF FitFrame
<1>5. [id |-> id, tag |-> npush'] \in G
  <2> PICK f : f = [id |-> id, tag |-> npush']
    OBVIOUS
  <2>1. f \in SentFrame'
    BY <1>1 DEF SentFrame, IncomingId
  <2>2. f.id = NOTIFY_ADD_FRIEND => IncomingText(pushes'[f.tag]) = {}
    BY <1>2
  <2>3. f.id = NOTIFY_ADD_FRIEND => ~ IsText(f.tag)'
    BY <2>2 DEF IsText
  <2>4. f \in G
    BY <2>1, <2>3 DEF FitFrame
  <2>. QED
    BY <2>4
<1>6. down \in Seq(F) /\ todo \in Seq(F) /\ pending \in Seq(F)
  BY DEF PushInv, FramesFit
<1> HIDE DEF F, G
<1>7. down \in Seq(G) /\ todo \in Seq(G) /\ pending \in Seq(G)
  BY <1>4, <1>6
<1>8. down' \in Seq(G) /\ todo' \in Seq(G) /\ pending' \in Seq(G)
  BY <1>5, <1>7
<1>. QED
  BY <1>3, <1>8 DEF PushInv, FramesFit, G

(* Every step keeps what is known of pushes.                               *)
LEMMA NextPushInv ==
    ASSUME SInv, PushInv, [Next]_vars
    PROVE  PushInv'
<1>1. ASSUME UNCHANGED <<pushes, npush>>
      PROVE  PushesNumbered' /\ FitFrame' = FitFrame
  BY <1>1 DEF PushInv, PushesNumbered, FitFrame, SentFrame, IsText
<1>2. ASSUME UNCHANGED <<pushes, npush, down, todo, pending>>
      PROVE  PushInv'
  BY <1>1, <1>2 DEF PushInv, FramesFit
<1>3. CASE UNCHANGED vars
  BY <1>2, <1>3 DEF vars, netVars, wireVars
<1>4. CASE RunClosure
  BY <1>2, <1>4 DEF RunClosure, netVars, wireVars
<1>5. ASSUME NEW kind, NEW load, Send(kind, load), UNCHANGED pushes
      PROVE  PushInv'
  BY <1>2, <1>5 DEF Send, Net!Submit, Net!client, Net!network, netVars
<1>6. CASE FileText
  BY <1>2, <1>5, <1>6 DEF FileText, netVars
<1>7. CASE UserStep
  BY <1>2, <1>5, <1>7 DEF UserStep, SelectFriend, SendText, OpenAddDialog, CloseAddDialog, AddFriend,
     AddSearchUser, ApproveApply, RejectApply, netVars, wireVars
<1>8. CASE NetStep
  <2>1. Net!NetStep /\ UNCHANGED pushes
    BY <1>8 DEF NetStep, Net!NetStep, RecvPush, DispatchDrained, ConnectionLost, SendRequest,
       CollectFrame, SendFails, AcceptResponse, RequestTimeout, RequestRecvError, Conclude, wireVars
  <2>2. npush' = npush
    BY <2>1, NetFrames DEF SInv
  <2> DEFINE F == FitFrame
  <2>3. down \in Seq(F) /\ todo \in Seq(F) /\ pending \in Seq(F)
    BY DEF PushInv, FramesFit
  <2> HIDE DEF F
  <2>4. down' \in Seq(F) /\ todo' \in Seq(F) /\ pending' \in Seq(F)
    BY <2>1, <2>3, NetQueues
  <2>. QED
    BY <1>1, <2>1, <2>2, <2>4 DEF PushInv, FramesFit, F
<1>9. CASE ServerStep
  <2>1. ASSUME NEW r \in up, Answer(r) \/ AnswerInvalid(r)
        PROVE  PushInv'
    <3>1. r.tag \in 1 .. MaxCmds /\ r.kind \in Kind
      <4>1. r \in Command /\ Len(reqs) = nreq /\ nreq \in 0 .. MaxCmds
            /\ reqs \in Seq(UNION {Load(kind) : kind \in Kinds})
        BY DEF SInv, CommandsOK
      <4>. QED
        BY <4>1, CommandsAssumption DEF Command
    <3>2. \E id \in IncomingId \ PushId :
             /\ down' = Append(down, [id |-> id, tag |-> r.tag])
             /\ UNCHANGED <<npush, todo, pending, pushes>>
      BY <2>1, <3>1, ProtocolSame DEF Answer, AnswerInvalid, Net!Answer, Net!AnswerInvalid,
         Net!client, wireVars
    <3>3. PICK id \in IncomingId \ PushId :
             /\ down' = Append(down, [id |-> id, tag |-> r.tag])
             /\ UNCHANGED <<npush, todo, pending, pushes>>
      BY <3>2
    <3> DEFINE F == FitFrame
               f == [id |-> id, tag |-> r.tag]
    <3>4. f \in F
      BY <3>1 DEF FitFrame, SentFrame, PushId
    <3>5. down \in Seq(F)
      BY DEF PushInv, FramesFit
    <3> HIDE DEF F, f
    <3>6. Append(down, f) \in Seq(F)
      BY <3>4, <3>5
    <3>. QED
      BY <1>1, <3>3, <3>6 DEF PushInv, FramesFit, F, f
  <2>2. CASE Close
    BY <1>2, <2>2 DEF Close, Net!Close, Net!client, wireVars
  <2>3. ASSUME NEW id \in PushId, NEW body, PushAs(id, body)
        PROVE  /\ pushes' = Append(pushes, body) /\ npush' = npush + 1
               /\ down' = Append(down, [id |-> id, tag |-> npush'])
               /\ UNCHANGED <<todo, pending>>
    BY <2>3 DEF PushAs, Net!Push, Net!client
  <2>4. ASSUME NEW uid \in Uid, PushText(uid)
        PROVE  PushInv'
    <3> DEFINE body == TextChatRequest(uid, Me, npush')
    <3>1. PICK id \in {NOTIFY_TEXT_CHAT, NOTIFY_AUTH_FRIEND} : PushAs(id, body)
      BY <2>4, TextIdsAssumption DEF PushText
    <3>2. id \in PushId /\ id # NOTIFY_ADD_FRIEND
      BY DEF PushId, NOTIFY_TEXT_CHAT, NOTIFY_AUTH_FRIEND, NOTIFY_ADD_FRIEND
    <3>3. \A t \in IncomingText(body) : t.text = npush' /\ t.fromuid = body.fromuid
      BY DEF TextChatRequest, IncomingText, Has
    <3> HIDE DEF body
    <3>. QED
      BY <2>3, <3>1, <3>2, <3>3, PushAdded
  <2>5. ASSUME NEW uid \in Uid, PushApply(uid)
        PROVE  PushInv'
    <3> DEFINE body == [applyuid |-> uid, name |-> UserName[uid]]
    <3>1. PushAs(NOTIFY_ADD_FRIEND, body) /\ NOTIFY_ADD_FRIEND \in PushId
      BY <2>5 DEF PushApply, PushId
    <3>2. IncomingText(body) = {}
      BY DEF IncomingText, Has
    <3> HIDE DEF body
    <3>. QED
      BY <2>3, <3>1, <3>2, PushAdded
  <2>6. ASSUME NEW uid \in Uid, PushApproved(uid)
        PROVE  PushInv'
    <3> DEFINE body == AuthFriendRequest(uid, Me)
    <3>1. PushAs(NOTIFY_AUTH_FRIEND, body) /\ NOTIFY_AUTH_FRIEND \in PushId
      BY <2>6 DEF PushApproved, PushId
    <3>2. IncomingText(body) = {}
      BY DEF IncomingText, Has, AuthFriendRequest
    <3> HIDE DEF body
    <3>. QED
      BY <2>3, <3>1, <3>2, PushAdded
  <2>. QED
    BY <1>9, <2>1, <2>2, <2>4, <2>5, <2>6 DEF ServerStep
<1>. QED
  BY <1>3, <1>4, <1>6, <1>7, <1>8, <1>9 DEF Next, UIStep

\* There are none at the beginning.
LEMMA InitPushInv == Init => PushInv
<1> SUFFICES ASSUME Init PROVE PushInv
  OBVIOUS
<1>1. pushes = <<>> /\ down = <<>> /\ todo = <<>> /\ pending = <<>>
  BY DEF Init, Net!Init
<1>2. PushesNumbered
  BY <1>1 DEF PushesNumbered
<1>. QED
  BY <1>1, <1>2 DEF PushInv, FramesFit

-----------------------------------------------------------------------------
(* Friends.  The list changes in two ways: an unknown uid is learned, and  *)
(* an approved user is added, neither of somebody who is a friend already. *)

Learned(uid) ==
    /\ ~ is_friend(app, uid)
    /\ \E k \in DOMAIN app.friends :
          /\ app.friends[k].id = NoUid
          /\ app'.friends = [app.friends EXCEPT ![k] = [@ EXCEPT !.id = uid]]

Added(uid) ==
    /\ ~ is_friend(app, uid)
    /\ app' = approve_apply(app, uid)
    /\ \E a \in app.applies :
          a.from_uid = uid /\ app'.friends = Append(app.friends, [id |-> uid, name |-> a.name])

(* A text leaves the friends alone but for the sender's uid.               *)
LEMMA ReceivedFriends ==
    ASSUME app \in State, NEW uid \in Uid, NEW text \in Text, app' = receive_push(app, uid, text)
    PROVE  app'.friends = app.friends \/ Learned(uid)
<1> DEFINE l == learn_uid(app, uid)
<1>1. app'.friends = l.friends
  BY ReceivePushType
<1>2. \/ l = app
      \/ \E k \in DOMAIN app.friends :
            /\ app.friends[k].id = NoUid
            /\ ~ is_friend(app, uid)
            /\ l = [app EXCEPT !.friends = [app.friends EXCEPT ![k] = [@ EXCEPT !.id = uid]]]
  BY LearnUid
<1>3. CASE l = app
  BY <1>1, <1>3
<1> HIDE DEF l
<1>4. ASSUME NEW k \in DOMAIN app.friends, app.friends[k].id = NoUid, ~ is_friend(app, uid),
             l = [app EXCEPT !.friends = [app.friends EXCEPT ![k] = [@ EXCEPT !.id = uid]]]
      PROVE  Learned(uid)
  <2>1. l.friends = [app.friends EXCEPT ![k] = [@ EXCEPT !.id = uid]]
    BY <1>4 DEF State
  <2>. QED
    BY <1>1, <1>4, <2>1 DEF Learned
<1>. QED
  BY <1>2, <1>3, <1>4

(* A call of AppState leaves the friends alone but in those two ways.      *)
LEMMA FriendsChange ==
    ASSUME app \in State, AppCall
    PROVE  \/ app'.friends = app.friends
           \/ \E uid \in Uid, text \in Text : app' = receive_push(app, uid, text) /\ Learned(uid)
           \/ \E uid \in Uid : Added(uid)
<1>1. CASE app' = login_failed(app)
  BY <1>1, StatusOnly
<1>2. ASSUME NEW uid \in Uid, NEW name \in Name, app' = apply_received(app, uid, name)
      PROVE  app'.friends = app.friends
  BY <1>2 DEF apply_received, State
<1>3. ASSUME NEW uid \in Uid, app' = approve_apply(app, uid)
      PROVE  app'.friends = app.friends \/ Added(uid)
  <2>1. CASE is_friend(app, uid)
    BY <1>3, <2>1 DEF approve_apply, State
  <2>2. CASE ~ is_friend(app, uid)
    BY <1>3, <2>2, ApproveApplyAdds DEF Added
  <2>. QED
    BY <2>1, <2>2
<1>4. CASE \E name \in Name : app' = reject_apply(app, name)
  BY <1>4 DEF reject_apply, State
<1>5. CASE \E result \in {{}} \cup {{f} : f \in [id : Uid, name : Name]} :
              app' = set_search_result(app, result)
  BY <1>5 DEF set_search_result, State
<1>6. ASSUME NEW uid \in Uid, NEW text \in Text, app' = receive_push(app, uid, text)
      PROVE  app'.friends = app.friends \/ Learned(uid)
  BY <1>6, ReceivedFriends
<1>7. CASE \E friend \in Name : app' = open_conversation(app, friend)
  BY <1>7 DEF open_conversation, State
<1>8. CASE \E friend \in Name, text \in Text : app' = sent_message(app, friend, text)
  BY <1>8 DEF sent_message, push_to_conversation, State
<1>. QED
  BY <1>1, <1>2, <1>3, <1>4, <1>5, <1>6, <1>7, <1>8 DEF AppCall

(* What a learned uid leaves of the list.                                  *)
LEMMA LearnedList ==
    ASSUME NEW fs \in Seq(Friend), NEW k \in DOMAIN fs, NEW uid \in Uid, NEW gs,
           gs = [fs EXCEPT ![k] = [@ EXCEPT !.id = uid]]
    PROVE  /\ DOMAIN gs = DOMAIN fs /\ gs[k] = [id |-> uid, name |-> fs[k].name]
           /\ \A i \in DOMAIN fs : i # k => gs[i] = fs[i]
           /\ \A i \in DOMAIN fs : gs[i].name = fs[i].name
<1>1. fs[k] \in Friend /\ DOMAIN gs = DOMAIN fs
  OBVIOUS
<1>2. gs[k] = [fs[k] EXCEPT !.id = uid]
  OBVIOUS
<1>3. gs[k] = [id |-> uid, name |-> fs[k].name]
  BY <1>1, <1>2 DEF Friend
<1>. QED
  BY <1>1, <1>3

(* What an addition leaves of it.                                          *)
LEMMA AddedList ==
    ASSUME NEW fs \in Seq(Friend), NEW f, NEW gs, gs = Append(fs, f)
    PROVE  /\ \A i \in DOMAIN fs : i \in DOMAIN gs /\ gs[i] = fs[i]
           /\ \A i \in DOMAIN gs : gs[i] = f \/ (i \in DOMAIN fs /\ gs[i] = fs[i])
           /\ \E i \in DOMAIN gs : gs[i] = f
<1>1. Len(fs) + 1 \in DOMAIN gs /\ gs[Len(fs) + 1] = f
  OBVIOUS
<1>. QED
  BY <1>1

\* Known entries stay, and names do.
Grown(fs, gs) ==
    \A i \in DOMAIN fs :
        i \in DOMAIN gs /\ gs[i].name = fs[i].name /\ (fs[i].id # NoUid => gs[i].id = fs[i].id)

(* A call of AppState forgets no friend and no uid.                        *)
LEMMA FriendsGrow ==
    ASSUME app \in State, AppCall
    PROVE  Grown(app.friends, app'.friends)
<1>1. app.friends \in Seq(Friend)
  BY DEF State
<1>2. CASE app'.friends = app.friends
  BY <1>2 DEF Grown
<1>3. ASSUME NEW uid \in Uid, Learned(uid)
      PROVE  Grown(app.friends, app'.friends)
  BY <1>1, <1>3, LearnedList DEF Learned, Grown
<1>4. ASSUME NEW uid \in Uid, Added(uid)
      PROVE  Grown(app.friends, app'.friends)
  BY <1>1, <1>4, AddedList DEF Added, Grown
<1>. QED
  BY <1>2, <1>3, <1>4, FriendsChange

\* Friends with one uid have one name.
FriendsInv ==
    \A i, j \in DOMAIN app.friends :
        app.friends[i].id = app.friends[j].id /\ app.friends[i].id # NoUid
            => app.friends[i].name = app.friends[j].name

(* A uid is learned, or added, that no entry has.                          *)
LEMMA NextFriendsInv ==
    ASSUME app \in State, FriendsInv, AppCall
    PROVE  FriendsInv'
<1>1. app.friends \in Seq(Friend)
  BY DEF State
<1>2. CASE app'.friends = app.friends
  BY <1>2 DEF FriendsInv
<1>3. ASSUME NEW uid \in Uid, Learned(uid)
      PROVE  FriendsInv'
  <2>1. PICK k \in DOMAIN app.friends :
            /\ app.friends[k].id = NoUid
            /\ app'.friends = [app.friends EXCEPT ![k] = [@ EXCEPT !.id = uid]]
    BY <1>3 DEF Learned
  <2>2. /\ DOMAIN app'.friends = DOMAIN app.friends
        /\ app'.friends[k] = [id |-> uid, name |-> app.friends[k].name]
        /\ \A i \in DOMAIN app.friends : i # k => app'.friends[i] = app.friends[i]
    BY <1>1, <2>1, LearnedList
  <2>3. \A i \in DOMAIN app.friends : app.friends[i].id # uid
    BY <1>3 DEF Learned, is_friend
  <2>. QED
    BY <2>2, <2>3 DEF FriendsInv
<1>4. ASSUME NEW uid \in Uid, Added(uid)
      PROVE  FriendsInv'
  <2>1. PICK a \in app.applies : app'.friends = Append(app.friends, [id |-> uid, name |-> a.name])
    BY <1>4 DEF Added
  <2> DEFINE f == [id |-> uid, name |-> a.name]
  <2>2. \A i \in DOMAIN app'.friends :
           app'.friends[i] = f \/ (i \in DOMAIN app.friends /\ app'.friends[i] = app.friends[i])
    BY <1>1, <2>1, AddedList
  <2>3. \A i \in DOMAIN app.friends : app.friends[i].id # uid
    BY <1>4 DEF Added, is_friend
  <2>4. uid # NoUid /\ f.id = uid
    BY NoUidAssumption
  <2> HIDE DEF f
  <2>. QED
    BY <2>2, <2>3, <2>4 DEF FriendsInv
<1>. QED
  BY <1>2, <1>3, <1>4, FriendsChange

\* The friends are those of the login.
LEMMA InitFriends == Init => app.friends = LoginFriends
<1> DEFINE d == [uid |-> Me, friends |-> LoginFriends, applies |-> LoginApplies]
<1>1. Init => app = seed_applies(login_succeeded(begin_login(New), d.uid, d.friends), d.applies)
  BY DEF Init, LoggedInState
<1>2. begin_login(New) \in State /\ begin_login(New).applies = {}
  <2>1. New \in State /\ New.applies = {}
    BY DEF New, State, AnyUid, LoginStatus, ChatMessage, Friend
  <2>. QED
    BY <2>1, StatusOnly
<1>3. d.uid \in Uid /\ d.friends \in Seq(Friend) /\ d.applies \in Seq(FriendApply)
  BY NamesAssumption, ListsAssumption
<1> HIDE DEF d
<1>4. Init => app.friends = d.friends
  BY <1>1, <1>2, <1>3, LoginLeaves
<1>. QED
  BY <1>4 DEF d

LEMMA InitFriendsInv == Init => FriendsInv
BY InitFriends, ListsAssumption DEF FriendsInv

(* Who has a name keeps it.                                                *)
LEMMA AttributedStays ==
    ASSUME app \in State, AppCall, NEW friend, NEW uid \in Uid, Attributed(friend, uid)
    PROVE  Attributed(friend, uid)'
<1>1. PICK i \in DOMAIN app.friends : app.friends[i].name = friend /\ app.friends[i].id = uid
  BY DEF Attributed
<1>2. uid # NoUid
  BY NoUidAssumption
<1>3. i \in DOMAIN app'.friends /\ app'.friends[i].name = friend /\ app'.friends[i].id = uid
  BY <1>1, <1>2, FriendsGrow DEF Grown
<1>. QED
  BY <1>3 DEF Attributed

-----------------------------------------------------------------------------
(* The network thread, by what it does beside the loop's variables.        *)

\* The body of the answer to request n, if there is one.
AnswerOf(n) == IF n = 0 THEN {} ELSE answers[n]

Handled(frame) ==
    /\ Dispatch(frame)
    /\ handled' = IF frame.id \in PushId THEN Append(handled, frame.tag) ELSE handled
    /\ UNCHANGED outcome

Ended(r, by) ==
    /\ Conclude(r, AnswerOf(by))
    /\ outcome' = Append(outcome, [tag |-> r.tag, kind |-> r.kind, by |-> by])
    /\ UNCHANGED handled

Moved ==
    /\ UNCHANGED <<app, handled, outcome>>
    /\ uiq' = uiq \/ Queue([op |-> "disconnected"])

(* The network thread handles a frame, ends a command, or does neither.    *)
LEMMA NetCases ==
    ASSUME SInv, PushInv, LoopInv, NetStep
    PROVE  /\ UNCHANGED <<uiVars, wireVars, nreq, npush>>
           /\ \/ \E frame \in FitFrame : Handled(frame)
              \/ \E r \in Command, by \in 0 .. MaxCmds : r.tag = Len(outcome) + 1 /\ Ended(r, by)
              \/ Moved
<1>1. UNCHANGED <<uiVars, wireVars>> /\ Net!NetStep
  BY DEF NetStep, Net!NetStep, RecvPush, DispatchDrained, ConnectionLost, SendRequest, CollectFrame,
     SendFails, AcceptResponse, RequestTimeout, RequestRecvError, Conclude
<1>2. UNCHANGED <<nreq, npush>>
  BY <1>1 DEF Net!NetStep, Net!RecvPush, Net!ConnectionLost, Net!SendRequest,
     Net!SendFails, Net!AcceptResponse, Net!CollectFrame, Net!RequestTimeout,
     Net!RequestRecvError, Net!DispatchDrained, Net!network
<1>3. /\ down \in Seq(FitFrame) /\ todo \in Seq(FitFrame)
      /\ cmds \in Seq(Command) /\ awaiting \subseteq Command
  BY DEF PushInv, FramesFit, SInv, CommandsOK
<1>4. /\ \A q, r \in awaiting : q = r
      /\ \A r \in awaiting : r.tag = Len(outcome) + 1
      /\ awaiting = {} /\ cmds # <<>> => cmds[1].tag = Len(outcome) + 1
  <2>1. /\ \A q, r \in awaiting : q = r
        /\ \A r \in awaiting : r.tag = Loop!Taken
        /\ \A i \in DOMAIN cmds : cmds[i].tag = Loop!Taken + i
        /\ outcome \in Seq(Loop!Outcome)
    BY DEF LoopInv, Loop!IInv, Loop!TypeOK, Loop!AInv, Loop!Numbered
  <2>2. cmds # <<>> => 1 \in DOMAIN cmds
    BY <1>3
  <2>. QED
    BY <2>1, <2>2 DEF Loop!Taken
<1> DEFINE Cases == \/ \E frame \in FitFrame : Handled(frame)
                    \/ \E r \in Command, by \in 0 .. MaxCmds : r.tag = Len(outcome) + 1 /\ Ended(r, by)
                    \/ Moved
<1> SUFFICES Cases
  BY <1>1, <1>2
<1>5. \A frame : Net!IsPush(frame) <=> frame.id \in PushId
  BY ProtocolSame DEF Net!IsPush
<1>6. CASE RecvPush
  <2>1. Head(down) \in FitFrame /\ Handled(Head(down))
    BY <1>3, <1>5, <1>6 DEF RecvPush, Net!RecvPush, Net!HandlePush, Handled
  <2>. QED
    BY <2>1
<1>7. CASE DispatchDrained
  <2>1. Head(todo) \in FitFrame /\ Handled(Head(todo))
    BY <1>3, <1>5, <1>7 DEF DispatchDrained, Net!DispatchDrained, Net!HandlePush, Handled
  <2>. QED
    BY <2>1
<1>8. CASE ConnectionLost \/ SendRequest \/ CollectFrame
  BY <1>8 DEF ConnectionLost, SendRequest, CollectFrame, Net!ConnectionLost, Net!SendRequest,
     Net!CollectFrame, Moved
<1>9. CASE SendFails
  <2>1. /\ Head(cmds) \in Command /\ Head(cmds).tag = Len(outcome) + 1
        /\ Ended(Head(cmds), 0)
    BY <1>3, <1>4, <1>9 DEF SendFails, Net!SendFails, Net!AtSelect, Net!Finish, Ended, AnswerOf
  <2>2. 0 \in 0 .. MaxCmds
    BY CommandsAssumption
  <2>. QED
    BY <2>1, <2>2
<1>10. CASE AcceptResponse
  <2>1. PICK r \in awaiting : Conclude(r, answers[Head(down).tag])
    BY <1>10 DEF AcceptResponse
  <2>2. /\ down # <<>> /\ Head(down).id = Net!ResponseId[r.kind]
        /\ Net!Finish(r, Head(down).tag) /\ UNCHANGED handled
    BY <1>4, <1>10 DEF AcceptResponse, Net!AcceptResponse
  <2>3. Head(down) \in SentFrame /\ r.kind \in Kind
    BY <1>3, <2>2, CommandsAssumption DEF FitFrame, Command
  <2>4. Head(down).id \notin PushId
    BY <2>2, <2>3, ProtocolSame
  <2>5. Head(down).tag \in 1 .. MaxCmds
    BY <2>3, <2>4 DEF SentFrame
  <2>6. Ended(r, Head(down).tag) /\ Head(down).tag \in 0 .. MaxCmds
    BY <2>1, <2>2, <2>5, CommandsAssumption DEF Ended, Net!Finish, AnswerOf
  <2>. QED
    BY <1>3, <1>4, <2>6
<1>11. CASE RequestTimeout \/ RequestRecvError
  <2>1. PICK r \in awaiting : Conclude(r, {})
    BY <1>11 DEF RequestTimeout, RequestRecvError
  <2>2. Net!Finish(r, 0) /\ UNCHANGED handled
    BY <1>4, <1>11 DEF RequestTimeout, RequestRecvError, Net!RequestTimeout, Net!RequestRecvError
  <2>3. Ended(r, 0) /\ 0 \in 0 .. MaxCmds
    BY <2>1, <2>2, CommandsAssumption DEF Ended, Net!Finish, AnswerOf
  <2>. QED
    BY <1>3, <1>4, <2>3
<1>. QED
  BY <1>6, <1>7, <1>8, <1>9, <1>10, <1>11 DEF NetStep

-----------------------------------------------------------------------------
(* Conversations. *)

\* Conversations hold texts of mine up to s and received ones up to r, each
\* in one place, those of either kind in order.
Tidy(c, s, r) ==
    /\ \A f \in Name : Len(c[f]) <= s + r
    /\ \A f \in Name : \A i \in DOMAIN c[f] :
          c[f][i].text \in IF c[f][i].mine THEN 1 .. s ELSE 1 .. r
    /\ \A f \in Name : \A i, j \in DOMAIN c[f] :
          i < j /\ c[f][i].mine = c[f][j].mine => c[f][i].text < c[f][j].text
    /\ \A f, g \in Name : \A i \in DOMAIN c[f], j \in DOMAIN c[g] : c[f][i] = c[g][j] => f = g

\* Message m stands in the conversation with f.
Holding(c, f, m) == \E i \in DOMAIN c[f] : c[f][i] = m

\* What c holds, d holds in the same place.
Kept(c, d) == \A f \in Name : \A i \in DOMAIN c[f] : i \in DOMAIN d[f] /\ d[f][i] = c[f][i]

\* Message m is filed under f.
Filing(c, d, f, m) == d = [c EXCEPT ![f] = Append(@, m)]

(* A text numbered above those of its kind is filed.                       *)
LEMMA TidyAdd ==
    ASSUME NEW c \in [Name -> Seq(ChatMessage)], NEW s \in Nat, NEW r \in Nat,
           NEW s2 \in Nat, NEW r2 \in Nat, s <= s2, r <= r2, s + r < s2 + r2, Tidy(c, s, r),
           NEW f \in Name, NEW m \in ChatMessage,
           m.text \in IF m.mine THEN (s + 1) .. s2 ELSE (r + 1) .. r2,
           NEW d, Filing(c, d, f, m)
    PROVE  Tidy(d, s2, r2) /\ Kept(c, d) /\ Holding(d, f, m)
<1> USE DEF Filing
<1>1. \A g \in Name : c[g] \in Seq(ChatMessage) /\ d[g] = IF g = f THEN Append(c[g], m) ELSE c[g]
  OBVIOUS
<1>2. /\ Len(c[f]) \in Nat /\ Len(d[f]) = Len(c[f]) + 1
      /\ \A g \in Name : g # f => Len(d[g]) = Len(c[g]) /\ Len(c[g]) \in Nat
  BY <1>1
<1>3. \A g \in Name : \A i \in DOMAIN d[g] :
         \/ i \in DOMAIN c[g] /\ d[g][i] = c[g][i]
         \/ g = f /\ i = Len(c[f]) + 1 /\ d[g][i] = m
  BY <1>1
<1>4. Kept(c, d)
  BY <1>1 DEF Kept
<1>5. Holding(d, f, m)
  BY <1>1, <1>2 DEF Holding
<1>6. \A g \in Name : \A i \in DOMAIN c[g] :
         /\ i \in Nat /\ i <= Len(c[g]) /\ c[g][i].text \in Nat
         /\ c[g][i].text \in IF c[g][i].mine THEN 1 .. s ELSE 1 .. r
         /\ c[g][i].mine = m.mine => c[g][i].text < m.text
  <2> TAKE g \in Name
  <2> TAKE i \in DOMAIN c[g]
  <2>1. i \in Nat /\ i <= Len(c[g])
    BY <1>1
  <2>2. c[g][i].text \in IF c[g][i].mine THEN 1 .. s ELSE 1 .. r
    BY DEF Tidy
  <2>. QED
    BY <2>1, <2>2
<1>7. \A g \in Name : Len(d[g]) <= s2 + r2
  <2> TAKE g \in Name
  <2>1. Len(c[g]) <= s + r
    BY DEF Tidy
  <2>. QED
    BY <1>2, <2>1
<1>8. \A g \in Name : \A i \in DOMAIN d[g] :
         d[g][i].text \in IF d[g][i].mine THEN 1 .. s2 ELSE 1 .. r2
  BY <1>3, <1>6
<1>9. \A g \in Name : \A i, j \in DOMAIN d[g] :
         i < j /\ d[g][i].mine = d[g][j].mine => d[g][i].text < d[g][j].text
  <2> SUFFICES ASSUME NEW g \in Name, NEW i \in DOMAIN d[g], NEW j \in DOMAIN d[g],
                      i < j, d[g][i].mine = d[g][j].mine
               PROVE  d[g][i].text < d[g][j].text
    OBVIOUS
  <2>1. i \in DOMAIN c[g] /\ d[g][i] = c[g][i]
    BY <1>2, <1>3, <1>6
  <2>2. CASE j \in DOMAIN c[g] /\ d[g][j] = c[g][j]
    BY <2>1, <2>2 DEF Tidy
  <2>3. CASE d[g][j] = m
    BY <1>6, <2>1, <2>3
  <2>. QED
    BY <1>3, <2>2, <2>3
<1>10. \A g, h \in Name : \A i \in DOMAIN d[g], j \in DOMAIN d[h] : d[g][i] = d[h][j] => g = h
  <2> SUFFICES ASSUME NEW g \in Name, NEW h \in Name, NEW i \in DOMAIN d[g], NEW j \in DOMAIN d[h],
                      d[g][i] = d[h][j]
               PROVE  g = h
    OBVIOUS
  <2>1. CASE i \in DOMAIN c[g] /\ d[g][i] = c[g][i] /\ j \in DOMAIN c[h] /\ d[h][j] = c[h][j]
    BY <2>1 DEF Tidy
  <2>2. ASSUME NEW e \in Name, NEW k \in DOMAIN c[e], c[e][k] = m PROVE FALSE
    <3>1. c[e][k].text < m.text /\ c[e][k].text \in Nat
      BY <1>6, <2>2
    <3>. QED
      BY <2>2, <3>1
  <2>. QED
    BY <1>3, <2>1, <2>2
<1>. QED
  BY <1>4, <1>5, <1>7, <1>8, <1>9, <1>10 DEF Tidy

\* More may be numbered without being filed.
LEMMA TidyMore ==
    ASSUME NEW c, NEW s \in Nat, NEW r \in Nat, NEW s2 \in Nat, NEW r2 \in Nat,
           c \in [Name -> Seq(ChatMessage)], s <= s2, r <= r2, Tidy(c, s, r)
    PROVE  Tidy(c, s2, r2)
<1>1. \A f \in Name : Len(c[f]) \in Nat
  OBVIOUS
<1>. QED
  BY <1>1 DEF Tidy

\* Message m stands in c at i under f, and nowhere else.
OnlyAt(c, f, i, m) ==
    /\ i \in DOMAIN c[f] /\ c[f][i] = m
    /\ \A g \in Name : \A j \in DOMAIN c[g] : c[g][j] = m => g = f /\ j = i

\* A message of a tidy conversation stands in one place.
LEMMA TidyPlace ==
    ASSUME NEW c \in [Name -> Seq(ChatMessage)], NEW s \in Nat, NEW r \in Nat, Tidy(c, s, r),
           NEW f \in Name, NEW m \in ChatMessage, Holding(c, f, m)
    PROVE  \E i \in 1 .. (s + r) : OnlyAt(c, f, i, m)
<1>1. PICK i \in DOMAIN c[f] : c[f][i] = m
  BY DEF Holding
<1>2. c[f] \in Seq(ChatMessage) /\ Len(c[f]) <= s + r
  BY DEF Tidy
<1>3. i \in 1 .. (s + r)
  BY <1>2
<1>4. \A g \in Name : \A j \in DOMAIN c[g] : c[g][j] = m => g = f
  BY <1>1 DEF Tidy
<1>5. \A j \in DOMAIN c[f] : c[f][j] = m => j = i
  <2> SUFFICES ASSUME NEW j \in DOMAIN c[f], c[f][j] = m, j # i PROVE FALSE
    OBVIOUS
  <2>1. i \in Nat /\ j \in Nat
    BY <1>2
  <2>2. m.text < m.text
    BY <1>1, <2>1 DEF Tidy
  <2>3. m.text \in IF m.mine THEN 1 .. s ELSE 1 .. r
    BY <1>1 DEF Tidy
  <2>. QED
    BY <2>2, <2>3
<1>. QED
  BY <1>1, <1>3, <1>4, <1>5 DEF OnlyAt

(* What the methods of AppState do to the conversations.                   *)
LEMMA FilingsOnly ==
    ASSUME app \in State, AppCall
    PROVE  /\ app.started \subseteq app'.started
           /\ \/ app'.conversations = app.conversations
              \/ \E uid \in Uid, text \in Text : app' = receive_push(app, uid, text)
              \/ \E friend \in Name, text \in Text : app' = sent_message(app, friend, text)
<1>1. CASE app' = login_failed(app)
  BY <1>1 DEF login_failed, State
<1>2. ASSUME NEW uid \in Uid, NEW name \in Name, app' = apply_received(app, uid, name)
      PROVE  app'.started = app.started /\ app'.conversations = app.conversations
  BY <1>2 DEF apply_received, State
<1>3. ASSUME NEW uid \in Uid, app' = approve_apply(app, uid)
      PROVE  app'.started = app.started /\ app'.conversations = app.conversations
  BY <1>3 DEF approve_apply, State
<1>4. CASE \E name \in Name : app' = reject_apply(app, name)
  BY <1>4 DEF reject_apply, State
<1>5. CASE \E result \in {{}} \cup {{f} : f \in [id : Uid, name : Name]} :
              app' = set_search_result(app, result)
  BY <1>5 DEF set_search_result, State
<1>6. ASSUME NEW uid \in Uid, NEW text \in Text, app' = receive_push(app, uid, text)
      PROVE  app.started \subseteq app'.started
  <2> DEFINE l == learn_uid(app, uid)
  <2>1. l \in State /\ l.started = app.started
    <3>1. l \in State
      BY LearnUidType
    <3>2. l.started = app.started
      BY DEF learn_uid, State
    <3>. QED
      BY <3>1, <3>2
  <2>2. app' = received_message(l, friend_for_uid(l, uid), text)
    BY <1>6 DEF receive_push
  <2> HIDE DEF l
  <2>. QED
    BY <2>1, <2>2 DEF received_message, push_to_conversation, State
<1>7. CASE \E friend \in Name : app' = open_conversation(app, friend)
  BY <1>7 DEF open_conversation, State
<1>8. ASSUME NEW friend \in Name, NEW text \in Text, app' = sent_message(app, friend, text)
      PROVE  app.started \subseteq app'.started
  BY <1>8 DEF sent_message, push_to_conversation, State
<1>. QED
  BY <1>1, <1>2, <1>3, <1>4, <1>5, <1>6, <1>7, <1>8 DEF AppCall

(* A text of mine is filed under the friend.                               *)
LEMMA SentFiling ==
    ASSUME NEW s \in State, NEW friend \in Name, NEW text \in Text, NEW t,
           t = sent_message(s, friend, text)
    PROVE  /\ Filing(s.conversations, t.conversations, friend, [mine |-> TRUE, text |-> text])
           /\ t.started = s.started \cup {friend} /\ t.friends = s.friends
BY DEF sent_message, push_to_conversation, State, Filing

(* A received one is filed under the label or a friend with the uid.       *)
LEMMA ReceivedFiling ==
    ASSUME NEW s \in State, NEW uid \in Uid, NEW text \in Text, NEW t,
           t = receive_push(s, uid, text)
    PROVE  \E f \in Name :
              /\ Filing(s.conversations, t.conversations, f, [mine |-> FALSE, text |-> text])
              /\ t.started = s.started \cup {f}
              /\ \/ f = UidLabel[uid]
                 \/ \E i \in DOMAIN t.friends : t.friends[i].name = f /\ t.friends[i].id = uid
<1> DEFINE l == learn_uid(s, uid)
           f == friend_for_uid(l, uid)
<1>1. l \in State /\ l.conversations = s.conversations /\ l.started = s.started
  <2>1. l \in State
    BY LearnUidType
  <2>2. l.conversations = s.conversations /\ l.started = s.started
    BY DEF learn_uid, State
  <2>. QED
    BY <2>1, <2>2
<1>2. t = received_message(l, f, text)
  BY DEF receive_push
<1> HIDE DEF l
<1>3. f \in Name
  BY <1>1, FriendForUidType
<1>4. f = UidLabel[uid] \/ \E i \in DOMAIN l.friends : l.friends[i].name = f /\ l.friends[i].id = uid
  BY DEF friend_for_uid, is_friend
<1> HIDE DEF f
<1>5. /\ Filing(l.conversations, t.conversations, f, [mine |-> FALSE, text |-> text])
      /\ t.started = l.started \cup {f} /\ t.friends = l.friends
  BY <1>1, <1>2, <1>3 DEF received_message, push_to_conversation, State, Filing
<1>. QED
  BY <1>1, <1>3, <1>4, <1>5

-----------------------------------------------------------------------------
(* Texts. *)

\* The texts of mine that were filed: the last click's may still be to be.
Filed == IF sending = {} THEN nsend ELSE nsend - 1

\* The only text on its way to a conversation is the last one clicked.
SendingLast ==
    /\ \A s, t \in sending : s = t
    /\ \A s \in sending : /\ s.text = nsend /\ nsend > 0
                          /\ s.touid # NoUid => Attributed(s.friend, s.touid)

AllStarted == \A f \in Name : app.conversations[f] # <<>> => f \in app.started

ReceivedFiled ==
    \A n \in 1 .. Len(handled) : IsText(n) =>
        \E f \in Name :
            /\ Holding(app.conversations, f, [mine |-> FALSE, text |-> n])
            /\ f = UidLabel[pushes[n].fromuid] \/ Attributed(f, pushes[n].fromuid)

SentFiled ==
    \A n \in DOMAIN reqs : "text" \in DOMAIN reqs[n] =>
        /\ reqs[n].text \in 1 .. Filed
        /\ \E f \in Name : /\ Holding(app.conversations, f, [mine |-> TRUE, text |-> reqs[n].text])
                           /\ Attributed(f, reqs[n].touid)

TextInv ==
    /\ Tidy(app.conversations, Filed, Len(handled))
    /\ SendingLast /\ AllStarted /\ ReceivedFiled /\ SentFiled

\* What the loop's invariant says of the pushes it dispatched.
LEMMA HandledInOrder ==
    ASSUME LoopInv
    PROVE  /\ handled \in Seq(1 .. MaxPushes) /\ Len(handled) <= npush
           /\ \A n \in DOMAIN handled : handled[n] = n
BY DEF LoopInv, Loop!IInv, Loop!TypeOK, Loop!PushesInOrder

(* A push that is handled is the next one.                                 *)
LEMMA HandledNext ==
    ASSUME LoopInv, LoopInv', NEW tag, handled' = Append(handled, tag)
    PROVE  tag = Len(handled) + 1
<1>1. /\ Len(handled) \in Nat /\ Len(handled) + 1 \in DOMAIN handled'
      /\ handled'[Len(handled) + 1] = tag
  BY HandledInOrder
<1>2. \A n \in DOMAIN handled' : handled'[n] = n
  BY DEF LoopInv, Loop!IInv, Loop!PushesInOrder
<1>. QED
  BY <1>1, <1>2

(* The users of texts.                                                     *)
LEMMA TextUsers ==
    ASSUME SInv
    PROVE  /\ \A n \in DOMAIN pushes : IsText(n) => pushes[n].fromuid \in Uid
           /\ \A n \in DOMAIN reqs : "text" \in DOMAIN reqs[n] => reqs[n].touid \in Uid
<1>1. /\ \A n \in DOMAIN pushes : pushes[n] \in PushBody
      /\ \A n \in DOMAIN reqs : \E kind \in Kinds : reqs[n] \in Load(kind)
  BY DEF SInv, BodiesOK, CommandsOK
<1>2. \A body \in PushBody : IncomingText(body) # {} => body.fromuid \in Uid
  BY DEF PushBody, TextBody, ApplyBody, IncomingText, Has
<1>3. \A kind \in Kind : \A c \in Load(kind) : "text" \in DOMAIN c => c.touid \in Uid
  BY DEF Kind, Load
<1>. QED
  BY <1>1, <1>2, <1>3, CommandsAssumption DEF IsText

(* What was filed stays filed.                                             *)
LEMMA FiledStays ==
    ASSUME SInv, AppCall, TextInv, LoopInv, Kept(app.conversations, app'.conversations),
           \A n \in DOMAIN pushes : pushes'[n] = pushes[n],
           \A n \in DOMAIN reqs : reqs'[n] = reqs[n]
    PROVE  /\ \A n \in 1 .. Len(handled) : IsText(n)' =>
                 \E f \in Name :
                    /\ Holding(app'.conversations, f, [mine |-> FALSE, text |-> n])
                    /\ (f = UidLabel[pushes[n].fromuid] \/ Attributed(f, pushes[n].fromuid))'
           /\ \A n \in DOMAIN reqs : "text" \in DOMAIN reqs[n] =>
                 /\ reqs[n].text \in 1 .. Filed
                 /\ \E f \in Name :
                       /\ Holding(app'.conversations, f, [mine |-> TRUE, text |-> reqs[n].text])
                       /\ Attributed(f, reqs[n].touid)'
<1>1. \A f \in Name : \A m : Holding(app.conversations, f, m) => Holding(app'.conversations, f, m)
  BY DEF Kept, Holding
<1>2. app \in State
  BY DEF SInv, AppOK
<1>3. \A f \in Name : \A uid \in Uid : Attributed(f, uid) => Attributed(f, uid)'
  BY <1>2, AttributedStays
<1>4. ASSUME NEW n \in 1 .. Len(handled), IsText(n)'
      PROVE  \E f \in Name :
                /\ Holding(app'.conversations, f, [mine |-> FALSE, text |-> n])
                /\ (f = UidLabel[pushes[n].fromuid] \/ Attributed(f, pushes[n].fromuid))'
  <2>1. n \in DOMAIN pushes
    BY HandledInOrder DEF SInv, BodiesOK, FramesOK
  <2>2. IsText(n) /\ pushes'[n] = pushes[n] /\ pushes[n].fromuid \in Uid
    BY <1>4, <2>1, TextUsers DEF IsText
  <2>3. PICK f \in Name : /\ Holding(app.conversations, f, [mine |-> FALSE, text |-> n])
                          /\ f = UidLabel[pushes[n].fromuid] \/ Attributed(f, pushes[n].fromuid)
    BY <2>2 DEF TextInv, ReceivedFiled
  <2>4. PICK uid \in Uid : uid = pushes[n].fromuid /\ uid = pushes'[n].fromuid
    BY <2>2
  <2>5. Attributed(f, uid) => Attributed(f, uid)'
    BY <1>3
  <2>6. Attributed(f, pushes[n].fromuid)' <=> Attributed(f, uid)'
    BY <2>4 DEF Attributed
  <2>. QED
    BY <1>1, <2>3, <2>4, <2>5, <2>6
<1>5. ASSUME NEW n \in DOMAIN reqs, "text" \in DOMAIN reqs[n]
      PROVE  /\ reqs[n].text \in 1 .. Filed
             /\ \E f \in Name :
                   /\ Holding(app'.conversations, f, [mine |-> TRUE, text |-> reqs[n].text])
                   /\ Attributed(f, reqs[n].touid)'
  <2>1. PICK uid \in Uid : uid = reqs[n].touid
    BY <1>5, TextUsers
  <2>2. PICK f \in Name : /\ Holding(app.conversations, f, [mine |-> TRUE, text |-> reqs[n].text])
                          /\ Attributed(f, uid)
    BY <1>5, <2>1 DEF TextInv, SentFiled
  <2>3. Attributed(f, uid)'
    BY <1>3, <2>2
  <2>4. Attributed(f, reqs[n].touid)'
    <3>1. uid = reqs'[n].touid
      BY <2>1
    <3>. QED
      BY <2>3, <3>1 DEF Attributed
  <2>5. reqs[n].text \in 1 .. Filed
    BY <1>5 DEF TextInv, SentFiled
  <2>. QED
    BY <1>1, <2>2, <2>4, <2>5
<1>. QED
  BY <1>4, <1>5

\* Numbers and types used below.
LEMMA FiledNat ==
    ASSUME SInv, TextInv
    PROVE  /\ Filed \in Nat /\ nsend \in Nat /\ app \in State
           /\ app.conversations \in [Name -> Seq(ChatMessage)]
           /\ sending # {} => Filed = nsend - 1
BY TextsAssumption DEF SInv, UiOK, AppOK, State, Filed, TextInv, SendingLast

\* The text on its way keeps its friend.
LEMMA SendingStays ==
    ASSUME SInv, AppCall, TextInv, UNCHANGED <<sending, nsend>>
    PROVE  SendingLast'
<1>1. ASSUME NEW s \in sending, s.touid # NoUid
      PROVE  Attributed(s.friend, s.touid)'
  <2>1. s.touid \in Uid /\ app \in State
    BY <1>1 DEF SInv, UiOK, AppOK, AnyUid
  <2>2. PICK friend \in Name, uid \in Uid : friend = s.friend /\ uid = s.touid
    BY <2>1 DEF SInv, UiOK
  <2>3. Attributed(friend, uid)
    BY <1>1, <2>2 DEF TextInv, SendingLast
  <2>4. Attributed(friend, uid)'
    BY <2>1, <2>3, AttributedStays
  <2>. QED
    BY <2>2, <2>4 DEF Attributed
<1>. QED
  BY <1>1 DEF TextInv, SendingLast, Attributed

(* Nothing is filed or dispatched: texts stand as they did.                *)
LEMMA QuietTexts ==
    ASSUME SInv, AppCall, LoopInv, TextInv, app'.conversations = app.conversations,
           UNCHANGED <<handled, sending, nsend>>, \A n \in DOMAIN pushes : pushes'[n] = pushes[n],
           reqs' = reqs \/ \E load : reqs' = Append(reqs, load) /\ "text" \notin DOMAIN load
    PROVE  TextInv'
<1>1. app.started \subseteq app'.started
  BY FilingsOnly DEF SInv, AppOK
<1>2. /\ \A n \in DOMAIN reqs : reqs'[n] = reqs[n]
      /\ \A n \in DOMAIN reqs' : n \in DOMAIN reqs \/ "text" \notin DOMAIN reqs'[n]
  BY DEF SInv, CommandsOK
<1>3. Kept(app.conversations, app'.conversations) /\ Filed' = Filed
  BY DEF Kept, Filed
<1>4. ReceivedFiled'
  BY <1>2, <1>3, FiledStays DEF ReceivedFiled
<1>5. SentFiled'
  BY <1>2, <1>3, FiledStays DEF SentFiled
<1>6. AllStarted'
  BY <1>1 DEF TextInv, AllStarted
<1>7. Tidy(app.conversations, Filed, Len(handled))'
  BY <1>3 DEF TextInv, Tidy
<1>. QED
  BY <1>4, <1>5, <1>6, <1>7, SendingStays DEF TextInv

(* The uid looked up under a name is that of a friend with the name.       *)
LEMMA FriendOfUid ==
    ASSUME app \in State, NEW name \in Name, friend_uid(app, name) # NoUid
    PROVE  Attributed(name, friend_uid(app, name))
<1> DEFINE Named == {i \in DOMAIN app.friends : app.friends[i].name = name}
<1>1. Named # {}
  BY DEF friend_uid
<1>2. \A i \in DOMAIN app.friends : i \in Nat
  BY DEF State
<1>3. Named \subseteq Nat
  BY <1>2
<1>4. PICK k \in Named : \A j \in Named : ~ (<<j, k>> \in OpToRel(<, Nat))
  BY <1>1, <1>3, NatLessThanWellFounded, WFMin
<1>5. \A j \in Named : ~ (j < k)
  BY <1>3, <1>4 DEF OpToRel
<1>6. \A j \in Named : k <= j
  BY <1>3, <1>5
<1>7. (CHOOSE i \in Named : \A j \in Named : i <= j) \in Named
  BY <1>6
<1>8. friend_uid(app, name) = app.friends[CHOOSE i \in Named : \A j \in Named : i <= j].id
  BY <1>1 DEF friend_uid
<1>. QED
  BY <1>7, <1>8 DEF Attributed

(* A click: the next number is taken.                                      *)
LEMMA ClickedText ==
    ASSUME SInv, AppCall, LoopInv, TextInv, SendText
    PROVE  TextInv'
<1>1. /\ sending = {} /\ nsend' = nsend + 1
      /\ sending' = {[friend |-> ui.selected_friend,
                      touid |-> friend_uid(app, ui.selected_friend), text |-> nsend']}
      /\ UNCHANGED <<app, pushes, reqs, handled>>
  BY DEF SendText, Idle, netVars, wireVars
<1>2. Filed' = Filed
  <2>1. sending' # {} /\ nsend' - 1 = nsend
    BY <1>1, FiledNat
  <2>. QED
    BY <1>1, <2>1 DEF Filed
<1>3. Kept(app.conversations, app'.conversations)
  BY <1>1 DEF Kept
<1>4. ReceivedFiled' /\ SentFiled'
  BY <1>1, <1>2, <1>3, FiledStays DEF ReceivedFiled, SentFiled
<1>5. AllStarted' /\ Tidy(app.conversations, Filed, Len(handled))'
  BY <1>1, <1>2 DEF TextInv, AllStarted, Tidy
<1>6. SendingLast'
  <2>1. PICK name, uid : name \in Name /\ name = ui.selected_friend /\ uid = friend_uid(app, name)
    BY DEF SInv, UiOK
  <2>2. uid # NoUid => Attributed(name, uid)'
    <3>1. uid # NoUid => Attributed(name, uid)
      BY <2>1, FiledNat, FriendOfUid
    <3>. QED
      BY <1>1, <3>1 DEF Attributed
  <2>3. \A s \in sending' : s = [friend |-> name, touid |-> uid, text |-> nsend']
    BY <1>1, <2>1
  <2>4. nsend' > 0
    BY <1>1, FiledNat
  <2>. QED
    BY <2>2, <2>3, <2>4 DEF SendingLast, Attributed
<1>. QED
  BY <1>4, <1>5, <1>6 DEF TextInv

(* A text of mine is filed, and sent unless the friend's uid is unknown or *)
(* the loop has returned.                                                  *)
LEMMA FiledText ==
    ASSUME SInv, AppCall, LoopInv, TextInv, FileText
    PROVE  TextInv'
<1>1. PICK s \in sending :
        /\ app' = sent_message(app, s.friend, s.text) /\ sending' = {}
        /\ UNCHANGED <<nsend, pushes, handled>>
        /\ reqs' = reqs \/ (s.touid # NoUid /\ reqs' = Append(reqs, [touid |-> s.touid, text |-> s.text]))
  BY DEF FileText, Send, Net!Submit, netVars
<1>2. /\ s.friend \in Name /\ s.text \in Text /\ s.text = nsend /\ nsend > 0
      /\ s.touid # NoUid => Attributed(s.friend, s.touid)
  BY TextsAssumption DEF SInv, UiOK, TextInv, SendingLast
<1> DEFINE m == [mine |-> TRUE, text |-> s.text]
           c == app.conversations
           d == app'.conversations
           r == Len(handled)
<1>3. /\ Filing(c, d, s.friend, m)
      /\ app'.started = app.started \cup {s.friend} /\ app'.friends = app.friends
  <2>1. app \in State
    BY FiledNat
  <2>. QED
    BY <1>1, <1>2, <2>1, SentFiling
<1>4. Filed = nsend - 1 /\ Filed \in Nat /\ nsend \in Nat /\ Filed' = nsend
  BY <1>1, FiledNat DEF Filed
<1>5. c \in [Name -> Seq(ChatMessage)] /\ r \in Nat
  BY FiledNat, HandledInOrder
<1>6. Tidy(c, Filed, r)
  BY DEF TextInv
<1>7. m \in ChatMessage /\ m.mine /\ m.text = nsend
  BY <1>2 DEF ChatMessage
<1> HIDE DEF m, c, d, r
<1>8. Tidy(d, nsend, r) /\ Kept(c, d) /\ Holding(d, s.friend, m)
  <2>1. m.text \in IF m.mine THEN (Filed + 1) .. nsend ELSE (r + 1) .. r
    BY <1>2, <1>4, <1>7
  <2>2. Filed <= nsend /\ r <= r /\ Filed + r < nsend + r
    BY <1>4, <1>5
  <2>3. PICK k, n, f, x, y, z, q : /\ k = Filed /\ n = nsend /\ f = s.friend /\ x = c /\ y = d
                                  /\ z = m /\ q = r
    OBVIOUS
  <2>4. /\ k \in Nat /\ n \in Nat /\ q \in Nat /\ k <= n /\ q <= q /\ k + q < n + q
        /\ f \in Name /\ z \in ChatMessage /\ x \in [Name -> Seq(ChatMessage)]
    BY <1>2, <1>4, <1>5, <1>7, <2>2, <2>3
  <2>5. z.text \in IF z.mine THEN (k + 1) .. n ELSE (q + 1) .. q
    BY <2>1, <2>3
  <2>6. Tidy(x, k, q) /\ Filing(x, y, f, z)
    BY <1>3, <1>6, <2>3
  <2>7. Tidy(y, n, q) /\ Kept(x, y) /\ Holding(y, f, z)
    BY <2>4, <2>5, <2>6, TidyAdd
  <2>. QED
    BY <2>3, <2>7
<1>9. Tidy(app.conversations, Filed, Len(handled))'
  BY <1>1, <1>4, <1>8 DEF Tidy, d, r
<1>10. /\ \A n \in DOMAIN reqs : reqs'[n] = reqs[n]
       /\ \A n \in DOMAIN reqs' : n \in DOMAIN reqs \/
             (s.touid # NoUid /\ reqs'[n] = [touid |-> s.touid, text |-> s.text])
  BY <1>1 DEF SInv, CommandsOK
<1>11. ReceivedFiled'
  BY <1>1, <1>8, <1>10, FiledStays DEF ReceivedFiled, c, d
<1>12. SentFiled'
  <2> SUFFICES ASSUME NEW n \in DOMAIN reqs', "text" \in DOMAIN reqs'[n]
               PROVE  /\ reqs'[n].text \in 1 .. nsend
                      /\ \E f \in Name :
                            /\ Holding(app.conversations, f, [mine |-> TRUE, text |-> reqs[n].text])'
                            /\ Attributed(f, reqs[n].touid)'
    BY <1>4 DEF SentFiled
  <2>1. CASE n \in DOMAIN reqs
    <3>1. reqs[n].text \in 1 .. Filed /\ reqs'[n] = reqs[n]
      BY <1>1, <1>8, <1>10, <2>1, FiledStays DEF c, d
    <3>2. \E f \in Name :
             /\ Holding(d, f, [mine |-> TRUE, text |-> reqs[n].text])
             /\ Attributed(f, reqs[n].touid)'
      BY <1>1, <1>8, <1>10, <2>1, <3>1, FiledStays DEF c, d
    <3>. QED
      BY <1>4, <3>1, <3>2 DEF d, Holding
  <2>2. CASE s.touid # NoUid /\ reqs'[n] = [touid |-> s.touid, text |-> s.text]
    <3>1. Attributed(s.friend, reqs[n].touid)'
      BY <1>2, <1>3, <2>2 DEF Attributed
    <3>2. Holding(app.conversations, s.friend, [mine |-> TRUE, text |-> reqs[n].text])'
      BY <1>8, <2>2 DEF Holding, d, m
    <3>. QED
      BY <1>2, <1>4, <2>2, <3>1, <3>2
  <2>. QED
    BY <1>10, <2>1, <2>2
<1>13. AllStarted'
  BY <1>2, <1>3, <1>5 DEF TextInv, AllStarted, c, d, Filing
<1>14. SendingLast'
  BY <1>1 DEF SendingLast
<1>. QED
  BY <1>9, <1>11, <1>12, <1>13, <1>14 DEF TextInv

(* A push is handed over: if it carries a text, the text is filed.         *)
LEMMA HandledText ==
    ASSUME SInv, AppCall, LoopInv, LoopInv', PushInv, TextInv,
           NEW frame \in FitFrame, Handled(frame), UNCHANGED <<sending, nsend, reqs, pushes>>
    PROVE  TextInv'
<1>1. /\ frame.id \in PushId => frame.tag \in DOMAIN pushes
      /\ frame.id = NOTIFY_ADD_FRIEND => ~ IsText(frame.tag)
  BY DEF FitFrame, SentFrame, SInv, BodiesOK
<1>2. CASE frame.id \notin PushId
  <2>1. app' = app /\ handled' = handled
    BY <1>2 DEF Handled, Dispatch, PushId
  <2>. QED
    BY <2>1, QuietTexts
<1>3. CASE frame.id \in PushId
  <2>1. handled' = Append(handled, frame.tag) /\ frame.tag = Len(handled) + 1
    BY <1>3, HandledNext DEF Handled
  <2>2. Len(handled) \in Nat /\ Len(handled') = Len(handled) + 1
    BY <2>1, HandledInOrder
  <2>3. \A n \in 1 .. Len(handled') : n \in 1 .. Len(handled) \/ n = frame.tag
    BY <2>1, <2>2
  <2>4. Filed' = Filed /\ SendingLast'
    BY SendingStays DEF Filed
  <2>5. CASE ~ IsText(frame.tag)
    <3>1. app' = app
      BY <1>3, <2>5 DEF Handled, Dispatch, PushId, DispatchApply, DispatchText, IsText, Body
    <3>2. Kept(app.conversations, app'.conversations)
      BY <3>1 DEF Kept
    <3>3. ~ IsText(frame.tag)'
      BY <2>5 DEF IsText
    <3>4. ReceivedFiled' /\ SentFiled'
      BY <2>3, <2>4, <3>2, <3>3, FiledStays DEF ReceivedFiled, SentFiled
    <3>5. Tidy(app.conversations, Filed, Len(handled'))
      BY <2>2, FiledNat, TidyMore DEF TextInv
    <3>6. Tidy(app.conversations, Filed, Len(handled))' /\ AllStarted'
      BY <2>4, <3>1, <3>5 DEF Tidy, TextInv, AllStarted
    <3>. QED
      BY <2>4, <3>4, <3>6 DEF TextInv
  <2>6. CASE IsText(frame.tag)
    <3>1. PICK u \in IncomingText(pushes[frame.tag]) : app' = receive_push(app, u.fromuid, u.text)
      BY <1>1, <1>3, <2>6 DEF Handled, Dispatch, PushId, DispatchText, IsText, Body
    <3>2. PICK uid, n : /\ n = frame.tag /\ uid \in Uid /\ uid = pushes[n].fromuid
                        /\ app' = receive_push(app, uid, n)
      <4>1. u.fromuid = pushes[frame.tag].fromuid /\ u.text = frame.tag
        BY <1>1, <1>3 DEF PushInv, PushesNumbered
      <4>2. pushes[frame.tag].fromuid \in Uid
        BY <1>1, <1>3, <2>6, TextUsers
      <4>. QED
        BY <3>1, <4>1, <4>2
    <3>3. n \in 1 .. MaxPushes /\ n \in Text
      <4>1. n \in DOMAIN pushes /\ DOMAIN pushes = 1 .. npush /\ npush \in 0 .. MaxPushes
        BY <1>1, <1>3, <3>2 DEF SInv, BodiesOK, FramesOK
      <4>. QED
        BY <4>1, TextsAssumption
    <3>4. PICK f \in Name :
            /\ Filing(app.conversations, app'.conversations, f, [mine |-> FALSE, text |-> n])
            /\ app'.started = app.started \cup {f}
            /\ \/ f = UidLabel[uid]
               \/ \E i \in DOMAIN app'.friends : app'.friends[i].name = f /\ app'.friends[i].id = uid
      <4>1. PICK p, q : p = app /\ q = app' /\ p \in State
        BY FiledNat
      <4>2. q = receive_push(p, uid, n)
        BY <3>2, <4>1
      <4>3. \E f \in Name :
               /\ Filing(p.conversations, q.conversations, f, [mine |-> FALSE, text |-> n])
               /\ q.started = p.started \cup {f}
               /\ \/ f = UidLabel[uid]
                  \/ \E i \in DOMAIN q.friends : q.friends[i].name = f /\ q.friends[i].id = uid
        BY <3>2, <3>3, <4>1, <4>2, ReceivedFiling
      <4>. QED
        BY <4>1, <4>3
    <3>5. PICK x, y, z, q, k : /\ x = app.conversations /\ y = app'.conversations
                               /\ z = [mine |-> FALSE, text |-> n] /\ q = Len(handled) /\ k = Filed
      OBVIOUS
    <3>6. q \in Nat /\ k \in Nat /\ n = q + 1 /\ x \in [Name -> Seq(ChatMessage)]
      BY <2>1, <2>2, <3>2, <3>5, FiledNat
    <3>7. n \in Nat /\ k <= k /\ q <= n /\ k + q < k + n
      BY <3>6
    <3>8. z \in ChatMessage /\ z.text \in IF z.mine THEN (k + 1) .. k ELSE (q + 1) .. n
      BY <3>3, <3>5, <3>6, <3>7 DEF ChatMessage
    <3>9. Tidy(x, k, q) /\ Filing(x, y, f, z)
      BY <3>4, <3>5 DEF TextInv
    <3>10. Tidy(y, k, n) /\ Kept(x, y) /\ Holding(y, f, z)
      BY <3>6, <3>7, <3>8, <3>9, TidyAdd
    <3>11. Tidy(app.conversations, Filed, Len(handled))'
      BY <2>2, <2>4, <3>5, <3>6, <3>10 DEF Tidy
    <3>12. SentFiled'
      BY <2>4, <3>5, <3>10, FiledStays DEF SentFiled
    <3>13. ReceivedFiled'
      <4>1. /\ Holding(app.conversations, f, [mine |-> FALSE, text |-> n])'
            /\ (f = UidLabel[pushes[n].fromuid] \/ Attributed(f, pushes[n].fromuid))'
        BY <3>2, <3>4, <3>5, <3>10 DEF Attributed, Holding
      <4>2. \A h \in 1 .. Len(handled) : IsText(h)' =>
               \E g \in Name :
                  /\ Holding(app.conversations, g, [mine |-> FALSE, text |-> h])'
                  /\ (g = UidLabel[pushes[h].fromuid] \/ Attributed(g, pushes[h].fromuid))'
        BY <3>5, <3>10, FiledStays DEF Holding
      <4>. QED
        BY <2>3, <3>2, <4>1, <4>2 DEF ReceivedFiled
    <3>14. AllStarted'
      BY <3>4, FiledNat DEF TextInv, AllStarted, Filing
    <3>. QED
      BY <2>4, <3>11, <3>12, <3>13, <3>14 DEF TextInv
  <2>. QED
    BY <2>5, <2>6
<1>. QED
  BY <1>2, <1>3

\* At most one command that is no text is issued.
Asked ==
    reqs' = reqs \/
    \E load \in Load("Search") \cup Load("AddFriend") \cup Load("ApproveApply") :
        reqs' = Append(reqs, load) /\ "text" \notin DOMAIN load

(* Closures, the user's other acts and the server leave texts alone.       *)
LEMMA OtherSteps ==
    ASSUME SInv, [RunClosure \/ (UserStep /\ ~ SendText) \/ ServerStep]_vars
    PROVE  /\ UNCHANGED <<handled, outcome, sending, nsend>>
           /\ app'.conversations = app.conversations
           /\ \A n \in DOMAIN pushes : n \in DOMAIN pushes' /\ pushes'[n] = pushes[n]
           /\ Asked
<1>1. app \in State /\ pushes \in Seq(PushBody)
  BY DEF SInv, AppOK, BodiesOK
<1>2. CASE UNCHANGED vars
  BY <1>2 DEF vars, netVars, uiVars, wireVars, Asked
<1>3. CASE RunClosure
  <2>1. app'.conversations = app.conversations
    BY <1>1, <1>3 DEF RunClosure, ShowMainWindow, ShowDisconnected, ShowState, ShowApply,
       ShowSearchResult, ShowAddResult, ShowApproval, login_failed, apply_received, approve_apply, State
  <2>. QED
    BY <1>3, <2>1 DEF RunClosure, netVars, wireVars, Asked
<1>4. CASE UserStep /\ ~ SendText
  <2>1. ASSUME NEW kind \in {"Search", "AddFriend", "ApproveApply"}, NEW load \in Load(kind),
               Send(kind, load)
        PROVE  /\ UNCHANGED <<handled, outcome>>
               /\ Asked
    BY <2>1 DEF Send, Net!Submit, netVars, Load, Asked
  <2>2. ASSUME NEW friend \in Name, SelectFriend(friend)
        PROVE  /\ UNCHANGED <<handled, outcome, sending, nsend, reqs, pushes>>
               /\ app'.conversations = app.conversations
    BY <1>1, <2>2 DEF SelectFriend, open_conversation, State, netVars, wireVars
  <2>3. CASE OpenAddDialog \/ CloseAddDialog
    BY <2>3 DEF OpenAddDialog, CloseAddDialog, netVars, wireVars, Asked
  <2>4. CASE AddFriend
    <3>1. search_uid(app) # NoUid => [touid |-> search_uid(app)] \in Load("AddFriend")
      BY <1>1, NamesAssumption, LookUps DEF Load, AnyUid
    <3>. QED
      BY <2>1, <2>4, <3>1 DEF AddFriend, netVars, Asked
  <2>5. ASSUME NEW uid \in Uid, AddSearchUser(uid)
        PROVE  /\ UNCHANGED <<handled, outcome, sending, nsend, app, pushes>>
               /\ Asked
    <3>1. [name |-> UserName[uid]] \in Load("Search")
      BY NamesAssumption DEF Load
    <3>. QED
      BY <2>1, <2>5, <3>1 DEF AddSearchUser
  <2>6. ASSUME NEW name \in Name, ApproveApply(name)
        PROVE  /\ UNCHANGED <<handled, outcome, sending, nsend, app, pushes>>
               /\ Asked
    <3>1. PICK uid \in approve_apply_uids(app, name) \ {NoUid} : Send("ApproveApply", [fromuid |-> uid])
      BY <2>6 DEF ApproveApply
    <3>2. [fromuid |-> uid] \in Load("ApproveApply")
      BY <1>1, LookUps DEF Load, AnyUid
    <3>. QED
      BY <2>1, <2>6, <3>1, <3>2 DEF ApproveApply
  <2>7. ASSUME NEW name \in Name, RejectApply(name)
        PROVE  /\ UNCHANGED <<handled, outcome, sending, nsend, reqs, pushes>>
               /\ app'.conversations = app.conversations
    BY <1>1, <2>7 DEF RejectApply, reject_apply, State, netVars, wireVars
  <2>. QED
    BY <1>4, <2>2, <2>3, <2>4, <2>5, <2>6, <2>7 DEF UserStep, Asked
<1>5. CASE ServerStep
  <2>1. UNCHANGED <<handled, outcome, sending, nsend, app, reqs>>
    BY <1>5 DEF ServerStep, Answer, AnswerInvalid, PushText, PushApply, PushApproved, PushAs, Close,
       Net!Answer, Net!AnswerInvalid, Net!Push, Net!Close, uiVars, wireVars
  <2>2. pushes' = pushes \/ \E body : pushes' = Append(pushes, body)
    BY <1>5 DEF ServerStep, Answer, AnswerInvalid, PushText, PushApply, PushApproved, PushAs, Close,
       wireVars
  <2>3. \A n \in DOMAIN pushes : n \in DOMAIN pushes' /\ pushes'[n] = pushes[n]
    BY <1>1, <2>2
  <2>. QED
    BY <2>1, <2>3 DEF Asked
<1>. QED
  BY <1>2, <1>3, <1>4, <1>5

(* Every step keeps what is known of texts.                                *)
LEMMA NextTextInv ==
    ASSUME SInv, SendsTexts, LoopInv, LoopInv', PushInv, TextInv, [Next]_vars
    PROVE  TextInv'
<1>1. AppCall
  BY NextSInv
<1>2. CASE FileText
  BY <1>1, <1>2, FiledText
<1>3. CASE SendText
  BY <1>1, <1>3, ClickedText
<1>4. CASE NetStep
  <2>1. UNCHANGED <<sending, nsend, reqs, pushes>>
    BY <1>4, NetCases DEF uiVars, wireVars
  <2>2. ASSUME NEW frame \in FitFrame, Handled(frame)
        PROVE  TextInv'
    BY <1>1, <2>1, <2>2, HandledText
  <2>3. ASSUME NEW r \in Command, NEW by \in 0 .. MaxCmds, Ended(r, by)
        PROVE  TextInv'
    <3>1. app'.conversations = app.conversations
      <4>1. app \in State
        BY FiledNat
      <4>. QED
        BY <2>3, <4>1 DEF Ended, Conclude, ConcludeSearch, ConcludeAdd, ConcludeApproval,
           set_search_result, State
    <3>. QED
      BY <1>1, <2>1, <2>3, <3>1, QuietTexts DEF Ended
  <2>4. CASE Moved
    BY <1>1, <2>1, <2>4, QuietTexts DEF Moved
  <2>. QED
    BY <1>4, <2>2, <2>3, <2>4, NetCases
<1>5. CASE [RunClosure \/ (UserStep /\ ~ SendText) \/ ServerStep]_vars
  <2>1. /\ UNCHANGED <<handled, sending, nsend>> /\ app'.conversations = app.conversations
        /\ \A n \in DOMAIN pushes : pushes'[n] = pushes[n]
        /\ reqs' = reqs \/ \E load : reqs' = Append(reqs, load) /\ "text" \notin DOMAIN load
    BY <1>5, OtherSteps DEF Asked
  <2>. QED
    BY <1>1, <2>1, QuietTexts
<1>. QED
  BY <1>2, <1>3, <1>4, <1>5 DEF Next, UIStep

LEMMA InitTextInv == Init => TextInv
<1> SUFFICES ASSUME Init PROVE TextInv
  OBVIOUS
<1>1. app.conversations = [f \in Name |-> <<>>]
  BY DEF Init, LoggedInState, seed_applies, login_succeeded, begin_login, New
<1>2. handled = <<>> /\ sending = {} /\ nsend = 0 /\ reqs = <<>>
  BY DEF Init, Net!Init
<1>3. Filed = 0 /\ Len(handled) = 0
  BY <1>2 DEF Filed
<1>4. Tidy(app.conversations, Filed, Len(handled))
  BY <1>1, <1>3 DEF Tidy
<1>5. SendingLast /\ AllStarted /\ ReceivedFiled /\ SentFiled
  BY <1>1, <1>2, <1>3 DEF SendingLast, AllStarted, ReceivedFiled, SentFiled
<1>. QED
  BY <1>4, <1>5 DEF TextInv

(* The loop's invariant and what is known of pushes hold together.         *)
LEMMA SpecPushInv == Spec => [](LoopInv /\ PushInv)
<1>1. SInv /\ PushInv /\ [Next]_vars => PushInv'
  BY NextPushInv
<1>. QED
  BY <1>1, InitPushInv, SpecSInv, SpecLoopInv, PTL DEF Spec

(* What is known of texts, of friends, of uids and of searches holds always. *)
LEMMA SpecTextInv == Spec => []TextInv
<1>1. SInv /\ SendsTexts /\ LoopInv /\ LoopInv' /\ PushInv /\ TextInv /\ [Next]_vars => TextInv'
  BY NextTextInv
<1>. QED
  BY <1>1, InitTextInv, SpecSInv, SpecPushInv, PTL DEF Spec

LEMMA SpecFriendsInv == Spec => []FriendsInv
<1>1. SInv /\ SendsTexts /\ FriendsInv /\ [Next]_vars => FriendsInv'
  BY NextSInv, NextFriendsInv DEF SInv, AppOK
<1>. QED
  BY <1>1, InitFriendsInv, SpecSInv, PTL DEF Spec

(* The one place of a message.                                             *)
LEMMA OnePlaceOf ==
    ASSUME SInv, LoopInv, TextInv, NEW mine \in BOOLEAN, NEW n \in Text, NEW f \in Name,
           Holding(app.conversations, f, [mine |-> mine, text |-> n])
    PROVE  \E i \in 1 .. (MaxPushes + MaxSends) : PlacesOf(mine, n) = {<<f, i>>}
<1>1. PICK z, x, k, q : /\ z = [mine |-> mine, text |-> n] /\ x = app.conversations
                        /\ k = Filed /\ q = Len(handled)
  OBVIOUS
<1>2. /\ x \in [Name -> Seq(ChatMessage)] /\ k \in Nat /\ q \in Nat /\ Tidy(x, k, q)
      /\ z \in ChatMessage /\ Holding(x, f, z) /\ app \in State
  <2>1. x \in [Name -> Seq(ChatMessage)] /\ k \in Nat /\ app \in State
    BY <1>1, FiledNat
  <2>2. q \in Nat
    BY <1>1, HandledInOrder
  <2>3. Tidy(x, k, q)
    BY <1>1 DEF TextInv
  <2>4. z \in ChatMessage
    BY <1>1 DEF ChatMessage
  <2>5. Holding(x, f, z)
    BY <1>1
  <2>. QED
    BY <2>1, <2>2, <2>3, <2>4, <2>5
<1>3. k + q <= MaxPushes + MaxSends
  <2>1. nsend \in 0 .. MaxSends /\ npush \in 0 .. MaxPushes
    BY DEF SInv, UiOK, FramesOK
  <2>2. k <= nsend
    BY <1>1, <2>1, TextsAssumption DEF Filed
  <2>3. q <= npush
    BY <1>1, HandledInOrder
  <2>. QED
    BY <1>2, <2>1, <2>2, <2>3, TextsAssumption
<1>4. PICK i \in 1 .. (k + q) : OnlyAt(x, f, i, z)
  BY <1>2, TidyPlace
<1>5. i \in 1 .. (MaxPushes + MaxSends)
  BY <1>2, <1>3, TextsAssumption
<1>6. f \in app.started /\ app.started \subseteq Name
  <2>1. x[f] # <<>>
    BY <1>4 DEF OnlyAt
  <2>. QED
    BY <1>1, <1>2, <2>1 DEF TextInv, AllStarted, State
<1>7. \A p \in app.started \X (1 .. MaxPushes + MaxSends) :
         p[2] \in DOMAIN x[p[1]] /\ x[p[1]][p[2]] = z <=> p = <<f, i>>
  BY <1>4, <1>6 DEF OnlyAt
<1>8. <<f, i>> \in app.started \X (1 .. MaxPushes + MaxSends)
  BY <1>5, <1>6
<1>9. PlacesOf(mine, n) = {p \in app.started \X (1 .. MaxPushes + MaxSends) :
                              p[2] \in DOMAIN x[p[1]] /\ x[p[1]][p[2]] = z}
  BY <1>1 DEF PlacesOf
<1>10. PlacesOf(mine, n) = {<<f, i>>}
  BY <1>7, <1>8, <1>9
<1>. QED
  BY <1>5, <1>10

(* Every text is filed once, under a name of its sender, and in order.     *)
THEOREM SessionTextsFiledOnce == Spec => []TextsFiledOnce
<1>1. ASSUME SInv, LoopInv, TextInv, FriendsInv PROVE TextsFiledOnce
  <2>1. ASSUME NEW k \in DOMAIN handled, IsText(handled[k])
        PROVE  \E f \in NamesOf(pushes[handled[k]].fromuid), i \in 1 .. (MaxPushes + MaxSends) :
                  PlacesOf(FALSE, handled[k]) = {<<f, i>>}
    <3>1. /\ handled[k] = k /\ k \in 1 .. Len(handled) /\ k \in DOMAIN pushes /\ k \in Text
      BY <1>1, HandledInOrder, TextsAssumption DEF SInv, BodiesOK, FramesOK
    <3>2. PICK uid \in Uid : uid = pushes[k].fromuid
      BY <1>1, <2>1, <3>1, TextUsers
    <3>3. PICK f \in Name : /\ Holding(app.conversations, f, [mine |-> FALSE, text |-> k])
                            /\ f = UidLabel[uid] \/ Attributed(f, uid)
      BY <1>1, <2>1, <3>1, <3>2 DEF TextInv, ReceivedFiled
    <3>4. PICK i \in 1 .. (MaxPushes + MaxSends) : PlacesOf(FALSE, k) = {<<f, i>>}
      BY <1>1, <3>1, <3>3, OnePlaceOf
    <3>5. f \in NamesOf(uid)
      <4>1. CASE f = UidLabel[uid]
        BY <4>1 DEF NamesOf
      <4>2. CASE Attributed(f, uid)
        <5>1. PICK j \in DOMAIN app.friends : app.friends[j].name = f /\ app.friends[j].id = uid
          BY <4>2 DEF Attributed
        <5> DEFINE l == CHOOSE i1 \in DOMAIN app.friends : app.friends[i1].id = uid
        <5>2. l \in DOMAIN app.friends /\ app.friends[l].id = uid
          BY <5>1
        <5>3. friend_for_uid(app, uid) = app.friends[l].name
          BY <5>1 DEF friend_for_uid, is_friend
        <5>4. uid # NoUid
          BY NoUidAssumption
        <5> HIDE DEF l
        <5>5. app.friends[l].name = f
          BY <1>1, <5>1, <5>2, <5>4 DEF FriendsInv
        <5>. QED
          BY <5>3, <5>5 DEF NamesOf
      <4>. QED
        BY <3>3, <4>1, <4>2
    <3>. QED
      BY <3>1, <3>2, <3>4, <3>5
  <2>2. ASSUME NEW f \in app.started, NEW i \in DOMAIN app.conversations[f],
               NEW j \in DOMAIN app.conversations[f], i < j,
               app.conversations[f][i].mine = app.conversations[f][j].mine
        PROVE  app.conversations[f][i].text < app.conversations[f][j].text
    BY <1>1, <2>2, FiledNat DEF TextInv, Tidy, State
  <2>. QED
    BY <2>1, <2>2 DEF TextsFiledOnce
<1>. QED
  BY <1>1, SpecSInv, SpecLoopInv, SpecTextInv, SpecFriendsInv, PTL

(* A text goes to whom it is shown to go, or where the list went wrong.    *)
THEOREM SessionSentToTheShownFriend == Spec => []SentToTheShownFriend
<1>1. ASSUME SInv, LoopInv, TextInv, UidsAreTheirs PROVE SentToTheShownFriend
  <2> SUFFICES ASSUME NEW n \in DOMAIN reqs, "text" \in DOMAIN reqs[n]
               PROVE  \E f \in Name, i \in 1 .. (MaxPushes + MaxSends) :
                         /\ PlacesOf(TRUE, reqs[n].text) = {<<f, i>>}
                         /\ \/ f = UserName[reqs[n].touid]
                            \/ /\ Attributed(f, reqs[n].touid)
                               /\ HasWritten(reqs[n].touid) /\ NotOfLogin(reqs[n].touid)
    BY DEF SentToTheShownFriend
  <2>1. PICK f \in Name : /\ Holding(app.conversations, f, [mine |-> TRUE, text |-> reqs[n].text])
                          /\ Attributed(f, reqs[n].touid)
    BY <1>1 DEF TextInv, SentFiled
  <2>2. reqs[n].text \in Text /\ reqs[n].touid \in Uid
    <3>1. reqs[n].text \in 1 .. Filed
      BY <1>1 DEF TextInv, SentFiled
    <3>2. nsend \in 0 .. MaxSends /\ Filed \in Nat /\ Filed <= nsend
      BY <1>1, FiledNat, TextsAssumption DEF SInv, UiOK, Filed
    <3>. QED
      BY <1>1, <3>1, <3>2, TextUsers, TextsAssumption
  <2>3. PICK i \in 1 .. (MaxPushes + MaxSends) : PlacesOf(TRUE, reqs[n].text) = {<<f, i>>}
    BY <1>1, <2>1, <2>2, OnePlaceOf
  <2>4. f = UserName[reqs[n].touid] \/ (HasWritten(reqs[n].touid) /\ NotOfLogin(reqs[n].touid))
    BY <1>1, <2>1, <2>2, NoUidAssumption DEF Attributed, UidsAreTheirs, Misled
  <2>. QED
    BY <2>1, <2>3, <2>4
<1>. QED
  BY <1>1, SpecSInv, SpecLoopInv, SpecTextInv, SessionUidsAreTheirs, PTL

-----------------------------------------------------------------------------
(* Searches. *)

\* A finished command has a load of its kind.
OutcomesOK == \A n \in DOMAIN outcome : n \in DOMAIN reqs /\ reqs[n] \in Load(outcome[n].kind)

\* The server answers with the names it has.
UsersFound ==
    \A n \in DOMAIN answers : \A body \in answers[n] : \A u \in search(body) : u.name = UserName[u.id]

\* An approval in the window's queue is one of a finished command.
Approving(uid) == \E n \in DOMAIN outcome : outcome[n].kind = "ApproveApply" /\ reqs[n].fromuid = uid

ApprovalsFinished == \A i \in DOMAIN uiq : uiq[i].op = "approved" => Approving(uiq[i].uid)

\* What is shown of a result agrees with what is stored.
Agrees(name, flag) ==
    name # NoFriend =>
        \E r \in app.search_result :
            /\ r.id \in Uid /\ r.name = name /\ UserName[r.id] = name
            /\ flag => is_friend(app, r.id)
            /\ ~ flag /\ is_friend(app, r.id) => BecameFriend(r.id)

\* Closure i is the last in the queue to show a result.
LastResult(q, i) ==
    q[i].op = "search_done" /\ \A j \in DOMAIN q : i < j => q[j].op # "search_done"

\* The result queued last agrees, or the window's if none is queued.
LastAgrees ==
    /\ \A i \in DOMAIN uiq : LastResult(uiq, i) => Agrees(uiq[i].name, uiq[i].is_friend)
    /\ NoResultQueued => Agrees(ui.search_result, ui.result_is_friend)

SearchInv == OutcomesOK /\ UsersFound /\ ApprovalsFinished /\ LastAgrees

\* Who is a friend after the step was one before or became one.
FriendsExplained == \A uid \in Uid : is_friend(app, uid)' => is_friend(app, uid) \/ BecameFriend(uid)'

(* A uid that was learned was omitted by the login.                        *)
LEMMA LearnedExplained ==
    ASSUME SInv, UidInv, NEW v \in Uid, Learned(v)
    PROVE  FriendsExplained
<1>1. app.friends \in Seq(Friend)
  BY DEF SInv, AppOK, State
<1>2. PICK k \in DOMAIN app.friends :
          /\ app.friends[k].id = NoUid
          /\ app'.friends = [app.friends EXCEPT ![k] = [@ EXCEPT !.id = v]]
  BY DEF Learned
<1>3. /\ DOMAIN app'.friends = DOMAIN app.friends
      /\ app'.friends[k] = [id |-> v, name |-> app.friends[k].name]
      /\ \A i \in DOMAIN app.friends : i # k => app'.friends[i] = app.friends[i]
  BY <1>1, <1>2, LearnedList
<1>4. k \in DOMAIN LoginFriends /\ LoginFriends[k].id = NoUid
  BY <1>2 DEF UidInv, AppTrue, UnknownOfLogin
<1>5. app.friends[k].name = LoginFriends[k].name /\ LoginFriends[k] \in Friend
  BY <1>4, ListsAssumption DEF UidInv, AppTrue, FriendsInPlace
<1>6. BecameFriend(v)'
  <2>1. CASE LoginFriends[k].name = UserName[v]
    <3>1. LoginFriends[k] = [id |-> NoUid, name |-> UserName[v]]
      BY <1>4, <1>5, <2>1 DEF Friend
    <3>. QED
      BY <1>4, <3>1 DEF BecameFriend
  <2>2. CASE LoginFriends[k].name # UserName[v]
    <3>1. LoginFriends[k].name \in Name \ {UserName[v]}
      BY <1>5, <2>2 DEF Friend
    <3>2. Attributed(LoginFriends[k].name, v)'
      BY <1>3, <1>5 DEF Attributed
    <3>. QED
      BY <3>1, <3>2 DEF BecameFriend
  <2>. QED
    BY <2>1, <2>2
<1>7. \A uid \in Uid : is_friend(app, uid)' => is_friend(app, uid) \/ uid = v
  BY <1>3 DEF is_friend
<1>. QED
  BY <1>6, <1>7 DEF FriendsExplained

(* Who is added was approved.                                              *)
LEMMA ApprovedExplained ==
    ASSUME SInv, NEW v \in Uid, app' = approve_apply(app, v), Approving(v)'
    PROVE  FriendsExplained
<1>1. app \in State /\ app.friends \in Seq(Friend)
  BY DEF SInv, AppOK, State
<1>2. CASE app'.friends = app.friends
  BY <1>2 DEF FriendsExplained, is_friend
<1>3. ASSUME NEW a, app'.friends = Append(app.friends, [id |-> v, name |-> a.name])
      PROVE  FriendsExplained
  <2>1. \A i \in DOMAIN app'.friends :
           app'.friends[i].id = v \/ (i \in DOMAIN app.friends /\ app'.friends[i] = app.friends[i])
    BY <1>1, <1>3, AddedList
  <2>2. \A uid \in Uid : is_friend(app, uid)' => is_friend(app, uid) \/ uid = v
    BY <2>1 DEF is_friend
  <2>3. BecameFriend(v)'
    BY DEF BecameFriend, Approving
  <2>. QED
    BY <2>2, <2>3 DEF FriendsExplained
<1>4. app'.friends = app.friends \/ \E a \in app.applies :
         app'.friends = Append(app.friends, [id |-> v, name |-> a.name])
  BY <1>1, ApproveApplyAdds
<1>. QED
  BY <1>2, <1>3, <1>4

\* Commands and their ends are not forgotten.
Remembered ==
    \A n \in DOMAIN outcome : n \in DOMAIN outcome' /\ outcome'[n] = outcome[n] /\ reqs'[n] = reqs[n]

(* What agrees goes on to do so while the result is stored.                *)
LEMMA AgreesStays ==
    ASSUME app \in State, AppCall, FriendsExplained, Remembered,
           app'.search_result = app.search_result
    PROVE  \A name, flag : Agrees(name, flag) => Agrees(name, flag)'
<1> SUFFICES ASSUME NEW name, NEW flag, Agrees(name, flag), name # NoFriend
             PROVE  Agrees(name, flag)'
  BY DEF Agrees
<1>1. PICK r \in app.search_result :
          /\ r.id \in Uid /\ r.name = name /\ UserName[r.id] = name
          /\ flag => is_friend(app, r.id)
          /\ ~ flag /\ is_friend(app, r.id) => BecameFriend(r.id)
  BY DEF Agrees
<1>2. PICK uid \in Uid : uid = r.id
  BY <1>1
<1>3. is_friend(app, uid) => is_friend(app, uid)'
  BY FriendsGrow, NoUidAssumption DEF Grown, is_friend
<1>4. BecameFriend(uid) => BecameFriend(uid)'
  <2>1. \A f \in Name : Attributed(f, uid) => Attributed(f, uid)'
    BY AttributedStays
  <2>. QED
    BY <2>1 DEF BecameFriend, Remembered
<1>5. is_friend(app, uid)' => is_friend(app, uid) \/ BecameFriend(uid)'
  BY DEF FriendsExplained
<1>6. /\ flag => is_friend(app, uid)'
      /\ ~ flag /\ is_friend(app, uid)' => BecameFriend(uid)'
  BY <1>1, <1>2, <1>3, <1>4, <1>5
<1>7. r \in app'.search_result /\ r.id = uid /\ r.name = name /\ UserName[r.id] = name
  BY <1>1, <1>2
<1>. QED
  BY <1>6, <1>7 DEF Agrees

\* So does what is queued or shown while no result comes to either.
LEMMA LastStays ==
    ASSUME uiq \in Seq(Closure), LastAgrees, \A name, flag : Agrees(name, flag) => Agrees(name, flag)',
           uiq' = uiq \/ \E c : uiq' = Append(uiq, c) /\ c.op # "search_done",
           \/ ui'.search_result = ui.search_result /\ ui'.result_is_friend = ui.result_is_friend
           \/ ui'.search_result = NoFriend
    PROVE  LastAgrees'
<1>1. /\ \A i \in DOMAIN uiq : i \in DOMAIN uiq' /\ uiq'[i] = uiq[i]
      /\ \A i \in DOMAIN uiq' : i \in DOMAIN uiq \/ uiq'[i].op # "search_done"
  OBVIOUS
<1>2. \A i \in DOMAIN uiq' : LastResult(uiq', i) => i \in DOMAIN uiq /\ uiq'[i] = uiq[i] /\ LastResult(uiq, i)
  BY <1>1 DEF LastResult
<1>3. NoResultQueued' => NoResultQueued
  BY <1>1 DEF NoResultQueued
<1>4. \A i \in DOMAIN uiq' : LastResult(uiq', i) => Agrees(uiq[i].name, uiq[i].is_friend)'
  <2> SUFFICES ASSUME NEW i \in DOMAIN uiq', LastResult(uiq', i)
               PROVE  Agrees(uiq[i].name, uiq[i].is_friend)'
    OBVIOUS
  <2>1. PICK name, flag : name = uiq[i].name /\ flag = uiq[i].is_friend /\ uiq'[i] = uiq[i]
    BY <1>2
  <2>2. Agrees(name, flag)
    BY <1>2, <2>1 DEF LastAgrees
  <2>3. Agrees(name, flag)' /\ name = uiq'[i].name /\ flag = uiq'[i].is_friend
    BY <2>1, <2>2
  <2>. QED
    BY <2>3 DEF Agrees
<1>5. NoResultQueued' => Agrees(ui.search_result, ui.result_is_friend)'
  <2>1. CASE ui'.search_result = NoFriend
    BY <2>1 DEF Agrees
  <2>2. CASE ui'.search_result = ui.search_result /\ ui'.result_is_friend = ui.result_is_friend
    <3>1. PICK name, flag : name = ui.search_result /\ flag = ui.result_is_friend
      OBVIOUS
    <3>2. NoResultQueued' => Agrees(name, flag)
      BY <1>3, <3>1 DEF LastAgrees
    <3>3. NoResultQueued' => Agrees(name, flag)'
      BY <3>2
    <3>. QED
      BY <2>2, <3>1, <3>3 DEF Agrees
  <2>. QED
    BY <2>1, <2>2
<1>. QED
  BY <1>4, <1>5 DEF LastAgrees

(* Commands that ended stay as they were while one is issued.              *)
LEMMA OutcomesStay ==
    ASSUME SInv, OutcomesOK, outcome' = outcome, \A n \in DOMAIN reqs : n \in DOMAIN reqs' /\ reqs'[n] = reqs[n]
    PROVE  OutcomesOK' /\ Remembered /\ \A uid : Approving(uid) => Approving(uid)'
BY DEF OutcomesOK, Remembered, Approving

(* So they do when one more ends.                                          *)
LEMMA OutcomesAdd ==
    ASSUME SInv, LoopInv, OutcomesOK, NEW r \in Command, r.tag = Len(outcome) + 1, NEW by,
           outcome' = Append(outcome, [tag |-> r.tag, kind |-> r.kind, by |-> by]), reqs' = reqs
    PROVE  /\ OutcomesOK' /\ Remembered /\ \A uid : Approving(uid) => Approving(uid)'
           /\ r.tag \in DOMAIN outcome' /\ outcome'[r.tag] = [tag |-> r.tag, kind |-> r.kind, by |-> by]
           /\ \A n \in DOMAIN outcome' : n \in DOMAIN outcome \/ n = r.tag
<1>1. outcome \in Seq(Loop!Outcome)
  BY DEF LoopInv, Loop!IInv, Loop!TypeOK
<1>2. /\ r.tag \in DOMAIN outcome' /\ outcome'[r.tag] = [tag |-> r.tag, kind |-> r.kind, by |-> by]
      /\ \A n \in DOMAIN outcome' : n \in DOMAIN outcome \/ n = r.tag
      /\ \A n \in DOMAIN outcome : n \in DOMAIN outcome' /\ outcome'[n] = outcome[n]
  BY <1>1
<1>3. r.tag \in DOMAIN reqs /\ reqs[r.tag] \in Load(r.kind)
  BY DEF Command
<1>4. OutcomesOK'
  BY <1>2, <1>3 DEF OutcomesOK
<1>5. Remembered /\ \A uid : Approving(uid) => Approving(uid)'
  BY <1>2 DEF Remembered, Approving
<1>. QED
  BY <1>2, <1>4, <1>5

(* Approvals stay finished while none is queued.                           *)
LEMMA ApprovalsStay ==
    ASSUME uiq \in Seq(Closure), ApprovalsFinished, \A uid : Approving(uid) => Approving(uid)',
           \/ uiq' = uiq
           \/ \E c : uiq' = Append(uiq, c) /\ (c.op = "approved" => Approving(c.uid)')
    PROVE  ApprovalsFinished'
<1>1. ASSUME NEW i \in DOMAIN uiq, uiq[i].op = "approved"
      PROVE  Approving(uiq[i].uid)'
  <2>1. PICK uid : uid = uiq[i].uid
    OBVIOUS
  <2>2. Approving(uid)'
    BY <1>1, <2>1 DEF ApprovalsFinished
  <2>. QED
    BY <2>1, <2>2
<1>. QED
  BY <1>1 DEF ApprovalsFinished

(* A closure runs: what it shows is no longer queued.                      *)
LEMMA RunSearch ==
    ASSUME SInv, SendsTexts, UidInv, SearchInv, RunClosure
    PROVE  SearchInv'
<1>1. /\ Idle /\ uiq # <<>> /\ uiq' = Tail(uiq) /\ UNCHANGED <<outcome, reqs, answers>>
      /\ uiq \in Seq(Closure) /\ app \in State /\ DOMAIN ui = UiField
  BY DEF RunClosure, netVars, wireVars, SInv, UiOK, AppOK
<1>2. PICK c : c = Head(uiq)
  OBVIOUS
<1>3. /\ c \in Closure /\ c = uiq[1] /\ 1 \in DOMAIN uiq
      /\ \A i \in DOMAIN uiq' : i + 1 \in DOMAIN uiq /\ uiq'[i] = uiq[i + 1] /\ i \in Nat \ {0}
      /\ \A i \in DOMAIN uiq : i = 1 \/ (i - 1 \in DOMAIN uiq' /\ uiq'[i - 1] = uiq[i] /\ i \in Nat)
  BY <1>1, <1>2
<1>4. AppCall
  BY NextSInv DEF Next, UIStep
<1>5. app'.search_result = app.search_result /\ FriendsExplained
  <2>1. CASE ShowMainWindow \/ ShowState \/ ShowSearchResult(c) \/ ShowAddResult(c)
    BY <2>1 DEF ShowMainWindow, ShowState, ShowSearchResult, ShowAddResult, FriendsExplained, is_friend
  <2>2. CASE ShowDisconnected
    BY <1>1, <2>2 DEF ShowDisconnected, login_failed, FriendsExplained, is_friend, State
  <2>3. CASE c.op = "apply" /\ ShowApply(c)
    BY <1>1, <2>3 DEF ShowApply, apply_received, FriendsExplained, is_friend, State
  <2>4. CASE c.op = "approved" /\ ShowApproval(c)
    <3>1. CASE app' = app
      BY <3>1 DEF FriendsExplained, is_friend
    <3>2. CASE app' = approve_apply(app, c.uid)
      <4>1. c.uid \in Uid
        BY <1>3, <2>4 DEF Closure
      <4>2. Approving(c.uid)
        BY <1>3, <2>4 DEF SearchInv, ApprovalsFinished
      <4>3. Approving(c.uid)'
        BY <1>1, <4>2 DEF Approving
      <4>4. FriendsExplained
        BY <3>2, <4>1, <4>3, ApprovedExplained
      <4>5. app'.search_result = app.search_result
        BY <1>1, <3>2 DEF approve_apply, State
      <4>. QED
        BY <4>4, <4>5
    <3>. QED
      BY <2>4, <3>1, <3>2 DEF ShowApproval
  <2>. QED
    BY <1>2, <2>1, <2>2, <2>3, <2>4 DEF RunClosure
<1>6. OutcomesOK' /\ UsersFound'
  BY <1>1 DEF SearchInv, OutcomesOK, UsersFound
<1>7. ApprovalsFinished'
  BY <1>1, <1>3 DEF SearchInv, ApprovalsFinished, Approving
<1>8. \A name, flag : Agrees(name, flag) => Agrees(name, flag)'
  BY <1>1, <1>4, <1>5, AgreesStays DEF Remembered
<1>9. \A i \in DOMAIN uiq' : LastResult(uiq', i) => Agrees(uiq[i].name, uiq[i].is_friend)'
  <2> SUFFICES ASSUME NEW i \in DOMAIN uiq', LastResult(uiq', i)
               PROVE  Agrees(uiq[i].name, uiq[i].is_friend)'
    OBVIOUS
  <2>1. LastResult(uiq, i + 1)
    <3>1. \A j \in DOMAIN uiq : i + 1 < j => uiq[j].op # "search_done"
      <4> SUFFICES ASSUME NEW j \in DOMAIN uiq, i + 1 < j PROVE uiq[j].op # "search_done"
        OBVIOUS
      <4>1. i < j - 1 /\ j - 1 \in DOMAIN uiq' /\ uiq'[j - 1] = uiq[j]
        BY <1>3
      <4>. QED
        BY <4>1 DEF LastResult
    <3>. QED
      BY <1>3, <3>1 DEF LastResult
  <2>2. PICK name, flag : name = uiq'[i].name /\ flag = uiq'[i].is_friend
    OBVIOUS
  <2>3. Agrees(name, flag)
    BY <1>3, <2>1, <2>2 DEF SearchInv, LastAgrees
  <2>4. Agrees(name, flag)'
    BY <1>8, <2>3
  <2>. QED
    BY <2>2, <2>4 DEF Agrees
<1>10. NoResultQueued' => Agrees(ui.search_result, ui.result_is_friend)'
  <2> SUFFICES ASSUME NoResultQueued'
               PROVE  Agrees(ui.search_result, ui.result_is_friend)'
    OBVIOUS
  <2>1. \A j \in DOMAIN uiq : j # 1 => uiq[j].op # "search_done"
    BY <1>3 DEF NoResultQueued
  <2>2. CASE c.op = "search_done"
    <3>1. ui'.search_result = c.name /\ ui'.result_is_friend = c.is_friend
      BY <1>1, <1>2, <2>2 DEF RunClosure, ShowSearchResult, UiField
    <3>2. LastResult(uiq, 1)
      BY <1>3, <2>1, <2>2 DEF LastResult
    <3>3. PICK name, flag : name = c.name /\ flag = c.is_friend
      OBVIOUS
    <3>4. Agrees(name, flag)
      BY <1>3, <3>2, <3>3 DEF SearchInv, LastAgrees
    <3>5. Agrees(name, flag)'
      BY <1>8, <3>4
    <3>. QED
      BY <3>1, <3>3, <3>5 DEF Agrees
  <2>3. CASE c.op # "search_done"
    <3>1. ui'.search_result = ui.search_result /\ ui'.result_is_friend = ui.result_is_friend
      BY <1>1, <1>2, <2>3 DEF RunClosure, ShowMainWindow, ShowDisconnected, ShowState, ShowApply,
         ShowAddResult, ShowApproval, Rendered, UiField
    <3>2. NoResultQueued
      BY <1>3, <2>1, <2>3 DEF NoResultQueued
    <3>3. PICK name, flag : name = ui.search_result /\ flag = ui.result_is_friend
      OBVIOUS
    <3>4. Agrees(name, flag)
      BY <3>2, <3>3 DEF SearchInv, LastAgrees
    <3>5. Agrees(name, flag)'
      BY <1>8, <3>4
    <3>. QED
      BY <3>1, <3>3, <3>5 DEF Agrees
  <2>. QED
    BY <2>2, <2>3
<1>. QED
  BY <1>6, <1>7, <1>9, <1>10 DEF SearchInv, LastAgrees

(* The user acts: a result shown is kept, or cleared.                      *)
LEMMA UserSearch ==
    ASSUME SInv, SendsTexts, SearchInv, FileText \/ UserStep
    PROVE  SearchInv'
<1>1. app \in State /\ DOMAIN ui = UiField /\ uiq \in Seq(Closure) /\ reqs \in Seq(UNION {Load(kind) : kind \in Kinds})
  BY DEF SInv, AppOK, UiOK, CommandsOK
<1>2. AppCall
  BY NextSInv DEF Next, UIStep
<1>3. UNCHANGED <<outcome, answers, uiq>> /\ (reqs' = reqs \/ \E load : reqs' = Append(reqs, load))
  BY DEF FileText, UserStep, SelectFriend, SendText, OpenAddDialog, CloseAddDialog, AddFriend,
     AddSearchUser, ApproveApply, RejectApply, Send, Net!Submit, netVars, wireVars
<1>4. app'.friends = app.friends /\ app'.search_result = app.search_result
  BY <1>1 DEF FileText, UserStep, SelectFriend, SendText, OpenAddDialog, CloseAddDialog, AddFriend,
     AddSearchUser, ApproveApply, RejectApply, open_conversation, reject_apply, sent_message,
     push_to_conversation, State
<1>5. \/ ui'.search_result = ui.search_result /\ ui'.result_is_friend = ui.result_is_friend
      \/ ui'.search_result = NoFriend
  BY <1>1 DEF FileText, UserStep, SelectFriend, SendText, OpenAddDialog, CloseAddDialog, AddFriend,
     AddSearchUser, ApproveApply, RejectApply, Rendered, UiField
<1>6. \A n \in DOMAIN reqs : n \in DOMAIN reqs' /\ reqs'[n] = reqs[n]
  BY <1>1, <1>3
<1>7. OutcomesOK' /\ Remembered /\ \A uid : Approving(uid) => Approving(uid)'
  BY <1>3, <1>6, OutcomesStay DEF SearchInv
<1>8. FriendsExplained
  BY <1>4 DEF FriendsExplained, is_friend
<1>9. LastAgrees'
  BY <1>1, <1>2, <1>3, <1>4, <1>5, <1>7, <1>8, AgreesStays, LastStays DEF SearchInv
<1>10. ApprovalsFinished' /\ UsersFound'
  BY <1>1, <1>3, <1>7, ApprovalsStay DEF SearchInv, UsersFound
<1>. QED
  BY <1>7, <1>9, <1>10 DEF SearchInv

(* A push brings no result and no approval.                                *)
LEMMA HandledSearch ==
    ASSUME SInv, AppCall, UidInv, SearchInv, NEW frame \in FitFrame, Handled(frame),
           UNCHANGED <<ui, reqs, answers>>
    PROVE  SearchInv'
<1>1. app \in State /\ uiq \in Seq(Closure)
  BY DEF SInv, AppOK, UiOK
<1>2. frame.id \in PushId => pushes[frame.tag] \in PushBody
  BY DEF FitFrame, SentFrame, SInv, BodiesOK
<1>3. \/ app' = app
      \/ \E uid \in Uid, text \in Text : app' = receive_push(app, uid, text)
  <2>1. CASE frame.id \in {NOTIFY_TEXT_CHAT, NOTIFY_AUTH_FRIEND} /\ DispatchText(Body(frame))
    <3>1. \A t \in IncomingText(pushes[frame.tag]) : t.fromuid \in Uid /\ t.text \in Text
      BY <1>2, <2>1, PushTyped, TextsAssumption DEF PushId
    <3>. QED
      BY <2>1, <3>1 DEF DispatchText, Body
  <2>. QED
    BY <2>1 DEF Handled, Dispatch, DispatchApply
<1>4. uiq' = uiq \/ \E c : uiq' = Append(uiq, c) /\ c.op \notin {"search_done", "approved"}
  <2>1. \A uid, n : [op |-> "apply", uid |-> uid, name |-> n].op = "apply"
    OBVIOUS
  <2>2. [op |-> "refresh"].op = "refresh"
    OBVIOUS
  <2>3. CASE DispatchText(Body(frame))
    BY <2>2, <2>3, Zenon DEF DispatchText, Queue
  <2>4. CASE DispatchApply(Body(frame))
    BY <2>1, <2>4, Zenon DEF DispatchApply, Queue
  <2>. QED
    BY <2>3, <2>4 DEF Handled, Dispatch
<1>5. app'.search_result = app.search_result
  <2>1. ASSUME NEW uid \in Uid, NEW text \in Text, app' = receive_push(app, uid, text)
        PROVE  app'.search_result = app.search_result
    <3> DEFINE l == learn_uid(app, uid)
    <3>1. l \in State
      BY <1>1, LearnUidType
    <3>2. l.search_result = app.search_result
      BY <1>1 DEF learn_uid, State
    <3>3. app' = received_message(l, friend_for_uid(l, uid), text)
      BY <2>1 DEF receive_push
    <3> HIDE DEF l
    <3>. QED
      BY <3>1, <3>2, <3>3 DEF received_message, push_to_conversation, State
  <2>. QED
    BY <1>3, <2>1
<1>6. FriendsExplained
  <2>1. CASE app'.friends = app.friends
    BY <2>1 DEF FriendsExplained, is_friend
  <2>2. ASSUME NEW uid \in Uid, Learned(uid)
        PROVE  FriendsExplained
    BY <2>2, LearnedExplained
  <2>. QED
    BY <1>1, <1>3, <2>1, <2>2, ReceivedFriends
<1>7. OutcomesOK' /\ Remembered /\ \A uid : Approving(uid) => Approving(uid)'
  BY OutcomesStay DEF SearchInv, Handled, SInv, CommandsOK
<1>8. LastAgrees'
  BY <1>1, <1>4, <1>5, <1>6, <1>7, AgreesStays, LastStays DEF SearchInv
<1>9. ApprovalsFinished' /\ UsersFound'
  BY <1>1, <1>4, <1>7, ApprovalsStay DEF SearchInv, UsersFound
<1>. QED
  BY <1>7, <1>8, <1>9 DEF SearchInv

(* The answer that ends a search brings the result that is stored.         *)
LEMMA FoundAgrees ==
    ASSUME SInv, SearchInv, NEW by \in 0 .. MaxCmds,
           ConcludeSearch(UNION {search(body) : body \in AnswerOf(by)})
    PROVE  LastAgrees'
<1>1. PICK found : found = UNION {search(body) : body \in AnswerOf(by)}
  OBVIOUS
<1>2. \A u \in found : u.id \in Uid /\ u.name \in Name /\ u.name = UserName[u.id]
  <2>1. CASE by = 0
    BY <1>1, <2>1 DEF AnswerOf
  <2>2. CASE by # 0
    <3>1. by \in 1 .. MaxCmds
      BY <2>2, CommandsAssumption
    <3>2. by \in DOMAIN answers /\ answers[by] \subseteq Reply
      BY <3>1 DEF SInv, BodiesOK
    <3>3. AnswerOf(by) = answers[by]
      BY <2>2 DEF AnswerOf
    <3>4. \A body \in Reply : \A u \in search(body) : u.id \in Uid /\ u.name \in Name
      BY DEF search, UserInfo, Reply, Has, Success, Failure
    <3>. QED
      BY <1>1, <3>2, <3>3, <3>4 DEF SearchInv, UsersFound
  <2>. QED
    BY <2>1, <2>2
<1>3. app \in State /\ uiq \in Seq(Closure) /\ app' = set_search_result(app, found)
  BY <1>1 DEF ConcludeSearch, SInv, AppOK, UiOK
<1>4. app'.search_result = found /\ app'.friends = app.friends
  BY <1>3 DEF set_search_result, State
<1>5. ASSUME NEW name, NEW flag, NEW st,
             uiq' = Append(uiq, [op |-> "search_done", name |-> name, is_friend |-> flag, status |-> st]),
             Agrees(name, flag)'
      PROVE  LastAgrees'
  <2>1. /\ Len(uiq) + 1 \in DOMAIN uiq' /\ uiq'[Len(uiq) + 1].op = "search_done"
        /\ uiq'[Len(uiq) + 1].name = name /\ uiq'[Len(uiq) + 1].is_friend = flag
        /\ \A i \in DOMAIN uiq' : i = Len(uiq) + 1 \/ i < Len(uiq) + 1
    BY <1>3, <1>5
  <2>2. ~ NoResultQueued'
    BY <2>1 DEF NoResultQueued
  <2>3. ASSUME NEW i \in DOMAIN uiq', LastResult(uiq', i)
        PROVE  Agrees(uiq[i].name, uiq[i].is_friend)'
    <3>1. i = Len(uiq) + 1
      BY <2>1, <2>3 DEF LastResult
    <3>2. uiq'[i].name = name /\ uiq'[i].is_friend = flag
      BY <2>1, <3>1
    <3>. QED
      BY <1>5, <3>2 DEF Agrees
  <2>. QED
    BY <2>2, <2>3 DEF LastAgrees
<1>6. CASE found = {}
  <2>1. Agrees(NoFriend, FALSE)'
    BY DEF Agrees
  <2>2. uiq' = Append(uiq, [op |-> "search_done", name |-> NoFriend, is_friend |-> FALSE, status |-> "failed"])
    BY <1>1, <1>6 DEF ConcludeSearch, Queue
  <2>. QED
    BY <1>5, <2>1, <2>2
<1>7. CASE found # {}
  <2>1. PICK u \in found :
            uiq' = Append(uiq, [op |-> "search_done", name |-> u.name,
                                is_friend |-> is_friend(app, u.id), status |-> ""])
    BY <1>1, <1>7 DEF ConcludeSearch, Queue
  <2>2. PICK name, flag : name = u.name /\ flag = is_friend(app, u.id)
    OBVIOUS
  <2>3. (is_friend(app, u.id))' <=> is_friend(app, u.id)
    BY <1>4 DEF is_friend
  <2>4. Agrees(name, flag)'
    BY <1>2, <1>4, <2>2, <2>3 DEF Agrees
  <2>5. uiq' = Append(uiq, [op |-> "search_done", name |-> name, is_friend |-> flag, status |-> ""])
    BY <2>1, <2>2
  <2>. QED
    BY <1>5, <2>4, <2>5
<1>. QED
  BY <1>6, <1>7

(* A command ends.                                                         *)
LEMMA EndedSearch ==
    ASSUME SInv, AppCall, LoopInv, SearchInv, NEW r \in Command, NEW by \in 0 .. MaxCmds,
           r.tag = Len(outcome) + 1, Ended(r, by), UNCHANGED <<ui, reqs, answers>>
    PROVE  SearchInv'
<1>1. app \in State /\ uiq \in Seq(Closure)
  BY DEF SInv, AppOK, UiOK
<1>2. /\ OutcomesOK' /\ Remembered /\ \A uid : Approving(uid) => Approving(uid)'
      /\ r.tag \in DOMAIN outcome' /\ outcome'[r.tag] = [tag |-> r.tag, kind |-> r.kind, by |-> by]
  BY OutcomesAdd DEF SearchInv, Ended
<1>3. Conclude(r, AnswerOf(by))
  BY DEF Ended
<1>4. UsersFound'
  BY DEF SearchInv, UsersFound
<1>5. FriendsExplained
  <2>1. app'.friends = app.friends
    BY <1>1, <1>3 DEF Conclude, ConcludeSearch, ConcludeAdd, ConcludeApproval, set_search_result, State
  <2>. QED
    BY <2>1 DEF FriendsExplained, is_friend
<1>6. CASE r.kind = "Search"
  <2>1. ConcludeSearch(UNION {search(body) : body \in AnswerOf(by)})
    BY <1>3, <1>6 DEF Conclude
  <2>2. uiq' = uiq \/ \E c : uiq' = Append(uiq, c) /\ c.op # "approved"
    <3>1. \A n, flag, st :
             [op |-> "search_done", name |-> n, is_friend |-> flag, status |-> st].op # "approved"
      OBVIOUS
    <3>. QED
      BY <2>1, <3>1, Zenon DEF ConcludeSearch, Queue
  <2>3. ApprovalsFinished'
    BY <1>1, <1>2, <2>2, ApprovalsStay DEF SearchInv
  <2>. QED
    BY <1>2, <1>4, <2>1, <2>3, FoundAgrees DEF SearchInv
<1>7. CASE r.kind # "Search"
  <2>1. app' = app
    BY <1>3, <1>7 DEF Conclude, ConcludeAdd, ConcludeApproval
  <2>2. \/ uiq' = uiq
        \/ \E c : uiq' = Append(uiq, c) /\ c.op # "search_done" /\ (c.op = "approved" => Approving(c.uid)')
    <3>1. CASE r.kind = "SendText"
      BY <1>3, <3>1 DEF Conclude
    <3>2. CASE r.kind = "AddFriend"
      <4>1. \A st : [op |-> "add_done", status |-> st].op = "add_done"
        OBVIOUS
      <4>2. \E st : uiq' = Append(uiq, [op |-> "add_done", status |-> st])
        BY <1>3, <3>2 DEF Conclude, ConcludeAdd, Queue
      <4>. QED
        BY <4>1, <4>2
    <3>3. CASE r.kind = "ApproveApply"
      <4>1. PICK uid, ok : uid = reqs[r.tag].fromuid /\ uiq' = Append(uiq, [op |-> "approved", uid |-> uid, ok |-> ok])
        BY <1>3, <3>3 DEF Conclude, ConcludeApproval, Queue
      <4>2. Approving(uid)'
        BY <1>2, <3>3, <4>1 DEF Approving
      <4>3. PICK c : c = [op |-> "approved", uid |-> uid, ok |-> ok]
        OBVIOUS
      <4>4. c.op = "approved" /\ c.uid = uid
        BY <4>3
      <4>. QED
        BY <4>1, <4>2, <4>3, <4>4
    <3>. QED
      BY <1>3, <1>7, <3>1, <3>2, <3>3 DEF Conclude
  <2>3. LastAgrees'
    BY <1>1, <1>2, <1>5, <2>1, <2>2, AgreesStays, LastStays DEF SearchInv
  <2>4. ApprovalsFinished'
    BY <1>1, <1>2, <2>2, ApprovalsStay DEF SearchInv
  <2>. QED
    BY <1>2, <1>4, <2>3, <2>4 DEF SearchInv
<1>. QED
  BY <1>6, <1>7

(* The server's and the other users' acts change none of it.               *)
LEMMA ServerSearch ==
    ASSUME SInv, SendsTexts, SearchInv, ServerStep
    PROVE  SearchInv'
<1>1. app \in State /\ uiq \in Seq(Closure)
  BY DEF SInv, AppOK, UiOK
<1>2. UNCHANGED <<app, uiq, ui, outcome, reqs>>
  BY DEF ServerStep, Answer, AnswerInvalid, PushText, PushApply, PushApproved, PushAs, Close,
     Net!Answer, Net!AnswerInvalid, Net!Push, Net!Close, uiVars, wireVars
<1>3. AppCall
  BY <1>2 DEF AppCall
<1>4. OutcomesOK' /\ Remembered /\ \A uid : Approving(uid) => Approving(uid)'
  BY <1>2, OutcomesStay DEF SearchInv
<1>5. FriendsExplained
  BY <1>2 DEF FriendsExplained, is_friend
<1>6. LastAgrees'
  BY <1>1, <1>2, <1>3, <1>4, <1>5, AgreesStays, LastStays DEF SearchInv
<1>7. ApprovalsFinished'
  BY <1>1, <1>2, <1>4, ApprovalsStay DEF SearchInv
<1>8. UsersFound'
  <2>1. CASE answers' = answers
    BY <2>1 DEF SearchInv, UsersFound
  <2>2. ASSUME NEW r \in up, Answer(r)
        PROVE  UsersFound'
    <3>1. PICK reply \in Replies(r) : answers' = [answers EXCEPT ![r.tag] = {reply}]
      BY <2>2 DEF Answer
    <3>2. \A u \in search(reply) : u.name = UserName[u.id]
      <4>1. CASE \E u \in Uid : reply = [id |-> u, name |-> UserName[u]]
        BY <4>1 DEF search, UserInfo, Has
      <4>2. CASE reply \in {Failure, Success}
        BY <4>2 DEF search, UserInfo, Has, Success, Failure
      <4>. QED
        BY <4>1, <4>2 DEF Replies
    <3>3. \A n \in DOMAIN answers' : n \in DOMAIN answers /\ (answers'[n] = answers[n] \/ answers'[n] = {reply})
      BY <3>1 DEF SInv, BodiesOK
    <3>. QED
      BY <3>2, <3>3 DEF SearchInv, UsersFound
  <2>. QED
    BY <2>1, <2>2 DEF ServerStep, AnswerInvalid, PushText, PushApply, PushApproved, PushAs, Close, wireVars
<1>. QED
  BY <1>4, <1>6, <1>7, <1>8 DEF SearchInv

(* Every step keeps what is known of searches.                             *)
LEMMA NextSearchInv ==
    ASSUME SInv, SendsTexts, LoopInv, PushInv, UidInv, SearchInv, [Next]_vars
    PROVE  SearchInv'
<1>1. AppCall
  BY NextSInv
<1>2. CASE NetStep
  <2>1. UNCHANGED <<ui, reqs, answers>>
    BY <1>2, NetCases DEF uiVars, wireVars
  <2>2. ASSUME NEW frame \in FitFrame, Handled(frame)
        PROVE  SearchInv'
    BY <1>1, <2>1, <2>2, HandledSearch
  <2>3. ASSUME NEW r \in Command, NEW by \in 0 .. MaxCmds, r.tag = Len(outcome) + 1, Ended(r, by)
        PROVE  SearchInv'
    BY <1>1, <2>1, <2>3, EndedSearch
  <2>4. CASE Moved
    <3>1. app \in State /\ uiq \in Seq(Closure) /\ UNCHANGED <<app, outcome>>
      BY <2>4 DEF SInv, AppOK, UiOK, Moved
    <3>2. uiq' = uiq \/ \E c : uiq' = Append(uiq, c) /\ c.op = "disconnected"
      BY <2>4 DEF Moved, Queue
    <3>3. OutcomesOK' /\ Remembered /\ \A uid : Approving(uid) => Approving(uid)'
      BY <2>1, <3>1, OutcomesStay DEF SearchInv
    <3>4. FriendsExplained
      BY <3>1 DEF FriendsExplained, is_friend
    <3>5. LastAgrees'
      BY <1>1, <2>1, <3>1, <3>2, <3>3, <3>4, AgreesStays, LastStays DEF SearchInv
    <3>6. ApprovalsFinished' /\ UsersFound'
      BY <2>1, <3>1, <3>2, <3>3, ApprovalsStay DEF SearchInv, UsersFound
    <3>. QED
      BY <3>3, <3>5, <3>6 DEF SearchInv
  <2>. QED
    BY <1>2, <2>2, <2>3, <2>4, NetCases
<1>3. CASE UNCHANGED vars
  <2>1. UNCHANGED <<app, uiq, ui, outcome, reqs, answers>>
    BY <1>3 DEF vars, netVars, uiVars, wireVars
  <2>. QED
    BY <2>1 DEF SearchInv, OutcomesOK, UsersFound, ApprovalsFinished, Approving, LastAgrees, LastResult,
       NoResultQueued, Agrees, BecameFriend, Attributed, is_friend
<1>. QED
  BY <1>2, <1>3, RunSearch, UserSearch, ServerSearch DEF Next, UIStep

\* No result is shown at the beginning.
LEMMA InitSearchInv == Init => SearchInv
<1> SUFFICES ASSUME Init PROVE SearchInv
  OBVIOUS
<1>1. /\ outcome = <<>> /\ uiq = <<[op |-> "logged_in"]>> /\ ui.search_result = NoFriend
      /\ answers = [n \in 1 .. MaxCmds |-> {}]
  BY DEF Init, Net!Init
<1>2. \A i \in DOMAIN uiq : uiq[i].op = "logged_in"
  BY <1>1
<1>. QED
  BY <1>1, <1>2 DEF SearchInv, OutcomesOK, UsersFound, ApprovalsFinished, LastAgrees, LastResult, Agrees

LEMMA SpecUidInv == Spec => []UidInv
<1>1. SInv /\ SendsTexts /\ UidInv /\ [Next]_vars => UidInv'
  BY NextSInv, NextUidInv
<1>. QED
  BY <1>1, InitUidInv, SpecSInv, PTL DEF Spec

LEMMA SpecSearchInv == Spec => []SearchInv
<1>1. /\ SInv /\ SendsTexts /\ LoopInv /\ PushInv /\ UidInv /\ SearchInv
      /\ [Next]_vars
      => SearchInv'
  BY NextSearchInv
<1>. QED
  BY <1>1, InitSearchInv, SpecSInv, SpecPushInv, SpecUidInv, PTL DEF Spec

(* The add button asks for the user the window shows.                      *)
THEOREM SessionShownResultIsStored == Spec => []ShownResultIsStored
<1>1. SearchInv => ShownResultIsStored
  BY DEF SearchInv, LastAgrees, Agrees, ShownResultIsStored
<1>. QED
  BY <1>1, SpecSearchInv, PTL

(* The flag beside a result is right, or explained.                        *)
THEOREM SessionFlagExplained == Spec => []FlagExplained
<1>1. ASSUME SInv, SearchInv PROVE FlagExplained
  <2> SUFFICES ASSUME NoResultQueued, ui.search_result # NoFriend
               PROVE  IF ui.result_is_friend
                      THEN is_friend(app, search_uid(app))
                      ELSE is_friend(app, search_uid(app)) => BecameFriend(search_uid(app))
    BY DEF FlagExplained
  <2>1. PICK r \in app.search_result :
            /\ ui.result_is_friend => is_friend(app, r.id)
            /\ ~ ui.result_is_friend /\ is_friend(app, r.id) => BecameFriend(r.id)
    BY <1>1 DEF SearchInv, LastAgrees, Agrees
  <2>2. app.search_result = {r}
    BY <1>1, <2>1 DEF SInv, AppOK, State
  <2>3. search_uid(app) = r.id
    BY <2>2 DEF search_uid
  <2>. QED
    BY <2>1, <2>3
<1>. QED
  BY <1>1, SpecSInv, SpecSearchInv, PTL

-----------------------------------------------------------------------------
(* Grants.  A claim is sound when the command it reports got its own       *)
(* answer, which no later one can replace, and that answer granted it.     *)

\* Only a search is answered with a user.
EnvelopesOnly ==
    \A n \in DOMAIN answers : answers[n] # {} =>
        n \in DOMAIN reqs /\ ("name" \notin DOMAIN reqs[n] => answers[n] \subseteq {Success, Failure})

\* The server knows the friendships it granted.
GrantsMeet ==
    \A n \in DOMAIN answers :
        Success \in answers[n] /\ "fromuid" \in DOMAIN reqs[n] => reqs[n].fromuid \in met

\* Command n was granted by the answer to it.
OwnGrant(n) == n \in DOMAIN outcome /\ outcome[n].by = n /\ Granted(answers[n])

AddGranted == \E n \in DOMAIN outcome : outcome[n].kind = "AddFriend" /\ OwnGrant(n)

OwnApproval(uid) ==
    /\ uid \in met
    /\ \E n \in DOMAIN outcome :
          outcome[n].kind = "ApproveApply" /\ reqs[n].fromuid = uid /\ OwnGrant(n)

Sound(c) ==
    /\ c.op = "approved" /\ c.ok => OwnApproval(c.uid)
    /\ c.op = "add_done" /\ c.status = "sent" => AddGranted

JoinedSound == \A i \in DOMAIN app.friends \ DOMAIN LoginFriends : OwnApproval(app.friends[i].id)

ClosuresSound == \A i \in DOMAIN uiq : Sound(uiq[i])

WindowSound ==
    /\ ui.apply_status = "approved" => \E uid \in Uid : OwnApproval(uid)
    /\ ui.search_status = "sent" => AddGranted

Claims == JoinedSound /\ ClosuresSound /\ WindowSound

ClaimInv ==
    /\ EnvelopesOnly /\ GrantsMeet
    /\ Net!ResponseAnswersRequest => Claims

\* The answers that requests got as their own.
OwnAnswersStay == \A n \in DOMAIN outcome : outcome[n].by = n => answers'[n] = answers[n]

(* What was granted remains so.                                            *)
LEMMA GrantedStays ==
    ASSUME Remembered, OwnAnswersStay, met \subseteq met'
    PROVE  /\ AddGranted => AddGranted'
           /\ \A uid : OwnApproval(uid) => OwnApproval(uid)'
           /\ \A c : Sound(c) => Sound(c)'
           /\ Net!ResponseAnswersRequest' => Net!ResponseAnswersRequest
<1>1. /\ AddGranted => AddGranted'
      /\ \A uid : OwnApproval(uid) => OwnApproval(uid)'
  <2>1. \A n : OwnGrant(n) => OwnGrant(n)'
    BY DEF Remembered, OwnAnswersStay, OwnGrant, Granted
  <2>. QED
    BY <2>1 DEF Remembered, AddGranted, OwnApproval
<1>2. \A c : Sound(c) => Sound(c)'
  BY <1>1 DEF Sound
<1>3. Net!ResponseAnswersRequest' => Net!ResponseAnswersRequest
  BY DEF Remembered, Net!ResponseAnswersRequest
<1>. QED
  BY <1>1, <1>2, <1>3

(* Queued claims stay sound when a sound one is queued behind them.        *)
LEMMA ClosuresSoundStay ==
    ASSUME uiq \in Seq(Closure), ClosuresSound, \A c : Sound(c) => Sound(c)',
           uiq' = uiq \/ \E c : uiq' = Append(uiq, c) /\ Sound(c)'
    PROVE  ClosuresSound'
<1> SUFFICES ASSUME NEW i \in DOMAIN uiq' PROVE Sound(uiq[i])'
  BY DEF ClosuresSound
<1>1. PICK c : c = uiq'[i]
  OBVIOUS
<1>2. Sound(c)'
  <2>1. CASE i \in DOMAIN uiq /\ uiq'[i] = uiq[i]
    BY <1>1, <2>1 DEF ClosuresSound
  <2>2. CASE i \notin DOMAIN uiq
    <3>1. PICK d : uiq' = Append(uiq, d) /\ Sound(d)'
      BY <2>2
    <3>2. c = d
      BY <1>1, <2>2, <3>1
    <3>. QED
      BY <3>1, <3>2
  <2>. QED
    BY <2>1, <2>2
<1>. QED
  BY <1>1, <1>2 DEF Sound

(* So do those who joined the list while nobody is added but who was       *)
(* approved: what is learned is the uid of a friend of the login.          *)
LEMMA JoinedSoundStays ==
    ASSUME app \in State, UnknownOfLogin, JoinedSound,
           \A uid : OwnApproval(uid) => OwnApproval(uid)',
           \/ app'.friends = app.friends
           \/ \E uid \in Uid : Learned(uid)
           \/ \E uid \in Uid : Added(uid) /\ OwnApproval(uid)
    PROVE  JoinedSound'
<1>1. app.friends \in Seq(Friend)
  BY DEF State
<1>2. SUFFICES ASSUME NEW i \in DOMAIN app'.friends \ DOMAIN LoginFriends
               PROVE  OwnApproval(app'.friends[i].id)
  BY DEF JoinedSound
<1>3. CASE i \in DOMAIN app.friends /\ app'.friends[i] = app.friends[i]
  BY <1>3 DEF JoinedSound
<1>4. ASSUME NEW uid \in Uid, Learned(uid)
      PROVE  i \in DOMAIN app.friends /\ app'.friends[i] = app.friends[i]
  <2>1. PICK k \in DOMAIN app.friends :
            /\ app.friends[k].id = NoUid
            /\ app'.friends = [app.friends EXCEPT ![k] = [@ EXCEPT !.id = uid]]
    BY <1>4 DEF Learned
  <2>2. i # k
    BY <2>1 DEF UnknownOfLogin
  <2>. QED
    BY <1>1, <2>1, <2>2, LearnedList
<1>5. ASSUME NEW uid \in Uid, Added(uid), OwnApproval(uid)
      PROVE  OwnApproval(app'.friends[i].id)
  <2>1. PICK name : app'.friends = Append(app.friends, [id |-> uid, name |-> name])
    BY <1>5 DEF Added
  <2>2. \/ i \in DOMAIN app.friends /\ app'.friends[i] = app.friends[i]
        \/ app'.friends[i] = [id |-> uid, name |-> name]
    BY <1>1, <2>1, AddedList
  <2>. QED
    BY <1>3, <1>5, <2>2
<1>. QED
  BY <1>2, <1>3, <1>4, <1>5

(* Answers stay envelopes and grants stay met when there are no new ones.  *)
LEMMA NoNewAnswers ==
    ASSUME EnvelopesOnly, GrantsMeet, answers' = answers, met \subseteq met',
           \A n \in DOMAIN reqs : n \in DOMAIN reqs' /\ reqs'[n] = reqs[n]
    PROVE  EnvelopesOnly' /\ GrantsMeet'
BY DEF EnvelopesOnly, GrantsMeet

(* The server answers a request that nobody has given up as its own.       *)
LEMMA ServerAnswers ==
    ASSUME SInv, LoopInv, EnvelopesOnly, GrantsMeet, NEW r \in up, Answer(r)
    PROVE  EnvelopesOnly' /\ GrantsMeet' /\ OwnAnswersStay /\ met \subseteq met'
<1>1. /\ r \in Command /\ r.tag \in DOMAIN reqs /\ reqs[r.tag] \in Load(r.kind) /\ r.kind \in Kind
      /\ DOMAIN answers = 1 .. MaxCmds /\ reqs' = reqs
  BY CommandsAssumption DEF SInv, CommandsOK, Command, BodiesOK, Answer
<1>2. PICK reply \in Replies(r) :
          /\ answers' = [answers EXCEPT ![r.tag] = {reply}]
          /\ met' = IF r.kind = "ApproveApply" /\ reply = Success /\ RequestBody(r).fromuid = Me
                    THEN met \cup {RequestBody(r).touid}
                    ELSE met
  BY DEF Answer
<1>3. \A n \in DOMAIN answers' : n \in DOMAIN answers /\
          (answers'[n] = answers[n] \/ (n = r.tag /\ answers'[n] = {reply}))
  BY <1>2
<1>4. met \subseteq met'
  BY <1>2
<1>5. "name" \notin DOMAIN reqs[r.tag] => reply \in {Success, Failure}
  <2>1. CASE r.kind = "Search"
    BY <1>1, <2>1 DEF Load
  <2>2. CASE r.kind # "Search"
    BY <2>2 DEF Replies
  <2>. QED
    BY <2>1, <2>2
<1>6. EnvelopesOnly'
  BY <1>1, <1>3, <1>5 DEF EnvelopesOnly
<1>7. "fromuid" \in DOMAIN reqs[r.tag] /\ reply = Success => reqs[r.tag].fromuid \in met'
  <2>1. CASE r.kind # "ApproveApply"
    <3>1. CASE r.kind = "SendText"
      BY <1>1, <3>1 DEF Load
    <3>2. CASE r.kind = "Search"
      BY <1>1, <3>2 DEF Load
    <3>3. CASE r.kind = "AddFriend"
      BY <1>1, <3>3 DEF Load
    <3>. QED
      BY <1>1, <2>1, <3>1, <3>2, <3>3 DEF Kind
  <2>2. CASE r.kind = "ApproveApply"
    <3>1. RequestBody(r) = AuthFriendRequest(Me, reqs[r.tag].fromuid)
      BY <2>2 DEF RequestBody
    <3>. QED
      BY <1>2, <2>2, <3>1 DEF AuthFriendRequest
  <2>. QED
    BY <2>1, <2>2
<1>8. GrantsMeet'
  BY <1>1, <1>3, <1>4, <1>7 DEF GrantsMeet
<1>9. OwnAnswersStay
  <2> SUFFICES ASSUME NEW n \in DOMAIN outcome, outcome[n].by = n PROVE answers'[n] = answers[n]
    BY DEF OwnAnswersStay
  <2>1. n # r.tag
    <3>1. n # 0
      BY DEF LoopInv, Loop!IInv, Loop!TypeOK
    <3>. QED
      BY <3>1 DEF LoopInv, Loop!AInv, Loop!OnePlace
  <2>2. n \in DOMAIN answers
    <3>1. outcome \in Seq(Loop!Outcome)
      BY DEF LoopInv, Loop!IInv, Loop!TypeOK
    <3>2. outcome[n] \in Loop!Outcome /\ n \in Nat \ {0}
      BY <3>1
    <3>3. outcome[n].by \in 0 .. MaxCmds
      BY <3>2 DEF Loop!Outcome
    <3>. QED
      BY <1>1, <3>2, <3>3
  <2>. QED
    BY <1>2, <2>1, <2>2
<1>. QED
  BY <1>4, <1>6, <1>8, <1>9

(* The server's and the other users' acts.                                 *)
LEMMA ServerClaim ==
    ASSUME SInv, LoopInv, ClaimInv, ServerStep
    PROVE  ClaimInv'
<1>1. UNCHANGED <<app, uiq, ui, outcome, reqs>>
  BY DEF ServerStep, Answer, AnswerInvalid, PushText, PushApply, PushApproved, PushAs, Close,
     Net!Answer, Net!AnswerInvalid, Net!Push, Net!Close, uiVars, wireVars
<1>2. EnvelopesOnly' /\ GrantsMeet' /\ OwnAnswersStay /\ met \subseteq met'
  <2>1. ASSUME answers' = answers, met \subseteq met'
        PROVE  EnvelopesOnly' /\ GrantsMeet' /\ OwnAnswersStay /\ met \subseteq met'
    BY <1>1, <2>1, NoNewAnswers DEF ClaimInv, OwnAnswersStay
  <2>2. ASSUME NEW r \in up, Answer(r)
        PROVE  EnvelopesOnly' /\ GrantsMeet' /\ OwnAnswersStay /\ met \subseteq met'
    BY <2>2, ServerAnswers DEF ClaimInv
  <2>. QED
    BY <2>1, <2>2 DEF ServerStep, AnswerInvalid, PushText, PushApply, PushApproved, PushAs, Close, wireVars
<1>3. Remembered
  BY <1>1 DEF Remembered
<1>4. SUFFICES ASSUME Net!ResponseAnswersRequest' PROVE Claims'
  BY <1>2 DEF ClaimInv
<1>5. Claims
  BY <1>2, <1>3, <1>4, GrantedStays DEF ClaimInv
<1>6. JoinedSound'
  BY <1>1, <1>2, <1>3, <1>5, GrantedStays DEF Claims, JoinedSound
<1>7. ClosuresSound'
  BY <1>1, <1>2, <1>3, <1>5, GrantedStays, ClosuresSoundStay DEF Claims, SInv, UiOK
<1>8. WindowSound'
  BY <1>1, <1>2, <1>3, <1>5, GrantedStays DEF Claims, WindowSound
<1>. QED
  BY <1>6, <1>7, <1>8 DEF Claims

(* The user claims nothing.                                                *)
LEMMA UserClaim ==
    ASSUME SInv, SearchInv, ClaimInv, FileText \/ UserStep
    PROVE  ClaimInv'
<1>1. app \in State /\ DOMAIN ui = UiField /\ uiq \in Seq(Closure) /\ reqs \in Seq(UNION {Load(kind) : kind \in Kinds})
  BY DEF SInv, AppOK, UiOK, CommandsOK
<1>2. /\ UNCHANGED <<outcome, answers, met, uiq>>
      /\ reqs' = reqs \/ \E load : reqs' = Append(reqs, load)
  BY DEF FileText, UserStep, SelectFriend, SendText, OpenAddDialog, CloseAddDialog, AddFriend,
     AddSearchUser, ApproveApply, RejectApply, Send, Net!Submit, netVars, wireVars
<1>3. app'.friends = app.friends
  BY <1>1 DEF FileText, UserStep, SelectFriend, SendText, OpenAddDialog, CloseAddDialog, AddFriend,
     AddSearchUser, ApproveApply, RejectApply, open_conversation, reject_apply, sent_message,
     push_to_conversation, State
<1>4. /\ ui'.apply_status = ui.apply_status
      /\ ui'.search_status = ui.search_status \/ ui'.search_status \in {"", "no uid"}
  BY <1>1 DEF FileText, UserStep, SelectFriend, SendText, OpenAddDialog, CloseAddDialog, AddFriend,
     AddSearchUser, ApproveApply, RejectApply, Rendered, UiField
<1>5. \A n \in DOMAIN reqs : n \in DOMAIN reqs' /\ reqs'[n] = reqs[n]
  BY <1>1, <1>2
<1>6. EnvelopesOnly' /\ GrantsMeet' /\ OwnAnswersStay /\ met \subseteq met'
  BY <1>2, <1>5, NoNewAnswers DEF ClaimInv, OwnAnswersStay
<1>7. SUFFICES ASSUME Net!ResponseAnswersRequest' PROVE Claims'
  BY <1>6 DEF ClaimInv
<1>8. Claims
  BY <1>2, <1>7 DEF ClaimInv, Net!ResponseAnswersRequest
<1>9. /\ AddGranted => AddGranted'
      /\ \A uid : OwnApproval(uid) => OwnApproval(uid)'
      /\ \A c : Sound(c) => Sound(c)'
  <2>1. Remembered
    BY <1>2, <1>5 DEF Remembered, SearchInv, OutcomesOK
  <2>. QED
    BY <1>6, <2>1, GrantedStays
<1>10. JoinedSound'
  BY <1>3, <1>8, <1>9 DEF Claims, JoinedSound
<1>11. ClosuresSound'
  BY <1>1, <1>2, <1>8, <1>9, ClosuresSoundStay DEF Claims
<1>12. WindowSound'
  BY <1>4, <1>8, <1>9 DEF Claims, WindowSound
<1>. QED
  BY <1>10, <1>11, <1>12 DEF Claims

(* A closure runs: the window claims what it reports.                      *)
LEMMA RunClaim ==
    ASSUME SInv, UidInv, ClaimInv, RunClosure
    PROVE  ClaimInv'
<1>1. /\ uiq # <<>> /\ uiq' = Tail(uiq) /\ UNCHANGED <<outcome, reqs, answers, met>>
      /\ uiq \in Seq(Closure) /\ app \in State /\ DOMAIN ui = UiField
  BY DEF RunClosure, netVars, wireVars, SInv, UiOK, AppOK
<1>2. PICK c : c = Head(uiq)
  OBVIOUS
<1>3. /\ c \in Closure /\ c = uiq[1] /\ 1 \in DOMAIN uiq
      /\ \A i \in DOMAIN uiq' : i + 1 \in DOMAIN uiq /\ uiq'[i] = uiq[i + 1]
  BY <1>1, <1>2
<1>4. EnvelopesOnly' /\ GrantsMeet'
  BY <1>1, NoNewAnswers DEF ClaimInv
<1>5. SUFFICES ASSUME Net!ResponseAnswersRequest' PROVE Claims'
  BY <1>4 DEF ClaimInv
<1>6. Claims
  BY <1>1, <1>5 DEF ClaimInv, Net!ResponseAnswersRequest
<1>7. /\ AddGranted => AddGranted'
      /\ \A uid : OwnApproval(uid) => OwnApproval(uid)'
      /\ \A d : Sound(d) => Sound(d)'
  BY <1>1, GrantedStays DEF Remembered, OwnAnswersStay
<1>8. Sound(c)
  BY <1>3, <1>6 DEF Claims, ClosuresSound
<1>9. ClosuresSound'
  <2>1. ASSUME NEW i \in DOMAIN uiq'
        PROVE  Sound(uiq'[i])
    BY <1>3, <1>6, <2>1 DEF Claims, ClosuresSound
  <2>2. ASSUME NEW i \in DOMAIN uiq'
        PROVE  Sound(uiq[i])'
    <3>1. PICK d : d = uiq'[i]
      OBVIOUS
    <3>2. Sound(d)'
      BY <1>7, <2>1, <3>1
    <3>. QED
      BY <3>1, <3>2 DEF Sound
  <2>. QED
    BY <2>2 DEF ClosuresSound
<1>10. CASE ShowMainWindow \/ ShowDisconnected \/ ShowState \/ (c.op = "apply" /\ ShowApply(c))
            \/ (c.op = "search_done" /\ ShowSearchResult(c))
  <2>1. app'.friends = app.friends
    BY <1>1, <1>10 DEF ShowMainWindow, ShowDisconnected, ShowState, ShowApply, ShowSearchResult,
       login_failed, apply_received, State
  <2>2. /\ ui'.apply_status = ui.apply_status
        /\ ui'.search_status = ui.search_status \/ ui'.search_status \in {"", "failed"}
    BY <1>1, <1>3, <1>10 DEF ShowMainWindow, ShowDisconnected, ShowState, ShowApply, ShowSearchResult,
       Rendered, UiField, Closure
  <2>3. JoinedSound'
    BY <1>6, <1>7, <2>1 DEF Claims, JoinedSound
  <2>4. WindowSound'
    BY <1>6, <1>7, <2>2 DEF Claims, WindowSound
  <2>. QED
    BY <1>9, <2>3, <2>4 DEF Claims
<1>11. CASE c.op = "add_done" /\ ShowAddResult(c)
  <2>1. app' = app /\ ui'.apply_status = ui.apply_status /\ ui'.search_status = c.status
    BY <1>1, <1>11 DEF ShowAddResult, UiField
  <2>2. JoinedSound'
    BY <1>6, <1>7, <2>1 DEF Claims, JoinedSound
  <2>3. WindowSound'
    BY <1>6, <1>7, <1>8, <1>11, <2>1 DEF Claims, WindowSound, Sound
  <2>. QED
    BY <1>9, <2>2, <2>3 DEF Claims
<1>12. CASE c.op = "approved" /\ c.ok /\ app' = approve_apply(app, c.uid)
            /\ ui' = [Rendered(ui, app') EXCEPT !.apply_status = "approved"]
  <2>1. c.uid \in Uid
    BY <1>3, <1>12 DEF Closure
  <2>2. app'.friends = app.friends \/ Added(c.uid)
    <3>1. CASE is_friend(app, c.uid)
      BY <1>1, <1>12, <3>1 DEF approve_apply, State
    <3>2. CASE ~ is_friend(app, c.uid)
      BY <1>1, <1>12, <2>1, <3>2, ApproveApplyAdds DEF Added
    <3>. QED
      BY <3>1, <3>2
  <2>3. OwnApproval(c.uid)
    BY <1>8, <1>12 DEF Sound
  <2>4. JoinedSound'
    BY <1>1, <1>6, <1>7, <2>1, <2>2, <2>3, JoinedSoundStays DEF Claims, UidInv, AppTrue
  <2>5. ui'.search_status = ui.search_status
    BY <1>1, <1>12 DEF Rendered, UiField
  <2>6. WindowSound'
    BY <1>6, <1>7, <2>1, <2>3, <2>5 DEF Claims, WindowSound
  <2>. QED
    BY <1>9, <2>4, <2>6 DEF Claims
<1>13. CASE c.op = "approved" /\ app' = app /\ ui' = [ui EXCEPT !.apply_status = "failed"]
  <2>1. ui'.search_status = ui.search_status /\ ui'.apply_status = "failed"
    BY <1>1, <1>13 DEF UiField
  <2>2. JoinedSound' /\ WindowSound'
    BY <1>6, <1>7, <1>13, <2>1 DEF Claims, JoinedSound, WindowSound
  <2>. QED
    BY <1>9, <2>2 DEF Claims
<1>. QED
  BY <1>2, <1>10, <1>11, <1>12, <1>13 DEF RunClosure, ShowApproval

(* A push is no claim, and adds nobody to the list.                        *)
LEMMA HandledClaim ==
    ASSUME SInv, UidInv, ClaimInv, NEW frame \in FitFrame, Handled(frame),
           UNCHANGED <<ui, reqs, answers, met>>
    PROVE  ClaimInv'
<1>1. app \in State /\ uiq \in Seq(Closure) /\ outcome' = outcome
  BY DEF SInv, AppOK, UiOK, Handled
<1>2. frame.id \in PushId => frame.tag \in DOMAIN pushes /\ pushes[frame.tag] \in PushBody
  BY DEF FitFrame, SentFrame, SInv, BodiesOK
<1>3. app'.friends = app.friends \/ \E uid \in Uid : Learned(uid)
  <2>1. CASE frame.id \in {NOTIFY_TEXT_CHAT, NOTIFY_AUTH_FRIEND} /\ DispatchText(Body(frame))
    <3>1. \A t \in IncomingText(pushes[frame.tag]) : t.fromuid \in Uid /\ t.text \in Text
      BY <1>2, <2>1, PushTyped, TextsAssumption DEF PushId
    <3>2. CASE app' = app
      BY <3>2
    <3>3. ASSUME NEW t \in IncomingText(pushes[frame.tag]), app' = receive_push(app, t.fromuid, t.text)
          PROVE  app'.friends = app.friends \/ \E uid \in Uid : Learned(uid)
      BY <1>1, <3>1, <3>3, ReceivedFriends
    <3>. QED
      BY <2>1, <3>2, <3>3 DEF DispatchText, Body
  <2>. QED
    BY <2>1 DEF Handled, Dispatch, DispatchApply
<1>4. uiq' = uiq \/ \E c : uiq' = Append(uiq, c) /\ c.op \notin {"approved", "add_done"}
  <2>1. \A uid, n : [op |-> "apply", uid |-> uid, name |-> n].op = "apply"
    OBVIOUS
  <2>2. [op |-> "refresh"].op = "refresh"
    OBVIOUS
  <2>3. CASE DispatchText(Body(frame))
    BY <2>2, <2>3, Zenon DEF DispatchText, Queue
  <2>4. CASE DispatchApply(Body(frame))
    BY <2>1, <2>4, Zenon DEF DispatchApply, Queue
  <2>. QED
    BY <2>3, <2>4 DEF Handled, Dispatch
<1>5. EnvelopesOnly' /\ GrantsMeet'
  BY NoNewAnswers DEF ClaimInv
<1>6. SUFFICES ASSUME Net!ResponseAnswersRequest' PROVE Claims'
  BY <1>5 DEF ClaimInv
<1>7. Claims
  BY <1>1, <1>6 DEF ClaimInv, Net!ResponseAnswersRequest
<1>8. /\ AddGranted => AddGranted'
      /\ \A uid : OwnApproval(uid) => OwnApproval(uid)'
      /\ \A c : Sound(c) => Sound(c)'
  BY <1>1, GrantedStays DEF Remembered, OwnAnswersStay
<1>9. JoinedSound'
  BY <1>1, <1>3, <1>7, <1>8, JoinedSoundStays DEF Claims, UidInv, AppTrue
<1>10. \A c : c.op \notin {"approved", "add_done"} => Sound(c)'
  BY DEF Sound
<1>11. ClosuresSound'
  BY <1>1, <1>4, <1>7, <1>8, <1>10, ClosuresSoundStay DEF Claims
<1>12. WindowSound'
  BY <1>7, <1>8 DEF Claims, WindowSound
<1>. QED
  BY <1>9, <1>11, <1>12 DEF Claims

(* An answer that grants what was asked is a claim that is sound.          *)
LEMMA GrantedAnswer ==
    ASSUME SInv, EnvelopesOnly, GrantsMeet, NEW r \in Command, r.kind \in {"AddFriend", "ApproveApply"},
           Granted(answers[r.tag])
    PROVE  r.kind = "ApproveApply" => reqs[r.tag].fromuid \in met
<1> SUFFICES ASSUME r.kind = "ApproveApply" PROVE reqs[r.tag].fromuid \in met
  OBVIOUS
<1>1. reqs[r.tag] \in [fromuid : Uid] /\ r.tag \in DOMAIN reqs /\ r.tag \in DOMAIN answers
  <2>1. reqs[r.tag] \in Load(r.kind) /\ r.tag \in DOMAIN reqs
    BY DEF Command
  <2>2. r.tag \in 1 .. nreq /\ nreq \in 0 .. MaxCmds /\ DOMAIN answers = 1 .. MaxCmds
    BY <2>1 DEF SInv, CommandsOK, BodiesOK
  <2>. QED
    BY <2>1, <2>2, CommandsAssumption DEF Load
<1>2. DOMAIN reqs[r.tag] = {"fromuid"}
  BY <1>1
<1>3. PICK body \in answers[r.tag] : is_ok(SimpleResponse(body))
  BY DEF Granted
<1>4. body \in {Success, Failure}
  BY <1>1, <1>2, <1>3 DEF EnvelopesOnly
<1>5. body = Success
  BY <1>3, <1>4 DEF is_ok, SimpleResponse, Optional, Failure
<1>. QED
  BY <1>1, <1>2, <1>3, <1>5 DEF GrantsMeet

(* A command ends: what is queued of it is sound.                          *)
LEMMA EndedClaim ==
    ASSUME SInv, LoopInv, SearchInv, ClaimInv, NEW r \in Command, NEW by \in 0 .. MaxCmds,
           r.tag = Len(outcome) + 1, Ended(r, by), UNCHANGED <<ui, reqs, answers, met>>
    PROVE  ClaimInv'
<1>1. app \in State /\ uiq \in Seq(Closure)
  BY DEF SInv, AppOK, UiOK
<1>2. /\ Remembered
      /\ r.tag \in DOMAIN outcome' /\ outcome'[r.tag] = [tag |-> r.tag, kind |-> r.kind, by |-> by]
  BY OutcomesAdd DEF Ended, SearchInv
<1>3. EnvelopesOnly' /\ GrantsMeet'
  BY NoNewAnswers DEF ClaimInv
<1>4. SUFFICES ASSUME Net!ResponseAnswersRequest' PROVE Claims'
  BY <1>3 DEF ClaimInv
<1>5. OwnAnswersStay
  BY DEF OwnAnswersStay
<1>6. Claims
  BY <1>2, <1>4, <1>5, GrantedStays DEF ClaimInv
<1>7. by \in {0, r.tag}
  BY <1>2, <1>4 DEF Net!ResponseAnswersRequest
<1>8. Granted(AnswerOf(by)) => Granted(answers[r.tag]) /\ OwnGrant(r.tag)'
  <2>1. CASE by = 0
    BY <2>1 DEF AnswerOf, Granted
  <2>2. CASE by = r.tag /\ by # 0
    BY <1>2, <2>2 DEF AnswerOf, Granted, OwnGrant
  <2>. QED
    BY <1>7, <2>1, <2>2
<1>9. Conclude(r, AnswerOf(by))
  BY DEF Ended
<1>10. uiq' = uiq \/ \E c : uiq' = Append(uiq, c) /\ Sound(c)'
  <2>1. CASE r.kind = "SendText"
    BY <1>9, <2>1 DEF Conclude
  <2>2. CASE r.kind = "Search"
    <3>1. \A c : c.op = "search_done" => Sound(c)'
      BY DEF Sound
    <3>2. \A name, flag, st :
              [op |-> "search_done", name |-> name, is_friend |-> flag, status |-> st].op = "search_done"
      OBVIOUS
    <3>3. \E name, flag, st :
              uiq' = Append(uiq, [op |-> "search_done", name |-> name, is_friend |-> flag, status |-> st])
      BY <1>9, <2>2 DEF Conclude, ConcludeSearch, Queue
    <3>. QED
      BY <3>1, <3>2, <3>3
  <2>3. CASE r.kind = "AddFriend"
    <3>1. PICK c : c = [op |-> "add_done", status |-> IF Granted(AnswerOf(by)) THEN "sent" ELSE "failed"]
      OBVIOUS
    <3>2. uiq' = Append(uiq, c)
      BY <1>9, <2>3, <3>1 DEF Conclude, ConcludeAdd, Queue
    <3>3. Sound(c)'
      BY <1>2, <1>8, <2>3, <3>1 DEF Sound, AddGranted
    <3>. QED
      BY <3>2, <3>3
  <2>4. CASE r.kind = "ApproveApply"
    <3>1. PICK c : c = [op |-> "approved", uid |-> reqs[r.tag].fromuid, ok |-> Granted(AnswerOf(by))]
      OBVIOUS
    <3>2. uiq' = Append(uiq, c)
      BY <1>9, <2>4, <3>1 DEF Conclude, ConcludeApproval, Queue
    <3>3. c.op = "approved" /\ c.uid = reqs[r.tag].fromuid /\ (c.ok => Granted(AnswerOf(by)))
      BY <3>1
    <3>4. c.ok => reqs[r.tag].fromuid \in met
      BY <1>8, <2>4, <3>3, GrantedAnswer DEF ClaimInv
    <3>5. Sound(c)'
      BY <1>2, <1>8, <2>4, <3>3, <3>4 DEF Sound, OwnApproval
    <3>. QED
      BY <3>2, <3>5
  <2>. QED
    BY <1>9, <2>1, <2>2, <2>3, <2>4 DEF Conclude
<1>11. /\ AddGranted => AddGranted'
       /\ \A uid : OwnApproval(uid) => OwnApproval(uid)'
       /\ \A c : Sound(c) => Sound(c)'
  BY <1>2, <1>5, GrantedStays
<1>12. ClosuresSound'
  BY <1>1, <1>6, <1>10, <1>11, ClosuresSoundStay DEF Claims
<1>13. JoinedSound'
  <2>1. app'.friends = app.friends
    BY <1>1, <1>9 DEF Conclude, ConcludeSearch, ConcludeAdd, ConcludeApproval, set_search_result, State
  <2>. QED
    BY <1>6, <1>11, <2>1 DEF Claims, JoinedSound
<1>14. WindowSound'
  BY <1>6, <1>11 DEF Claims, WindowSound
<1>. QED
  BY <1>12, <1>13, <1>14 DEF Claims

(* Every step keeps claims sound.                                          *)
LEMMA NextClaimInv ==
    ASSUME SInv, LoopInv, PushInv, UidInv, SearchInv, ClaimInv, [Next]_vars
    PROVE  ClaimInv'
<1>1. CASE NetStep
  <2>1. UNCHANGED <<ui, reqs, answers, met>>
    BY <1>1, NetCases DEF uiVars, wireVars
  <2>2. ASSUME NEW frame \in FitFrame, Handled(frame)
        PROVE  ClaimInv'
    BY <2>1, <2>2, HandledClaim
  <2>3. ASSUME NEW r \in Command, NEW by \in 0 .. MaxCmds, r.tag = Len(outcome) + 1, Ended(r, by)
        PROVE  ClaimInv'
    BY <2>1, <2>3, EndedClaim
  <2>4. CASE Moved
    <3>1. uiq \in Seq(Closure) /\ UNCHANGED <<app, outcome>>
      BY <2>4 DEF SInv, UiOK, Moved
    <3>2. uiq' = uiq \/ \E c : uiq' = Append(uiq, c) /\ c.op = "disconnected"
      BY <2>4 DEF Moved, Queue
    <3>3. EnvelopesOnly' /\ GrantsMeet'
      BY <2>1, NoNewAnswers DEF ClaimInv
    <3>4. SUFFICES ASSUME Net!ResponseAnswersRequest' PROVE Claims'
      BY <3>3 DEF ClaimInv
    <3>5. Claims
      BY <3>1, <3>4 DEF ClaimInv, Net!ResponseAnswersRequest
    <3>6. /\ AddGranted => AddGranted'
          /\ \A uid : OwnApproval(uid) => OwnApproval(uid)'
          /\ \A c : Sound(c) => Sound(c)'
      BY <2>1, <3>1, GrantedStays DEF Remembered, OwnAnswersStay
    <3>7. \A c : c.op = "disconnected" => Sound(c)'
      BY DEF Sound
    <3>8. ClosuresSound'
      BY <3>1, <3>2, <3>5, <3>6, <3>7, ClosuresSoundStay DEF Claims
    <3>9. JoinedSound' /\ WindowSound'
      BY <2>1, <3>1, <3>5, <3>6 DEF Claims, JoinedSound, WindowSound
    <3>. QED
      BY <3>8, <3>9 DEF Claims
  <2>. QED
    BY <1>1, <2>2, <2>3, <2>4, NetCases
<1>2. CASE UNCHANGED vars
  <2>1. UNCHANGED <<app, uiq, ui, outcome, reqs, answers, met>>
    BY <1>2 DEF vars, netVars, uiVars, wireVars
  <2>. QED
    BY <2>1 DEF ClaimInv, EnvelopesOnly, GrantsMeet, Net!ResponseAnswersRequest, Claims, JoinedSound,
       ClosuresSound, WindowSound, Sound, AddGranted, OwnApproval, OwnGrant, Granted
<1>. QED
  BY <1>1, <1>2, RunClaim, UserClaim, ServerClaim DEF Next, UIStep

\* Nobody has joined the login's list, and nothing is claimed yet.
LEMMA InitClaimInv == Init => ClaimInv
<1> SUFFICES ASSUME Init PROVE ClaimInv
  OBVIOUS
<1>1. /\ uiq = <<[op |-> "logged_in"]>> /\ ui.apply_status = "" /\ ui.search_status = ""
      /\ answers = [n \in 1 .. MaxCmds |-> {}]
  BY DEF Init
<1>2. \A i \in DOMAIN uiq : uiq[i].op = "logged_in"
  <2>1. uiq = <<[op |-> "logged_in"]>>
    BY <1>1
  <2>. QED
    BY <2>1
<1>3. JoinedSound
  BY InitFriends DEF JoinedSound
<1>4. ClosuresSound /\ WindowSound
  BY <1>1, <1>2 DEF ClosuresSound, Sound, WindowSound
<1>. QED
  BY <1>1, <1>3, <1>4 DEF ClaimInv, EnvelopesOnly, GrantsMeet, Claims

(* Neither the list of friends nor the window claims what was not granted. *)
THEOREM SessionNoClaimWithoutGrant == Spec => []NoClaimWithoutGrant
<1>1. /\ SInv /\ SendsTexts /\ LoopInv /\ PushInv /\ UidInv /\ SearchInv /\ ClaimInv
      /\ [Next]_vars
      => ClaimInv'
  BY NextClaimInv
<1>2. ClaimInv => NoClaimWithoutGrant
  BY DEF ClaimInv, Claims, JoinedSound, ClosuresSound, WindowSound, Sound, AddGranted, OwnApproval,
     OwnGrant, NoClaimWithoutGrant, ApprovalGranted
<1>. QED
  BY <1>1, <1>2, InitClaimInv, SpecSInv, SpecPushInv, SpecUidInv, SpecSearchInv, PTL DEF Spec

-----------------------------------------------------------------------------
(* What the two abstract specifications guarantee holds in the session.    *)

(* The properties of the two instances of ClientLoop are the same.         *)
LEMMA LoopNames ==
    /\ Net!PushesInOrder <=> Loop!PushesInOrder
    /\ Net!NoPushLost <=> Loop!NoPushLost
    /\ Net!CommandsInOrder <=> Loop!CommandsInOrder
    /\ Net!AnswersUsedOnce <=> Loop!AnswersUsedOnce
    /\ Net!StaleAnswersExplained <=> Loop!StaleAnswersExplained
<1>1. Net!PushId = Loop!PushId
  BY DEF Net!PushId, Loop!PushId, Net!NOTIFY_ADD_FRIEND, Net!NOTIFY_AUTH_FRIEND, Net!NOTIFY_TEXT_CHAT,
       Loop!NOTIFY_ADD_FRIEND, Loop!NOTIFY_AUTH_FRIEND, Loop!NOTIFY_TEXT_CHAT
<1>2. Net!NoPushLost <=> Loop!NoPushLost
  BY <1>1 DEF Net!NoPushLost, Loop!NoPushLost, Net!InFlight, Loop!InFlight, Net!Holds, Loop!Holds,
     Net!IsPush, Loop!IsPush
<1>. QED
  BY <1>2 DEF Net!PushesInOrder, Loop!PushesInOrder, Net!CommandsInOrder, Loop!CommandsInOrder,
     Net!AnswersUsedOnce, Loop!AnswersUsedOnce, Net!StaleAnswersExplained, Loop!StaleAnswersExplained

(* With the UI thread and AppState beside it the loop still loses and      *)
(* reorders no push, and completes each command once and in order.         *)
THEOREM SessionKeepsLoop ==
    Spec => [](/\ Net!PushesInOrder /\ Net!NoPushLost /\ Net!CommandsInOrder
               /\ Net!AnswersUsedOnce /\ Net!StaleAnswersExplained)
<1>1. LoopInv => /\ Net!PushesInOrder /\ Net!NoPushLost /\ Net!CommandsInOrder
                 /\ Net!AnswersUsedOnce /\ Net!StaleAnswersExplained
  <2>1. LoopInv => /\ Loop!PushesInOrder /\ Loop!NoPushLost
                   /\ Loop!AnswersUsedOnce /\ Loop!StaleAnswersExplained
    BY DEF LoopInv, Loop!IInv, Loop!AInv
  <2>2. LoopInv => Loop!CommandsInOrder
    BY DEF LoopInv, Loop!AInv, Loop!Numbered, Loop!CommandsInOrder
  <2>. QED
    BY <2>1, <2>2, LoopNames
<1>. QED
  BY <1>1, SpecLoopInv, PTL

RedP == INSTANCE ReducerProofs WITH FriendLists <- {LoginFriends}, ApplyLists <- {LoginApplies}

\* No user is twice in the list of the login.
OneEntryEach ==
    \A i, j \in DOMAIN LoginFriends :
        LoginFriends[i].id = LoginFriends[j].id /\ LoginFriends[i].id # NoUid => i = j

(* The instances of Reducer are one, after the login.                      *)
LEMMA ReducerStep ==
    ASSUME AppOK, [Red!Next]_app
    PROVE  [RedP!Next]_app
<1>1. \A s, uid : (Red!has_apply(s, uid) <=> RedP!has_apply(s, uid))
                  /\ (Red!is_friend(s, uid) <=> RedP!is_friend(s, uid))
  BY DEF Red!has_apply, RedP!has_apply, Red!is_friend, RedP!is_friend
<1>2. \A s, friend, msg :
          Red!push_to_conversation(s, friend, msg) = RedP!push_to_conversation(s, friend, msg)
  BY DEF Red!push_to_conversation, RedP!push_to_conversation
<1>3. /\ Red!BeginLogin => RedP!BeginLogin
      /\ Red!LoginFailed => RedP!LoginFailed
      /\ Red!ApplyReceived => RedP!ApplyReceived
      /\ Red!RejectApply => RedP!RejectApply
      /\ Red!SetSearchResult => RedP!SetSearchResult
      /\ Red!OpenConversation => RedP!OpenConversation
      /\ Red!SentMessage => RedP!SentMessage
  BY <1>1, <1>2 DEF Red!BeginLogin, RedP!BeginLogin, Red!LoginFailed, RedP!LoginFailed,
     Red!ApplyReceived, RedP!ApplyReceived, Red!RejectApply, RedP!RejectApply,
     Red!SetSearchResult, RedP!SetSearchResult, Red!OpenConversation, RedP!OpenConversation,
     Red!SentMessage, RedP!SentMessage, Red!LoggedIn, RedP!LoggedIn,
     Red!begin_login, RedP!begin_login, Red!login_failed, RedP!login_failed,
     Red!apply_received, RedP!apply_received, Red!reject_apply, RedP!reject_apply,
     Red!set_search_result, RedP!set_search_result, Red!open_conversation, RedP!open_conversation,
     Red!sent_message, RedP!sent_message
<1>4. Red!ReceivePush => RedP!ReceivePush
  <2>1. \A s, uid : Red!learn_uid(s, uid) = RedP!learn_uid(s, uid)
    BY <1>1 DEF Red!learn_uid, RedP!learn_uid
  <2>2. \A s, uid : Red!friend_for_uid(s, uid) = RedP!friend_for_uid(s, uid)
    BY <1>1 DEF Red!friend_for_uid, RedP!friend_for_uid
  <2>3. \A s, friend, text : Red!received_message(s, friend, text) = RedP!received_message(s, friend, text)
    BY <1>2 DEF Red!received_message, RedP!received_message
  <2>4. \A s, uid, text : Red!receive_push(s, uid, text) = RedP!receive_push(s, uid, text)
    BY <2>1, <2>2, <2>3 DEF Red!receive_push, RedP!receive_push
  <2>. QED
    BY <2>4 DEF Red!ReceivePush, RedP!ReceivePush, Red!LoggedIn, RedP!LoggedIn
<1>5. Red!ApproveApply => RedP!ApproveApply
  BY <1>1 DEF Red!ApproveApply, RedP!ApproveApply, Red!LoggedIn, RedP!LoggedIn,
     Red!approve_apply, RedP!approve_apply
<1>6. ~ Red!LoginSucceeded
  BY DEF Red!LoginSucceeded, Red!LoggedIn, AppOK
<1>. QED
  BY <1>3, <1>4, <1>5, <1>6 DEF Red!Next, RedP!Next

(* The login leaves the reducer's invariant.                               *)
LEMMA InitReducer ==
    ASSUME Init, OneEntryEach
    PROVE  RedP!IInv
<1>1. /\ begin_login(New) \in State /\ begin_login(New).applies = {} /\ begin_login(New).unread = {}
      /\ \A f \in Name : begin_login(New).conversations[f] = <<>>
  <2>1. /\ New \in State /\ New.applies = {} /\ New.unread = {}
        /\ \A f \in Name : New.conversations[f] = <<>>
    BY DEF New, State, AnyUid, LoginStatus, ChatMessage, Friend
  <2> HIDE DEF New
  <2>2. begin_login(New).unread = New.unread /\ begin_login(New).conversations = New.conversations
    BY <2>1 DEF begin_login, State
  <2>. QED
    BY <2>1, <2>2, StatusOnly
<1>2. PICK s : s = login_succeeded(begin_login(New), Me, LoginFriends)
  OBVIOUS
<1>3. /\ s \in State /\ s.applies = {} /\ s.unread = {} /\ s.friends = LoginFriends
      /\ \A f \in Name : s.conversations[f] = <<>>
  BY <1>1, <1>2, NamesAssumption, ListsAssumption DEF login_succeeded, State, LoginStatus, AnyUid
<1>4. app = seed_applies(s, LoginApplies)
  BY <1>2 DEF Init, LoggedInState
<1> DEFINE fresh(i) == /\ ~ has_apply(s, LoginApplies[i].from_uid)
                       /\ \A j \in 1 .. (i - 1) : LoginApplies[j].from_uid # LoginApplies[i].from_uid
           Fresh == {LoginApplies[i] : i \in {k \in DOMAIN LoginApplies : fresh(k)}}
<1>5. app = [s EXCEPT !.applies = @ \cup Fresh]
  BY <1>4 DEF seed_applies
<1>6. ASSUME NEW a \in Fresh, NEW b \in Fresh, a.from_uid = b.from_uid
      PROVE  a = b
  <2>1. PICK i \in DOMAIN LoginApplies : fresh(i) /\ a = LoginApplies[i]
    OBVIOUS
  <2>2. PICK j \in DOMAIN LoginApplies : fresh(j) /\ b = LoginApplies[j]
    OBVIOUS
  <2>3. i \in Nat \ {0} /\ j \in Nat \ {0}
    BY ListsAssumption
  <2>4. ~ (i < j) /\ ~ (j < i)
    BY <1>6, <2>1, <2>2, <2>3
  <2>. QED
    BY <2>1, <2>2, <2>3, <2>4
<1> HIDE DEF Fresh
<1>7. /\ app.applies = Fresh /\ app.unread = {} /\ app.friends = LoginFriends
      /\ app.conversations = s.conversations
  BY <1>3, <1>5 DEF State
<1>8. app \in State
  BY InitSInv DEF SInv, AppOK
<1>9. RedP!TypeOK
  BY <1>8 DEF RedP!TypeOK, RedP!State, State, RedP!AnyUid, AnyUid, RedP!LoginStatus, LoginStatus,
     RedP!Friend, Friend, RedP!ChatMessage, ChatMessage, RedP!FriendApply, FriendApply
<1>10. RedP!FriendUidsUnique
  BY <1>7 DEF OneEntryEach, RedP!FriendUidsUnique, RedP!UniqueUids
<1>11. RedP!ApplyUidsUnique
  BY <1>6, <1>7 DEF RedP!ApplyUidsUnique
<1>12. RedP!UnreadExact
  BY <1>3, <1>7 DEF RedP!UnreadExact, RedP!HasReceived
<1>. QED
  BY <1>9, <1>10, <1>11, <1>12 DEF RedP!IInv

(* Whichever thread calls AppState, no uid is given to two friends, no     *)
(* user has two applies, and the unread markers are exact.                 *)
THEOREM SessionKeepsReducer ==
    Spec => [](OneEntryEach => Red!FriendUidsUnique /\ Red!ApplyUidsUnique /\ Red!UnreadExact)
<1>1. OneEntryEach => RedP!FriendListsAssumption /\ RedP!ApplyListsAssumption
  BY ListsAssumption DEF OneEntryEach, RedP!UniqueUids, RedP!Friend, Friend, RedP!AnyUid, AnyUid,
     RedP!FriendApply, FriendApply
<1>2. Init => (OneEntryEach => RedP!IInv)
  BY InitReducer
<1>3. SInv /\ SendsTexts /\ (OneEntryEach => RedP!IInv) /\ [Next]_vars => (OneEntryEach => RedP!IInv)'
  <2> SUFFICES ASSUME SInv, SendsTexts, OneEntryEach, RedP!IInv, [Next]_vars PROVE RedP!IInv'
    OBVIOUS
  <2>1. [RedP!Next]_app
    BY NextSInv, AppCallIsReducerStep, ReducerStep DEF SInv
  <2>. QED
    BY <1>1, <2>1, RedP!NextIInv, NoUidAssumption, UidLabelAssumption
<1>4. RedP!IInv => Red!FriendUidsUnique /\ Red!ApplyUidsUnique /\ Red!UnreadExact
  BY DEF RedP!IInv, RedP!FriendUidsUnique, RedP!UniqueUids, Red!FriendUidsUnique, Red!UniqueUids,
     RedP!ApplyUidsUnique, Red!ApplyUidsUnique, RedP!UnreadExact, Red!UnreadExact,
     RedP!HasReceived, Red!HasReceived
<1>. QED
  BY <1>2, <1>3, <1>4, SpecSInv, PTL DEF Spec
=============================================================================
