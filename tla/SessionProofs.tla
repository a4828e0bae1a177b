--------------------------- MODULE SessionProofs ---------------------------
(***************************************************************************)
(* The session, for any users, lists and bounds.                           *)
(*                                                                         *)
(* SessionIsClientLoop: its network thread is the loop of ClientLoop, so   *)
(* that what ClientLoopProofs shows of the loop holds of the session.      *)
(* SInv types the session and says that a command or frame, wherever it    *)
(* is, has the number of something issued or sent; every step is then one  *)
(* call of AppState (AppCall), which is a step of Reducer.  UidInv and     *)
(* WindowInv are inductive beside SInv.                                    *)
(***************************************************************************)
EXTENDS Session, AppStateProofs, TLAPS

(* A callback of send_text runs only where texts are among the commands.   *)
SendsTexts == sending # {} => "SendText" \in Kinds

(* Sending a command is a step of the loop, or of nobody once it returned. *)
LEMMA SendSubmits ==
    ASSUME NEW kind \in Kinds, NEW load, Send(kind, load)
    PROVE  [Net!Next]_netVars
BY DEF Send, Net!Next

(* The server does what it does to the loop.                               *)
LEMMA ServerIsNetServer ==
    ASSUME ServerStep
    PROVE  Net!ServerStep
<1>1. CASE \E r \in up : Answer(r) \/ AnswerInvalid(r)
  <2>1. \E r \in up : Net!Answer(r) \/ Net!AnswerInvalid(r)
    BY <1>1 DEF Answer, AnswerInvalid
  <2>. QED
    BY <2>1 DEF Net!ServerStep
<1>2. CASE \E uid \in Uid : PushText(uid) \/ PushApply(uid) \/ PushApproved(uid)
  <2>1. \E id \in PushId : Net!Push(id)
    BY <1>2, TextIdsAssumption DEF PushText, PushApply, PushApproved, PushAs, PushId
  <2>. QED
    BY <2>1 DEF Net!ServerStep, PushId, Net!PushId, NOTIFY_ADD_FRIEND, NOTIFY_AUTH_FRIEND,
       NOTIFY_TEXT_CHAT, Net!NOTIFY_ADD_FRIEND, Net!NOTIFY_AUTH_FRIEND, Net!NOTIFY_TEXT_CHAT
<1>3. CASE Close
  BY <1>3 DEF Net!ServerStep, Close
<1>. QED
  BY <1>1, <1>2, <1>3 DEF ServerStep

(* A step of the session is one of the loop, or leaves the loop alone.     *)
LEMMA StepIsNetStep == SendsTexts /\ [Next]_vars => [Net!Next]_netVars /\ SendsTexts'
<1> SUFFICES ASSUME SendsTexts, [Next]_vars
             PROVE  [Net!Next]_netVars /\ SendsTexts'
  OBVIOUS
<1> USE DEF SendsTexts
<1>1. CASE UNCHANGED vars
  BY <1>1 DEF vars, netVars, uiVars
<1>2. CASE RunClosure
  BY <1>2 DEF RunClosure, netVars
<1>3. CASE FileText
  <2>1. sending # {} /\ sending' = {}
    BY <1>3 DEF FileText
  <2>2. [Net!Next]_netVars
    BY <1>3, <2>1, SendSubmits DEF FileText
  <2>. QED
    BY <2>1, <2>2
<1>4. CASE UserStep
  <2>1. CASE \E friend \in Name : SelectFriend(friend)
    BY <2>1 DEF SelectFriend
  <2>2. CASE SendText
    BY <2>2 DEF SendText
  <2>3. CASE OpenAddDialog \/ CloseAddDialog
    BY <2>3 DEF OpenAddDialog, CloseAddDialog
  <2>4. CASE AddFriend
    BY <2>4, SendSubmits DEF AddFriend
  <2>5. CASE \E uid \in Uid : AddSearchUser(uid)
    BY <2>5, SendSubmits DEF AddSearchUser
  <2>6. CASE \E name \in Name : ApproveApply(name)
    BY <2>6, SendSubmits DEF ApproveApply
  <2>7. CASE \E name \in Name : RejectApply(name)
    BY <2>7 DEF RejectApply
  <2>. QED
    BY <1>4, <2>1, <2>2, <2>3, <2>4, <2>5, <2>6, <2>7 DEF UserStep
<1>5. CASE NetStep
  <2>1. Net!NetStep
    BY <1>5 DEF NetStep, Net!NetStep, RecvPush, DispatchDrained, ConnectionLost, SendRequest,
       CollectFrame, SendFails, AcceptResponse, RequestTimeout, RequestRecvError
  <2>2. UNCHANGED sending
    BY <1>5 DEF NetStep, RecvPush, DispatchDrained, ConnectionLost, SendRequest,
       CollectFrame, SendFails, AcceptResponse, RequestTimeout, RequestRecvError, Conclude, uiVars
  <2>. QED
    BY <2>1, <2>2 DEF Net!Next
<1>6. CASE ServerStep
  <2>1. UNCHANGED sending
    BY <1>6 DEF ServerStep, Answer, AnswerInvalid, PushText, PushApply,
       PushApproved, PushAs, Close, uiVars
  <2>2. Net!ServerStep
    BY <1>6, ServerIsNetServer
  <2>. QED
    BY <2>1, <2>2 DEF Net!Next
<1>. QED
  BY <1>1, <1>2, <1>3, <1>4, <1>5, <1>6 DEF Next, UIStep

(* The session's threads, server and users do to the loop's variables what *)
(* ClientLoop says, so that its invariants are the session's.              *)
THEOREM SessionIsClientLoop == Spec => Net!Spec
<1>1. Init => Net!Init /\ SendsTexts
  BY DEF Init, SendsTexts
<1>. QED
  BY <1>1, StepIsNetStep, PTL DEF Spec, Net!Spec, netVars, Net!vars

-----------------------------------------------------------------------------
(* Types.  What is inductive with TypeOK is that commands and frames carry *)
(* the numbers of what was issued and sent, wherever they are, and that a  *)
(* command's load fits its kind.                                           *)

UiField ==
    {"logged_in", "login_status", "selected_friend", "rows", "dialog_open", "search_in_progress",
     "search_result", "result_is_friend", "search_status", "apply_status"}

\* Commands that carry what was stored for them.
Command ==
    {r \in [tag : Nat, kind : Kinds] : r.tag \in DOMAIN reqs /\ reqs[r.tag] \in Load(r.kind)}

\* Frames that a push or an answer has a body for.
SentFrame ==
    {f \in [id : IncomingId, tag : Nat] :
        IF f.id \in PushId THEN f.tag \in 1 .. npush ELSE f.tag \in 1 .. MaxCmds}

UiOK ==
    /\ ui.selected_friend \in Name /\ DOMAIN ui = UiField
    /\ uiq \in Seq(Closure)
    /\ sending \subseteq [friend : Name, touid : AnyUid, text : 1 .. MaxSends]
    /\ nsend \in 0 .. MaxSends

CommandsOK ==
    /\ nreq \in 0 .. MaxCmds
    /\ reqs \in Seq(UNION {Load(kind) : kind \in Kinds}) /\ Len(reqs) = nreq
    /\ cmds \in Seq(Command) /\ awaiting \subseteq Command /\ up \subseteq Command

FramesOK ==
    /\ npush \in 0 .. MaxPushes
    /\ down \in Seq(SentFrame) /\ todo \in Seq(SentFrame) /\ pending \in Seq(SentFrame)

BodiesOK ==
    /\ pushes \in Seq(PushBody) /\ Len(pushes) = npush
    /\ answers \in [1 .. MaxCmds -> {{}} \cup {{body} : body \in Reply}]
    /\ met \subseteq Uid

AppOK == app \in State /\ app.my_uid # NoUid

SInv == AppOK /\ UiOK /\ CommandsOK /\ FramesOK /\ BodiesOK

\* One call of a method of AppState, or none.
AppCall ==
    \/ app' = app \/ app' = login_failed(app)
    \/ \E uid \in Uid, name \in Name : app' = apply_received(app, uid, name)
    \/ \E uid \in Uid : app' = approve_apply(app, uid)
    \/ \E name \in Name : app' = reject_apply(app, name)
    \/ \E result \in {{}} \cup {{f} : f \in [id : Uid, name : Name]} :
          app' = set_search_result(app, result)
    \/ \E uid \in Uid, text \in Text : app' = receive_push(app, uid, text)
    \/ \E friend \in Name : app' = open_conversation(app, friend)
    \/ \E friend \in Name, text \in Text : app' = sent_message(app, friend, text)

(* A method keeps the type, and none takes my uid back.                    *)
LEMMA AppCallKeeps ==
    ASSUME AppOK, AppCall
    PROVE  AppOK'
<1> USE DEF AppOK
<1>1. CASE app' = login_failed(app)
  BY <1>1 DEF login_failed, State, LoginStatus
<1>2. ASSUME NEW uid \in Uid, NEW name \in Name, app' = apply_received(app, uid, name)
      PROVE  AppOK'
  BY <1>2, ApplyReceivedType DEF apply_received, State
<1>3. ASSUME NEW uid \in Uid, app' = approve_apply(app, uid)
      PROVE  AppOK'
  BY <1>3, ApproveApplyAdds
<1>4. ASSUME NEW name \in Name, app' = reject_apply(app, name)
      PROVE  AppOK'
  BY <1>4, RejectApplyType DEF reject_apply, State
<1>5. ASSUME NEW result \in {{}} \cup {{f} : f \in [id : Uid, name : Name]},
             app' = set_search_result(app, result)
      PROVE  AppOK'
  <2>1. result \in {{}} \cup {{f} : f \in Friend}
    BY DEF Friend, AnyUid
  <2>. QED
    BY <2>1, <1>5, SetSearchResultType DEF set_search_result, State
<1>6. ASSUME NEW uid \in Uid, NEW text \in Text, app' = receive_push(app, uid, text)
      PROVE  AppOK'
  BY <1>6, ReceivePushType
<1>7. ASSUME NEW friend \in Name, app' = open_conversation(app, friend)
      PROVE  AppOK'
  BY <1>7, OpenConversationType DEF open_conversation, State
<1>8. ASSUME NEW friend \in Name, NEW text \in Text, app' = sent_message(app, friend, text)
      PROVE  AppOK'
  BY <1>8, SentMessageType DEF sent_message, push_to_conversation, State
<1>. QED
  BY <1>1, <1>2, <1>3, <1>4, <1>5, <1>6, <1>7, <1>8 DEF AppCall

(* The message ids are the same in the loop and here.                      *)
LEMMA ProtocolSame ==
    /\ Net!PushId = PushId /\ Net!IncomingId = IncomingId
    /\ Net!ResponseId = ResponseId /\ Net!Kind = Kind
    /\ Net!INVALID_REQUEST = INVALID_REQUEST
    /\ INVALID_REQUEST \in IncomingId \ PushId
    /\ \A kind \in Kind : ResponseId[kind] \in IncomingId \ PushId
BY DEF Net!PushId, Net!IncomingId, Net!ResponseId, Net!Kind, Net!INVALID_REQUEST,
       PushId, IncomingId, ResponseId, Kind, INVALID_REQUEST,
       NOTIFY_ADD_FRIEND, NOTIFY_AUTH_FRIEND, NOTIFY_TEXT_CHAT, SEARCH_RESPONSE,
       ADD_FRIEND_RESPONSE, AUTH_FRIEND_RESPONSE, TEXT_CHAT_RESPONSE,
       Net!NOTIFY_ADD_FRIEND, Net!NOTIFY_AUTH_FRIEND, Net!NOTIFY_TEXT_CHAT, Net!SEARCH_RESPONSE,
       Net!ADD_FRIEND_RESPONSE, Net!AUTH_FRIEND_RESPONSE, Net!TEXT_CHAT_RESPONSE

(* What serde makes of a push has the types of its call of AppState.       *)
LEMMA PushTyped ==
    ASSUME NEW body \in PushBody
    PROVE  /\ \A t \in IncomingText(body) : t.fromuid \in Uid /\ t.text \in 1 .. MaxPushes
           /\ \A a \in NotifyAddFriend(body) : a.applyuid \in Uid /\ a.name \in Name
<1>1. CASE body \in TextBody
  BY <1>1 DEF TextBody, IncomingText, NotifyAddFriend, Has
<1>2. CASE body \in ApplyBody
  BY <1>2 DEF ApplyBody, IncomingText, NotifyAddFriend, Has
<1>3. CASE body \in [fromuid : Uid, touid : Uid]
  BY <1>3 DEF IncomingText, NotifyAddFriend, Has
<1>. QED
  BY <1>1, <1>2, <1>3 DEF PushBody

(* The network thread dispatches a push.                                   *)
LEMMA DispatchKeeps ==
    ASSUME SInv, NEW frame \in SentFrame, Dispatch(frame)
    PROVE  AppCall /\ uiq' \in Seq(Closure)
<1>1. uiq \in Seq(Closure)
  BY DEF SInv, UiOK
<1>2. CASE frame.id \notin PushId
  BY <1>1, <1>2 DEF Dispatch, AppCall, PushId
<1>3. CASE frame.id \in PushId
  <2> DEFINE body == Body(frame)
  <2>1. body \in PushBody
    <3>1. frame.tag \in 1 .. npush
      BY <1>3 DEF SentFrame
    <3>. QED
      BY <3>1 DEF Body, SInv, BodiesOK
  <2> HIDE DEF body
  <2>2. CASE DispatchText(body)
    <3>1. CASE IncomingText(body) = {}
      BY <2>2, <3>1, <1>1 DEF DispatchText, AppCall
    <3>2. ASSUME NEW t \in IncomingText(body), app' = receive_push(app, t.fromuid, t.text),
                 Queue([op |-> "refresh"])
          PROVE  AppCall /\ uiq' \in Seq(Closure)
      <4>1. t.fromuid \in Uid /\ t.text \in Text
        BY <2>1, PushTyped, TextsAssumption
      <4>2. [op |-> "refresh"] \in Closure
        BY DEF Closure
      <4>. QED
        BY <3>2, <4>1, <4>2, <1>1 DEF AppCall, Queue
    <3>. QED
      BY <2>2, <3>1, <3>2 DEF DispatchText
  <2>3. CASE DispatchApply(body)
    <3>1. CASE UNCHANGED uiq
      BY <2>3, <3>1, <1>1 DEF DispatchApply, AppCall
    <3>2. ASSUME NEW a \in NotifyAddFriend(body),
                 Queue([op |-> "apply", uid |-> a.applyuid, name |-> a.name])
          PROVE  AppCall /\ uiq' \in Seq(Closure)
      <4>1. [op |-> "apply", uid |-> a.applyuid, name |-> a.name] \in Closure
        BY <2>1, PushTyped DEF Closure
      <4>. QED
        BY <2>3, <3>2, <4>1, <1>1 DEF DispatchApply, AppCall, Queue
    <3>. QED
      BY <2>3, <3>1, <3>2 DEF DispatchApply
  <2>. QED
    BY <1>3, <2>2, <2>3 DEF Dispatch, body
<1>. QED
  BY <1>2, <1>3

(* The network thread ends a command, with the answer's body or without.   *)
LEMMA ConcludeKeeps ==
    ASSUME SInv, NEW r \in Command, NEW reply \in {{}} \cup {{body} : body \in Reply},
           Conclude(r, reply)
    PROVE  AppCall /\ uiq' \in Seq(Closure)
<1>1. uiq \in Seq(Closure)
  BY DEF SInv, UiOK
<1>2. CASE r.kind = "SendText" /\ UNCHANGED <<app, uiq>>
  BY <1>1, <1>2 DEF AppCall
<1>3. CASE r.kind = "Search" /\ ConcludeSearch(UNION {search(body) : body \in reply})
  <2> DEFINE found == UNION {search(body) : body \in reply}
  <2>1. \A body \in Reply : search(body) \in {{}} \cup {{f} : f \in [id : Uid, name : Name]}
    BY DEF Reply, Success, Failure, search, UserInfo, Has
  <2>2. found \in {{}} \cup {{f} : f \in [id : Uid, name : Name]}
    <3>1. CASE reply = {}
      BY <3>1
    <3>2. ASSUME NEW body \in Reply, reply = {body}
          PROVE  found \in {{}} \cup {{f} : f \in [id : Uid, name : Name]}
      <4>1. found = search(body)
        BY <3>2
      <4>. QED
        BY <4>1, <2>1
    <3>. QED
      BY <3>1, <3>2
  <2> HIDE DEF found
  <2>3. ConcludeSearch(found)
    BY <1>3 DEF found
  <2>4. AppCall
    BY <2>2, <2>3 DEF ConcludeSearch, AppCall
  <2>5. [op |-> "search_done", name |-> NoFriend, is_friend |-> FALSE, status |-> "failed"] \in Closure
    BY NamesAssumption DEF Closure
  <2>6. \A user \in found : [op |-> "search_done", name |-> user.name,
                              is_friend |-> is_friend(app, user.id), status |-> ""] \in Closure
    <3> SUFFICES ASSUME NEW user \in found
                 PROVE  [op |-> "search_done", name |-> user.name,
                         is_friend |-> is_friend(app, user.id), status |-> ""] \in Closure
      OBVIOUS
    <3> DEFINE flag == is_friend(app, user.id)
    <3>1. user.name \in Name
      BY <2>2
    <3>2. flag \in BOOLEAN
      BY DEF is_friend
    <3> HIDE DEF flag
    <3>3. [op |-> "search_done", name |-> user.name, is_friend |-> flag, status |-> ""] \in Closure
      BY <3>1, <3>2 DEF Closure
    <3>. QED
      BY <3>3 DEF flag
  <2>7. \E c \in Closure : Queue(c)
    BY <2>3, <2>5, <2>6, Zenon DEF ConcludeSearch
  <2>. QED
    BY <2>4, <2>7, <1>1 DEF Queue
<1>4. CASE r.kind = "AddFriend" /\ ConcludeAdd(Granted(reply))
  <2>1. [op |-> "add_done", status |-> IF Granted(reply) THEN "sent" ELSE "failed"] \in Closure
    BY DEF Closure
  <2>. QED
    BY <1>1, <1>4, <2>1 DEF ConcludeAdd, AppCall, Queue
<1>5. CASE r.kind = "ApproveApply" /\ ConcludeApproval(reqs[r.tag].fromuid, Granted(reply))
  <2>1. reqs[r.tag].fromuid \in Uid
    BY <1>5 DEF Command, Load
  <2>2. Granted(reply) \in BOOLEAN
    BY DEF Granted
  <2>3. [op |-> "approved", uid |-> reqs[r.tag].fromuid, ok |-> Granted(reply)] \in Closure
    BY <2>1, <2>2 DEF Closure
  <2>. QED
    BY <1>1, <1>5, <2>3 DEF ConcludeApproval, AppCall, Queue
<1>. QED
  BY <1>2, <1>3, <1>4, <1>5 DEF Conclude

-----------------------------------------------------------------------------
(* The loop and the server move commands and frames, and keep their types. *)
LEMMA NetCommands ==
    ASSUME CommandsOK, Net!NetStep \/ Net!ServerStep, UNCHANGED reqs
    PROVE  CommandsOK'
<1>1. Command' = Command /\ nreq' = nreq
  BY DEF Command, Net!NetStep, Net!ServerStep, Net!RecvPush, Net!ConnectionLost, Net!SendRequest,
     Net!SendFails, Net!AcceptResponse, Net!CollectFrame, Net!RequestTimeout,
     Net!RequestRecvError, Net!DispatchDrained, Net!Answer, Net!AnswerInvalid, Net!Push, Net!Close
<1> DEFINE C == Command
<1>2. cmds \in Seq(C) /\ awaiting \subseteq C /\ up \subseteq C
  BY DEF CommandsOK
<1> HIDE DEF C
<1>3. cmds' \in Seq(C) /\ awaiting' \subseteq C /\ up' \subseteq C
  <2>1. CASE Net!RecvPush \/ Net!ConnectionLost \/ Net!DispatchDrained
    <3>1. (cmds' = cmds \/ cmds' = <<>>) /\ awaiting' = awaiting /\ up' = up
      BY <2>1 DEF Net!RecvPush, Net!ConnectionLost, Net!DispatchDrained, Net!client, Net!network
    <3>2. <<>> \in Seq(C)
      OBVIOUS
    <3>. QED
      BY <1>2, <3>1, <3>2, Zenon
  <2>2. CASE Net!SendRequest
    BY <1>2, <2>2 DEF Net!SendRequest
  <2>3. CASE Net!SendFails
    BY <1>2, <2>3 DEF Net!SendFails, Net!Finish, Net!network
  <2>4. CASE Net!AcceptResponse \/ Net!RequestTimeout \/ Net!RequestRecvError \/ Net!CollectFrame
    BY <1>2, <2>4 DEF Net!AcceptResponse, Net!RequestTimeout, Net!RequestRecvError,
       Net!CollectFrame, Net!Finish, Net!network
  <2>5. CASE \E r \in up : Net!Answer(r) \/ Net!AnswerInvalid(r)
    <3>1. UNCHANGED <<cmds, Net!client>> /\ \E r \in up : up' = up \ {r}
      BY <2>5 DEF Net!Answer, Net!AnswerInvalid
    <3>. QED
      BY <1>2, <3>1 DEF Net!client
  <2>6. CASE Net!Close \/ \E id \in Net!PushId : Net!Push(id)
    BY <1>2, <2>6 DEF Net!Close, Net!Push, Net!client
  <2>. QED
    BY <2>1, <2>2, <2>3, <2>4, <2>5, <2>6 DEF Net!NetStep, Net!ServerStep
<1>. QED
  BY <1>1, <1>3 DEF CommandsOK, C

(* The loop neither makes up a frame nor a push.                           *)
LEMMA NetFrames ==
    ASSUME FramesOK, Net!NetStep
    PROVE  FramesOK' /\ npush' = npush
<1>1. npush' = npush
  BY DEF Net!NetStep, Net!RecvPush, Net!ConnectionLost, Net!SendRequest,
     Net!SendFails, Net!AcceptResponse, Net!CollectFrame, Net!RequestTimeout,
     Net!RequestRecvError, Net!DispatchDrained, Net!network
<1>2. SentFrame' = SentFrame
  BY <1>1 DEF SentFrame
<1> DEFINE F == SentFrame
<1>3. down \in Seq(F) /\ todo \in Seq(F) /\ pending \in Seq(F)
  BY DEF FramesOK
<1> HIDE DEF F
<1>4. down' \in Seq(F) /\ todo' \in Seq(F) /\ pending' \in Seq(F)
  <2>1. CASE Net!RecvPush
    BY <1>3, <2>1 DEF Net!RecvPush, Net!client
  <2>2. CASE Net!ConnectionLost
    BY <1>3, <2>2 DEF Net!ConnectionLost
  <2>3. CASE Net!SendRequest
    BY <1>3, <2>3 DEF Net!SendRequest
  <2>4. CASE Net!SendFails
    BY <1>3, <2>4 DEF Net!SendFails, Net!Finish, Net!network
  <2>5. CASE Net!AcceptResponse
    BY <1>3, <2>5 DEF Net!AcceptResponse, Net!Finish
  <2>6. CASE Net!CollectFrame
    BY <1>3, <2>6 DEF Net!CollectFrame
  <2>7. CASE Net!RequestTimeout
    BY <1>3, <2>7 DEF Net!RequestTimeout, Net!Finish, Net!network
  <2>8. CASE Net!RequestRecvError
    BY <1>3, <2>8 DEF Net!RequestRecvError, Net!Finish
  <2>9. CASE Net!DispatchDrained
    BY <1>3, <2>9 DEF Net!DispatchDrained, Net!network
  <2>. QED
    BY <2>1, <2>2, <2>3, <2>4, <2>5, <2>6, <2>7, <2>8, <2>9 DEF Net!NetStep
<1>. QED
  BY <1>1, <1>2, <1>4 DEF FramesOK, F

(* A step of the network thread.                                           *)
LEMMA NetStepKeeps ==
    ASSUME SInv, NetStep
    PROVE  AppCall /\ UiOK' /\ CommandsOK' /\ FramesOK' /\ BodiesOK'
<1>1. Net!NetStep /\ UNCHANGED <<uiVars, wireVars>>
  BY DEF NetStep, Net!NetStep, RecvPush, DispatchDrained, ConnectionLost, SendRequest,
     CollectFrame, SendFails, AcceptResponse, RequestTimeout, RequestRecvError, Conclude
<1>2. CommandsOK' /\ FramesOK' /\ npush' = npush
  BY <1>1, NetCommands, NetFrames DEF SInv, wireVars
<1>3. BodiesOK'
  BY <1>1, <1>2 DEF SInv, BodiesOK, wireVars
<1>4. /\ uiq \in Seq(Closure)
      /\ cmds \in Seq(Command) /\ awaiting \subseteq Command
      /\ down \in Seq(SentFrame) /\ todo \in Seq(SentFrame)
  BY DEF SInv, UiOK, CommandsOK, FramesOK
<1>5. AppCall /\ uiq' \in Seq(Closure)
  <2>1. CASE RecvPush
    <3>1. Head(down) \in SentFrame /\ Dispatch(Head(down))
      BY <1>4, <2>1 DEF RecvPush, Net!RecvPush
    <3>. QED
      BY <3>1, DispatchKeeps
  <2>2. CASE DispatchDrained
    <3>1. Head(todo) \in SentFrame /\ Dispatch(Head(todo))
      BY <1>4, <2>2 DEF DispatchDrained, Net!DispatchDrained
    <3>. QED
      BY <3>1, DispatchKeeps
  <2>3. CASE ConnectionLost
    <3>1. [op |-> "disconnected"] \in Closure
      BY DEF Closure
    <3>. QED
      BY <1>4, <2>3, <3>1 DEF ConnectionLost, Queue, AppCall
  <2>4. CASE SendRequest \/ CollectFrame
    BY <1>4, <2>4 DEF SendRequest, CollectFrame, AppCall
  <2>5. CASE SendFails
    <3>1. Head(cmds) \in Command /\ Conclude(Head(cmds), {})
      BY <1>4, <2>5 DEF SendFails, Net!SendFails
    <3>. QED
      BY <3>1, ConcludeKeeps
  <2>6. CASE AcceptResponse
    <3>1. PICK r \in awaiting : Conclude(r, answers[Head(down).tag])
      BY <2>6 DEF AcceptResponse
    <3>2. PICK q \in awaiting : down # <<>> /\ Head(down).id = Net!ResponseId[q.kind]
      BY <2>6 DEF AcceptResponse, Net!AcceptResponse
    <3>3. q.kind \in Kind
      BY <1>4, <3>2, CommandsAssumption DEF Command
    <3>4. Head(down) \in SentFrame /\ Head(down).id \notin PushId
      BY <1>4, <3>2, <3>3, ProtocolSame
    <3>5. Head(down).tag \in 1 .. MaxCmds
      BY <3>4 DEF SentFrame
    <3>6. answers[Head(down).tag] \in {{}} \cup {{body} : body \in Reply}
      BY <3>5 DEF SInv, BodiesOK
    <3>. QED
      BY <1>4, <3>1, <3>6, ConcludeKeeps
  <2>7. CASE RequestTimeout \/ RequestRecvError
    <3>1. PICK r \in awaiting : Conclude(r, {})
      BY <2>7 DEF RequestTimeout, RequestRecvError
    <3>. QED
      BY <1>4, <3>1, ConcludeKeeps
  <2>. QED
    BY <2>1, <2>2, <2>3, <2>4, <2>5, <2>6, <2>7 DEF NetStep
<1>6. UiOK'
  BY <1>1, <1>5 DEF SInv, UiOK, uiVars
<1>. QED
  BY <1>2, <1>3, <1>5, <1>6

-----------------------------------------------------------------------------
(* A frame more in the stream, of a push or an answer already numbered.    *)
LEMMA FrameSent ==
    ASSUME FramesOK, npush' \in 0 .. MaxPushes, npush <= npush',
           NEW f \in SentFrame', down' = Append(down, f), UNCHANGED <<todo, pending>>
    PROVE  FramesOK'
<1> DEFINE F == SentFrame
           G == SentFrame'
<1>1. F \subseteq G
  BY DEF SentFrame, FramesOK
<1>2. down \in Seq(F) /\ todo \in Seq(F) /\ pending \in Seq(F) /\ f \in G
  BY DEF FramesOK
<1> HIDE DEF F, G
<1>3. down \in Seq(G) /\ todo \in Seq(G) /\ pending \in Seq(G)
  BY <1>1, <1>2
<1>4. down' \in Seq(G) /\ todo' \in Seq(G) /\ pending' \in Seq(G)
  BY <1>2, <1>3
<1>. QED
  BY <1>4 DEF FramesOK, G

(* The server answers, and grants at most a friendship of two users.       *)
LEMMA AnswerKeeps ==
    ASSUME SInv, NEW r \in up, Answer(r) \/ AnswerInvalid(r)
    PROVE  FramesOK' /\ BodiesOK'
<1>1. r.tag \in 1 .. MaxCmds /\ r.kind \in Kind /\ reqs[r.tag] \in Load(r.kind)
  <2>1. r \in Command /\ reqs \in Seq(UNION {Load(kind) : kind \in Kinds}) /\ Len(reqs) = nreq
        /\ nreq \in 0 .. MaxCmds
    BY DEF SInv, CommandsOK
  <2>2. r.tag \in DOMAIN reqs /\ r.kind \in Kinds /\ reqs[r.tag] \in Load(r.kind)
    BY <2>1 DEF Command
  <2>. QED
    BY <2>1, <2>2, CommandsAssumption
<1>2. \E id \in IncomingId \ PushId :
         /\ down' = Append(down, [id |-> id, tag |-> r.tag])
         /\ UNCHANGED <<npush, todo, pending, pushes>>
  BY <1>1, ProtocolSame DEF Answer, AnswerInvalid, Net!Answer, Net!AnswerInvalid, Net!client, wireVars
<1>3. PICK id \in IncomingId \ PushId :
         /\ down' = Append(down, [id |-> id, tag |-> r.tag])
         /\ UNCHANGED <<npush, todo, pending, pushes>>
  BY <1>2
<1>4. [id |-> id, tag |-> r.tag] \in SentFrame'
  BY <1>1 DEF SentFrame
<1>5. FramesOK'
  <2>1. FramesOK /\ npush' \in 0 .. MaxPushes /\ npush <= npush'
    BY <1>3 DEF SInv, FramesOK
  <2>. QED
    BY <1>3, <1>4, <2>1, FrameSent
<1>6. CASE AnswerInvalid(r)
  BY <1>3, <1>5, <1>6 DEF AnswerInvalid, wireVars, SInv, BodiesOK
<1>7. CASE Answer(r)
  <2>1. PICK reply \in Replies(r) :
           /\ answers' = [answers EXCEPT ![r.tag] = {reply}]
           /\ met' = IF r.kind = "ApproveApply" /\ reply = Success /\ RequestBody(r).fromuid = Me
                     THEN met \cup {RequestBody(r).touid}
                     ELSE met
    BY <1>7 DEF Answer
  <2>2. reply \in Reply
    BY <2>1, NamesAssumption DEF Replies, Reply
  <2>3. answers' \in [1 .. MaxCmds -> {{}} \cup {{body} : body \in Reply}]
    BY <2>1, <2>2 DEF SInv, BodiesOK
  <2>4. r.kind = "ApproveApply" => RequestBody(r).touid \in Uid
    BY <1>1 DEF Load, RequestBody, AuthFriendRequest
  <2>5. met' \subseteq Uid
    BY <2>1, <2>4 DEF SInv, BodiesOK
  <2>. QED
    BY <1>3, <1>5, <2>3, <2>5 DEF SInv, BodiesOK
<1>. QED
  BY <1>5, <1>6, <1>7

(* A push has a body and a number of its own.                              *)
LEMMA PushKeeps ==
    ASSUME SInv, NEW id \in PushId, NEW body, body \in PushBody \/ npush' \notin 1 .. MaxPushes,
           PushAs(id, body)
    PROVE  FramesOK' /\ pushes' \in Seq(PushBody) /\ Len(pushes') = npush'
<1>1. npush \in 0 .. MaxPushes /\ pushes \in Seq(PushBody) /\ Len(pushes) = npush /\ FramesOK
  BY DEF SInv, FramesOK, BodiesOK
<1>2. /\ npush < MaxPushes /\ npush' = npush + 1
      /\ down' = Append(down, [id |-> id, tag |-> npush'])
      /\ UNCHANGED <<todo, pending>> /\ pushes' = Append(pushes, body)
  BY DEF PushAs, Net!Push, Net!client
<1>3. npush' \in 1 .. MaxPushes /\ npush' \in 0 .. MaxPushes /\ npush <= npush'
  BY <1>1, <1>2, TextsAssumption
<1>4. [id |-> id, tag |-> npush'] \in SentFrame'
  BY <1>1, <1>2 DEF SentFrame, IncomingId
<1>5. FramesOK'
  BY <1>1, <1>2, <1>3, <1>4, FrameSent
<1>. QED
  BY <1>1, <1>2, <1>3, <1>5

(* A step of the server or of another user.                                *)
LEMMA ServerStepKeeps ==
    ASSUME SInv, ServerStep
    PROVE  AppCall /\ UiOK' /\ CommandsOK' /\ FramesOK' /\ BodiesOK'
<1>1. UNCHANGED <<app, uiq, uiVars, reqs>>
  BY DEF ServerStep, Answer, AnswerInvalid, PushText, PushApply, PushApproved, PushAs, Close, wireVars
<1>2. AppCall /\ UiOK'
  BY <1>1 DEF AppCall, SInv, UiOK, uiVars
<1>3. CommandsOK'
  BY <1>1, ServerIsNetServer, NetCommands DEF SInv
<1>4. CASE \E r \in up : Answer(r) \/ AnswerInvalid(r)
  BY <1>2, <1>3, <1>4, AnswerKeeps
<1>5. CASE Close
  <2>1. UNCHANGED <<npush, down, todo, pending, wireVars>>
    BY <1>5 DEF Close, Net!Close, Net!client
  <2>2. FramesOK'
    BY <2>1 DEF SInv, FramesOK, SentFrame
  <2>. QED
    BY <1>2, <1>3, <2>1, <2>2 DEF SInv, BodiesOK, wireVars
<1>6. ASSUME NEW uid \in Uid, PushText(uid) \/ PushApply(uid) \/ PushApproved(uid)
      PROVE  FramesOK' /\ BodiesOK'
  <2>1. answers' = answers /\ met' \subseteq Uid
    BY <1>6 DEF PushText, PushApply, PushApproved, PushAs, SInv, BodiesOK
  <2>2. FramesOK' /\ pushes' \in Seq(PushBody) /\ Len(pushes') = npush'
    <3>1. CASE PushText(uid)
      <4>1. PICK id \in {NOTIFY_TEXT_CHAT, NOTIFY_AUTH_FRIEND} :
                PushAs(id, TextChatRequest(uid, Me, npush'))
        BY <3>1, TextIdsAssumption DEF PushText
      <4>2. id \in PushId
        BY DEF PushId
      <4>3. TextChatRequest(uid, Me, npush') \in PushBody \/ npush' \notin 1 .. MaxPushes
        BY NamesAssumption DEF TextChatRequest, PushBody, TextBody
      <4>. QED
        BY <4>1, <4>2, <4>3, PushKeeps
    <3>2. CASE PushApply(uid)
      <4>1. [applyuid |-> uid, name |-> UserName[uid]] \in PushBody
        BY NamesAssumption DEF PushBody, ApplyBody
      <4>2. NOTIFY_ADD_FRIEND \in PushId
        BY DEF PushId
      <4>. QED
        BY <3>2, <4>1, <4>2, PushKeeps DEF PushApply
    <3>3. CASE PushApproved(uid)
      <4>1. AuthFriendRequest(uid, Me) \in PushBody
        BY NamesAssumption DEF AuthFriendRequest, PushBody
      <4>2. NOTIFY_AUTH_FRIEND \in PushId
        BY DEF PushId
      <4>. QED
        BY <3>3, <4>1, <4>2, PushKeeps DEF PushApproved
    <3>. QED
      BY <1>6, <3>1, <3>2, <3>3
  <2>. QED
    BY <2>1, <2>2 DEF SInv, BodiesOK
<1>. QED
  BY <1>2, <1>3, <1>4, <1>5, <1>6 DEF ServerStep

-----------------------------------------------------------------------------
(* The UI thread issues a command: its load is filed under its number.     *)
LEMMA SendKeeps ==
    ASSUME CommandsOK, NEW kind \in Kinds, NEW load \in Load(kind), Send(kind, load)
    PROVE  CommandsOK' /\ UNCHANGED <<npush, down, todo, pending>>
<1>1. CASE ~ running
  BY <1>1 DEF Send, netVars, CommandsOK, Command
<1>2. CASE running
  <2>1. /\ nreq < MaxCmds /\ nreq' = nreq + 1
        /\ cmds' = Append(cmds, [tag |-> nreq', kind |-> kind])
        /\ UNCHANGED <<awaiting, up, npush, down, todo, pending>>
        /\ reqs' = Append(reqs, load)
    BY <1>2 DEF Send, Net!Submit, Net!client, Net!network
  <2> DEFINE L == UNION {Load(k) : k \in Kinds}
             C == Command
             D == Command'
  <2>2. reqs \in Seq(L) /\ load \in L /\ Len(reqs) = nreq /\ nreq \in 0 .. MaxCmds
    BY DEF CommandsOK
  <2>3. cmds \in Seq(C) /\ awaiting \subseteq C /\ up \subseteq C
    BY DEF CommandsOK
  <2> HIDE DEF L
  <2>4. /\ reqs' \in Seq(L) /\ Len(reqs') = nreq' /\ nreq' \in 0 .. MaxCmds
        /\ nreq' \in DOMAIN reqs' /\ reqs'[nreq'] = load
        /\ \A n \in DOMAIN reqs : n \in DOMAIN reqs' /\ reqs'[n] = reqs[n]
    BY <2>1, <2>2, CommandsAssumption
  <2>5. C \subseteq D
    BY <2>4 DEF Command
  <2>6. [tag |-> nreq', kind |-> kind] \in D
    BY <2>2, <2>4 DEF Command
  <2> HIDE DEF C, D
  <2>7. cmds' \in Seq(D) /\ awaiting' \subseteq D /\ up' \subseteq D
    BY <2>1, <2>3, <2>5, <2>6
  <2>. QED
    BY <2>1, <2>4, <2>7 DEF CommandsOK, D, L
<1>. QED
  BY <1>1, <1>2

\* The commands and the frames are left alone.
LEMMA NetUnchanged ==
    ASSUME SInv, UNCHANGED <<netVars, reqs>>
    PROVE  CommandsOK' /\ UNCHANGED <<npush, down, todo, pending>>
BY DEF SInv, CommandsOK, Command, netVars

\* No push is sent.
LEMMA NothingSent ==
    ASSUME SInv, UNCHANGED <<npush, down, todo, pending, answers, pushes, met>>
    PROVE  FramesOK' /\ BodiesOK'
BY DEF SInv, FramesOK, SentFrame, BodiesOK

(* A closure runs.                                                         *)
LEMMA RunClosureKeeps ==
    ASSUME SInv, RunClosure
    PROVE  AppCall /\ UiOK' /\ CommandsOK' /\ FramesOK' /\ BodiesOK'
<1>1. CommandsOK' /\ FramesOK' /\ BodiesOK'
  BY NetUnchanged, NothingSent DEF RunClosure, wireVars
<1>2. uiq' \in Seq(Closure) /\ Head(uiq) \in Closure /\ UNCHANGED <<sending, nsend>>
  BY DEF RunClosure, SInv, UiOK
<1> DEFINE c == Head(uiq)
<1>3. AppCall /\ ui'.selected_friend = ui.selected_friend /\ DOMAIN ui' = UiField
  <2>1. DOMAIN ui = UiField
    BY DEF SInv, UiOK
  <2>2. CASE ShowMainWindow \/ ShowState
    BY <2>1, <2>2 DEF ShowMainWindow, ShowState, Rendered, AppCall, UiField
  <2>3. CASE ShowDisconnected
    BY <2>1, <2>3 DEF ShowDisconnected, AppCall, UiField
  <2>4. CASE c.op = "apply" /\ ShowApply(c)
    <3>1. c.uid \in Uid /\ c.name \in Name
      BY <1>2, <2>4 DEF Closure
    <3>. QED
      BY <2>1, <2>4, <3>1 DEF ShowApply, Rendered, AppCall, UiField
  <2>5. CASE ShowSearchResult(c) \/ ShowAddResult(c)
    BY <2>1, <2>5 DEF ShowSearchResult, ShowAddResult, AppCall, UiField
  <2>6. CASE c.op = "approved" /\ ShowApproval(c)
    <3>1. c.uid \in Uid
      BY <1>2, <2>6 DEF Closure
    <3>. QED
      BY <2>1, <2>6, <3>1 DEF ShowApproval, Rendered, AppCall, UiField
  <2>. QED
    BY <2>2, <2>3, <2>4, <2>5, <2>6 DEF RunClosure
<1>. QED
  BY <1>1, <1>2, <1>3 DEF SInv, UiOK

(* The second half of send_text.                                           *)
LEMMA FileTextKeeps ==
    ASSUME SInv, SendsTexts, FileText
    PROVE  AppCall /\ UiOK' /\ CommandsOK' /\ FramesOK' /\ BodiesOK'
<1>1. PICK s \in sending :
        /\ app' = sent_message(app, s.friend, s.text)
        /\ sending' = {}
        /\ \/ /\ s.touid = NoUid
              /\ ui' = [Rendered(ui, app') EXCEPT !.login_status = "uid unknown"]
              /\ UNCHANGED <<netVars, reqs>>
           \/ /\ s.touid # NoUid
              /\ ui' = [Rendered(ui, app') EXCEPT !.login_status = ""]
              /\ Send("SendText", [touid |-> s.touid, text |-> s.text])
        /\ UNCHANGED <<uiq, nsend, answers, pushes, met>>
  BY DEF FileText
<1>2. s.friend \in Name /\ s.text \in 1 .. MaxSends /\ s.touid \in AnyUid
  BY DEF SInv, UiOK
<1>3. AppCall
  BY <1>1, <1>2, TextsAssumption DEF AppCall
<1>4. CommandsOK' /\ UNCHANGED <<npush, down, todo, pending>>
  <2>1. CASE UNCHANGED <<netVars, reqs>>
    BY <2>1, NetUnchanged
  <2>2. CASE s.touid # NoUid /\ Send("SendText", [touid |-> s.touid, text |-> s.text])
    <3>1. [touid |-> s.touid, text |-> s.text] \in Load("SendText")
      BY <1>2, <2>2 DEF Load, AnyUid
    <3>2. "SendText" \in Kinds
      BY DEF SendsTexts
    <3>. QED
      BY <2>2, <3>1, <3>2, SendKeeps DEF SInv
  <2>. QED
    BY <1>1, <2>1, <2>2
<1>5. FramesOK' /\ BodiesOK'
  BY <1>1, <1>4, NothingSent
<1>6. UiOK'
  BY <1>1 DEF SInv, UiOK, Rendered, UiField
<1>. QED
  BY <1>3, <1>4, <1>5, <1>6

(* A uid looked up is a uid, or unknown.                                   *)
LEMMA LookUps ==
    ASSUME NEW s \in State, NEW name \in Name
    PROVE  /\ friend_uid(s, name) \in AnyUid
           /\ search_uid(s) \in AnyUid
           /\ approve_apply_uids(s, name) \subseteq AnyUid
<1>1. friend_uid(s, name) \in AnyUid
  <2> DEFINE Named == {i \in DOMAIN s.friends : s.friends[i].name = name}
  <2>1. CASE Named = {}
    BY <2>1 DEF friend_uid, AnyUid
  <2>2. CASE Named # {}
    <3>1. s.friends \in Seq(Friend)
      BY DEF State
    <3>2. \A i \in DOMAIN s.friends : i \in Nat /\ s.friends[i] \in Friend
      BY <3>1
    <3>3. Named \subseteq Nat /\ \A i \in Named : s.friends[i].id \in AnyUid
      BY <3>2 DEF Friend
    <3>4. PICK k \in Named : \A j \in Named : ~ (<<j, k>> \in OpToRel(<, Nat))
      BY <2>2, <3>3, NatLessThanWellFounded, WFMin
    <3>5. \A j \in Named : ~ (j < k)
      BY <3>3, <3>4 DEF OpToRel
    <3>6. \A j \in Named : k <= j
      BY <3>3, <3>5
    <3>7. (CHOOSE i \in Named : \A j \in Named : i <= j) \in Named
      BY <3>6
    <3>. QED
      BY <2>2, <3>3, <3>7 DEF friend_uid
  <2>. QED
    BY <2>1, <2>2
<1>2. search_uid(s) \in AnyUid
  <2>1. CASE s.search_result = {}
    BY <2>1 DEF search_uid, AnyUid
  <2>2. CASE s.search_result # {}
    <3>1. (CHOOSE f \in s.search_result : TRUE) \in s.search_result
      BY <2>2
    <3>2. s.search_result \subseteq Friend
      BY DEF State
    <3>. QED
      BY <2>2, <3>1, <3>2 DEF search_uid, Friend
  <2>. QED
    BY <2>1, <2>2
<1>3. approve_apply_uids(s, name) \subseteq AnyUid
  BY DEF approve_apply_uids, State, FriendApply
<1>. QED
  BY <1>1, <1>2, <1>3

(* The user acts.                                                          *)
LEMMA UserStepKeeps ==
    ASSUME SInv, UserStep
    PROVE  AppCall /\ UiOK' /\ CommandsOK' /\ FramesOK' /\ BodiesOK'
<1>1. /\ app \in State /\ ui.selected_friend \in Name /\ DOMAIN ui = UiField
      /\ uiq \in Seq(Closure) /\ nsend \in 0 .. MaxSends
      /\ sending \subseteq [friend : Name, touid : AnyUid, text : 1 .. MaxSends]
  BY DEF SInv, AppOK, UiOK
<1>2. ASSUME NEW friend \in Name, SelectFriend(friend)
      PROVE  AppCall /\ UiOK' /\ CommandsOK' /\ FramesOK' /\ BodiesOK'
  <2>1. CommandsOK' /\ FramesOK' /\ BodiesOK'
    BY <1>2, NetUnchanged, NothingSent DEF SelectFriend, wireVars
  <2>2. ui'.selected_friend = friend /\ DOMAIN ui' = UiField
    BY <1>1, <1>2 DEF SelectFriend, Rendered, UiField
  <2>. QED
    BY <1>1, <1>2, <2>1, <2>2 DEF SelectFriend, AppCall, UiOK
<1>3. CASE SendText
  <2>1. CommandsOK' /\ FramesOK' /\ BodiesOK'
    BY <1>3, NetUnchanged, NothingSent DEF SendText, wireVars
  <2>2. /\ nsend' = nsend + 1 /\ nsend < MaxSends
        /\ sending' = {[friend |-> ui.selected_friend,
                        touid |-> friend_uid(app, ui.selected_friend), text |-> nsend']}
        /\ UNCHANGED <<app, ui, uiq>>
    BY <1>3 DEF SendText
  <2>3. nsend' \in 0 .. MaxSends /\ nsend' \in 1 .. MaxSends
    BY <1>1, <2>2, TextsAssumption
  <2>4. friend_uid(app, ui.selected_friend) \in AnyUid
    BY <1>1, LookUps
  <2>5. sending' \subseteq [friend : Name, touid : AnyUid, text : 1 .. MaxSends]
    BY <1>1, <2>2, <2>3, <2>4
  <2>. QED
    BY <1>1, <2>1, <2>2, <2>3, <2>5 DEF AppCall, UiOK
<1>4. CASE OpenAddDialog \/ CloseAddDialog
  <2>1. CommandsOK' /\ FramesOK' /\ BodiesOK'
    BY <1>4, NetUnchanged, NothingSent DEF OpenAddDialog, CloseAddDialog, wireVars
  <2>2. ui'.selected_friend = ui.selected_friend /\ DOMAIN ui' = UiField
    BY <1>1, <1>4 DEF OpenAddDialog, CloseAddDialog, UiField
  <2>. QED
    BY <1>1, <1>4, <2>1, <2>2 DEF OpenAddDialog, CloseAddDialog, AppCall, UiOK
<1>5. CASE AddFriend
  <2>1. CommandsOK' /\ UNCHANGED <<npush, down, todo, pending>>
    <3>1. CASE UNCHANGED <<netVars, reqs>>
      BY <3>1, NetUnchanged
    <3>2. CASE search_uid(app) # NoUid /\ Send("AddFriend", [touid |-> search_uid(app)])
      <4>1. [touid |-> search_uid(app)] \in Load("AddFriend")
        BY <1>1, <3>2, LookUps DEF Load, AnyUid
      <4>2. "AddFriend" \in Kinds
        BY <1>5 DEF AddFriend
      <4>. QED
        BY <3>2, <4>1, <4>2, SendKeeps DEF SInv
    <3>. QED
      BY <1>5, <3>1, <3>2 DEF AddFriend
  <2>2. FramesOK' /\ BodiesOK'
    BY <1>5, <2>1, NothingSent DEF AddFriend
  <2>3. ui'.selected_friend = ui.selected_friend /\ DOMAIN ui' = UiField
    BY <1>1, <1>5 DEF AddFriend, UiField
  <2>. QED
    BY <1>1, <1>5, <2>1, <2>2, <2>3 DEF AddFriend, AppCall, UiOK
<1>6. ASSUME NEW uid \in Uid, AddSearchUser(uid)
      PROVE  AppCall /\ UiOK' /\ CommandsOK' /\ FramesOK' /\ BodiesOK'
  <2>1. [name |-> UserName[uid]] \in Load("Search") /\ "Search" \in Kinds
    BY <1>6, NamesAssumption DEF Load, AddSearchUser
  <2>2. CommandsOK' /\ UNCHANGED <<npush, down, todo, pending>>
    BY <1>6, <2>1, SendKeeps DEF AddSearchUser, SInv
  <2>3. FramesOK' /\ BodiesOK'
    BY <1>6, <2>2, NothingSent DEF AddSearchUser
  <2>4. ui'.selected_friend = ui.selected_friend /\ DOMAIN ui' = UiField
    BY <1>1, <1>6 DEF AddSearchUser, UiField
  <2>. QED
    BY <1>1, <1>6, <2>2, <2>3, <2>4 DEF AddSearchUser, AppCall, UiOK
<1>7. ASSUME NEW name \in Name, ApproveApply(name)
      PROVE  AppCall /\ UiOK' /\ CommandsOK' /\ FramesOK' /\ BodiesOK'
  <2>1. PICK uid \in approve_apply_uids(app, name) \ {NoUid} :
            Send("ApproveApply", [fromuid |-> uid])
    BY <1>7 DEF ApproveApply
  <2>2. uid \in Uid
    BY <1>1, LookUps DEF AnyUid
  <2>3. [fromuid |-> uid] \in Load("ApproveApply") /\ "ApproveApply" \in Kinds
    BY <1>7, <2>2 DEF Load, ApproveApply
  <2>4. CommandsOK' /\ UNCHANGED <<npush, down, todo, pending>>
    BY <2>1, <2>3, SendKeeps DEF SInv
  <2>5. FramesOK' /\ BodiesOK'
    BY <1>7, <2>4, NothingSent DEF ApproveApply
  <2>. QED
    BY <1>1, <1>7, <2>4, <2>5 DEF ApproveApply, AppCall, UiOK
<1>8. ASSUME NEW name \in Name, RejectApply(name)
      PROVE  AppCall /\ UiOK' /\ CommandsOK' /\ FramesOK' /\ BodiesOK'
  <2>1. CommandsOK' /\ FramesOK' /\ BodiesOK'
    BY <1>8, NetUnchanged, NothingSent DEF RejectApply, wireVars
  <2>2. ui'.selected_friend = ui.selected_friend /\ DOMAIN ui' = UiField
    BY <1>1, <1>8 DEF RejectApply, Rendered, UiField
  <2>. QED
    BY <1>1, <1>8, <2>1, <2>2 DEF RejectApply, AppCall, UiOK
<1>. QED
  BY <1>2, <1>3, <1>4, <1>5, <1>6, <1>7, <1>8 DEF UserStep

(* Where the session begins.                                               *)
LEMMA InitSInv == Init => SInv /\ SendsTexts
<1> SUFFICES ASSUME Init PROVE SInv /\ SendsTexts
  OBVIOUS
<1>1. AppOK
  <2>1. /\ begin_login(New) \in State /\ begin_login(New).applies = {}
    <3>1. New \in State /\ New.applies = {}
      BY DEF New, State, AnyUid, LoginStatus, ChatMessage, Friend
    <3>. QED
      BY <3>1, StatusOnly
  <2>2. app = LoggedInState /\ Me \in Uid
    BY NamesAssumption DEF Init
  <2> DEFINE d == [uid |-> Me, friends |-> LoginFriends, applies |-> LoginApplies]
  <2>3. d.uid \in Uid /\ d.friends \in Seq(Friend) /\ d.applies \in Seq(FriendApply)
    BY <2>2, ListsAssumption
  <2>4. app = seed_applies(login_succeeded(begin_login(New), d.uid, d.friends), d.applies)
    BY <2>2 DEF LoggedInState
  <2> HIDE DEF d
  <2>5. app \in State /\ app.my_uid = d.uid
    BY <2>1, <2>3, <2>4, LoginLeaves
  <2>. QED
    BY <2>3, <2>5, NoUidAssumption DEF AppOK
<1>2. UiOK
  <2>1. [op |-> "logged_in"] \in Closure
    BY DEF Closure
  <2>2. ui.selected_friend \in Name /\ DOMAIN ui = UiField
    BY NamesAssumption DEF Init, UiField
  <2>3. uiq = <<[op |-> "logged_in"]>> /\ sending = {} /\ nsend = 0
    BY DEF Init
  <2>. QED
    BY <2>1, <2>2, <2>3, TextsAssumption DEF UiOK
<1>3. CommandsOK /\ FramesOK /\ BodiesOK
  <2>1. /\ nreq = 0 /\ reqs = <<>> /\ cmds = <<>> /\ awaiting = {} /\ up = {}
        /\ npush = 0 /\ down = <<>> /\ todo = <<>> /\ pending = <<>>
        /\ pushes = <<>> /\ answers = [n \in 1 .. MaxCmds |-> {}] /\ met \subseteq Uid
    BY DEF Init, Net!Init
  <2>2. CommandsOK
    BY <2>1, CommandsAssumption DEF CommandsOK
  <2>3. FramesOK
    BY <2>1, TextsAssumption DEF FramesOK
  <2>4. BodiesOK
    BY <2>1 DEF BodiesOK
  <2>. QED
    BY <2>2, <2>3, <2>4
<1>. QED
  BY <1>1, <1>2, <1>3 DEF SInv, SendsTexts, Init

(* Every step of the session keeps the types, and is a call of AppState.   *)
LEMMA NextSInv == SInv /\ SendsTexts /\ [Next]_vars => SInv' /\ AppCall
<1> SUFFICES ASSUME SInv, SendsTexts, [Next]_vars
             PROVE  AppCall /\ UiOK' /\ CommandsOK' /\ FramesOK' /\ BodiesOK'
  BY AppCallKeeps DEF SInv
<1>1. CASE UNCHANGED vars
  BY <1>1, NetUnchanged, NothingSent DEF vars, netVars, uiVars, wireVars, AppCall, SInv, UiOK
<1>. QED
  BY <1>1, RunClosureKeeps, FileTextKeeps, UserStepKeeps, NetStepKeeps, ServerStepKeeps
     DEF Next, UIStep

(* The types and numbers hold together.                                    *)
THEOREM SpecSInv == Spec => [](SInv /\ SendsTexts)
<1>1. SInv /\ SendsTexts /\ [Next]_vars => (SInv /\ SendsTexts)'
  BY NextSInv, StepIsNetStep
<1>. QED
  BY InitSInv, <1>1, PTL DEF Spec

(* The session keeps its types: no closure, command or body is malformed,  *)
(* whatever the servers grant and the users do.                            *)
THEOREM SessionTypeOK == Spec => []TypeOK
<1>1. SInv => TypeOK
  BY DEF SInv, TypeOK, AppOK, UiOK, CommandsOK, FramesOK, BodiesOK
<1>. QED
  BY <1>1, SpecSInv, PTL

-----------------------------------------------------------------------------
(* The methods are the same in Reducer and here.                           *)
LEMMA SameMethods ==
    /\ \A s : Red!login_failed(s) = login_failed(s)
    /\ \A s, uid, name : Red!apply_received(s, uid, name) = apply_received(s, uid, name)
    /\ \A s, uid : Red!approve_apply(s, uid) = approve_apply(s, uid)
    /\ \A s, name : Red!reject_apply(s, name) = reject_apply(s, name)
    /\ \A s, result : Red!set_search_result(s, result) = set_search_result(s, result)
    /\ \A s, uid, text : Red!receive_push(s, uid, text) = receive_push(s, uid, text)
    /\ \A s, friend : Red!open_conversation(s, friend) = open_conversation(s, friend)
    /\ \A s, friend, text : Red!sent_message(s, friend, text) = sent_message(s, friend, text)
<1>1. \A s : Red!login_failed(s) = login_failed(s)
  BY DEF Red!login_failed, login_failed
<1>2. \A s, uid : (Red!has_apply(s, uid) <=> has_apply(s, uid))
                  /\ (Red!is_friend(s, uid) <=> is_friend(s, uid))
  BY DEF Red!has_apply, has_apply, Red!is_friend, is_friend
<1>3. \A s, uid, name : Red!apply_received(s, uid, name) = apply_received(s, uid, name)
  BY <1>2 DEF Red!apply_received, apply_received
<1>4. \A s, uid : Red!approve_apply(s, uid) = approve_apply(s, uid)
  <2> SUFFICES ASSUME NEW s, NEW uid
               PROVE  Red!approve_apply(s, uid) = approve_apply(s, uid)
    OBVIOUS
  <2> DEFINE apply == CHOOSE a \in s.applies : a.from_uid = uid
             fs(yes) == IF yes
                        THEN s.friends
                        ELSE Append(s.friends, [id |-> uid, name |-> apply.name])
  <2>1. Red!approve_apply(s, uid) =
            IF ~ Red!has_apply(s, uid)
            THEN s
            ELSE [s EXCEPT !.applies = @ \ {apply}, !.friends = fs(Red!is_friend(s, uid))]
    BY DEF Red!approve_apply
  <2>2. approve_apply(s, uid) =
            IF ~ has_apply(s, uid)
            THEN s
            ELSE [s EXCEPT !.applies = @ \ {apply}, !.friends = fs(is_friend(s, uid))]
    BY DEF approve_apply
  <2> HIDE DEF apply
  <2>3. fs(Red!is_friend(s, uid)) = fs(is_friend(s, uid))
    BY <1>2
  <2> HIDE DEF fs
  <2>. QED
    BY <1>2, <2>1, <2>2, <2>3
<1>5. \A s, name : Red!reject_apply(s, name) = reject_apply(s, name)
  BY DEF Red!reject_apply, reject_apply
<1>6. \A s, result : Red!set_search_result(s, result) = set_search_result(s, result)
  BY DEF Red!set_search_result, set_search_result
<1>7. \A s, friend, msg : Red!push_to_conversation(s, friend, msg) = push_to_conversation(s, friend, msg)
  BY DEF Red!push_to_conversation, push_to_conversation
<1>8. \A s, uid : Red!learn_uid(s, uid) = learn_uid(s, uid)
  BY <1>2 DEF Red!learn_uid, learn_uid
<1>9. \A s, uid : Red!friend_for_uid(s, uid) = friend_for_uid(s, uid)
  BY <1>2 DEF Red!friend_for_uid, friend_for_uid
<1>10. \A s, friend, text : Red!received_message(s, friend, text) = received_message(s, friend, text)
  BY <1>7 DEF Red!received_message, received_message
<1>11. \A s, uid, text : Red!receive_push(s, uid, text) = receive_push(s, uid, text)
  BY <1>8, <1>9, <1>10 DEF Red!receive_push, receive_push
<1>12. \A s, friend : Red!open_conversation(s, friend) = open_conversation(s, friend)
  BY DEF Red!open_conversation, open_conversation
<1>13. \A s, friend, text : Red!sent_message(s, friend, text) = sent_message(s, friend, text)
  BY <1>7 DEF Red!sent_message, sent_message
<1>. QED
  BY <1>1, <1>3, <1>4, <1>5, <1>6, <1>11, <1>12, <1>13

(* A call of a method is a step of the reducer, once somebody is logged in.*)
LEMMA AppCallIsReducerStep ==
    ASSUME AppOK, AppCall
    PROVE  [Red!Next]_app
<1>1. Red!LoggedIn
  BY DEF AppOK, Red!LoggedIn
<1>2. CASE app' = login_failed(app)
  BY <1>2, SameMethods DEF Red!Next, Red!LoginFailed
<1>3. CASE \E uid \in Uid, name \in Name : app' = apply_received(app, uid, name)
  BY <1>1, <1>3, SameMethods DEF Red!Next, Red!ApplyReceived
<1>4. CASE \E uid \in Uid : app' = approve_apply(app, uid)
  BY <1>1, <1>4, SameMethods DEF Red!Next, Red!ApproveApply
<1>5. CASE \E name \in Name : app' = reject_apply(app, name)
  BY <1>1, <1>5, SameMethods DEF Red!Next, Red!RejectApply
<1>6. CASE \E result \in {{}} \cup {{f} : f \in [id : Uid, name : Name]} :
               app' = set_search_result(app, result)
  BY <1>1, <1>6, SameMethods DEF Red!Next, Red!SetSearchResult
<1>7. CASE \E uid \in Uid, text \in Text : app' = receive_push(app, uid, text)
  BY <1>1, <1>7, SameMethods DEF Red!Next, Red!ReceivePush
<1>8. CASE \E friend \in Name : app' = open_conversation(app, friend)
  BY <1>1, <1>8, SameMethods DEF Red!Next, Red!OpenConversation
<1>9. CASE \E friend \in Name, text \in Text : app' = sent_message(app, friend, text)
  BY <1>1, <1>9, SameMethods DEF Red!Next, Red!SentMessage
<1>. QED
  BY <1>2, <1>3, <1>4, <1>5, <1>6, <1>7, <1>8, <1>9 DEF AppCall

(* The two threads use AppState by the methods of the reducer alone, each  *)
(* with arguments the reducer is modelled with.                            *)
THEOREM SessionUsesTheReducer == Spec => UsesTheReducer
<1>1. SInv /\ SendsTexts /\ [Next]_vars => [Red!Next]_app
  BY NextSInv, AppCallIsReducerStep DEF SInv
<1>. QED
  BY <1>1, SpecSInv, PTL DEF Spec, UsesTheReducer

-----------------------------------------------------------------------------
(* Uids.  An apply names its user, and a text may come from anybody.  What *)
(* is inductive with UidsAreTheirs is that the friends of the login keep   *)
(* their places and that the entries still to be learned are among them:   *)
(* while there is one, no other entry is misled.                           *)

UnknownOfLogin ==
    \A i \in DOMAIN app.friends : app.friends[i].id = NoUid =>
        i \in DOMAIN LoginFriends /\ LoginFriends[i].id = NoUid

FriendsInPlace ==
    \A j \in DOMAIN LoginFriends :
        j \in DOMAIN app.friends /\ app.friends[j].name = LoginFriends[j].name

AppliesTrue == \A a \in app.applies : a.from_uid # NoUid => a.name = UserName[a.from_uid]

PushesTrue ==
    \A n \in DOMAIN pushes : \A a \in NotifyAddFriend(pushes[n]) : a.name = UserName[a.applyuid]

ClosuresTrue == \A i \in DOMAIN uiq : uiq[i].op = "apply" => uiq[i].name = UserName[uiq[i].uid]

AppTrue == UidsAreTheirs /\ UnknownOfLogin /\ FriendsInPlace /\ AppliesTrue

UidInv == AppTrue /\ PushesTrue /\ ClosuresTrue

(* The friends and applies stay as they are.                               *)
LEMMA SameFriends ==
    ASSUME AppTrue, app'.friends = app.friends, app'.applies \subseteq app.applies,
           \A u : HasWritten(u) => HasWritten(u)'
    PROVE  AppTrue'
BY DEF AppTrue, UidsAreTheirs, Misled, UnknownOfLogin, FriendsInPlace, AppliesTrue, NotOfLogin

(* Who has written is told by the pushes.                                  *)
LEMMA WrittenStays ==
    ASSUME pushes' = pushes
    PROVE  \A u : HasWritten(u) => HasWritten(u)'
BY DEF HasWritten

(* The sender of a text is learned.                                        *)
LEMMA LearnTrue ==
    ASSUME app \in State, AppTrue, NEW uid \in Uid, HasWritten(uid), NEW text \in Text,
           app' = receive_push(app, uid, text), pushes' = pushes
    PROVE  AppTrue'
<1> DEFINE l == learn_uid(app, uid)
<1>1. app'.friends = l.friends /\ app'.applies = app.applies
  BY ReceivePushType
<1>2. CASE l = app
  BY <1>1, <1>2, WrittenStays, SameFriends
<1>3. ASSUME NEW k \in DOMAIN app.friends,
             app.friends[k].id = NoUid,
             ~ is_friend(app, uid),
             l = [app EXCEPT !.friends = [app.friends EXCEPT ![k] = [@ EXCEPT !.id = uid]]],
             \A i \in DOMAIN app.friends : app.friends[i].id = NoUid => i = k
      PROVE  AppTrue'
  <2> DEFINE fs == app.friends
             gs == app'.friends
  <2>1. fs \in Seq(Friend) /\ fs[k] \in Friend
    BY DEF State
  <2>2. gs = [fs EXCEPT ![k] = [@ EXCEPT !.id = uid]]
    BY <1>1, <1>3 DEF State
  <2>3. /\ DOMAIN gs = DOMAIN fs /\ \A i \in DOMAIN fs : i # k => gs[i] = fs[i]
        /\ gs[k].id = uid /\ gs[k].name = fs[k].name
    BY <2>1, <2>2 DEF Friend
  <2>4. UnknownOfLogin' /\ FriendsInPlace' /\ AppliesTrue'
    BY <1>1, <2>3, NoUidAssumption DEF AppTrue, UnknownOfLogin, FriendsInPlace, AppliesTrue
  <2>5. Misled = {}
    BY <1>3 DEF AppTrue, UidsAreTheirs, Misled
  <2>6. fs[k].name = UserName[uid] \/ NotOfLogin(uid)
    <3> SUFFICES ASSUME NEW j \in DOMAIN LoginFriends, LoginFriends[j].name = UserName[uid],
                        fs[k].name # UserName[uid]
                 PROVE  FALSE
      BY DEF NotOfLogin
    <3>1. j \in DOMAIN fs /\ fs[j].name = UserName[uid]
      BY DEF AppTrue, FriendsInPlace
    <3>2. fs[j].id # NoUid /\ fs[j].id # uid
      BY <1>3, <3>1 DEF is_friend
    <3>3. fs[j].id \in Uid
      <4>1. fs[j] \in Friend
        BY <2>1, <3>1
      <4>. QED
        BY <3>2, <4>1 DEF Friend, AnyUid
    <3>4. fs[j].name = UserName[fs[j].id]
      BY <2>5, <3>1, <3>2 DEF Misled
    <3>. QED
      BY <3>1, <3>3, <3>2, <3>4, NamesAssumption
  <2>7. \A i \in DOMAIN gs : i # k => gs[i].id # NoUid /\ gs[i].name = UserName[gs[i].id]
    BY <1>3, <2>3, <2>5 DEF Misled
  <2>8. Misled' \subseteq {k} /\ (k \in Misled' => NotOfLogin(uid))
    BY <2>3, <2>6, <2>7 DEF Misled
  <2>9. k \in DOMAIN LoginFriends /\ LoginFriends[k].id = NoUid
    BY <1>3 DEF AppTrue, UnknownOfLogin
  <2>10. HasWritten(uid)'
    BY WrittenStays
  <2>11. \A j \in DOMAIN gs \ {k} : j \notin Misled' /\ gs[j].id # NoUid
    BY <2>7, <2>8
  <2>12. NotOfLogin(uid) => NotOfLogin(uid)'
    BY DEF NotOfLogin
  <2>13. UidsAreTheirs'
    BY <2>3, <2>8, <2>9, <2>10, <2>11, <2>12 DEF UidsAreTheirs
  <2>. QED
    BY <2>4, <2>13 DEF AppTrue
<1>4. CASE l # app
  <2>1. PICK k \in DOMAIN app.friends :
            /\ app.friends[k].id = NoUid
            /\ ~ is_friend(app, uid)
            /\ l = [app EXCEPT !.friends = [app.friends EXCEPT ![k] = [@ EXCEPT !.id = uid]]]
    BY <1>4, LearnUid
  <2>2. \A i \in DOMAIN app.friends : app.friends[i].id = NoUid => i = k
    BY <1>4, <2>1 DEF learn_uid
  <2>. QED
    BY <1>3, <2>1, <2>2
<1>. QED
  BY <1>2, <1>4

(* A granted apply becomes a friend of its name.                           *)
LEMMA ApproveTrue ==
    ASSUME app \in State, AppTrue, NEW uid \in Uid, app' = approve_apply(app, uid), pushes' = pushes
    PROVE  AppTrue'
<1>1. CASE app'.friends = app.friends
  BY <1>1, ApproveApplyAdds, WrittenStays, SameFriends
<1>2. ASSUME NEW a \in app.applies, a.from_uid = uid,
             app'.friends = Append(app.friends, [id |-> uid, name |-> a.name])
      PROVE  AppTrue'
  <2> DEFINE fs == app.friends
             gs == app'.friends
  <2>1. a.name = UserName[uid] /\ uid # NoUid
    BY <1>2, NoUidAssumption DEF AppTrue, AppliesTrue
  <2>2. fs \in Seq(Friend)
    BY DEF State
  <2>3. /\ \A i \in DOMAIN gs : (i \in DOMAIN fs /\ gs[i] = fs[i])
                               \/ gs[i] = [id |-> uid, name |-> a.name]
        /\ \A i \in DOMAIN fs : i \in DOMAIN gs /\ gs[i] = fs[i]
    BY <1>2, <2>2
  <2>4. UnknownOfLogin'
    BY <2>1, <2>3 DEF AppTrue, UnknownOfLogin
  <2>5. UidsAreTheirs'
    <3>1. \A i \in DOMAIN gs : i \in Misled' => i \in Misled /\ gs[i] = fs[i]
      BY <2>1, <2>3 DEF Misled
    <3>2. \A i \in DOMAIN gs : i \in DOMAIN fs \/ gs[i].id # NoUid
      BY <2>1, <2>3
    <3>3. \A u : (HasWritten(u) => HasWritten(u)') /\ (NotOfLogin(u) => NotOfLogin(u)')
      BY WrittenStays DEF NotOfLogin
    <3>4. Misled' \subseteq DOMAIN gs
      BY DEF Misled
    <3> SUFFICES ASSUME NEW i \in Misled'
                 PROVE  /\ i \in DOMAIN LoginFriends /\ LoginFriends[i].id = NoUid
                        /\ HasWritten(app.friends[i].id)' /\ NotOfLogin(app.friends[i].id)'
                        /\ \A j \in DOMAIN gs \ {i} : j \notin Misled' /\ gs[j].id # NoUid
      BY DEF UidsAreTheirs
    <3>5. i \in Misled /\ gs[i] = fs[i]
      BY <3>1, <3>4
    <3>6. /\ i \in DOMAIN LoginFriends /\ LoginFriends[i].id = NoUid
          /\ HasWritten(fs[i].id) /\ NotOfLogin(fs[i].id)
          /\ \A j \in DOMAIN fs \ {i} : j \notin Misled /\ fs[j].id # NoUid
      BY <3>5 DEF AppTrue, UidsAreTheirs
    <3>7. ASSUME NEW j \in DOMAIN gs \ {i}
          PROVE  j \notin Misled' /\ gs[j].id # NoUid
      BY <2>3, <3>1, <3>2, <3>6 DEF Misled
    <3>. QED
      BY <3>3, <3>5, <3>6, <3>7
  <2>6. FriendsInPlace'
    BY <2>3 DEF AppTrue, FriendsInPlace
  <2>7. AppliesTrue'
    BY ApproveApplyAdds DEF AppTrue, AppliesTrue
  <2>. QED
    BY <2>4, <2>5, <2>6, <2>7 DEF AppTrue
<1>3. \/ app'.friends = app.friends
      \/ \E a \in app.applies :
            a.from_uid = uid /\ app'.friends = Append(app.friends, [id |-> uid, name |-> a.name])
  BY ApproveApplyAdds
<1>. QED
  BY <1>1, <1>2, <1>3

(* An apply received names its user.                                       *)
LEMMA ApplyTrue ==
    ASSUME app \in State, AppTrue, NEW uid \in Uid, NEW name, name = UserName[uid],
           app' = apply_received(app, uid, name), pushes' = pushes
    PROVE  AppTrue'
<1>1. /\ app'.friends = app.friends
      /\ \A a \in app'.applies :
            a \in app.applies \/ a = [from_uid |-> uid, name |-> name, status |-> 0]
  BY DEF apply_received, State
<1>2. UidsAreTheirs' /\ UnknownOfLogin' /\ FriendsInPlace'
  BY <1>1, WrittenStays DEF AppTrue, UidsAreTheirs, Misled, UnknownOfLogin, FriendsInPlace, NotOfLogin
<1>3. AppliesTrue'
  <2> SUFFICES ASSUME NEW a \in app'.applies, a.from_uid # NoUid
               PROVE  a.name = UserName[a.from_uid]
    BY DEF AppliesTrue
  <2>1. CASE a \in app.applies
    BY <2>1 DEF AppTrue, AppliesTrue
  <2>2. CASE a = [from_uid |-> uid, name |-> name, status |-> 0]
    BY <2>2
  <2>. QED
    BY <1>1, <2>1, <2>2
<1>. QED
  BY <1>2, <1>3 DEF AppTrue

(* What is dispatched comes from a push.                                   *)
LEMMA DispatchTrue ==
    ASSUME SInv, UidInv, NEW frame \in SentFrame, Dispatch(frame), pushes' = pushes
    PROVE  AppTrue' /\ ClosuresTrue'
<1>1. app \in State /\ uiq \in Seq(Closure)
  BY DEF SInv, AppOK, UiOK
<1>2. CASE UNCHANGED <<app, uiq>>
  BY <1>2, WrittenStays, SameFriends DEF UidInv, ClosuresTrue
<1>3. CASE frame.id \in PushId
  <2> DEFINE body == Body(frame)
  <2>1. frame.tag \in DOMAIN pushes /\ body = pushes[frame.tag] /\ body \in PushBody
    <3>1. frame.tag \in 1 .. npush
      BY <1>3 DEF SentFrame
    <3>. QED
      BY <3>1 DEF Body, SInv, BodiesOK
  <2>2. /\ \A t \in IncomingText(body) : HasWritten(t.fromuid)
        /\ \A a \in NotifyAddFriend(body) : a.name = UserName[a.applyuid]
    BY <2>1 DEF UidInv, PushesTrue, HasWritten
  <2> HIDE DEF body
  <2>3. ASSUME NEW t \in IncomingText(body), app' = receive_push(app, t.fromuid, t.text),
               Queue([op |-> "refresh"])
        PROVE  AppTrue' /\ ClosuresTrue'
    <3>1. t.fromuid \in Uid /\ t.text \in Text
      BY <2>1, PushTyped, TextsAssumption
    <3>2. AppTrue'
      BY <1>1, <2>2, <2>3, <3>1, LearnTrue DEF UidInv
    <3>3. [op |-> "refresh"] \in Closure
      BY DEF Closure
    <3>. QED
      BY <1>1, <2>3, <3>2, <3>3, Queued DEF Queue, UidInv, ClosuresTrue
  <2>4. ASSUME NEW a \in NotifyAddFriend(body), UNCHANGED app,
               Queue([op |-> "apply", uid |-> a.applyuid, name |-> a.name])
        PROVE  AppTrue' /\ ClosuresTrue'
    <3>1. AppTrue'
      BY <2>4, WrittenStays, SameFriends DEF UidInv
    <3>2. [op |-> "apply", uid |-> a.applyuid, name |-> a.name] \in Closure
      BY <2>1, PushTyped DEF Closure
    <3>. QED
      BY <1>1, <2>2, <2>4, <3>1, <3>2, Queued DEF Queue, UidInv, ClosuresTrue
  <2>. QED
    BY <1>2, <1>3, <2>3, <2>4 DEF Dispatch, DispatchText, DispatchApply, body
<1>. QED
  BY <1>2, <1>3 DEF Dispatch, PushId

(* The end of a command leaves friends and applies alone.                  *)
LEMMA ConcludeTrue ==
    ASSUME SInv, UidInv, NEW r, NEW reply, Conclude(r, reply), uiq' \in Seq(Closure),
           pushes' = pushes
    PROVE  AppTrue' /\ ClosuresTrue'
<1>1. app'.friends = app.friends /\ app'.applies = app.applies
  BY DEF Conclude, ConcludeSearch, ConcludeAdd, ConcludeApproval, set_search_result, SInv, AppOK, State
<1>2. uiq' = uiq \/ \E c : uiq' = Append(uiq, c) /\ c.op # "apply"
  <2>1. CASE ConcludeSearch(UNION {search(body) : body \in reply})
    <3>1. \A n, flag, st :
             [op |-> "search_done", name |-> n, is_friend |-> flag, status |-> st].op # "apply"
      OBVIOUS
    <3>. QED
      BY <2>1, <3>1, Zenon DEF ConcludeSearch, Queue
  <2>2. CASE ConcludeAdd(Granted(reply))
    BY <2>2 DEF ConcludeAdd, Queue
  <2>3. CASE ConcludeApproval(reqs[r.tag].fromuid, Granted(reply))
    BY <2>3 DEF ConcludeApproval, Queue
  <2>. QED
    BY <2>1, <2>2, <2>3 DEF Conclude
<1>3. uiq \in Seq(Closure)
  BY DEF SInv, UiOK
<1>. QED
  BY <1>1, <1>2, <1>3, WrittenStays, SameFriends DEF UidInv, ClosuresTrue

(* Every step keeps what is known of uids.                                 *)
LEMMA NextUidInv ==
    ASSUME SInv, UidInv, [Next]_vars, SInv'
    PROVE  UidInv'
<1>1. /\ app \in State /\ uiq \in Seq(Closure) /\ uiq' \in Seq(Closure)
      /\ awaiting \subseteq Command /\ cmds \in Seq(Command)
      /\ down \in Seq(SentFrame) /\ todo \in Seq(SentFrame)
      /\ pushes \in Seq(PushBody)
  BY DEF SInv, AppOK, UiOK, CommandsOK, FramesOK, BodiesOK
<1>2. ASSUME UNCHANGED pushes
      PROVE  PushesTrue'
  BY <1>2 DEF UidInv, PushesTrue
<1>3. ASSUME UNCHANGED <<uiq, pushes>>, app'.friends = app.friends, app'.applies \subseteq app.applies
      PROVE  UidInv'
  BY <1>2, <1>3, WrittenStays, SameFriends DEF UidInv, ClosuresTrue
<1>4. CASE UNCHANGED vars
  BY <1>3, <1>4 DEF vars, wireVars
<1>5. CASE RunClosure
  <2> DEFINE c == Head(uiq)
  <2>1. UNCHANGED pushes /\ uiq # <<>> /\ uiq' = Tail(uiq)
    BY <1>5 DEF RunClosure, wireVars
  <2>2. c \in Closure /\ c = uiq[1] /\ 1 \in DOMAIN uiq
    BY <1>1, <2>1, Dequeued
  <2>3. ClosuresTrue'
    <3>1. \A i \in DOMAIN uiq' : i + 1 \in DOMAIN uiq /\ uiq'[i] = uiq[i + 1]
      BY <1>1, <2>1, Dequeued
    <3>. QED
      BY <3>1 DEF UidInv, ClosuresTrue
  <2>4. AppTrue'
    <3>1. CASE UNCHANGED app \/ app' = login_failed(app)
      <4>1. app'.friends = app.friends /\ app'.applies = app.applies
        BY <1>1, <3>1, StatusOnly
      <4>. QED
        BY <2>1, <4>1, WrittenStays, SameFriends DEF UidInv
    <3>2. CASE c.op = "apply" /\ ShowApply(c)
      <4>1. c.uid \in Uid /\ c.name = UserName[c.uid]
        BY <2>2, <3>2 DEF Closure, UidInv, ClosuresTrue
      <4>2. app' = apply_received(app, c.uid, c.name)
        BY <3>2 DEF ShowApply
      <4>. QED
        BY <1>1, <2>1, <4>1, <4>2, ApplyTrue DEF UidInv
    <3>3. CASE c.op = "approved" /\ app' = approve_apply(app, c.uid)
      <4>1. c.uid \in Uid
        BY <2>2, <3>3 DEF Closure
      <4>. QED
        BY <1>1, <2>1, <3>3, <4>1, ApproveTrue DEF UidInv
    <3>. QED
      BY <1>5, <3>1, <3>2, <3>3 DEF RunClosure, ShowMainWindow, ShowDisconnected, ShowState,
         ShowSearchResult, ShowAddResult, ShowApproval
  <2>. QED
    BY <1>2, <2>1, <2>3, <2>4 DEF UidInv
<1>6. CASE FileText
  <2>1. UNCHANGED <<uiq, pushes>> /\ \E s \in sending : app' = sent_message(app, s.friend, s.text)
    BY <1>6 DEF FileText
  <2>2. app'.friends = app.friends /\ app'.applies = app.applies
    BY <1>1, <2>1 DEF sent_message, push_to_conversation, State
  <2>. QED
    BY <1>3, <2>1, <2>2
<1>7. CASE UserStep
  <2>1. UNCHANGED <<uiq, pushes>>
    BY <1>7 DEF UserStep, SelectFriend, SendText, OpenAddDialog, CloseAddDialog, AddFriend,
       AddSearchUser, ApproveApply, RejectApply, wireVars
  <2>2. \/ UNCHANGED app \/ \E friend \in Name : app' = open_conversation(app, friend)
        \/ \E name \in Name : app' = reject_apply(app, name)
    BY <1>7 DEF UserStep, SelectFriend, SendText, OpenAddDialog, CloseAddDialog, AddFriend,
       AddSearchUser, ApproveApply, RejectApply
  <2>3. app'.friends = app.friends /\ app'.applies \subseteq app.applies
    BY <1>1, <2>2 DEF open_conversation, reject_apply, State
  <2>. QED
    BY <1>3, <2>1, <2>3
<1>8. CASE NetStep
  <2>1. UNCHANGED pushes
    BY <1>8 DEF NetStep, RecvPush, DispatchDrained, ConnectionLost, SendRequest,
       CollectFrame, SendFails, AcceptResponse, RequestTimeout, RequestRecvError, Conclude, wireVars
  <2>2. AppTrue' /\ ClosuresTrue'
    <3>1. CASE RecvPush
      <4>1. Head(down) \in SentFrame /\ Dispatch(Head(down))
        BY <1>1, <3>1 DEF RecvPush, Net!RecvPush
      <4>. QED
        BY <2>1, <4>1, DispatchTrue
    <3>2. CASE DispatchDrained
      <4>1. Head(todo) \in SentFrame /\ Dispatch(Head(todo))
        BY <1>1, <3>2 DEF DispatchDrained, Net!DispatchDrained
      <4>. QED
        BY <2>1, <4>1, DispatchTrue
    <3>3. CASE ConnectionLost
      <4>1. UNCHANGED app /\ uiq' = Append(uiq, [op |-> "disconnected"])
        BY <3>3 DEF ConnectionLost, Queue
      <4>. QED
        BY <1>1, <2>1, <4>1, WrittenStays, SameFriends DEF UidInv, ClosuresTrue
    <3>4. CASE SendRequest \/ CollectFrame
      BY <2>1, <3>4, WrittenStays, SameFriends DEF SendRequest, CollectFrame, UidInv, ClosuresTrue
    <3>5. CASE SendFails \/ AcceptResponse \/ RequestTimeout \/ RequestRecvError
      <4>1. \E r, reply : Conclude(r, reply)
        BY <3>5 DEF SendFails, AcceptResponse, RequestTimeout, RequestRecvError
      <4>. QED
        BY <1>1, <2>1, <4>1, ConcludeTrue
    <3>. QED
      BY <1>8, <3>1, <3>2, <3>3, <3>4, <3>5 DEF NetStep
  <2>. QED
    BY <1>2, <2>1, <2>2 DEF UidInv
<1>9. CASE ServerStep
  <2>1. UNCHANGED <<app, uiq>>
    BY <1>9 DEF ServerStep, Answer, AnswerInvalid, PushText, PushApply, PushApproved, PushAs,
       Close, wireVars
  <2>2. \/ UNCHANGED pushes
        \/ \E body : /\ pushes' = Append(pushes, body)
                     /\ \A a \in NotifyAddFriend(body) : a.name = UserName[a.applyuid]
    <3>1. ASSUME NEW uid \in Uid, PushText(uid)
          PROVE  pushes' = Append(pushes, TextChatRequest(uid, Me, npush'))
                 /\ NotifyAddFriend(TextChatRequest(uid, Me, npush')) = {}
      BY <3>1 DEF PushText, PushAs, TextChatRequest, NotifyAddFriend, Has
    <3>2. ASSUME NEW uid \in Uid, PushApply(uid)
          PROVE  /\ pushes' = Append(pushes, [applyuid |-> uid, name |-> UserName[uid]])
                 /\ \A a \in NotifyAddFriend([applyuid |-> uid, name |-> UserName[uid]]) :
                       a.name = UserName[a.applyuid]
      BY <3>2 DEF PushApply, PushAs, NotifyAddFriend, Has
    <3>3. ASSUME NEW uid \in Uid, PushApproved(uid)
          PROVE  pushes' = Append(pushes, AuthFriendRequest(uid, Me))
                 /\ NotifyAddFriend(AuthFriendRequest(uid, Me)) = {}
      BY <3>3 DEF PushApproved, PushAs, AuthFriendRequest, NotifyAddFriend, Has
    <3>4. CASE \E uid \in Uid : PushText(uid) \/ PushApply(uid) \/ PushApproved(uid)
      BY <3>1, <3>2, <3>3, <3>4
    <3>. QED
      BY <1>9, <3>4 DEF ServerStep, Answer, AnswerInvalid, Close, wireVars
  <2>3. CASE UNCHANGED pushes
    BY <1>3, <2>1, <2>3
  <2>4. ASSUME NEW body, pushes' = Append(pushes, body),
               \A a \in NotifyAddFriend(body) : a.name = UserName[a.applyuid]
        PROVE  UidInv'
    <3>1. /\ \A n \in DOMAIN pushes' :
                 pushes'[n] = body \/ (n \in DOMAIN pushes /\ pushes'[n] = pushes[n])
          /\ \A n \in DOMAIN pushes : n \in DOMAIN pushes' /\ pushes'[n] = pushes[n]
      BY <1>1, <2>4
    <3>2. \A u : HasWritten(u) => HasWritten(u)'
      BY <3>1 DEF HasWritten
    <3>3. PushesTrue'
      BY <2>4, <3>1 DEF UidInv, PushesTrue
    <3>. QED
      BY <2>1, <3>2, <3>3, SameFriends DEF UidInv, ClosuresTrue
  <2>. QED
    BY <2>2, <2>3, <2>4
<1>. QED
  BY <1>4, <1>5, <1>6, <1>7, <1>8, <1>9 DEF Next, UIStep

(* At the beginning nothing has been learned.                              *)
LEMMA InitUidInv == Init => UidInv
<1> SUFFICES ASSUME Init PROVE UidInv
  OBVIOUS
<1> DEFINE l == login_succeeded(begin_login(New), Me, LoginFriends)
<1>1. l.friends = LoginFriends /\ l.applies = {}
  BY DEF login_succeeded, begin_login, New
<1>2. app = seed_applies(l, LoginApplies)
  BY DEF Init, LoggedInState
<1>3. l \in [DOMAIN l -> UNION {{l[x]} : x \in DOMAIN l}] /\ {"friends", "applies"} \subseteq DOMAIN l
  BY DEF login_succeeded, begin_login, New
<1> HIDE DEF l
<1>4. \E fresh \in SUBSET {LoginApplies[i] : i \in DOMAIN LoginApplies} :
          app = [l EXCEPT !.applies = @ \cup fresh]
  BY <1>2 DEF seed_applies
<1>5. app.friends = LoginFriends /\ app.applies \subseteq {LoginApplies[i] : i \in DOMAIN LoginApplies}
  BY <1>1, <1>3, <1>4
<1>6. Misled = {} /\ UnknownOfLogin /\ FriendsInPlace /\ AppliesTrue
  BY <1>5, ListsAssumption DEF Misled, UnknownOfLogin, FriendsInPlace, AppliesTrue
<1>7. pushes = <<>> /\ uiq = <<[op |-> "logged_in"]>>
  BY DEF Init
<1>. QED
  BY <1>6, <1>7 DEF UidInv, AppTrue, UidsAreTheirs, PushesTrue, ClosuresTrue

(* For any users, lists and orders of texts, applies, approvals and        *)
(* searches, whoever writes: the uids in the friend list are those of the  *)
(* users its entries name, but for at most one.  That entry came without a *)
(* uid, its uid is of somebody who wrote and whom no friend of the login   *)
(* is, and once it is misled nothing is left to be learned.                *)
THEOREM SessionUidsAreTheirs == Spec => []UidsAreTheirs
<1>1. SInv /\ SendsTexts /\ UidInv /\ [Next]_vars => UidInv'
  BY NextSInv, NextUidInv
<1>2. UidInv => UidsAreTheirs
  BY DEF UidInv, AppTrue
<1>. QED
  BY <1>1, <1>2, InitUidInv, SpecSInv, PTL DEF Spec

-----------------------------------------------------------------------------
(* The window.  What is inductive with WindowCatchesUp is that until the   *)
(* main window is shown its closure is the first in the queue, and the     *)
(* friends are those of the login.                                         *)

Names(s) == [i \in DOMAIN s.friends |-> s.friends[i].name]

BeforeMainWindow ==
    /\ \A i \in DOMAIN uiq : uiq[i].op = "logged_in" => i = 1 /\ ~ ui.logged_in
    /\ ~ ui.logged_in =>
          uiq # <<>> /\ uiq[1].op = "logged_in" /\ Names(app) = Names(LoggedInState)

RowsShape == DOMAIN ui.rows = {"friend_names", "conv_rows", "apply_rows", "chat_rows"}

WindowInv == WindowCatchesUp /\ BeforeMainWindow /\ RowsShape

\* The rows are those of app.
Shown ==
    /\ ui.rows.conv_rows = Current.conv_rows
    /\ ui.rows.chat_rows = Current.chat_rows
    /\ ui.rows.apply_rows = Current.apply_rows
    /\ ui.rows.friend_names = Current.friend_names

(* A rendering shows the state.                                            *)
LEMMA RenderedShows ==
    ASSUME NEW u, DOMAIN u = UiField, NEW x, NEW v,
           ui' = [Rendered(u, app') EXCEPT !.login_status = x]
           \/ ui' = [Rendered(u, app') EXCEPT !.apply_status = x]
           \/ ui' = Rendered(u, app')
    PROVE  Shown' /\ RowsShape' /\ ui'.logged_in = u.logged_in
<1>1. /\ ui'.rows = View(app', u.selected_friend)
      /\ ui'.selected_friend = u.selected_friend
      /\ ui'.logged_in = u.logged_in
  BY DEF Rendered, UiField
<1>. QED
  BY <1>1 DEF Shown, RowsShape, Current, View

(* A step that shows nothing and changes nothing that is shown.            *)
LEMMA SameView ==
    ASSUME WindowCatchesUp, RowsShape,
           ui'.rows = ui.rows, ui'.selected_friend = ui.selected_friend, ui'.logged_in = ui.logged_in,
           app'.conversations = app.conversations, app'.started = app.started,
           app'.unread = app.unread, app'.friends = app.friends, app'.applies = app.applies,
           \A i \in DOMAIN uiq : Refreshing(uiq[i]) => \E j \in DOMAIN uiq' : uiq'[j] = uiq[i]
    PROVE  WindowCatchesUp' /\ RowsShape'
<1>1. /\ Current'.conv_rows = Current.conv_rows /\ Current'.chat_rows = Current.chat_rows
      /\ Current'.friend_names = Current.friend_names /\ Current'.apply_rows = Current.apply_rows
      /\ LoggedInState' = LoggedInState
  BY DEF Current, View, ConvRow, LoggedInState
<1>2. RowsShape'
  BY DEF RowsShape
<1>3. CASE \E i \in DOMAIN uiq : Refreshing(uiq[i])
  <2>1. \E j \in DOMAIN uiq' : Refreshing(uiq'[j])
    BY <1>3
  <2>. QED
    BY <1>2, <2>1 DEF WindowCatchesUp, Refreshing
<1>4. CASE ~ \E i \in DOMAIN uiq : Refreshing(uiq[i])
  BY <1>1, <1>2, <1>4 DEF WindowCatchesUp
<1>. QED
  BY <1>3, <1>4

\* Another closure is queued, or none.
LEMMA QueuedStays ==
    ASSUME NEW q \in Seq(Closure), NEW r, r = q \/ \E c : r = Append(q, c)
    PROVE  /\ \A i \in DOMAIN q : i \in DOMAIN r /\ r[i] = q[i]
           /\ q # <<>> => r # <<>> /\ r[1] = q[1]
           /\ \A i \in DOMAIN r : i \in DOMAIN q \/ r = Append(q, r[i])
OBVIOUS

(* Before the main window is shown.                                        *)
LEMMA BeforeMainStays ==
    ASSUME BeforeMainWindow, uiq \in Seq(Closure), ui'.logged_in = ui.logged_in,
           Names(app') = Names(app),
           uiq' = uiq \/ \E c : uiq' = Append(uiq, c) /\ c.op # "logged_in"
    PROVE  BeforeMainWindow'
<1>1. Names(LoggedInState)' = Names(LoggedInState)
  BY DEF Names, LoggedInState
<1>2. \A i \in DOMAIN uiq' : uiq'[i].op = "logged_in" => i \in DOMAIN uiq /\ uiq'[i] = uiq[i]
  BY QueuedStays
<1>3. uiq # <<>> => uiq' # <<>> /\ uiq'[1] = uiq[1]
  BY QueuedStays
<1>. QED
  BY <1>1, <1>2, <1>3 DEF BeforeMainWindow

(* After it.                                                               *)
LEMMA AfterMainStays ==
    ASSUME BeforeMainWindow, uiq \in Seq(Closure), uiq # <<>>, uiq' = Tail(uiq), ui'.logged_in
    PROVE  BeforeMainWindow'
<1>1. \A i \in DOMAIN uiq' : i + 1 \in DOMAIN uiq /\ uiq'[i] = uiq[i + 1] /\ i + 1 # 1
  BY Dequeued
<1>. QED
  BY <1>1 DEF BeforeMainWindow

(* Learning renames nobody.                                                *)
LEMMA PushNames ==
    ASSUME NEW s \in State, NEW uid \in Uid, NEW text \in Text, NEW t, t = receive_push(s, uid, text)
    PROVE  Names(t) = Names(s)
<1>1. t.friends = learn_uid(s, uid).friends
  BY ReceivePushType
<1>2. /\ DOMAIN t.friends = DOMAIN s.friends
      /\ \A i \in DOMAIN s.friends : t.friends[i].name = s.friends[i].name
  BY <1>1, LearnUidType
<1>. QED
  BY <1>2 DEF Names

\* What the last command of a queue is, if it renders the state.
LEMMA RefreshQueued ==
    ASSUME NEW c, Refreshing(c), uiq \in Seq(Closure), Queue(c)
    PROVE  WindowCatchesUp'
<1>1. Len(uiq) + 1 \in DOMAIN uiq' /\ uiq'[Len(uiq) + 1] = c
  BY DEF Queue
<1>. QED
  BY <1>1 DEF WindowCatchesUp, Refreshing

(* A closure keeps the window at the state, or more closures are to come.  *)
LEMMA RunClosureCatchesUp ==
    ASSUME SInv, WindowInv, RunClosure
    PROVE  WindowInv'
<1> DEFINE c == Head(uiq)
<1>1. /\ app \in State /\ DOMAIN ui = UiField /\ uiq \in Seq(Closure)
      /\ uiq # <<>> /\ uiq' = Tail(uiq)
  BY DEF SInv, AppOK, UiOK, RunClosure
<1>2. c = uiq[1] /\ 1 \in DOMAIN uiq
  BY <1>1, Dequeued
<1>3. c.op # "logged_in" => ui.logged_in
  BY <1>2 DEF WindowInv, BeforeMainWindow
<1>4. ~ Refreshing(c) =>
         \A i \in DOMAIN uiq : Refreshing(uiq[i]) => \E j \in DOMAIN uiq' : uiq'[j] = uiq[i]
  <2> SUFFICES ASSUME ~ Refreshing(c), NEW i \in DOMAIN uiq, Refreshing(uiq[i])
               PROVE  \E j \in DOMAIN uiq' : uiq'[j] = uiq[i]
    OBVIOUS
  <2>1. i # 1
    BY <1>2
  <2>2. i - 1 \in DOMAIN uiq' /\ uiq'[i - 1] = uiq[i]
    BY <1>1, <2>1
  <2>. QED
    BY <2>2
<1>5. CASE c.op = "logged_in" /\ ShowMainWindow
  <2>1. ~ ui.logged_in /\ Names(app) = Names(LoggedInState)
    BY <1>2, <1>5 DEF WindowInv, BeforeMainWindow
  <2>2. /\ UNCHANGED app /\ ui'.logged_in /\ ui'.selected_friend = ui.selected_friend
        /\ ui'.rows = [ui.rows EXCEPT !.friend_names = View(LoggedInState, NoFriend).friend_names]
    BY <1>1, <1>5 DEF ShowMainWindow, UiField
  <2>3. /\ ui'.rows.friend_names = Names(app')
        /\ ui'.rows.conv_rows = ui.rows.conv_rows /\ ui'.rows.chat_rows = ui.rows.chat_rows
        /\ ui'.rows.apply_rows = ui.rows.apply_rows /\ RowsShape'
    BY <2>1, <2>2 DEF WindowInv, RowsShape, View, Names
  <2>4. ~ Refreshing(c)
    BY <1>5 DEF Refreshing
  <2>5. /\ Current'.conv_rows = Current.conv_rows /\ Current'.chat_rows = Current.chat_rows
        /\ Current'.friend_names = Names(app') /\ Current'.apply_rows = Current.apply_rows
        /\ app'.applies = app.applies /\ LoggedInState' = LoggedInState
    BY <2>2 DEF Current, View, ConvRow, Names, LoggedInState
  <2>6. WindowCatchesUp'
    <3>1. CASE \E i \in DOMAIN uiq : Refreshing(uiq[i])
      BY <1>4, <2>4, <3>1 DEF WindowCatchesUp, Refreshing
    <3>2. CASE ~ \E i \in DOMAIN uiq : Refreshing(uiq[i])
      BY <2>3, <2>5, <3>2 DEF WindowInv, WindowCatchesUp
    <3>. QED
      BY <3>1, <3>2
  <2>. QED
    BY <1>1, <2>2, <2>3, <2>6, AfterMainStays DEF WindowInv
<1>6. ASSUME ui.logged_in,
             \/ ui' = [Rendered(ui, app') EXCEPT !.apply_status = "approved"]
             \/ ui' = Rendered(ui, app')
      PROVE  WindowInv'
  <2>1. Shown' /\ RowsShape' /\ ui'.logged_in
    BY <1>1, <1>6, RenderedShows
  <2>. QED
    BY <1>1, <2>1, AfterMainStays DEF WindowInv, Shown, WindowCatchesUp
<1>7. ASSUME ui.logged_in, ~ Refreshing(c),
             ui'.rows = ui.rows, ui'.selected_friend = ui.selected_friend,
             ui'.logged_in = ui.logged_in, UNCHANGED app \/ app' = login_failed(app)
      PROVE  WindowInv'
  <2>1. /\ app'.conversations = app.conversations /\ app'.started = app.started
        /\ app'.unread = app.unread /\ app'.friends = app.friends /\ app'.applies = app.applies
    BY <1>1, <1>7 DEF login_failed, State
  <2>2. WindowCatchesUp' /\ RowsShape'
    BY <1>4, <1>7, <2>1, SameView DEF WindowInv
  <2>. QED
    BY <1>1, <1>7, <2>2, AfterMainStays DEF WindowInv
<1>8. CASE c.op = "disconnected" /\ ShowDisconnected
  <2>1. ui'.rows = ui.rows /\ ui'.selected_friend = ui.selected_friend /\ ui'.logged_in = ui.logged_in
    BY <1>1, <1>8 DEF ShowDisconnected, UiField
  <2>. QED
    BY <1>3, <1>7, <1>8, <2>1 DEF ShowDisconnected, Refreshing
<1>9. CASE (c.op = "refresh" /\ ShowState) \/ (c.op = "apply" /\ ShowApply(c))
  BY <1>3, <1>6, <1>9 DEF ShowState, ShowApply
<1>10. CASE (c.op = "search_done" /\ ShowSearchResult(c)) \/ (c.op = "add_done" /\ ShowAddResult(c))
  <2>1. /\ ui'.rows = ui.rows /\ ui'.selected_friend = ui.selected_friend
        /\ ui'.logged_in = ui.logged_in /\ UNCHANGED app
    BY <1>1, <1>10 DEF ShowSearchResult, ShowAddResult, UiField
  <2>2. ~ Refreshing(c) /\ c.op # "logged_in"
    BY <1>10 DEF Refreshing
  <2>. QED
    BY <1>3, <1>7, <2>1, <2>2
<1>11. CASE c.op = "approved" /\ ShowApproval(c)
  <2>1. CASE c.ok
    BY <1>3, <1>6, <1>11, <2>1 DEF ShowApproval
  <2>2. CASE ~ c.ok
    <3>1. /\ ui'.rows = ui.rows /\ ui'.selected_friend = ui.selected_friend
          /\ ui'.logged_in = ui.logged_in /\ UNCHANGED app
      BY <1>1, <1>11, <2>2 DEF ShowApproval, UiField
    <3>2. ~ Refreshing(c) /\ c.op # "logged_in"
      BY <1>11, <2>2 DEF Refreshing
    <3>. QED
      BY <1>3, <1>7, <3>1, <3>2
  <2>. QED
    BY <2>1, <2>2
<1>12. \/ c.op = "logged_in" /\ ShowMainWindow
       \/ c.op = "disconnected" /\ ShowDisconnected
       \/ c.op = "refresh" /\ ShowState
       \/ c.op = "apply" /\ ShowApply(c)
       \/ c.op = "search_done" /\ ShowSearchResult(c)
       \/ c.op = "add_done" /\ ShowAddResult(c)
       \/ c.op = "approved" /\ ShowApproval(c)
  BY DEF RunClosure
<1>. QED
  BY <1>5, <1>8, <1>9, <1>10, <1>11, <1>12, Zenon

(* A callback that renders the state it leaves.                            *)
LEMMA RenderingCatchesUp ==
    ASSUME SInv, WindowInv, NEW u, DOMAIN u = UiField, u.logged_in = ui.logged_in, NEW x,
           ui' = [Rendered(u, app') EXCEPT !.login_status = x] \/ ui' = Rendered(u, app'),
           UNCHANGED uiq, app'.friends = app.friends
    PROVE  WindowInv'
<1>1. Shown' /\ RowsShape' /\ ui'.logged_in = ui.logged_in
  BY RenderedShows
<1>2. uiq \in Seq(Closure) /\ Names(app') = Names(app)
  BY DEF SInv, UiOK, Names
<1>3. BeforeMainWindow'
  BY <1>1, <1>2, BeforeMainStays DEF WindowInv
<1>. QED
  BY <1>1, <1>3 DEF WindowInv, Shown, WindowCatchesUp

(* A step that renders nothing and changes nothing that is shown, but may  *)
(* queue a closure that renders nothing either.                            *)
LEMMA QuietCatchesUp ==
    ASSUME SInv, WindowInv,
           ui'.rows = ui.rows, ui'.selected_friend = ui.selected_friend, ui'.logged_in = ui.logged_in,
           app'.conversations = app.conversations, app'.started = app.started,
           app'.unread = app.unread, app'.friends = app.friends, app'.applies = app.applies,
           uiq' = uiq \/ \E c : uiq' = Append(uiq, c) /\ c.op # "logged_in"
    PROVE  WindowInv'
<1>1. uiq \in Seq(Closure) /\ Names(app') = Names(app)
  BY DEF SInv, UiOK, Names
<1>2. BeforeMainWindow'
  BY <1>1, BeforeMainStays DEF WindowInv
<1>3. \A i \in DOMAIN uiq : Refreshing(uiq[i]) => \E j \in DOMAIN uiq' : uiq'[j] = uiq[i]
  BY <1>1, QueuedStays
<1>. QED
  BY <1>2, <1>3, SameView DEF WindowInv

(* The user's steps render what they change.                               *)
LEMMA UserStepCatchesUp ==
    ASSUME SInv, WindowInv, UserStep
    PROVE  WindowInv'
<1>1. app \in State /\ DOMAIN ui = UiField
  BY DEF SInv, AppOK, UiOK
<1>2. CASE \E friend \in Name : SelectFriend(friend)
  <2>1. PICK friend \in Name : SelectFriend(friend)
    BY <1>2
  <2> DEFINE u == [ui EXCEPT !.selected_friend = friend]
  <2>2. DOMAIN u = UiField /\ u.logged_in = ui.logged_in
    BY <1>1 DEF UiField
  <2>3. ui' = Rendered(u, app') /\ UNCHANGED uiq /\ app'.friends = app.friends
    BY <1>1, <2>1 DEF SelectFriend, open_conversation, State
  <2> HIDE DEF u
  <2>. QED
    BY <2>2, <2>3, RenderingCatchesUp
<1>3. CASE \E name \in Name : RejectApply(name)
  <2>1. ui' = Rendered(ui, app') /\ UNCHANGED uiq /\ app'.friends = app.friends
    BY <1>1, <1>3 DEF RejectApply, reject_apply, State
  <2>. QED
    BY <1>1, <2>1, RenderingCatchesUp
<1>4. CASE \/ SendText \/ OpenAddDialog \/ CloseAddDialog \/ AddFriend
           \/ \E uid \in Uid : AddSearchUser(uid)
           \/ \E name \in Name : ApproveApply(name)
  <2>1. UNCHANGED <<app, uiq>>
    BY <1>4 DEF SendText, OpenAddDialog, CloseAddDialog, AddFriend, AddSearchUser, ApproveApply
  <2>2. ui'.rows = ui.rows /\ ui'.selected_friend = ui.selected_friend /\ ui'.logged_in = ui.logged_in
    BY <1>1, <1>4 DEF SendText, OpenAddDialog, CloseAddDialog, AddFriend, AddSearchUser,
       ApproveApply, UiField
  <2>. QED
    BY <2>1, <2>2, QuietCatchesUp
<1>. QED
  BY <1>2, <1>3, <1>4 DEF UserStep

(* The network thread queues a rendering for what it changes.              *)
LEMMA NetStepCatchesUp ==
    ASSUME SInv, WindowInv, NetStep
    PROVE  WindowInv'
<1>0. app \in State /\ uiq \in Seq(Closure)
  BY DEF SInv, AppOK, UiOK
<1>1. UNCHANGED ui
  BY DEF NetStep, RecvPush, DispatchDrained, ConnectionLost, SendRequest, CollectFrame, SendFails,
     AcceptResponse, RequestTimeout, RequestRecvError, Conclude, uiVars
<1>2. CASE UNCHANGED <<app, uiq>>
  BY <1>1, <1>2, QuietCatchesUp
<1>3. ASSUME NEW frame \in SentFrame, Dispatch(frame)
      PROVE  WindowInv'
  <2>0. CASE frame.id \notin PushId
    BY <1>2, <1>3, <2>0 DEF Dispatch, PushId
  <2> DEFINE body == Body(frame)
  <2>1. frame.id \in PushId => body \in PushBody
    <3>1. frame.id \in PushId => frame.tag \in 1 .. npush
      BY DEF SentFrame
    <3>. QED
      BY <3>1 DEF Body, SInv, BodiesOK
  <2> HIDE DEF body
  <2>2. ASSUME frame.id \in PushId, NEW t \in IncomingText(body),
               app' = receive_push(app, t.fromuid, t.text), Queue([op |-> "refresh"])
        PROVE  WindowInv'
    <3>1. t.fromuid \in Uid /\ t.text \in Text
      BY <2>1, <2>2, PushTyped, TextsAssumption
    <3>2. Names(app') = Names(app)
      BY <1>0, <2>2, <3>1, PushNames
    <3>3. BeforeMainWindow'
      BY <1>0, <1>1, <2>2, <3>2, BeforeMainStays DEF WindowInv, Queue
    <3>4. WindowCatchesUp'
      BY <1>0, <2>2, RefreshQueued DEF Refreshing
    <3>. QED
      BY <1>1, <3>3, <3>4 DEF WindowInv, RowsShape
  <2>3. ASSUME NEW a \in NotifyAddFriend(body), UNCHANGED app,
               Queue([op |-> "apply", uid |-> a.applyuid, name |-> a.name])
        PROVE  WindowInv'
    BY <1>1, <2>3, QuietCatchesUp DEF Queue
  <2>4. CASE DispatchText(body) /\ frame.id \in PushId
    BY <1>2, <2>2, <2>4 DEF DispatchText
  <2>5. CASE DispatchApply(body)
    BY <1>2, <2>3, <2>5 DEF DispatchApply
  <2>. QED
    BY <1>3, <2>0, <2>4, <2>5 DEF Dispatch, PushId, body
<1>4. ASSUME NEW r, NEW reply, Conclude(r, reply)
      PROVE  WindowInv'
  <2>1. \/ UNCHANGED app
        \/ app' = set_search_result(app, UNION {search(body) : body \in reply})
    BY <1>4 DEF Conclude, ConcludeSearch, ConcludeAdd, ConcludeApproval
  <2>2. /\ app'.conversations = app.conversations /\ app'.started = app.started
        /\ app'.unread = app.unread /\ app'.friends = app.friends /\ app'.applies = app.applies
    BY <1>0, <2>1 DEF set_search_result, State
  <2>3. uiq' = uiq \/ \E c : uiq' = Append(uiq, c) /\ c.op # "logged_in"
    <3>1. CASE ConcludeSearch(UNION {search(body) : body \in reply})
      <4>1. \A n, flag, st :
               [op |-> "search_done", name |-> n, is_friend |-> flag, status |-> st].op # "logged_in"
        OBVIOUS
      <4>. QED
        BY <3>1, <4>1, Zenon DEF ConcludeSearch, Queue
    <3>2. CASE ConcludeAdd(Granted(reply))
      BY <3>2 DEF ConcludeAdd, Queue
    <3>3. CASE ConcludeApproval(reqs[r.tag].fromuid, Granted(reply))
      BY <3>3 DEF ConcludeApproval, Queue
    <3>. QED
      BY <1>4, <3>1, <3>2, <3>3 DEF Conclude
  <2>. QED
    BY <1>1, <2>2, <2>3, QuietCatchesUp
<1>5. down \in Seq(SentFrame) /\ todo \in Seq(SentFrame)
  BY DEF SInv, FramesOK
<1>6. CASE RecvPush
  <2>1. Head(down) \in SentFrame /\ Dispatch(Head(down))
    BY <1>5, <1>6 DEF RecvPush, Net!RecvPush
  <2>. QED
    BY <1>3, <2>1
<1>7. CASE DispatchDrained
  <2>1. Head(todo) \in SentFrame /\ Dispatch(Head(todo))
    BY <1>5, <1>7 DEF DispatchDrained, Net!DispatchDrained
  <2>. QED
    BY <1>3, <2>1
<1>8. CASE ConnectionLost
  <2>1. UNCHANGED app /\ uiq' = Append(uiq, [op |-> "disconnected"])
    BY <1>8 DEF ConnectionLost, Queue
  <2>. QED
    BY <1>1, <2>1, QuietCatchesUp
<1>9. CASE SendRequest \/ CollectFrame
  BY <1>2, <1>9 DEF SendRequest, CollectFrame
<1>10. CASE SendFails \/ AcceptResponse \/ RequestTimeout \/ RequestRecvError
  <2>1. \E r, reply : Conclude(r, reply)
    BY <1>10 DEF SendFails, AcceptResponse, RequestTimeout, RequestRecvError
  <2>. QED
    BY <1>4, <2>1
<1>. QED
  BY <1>6, <1>7, <1>8, <1>9, <1>10 DEF NetStep

(* Every step keeps the window at the state, or queues a rendering.        *)
LEMMA NextWindowInv ==
    ASSUME SInv, WindowInv, [Next]_vars
    PROVE  WindowInv'
<1>1. app \in State /\ DOMAIN ui = UiField
  BY DEF SInv, AppOK, UiOK
<1>2. CASE UNCHANGED <<app, ui, uiq>>
  BY <1>2, QuietCatchesUp
<1>3. CASE UNCHANGED vars
  BY <1>2, <1>3 DEF vars, uiVars
<1>4. CASE ServerStep
  BY <1>2, <1>4 DEF ServerStep, Answer, AnswerInvalid, PushText, PushApply, PushApproved, PushAs,
     Close, uiVars
<1>5. CASE FileText
  <2>1. /\ \E s \in sending : app' = sent_message(app, s.friend, s.text)
        /\ \E x : ui' = [Rendered(ui, app') EXCEPT !.login_status = x]
        /\ UNCHANGED uiq
    BY <1>5 DEF FileText
  <2>2. app'.friends = app.friends
    BY <1>1, <2>1 DEF sent_message, push_to_conversation, State
  <2>. QED
    BY <1>1, <2>1, <2>2, RenderingCatchesUp
<1>. QED
  BY <1>3, <1>4, <1>5, RunClosureCatchesUp, UserStepCatchesUp, NetStepCatchesUp DEF Next, UIStep

(* At the beginning there is nothing to show.                              *)
LEMMA InitWindowInv == Init => WindowInv
<1> SUFFICES ASSUME Init PROVE WindowInv
  OBVIOUS
<1> DEFINE l == login_succeeded(begin_login(New), Me, LoginFriends)
<1>1. l.conversations = New.conversations /\ l.started = {}
  BY DEF login_succeeded, begin_login, New
<1>2. app = seed_applies(l, LoginApplies) /\ app = LoggedInState
  BY DEF Init, LoggedInState
<1>3. {"conversations", "started", "applies"} \subseteq DOMAIN l
  BY DEF login_succeeded, begin_login, New
<1> HIDE DEF l
<1>4. app.conversations = New.conversations /\ app.started = {}
  BY <1>1, <1>2, <1>3 DEF seed_applies
<1>5. /\ ui.rows = View(New, NoFriend) /\ ui.selected_friend = NoFriend /\ ~ ui.logged_in
      /\ uiq = <<[op |-> "logged_in"]>>
  BY DEF Init
<1>6. New.started = {}
  BY DEF New
<1>7. WindowCatchesUp /\ RowsShape
  BY <1>2, <1>4, <1>5, <1>6 DEF WindowCatchesUp, RowsShape, Current, View, New
<1>. QED
  BY <1>2, <1>5, <1>7 DEF WindowInv, BeforeMainWindow

(* For any users, lists and interleavings of the two threads: the window   *)
(* shows the conversations, markers, friends and applies of AppState, or a *)
(* closure that will render them is queued; but for the applies of the     *)
(* login, which it does not show before it renders for another reason.     *)
THEOREM SessionWindowCatchesUp == Spec => []WindowCatchesUp
<1>1. SInv /\ SendsTexts /\ WindowInv /\ [Next]_vars => WindowInv'
  BY NextWindowInv
<1>2. WindowInv => WindowCatchesUp
  BY DEF WindowInv
<1>. QED
  BY <1>1, <1>2, InitWindowInv, SpecSInv, PTL DEF Spec
=============================================================================
