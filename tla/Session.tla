------------------------------ MODULE Session ------------------------------
(***************************************************************************)
(* A logged-in session: the UI thread with its callbacks (src/main.rs), the *)
(* network thread (ClientLoop) with what it does to the shared AppState,   *)
(* and the queue of closures by which the second reaches the first         *)
(* (upgrade_in_event_loop, src/net_loop.rs).                               *)
(*                                                                         *)
(*   UI thread --- cmds (mpsc) ------> network thread --- up ----> server  *)
(*       |  <----- uiq (closures) -----       |      <--- down ---         *)
(*       +---------> app (one mutex) <--------+                            *)
(*                                                                         *)
(* One action is one critical section with what follows it up to the next  *)
(* one.  Three exceptions: the network thread queues its closure in the    *)
(* step that changes app; the closure of an approval renders in the step   *)
(* that applies it; and the end of a search reads is_friend in the step    *)
(* that stores the result.  No other thread queues closures, whatever else *)
(* changes app in between queues a rendering of its own, and a flag read   *)
(* earlier still is one of those FlagExplained allows for.                 *)
(*                                                                         *)
(* The session begins when do_login has filled app and its caller has      *)
(* queued the closure that shows the main window.  Texts are numbered to   *)
(* tell them apart: a received one by its push, a sent one by its click.   *)
(***************************************************************************)
EXTENDS Messages

CONSTANTS
    UserName,        \* uid |-> the user's name on the server
    NoFriend,        \* the empty name: no friend selected, no result shown
    LoginFriends,    \* the friend list of the login response
    LoginApplies,    \* the apply list of the login response
    Me,              \* my uid
    TextIds,         \* uid |-> the ids under which the user's texts arrive
    Kinds,           \* the commands the user gives
    MaxCmds,         \* bound: commands issued
    MaxPushes,       \* bound: pushes sent
    MaxSends         \* bound: clicks on the send button

\* Users log in and are found by their names, so no two share one.
ASSUME NamesAssumption ==
    /\ UserName \in [Uid -> Name] /\ NoFriend \in Name /\ Me \in Uid
    /\ \A u, v \in Uid : UserName[u] = UserName[v] => u = v
\* The lists name the users whose uids they give.
ASSUME ListsAssumption ==
    /\ LoginFriends \in Seq(Friend) /\ LoginApplies \in Seq(FriendApply)
    /\ \A i \in DOMAIN LoginFriends : LET f == LoginFriends[i]
          IN  f.id # NoUid => f.name = UserName[f.id]
    /\ \A i \in DOMAIN LoginApplies : LET a == LoginApplies[i]
          IN  a.from_uid # NoUid => a.name = UserName[a.from_uid]
\* 1015 from a user on my chat server, 1019 from one on another, and none from
\* one who does not write.
ASSUME TextIdsAssumption == TextIds \in [Uid -> SUBSET {NOTIFY_TEXT_CHAT, NOTIFY_AUTH_FRIEND}]
ASSUME CommandsAssumption == Kinds \subseteq Kind /\ MaxCmds \in Nat
ASSUME TextsAssumption ==
    MaxPushes \in Nat /\ MaxSends \in Nat /\ 1 .. MaxPushes \subseteq Text /\ 1 .. MaxSends \subseteq Text

VARIABLES
    cmds, awaiting, pending, todo, running, up, down, closed, nreq, npush, handled,
    outcome,   \* the variables of ClientLoop
    app,       \* Arc<Mutex<AppState>>
    ui,        \* the properties of MainWindow
    uiq,       \* closures queued for the UI thread
    sending,   \* a send_text callback between its two critical sections
    nsend,     \* clicks on the send button so far
    reqs,      \* what the commands carry, by number
    answers,   \* the body of the server's answer, by number of the request
    pushes,    \* the bodies of the pushes, by number
    met        \* the users the server counts as my friends

netVars == <<cmds, awaiting, pending, todo, running, up, down, closed, nreq, npush,
             handled, outcome>>
uiVars == <<ui, sending, nsend>>
wireVars == <<reqs, answers, pushes, met>>
vars == <<netVars, app, uiq, uiVars, wireVars>>

Net == INSTANCE ClientLoop

Red == INSTANCE Reducer WITH FriendLists <- {LoginFriends}, ApplyLists <- {LoginApplies}

-----------------------------------------------------------------------------
(* What the window shows. *)

\* The preview and the unread marker of a conversation row.
ConvRow(s, f) ==
    LET msgs == s.conversations[f]
    IN  [preview |-> IF msgs = <<>> THEN <<>> ELSE <<msgs[Len(msgs)]>>,
         unread  |-> f \in s.unread]

\* The rows push_ui_from_state sets, for the selected friend.
View(s, selected) ==
    [friend_names |-> [i \in DOMAIN s.friends |-> s.friends[i].name],
     conv_rows    |-> [f \in s.started |-> ConvRow(s, f)],
     apply_rows   |-> {[name |-> x.name, status |-> x.status] : x \in s.applies},
     chat_rows    |-> s.conversations[selected]]

\* ui with its rows set from s.
Rendered(u, s) == [u EXCEPT !.rows = View(s, u.selected_friend)]

\* The state do_login leaves behind.
LoggedInState == seed_applies(login_succeeded(begin_login(New), Me, LoginFriends), LoginApplies)

Init ==
    /\ Net!Init
    /\ app = LoggedInState
    /\ ui = [logged_in |-> FALSE, login_status |-> "connecting", selected_friend |-> NoFriend,
             rows |-> View(New, NoFriend), dialog_open |-> FALSE, search_in_progress |-> FALSE,
             search_result |-> NoFriend, result_is_friend |-> FALSE, search_status |-> "",
             apply_status |-> ""]
    /\ uiq = <<[op |-> "logged_in"]>>
    /\ sending = {} /\ nsend = 0
    /\ reqs = <<>> /\ pushes = <<>>
    /\ answers = [n \in 1 .. MaxCmds |-> {}]
    /\ met = {u \in Uid : \E i \in DOMAIN LoginFriends : LoginFriends[i].name = UserName[u]}

-----------------------------------------------------------------------------
(* The UI thread: closures and callbacks, one at a time. *)

Idle == sending = {}

\* Mutant: the command is taken for accepted although nobody will receive it.
SendRegardless(kind, load) ==
    /\ reqs' = Append(reqs, load)
    /\ IF running THEN Net!Submit(kind) ELSE nreq < MaxCmds /\ UNCHANGED netVars

\* out_tx.send: without effect when the network loop has returned.
Send(kind, load) ==
    IF running
    THEN Net!Submit(kind) /\ reqs' = Append(reqs, load)
    ELSE nreq < MaxCmds /\ UNCHANGED <<netVars, reqs>>

ShowMainWindow ==
    /\ ui' = [ui EXCEPT !.logged_in = TRUE, !.login_status = "",
                        !.rows.friend_names = View(LoggedInState, NoFriend).friend_names]
    /\ UNCHANGED app

ShowDisconnected ==
    /\ app' = login_failed(app)
    /\ ui' = [ui EXCEPT !.login_status = "disconnected"]

ShowState ==
    /\ ui' = Rendered(ui, app)
    /\ UNCHANGED app

\* Mutant: the applicant is taken for the sender of a text.
ShowApplyLearning(c) ==
    /\ app' = apply_received(learn_uid(app, c.uid), c.uid, c.name)
    /\ ui' = Rendered(ui, app')

ShowApply(c) ==
    /\ app' = apply_received(app, c.uid, c.name)
    /\ ui' = Rendered(ui, app')

\* Mutant: only a search that found somebody is over.
ShowResultOnly(c) ==
    /\ ui' = [ui EXCEPT !.search_in_progress = (c.name = NoFriend), !.search_result = c.name,
                        !.result_is_friend = c.is_friend, !.search_status = c.status]
    /\ UNCHANGED app

ShowSearchResult(c) ==
    /\ ui' = [ui EXCEPT !.search_in_progress = FALSE, !.search_result = c.name,
                        !.result_is_friend = c.is_friend, !.search_status = c.status]
    /\ UNCHANGED app

ShowAddResult(c) ==
    /\ ui' = [ui EXCEPT !.search_status = c.status]
    /\ UNCHANGED app

\* Mutant: the new friend is not shown.
ShowApprovalOnly(c) ==
    /\ app' = IF c.ok THEN approve_apply(app, c.uid) ELSE app
    /\ ui' = [ui EXCEPT !.apply_status = IF c.ok THEN "approved" ELSE "failed"]

ShowApproval(c) ==
    \/ /\ c.ok
       /\ app' = approve_apply(app, c.uid)
       /\ ui' = [Rendered(ui, app') EXCEPT !.apply_status = "approved"]
    \/ /\ ~ c.ok
       /\ ui' = [ui EXCEPT !.apply_status = "failed"]
       /\ UNCHANGED app

RunClosure ==
    /\ Idle
    /\ uiq # <<>>
    /\ uiq' = Tail(uiq)
    /\ LET c == Head(uiq)
       IN  \/ c.op = "logged_in" /\ ShowMainWindow
           \/ c.op = "disconnected" /\ ShowDisconnected
           \/ c.op = "refresh" /\ ShowState
           \/ c.op = "apply" /\ ShowApply(c)
           \/ c.op = "search_done" /\ ShowSearchResult(c)
           \/ c.op = "add_done" /\ ShowAddResult(c)
           \/ c.op = "approved" /\ ShowApproval(c)
    /\ UNCHANGED <<netVars, sending, nsend, wireVars>>

\* Mutant: the window is rendered before it knows of the new selection.
SelectFriendLate(friend) ==
    /\ Idle /\ ui.logged_in /\ "SendText" \in Kinds
    /\ \/ \E i \in DOMAIN ui.rows.friend_names : ui.rows.friend_names[i] = friend
       \/ friend \in DOMAIN ui.rows.conv_rows
    /\ app' = open_conversation(app, friend)
    /\ ui' = [Rendered(ui, app') EXCEPT !.selected_friend = friend]
    /\ UNCHANGED <<netVars, uiq, sending, nsend, wireVars>>

\* A friend or a conversation row is clicked.
SelectFriend(friend) ==
    /\ Idle /\ ui.logged_in /\ "SendText" \in Kinds
    /\ \/ \E i \in DOMAIN ui.rows.friend_names : ui.rows.friend_names[i] = friend
       \/ friend \in DOMAIN ui.rows.conv_rows
    /\ app' = open_conversation(app, friend)
    /\ ui' = Rendered([ui EXCEPT !.selected_friend = friend], app')
    /\ UNCHANGED <<netVars, uiq, sending, nsend, wireVars>>

\* The send button, with a message typed: the first critical section of
\* send_text looks the uid up.
SendText ==
    /\ Idle /\ ui.logged_in /\ "SendText" \in Kinds
    /\ nsend < MaxSends /\ nreq < MaxCmds
    /\ nsend' = nsend + 1
    /\ sending' = {[friend |-> ui.selected_friend,
                    touid |-> friend_uid(app, ui.selected_friend), text |-> nsend']}
    /\ UNCHANGED <<netVars, app, ui, uiq, wireVars>>

\* The second one files the message, whether or not it will be sent.
FileText ==
    \E s \in sending :
        /\ app' = sent_message(app, s.friend, s.text)
        /\ sending' = {}
        /\ \/ /\ s.touid = NoUid
              /\ ui' = [Rendered(ui, app') EXCEPT !.login_status = "uid unknown"]
              /\ UNCHANGED <<netVars, reqs>>
           \/ /\ s.touid # NoUid
              /\ ui' = [Rendered(ui, app') EXCEPT !.login_status = ""]
              /\ Send("SendText", [touid |-> s.touid, text |-> s.text])
        /\ UNCHANGED <<uiq, nsend, answers, pushes, met>>

OpenAddDialog ==
    /\ Idle /\ ui.logged_in /\ "Search" \in Kinds
    /\ ui' = [ui EXCEPT !.dialog_open = TRUE, !.search_result = NoFriend, !.search_status = ""]
    /\ UNCHANGED <<netVars, app, uiq, sending, nsend, wireVars>>

CloseAddDialog ==
    /\ Idle /\ ui.dialog_open
    /\ ui' = [ui EXCEPT !.dialog_open = FALSE]
    /\ UNCHANGED <<netVars, app, uiq, sending, nsend, wireVars>>

\* The user searches for the name of some user.
AddSearchUser(uid) ==
    /\ Idle /\ ui.dialog_open /\ "Search" \in Kinds
    /\ Send("Search", [name |-> UserName[uid]])
    /\ ui' = [ui EXCEPT !.search_in_progress = TRUE, !.search_status = "",
                        !.search_result = NoFriend]
    /\ UNCHANGED <<app, uiq, sending, nsend, answers, pushes, met>>

\* The add button beside a result asks for the user stored last.
AddFriend ==
    /\ Idle /\ ui.dialog_open /\ "AddFriend" \in Kinds
    /\ ui.search_result # NoFriend /\ ~ ui.result_is_friend
    /\ \/ /\ search_uid(app) = NoUid
          /\ ui' = [ui EXCEPT !.search_status = "no uid"]
          /\ UNCHANGED <<netVars, reqs>>
       \/ /\ search_uid(app) # NoUid
          /\ Send("AddFriend", [touid |-> search_uid(app)])
          /\ UNCHANGED ui
    /\ UNCHANGED <<app, uiq, sending, nsend, answers, pushes, met>>

\* A pending apply has the two buttons; the row may be older than app.
PendingRow(name) == [name |-> name, status |-> 0] \in ui.rows.apply_rows

ApproveApply(name) ==
    /\ Idle /\ ui.logged_in /\ "ApproveApply" \in Kinds
    /\ PendingRow(name)
    /\ \E uid \in approve_apply_uids(app, name) \ {NoUid} :
          Send("ApproveApply", [fromuid |-> uid])
    /\ UNCHANGED <<app, ui, uiq, sending, nsend, answers, pushes, met>>

RejectApply(name) ==
    /\ Idle /\ ui.logged_in /\ "ApproveApply" \in Kinds
    /\ PendingRow(name)
    /\ app' = reject_apply(app, name)
    /\ ui' = Rendered(ui, app')
    /\ UNCHANGED <<netVars, uiq, sending, nsend, wireVars>>

UserStep ==
    \/ \E friend \in Name : SelectFriend(friend)
    \/ SendText
    \/ OpenAddDialog \/ CloseAddDialog \/ AddFriend
    \/ \E uid \in Uid : AddSearchUser(uid)
    \/ \E name \in Name : ApproveApply(name) \/ RejectApply(name)

-----------------------------------------------------------------------------
(* The network thread. *)

Queue(c) == uiq' = Append(uiq, c)

\* The body of a push.
Body(frame) == pushes[frame.tag]

\* Mutant: a text is filed without learning its sender's uid.
DispatchTextUnlearned(body) ==
    \/ \E t \in IncomingText(body) :
          /\ app' = received_message(app, friend_for_uid(app, t.fromuid), t.text)
          /\ Queue([op |-> "refresh"])
    \/ /\ IncomingText(body) = {}
       /\ UNCHANGED <<app, uiq>>

\* Mutant: the thread panics at a sender who is no friend.
DispatchTextOfFriend(body) ==
    \/ \E t \in IncomingText(body) :
          /\ is_friend(app, t.fromuid)
          /\ app' = receive_push(app, t.fromuid, t.text)
          /\ Queue([op |-> "refresh"])
    \/ /\ IncomingText(body) = {}
       /\ UNCHANGED <<app, uiq>>

\* A text changes app at once.  What carries no text, as the notice that a
\* friend request of mine was granted, is dropped.
DispatchText(body) ==
    \/ \E t \in IncomingText(body) :
          /\ app' = receive_push(app, t.fromuid, t.text)
          /\ Queue([op |-> "refresh"])
    \/ /\ IncomingText(body) = {}
       /\ UNCHANGED <<app, uiq>>

\* An apply changes app in its closure.
DispatchApply(body) ==
    /\ \/ \E a \in NotifyAddFriend(body) :
             Queue([op |-> "apply", uid |-> a.applyuid, name |-> a.name])
       \/ NotifyAddFriend(body) = {} /\ UNCHANGED uiq
    /\ UNCHANGED app

\* handle_push.
Dispatch(frame) ==
    \/ frame.id = NOTIFY_ADD_FRIEND /\ DispatchApply(Body(frame))
    \/ frame.id \in {NOTIFY_TEXT_CHAT, NOTIFY_AUTH_FRIEND} /\ DispatchText(Body(frame))
    \/ frame.id \notin PushId /\ UNCHANGED <<app, uiq>>

RecvPush == Net!RecvPush /\ Dispatch(Head(down)) /\ UNCHANGED <<uiVars, wireVars>>

DispatchDrained ==
    Net!DispatchDrained /\ Dispatch(Head(todo)) /\ UNCHANGED <<uiVars, wireVars>>

ConnectionLost ==
    Net!ConnectionLost /\ Queue([op |-> "disconnected"]) /\ UNCHANGED <<app, uiVars, wireVars>>

SendRequest == Net!SendRequest /\ UNCHANGED <<app, uiq, uiVars, wireVars>>

\* Mutant: what is set aside is dispatched as well.
CollectAndDispatch ==
    Net!CollectFrame /\ Dispatch(Head(down)) /\ UNCHANGED <<uiVars, wireVars>>

CollectFrame == Net!CollectFrame /\ UNCHANGED <<app, uiq, uiVars, wireVars>>

Granted(reply) == \E body \in reply : is_ok(SimpleResponse(body))

\* Mutant: a failed search is stored as a user without a uid.
StoreEmptyUser(found) ==
    /\ app' = set_search_result(app,
                 IF found = {} THEN {[id |-> NoUid, name |-> NoFriend]} ELSE found)
    /\ Queue([op |-> "search_done", name |-> NoFriend, is_friend |-> FALSE, status |-> "failed"])

\* Mutant: the flag tells whether the result before this one is a friend.
ConcludeSearchStale(found) ==
    /\ app' = set_search_result(app, found)
    /\ \/ \E user \in found :
             Queue([op |-> "search_done", name |-> user.name,
                    is_friend |-> is_friend(app, search_uid(app)), status |-> ""])
       \/ /\ found = {}
          /\ Queue([op |-> "search_done", name |-> NoFriend,
                    is_friend |-> FALSE, status |-> "failed"])

\* The result is stored at once; the window learns of it by a closure.
ConcludeSearch(found) ==
    /\ app' = set_search_result(app, found)
    /\ \/ \E user \in found :
             Queue([op |-> "search_done", name |-> user.name,
                    is_friend |-> is_friend(app, user.id), status |-> ""])
       \/ /\ found = {}
          /\ Queue([op |-> "search_done", name |-> NoFriend,
                    is_friend |-> FALSE, status |-> "failed"])

ConcludeAdd(granted) ==
    /\ Queue([op |-> "add_done", status |-> IF granted THEN "sent" ELSE "failed"])
    /\ UNCHANGED app

\* Mutant: an error counts as success.
ConcludeApprovalAnyway(uid, granted) ==
    /\ Queue([op |-> "approved", uid |-> uid, ok |-> TRUE])
    /\ UNCHANGED app

ConcludeApproval(uid, granted) ==
    /\ Queue([op |-> "approved", uid |-> uid, ok |-> granted])
    /\ UNCHANGED app

\* The client's methods after request has returned, and the rest of
\* execute_cmd, for request r and the body of the answer, none on any error.
\* The result of a text is not looked at.
Conclude(r, reply) ==
    /\ \/ r.kind = "SendText" /\ UNCHANGED <<app, uiq>>
       \/ r.kind = "Search" /\ ConcludeSearch(UNION {search(body) : body \in reply})
       \/ r.kind = "AddFriend" /\ ConcludeAdd(Granted(reply))
       \/ r.kind = "ApproveApply" /\ ConcludeApproval(reqs[r.tag].fromuid, Granted(reply))
    /\ UNCHANGED <<uiVars, wireVars>>

SendFails == Net!SendFails /\ Conclude(Head(cmds), {})

AcceptResponse ==
    Net!AcceptResponse /\ \E r \in awaiting : Conclude(r, answers[Head(down).tag])

RequestTimeout == Net!RequestTimeout /\ \E r \in awaiting : Conclude(r, {})

RequestRecvError == Net!RequestRecvError /\ \E r \in awaiting : Conclude(r, {})

NetStep ==
    \/ RecvPush \/ DispatchDrained \/ ConnectionLost \/ SendRequest \/ CollectFrame
    \/ SendFails \/ AcceptResponse \/ RequestTimeout \/ RequestRecvError

-----------------------------------------------------------------------------
(* The server and the other users. *)

\* The body of request r, as the client's methods build it.
RequestBody(r) ==
    LET c == reqs[r.tag]
    IN  CASE r.kind = "SendText"     -> TextChatRequest(Me, c.touid, c.text)
          [] r.kind = "Search"       -> SearchRequest(c.name)
          [] r.kind = "AddFriend"    -> AddFriendRequest(Me, c.touid)
          [] r.kind = "ApproveApply" -> AuthFriendRequest(Me, c.fromuid)

Success == [error |-> 0]
Failure == [error |-> 1]

\* What the server may answer: the user with the name asked for, else the
\* error envelope.
Replies(r) ==
    {Failure} \cup
    IF r.kind = "Search"
    THEN {[id |-> u, name |-> UserName[u]] : u \in {v \in Uid : UserName[v] = RequestBody(r).name}}
    ELSE {Success}

\* Granting an approval makes its two users friends.
Answer(r) ==
    /\ Net!Answer(r)
    /\ \E reply \in Replies(r) :
          /\ answers' = [answers EXCEPT ![r.tag] = {reply}]
          /\ met' = IF r.kind = "ApproveApply" /\ reply = Success /\ RequestBody(r).fromuid = Me
                    THEN met \cup {RequestBody(r).touid}
                    ELSE met
    /\ UNCHANGED <<app, uiq, uiVars, reqs, pushes>>

AnswerInvalid(r) ==
    /\ Net!AnswerInvalid(r)
    /\ UNCHANGED <<app, uiq, uiVars, wireVars>>

PushAs(id, body) ==
    /\ Net!Push(id)
    /\ pushes' = Append(pushes, body)
    /\ UNCHANGED <<app, uiq, uiVars, reqs, answers>>

\* Somebody writes, a friend or not: the server passes on whatever uid a text
\* names as its sender.
PushText(uid) ==
    /\ \E id \in TextIds[uid] : PushAs(id, TextChatRequest(uid, Me, npush'))
    /\ UNCHANGED met

\* A stranger asks to be a friend, perhaps again.
PushApply(uid) ==
    /\ "ApproveApply" \in Kinds
    /\ uid \notin met \cup {Me}
    /\ PushAs(NOTIFY_ADD_FRIEND, [applyuid |-> uid, name |-> UserName[uid]])
    /\ UNCHANGED met

\* A user grants a friend request I made.
PushApproved(uid) ==
    /\ uid \notin met
    /\ \E n \in DOMAIN outcome :
          outcome[n].kind = "AddFriend" /\ reqs[n].touid = uid /\ Success \in answers[n]
    /\ PushAs(NOTIFY_AUTH_FRIEND, AuthFriendRequest(uid, Me))
    /\ met' = met \cup {uid}

Close == Net!Close /\ UNCHANGED <<app, uiq, uiVars, wireVars>>

ServerStep ==
    \/ \E r \in up : Answer(r) \/ AnswerInvalid(r)
    \/ \E uid \in Uid : PushText(uid) \/ PushApply(uid) \/ PushApproved(uid)
    \/ Close

UIStep == RunClosure \/ FileText

Next == UIStep \/ UserStep \/ NetStep \/ ServerStep

Spec == Init /\ [][Next]_vars

\* The event loop runs what is queued and ends the callback it is in, and the
\* network thread runs whenever it can.  The user and the server owe nothing.
FairSpec == Spec /\ WF_vars(UIStep) /\ WF_vars(NetStep)

-----------------------------------------------------------------------------
(* The type invariant. *)

Closure ==
    [op : {"logged_in", "disconnected", "refresh"}]
    \cup [op : {"apply"}, uid : Uid, name : Name]
    \cup [op : {"search_done"}, name : Name, is_friend : BOOLEAN, status : {"", "failed"}]
    \cup [op : {"add_done"}, status : {"sent", "failed"}]
    \cup [op : {"approved"}, uid : Uid, ok : BOOLEAN]

\* The bodies of answers and of pushes.
Reply == {Success, Failure} \cup [id : Uid, name : Name]

TextBody == [fromuid : Uid, touid : Uid, text_array : {<<n>> : n \in 1 .. MaxPushes}]
ApplyBody == [applyuid : Uid, name : Name]
PushBody == TextBody \cup ApplyBody \cup [fromuid : Uid, touid : Uid]

\* What a command of a kind carries.
Load(kind) ==
    CASE kind = "SendText"     -> [touid : Uid, text : 1 .. MaxSends]
      [] kind = "Search"       -> [name : Name]
      [] kind = "AddFriend"    -> [touid : Uid]
      [] kind = "ApproveApply" -> [fromuid : Uid]

\* The variables of ClientLoop have their types there.
TypeOK ==
    /\ app \in State
    /\ ui.selected_friend \in Name
    /\ uiq \in Seq(Closure)
    /\ sending \subseteq [friend : Name, touid : AnyUid, text : 1 .. MaxSends]
    /\ nsend \in 0 .. MaxSends
    /\ reqs \in Seq(UNION {Load(kind) : kind \in Kinds}) /\ Len(reqs) = nreq
    /\ pushes \in Seq(PushBody) /\ Len(pushes) = npush
    /\ answers \in [1 .. MaxCmds -> {{}} \cup {{body} : body \in Reply}]
    /\ met \subseteq Uid

-----------------------------------------------------------------------------
(* The session runs the loop: what the loop shares with the UI thread, the *)
(* command channel, AppState and the closures, neither makes it do what    *)
(* ClientLoop does not nor stops it anywhere.                              *)
ImplementsLoop == Net!FairSpec

-----------------------------------------------------------------------------
(* Texts. *)

IsText(n) == IncomingText(pushes[n]) # {}

\* Where text n of a user stands in the conversations.
PlacesOf(mine, n) ==
    {p \in app.started \X (1 .. MaxPushes + MaxSends) :
        LET c == app.conversations[p[1]]
        IN  p[2] \in DOMAIN c /\ c[p[2]] = [mine |-> mine, text |-> n]}

\* The names a text of a user may stand under.
NamesOf(uid) == {UserName[uid], UidLabel[uid], friend_for_uid(app, uid)}

(* Every text the loop has dispatched stands in one conversation, once,    *)
(* whether it came straight from the select or was set aside during a      *)
(* command, and that conversation is its sender's: under the name, or      *)
(* under the label "uid:N" while the client cannot know the name; or under *)
(* the friend the uid was attributed to, see UidsAreTheirs.  Texts of a    *)
(* conversation stand in the order the server sent them.                   *)
TextsFiledOnce ==
    /\ \A k \in DOMAIN handled : IsText(handled[k]) =>
          \E f \in NamesOf(pushes[handled[k]].fromuid), i \in 1 .. (MaxPushes + MaxSends) :
              PlacesOf(FALSE, handled[k]) = {<<f, i>>}
    /\ \A f \in app.started : LET c == app.conversations[f]
          IN  \A i, j \in DOMAIN c : i < j /\ c[i].mine = c[j].mine => c[i].text < c[j].text

\* The friend list gives the uid to this friend.
Attributed(friend, uid) ==
    \E i \in DOMAIN app.friends : app.friends[i].name = friend /\ app.friends[i].id = uid

\* No friend of the login has this user's name.
NotOfLogin(uid) == \A j \in DOMAIN LoginFriends : LoginFriends[j].name # UserName[uid]

\* A text was sent to me that names this user as its sender.
HasWritten(uid) == \E n \in DOMAIN pushes : \E t \in IncomingText(pushes[n]) : t.fromuid = uid

(* A text goes to the person under whose name it is shown: the uid looked  *)
(* up in the first critical section of send_text is still that friend's    *)
(* when the second one has filed the text and the command is queued, and   *)
(* no push in between, nor a uid learned late, diverts it.  It goes to     *)
(* somebody else only where the friend list is wrong, see UidsAreTheirs.   *)
SentToTheShownFriend ==
    \A n \in DOMAIN reqs : "text" \in DOMAIN reqs[n] =>
        \E f \in Name, i \in 1 .. (MaxPushes + MaxSends) :
            /\ PlacesOf(TRUE, reqs[n].text) = {<<f, i>>}
            /\ \/ f = UserName[reqs[n].touid]
               \/ /\ Attributed(f, reqs[n].touid)
                  /\ HasWritten(reqs[n].touid) /\ NotOfLogin(reqs[n].touid)

\* The entries of the friend list with another user's uid.
Misled ==
    {i \in DOMAIN app.friends : LET f == app.friends[i]
        IN  f.id # NoUid /\ f.name # UserName[f.id]}

(* How wrong the friend list can get.  A uid the login omitted is learned  *)
(* from the first sender who is no friend, and nothing tells a stranger    *)
(* from the friend.  So an entry may get a stranger's uid, but only one    *)
(* the login gave without a uid, only that of somebody who wrote and who   *)
(* is no friend of the login, and only the last such entry: it is the one  *)
(* entry misled, and nothing is learned any more.                          *)
UidsAreTheirs ==
    \A i \in Misled :
        /\ i \in DOMAIN LoginFriends /\ LoginFriends[i].id = NoUid
        /\ HasWritten(app.friends[i].id) /\ NotOfLogin(app.friends[i].id)
        /\ \A j \in DOMAIN app.friends \ {i} : j \notin Misled /\ app.friends[j].id # NoUid

-----------------------------------------------------------------------------
(* The window follows the state. *)

Refreshing(c) == c.op \in {"refresh", "apply"} \/ (c.op = "approved" /\ c.ok)

Current == View(app, ui.selected_friend)

(* Conversations, previews, unread markers and the open chat are those of  *)
(* AppState, or a closure that will render them is on its way: no text     *)
(* stays unseen until the next event, whichever thread changed the state.  *)
(* So are the applies, except that those of the login are not shown until  *)
(* something is rendered: the closure after the login leaves them out.     *)
WindowCatchesUp ==
    \/ \E i \in DOMAIN uiq : Refreshing(uiq[i])
    \/ /\ ui.rows.conv_rows = Current.conv_rows
       /\ ui.rows.chat_rows = Current.chat_rows
       /\ \/ ui.rows.apply_rows = Current.apply_rows
          \/ ui.rows.apply_rows = {} /\ app.applies = LoggedInState.applies
       /\ ui.logged_in => ui.rows.friend_names = Current.friend_names

(* A text that arrives for a friend who is not selected leaves the friend  *)
(* marked unread.                                                          *)
UnseenStep ==
    \A f \in Name :
        Len(app'.conversations[f]) > Len(app.conversations[f]) /\ f # ui.selected_friend
            => f \in app'.unread

UnseenIsUnread == [][UnseenStep]_vars

-----------------------------------------------------------------------------
(* Search, add, approve. *)

\* No result of a search is about to be shown.
NoResultQueued == \A i \in DOMAIN uiq : uiq[i].op # "search_done"

(* The add button asks for the user the network thread stored last, and    *)
(* the user reads what the closure of some search showed: but for the time *)
(* a closure takes they are the same user, whatever searches follow.       *)
ShownResultIsStored ==
    NoResultQueued /\ ui.search_result # NoFriend =>
        \E r \in app.search_result :
            r.name = ui.search_result /\ UserName[r.id] = ui.search_result

\* How a user who was no friend when the answer arrived can be one later.
BecameFriend(uid) ==
    \/ \E n \in DOMAIN outcome : outcome[n].kind = "ApproveApply" /\ reqs[n].fromuid = uid
    \/ [id |-> NoUid, name |-> UserName[uid]] \in {LoginFriends[i] : i \in DOMAIN LoginFriends}
    \/ \E f \in Name \ {UserName[uid]} : Attributed(f, uid)

(* The flag beside a result, by which the window offers to add the user or *)
(* not, is read from app when the answer arrives and shown later.  It      *)
(* never hides the button from a user who is no friend, and is out of date *)
(* only for one who was approved during the session, whose uid the login   *)
(* omitted, or whose uid another friend was given, see UidsAreTheirs.      *)
FlagExplained ==
    NoResultQueued /\ ui.search_result # NoFriend =>
        IF ui.result_is_friend
        THEN is_friend(app, search_uid(app))
        ELSE is_friend(app, search_uid(app)) => BecameFriend(search_uid(app))

\* The server granted an approval of this user, and counts it as my friend.
ApprovalGranted(uid) ==
    /\ uid \in met
    /\ \E n \in DOMAIN outcome :
          outcome[n].kind = "ApproveApply" /\ reqs[n].fromuid = uid /\ Granted(answers[n])

(* The window never claims a friendship the server does not know: as long  *)
(* as every accepted answer was the request's own, whoever joined the list *)
(* or is about to was approved by a command of that user's that the server *)
(* granted, and "approved" or "sent" reported a granted request.           *)
NoClaimWithoutGrant ==
    Net!ResponseAnswersRequest =>
        /\ \A i \in DOMAIN app.friends \ DOMAIN LoginFriends : ApprovalGranted(app.friends[i].id)
        /\ \A i \in DOMAIN uiq : uiq[i].op = "approved" /\ uiq[i].ok => ApprovalGranted(uiq[i].uid)
        /\ ui.apply_status = "approved" => \E uid \in Uid : ApprovalGranted(uid)
        /\ ui.search_status = "sent" =>
              \E n \in DOMAIN outcome : outcome[n].kind = "AddFriend" /\ Granted(answers[n])

(* What the closure of a granted approval leaves is a friend in the list.  *)
ApprovedStep ==
    \/ uiq = <<>> \/ uiq' # Tail(uiq)
    \/ Head(uiq).op = "approved" /\ Head(uiq).ok => is_friend(app', Head(uiq).uid)

ApprovedIsFriend == [][ApprovedStep]_vars

(* Every text of a friend is filed and shown without anybody's doing,      *)
(* unless the connection closes.                                           *)
TextsShowUp ==
    \A n \in 1 .. MaxPushes :
        npush >= n /\ IsText(n)
            ~> closed \/ (PlacesOf(FALSE, n) # {} /\ \A i \in DOMAIN uiq : ~ Refreshing(uiq[i]))

(* A search comes to an end on the window.                                 *)
SearchEnds == ui.search_in_progress ~> ~ ui.search_in_progress

(* While the network loop runs it does, by its result, an error or a time  *)
(* limit.                                                                  *)
SearchEndsWhileRunning == ui.search_in_progress ~> ~ ui.search_in_progress \/ ~ running

(* The two threads use AppState by the methods of the reducer alone.       *)
UsesTheReducer == [][Red!Next]_app
=============================================================================
