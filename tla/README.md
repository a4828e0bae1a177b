# A TLA+ model of the chat client

The repository is a desktop chat client in Rust with a Slint window. It logs in over HTTP at a *gate*
server and then over TCP at a *chat* server, and keeps its state in memory. This directory models its
logic in TLA+, checks it with TLC and proves its safety properties with TLAPS.

Paths such as `src/app.rs` are relative to the repository.

## The system

| Part | State | Operations | Talks to |
|---|---|---|---|
| `src/app.rs` **AppState**, the reducer | login status, friends, conversations, open and unread names, applies, search result | one method per event | called by both threads under one mutex |
| `src/client.rs` **Client** | `pending_pushes` | `search`, `send_text`, `add_friend`, `approve` (all by `request`), `recv_push`, `drain_pushes` | the connection |
| `src/net_loop.rs` **network loop** | the command channel's receiver, the client | `run_network`, `execute_cmd`, `handle_push`, `do_login` | AppState; the UI thread by queued closures |
| `src/main.rs` **callbacks** | the channel's two ends | one callback per button, gate threads | AppState; the loop by the command channel |
| `src/ui_bridge.rs`, `ui/app.slint` **window** | what is shown | `push_ui_from_state` | AppState, read only |
| `src/connection.rs` **Connection** | the socket | `connect`, `login`, `send`, `recv` | the chat server |
| `src/protocol.rs` **wire format** | none | `encode_frame`, `decode_frame`, the JSON messages | |
| `src/gate.rs` **gate client** | none | `user_login`, `register`, `reset_password`, `get_verify_code` | the gate server |

    UI thread --- command channel ---> network thread --- frames ---> chat server
       |  <------ queued closures ------    |        <--- frames ---
       +---------> AppState (mutex) <-------+

What is hard about it:

* A response is recognised by its message id alone. While a command awaits it, other frames come in;
  they are set aside and dispatched when the command is over. Time limits, late answers, an error
  envelope with another id (1500) and a closing connection all meet here.
* Two threads change one state, and only one of them may touch the window. What the network thread
  does is shown by closures that run later, when the user may have done something else.
* uids arrive late or not at all: a friend's uid may have to be learned from the first text, which a
  stranger may have sent.
* The time limit of a request is per frame, so that a busy stream stretches it.
* `recv` reads a frame in several steps and is dropped in between by `select!` and by time limits.
* The login happens in a thread of its own, around a receiver that can be taken once.

What makes each part correct:

* Reducer: one friend and one apply per uid, exact unread markers, conversations only grow, a known
  uid never changes.
* Loop: a channel of pushes that keeps order and loses none; every command ends, and in bounded time
  but for the frames that come between; an answer completes one request, its own.
* Session: a text stands once, under its sender; a text goes to the friend shown; at most one friend is
  given a stranger's uid; the window catches up with the state; nothing is reported as granted that was not.
* Stream: the frames received are those sent, and no frame is sent that reads as another.
* Login: one attempt, the main window only for a granted login, a whole login in AppState or none of
  it, an answer on the screen.

## The modules

| Module | Models | Notes |
|---|---|---|
| `Protocol` | message ids | numbers are those of `src/protocol.rs` |
| `AppState` | the methods of `src/app.rs` | pure operators on a record, no variables |
| `Messages` | the JSON bodies of `protocol.rs`, `client.rs` and `gate.rs` | what a request carries, what is made of an answer; pure operators |
| `Reducer` | AppState as a state machine | one action per method, any legal order |
| `Delivery` | what the loop promises a sender of pushes | abstract: a channel that may break |
| `ClientLoop` | `client.rs` and the loop of `net_loop.rs` | frames and commands without contents; implements `Delivery` |
| `TimedLoop` | the time limit of `request` | `ClientLoop` and a clock |
| `Session` | the two threads, window, server and user after the login | composes `ClientLoop` (instance `Net`), `AppState` and `Messages`; `ClientLoop` and `Reducer` (instance `Red`) are also its abstract specifications, of the loop and of the shared state |
| `Framing` | `encode_frame`, `decode_frame` | over bytes of `Base` values |
| `FrameStream` | `Connection::recv` on a byte stream | bytewise, with dropped calls |
| `Login` | login screen, net threads, `do_login`, gate threads | uses `AppState` and `Messages` |
| `MCReducer`, `MCClientLoop`, `MCSession`, `MCFrameStream`, `MCLogin` | instances for TLC | `MCClientLoop` is an instance of `TimedLoop` |
| `AppStateProofs` | lemmas about the operators of `AppState` | used by three of the following |
| `ReducerProofs`, `ClientLoopProofs`, `TimedLoopProofs`, `LoginProofs`, `FrameStreamProofs` | theorems about the module of the name | `ClientLoopProofs` also has the refinement of `Delivery` |
| `SessionProofs`, `SessionLoopProofs` | theorems about `Session` | the second rests on the first, on `ClientLoopProofs` and on `ReducerProofs` |

`PROJECT.json` maps every definition to its lines. Definitions marked *Mutant* are small bugs that
stand beside the definition they replace; each property is shown to fail for one of them. They are
used nowhere else.

### How state and actions correspond

**AppState.** Fields have the source's names. `friends` is a sequence because entries are changed in
place. `conversations` is a function from names to messages, and `started` says which names have an
entry. `open`, `unread` and `applies` are sets, because no method depends on their order but
`approve_apply_uid`; it takes the first apply of a name and is stated as the set of possible answers.
Each method runs under the mutex and is one step of `Reducer`.

**ClientLoop.** `cmds` is the channel, `awaiting` the request being answered, `pending` is
`pending_pushes`, `todo` the drained frames still to be dispatched, `down` the frames on their way.
`SendRequest` is the select taking a command and `request` writing it; `AcceptResponse`,
`CollectFrame`, `RequestTimeout`, `RequestRecvError` are the ways one pass of `request`'s loop can end;
`DispatchDrained` is one turn of the last loop of `execute_cmd`. Here the time limit may end a wait at
any moment, which includes the moments it does; `TimedLoop` counts. Requests and pushes carry numbers in
the model that the program does not have; they serve the properties only, no guard reads them.

**TimedLoop.** `left` is what remains of the `timeout` around the `recv` in progress: `SendRequest` starts
it, `CollectFrame` starts it anew, and only at 0 can `RequestTimeout` happen. `waited` counts since the
request was sent and serves the property. `Tick` is the passing of time while a response is awaited;
the loop's own steps take none.

**Delivery.** `handled` is the sequence of pushes given to `handle_push`; `sent` is `npush`, `broken` is
`closed`. Everything else of `ClientLoop` is left out: that is the statement.

**Messages.** A JSON object is a record of the fields present. serde fails when a required field is
absent, which is a set without a member, and fills in `#[serde(default)]` fields. What a caller does not
look at is left out, texts of errors above all. A text travels in an array of one item, for
`send_text` builds no other.

**Session.** An action is one critical section with what follows it up to the next. `send_text` has
two and is two actions, `SendText` and `FileText`. The UI thread runs one callback or closure at a
time (`Idle`). `uiq` is the queue behind `upgrade_in_event_loop`. `ui` has the window's properties;
`ui.rows` is what `push_ui_from_state` sets. Three critical sections are joined with a neighbour, as the
module's head explains: no step of the other thread in between can be told apart. The mutex itself has no
variable: a critical section is one step and calls nothing that waits, so a thread is never seen blocked by it. Requests, answers
and pushes carry the bodies of `Messages`; `Dispatch` tells a text from the notice of a granted request
by reading it, as `handle_push` does.

**Framing.** `encode_frame` is the client's, with its limit on the body; `frame_bytes` is the layout alone, which
the server's frames have too. `decode_frame` and `recv` know no limit but that of the length field.

**FrameStream.** `buf` is the buffer of the `recv` call in progress. `DropRecv` is the `select!`
choosing a command, or the `timeout` of `request` expiring, while the call is halfway. `Send` is the server's and
not bound by the client's limit. `Requests` are frames the client is given to send, too long ones among them.

**Login.** `out_rx` is the `Option` in `src/main.rs:26`; `spawned` counts threads that have not tried
to take it, `net` is how far the one got that did. `do_login` and the gate threads read `GateReplies` and `LoginFrames`, bodies
with and without the fields they need. Errors of `do_login` are one action, `LoginFailed`.

### The environment

The servers are not in the repository. The chat server answers a request with its response id, or for
two kinds of request with 1500 (`.scratch/rust-chat-gui/research/backend-bugs.md`), in any order, late or never,
but not twice. Its stream is TCP: reliable and ordered until it closes. It passes on texts under 1015 or 1019
*from anybody*, friend or not: `backend-bugs.md:34` says that it "trusts whatever uid is in the body",
`.scratch/rust-chat-gui/spec.md:57` that the client must not assume server fixes, and `src/app.rs:185-187` expects
a sender "we haven't met yet". `TextIds` says of each user under which ids their texts come, if any. It sends applies
of strangers under 1011 and the notice of a granted request under 1015. No two users share a name: users log
in and are found by it. In
`ClientLoop` and `Session` the stream delivers whole frames; `FrameStream` says when that is so and
when it is not.

## The runs

All bounds are in the `.cfg` files.

| Run | Shows | Bounds |
|---|---|---|
| `reducer` | type, `FriendUidsUnique`, `ApplyUidsUnique`, `UnreadExact`, `AppendOnly`, `FriendsStable` | 2 uids, friend lists with known and unknown uids, apply lists with repeated and missing ones, 2 messages |
| `loop` | type, `PushesInOrder`, `NoPushLost`, `CommandsInOrder`, `AnswersUsedOnce`, `StaleAnswersExplained`, `WaitBound`; live: `EveryCommandFinishes`, `PushEventuallyHandled`; refinement, with its fairness: `ImplementsDelivery` | 2 kinds, 3 commands, 2 pushes, a limit of 1 tick |
| `stream` | type, `InStepUntilCut`: framing and reading give back what was sent; `RequestsReadBack`: what the client sends is what is read | bytes of 3 values, a limit of 4 bytes; 3 frames of the server with bodies of 0, 1 and 5 bytes; requests with bodies of 0, 4, 5, 9 and 10 bytes, of which the length field holds up to 8 |
| `login` | `MainWindowMeansSession`, `AllOrNothing`, `OneAttempt`; live: `AttemptIsShown` | 3 clicks, 2 gate threads, 3 replies and 5 first frames |
| `session_text` | type, `TextsFiledOnce`, `SentToTheShownFriend`, `UidsAreTheirs`, `WindowCatchesUp`, `UsesTheReducer`; live: `TextsShowUp`; refinement, with its fairness: `ImplementsLoop` | 2 pushes, from anybody, the login's own user too; 2 clicks on send of which one reaches the loop; a friend with and one without a uid |
| `session_grow` | `NoClaimWithoutGrant`, `ShownResultIsStored`, `FlagExplained`, `UidsAreTheirs`, `WindowCatchesUp`, `TextsFiledOnce`, `UsesTheReducer`; live: `SearchEndsWhileRunning` | searches, friend requests, approvals and rejections; a friend without a uid and a pending apply of a stranger; 2 commands, 1 push, which may be the stranger's text |

Why the bounds are enough to see the interesting cases: three commands of two kinds let a late answer
meet a request of another kind and then one of its own; two pushes are the least that can be
reordered, and one can be set aside while the other is drained; two sends and two pushes let a uid be
learned between the two critical sections of `send_text`, and before and after a first text;
two commands let a late answer, a second search or a second approval meet the first one's closure; a body of four or five bytes with bytes of three
values needs both bytes of the length, and one of nine or ten does not fit them; a limit of one tick can end, start anew before its end and start anew
after a frame; the login's frames are one of each that `do_login` tells apart, a granted one, one
without data, one with a friend without a name, a refusal and a push. In `session_text` three
users write and two are friends, one of unknown uid: the first text of a sender who is no known friend gives
away the unknown uid, rightly or wrongly, and the second one of yet another sender stands under "uid:N". In
`session_grow` the friend without a uid is there before, while and after a stranger's approval is granted, and the
stranger's text can be taken for the friend's at each of these times. In `ClientLoop` one kind of push stands for all, because the
loop treats them alike.

Deadlock is not checked where the system may stop: a session ends when the connection is lost, and a
user need not do anything. `reducer` checks it.

### Disagreements with the documents

Each of these runs checks one statement of a document or comment and finds it violated.

| Run | Property | What happens |
|---|---|---|
| `loop_stale` | `ResponseAnswersRequest` | after a timeout, the late response completes the next request of its kind |
| `stream_cut` | `AlwaysInStep` | a `recv` dropped in the middle of a frame loses it, and the rest is misread |
| `login_retry` | `RepeatFindsOneRunning` | after a failed login every click ends in a thread that does nothing, and "Connecting" stays |
| `session_unseen` | `UnseenIsUnread` | a chat opened once is never marked unread again |
| `session_rejected` | `ApprovedIsFriend` | an apply rejected during its approval: "approved" is shown, nobody is added |
| `session_hang` | `SearchEnds` | a search after a disconnect never ends |

Met while modelling, with no run of their own:

* The closure after the login sets the friend names only (`src/net_loop.rs:39`); applies of the login
  response, which `.scratch/chat-client/issues/02-login-flow-end-to-end.md:3` promises on the main window, are shown
  when something else renders the state. `WindowCatchesUp` says that these rows are all that is left out, and only
  until the first rendering.
* Accepted applies of the login response are kept and listed (`src/net_loop.rs:220`), against the comment
  above that line. `ApplyUidsUnique` holds with them. Applies without a uid share uid 0, and `seed_applies` keeps
  the first (`src/app.rs:118`); `ApplyUidsUnique` counts this merging as correct.
* While the closure of a search is queued, the stored result is already the new one's and the shown
  one still the old one's; the add button uses the stored one (`src/net_loop.rs:89`, `src/main.rs:243`).
  `ShownResultIsStored` says that this is the only time they differ, however many searches follow each other.
* A 1015 without a text, the notice of a granted request, is dropped (`src/net_loop.rs:160`), while
  `.scratch/rust-chat-gui/spec.md:16` has it surfaced in the UI. Whoever grants my request is not in the friend list
  before the next login, and until then writes as a stranger.
* The message about an unknown uid is set on a line of the hidden login screen (`src/main.rs:209`).
* A uid is learned from the first sender that is no known friend, when one friend's uid is unknown (`src/app.rs:196`).
  The comments take that sender for the friend. It may be any stranger: one who simply writes, one whose approval
  is granted and not applied yet, or one who granted my request and never joins the list. The stranger's texts then stand under
  the friend's name, texts for the friend go to the stranger, and an approval of that stranger finds the uid
  in the list and adds nobody, so that the new friend's name never appears. `UidsAreTheirs` says how far this can go: one entry of the
  list, given without a uid, gets the uid of somebody who wrote and is no friend of the login, and after that
  nothing more is learned. `SentToTheShownFriend` says that texts go astray in no other way.
* The flag beside a search result is `false` for a friend whose uid is not known yet, so that the window offers
  to add a friend (`src/net_loop.rs:88`). `FlagExplained` says when else it can be out of date: for a user approved during the session, and for
  one whose uid another friend was given.
* A frame that is set aside starts the time limit of `request` anew (`src/client.rs:123`). `WaitBound` is the exact
  price; no document promises more.

### Fairness

* `ClientLoop!FairSpec`: the network thread runs when it can. It is a tokio task on a thread of its
  own, its `select!` polls both branches, and the timer of `request` fires. Nothing is assumed of the
  server. `TimedLoop!TimedFairSpec` adds that time goes on (`Tick`).
* `Delivery!FairSpec`: an unbroken channel delivers. This is not assumed but shown of `ClientLoop`.
* `Session!FairSpec`: also the UI thread runs queued closures and ends the callback it is in. Slint's
  event loop does. Nothing is assumed of the user or the server.
* `Login!FairSpec`: the event loop and spawned threads run, and **both servers answer or break the
  connection**. This is an assumption on the environment: `do_login` has no time limit.

## The proofs

TLAPS checks these for all values of the constants.

`AppStateProofs` has what the operators of `AppState` return: each keeps the type `State`; `LearnUid` and
`LearnUidType` say which entry a learning changes and to what, `LoginLeaves` what the login leaves in the
friend list, `ApproveApplyAdds` who joins it. Rejecting and appending need facts about filtered and
longer sequences, stated once (`Queued`, `Dequeued`, `FirstOfUid`).

`ReducerProofs`, from `NoUidAssumption`, `UidLabelAssumption` and the assumptions on login lists:
`ReducerTypeOK`, `ReducerFriendUidsUnique`, `ReducerApplyUidsUnique`, `ReducerUnreadExact`,
`ReducerAppendOnly`, `ReducerFriendsStable`. The inductive invariant `IInv` is the conjunction of the
invariants, for they need each other: the type gives `learn_uid` an index, and the uniqueness of applies is what lets
`approve_apply` remove a single one. `LearnUidKeeps` is the lemma on learning, `AppendReceived` the one
on appending, `SeedApplies` the one on the login list; `receive_push` is handled as a learning followed
by an append.

`ClientLoopProofs`, from `KindsAssumption` and `BoundsAssumption`: `ClientLoopTypeOK`,
`ClientLoopPushesInOrder`, `ClientLoopNoPushLost`. Neither safety property is inductive. The
strengthening says that every queue holds its pushes in increasing order (`Ordered`), that what is
being drained is older than what is set aside, and that older than what is in the stream (`Before`),
that all are newer than what was dispatched, and, while the connection is up, that none is missing in
between. Then the first push that is dispatched is the next one in order (`Dispatch`).

`ClientLoopCommandsInOrder`, `ClientLoopAnswersUsedOnce` and `ClientLoopStaleAnswersExplained` follow from a second
invariant. `AInv` says where a request and its answer can be: the channel holds the numbers after those taken
from it (`Numbered`); the server has, and the stream carries answers to, requests that were taken, and an
answer has the id of its request's kind (`Known`); and no answer is in two places, the outcomes counting as
one (`OnePlace`). `WireShrinks` is the lemma for steps that only take frames away, `CommandDone` the one for
every way a command can end. When an answer is accepted, it is either the request's own or that of an
earlier request, of the same kind because ids tell kinds apart (`ResponseIds`), and that request did not get
it, for it was still in the stream.

`ClientLoopImplementsDelivery`: initial states go to initial states and every step to a step of `Delivery` or
none. `IInv` is needed before and after the step: it says that the push handed over bears the next number
and was sent.

`TimedLoopProofs`, with `LimitAssumption`: `TimedLoopIsClientLoop`, by which the theorems above hold with the
clock, and `TimedLoopWaitBound`. The bound is inductive together with the clock's types and `Places`, which says
that `pending` is empty when a request is sent.

`LoginProofs`, from `FramesAssumption` and `BoundsAssumption`: `LoginTypeOK`, `LoginMainWindow`, `LoginAllOrNothing`,
`LoginOneAttempt`. The strengthening is `TakenOnce`: as long as the receiver is there nothing was attempted. It keeps a
second thread from starting over, and with it a repeated click from undoing what was granted.

`SessionProofs`, from the assumptions of `AppState` and `Session`:

* `SessionIsClientLoop`: the session implements `ClientLoop` by the variables they share, step by step. So
  the theorems of `ClientLoop` hold in the session, see `SessionKeepsLoop` below.
* `SessionTypeOK`, from the invariant `SInv`: besides the types it says that every command, wherever it
  is, has a load of its kind, and that every frame, wherever it is, is numbered after a push that has a
  body or a request that may have an answer (`CommandsOK`, `FramesOK`, `BodiesOK`).
* `SessionUsesTheReducer`: every step is one call of a method or none (`AppCall`), and a call is a step of
  `Reducer`.
* `SessionUidsAreTheirs`, from `UidInv`: the friends of the login keep their places and names (`FriendsInPlace`), a
  uid learned for one the login omitted is that friend's or a writer's who is no friend of the login (`UnknownOfLogin`,
  `HasWritten`, `WrittenStays`), and every closure, apply and pushed text names the user whose uid it has
  (`ClosuresTrue`, `AppliesTrue`, `PushesTrue`). Nothing is assumed of who writes. What makes it inductive is that
  a wrongly learned uid was the last unknown one: after it all are known and nothing more is learned.
* `SessionWindowCatchesUp`, from `WindowInv`: before the main window is shown no callback can run, its
  closure is first in the queue, and friends and applies are still the login's; after that a change of `app` renders or
  queues a rendering.

`SessionLoopProofs`, from the same assumptions. It cites `ClientLoopProofs` and `ReducerProofs` through instances
whose assumptions it proves of the session's constants (`LoopKinds`, `LoopBounds`). The invariants build on one
another, in this order:

* `LoopInv` is `IInv` and `AInv` of the loop. `NetCases` then reduces the loop's nine steps to three: a frame is
  handled, a command ends with an answer or none, or nothing but frames and commands moves.
* `PushInv`: a text carries the number of its push, and a frame that announces an apply has no text for a body.
* `FriendsInv`: entries of the friend list with one uid have one name. `FriendsChange` says
  that the list changes by a learned uid (`Learned`) or an approved user (`Added`) only, and that neither is
  about somebody who is a friend already.
* `SessionTextsFiledOnce` and `SessionSentToTheShownFriend`, from `TextInv`. Its core is `Tidy`: no message stands
  in two conversations, and one kind's numbers increase in each. To file a message keeps it so only if its number
  is new, which for received texts is the loop's order (`HandledInOrder`, from `LoopInv`), and for those sent that
  only the last one clicked can be waiting (`SendingLast`). `SendingLast` also says that the uid looked up is
  still the friend's, because no uid in the list ever changes (`FriendsGrow`); and `Attributed` and `UidInv` say whose
  uid that is. `TidyPlace` turns it into the one place the properties speak of.
* `SessionShownResultIsStored` and `SessionFlagExplained`, from `SearchInv`: the last result queued agrees with the
  stored one, or the window does if none is queued (`LastAgrees`). A flag goes stale only when the list grows;
  `FriendsExplained` says of each way it can which of the three reasons of the property it is. That needs every
  queued approval to belong to a finished command (`ApprovalsFinished`).
* `SessionNoClaimWithoutGrant`, from `ClaimInv`: an envelope grants a request only if the server granted it
  (`EnvelopesOnly`: a user record has no error code either and would count as granted; `GrantsMeet`: whom a
  granted approval names is met). Who joined the list did so by an approval of a command of their own that got
  its own answer (`OwnApproval`, `JoinedSound`), which no later step undoes (`JoinedSoundStays`). A claim is `Sound` if the command it reports got its own answer and that
  granted it; no later answer replaces it, by `OnePlace` of the loop. The invariant holds as long as every
  answer accepted was the request's own, which is a statement about the past that no step restores.
* `SessionKeepsLoop`: `PushesInOrder`, `NoPushLost`, `CommandsInOrder`, `AnswersUsedOnce` and `StaleAnswersExplained` hold in
  the session.
* `SessionKeepsReducer`: `FriendUidsUnique`, `ApplyUidsUnique` and `UnreadExact` hold of the session's `app` if the login's
  list names no uid twice (`OneEntryEach`, which `Reducer` assumes too and `Session` does not need).

`FrameStreamProofs`, from `FramesAssumption` and `FramingAssumption`: `DecodeEncode`, `FrameStreamTypeOK`, `FrameStreamInStep`,
`FrameStreamRequestsReadBack`.
The digits of a number of two and of four bytes give it back (`TwoBytes`, `FourBytes`), so a header tells the id and the
length it was made of (`EncodedBytes`, `ReadsAs`). The invariant must say what the bytes in `buf` and `stream` are:
`Follows` says it by byte positions (a layout of frames, each where the last one ends) and without
recursion, since the prover has no induction over data. Then `recv` never holds more bytes than the frame it
reads (`Len(buf) <= Wanted`), and what it returns is the next frame (`FollowsNext`). `Place`, the values of the digits, is a
function for the same reason. After a dropped call only the types are known; that is the point of the property. The lemmas on bytes
are about every frame whose length fits two bytes (`Sendable`), the server's among them; that what `encode_frame` lets
through is one of these is `FramingAssumption`, the client's limit below what two bytes can tell (`EncodeFrame`).

Every invariant and action property the runs check is proved. Only model-checked are the liveness properties (`EveryCommandFinishes`,
`PushEventuallyHandled`, `AttemptIsShown`, `TextsShowUp`, `SearchEndsWhileRunning`) and the fairness parts of `ImplementsDelivery`
and `ImplementsLoop`, whose safety parts are `ClientLoopImplementsDelivery` and `SessionIsClientLoop`: they need fairness and
`ENABLED`, which the prover does not have. The violations are TLC's, of course.

## What is not modelled

* JSON text (serde: `Messages` starts at the fields), HTTP (reqwest), sockets and timers (tokio) below the
  level described above.
* Layout, wording, page navigation, input fields and the local search filter.
* Frames whose fields have the wrong types: the servers are assumed to send none.
* A clock for the login and the gate calls, which have no limit to count.
* `prototype-iffchat/`, `prototype-ui/`, the build.

## Plan

Done, in this order: `AppState`, `Reducer` and its proofs, `ClientLoop` and its proofs, `Session`,
`FrameStream`, `Login`; then `Delivery` and `TimedLoop` with the refinements and proofs, `Messages`, the
replies of `Login` and its proofs, the friend of unknown uid in `session_grow`, and the proofs about
`Session` and `FrameStream`.

Left:

1. `Session` started by `Login` instead of in its logged-in state. The two meet in one state, `LoggedInState`;
   `LoginAllOrNothing` says that the login leaves what the session begins with.
2. Proofs that `AppendOnly` and `FriendsStable` hold of the session's `app` too.
3. The first step of liveness as safety: that a command the loop holds has at each moment a step that
   brings it closer to its end.
