----------------------------- MODULE ClientLoop -----------------------------
(***************************************************************************)
(* The network loop of a logged-in client: run_network, execute_cmd and    *)
(* the calls of handle_push (src/net_loop.rs) around the deep Client       *)
(* (src/client.rs).  One thread owns the socket.  At its select it takes   *)
(* either a frame from the server or a command from the UI; a command      *)
(* sends a request and reads frames until the response id it waits for     *)
(* arrives or 5 s pass without a frame.  Other frames met on the way are   *)
(* set aside in pending_pushes and dispatched when the command is over.    *)
(*                                                                         *)
(* Requests and pushes are numbered here to tell them apart.  The program  *)
(* has no such numbers: a frame is matched by its id alone.                *)
(*                                                                         *)
(* External to the program are the command channel's UI end and the server *)
(* with its TCP stream.  The stream is reliable and ordered and delivers   *)
(* whole frames; the server may answer requests in any order, late, with   *)
(* another id (1500), or never; it answers none twice.                     *)
(***************************************************************************)
EXTENDS Naturals, Sequences, Protocol

CONSTANTS
    Kinds,        \* the commands the UI issues
    MaxCmds,      \* bound: commands issued
    MaxPushes     \* bound: pushes sent

ASSUME KindsAssumption == Kinds \subseteq Kind
ASSUME BoundsAssumption == MaxCmds \in Nat /\ MaxPushes \in Nat

VARIABLES
    cmds,      \* the command channel: NetCmds not yet received
    awaiting,  \* the request whose response is awaited, if any
    pending,   \* Client.pending_pushes
    todo,      \* drained frames execute_cmd has still to dispatch
    running,   \* run_network has not returned
    up,        \* requests the server has not answered
    down,      \* frames on their way to the client
    closed,    \* the server's end is closed or reset
    nreq,      \* commands issued so far
    npush,     \* pushes sent so far
    handled,   \* the pushes given to handle_push, in order
    outcome    \* the finished requests, in order, and the answer each got

client == <<awaiting, pending, todo, running>>
network == <<up, down, closed, npush>>
vars == <<cmds, awaiting, pending, todo, running, up, down, closed, nreq, npush,
          handled, outcome>>

Request == [tag : 1 .. MaxCmds, kind : Kinds]

\* tag: the push's number, or the number of the request that is answered
Frame == [id : IncomingId, tag : Nat]

\* by: the request whose answer was accepted; 0 if none was
Outcome == [tag : 1 .. MaxCmds, kind : Kinds, by : 0 .. MaxCmds]

IsPush(frame) == frame.id \in PushId

Init ==
    /\ cmds = <<>> /\ awaiting = {} /\ pending = <<>> /\ todo = <<>> /\ running = TRUE
    /\ up = {} /\ down = <<>> /\ closed = FALSE
    /\ nreq = 0 /\ npush = 0
    /\ handled = <<>> /\ outcome = <<>>

-----------------------------------------------------------------------------
(* The UI's end of the command channel. *)

\* Sending on the channel of a loop that has returned does nothing.
Submit(kind) ==
    /\ running
    /\ nreq < MaxCmds
    /\ nreq' = nreq + 1
    /\ cmds' = Append(cmds, [tag |-> nreq', kind |-> kind])
    /\ UNCHANGED <<client, network, handled, outcome>>

-----------------------------------------------------------------------------
(* The network thread. *)

\* The loop stands at its select!: no command and no drain is under way.
AtSelect == running /\ awaiting = {} /\ todo = <<>>

\* Mutant: an answer nobody awaits is dispatched like a push.
HandleAny(frame) == handled' = Append(handled, frame.tag)

\* handle_push drops what is not a push, such as an answer nobody awaits.
HandlePush(frame) ==
    handled' = IF IsPush(frame) THEN Append(handled, frame.tag) ELSE handled

\* The select takes a frame.
RecvPush ==
    /\ AtSelect
    /\ down # <<>>
    /\ HandlePush(Head(down))
    /\ down' = Tail(down)
    /\ UNCHANGED <<cmds, client, up, closed, nreq, npush, outcome>>

\* The select takes the stream's end.  The loop returns, and the commands
\* still in the channel are dropped with it.
ConnectionLost ==
    /\ AtSelect
    /\ closed
    /\ running' = FALSE
    /\ down' = <<>>
    /\ cmds' = <<>>
    /\ UNCHANGED <<awaiting, pending, todo, up, closed, nreq, npush, handled, outcome>>

\* Mutant: a command that fails takes with it what it had set aside.
FinishForgetting(r, by) ==
    /\ awaiting' = {}
    /\ outcome' = Append(outcome, [tag |-> r.tag, kind |-> r.kind, by |-> by])
    /\ todo' = IF by = 0 THEN <<>> ELSE pending
    /\ pending' = <<>>

\* Mutant: nothing is drained.
FinishUndrained(r, by) ==
    /\ awaiting' = {}
    /\ outcome' = Append(outcome, [tag |-> r.tag, kind |-> r.kind, by |-> by])
    /\ UNCHANGED <<todo, pending>>

\* The command for request r is over: what it set aside is drained.
Finish(r, by) ==
    /\ awaiting' = {}
    /\ outcome' = Append(outcome, [tag |-> r.tag, kind |-> r.kind, by |-> by])
    /\ todo' = pending
    /\ pending' = <<>>

\* The select takes a command and its request is written to the socket.
SendRequest ==
    /\ AtSelect
    /\ cmds # <<>>
    /\ awaiting' = {Head(cmds)}
    /\ up' = up \cup {Head(cmds)}
    /\ cmds' = Tail(cmds)
    /\ UNCHANGED <<pending, todo, running, down, closed, nreq, npush, handled, outcome>>

\* As SendRequest, but the request cannot be encoded, a text or a name being
\* too long, or the write fails.
SendFails ==
    /\ AtSelect
    /\ cmds # <<>>
    /\ closed \/ Head(cmds).kind \in {"SendText", "Search"}
    /\ Finish(Head(cmds), 0)
    /\ cmds' = Tail(cmds)
    /\ UNCHANGED <<running, network, nreq, handled>>

\* Mutant: any answer will do.
AcceptAnyResponse ==
    \E r \in awaiting :
        /\ down # <<>>
        /\ ~ IsPush(Head(down))
        /\ Finish(r, Head(down).tag)
        /\ down' = Tail(down)
        /\ UNCHANGED <<cmds, running, up, closed, nreq, npush, handled>>

\* Mutant: the answer stays in the stream.
AcceptWithoutReading ==
    \E r \in awaiting :
        /\ down # <<>>
        /\ Head(down).id = ResponseId[r.kind]
        /\ Finish(r, Head(down).tag)
        /\ UNCHANGED <<cmds, running, up, down, closed, nreq, npush, handled>>

\* The frame read while awaiting a response carries the awaited id.
AcceptResponse ==
    \E r \in awaiting :
        /\ down # <<>>
        /\ Head(down).id = ResponseId[r.kind]
        /\ Finish(r, Head(down).tag)
        /\ down' = Tail(down)
        /\ UNCHANGED <<cmds, running, up, closed, nreq, npush, handled>>

\* Mutant: what is set aside goes before what was.
CollectInFront ==
    \E r \in awaiting :
        /\ down # <<>>
        /\ Head(down).id # ResponseId[r.kind]
        /\ pending' = <<Head(down)>> \o pending
        /\ down' = Tail(down)
        /\ UNCHANGED <<cmds, awaiting, todo, running, up, closed, nreq, npush, handled, outcome>>

\* It carries another one.
CollectFrame ==
    \E r \in awaiting :
        /\ down # <<>>
        /\ Head(down).id # ResponseId[r.kind]
        /\ pending' = Append(pending, Head(down))
        /\ down' = Tail(down)
        /\ UNCHANGED <<cmds, awaiting, todo, running, up, closed, nreq, npush, handled, outcome>>

\* Mutant: the command is tried again.
TimeoutThenRetry ==
    \E r \in awaiting :
        /\ Finish(r, 0)
        /\ cmds' = Append(cmds, r)
        /\ UNCHANGED <<running, network, nreq, handled>>

\* Mutant: a frame that was set aside ends the time limit.
TimeoutOfSilence ==
    \E r \in awaiting :
        /\ pending = <<>>
        /\ Finish(r, 0)
        /\ UNCHANGED <<cmds, running, network, nreq, handled>>

\* Nothing arrived in time.  Frames may well be on their way.
RequestTimeout ==
    \E r \in awaiting :
        /\ Finish(r, 0)
        /\ UNCHANGED <<cmds, running, network, nreq, handled>>

\* The stream ended while a response was awaited.  Only the command fails;
\* the loop will meet the end again at its select.
RequestRecvError ==
    \E r \in awaiting :
        /\ closed
        /\ Finish(r, 0)
        /\ down' = <<>>
        /\ UNCHANGED <<cmds, running, up, closed, nreq, npush, handled>>

\* execute_cmd dispatches the next drained frame.
DispatchDrained ==
    /\ todo # <<>>
    /\ HandlePush(Head(todo))
    /\ todo' = Tail(todo)
    /\ UNCHANGED <<cmds, awaiting, pending, running, network, nreq, outcome>>

NetStep ==
    \/ RecvPush \/ ConnectionLost \/ SendRequest \/ SendFails
    \/ AcceptResponse \/ CollectFrame \/ RequestTimeout \/ RequestRecvError
    \/ DispatchDrained

-----------------------------------------------------------------------------
(* The server. *)

Answer(r) ==
    /\ ~ closed
    /\ up' = up \ {r}
    /\ down' = Append(down, [id |-> ResponseId[r.kind], tag |-> r.tag])
    /\ UNCHANGED <<cmds, client, closed, nreq, npush, handled, outcome>>

\* When handling one of these requests fails, the server answers it under
\* another id (.scratch/rust-chat-gui/research/backend-bugs.md, bug 5).
AnswerInvalid(r) ==
    /\ ~ closed
    /\ r.kind \in {"SendText", "ApproveApply"}
    /\ up' = up \ {r}
    /\ down' = Append(down, [id |-> INVALID_REQUEST, tag |-> r.tag])
    /\ UNCHANGED <<cmds, client, closed, nreq, npush, handled, outcome>>

Push(id) ==
    /\ ~ closed
    /\ npush < MaxPushes
    /\ npush' = npush + 1
    /\ down' = Append(down, [id |-> id, tag |-> npush'])
    /\ UNCHANGED <<cmds, client, up, closed, nreq, handled, outcome>>

Close ==
    /\ ~ closed
    /\ closed' = TRUE
    /\ UNCHANGED <<cmds, client, up, down, nreq, npush, handled, outcome>>

ServerStep ==
    \/ \E r \in up : Answer(r) \/ AnswerInvalid(r)
    \/ \E id \in PushId : Push(id)
    \/ Close

Next ==
    \/ \E kind \in Kinds : Submit(kind)
    \/ NetStep
    \/ ServerStep

Spec == Init /\ [][Next]_vars

\* The net thread runs whenever it can: its timers fire and a ready select is
\* served.  Nothing is asked of the UI or the server.
FairSpec == Spec /\ WF_vars(NetStep)

-----------------------------------------------------------------------------
(* The type invariant. *)
TypeOK ==
    /\ cmds \in Seq(Request)
    /\ awaiting \subseteq Request /\ \A q, r \in awaiting : q = r
    /\ pending \in Seq(Frame) /\ todo \in Seq(Frame) /\ down \in Seq(Frame)
    /\ running \in BOOLEAN /\ closed \in BOOLEAN
    /\ up \subseteq Request
    /\ nreq \in 0 .. MaxCmds /\ npush \in 0 .. MaxPushes
    /\ handled \in Seq(1 .. MaxPushes)
    /\ outcome \in Seq(Outcome)

(* Pushes reach handle_push in the order the server sent them, each once,  *)
(* although they travel two ways: straight from the select, or set aside   *)
(* during a command and drained after it.                                  *)
PushesInOrder == \A n \in DOMAIN handled : handled[n] = n

Holds(queue, n) == \E i \in DOMAIN queue : IsPush(queue[i]) /\ queue[i].tag = n

\* Push n is yet to be dispatched, wherever it is.
InFlight(n) == Holds(todo, n) \/ Holds(pending, n) \/ Holds(down, n)

(* While the connection is up no push is lost: each was dispatched or is   *)
(* still in the stream, set aside or being drained.  A command that fails  *)
(* or times out must not take with it what it had set aside.               *)
NoPushLost ==
    running /\ ~ closed => \A n \in 1 .. npush : n <= Len(handled) \/ InFlight(n)

(* Commands finish in the order they were issued and each once: none is    *)
(* skipped, overtaken or retried.                                          *)
CommandsInOrder == \A n \in DOMAIN outcome : outcome[n].tag = n

(* An answer completes at most one request.                                *)
AnswersUsedOnce ==
    \A m, n \in DOMAIN outcome :
        outcome[m].by = outcome[n].by /\ outcome[m].by # 0 => m = n

(* A request completed by another request's answer took it from an earlier *)
(* request of its kind that had not got its own: misattribution needs a    *)
(* request to have been given up, and stays within the kind.               *)
StaleAnswersExplained ==
    \A n \in DOMAIN outcome :
        LET o == outcome[n]
        IN  o.by \notin {0, o.tag} =>
                \E m \in 1 .. (n - 1) : /\ outcome[m].tag = o.by
                                        /\ outcome[m].kind = o.kind
                                        /\ outcome[m].by # outcome[m].tag

(* Every command taken by the UI finishes, if only by its timeout, or the  *)
(* loop returns: no silence, push or stray answer keeps the loop from the  *)
(* commands behind it.                                                     *)
EveryCommandFinishes ==
    \A n \in 1 .. MaxCmds : nreq >= n ~> Len(outcome) >= n \/ ~ running

(* Every push is eventually dispatched unless the connection closes: what  *)
(* was set aside is drained without waiting for another frame or command.  *)
PushEventuallyHandled ==
    \A n \in 1 .. MaxPushes : npush >= n ~> Len(handled) >= n \/ closed

(* The loop is a channel of pushes that keeps their order and loses none   *)
(* until it breaks, and then delivers: commands, answers and time limits   *)
(* cannot be told from outside.                                            *)
Del == INSTANCE Delivery WITH sent <- npush, broken <- closed

ImplementsDelivery == Del!FairSpec

(* A finished request got its own answer, or none.                         *)
ResponseAnswersRequest ==
    \A n \in DOMAIN outcome : outcome[n].by \in {0, outcome[n].tag}
=============================================================================
