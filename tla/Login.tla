-------------------------------- MODULE Login --------------------------------
(***************************************************************************)
(* The login screen: the callbacks of src/main.rs that work on it, the net *)
(* threads they spawn up to the start of the session (run_network and      *)
(* do_login in src/net_loop.rs), the short-lived gate threads (spawn_gate) *)
(* and the closures with which all of them reach the UI thread.            *)
(*                                                                         *)
(* The command channel's receiver out_rx is in a mutex; the net thread     *)
(* that takes it is the one that logs in.  A bad address and an HTTP or    *)
(* socket error may come at any time; what a reply or a frame grants is    *)
(* read from it as Messages says.                                          *)
(***************************************************************************)
EXTENDS Messages

CONSTANTS
    GateReplies,    \* the bodies the gate may reply with
    LoginFrames,    \* the frames the chat server may send first
    MaxClicks,      \* bound: clicks on the login button
    MaxJobs         \* bound: gate threads

ASSUME FramesAssumption ==
    \A frame \in LoginFrames : \A d \in login_data(frame) :
        d.uid \in Uid /\ d.friends \in Seq(Friend) /\ d.applies \in Seq(FriendApply)
ASSUME BoundsAssumption == MaxClicks \in Nat /\ MaxJobs \in Nat

VARIABLES
    app,       \* Arc<Mutex<AppState>>
    ui,        \* the properties of the login screen
    uiq,       \* closures queued for the UI thread
    out_rx,    \* the receiver is still to be taken
    spawned,   \* net threads that have not tried to take it
    net,       \* how far the net thread is that took it
    jobs,      \* the gate threads: what each asks for, while it runs
    nclick,    \* clicks on the login button so far
    njob       \* gate threads so far

vars == <<app, ui, uiq, out_rx, spawned, net, jobs, nclick, njob>>

\* The auth modes of the screen.
LOGIN == 0
REGISTER == 1
RESET == 2

\* What a gate thread asks for, and the calls that switch to the login mode.
Job == {"code", "register", "reset"}
Switching == {"register", "reset"}

LoggingIn == {"gate", "connect", "login"}
Phase == {"none", "session", "over"} \cup LoggingIn

Init ==
    /\ app = New
    /\ ui = [logged_in |-> FALSE, login_status |-> "", auth_mode |-> LOGIN]
    /\ uiq = <<>>
    /\ out_rx = TRUE /\ spawned = 0 /\ net = "none"
    /\ jobs = [n \in 1 .. MaxJobs |-> "none"]
    /\ nclick = 0 /\ njob = 0

-----------------------------------------------------------------------------
(* The UI thread. *)

OnScreen(modes) == ~ ui.logged_in /\ ui.auth_mode \in modes

DoLogin ==
    /\ OnScreen({LOGIN})
    /\ nclick < MaxClicks
    /\ nclick' = nclick + 1
    /\ app' = begin_login(app)
    /\ ui' = [ui EXCEPT !.login_status = "connecting"]
    /\ spawned' = spawned + 1
    /\ UNCHANGED <<uiq, out_rx, net, jobs, njob>>

SetAuthMode(mode) ==
    /\ ~ ui.logged_in
    /\ ui' = [ui EXCEPT !.auth_mode = mode, !.login_status = ""]
    /\ UNCHANGED <<app, uiq, out_rx, spawned, net, jobs, nclick, njob>>

SpawnGate(job) ==
    /\ njob < MaxJobs
    /\ njob' = njob + 1
    /\ jobs' = [jobs EXCEPT ![njob'] = job]
    /\ UNCHANGED <<app, ui, uiq, out_rx, spawned, net, nclick>>

RequestVerifyCode == OnScreen({REGISTER, RESET}) /\ SpawnGate("code")

DoRegister == OnScreen({REGISTER}) /\ SpawnGate("register")

\* The two passwords differ.
DoRegisterMismatch ==
    /\ OnScreen({REGISTER})
    /\ ui' = [ui EXCEPT !.login_status = "mismatch"]
    /\ UNCHANGED <<app, uiq, out_rx, spawned, net, jobs, nclick, njob>>

DoResetPassword == OnScreen({RESET}) /\ SpawnGate("reset")

ShowFailure ==
    /\ app' = login_failed(app)
    /\ ui' = [ui EXCEPT !.login_status = "failed"]

ShowMain ==
    /\ ui' = [ui EXCEPT !.logged_in = TRUE, !.login_status = ""]
    /\ UNCHANGED app

\* A refused call switches too.
ShowGateResult(c) ==
    /\ ui' = [ui EXCEPT !.login_status = IF c.ok THEN "done" ELSE "refused",
                        !.auth_mode = IF c.job \in Switching THEN LOGIN ELSE @]
    /\ UNCHANGED app

RunClosure ==
    /\ uiq # <<>>
    /\ uiq' = Tail(uiq)
    /\ LET c == Head(uiq)
       IN  \/ c.op = "failed" /\ ShowFailure
           \/ c.op = "logged_in" /\ ShowMain
           \/ c.op = "gate" /\ ShowGateResult(c)
    /\ UNCHANGED <<out_rx, spawned, net, jobs, nclick, njob>>

-----------------------------------------------------------------------------
(* The net threads. *)

\* Mutant: the receiver is used without being taken.
TakeShared ==
    /\ spawned > 0
    /\ spawned' = spawned - 1
    /\ out_rx
    /\ net' = "gate"
    /\ UNCHANGED <<app, ui, uiq, out_rx, jobs, nclick, njob>>

\* The first thread takes the receiver and goes on to the gate; any other
\* finds it gone and ends.
Take ==
    /\ spawned > 0
    /\ spawned' = spawned - 1
    /\ out_rx' = FALSE
    /\ net' = IF out_rx THEN "gate" ELSE net
    /\ UNCHANGED <<app, ui, uiq, jobs, nclick, njob>>

\* The gate accepts the password and names the chat server.
UserLogin ==
    /\ net = "gate"
    /\ \E reply \in GateReplies : user_login(reply) # {}
    /\ net' = "connect"
    /\ UNCHANGED <<app, ui, uiq, out_rx, spawned, jobs, nclick, njob>>

Connect ==
    /\ net = "connect"
    /\ net' = "login"
    /\ UNCHANGED <<app, ui, uiq, out_rx, spawned, jobs, nclick, njob>>

\* The login response grants the login: app is filled in one critical
\* section, then the main window is asked for and the session begins.
LoginSucceeded ==
    /\ net = "login"
    /\ net' = "session"
    /\ \E frame \in LoginFrames : \E d \in login_data(frame) :
          app' = seed_applies(login_succeeded(app, d.uid, d.friends), d.applies)
    /\ uiq' = Append(uiq, [op |-> "logged_in"])
    /\ UNCHANGED <<ui, out_rx, spawned, jobs, nclick, njob>>

\* Mutant: the main window is asked for as well.
LoginFailedYetShown ==
    /\ net \in LoggingIn
    /\ net' = "over"
    /\ uiq' = uiq \o <<[op |-> "failed"], [op |-> "logged_in"]>>
    /\ UNCHANGED <<app, ui, out_rx, spawned, jobs, nclick, njob>>

\* Mutant: the thread ends without a word.
LoginFailedSilently ==
    /\ net \in LoggingIn
    /\ net' = "over"
    /\ UNCHANGED <<app, ui, uiq, out_rx, spawned, jobs, nclick, njob>>

\* Any step of do_login fails, by an error or by a reply or frame that does
\* not grant the login: run_network returns and nothing is kept.
LoginFailed ==
    /\ net \in LoggingIn
    /\ net' = "over"
    /\ uiq' = Append(uiq, [op |-> "failed"])
    /\ UNCHANGED <<app, ui, out_rx, spawned, jobs, nclick, njob>>

NetStep == Take \/ UserLogin \/ Connect \/ LoginSucceeded \/ LoginFailed

\* What the gate may have granted to a thread; an error of HTTP is no reply.
Granted(job, reply) ==
    CASE job = "code"     -> get_verify_code(reply)
      [] job = "register" -> register(reply)
      [] job = "reset"    -> reset_password(reply)

\* Mutant: a thread reports again what it has reported.
GateDoneAgain(n) ==
    /\ n <= njob
    /\ Len(uiq) < 2
    /\ jobs' = [jobs EXCEPT ![n] = "none"]
    /\ uiq' = Append(uiq, [op |-> "gate", job |-> jobs[n], ok |-> FALSE])
    /\ UNCHANGED <<app, ui, out_rx, spawned, net, nclick, njob>>

\* A gate thread ends with a message, after a success as after an error.
GateDone(n) ==
    /\ jobs[n] # "none"
    /\ jobs' = [jobs EXCEPT ![n] = "none"]
    /\ \E ok \in {Granted(jobs[n], reply) # {} : reply \in GateReplies} \cup {FALSE} :
          uiq' = Append(uiq, [op |-> "gate", job |-> jobs[n], ok |-> ok])
    /\ UNCHANGED <<app, ui, out_rx, spawned, net, nclick, njob>>

Next ==
    \/ DoLogin \/ RequestVerifyCode \/ DoRegister \/ DoRegisterMismatch \/ DoResetPassword
    \/ \E mode \in {LOGIN, REGISTER, RESET} : SetAuthMode(mode)
    \/ RunClosure
    \/ NetStep
    \/ \E n \in 1 .. MaxJobs : GateDone(n)

Spec == Init /\ [][Next]_vars

\* The event loop runs what is queued.  Threads that were spawned run, and
\* both servers answer or break the connection: do_login has no time limit of
\* its own.
FairSpec == Spec /\ WF_vars(RunClosure) /\ WF_vars(NetStep)

-----------------------------------------------------------------------------
(* The type invariant. *)
Closure ==
    [op : {"failed", "logged_in"}] \cup [op : {"gate"}, job : Job, ok : BOOLEAN]

TypeOK ==
    /\ app \in State
    /\ ui \in [logged_in : BOOLEAN, auth_mode : {LOGIN, REGISTER, RESET},
               login_status : {"", "connecting", "mismatch", "failed", "done", "refused"}]
    /\ uiq \in Seq(Closure)
    /\ out_rx \in BOOLEAN /\ net \in Phase
    /\ spawned \in 0 .. MaxClicks /\ nclick \in 0 .. MaxClicks
    /\ jobs \in [1 .. MaxJobs -> {"none"} \cup Job] /\ njob \in 0 .. MaxJobs

(* The main window stands for a session: it is shown, or asked for, only   *)
(* when a login was granted.  No repeated click and no late gate answer    *)
(* opens it.                                                               *)
MainWindowMeansSession ==
    ui.logged_in \/ (\E i \in DOMAIN uiq : uiq[i].op = "logged_in") => net = "session"

(* app holds what a login response granted, its user, its friends and      *)
(* nobody's applies but its own, or nothing at all: a refusal, a response  *)
(* without data or with an entry that cannot be read, or a push that comes *)
(* first leave no part of a login behind.                                  *)
AllOrNothing ==
    IF net = "session"
    THEN \E frame \in LoginFrames : \E d \in Optional(frame.body, "data", {}) :
            LET granted == LoginData(d)
            IN  /\ frame.id = LOGIN_RESPONSE /\ frame.body.status = 0 /\ IsLoginData(d)
                /\ app.my_uid = granted.uid /\ app.friends = granted.friends
                /\ {a.from_uid : a \in app.applies} =
                      {granted.applies[i].from_uid : i \in DOMAIN granted.applies}
    ELSE app.my_uid = NoUid /\ app.friends = <<>> /\ app.applies = {}

Rank == [none |-> 0, gate |-> 1, connect |-> 2, login |-> 3, session |-> 4, over |-> 4]

(* There is one attempt to log in and it only goes forward: a repeated     *)
(* click neither starts a second one nor restarts or replaces the first.   *)
OneAttempt == [][net' # net => Rank[net'] > Rank[net]]_vars

(* An attempt to log in ends with the main window or with its message on   *)
(* the login screen, whatever is clicked and answered meanwhile.           *)
AttemptIsShown ==
    (spawned > 0 /\ out_rx) \/ net \in LoggingIn
        ~> ui.logged_in \/ (ui.login_status = "failed" /\ app.login_status = "Failed")

(* A net thread that finds the receiver gone leaves the work to another    *)
(* one that is running.                                                    *)
RepeatFindsOneRunning ==
    [][spawned' < spawned /\ ~ out_rx => net \in LoggingIn \cup {"session"}]_vars
=============================================================================
