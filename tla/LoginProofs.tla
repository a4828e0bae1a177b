---------------------------- MODULE LoginProofs ----------------------------
(***************************************************************************)
(* The login, for any answers of gate and chat server and any number of    *)
(* clicks and gate threads.  What is inductive with the invariants is that *)
(* the receiver, as long as it is there, has been used by nobody.          *)
(***************************************************************************)
EXTENDS Login, AppStateProofs, TLAPS

(* The receiver is given out once.                                         *)
TakenOnce ==
    /\ out_rx => net = "none"
    /\ spawned <= nclick

IInv == TypeOK /\ TakenOnce /\ MainWindowMeansSession /\ AllOrNothing

-----------------------------------------------------------------------------
(* Nobody has clicked yet.                                                 *)
LEMMA InitIInv == Init => IInv
<1> SUFFICES ASSUME Init PROVE IInv
  OBVIOUS
<1>1. app = New /\ uiq = <<>>
  BY DEF Init
<1>2. app \in State /\ app.my_uid = NoUid /\ app.friends = <<>> /\ app.applies = {}
  BY <1>1 DEF New, State, AnyUid, LoginStatus, ChatMessage, Friend
<1>3. uiq \in Seq(Closure) /\ DOMAIN uiq = {}
  BY <1>1
<1>4. spawned = 0 /\ nclick = 0 /\ njob = 0
  BY DEF Init
<1>5. /\ spawned \in 0 .. MaxClicks /\ nclick \in 0 .. MaxClicks /\ njob \in 0 .. MaxJobs
      /\ spawned <= nclick
  BY <1>4, BoundsAssumption
<1>6. /\ ui = [logged_in |-> FALSE, login_status |-> "", auth_mode |-> LOGIN]
      /\ out_rx \in BOOLEAN /\ net = "none"
      /\ jobs = [n \in 1 .. MaxJobs |-> "none"]
  BY DEF Init
<1>7. ui \in [logged_in : BOOLEAN, auth_mode : {LOGIN, REGISTER, RESET},
             login_status : {"", "connecting", "mismatch", "failed", "done", "refused"}]
      /\ ~ ui.logged_in
  BY <1>6
<1>8. TypeOK
  BY <1>2, <1>3, <1>5, <1>7, <1>6 DEF TypeOK, Phase
<1>. QED
  BY <1>2, <1>3, <1>7, <1>8, <1>5, <1>6 DEF IInv, TakenOnce, MainWindowMeansSession, AllOrNothing

(* A step that keeps what AppState holds of a login, and net, keeps        *)
(* AllOrNothing.                                                           *)
LEMMA SameGrant ==
    ASSUME AllOrNothing, net' = net \/ (net # "session" /\ net' # "session"),
           app'.my_uid = app.my_uid, app'.friends = app.friends, app'.applies = app.applies
    PROVE  AllOrNothing'
BY DEF AllOrNothing

(* The callbacks of the login screen.                                      *)
LEMMA UserIInv ==
    ASSUME IInv,
           \/ DoLogin \/ RequestVerifyCode \/ DoRegister \/ DoRegisterMismatch \/ DoResetPassword
           \/ \E mode \in {LOGIN, REGISTER, RESET} : SetAuthMode(mode)
    PROVE  IInv'
<1>1. CASE DoLogin
  <2>1. app' \in State
        /\ app'.my_uid = app.my_uid /\ app'.friends = app.friends /\ app'.applies = app.applies
    BY <1>1, StatusOnly DEF IInv, TypeOK, DoLogin
  <2>2. /\ nclick \in 0 .. MaxClicks /\ spawned \in 0 .. MaxClicks /\ spawned <= nclick
        /\ nclick < MaxClicks /\ nclick' = nclick + 1 /\ spawned' = spawned + 1
    BY <1>1 DEF IInv, TypeOK, TakenOnce, DoLogin
  <2>3. spawned' \in 0 .. MaxClicks /\ nclick' \in 0 .. MaxClicks /\ spawned' <= nclick'
    BY <2>2, BoundsAssumption
  <2>4. TypeOK'
    BY <1>1, <2>1, <2>3 DEF IInv, TypeOK, DoLogin
  <2>5. AllOrNothing'
    BY <1>1, <2>1, SameGrant DEF IInv, DoLogin
  <2>6. ui'.logged_in = ui.logged_in
    BY <1>1 DEF IInv, TypeOK, DoLogin
  <2>. QED
    BY <1>1, <2>3, <2>4, <2>5, <2>6 DEF IInv, TakenOnce, MainWindowMeansSession, DoLogin
<1>2. ASSUME NEW job \in Job, SpawnGate(job)
      PROVE  IInv'
  <2>1. /\ njob \in 0 .. MaxJobs /\ jobs \in [1 .. MaxJobs -> {"none"} \cup Job]
        /\ njob < MaxJobs /\ njob' = njob + 1 /\ jobs' = [jobs EXCEPT ![njob'] = job]
    BY <1>2 DEF IInv, TypeOK, SpawnGate
  <2>2. njob' \in 0 .. MaxJobs /\ jobs' \in [1 .. MaxJobs -> {"none"} \cup Job]
    BY <2>1, BoundsAssumption
  <2>3. TypeOK'
    BY <1>2, <2>2 DEF IInv, TypeOK, SpawnGate
  <2>4. AllOrNothing'
    BY <1>2, SameGrant DEF IInv, SpawnGate
  <2>. QED
    BY <1>2, <2>3, <2>4 DEF IInv, TakenOnce, MainWindowMeansSession, SpawnGate
<1>3. CASE RequestVerifyCode \/ DoRegister \/ DoResetPassword
  BY <1>2, <1>3 DEF RequestVerifyCode, DoRegister, DoResetPassword, Job
<1>4. CASE DoRegisterMismatch \/ \E mode \in {LOGIN, REGISTER, RESET} : SetAuthMode(mode)
  <2>1. TypeOK'
    BY <1>4 DEF IInv, TypeOK, DoRegisterMismatch, SetAuthMode
  <2>2. UNCHANGED <<app, uiq, out_rx, spawned, net, jobs, nclick, njob>> /\ ui'.logged_in = ui.logged_in
    BY <1>4 DEF IInv, TypeOK, DoRegisterMismatch, SetAuthMode
  <2>3. AllOrNothing'
    BY <2>2, SameGrant DEF IInv
  <2>. QED
    BY <2>1, <2>2, <2>3 DEF IInv, TakenOnce, MainWindowMeansSession
<1>. QED
  BY <1>1, <1>3, <1>4

(* The closures.  The one for the main window stands for a session.        *)
LEMMA ClosureIInv ==
    ASSUME IInv, RunClosure
    PROVE  IInv'
<1> DEFINE c == Head(uiq)
<1>1. uiq \in Seq(Closure) /\ uiq # <<>> /\ uiq' = Tail(uiq)
  BY DEF IInv, TypeOK, RunClosure
<1>2. /\ uiq' \in Seq(Closure) /\ c \in Closure
      /\ c = uiq[1] /\ 1 \in DOMAIN uiq
      /\ \A i \in DOMAIN uiq' : i + 1 \in DOMAIN uiq /\ uiq'[i] = uiq[i + 1]
  BY <1>1, Dequeued
<1>3. app' \in State
      /\ app'.my_uid = app.my_uid /\ app'.friends = app.friends /\ app'.applies = app.applies
  BY StatusOnly DEF IInv, TypeOK, RunClosure, ShowFailure, ShowMain, ShowGateResult
<1>4. TypeOK'
  BY <1>2, <1>3 DEF IInv, TypeOK, RunClosure, ShowFailure, ShowMain, ShowGateResult, LOGIN
<1>5. AllOrNothing'
  BY <1>3, SameGrant DEF IInv, RunClosure
<1>6. ui'.logged_in => ui.logged_in \/ c.op = "logged_in"
  BY DEF IInv, TypeOK, RunClosure, ShowFailure, ShowMain, ShowGateResult
<1>7. MainWindowMeansSession'
  BY <1>2, <1>6 DEF IInv, MainWindowMeansSession, RunClosure
<1>. QED
  BY <1>4, <1>5, <1>7 DEF IInv, TakenOnce, RunClosure

(* The net threads.                                                        *)
LEMMA NetIInv ==
    ASSUME IInv, NetStep
    PROVE  IInv'
<1>1. CASE Take
  <2>1. /\ spawned \in 0 .. MaxClicks /\ nclick \in 0 .. MaxClicks /\ spawned <= nclick
        /\ spawned > 0 /\ spawned' = spawned - 1 /\ nclick' = nclick
    BY <1>1 DEF IInv, TypeOK, TakenOnce, Take
  <2>2. spawned' \in 0 .. MaxClicks /\ spawned' <= nclick'
    BY <2>1, BoundsAssumption
  <2>3. TypeOK'
    BY <1>1, <2>2 DEF IInv, TypeOK, Take, Phase, LoggingIn
  <2>4. net' = net \/ (net # "session" /\ net' # "session")
    BY <1>1 DEF IInv, TakenOnce, Take
  <2>5. AllOrNothing'
    BY <1>1, <2>4, SameGrant DEF IInv, Take
  <2>. QED
    BY <1>1, <2>3, <2>4, <2>5, <2>2 DEF IInv, TakenOnce, MainWindowMeansSession, Take
<1>2. CASE UserLogin \/ Connect
  <2>1. TypeOK'
    BY <1>2 DEF IInv, TypeOK, UserLogin, Connect, Phase, LoggingIn
  <2>2. AllOrNothing'
    BY <1>2, SameGrant DEF IInv, UserLogin, Connect
  <2>. QED
    BY <1>2, <2>1, <2>2 DEF IInv, TakenOnce, MainWindowMeansSession, UserLogin, Connect
<1>3. CASE LoginSucceeded
  <2>1. PICK frame \in LoginFrames : \E d \in login_data(frame) :
           app' = seed_applies(login_succeeded(app, d.uid, d.friends), d.applies)
    BY <1>3 DEF LoginSucceeded
  <2>2. PICK d \in login_data(frame) :
           app' = seed_applies(login_succeeded(app, d.uid, d.friends), d.applies)
    BY <2>1
  <2>3. d.uid \in Uid /\ d.friends \in Seq(Friend) /\ d.applies \in Seq(FriendApply)
    BY <2>2, FramesAssumption
  <2>4. app \in State /\ app.applies = {}
    BY <1>3 DEF IInv, TypeOK, AllOrNothing, LoginSucceeded
  <2>5. /\ app' \in State
        /\ app'.my_uid = d.uid /\ app'.friends = d.friends
        /\ {a.from_uid : a \in app'.applies} = {d.applies[i].from_uid : i \in DOMAIN d.applies}
    BY <2>2, <2>3, <2>4, LoginLeaves
  <2>6. PICK x \in Optional(frame.body, "data", {}) :
           d = LoginData(x) /\ IsLoginData(x) /\ frame.id = LOGIN_RESPONSE /\ frame.body.status = 0
    BY <2>2 DEF login_data
  <2>7. /\ app'.my_uid = LoginData(x).uid /\ app'.friends = LoginData(x).friends
        /\ {a.from_uid : a \in app'.applies}
              = {LoginData(x).applies[i].from_uid : i \in DOMAIN LoginData(x).applies}
    BY <2>5, <2>6
  <2>8. AllOrNothing'
    BY <1>3, <2>6, <2>7 DEF AllOrNothing, LoginSucceeded
  <2>9. TypeOK'
    BY <1>3, <2>5, Queued DEF IInv, TypeOK, LoginSucceeded, Phase, Closure
  <2>. QED
    BY <1>3, <2>8, <2>9 DEF IInv, TakenOnce, MainWindowMeansSession, LoginSucceeded
<1>4. CASE LoginFailed
  <2>1. /\ uiq \in Seq(Closure) /\ [op |-> "failed"] \in Closure
        /\ uiq' = Append(uiq, [op |-> "failed"])
    BY <1>4 DEF IInv, TypeOK, LoginFailed, Closure
  <2>2. /\ uiq' \in Seq(Closure)
        /\ \A i \in DOMAIN uiq' :
              uiq'[i] = [op |-> "failed"] \/ (i \in DOMAIN uiq /\ uiq'[i] = uiq[i])
    BY <2>1, Queued
  <2>3. /\ uiq' \in Seq(Closure)
        /\ \A i \in DOMAIN uiq' : uiq'[i].op = "failed" \/ (i \in DOMAIN uiq /\ uiq'[i] = uiq[i])
    BY <2>2
  <2>4. TypeOK'
    BY <1>4, <2>3 DEF IInv, TypeOK, LoginFailed, Phase
  <2>5. net # "session" /\ net' # "session"
    BY <1>4 DEF LoginFailed, LoggingIn
  <2>6. AllOrNothing'
    BY <1>4, <2>5, SameGrant DEF IInv, LoginFailed
  <2>7. MainWindowMeansSession'
    BY <1>4, <2>3, <2>5 DEF IInv, MainWindowMeansSession, LoginFailed
  <2>. QED
    BY <1>4, <2>4, <2>6, <2>7 DEF IInv, TakenOnce, LoginFailed, LoggingIn
<1>. QED
  BY <1>1, <1>2, <1>3, <1>4 DEF NetStep

(* The gate threads.                                                       *)
LEMMA GateIInv ==
    ASSUME IInv, NEW n \in 1 .. MaxJobs, GateDone(n)
    PROVE  IInv'
<1>1. PICK ok \in BOOLEAN : uiq' = Append(uiq, [op |-> "gate", job |-> jobs[n], ok |-> ok])
  BY DEF GateDone
<1>2. jobs[n] \in Job
  BY DEF IInv, TypeOK, GateDone
<1> DEFINE c == [op |-> "gate", job |-> jobs[n], ok |-> ok]
<1>3. uiq \in Seq(Closure) /\ c \in Closure /\ c.op = "gate"
  BY <1>2 DEF IInv, TypeOK, Closure
<1> HIDE DEF c
<1>4. /\ uiq' \in Seq(Closure)
      /\ \A i \in DOMAIN uiq' : uiq'[i].op = "gate" \/ (i \in DOMAIN uiq /\ uiq'[i] = uiq[i])
  <2>1. uiq' = Append(uiq, c)
    BY <1>1 DEF c
  <2>2. /\ uiq' \in Seq(Closure)
        /\ \A i \in DOMAIN uiq' : uiq'[i] = c \/ (i \in DOMAIN uiq /\ uiq'[i] = uiq[i])
    BY <1>3, <2>1, Queued
  <2>. QED
    BY <1>3, <2>2
<1>5. TypeOK'
  BY <1>4 DEF IInv, TypeOK, GateDone
<1>6. AllOrNothing'
  BY SameGrant DEF IInv, GateDone
<1>7. MainWindowMeansSession'
  BY <1>4 DEF IInv, MainWindowMeansSession, GateDone
<1>. QED
  BY <1>5, <1>6, <1>7 DEF IInv, TakenOnce, GateDone

(* Every step keeps the invariant.                                         *)
LEMMA NextIInv == IInv /\ [Next]_vars => IInv'
<1> SUFFICES ASSUME IInv, [Next]_vars PROVE IInv'
  OBVIOUS
<1>1. CASE UNCHANGED vars
  BY <1>1 DEF vars, IInv, TypeOK, TakenOnce, MainWindowMeansSession, AllOrNothing
<1>. QED
  BY <1>1, UserIInv, ClosureIInv, NetIInv, GateIInv DEF Next

(* The invariants hold together.                                           *)
LEMMA LoginIInv == Spec => []IInv
BY InitIInv, NextIInv, PTL DEF Spec

-----------------------------------------------------------------------------
(* The login's state keeps its type.                                       *)
THEOREM LoginTypeOK == Spec => []TypeOK
BY LoginIInv, PTL DEF IInv

(* The main window opens for a granted login only.                         *)
THEOREM LoginMainWindow == Spec => []MainWindowMeansSession
BY LoginIInv, PTL DEF IInv

(* app holds all of a granted login, or nothing.                           *)
THEOREM LoginAllOrNothing == Spec => []AllOrNothing
BY LoginIInv, PTL DEF IInv

(* There is one attempt, and it only goes forward.                         *)
THEOREM LoginOneAttempt == Spec => OneAttempt
<1>1. IInv /\ [Next]_vars => [net' # net => Rank[net'] > Rank[net]]_vars
  <2> SUFFICES ASSUME IInv, [Next]_vars, net' # net
               PROVE  Rank[net'] > Rank[net]
    OBVIOUS
  <2>1. CASE Take
    BY <2>1 DEF Take, IInv, TakenOnce, Rank
  <2>2. CASE UserLogin \/ Connect \/ LoginSucceeded
    BY <2>2 DEF UserLogin, Connect, LoginSucceeded, Rank
  <2>3. CASE LoginFailed
    BY <2>3 DEF LoginFailed, LoggingIn, Rank
  <2>4. NetStep
    BY DEF Next, vars, DoLogin, RequestVerifyCode, DoRegister, DoRegisterMismatch,
           DoResetPassword, SpawnGate, SetAuthMode, RunClosure, GateDone
  <2>. QED
    BY <2>1, <2>2, <2>3, <2>4 DEF NetStep
<1>. QED
  BY <1>1, LoginIInv, PTL DEF Spec, OneAttempt
=============================================================================
