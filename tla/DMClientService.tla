-------------------------- MODULE DMClientService --------------------------
(***************************************************************************)
(* The DM client service (DMService/.../DMClientService.java) with the     *)
(* parts of DMSession, DMAlert, DMAlertActivity and the JNI entry points   *)
(* that share its locks.                                                   *)
(*                                                                         *)
(* Threads:                                                                *)
(*   - the IntentService worker runs one launch intent at a time and       *)
(*     keeps mSessionLock for the whole native session;                    *)
(*   - the main thread delivers intents and broadcasts, runs the dialog    *)
(*     activity and the ten-minute mAbortSession callback;                 *)
(*   - binder threads read the tree with getDMTree.                        *)
(*                                                                         *)
(* A session's traffic is abstracted to its outcome and to the alerts it   *)
(* shows.  A process crash (an uncaught NullPointerException) loses        *)
(* everything volatile; the next intent restarts the process.              *)
(***************************************************************************)
EXTENDS Naturals, Sequences, FiniteSets

CONSTANTS
    Requests,     \* launch intents, each sent at most once
    Kind,         \* what an intent asks for
    RequestID,    \* its FIELD_REQUEST_ID extra, 0 when absent
    Binders,      \* binder threads
    MaxAlerts,    \* bound: user alerts per session
    NoRequest,    \* the worker has no intent at hand
    Worker, Main, \* the two threads of the service that take mSessionLock
    Nobody        \* mSessionLock is free

\* "pkg0": TYPE_PKG0_NOTIFICATION.  "session": the other types that run a
\* session.  "cancel": TYPE_CANCEL_DM_SESSION.  "ignored": an unknown type, or
\* an extra is missing, and onHandleIntent returns at once.
SessionKinds == {"pkg0", "session"}
Kinds == SessionKinds \cup {"cancel", "ignored"}

ASSUME RequestsAssumption == /\ Kind \in [Requests -> Kinds]
                             /\ RequestID \in [Requests -> Nat]
                             /\ NoRequest \notin Requests
ASSUME ThreadsAssumption == /\ Worker # Main
                            /\ Worker # Nobody
                            /\ Main # Nobody
                            /\ Binders \cap {Worker, Main, Nobody} = {}
ASSUME MaxAlertsAssumption == MaxAlerts \in Nat

VARIABLES
    sent,         \* intents that startService has accepted
    up,           \* the service instance exists
    configReady,  \* mDMConfigureTask has delivered the configuration database
    queue,        \* the worker's message queue
    wpc, cur, ret,  \* the worker: control point, intent at hand, result code
    mpc,          \* the main thread: "idle", or in mAbortSession
    bpc,          \* the binder threads
    lock,         \* owner of mSessionLock
    mSession,     \* mSession # null
    mServiceID,
    mHttpConnector, \* mSession.mHttpConnector # null
    mUIMode,      \* mSession.mDMAlert.mUIMode
    timer,        \* mAbortSession is posted on the handler
    g_cancelSession, \* the native cancel flag
    sIsDMSessionInProgress,
    alerts,       \* alerts the running session has shown
    dialog,       \* the alert activity
    results,      \* DM_SERVICE_RESULT broadcasts, in order
    crashed       \* history: the process has died of an exception

worker == <<wpc, cur, ret>>
session == <<mSession, mServiceID, mHttpConnector, mUIMode>>
alert == <<alerts, dialog>>
vars == <<sent, up, configReady, queue, worker, mpc, bpc, lock, session, timer,
          g_cancelSession, sIsDMSessionInProgress, alert, results, crashed>>

Results == {"success", "fail", "param_err"}
WorkerPCs == {"idle", "cancel", "process", "create", "tick", "enter",
              "running", "alert", "await", "signalled", "clear", "result",
              "finally"}
\* The control points of the worker inside the native session.
InNative == {"running", "alert", "await", "signalled"}
\* The control points of the worker in processMsg.
InProcessMsg == WorkerPCs \ {"idle", "cancel", "process"}

TypeOK ==
    /\ sent \subseteq Requests
    /\ up \in BOOLEAN
    /\ configReady \in BOOLEAN
    /\ queue \in Seq(Requests)
    /\ wpc \in WorkerPCs
    /\ cur \in Requests \cup {NoRequest}
    /\ ret \in Results
    /\ mpc \in {"idle", "abort"}
    /\ bpc \in [Binders -> {"out", "wait", "in"}]
    /\ lock \in Binders \cup {Worker, Main, Nobody}
    /\ mSession \in BOOLEAN
    /\ mServiceID \in Nat
    /\ mHttpConnector \in BOOLEAN
    /\ mUIMode \in BOOLEAN
    /\ timer \in BOOLEAN
    /\ g_cancelSession \in {0, 1}
    /\ sIsDMSessionInProgress \in BOOLEAN
    /\ alerts \in 0..MaxAlerts
    /\ dialog \in {"none", "starting", "open", "closed"}
    /\ results \in Seq([req : Requests, ret : Results])
    /\ crashed \in BOOLEAN

Init ==
    /\ sent = {}
    /\ up = FALSE
    /\ configReady = FALSE
    /\ queue = <<>>
    /\ wpc = "idle" /\ cur = NoRequest /\ ret = "param_err"
    /\ mpc = "idle"
    /\ bpc = [b \in Binders |-> "out"]
    /\ lock = Nobody
    /\ mSession = FALSE /\ mServiceID = 0 /\ mHttpConnector = FALSE
    /\ mUIMode = TRUE
    /\ timer = FALSE
    /\ g_cancelSession = 0
    /\ sIsDMSessionInProgress = FALSE
    /\ alerts = 0 /\ dialog = "none"
    /\ results = <<>>
    /\ crashed = FALSE

----------------------------------------------------------------------------
\* Intents

\* startService: the main thread creates the service if need be and posts the
\* intent to the worker.
Launch(r) ==
    /\ r \notin sent
    /\ mpc = "idle"
    /\ sent' = sent \cup {r}
    /\ up' = TRUE
    /\ queue' = Append(queue, r)
    /\ UNCHANGED <<configReady, worker, mpc, bpc, lock, session, timer,
                   g_cancelSession, sIsDMSessionInProgress, alert, results,
                   crashed>>

\* onHandleIntent takes the next intent.
TakeIntent ==
    /\ wpc = "idle"
    /\ queue # <<>>
    /\ queue' = Tail(queue)

Unhandled == <<sent, up, configReady, mpc, bpc, lock, session, timer,
               g_cancelSession, sIsDMSessionInProgress, alert, results,
               crashed>>

\* onHandleIntent returns at once: an "ignored" intent, or a configuration
\* database that is not ready after 70 seconds.
ReturnEarly ==
    /\ TakeIntent
    /\ Kind[Head(queue)] = "ignored" \/ ~configReady
    /\ UNCHANGED <<worker, Unhandled>>

HandleSession ==
    /\ TakeIntent
    /\ configReady
    /\ Kind[Head(queue)] \in SessionKinds
    /\ wpc' = "process" /\ cur' = Head(queue) /\ ret' = ret
    /\ UNCHANGED Unhandled

HandleCancel ==
    /\ TakeIntent
    /\ configReady
    /\ Kind[Head(queue)] = "cancel"
    /\ wpc' = "cancel" /\ cur' = Head(queue) /\ ret' = ret
    /\ UNCHANGED Unhandled

----------------------------------------------------------------------------
\* cancelSession, under mSessionLock

\* Mutant of Cancels: mSession is not tested.
CancelsUnchecked(id) == id = 0 \/ mServiceID = id

\* The cancel applies to the session mSession points to.
Cancels(id) == (id = 0 \/ mServiceID = id) /\ mSession

\* mHttpConnector.closeSession() throws when the connector is null, and nobody
\* catches it.
CancelThrows(id) == Cancels(id) /\ ~mHttpConnector

\* The process dies: every thread, static and instance field is gone.
Die ==
    /\ up' = FALSE
    /\ configReady' = FALSE
    /\ queue' = <<>>
    /\ wpc' = "idle" /\ cur' = NoRequest /\ ret' = "param_err"
    /\ mpc' = "idle"
    /\ bpc' = [b \in Binders |-> "out"]
    /\ lock' = Nobody
    /\ mSession' = FALSE /\ mServiceID' = 0 /\ mHttpConnector' = FALSE
    /\ mUIMode' = TRUE
    /\ timer' = FALSE
    /\ g_cancelSession' = 0
    /\ sIsDMSessionInProgress' = FALSE
    /\ alerts' = 0 /\ dialog' = "none"
    /\ crashed' = TRUE
    /\ UNCHANGED <<sent, results>>

\* NativeDM.cancelSession sets the flag; the connector is closed and dropped.
\* CANCEL_ALERT_DLG only hides the dialog: its activity still times out.
CancelSession(id) ==
    /\ g_cancelSession' = IF Cancels(id) THEN 1 ELSE g_cancelSession
    /\ mHttpConnector' = (mHttpConnector /\ ~Cancels(id))
    /\ UNCHANGED <<sent, up, configReady, queue, bpc, lock, mSession,
                   mServiceID, mUIMode, timer, sIsDMSessionInProgress, alert,
                   results, crashed>>

\* TYPE_CANCEL_DM_SESSION on the worker, then processMsg(TYPE_DO_NOTHING).
WorkerCancel ==
    /\ wpc = "cancel"
    /\ lock = Nobody
    /\ IF CancelThrows(RequestID[cur])
       THEN Die
       ELSE /\ CancelSession(RequestID[cur])
            /\ wpc' = "process"
            /\ UNCHANGED <<cur, ret, mpc>>

\* The ten-minute callback comes due on the main thread: any time later than
\* the few instructions from its posting to the session.
FireTimeout ==
    /\ timer
    /\ wpc # "enter"
    /\ mpc = "idle"
    /\ timer' = FALSE
    /\ mpc' = "abort"
    /\ UNCHANGED <<sent, up, configReady, queue, worker, bpc, lock, session,
                   g_cancelSession, sIsDMSessionInProgress, alert, results,
                   crashed>>

\* mAbortSession: cancelSession(0), once mSessionLock is free.
AbortSession ==
    /\ mpc = "abort"
    /\ lock = Nobody
    /\ IF CancelThrows(0)
       THEN Die
       ELSE CancelSession(0) /\ mpc' = "idle" /\ UNCHANGED worker

----------------------------------------------------------------------------
\* processMsg, on the worker

\* The worker moves on; what else changes is up to the step.
Goto(from, to) == wpc = from /\ wpc' = to /\ cur' = cur

\* Mutant of BeginProcessMsg: the in-progress flag is left to the session.
BeginProcessMsgUnflagged ==
    /\ Goto("process", "create")
    /\ ret' = "param_err"
    /\ UNCHANGED <<sent, up, configReady, queue, mpc, bpc, lock, session,
                   timer, g_cancelSession, sIsDMSessionInProgress, alert,
                   results, crashed>>

BeginProcessMsg ==
    /\ Goto("process", "create")
    /\ ret' = "param_err"
    /\ sIsDMSessionInProgress' = TRUE
    /\ UNCHANGED <<sent, up, configReady, queue, mpc, bpc, lock, session,
                   timer, g_cancelSession, alert, results, crashed>>

\* synchronized: new DMSession (with a new DMAlert), mServiceID.
CreateSession ==
    /\ Goto("create", IF Kind[cur] = "cancel" THEN "clear" ELSE "tick")
    /\ lock = Nobody
    /\ mSession' = TRUE
    /\ mServiceID' = RequestID[cur]
    /\ mHttpConnector' = FALSE
    /\ mUIMode' = TRUE
    /\ UNCHANGED <<sent, up, configReady, queue, ret, mpc, bpc, lock, timer,
                   g_cancelSession, sIsDMSessionInProgress, alert, results,
                   crashed>>

\* startTimeOutTick: replaces a callback still pending.
StartTimeOutTick ==
    /\ Goto("tick", "enter")
    /\ timer' = TRUE
    /\ UNCHANGED <<sent, up, configReady, queue, ret, mpc, bpc, lock, session,
                   g_cancelSession, sIsDMSessionInProgress, alert, results,
                   crashed>>

\* Mutant of RejectPkg0: it returns from processMsg.
RejectPkg0Returns ==
    /\ Goto("enter", "finally")
    /\ lock = Nobody
    /\ Kind[cur] = "pkg0"
    /\ ret' \in {"fail", "param_err"}
    /\ UNCHANGED <<sent, up, configReady, queue, mpc, bpc, lock, session,
                   timer, g_cancelSession, sIsDMSessionInProgress, alert,
                   results, crashed>>

\* Mutant of RejectPkg0: an engine error code is passed on as it is.
RejectPkg0Unmapped ==
    /\ Goto("enter", "clear")
    /\ lock = Nobody
    /\ Kind[cur] = "pkg0"
    /\ ret' \in {"auth_fail", "param_err"}
    /\ UNCHANGED <<sent, up, configReady, queue, mpc, bpc, lock, session,
                   timer, g_cancelSession, sIsDMSessionInProgress, alert,
                   results, crashed>>

\* parsePkg0 or the server id fails: no connector, no native session.
RejectPkg0 ==
    /\ Goto("enter", "clear")
    /\ lock = Nobody
    /\ Kind[cur] = "pkg0"
    /\ ret' \in {"fail", "param_err"}
    /\ UNCHANGED <<sent, up, configReady, queue, mpc, bpc, lock, session,
                   timer, g_cancelSession, sIsDMSessionInProgress, alert,
                   results, crashed>>

\* synchronized, up to FinishSession: DMSession.start...Session creates the
\* connector, the native entry point clears the cancel flag.
EnterSession ==
    /\ Goto("enter", "running")
    /\ lock = Nobody
    /\ lock' = Worker
    /\ mHttpConnector' = TRUE
    /\ mUIMode' \in IF Kind[cur] = "pkg0" THEN BOOLEAN ELSE {mUIMode}
    /\ g_cancelSession' = 0
    /\ alerts' = 0
    /\ UNCHANGED <<sent, up, configReady, queue, ret, mpc, bpc, mSession,
                   mServiceID, timer, sIsDMSessionInProgress, dialog, results,
                   crashed>>

\* The message loop ends: no more messages, an error, an exception that
\* start...Session swallows, or the cancel flag, which is not an error.
FinishSession ==
    /\ Goto("running", "clear")
    /\ ret' \in {"success"} \cup
                 IF g_cancelSession = 1 THEN {} ELSE {"fail"}
    /\ mHttpConnector' = FALSE
    /\ lock' = Nobody
    /\ UNCHANGED <<sent, up, configReady, queue, mpc, bpc, mSession,
                   mServiceID, mUIMode, timer, g_cancelSession,
                   sIsDMSessionInProgress, alert, results, crashed>>

ClearSession ==
    /\ Goto("clear", "result")
    /\ lock = Nobody
    /\ mSession' = FALSE
    /\ UNCHANGED <<sent, up, configReady, queue, ret, mpc, bpc, lock,
                   mServiceID, mHttpConnector, mUIMode, timer, g_cancelSession,
                   sIsDMSessionInProgress, alert, results, crashed>>

\* Mutant of SendResult: the result goes out after the flag is cleared.
SendResultLate ==
    /\ Goto("result", "finally")
    /\ results' = Append(results, [req |-> cur, ret |-> ret])
    /\ sIsDMSessionInProgress' = FALSE
    /\ UNCHANGED <<sent, up, configReady, queue, ret, mpc, bpc, lock, session,
                   timer, g_cancelSession, alert, crashed>>

SendResult ==
    /\ Goto("result", "finally")
    /\ results' = Append(results, [req |-> cur, ret |-> ret])
    /\ UNCHANGED <<sent, up, configReady, queue, ret, mpc, bpc, lock, session,
                   timer, g_cancelSession, sIsDMSessionInProgress, alert,
                   crashed>>

\* Mutant of EndProcessMsg: the finally block sends the result, too.
EndProcessMsgAnswers ==
    /\ wpc = "finally"
    /\ wpc' = "idle" /\ cur' = NoRequest /\ ret' = ret
    /\ sIsDMSessionInProgress' = FALSE
    /\ results' = Append(results, [req |-> cur, ret |-> ret])
    /\ UNCHANGED <<sent, up, configReady, queue, mpc, bpc, lock, session,
                   timer, g_cancelSession, alert, crashed>>

EndProcessMsg ==
    /\ wpc = "finally"
    /\ wpc' = "idle" /\ cur' = NoRequest /\ ret' = ret
    /\ sIsDMSessionInProgress' = FALSE
    /\ UNCHANGED <<sent, up, configReady, queue, mpc, bpc, lock, session,
                   timer, g_cancelSession, alert, results, crashed>>

----------------------------------------------------------------------------
\* Alerts of a session (DMAlert on the worker, DMAlertActivity on the main
\* thread)

AlertUnchanged == <<sent, up, configReady, queue, cur, ret, mpc, bpc, lock,
                    session, timer, g_cancelSession, sIsDMSessionInProgress,
                    results, crashed>>

\* registerReceiver, startActivity.
ShowAlert ==
    /\ wpc = "running"
    /\ alerts < MaxAlerts
    /\ wpc' = "alert"
    /\ alerts' = alerts + 1
    /\ dialog' = "starting"
    /\ UNCHANGED AlertUnchanged

\* mLock.lock(), mCond.await(): no condition is tested first.
AwaitClosed ==
    /\ wpc = "alert"
    /\ wpc' = "await"
    /\ UNCHANGED <<alert, AlertUnchanged>>

OpenDialog ==
    /\ mpc = "idle"
    /\ dialog = "starting"
    /\ dialog' = "open"
    /\ UNCHANGED <<wpc, alerts, AlertUnchanged>>

\* onFinish: the user answered, or the dialog's own timeout expired.
CloseDialog ==
    /\ mpc = "idle"
    /\ dialog = "open"
    /\ dialog' = "closed"
    /\ UNCHANGED <<wpc, alerts, AlertUnchanged>>

\* mAlertCloseListener gets DM_ALERT_DLG_CLOSED and signals whoever waits now.
DeliverClosed ==
    /\ mpc = "idle"
    /\ dialog = "closed"
    /\ dialog' = "none"
    /\ wpc' = IF wpc = "await" THEN "signalled" ELSE wpc
    /\ UNCHANGED <<alerts, AlertUnchanged>>

AlertReturn ==
    /\ wpc = "signalled"
    /\ wpc' = "running"
    /\ UNCHANGED <<alert, AlertUnchanged>>

----------------------------------------------------------------------------
\* getDMTree, on a binder thread

BinderUnchanged == <<sent, up, configReady, queue, worker, mpc, session, timer,
                     g_cancelSession, sIsDMSessionInProgress, alert, results,
                     crashed>>

CallGetDMTree(b) ==
    /\ up
    /\ bpc[b] = "out"
    /\ bpc' = [bpc EXCEPT ![b] = "wait"]
    /\ UNCHANGED <<lock, BinderUnchanged>>

\* Mutant of ReadDMTree: not synchronized.
ReadDMTreeUnlocked(b) ==
    /\ bpc[b] = "wait"
    /\ bpc' = [bpc EXCEPT ![b] = "in"]
    /\ UNCHANGED <<lock, BinderUnchanged>>

ReadDMTree(b) ==
    /\ bpc[b] = "wait"
    /\ lock = Nobody
    /\ lock' = b
    /\ bpc' = [bpc EXCEPT ![b] = "in"]
    /\ UNCHANGED BinderUnchanged

\* Mutant of ReturnDMTree: the lock is not released.
ReturnDMTreeLocked(b) ==
    /\ bpc[b] = "in"
    /\ bpc' = [bpc EXCEPT ![b] = "out"]
    /\ UNCHANGED <<lock, BinderUnchanged>>

ReturnDMTree(b) ==
    /\ bpc[b] = "in"
    /\ lock' = Nobody
    /\ bpc' = [bpc EXCEPT ![b] = "out"]
    /\ UNCHANGED BinderUnchanged

\* DMConfigureTask, on a background thread.
CreateConfigDB ==
    /\ up
    /\ ~configReady
    /\ configReady' = TRUE
    /\ UNCHANGED <<sent, up, queue, worker, mpc, bpc, lock, session, timer,
                   g_cancelSession, sIsDMSessionInProgress, alert, results,
                   crashed>>

\* Every intent is handled and no client is bound.
Unused ==
    /\ up
    /\ mpc = "idle"
    /\ wpc = "idle"
    /\ queue = <<>>
    /\ \A b \in Binders : bpc[b] = "out"

\* onDestroy.  The callback of this instance stays posted (mAbortSession is set
\* to null before removeCallbacks) and finds mSession = null in the dead
\* instance.
OnDestroy ==
    /\ Unused
    /\ configReady
    /\ lock = Nobody
    /\ up' = FALSE
    /\ configReady' = FALSE
    /\ timer' = FALSE
    /\ mServiceID' = 0
    /\ UNCHANGED <<sent, queue, worker, mpc, bpc, lock, mSession,
                   mHttpConnector, mUIMode, g_cancelSession,
                   sIsDMSessionInProgress, alert, results, crashed>>

\* The database is not ready after 70 seconds: getConfigDB() is null, and
\* closeDatabase() throws.
DestroyUnready ==
    /\ Unused
    /\ ~configReady
    /\ Die

----------------------------------------------------------------------------
WorkerStep ==
    \/ ReturnEarly \/ HandleSession \/ HandleCancel \/ WorkerCancel
    \/ BeginProcessMsg \/ CreateSession \/ StartTimeOutTick \/ RejectPkg0
    \/ EnterSession \/ FinishSession \/ ClearSession \/ SendResult
    \/ EndProcessMsg \/ ShowAlert \/ AwaitClosed \/ AlertReturn

DialogStep == OpenDialog \/ CloseDialog \/ DeliverClosed

BinderStep(b) == CallGetDMTree(b) \/ ReadDMTree(b) \/ ReturnDMTree(b)

Next ==
    \/ \E r \in Requests : Launch(r)
    \/ WorkerStep
    \/ FireTimeout
    \/ AbortSession
    \/ DialogStep
    \/ \E b \in Binders : BinderStep(b)
    \/ CreateConfigDB
    \/ OnDestroy \/ DestroyUnready

Spec == Init /\ [][Next]_vars

\* The scheduler runs every thread that can run.  A monitor has no queue, so
\* that taking mSessionLock needs strong fairness; that a session ends is what
\* the transport's retry bound and the dialog's timeout give.
Fairness ==
    /\ WF_vars(WorkerStep) /\ SF_vars(CreateSession) /\ SF_vars(EnterSession)
    /\ SF_vars(ClearSession) /\ SF_vars(WorkerCancel)
    /\ WF_vars(FinishSession)
    /\ SF_vars(AbortSession)
    /\ WF_vars(DialogStep)
    /\ \A b \in Binders : WF_vars(ReturnDMTree(b)) /\ SF_vars(ReadDMTree(b))

FairSpec == Spec /\ Fairness

----------------------------------------------------------------------------
\* Properties

\* The native engine is used by one thread at a time: while a session runs no
\* binder thread reads the tree, and binder threads exclude each other.
NativeExclusive ==
    /\ wpc \in InNative => \A b \in Binders : bpc[b] # "in"
    /\ \A a, b \in Binders : bpc[a] = "in" /\ bpc[b] = "in" => a = b

\* DMIntentReceiver.getState trusts sIsDMSessionInProgress to decide that a
\* session died: it must be set for as long as there is a session.
FlagCoversSession ==
    mSession \/ wpc \in InNative => sIsDMSessionInProgress

Answered == {results[i].req : i \in DOMAIN results}
Queued == {queue[i] : i \in DOMAIN queue}

\* Each intent gets at most one result broadcast, never while it still waits
\* in the queue, and ignored intents get none.
OneResultEach ==
    /\ \A i, j \in DOMAIN results : results[i].req = results[j].req => i = j
    /\ Answered \cap Queued = {}
    /\ \A r \in Answered : Kind[r] # "ignored"
    /\ cur \in Answered => wpc = "finally"

\* A step that clears the in-progress flag comes after the result broadcast,
\* unless it is the death of the process.
ResultBeforeFlagClears ==
    [][sIsDMSessionInProgress /\ ~sIsDMSessionInProgress'
        => cur \in Answered \/ ~up']_vars

\* The process dies only of a timeout or a cancel that finds a session
\* without a connector: before it starts, or after it ended.
DiesOutsideSession ==
    [][sIsDMSessionInProgress /\ up /\ ~up'
        => mSession /\ wpc \in {"tick", "enter", "clear"}]_vars

Settled == \A r \in sent : r \notin Queued /\ r # cur

\* Every accepted intent is handled or lost with the process, unless an alert
\* waits for ever for a dialog (DMAlert.java:204): the binder threads and the
\* timeout do not keep mSessionLock from the worker (DMClientService.java:265).
RequestsSettle == <>[](wpc = "await") \/ []<>Settled

\* "Cancel alert when DM session times out." (DMAlert.java:435)  A timeout that
\* comes due while an alert has its dialog up ends the alert.  It does not: it
\* waits for the mSessionLock that the session holds for the whole alert
\* (DMClientService.java:265, 332), and the main thread with it, so that the
\* answer of the user is never delivered either.
TimeoutEndsAlert ==
    (mpc = "abort" /\ wpc = "await" /\ mUIMode /\ dialog \in {"starting", "open"})
        ~> (wpc # "await")

\* The promise to the callers (module SessionQueue).
Service == INSTANCE SessionQueue
    WITH accepted <- sent, pending <- queue, active <- cur,
         busy <- sIsDMSessionInProgress, answers <- results,
         Answerable <- {r \in Requests : Kind[r] # "ignored"},
         Outcomes <- Results

\* The service implements its promise: intents in order, one at a time, one
\* answer each, given while the in-progress flag is up.
ImplementsSessionQueue == Service!Spec
=============================================================================
