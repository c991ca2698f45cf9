-------------------------- MODULE DMIntentReceiver --------------------------
(***************************************************************************)
(* The broadcast receiver that decides when a DM session starts            *)
(* (DMIntentReceiver.java, DMHelper.java), the data connection service     *)
(* (DMDataConnectionService.java) and the confirmation dialog              *)
(* (DMSessionConfirmAlertActivity.java).  The client service is taken at   *)
(* its promise, module SessionQueue, which DMClientService implements.     *)
(*                                                                         *)
(* Every handler runs to its end on the main thread: an action is one      *)
(* broadcast.  A handler is a function on the record dev, which holds the  *)
(* shared preferences and what the receiver asked of the system.  The      *)
(* preferences are on disk when a handler has ended (the framework waits   *)
(* for them).  Broadcasts under way are delivered in any order.            *)
(***************************************************************************)
EXTENDS Naturals, Sequences, FiniteSets

CONSTANTS
    LTE,           \* isPhoneTypeLTE()
    ECB,           \* emergency callback modes the phone may be in
    Modes,         \* user interaction modes that WAP pushes ask for
    MaxMessages,   \* bound: messages the phone receives
    MaxForeign,    \* bound: cancels, injected sessions, result reports
    MaxLaunches,   \* bound: launch intents
    MaxCrashes     \* bound: process deaths and reboots

ASSUME LTEAssumption == LTE \in BOOLEAN
ASSUME ECBAssumption == ECB \subseteq BOOLEAN /\ ECB # {}
ASSUME ModesAssumption == Modes \subseteq {"silent", "inform", "confirm"}
ASSUME BoundsAssumption == {MaxMessages, MaxForeign, MaxLaunches, MaxCrashes}
                               \subseteq Nat

MAX_SESSION_ATTEMPTS == 3

VARIABLES
    dev,          \* what the handlers change, see Device
    ready,        \* DATA_CONNECTION_READY is under way
    dialog,       \* the confirmation dialog is open
    confirm,      \* USER_CONFIRMED_DM_SESSION is under way
    tree,         \* the DM tree's directory exists
    initialWapPending,
    booting,      \* start_up is still to come after a boot
    accepted, pending, active, busy, answers,   \* the client service
    launched,     \* the intents that the service has accepted, in order
    handled,      \* result broadcasts that were delivered, or lost in a reboot
    done,         \* history: messages whose success the receiver has heard of
    lastID,       \* time stamps given out
    old,          \* the saved message is older than MESSAGE_LIFETIME
    expired,      \* nanoTime says so
    rebooted,     \* nanoTime has started again since the message was saved
    held,         \* history: the last startProcess met the ECB mode
    foreign, crashes   \* bounded counters

service == <<accepted, pending, active, busy, answers>>
delivered == <<handled, done>>
clock == <<old, expired, rebooted>>
counters == <<foreign, crashes>>
vars == <<dev, ready, dialog, confirm, tree, initialWapPending, booting,
          service, launched, delivered, lastID, clock, held,
          counters>>

\* A request id that is not a saved message's: a cancel or a report (0), or a
\* session from the command line.
NoID == 0
InjectedID == MaxMessages + 1

Types == {"pkg0", "fota", "notify", "client", "cancel", "tree"}
Launches == [id : 0..InjectedID, type : Types]
States == {"idle", "pending", "approved", "in_progress"}
FotaStates == {"init", "start", "report", "start_rptd", "report_rptd"}
UIModes == {"none", "silent", "inform", "confirm"}
Networks == {"wifi", "cell"}
Off == [on |-> FALSE, waiting |-> {}, available |-> {}]
DataConnections == [on : BOOLEAN, waiting : SUBSET Networks,
                    available : SUBSET Networks]
Device ==
    [state : States,            \* "dmmsgstate"
     id : 0..MaxMessages,       \* "dm_msg_time_init", NoID when absent
     type : {"none", "pkg0", "fota"},
     uiMode : UIModes,
     attempts : 0..MaxLaunches,
     data : BOOLEAN,            \* dmpostponed.dat holds the message
     fota : FotaStates,         \* "fotapnstate"
     alarm : BOOLEAN,           \* ACTION_TIMER_ALERT is scheduled
     notification : BOOLEAN,    \* the confirmation notification is posted
     dcs : DataConnections,     \* the data connection service
     out : Seq(Launches)]       \* startService calls of the handler

Client == INSTANCE SessionQueue
    WITH Requests <- 1..MaxLaunches,
         Answerable <- 1..MaxLaunches,
         Outcomes <- {"success", "fail"},
         NoRequest <- 0

----------------------------------------------------------------------------
\* The steps that the handlers are made of.  d is a device, e the environment
\* a handler sees: Wi-Fi, an acceptable mobile network, emergency callback
\* mode, the network the data connection service asks for.
Environments == [wifi : BOOLEAN, cell : BOOLEAN, ecb : ECB, net : Networks]

CleanAll(d) ==
    [d EXCEPT !.state = "idle", !.id = NoID, !.type = "none",
              !.uiMode = "none", !.attempts = 0, !.data = FALSE,
              !.notification = FALSE, !.alarm = FALSE]

SetState(d, s) == [d EXCEPT !.state = s]
Subscribe(d) == [d EXCEPT !.alarm = TRUE]

\* onStartCommand asks for a network only when the service was not running.
StartDataConnection(d, e) ==
    LET s == Subscribe(d)
    IN  IF d.dcs.on THEN s
        ELSE [s EXCEPT !.dcs = [Off EXCEPT !.on = TRUE, !.waiting = {e.net}]]

StopFotaApn(d) ==
    IF ~LTE \/ d.fota = "init" THEN d
    ELSE [d EXCEPT !.fota = "init", !.dcs = Off]

IsExpired(d) == d.id = NoID \/ expired

\* getState: a session in progress that the service does not know of has died.
GetState(d) ==
    IF d.state = "in_progress" /\ ~busy THEN "approved" ELSE d.state

\* startDMSession: mData is the message in memory, if the handler has it.
StartDMSession(d, mData) ==
    IF d.type = "pkg0" /\ ~mData /\ ~d.data THEN CleanAll(d)
    ELSE Subscribe([d EXCEPT !.state = "in_progress", !.attempts = @ + 1,
                             !.out = <<[id |-> d.id, type |-> d.type]>>])

\* Mutant of StartProcess: an attempt is counted here as well.
StartProcessCounts(d, mData, e) ==
    LET a == [d EXCEPT !.state = "approved", !.attempts = @ + 1]
    IN  CASE e.ecb   -> d
          [] ~e.ecb /\ e.wifi  -> StartDMSession(a, mData)
          [] ~e.ecb /\ ~e.wifi ->
                 StartDataConnection([a EXCEPT !.fota = "start"], e)

StartProcess(d, mData, e) ==
    LET a == SetState(d, "approved")
    IN  CASE e.ecb   -> d
          [] ~e.ecb /\ e.wifi  -> StartDMSession(a, mData)
          [] ~e.ecb /\ ~e.wifi ->
                 StartDataConnection([a EXCEPT !.fota = "start"], e)

Preprocess(d, state, mData, e) ==
    IF d.uiMode = "confirm" /\ state # "approved"
    THEN Subscribe([d EXCEPT !.state = "pending", !.notification = TRUE])
    ELSE StartProcess(SetState(d, state), mData, e)

\* A notification session's intent (sendNotifyIntent): it has no request id.
SendNotify(d) == [d EXCEPT !.out = <<[id |-> NoID, type |-> "notify"]>>]

\* startService, for each of the intents in turn.  Creating the service makes
\* the tree.
Launch(intents) ==
    LET n == Len(launched)
        new == [i \in DOMAIN intents |-> n + i]
    IN  /\ n + Len(intents) <= MaxLaunches
        /\ launched' = launched \o intents
        /\ accepted' = accepted \cup {new[i] : i \in DOMAIN new}
        /\ pending' = pending \o new
        /\ tree' = (tree \/ intents # <<>>)
        /\ UNCHANGED <<active, busy, answers>>

\* The handler ends with device d.  ecb tells whether it met the
\* emergency callback mode.
Perform(d, ecb) ==
    /\ dev' = [d EXCEPT !.out = <<>>]
    /\ Launch(d.out)
    /\ IF d.id = dev.id
       THEN UNCHANGED clock
       ELSE old' = FALSE /\ expired' = FALSE /\ rebooted' = FALSE
    /\ held' = ((held \/ ecb) /\ ~d.alarm /\ d.state # "idle")

----------------------------------------------------------------------------
\* Broadcasts

\* A WAP push with a package 0: ui is its user interaction mode, written tells
\* whether it could be saved to the file.  Before the tree exists the push has
\* to wait for start_up, which the receiver asks for.
WapPush(ui, written, e) ==
    LET state == GetState(dev)
        saved == [StopFotaApn(CleanAll(dev)) EXCEPT
                      !.id = lastID + 1, !.type = "pkg0", !.uiMode = ui,
                      !.data = written]
        now == tree \/ ~LTE
        d == IF now THEN Preprocess(saved, state, TRUE, e) ELSE saved
    IN  /\ lastID < MaxMessages
        /\ state # "in_progress"
        /\ Perform(d, e.ecb)
        /\ lastID' = lastID + 1
        /\ initialWapPending' = (initialWapPending \/ ~now)
        /\ booting' = (booting \/ ~now)
        /\ UNCHANGED <<ready, dialog, confirm, delivered, counters>>

\* It does not parse: the message it replaces is gone all the same.
BadWapPush ==
    /\ foreign < MaxForeign
    /\ GetState(dev) # "in_progress"
    /\ Perform(StopFotaApn(CleanAll(dev)), FALSE)
    /\ foreign' = foreign + 1
    /\ UNCHANGED <<ready, dialog, confirm, initialWapPending, booting,
                   delivered, done, lastID, crashes>>

\* A client-initiated FOTA request.
ClientFota(e) ==
    LET saved == [dev EXCEPT !.state = "approved", !.id = lastID + 1,
                             !.type = "fota"]
        d == CASE ~e.wifi /\ e.cell /\ LTE ->
                      StartDataConnection([saved EXCEPT !.fota = "start"], e)
               [] e.wifi \/ (e.cell /\ ~LTE) -> StartDMSession(saved, FALSE)
               [] ~e.wifi /\ ~e.cell -> StartDataConnection(saved, e)
    IN  /\ lastID < MaxMessages
        /\ Perform(d, FALSE)
        /\ lastID' = lastID + 1
        /\ UNCHANGED <<ready, dialog, confirm, initialWapPending, booting,
                       delivered, counters>>

UserConfirmed(e) ==
    LET d == IF IsExpired(dev) THEN CleanAll(dev)
             ELSE StartProcess(dev, FALSE, e)
    IN  /\ confirm
        /\ confirm' = FALSE
        /\ Perform(d, e.ecb)
        /\ UNCHANGED <<ready, dialog, initialWapPending, booting, delivered,
                       lastID, counters>>

\* start_up: it generates the tree, or takes the saved message up again.
StartUp(e) ==
    LET first == IF initialWapPending THEN SetState(dev, "pending")
                 ELSE CleanAll(dev)
        d0 == IF tree THEN dev ELSE first
        makeTree == IF tree THEN <<>>
                    ELSE <<[id |-> NoID, type |-> "tree"]>>
        state == GetState(d0)
        d == CASE (~tree /\ ~initialWapPending) \/ state = "idle" -> d0
               [] OTHER ->
                      IF IsExpired(d0) \/ d0.uiMode = "none" THEN CleanAll(d0)
                      ELSE Preprocess(d0, state, d0.data, e)
    IN  /\ booting
        /\ booting' = FALSE
        /\ Perform([d EXCEPT !.out = makeTree \o @], e.ecb)
        /\ initialWapPending' = (initialWapPending /\ tree)
        /\ UNCHANGED <<ready, dialog, confirm, delivered, lastID, counters>>

\* What the time alert does, at any time once it is scheduled; state is what
\* getState returned.
\* Mutant: "doing nothing" while the session is in progress.
AlertedQuietly(d, state, e) ==
    CASE state \in {"idle", "in_progress"} -> d
      [] state = "approved" -> StartProcess(SetState(d, state), FALSE, e)
      [] state = "pending" -> Preprocess(d, state, d.data, e)

Alerted(d, state, e) ==
    CASE state = "idle" \/ IsExpired(d) -> CleanAll(d)
      [] OTHER ->
         CASE state = "in_progress" -> Subscribe(d)
           [] state = "approved" -> StartProcess(SetState(d, state), FALSE, e)
           [] state = "pending" ->
                  IF d.uiMode = "none" THEN CleanAll(d)
                  ELSE Preprocess(d, state, d.data, e)

TimeAlert(e) ==
    /\ dev.alarm
    /\ Perform(Alerted([dev EXCEPT !.alarm = FALSE], GetState(dev), e), e.ecb)
    /\ UNCHANGED <<ready, dialog, confirm, initialWapPending, booting,
                   delivered, lastID, counters>>

\* The result of a FOTA or LAWMO operation is to be reported to the server.
NotifyResult(e) ==
    LET d == CASE e.cell /\ ~e.wifi /\ LTE ->
                      IF dev.fota # "init" THEN dev
                      ELSE StartDataConnection([dev EXCEPT !.fota = "report"],
                                               e)
               [] OTHER -> SendNotify(dev)
    IN  /\ foreign < MaxForeign
        /\ foreign' = foreign + 1
        /\ Perform(d, FALSE)
        /\ UNCHANGED <<ready, dialog, confirm, initialWapPending, booting,
                       delivered, lastID, crashes>>

\* The network that the "start" and "report" states wait for.  The mutants: the
\* age of the message is not tested; a report that was sent is not noted.
StartOnNetworkAnyAge(d, state) ==
    CASE state = "idle" -> CleanAll(d)
      [] state = "in_progress" -> d
      [] OTHER -> StartDMSession(SetState(d, state), FALSE)

StartOnNetwork(d, state) ==
    CASE IsExpired(d) \/ state = "idle" -> CleanAll(d)
      [] ~IsExpired(d) /\ state = "in_progress" -> d
      [] OTHER -> StartDMSession(SetState(d, state), FALSE)

ReportOnNetworkUnnoted(d) == SendNotify(d)

ReportOnNetwork(d) == SendNotify([d EXCEPT !.fota = "report_rptd"])

DataConnectionReady ==
    LET d == CASE dev.fota = "report" -> ReportOnNetwork(dev)
               [] dev.fota = "start" ->
                      StartOnNetwork([dev EXCEPT !.fota = "start_rptd"],
                                     GetState(dev))
               [] OTHER -> dev
    IN  /\ ready
        /\ ready' = FALSE
        /\ Perform(d, FALSE)
        /\ UNCHANGED <<dialog, confirm, initialWapPending, booting, delivered,
                       lastID, counters>>

\* canRestartSession.
CanRestart(d) == d.attempts <= MAX_SESSION_ATTEMPTS /\ ~IsExpired(d)

\* What a session's result does to the message.  The mutants: a success counts
\* only while the state is "session in progress"; a failure sets no alarm.
AfterResultInProgress(d, result) ==
    IF (result = "success" /\ d.state = "in_progress") \/ ~CanRestart(d)
    THEN CleanAll(d)
    ELSE Subscribe(SetState(d, "approved"))

AfterResultNoAlarm(d, result) ==
    IF result = "success" \/ ~CanRestart(d) THEN CleanAll(d)
    ELSE [d EXCEPT !.state = "approved", !.alarm = FALSE]

AfterResult(d, result) ==
    LET d1 == IF d.uiMode = "inform" THEN [d EXCEPT !.uiMode = "none"] ELSE d
    IN  IF result = "success" \/ ~CanRestart(d1) THEN CleanAll(d1)
        ELSE Subscribe(SetState(d1, "approved"))

\* The next result: the one of an intent that made the tree does not count.
ServiceResult ==
    LET a == answers[handled + 1]
        r == launched[a.req]
        d == IF LTE THEN [StopFotaApn(dev) EXCEPT !.dcs = Off] ELSE dev
    IN  /\ handled < Len(answers)
        /\ handled' = handled + 1
        /\ done' = IF a.ret = "success" THEN done \cup {r.id} ELSE done
        /\ Perform(IF r.type = "tree" THEN dev ELSE AfterResult(d, a.ret), FALSE)
        /\ UNCHANGED <<ready, dialog, confirm, initialWapPending, booting,
                       lastID, counters>>

\* A cancel, or a session injected from the command line: another request for
\* the service.
OtherLaunch(r) ==
    /\ foreign < MaxForeign
    /\ foreign' = foreign + 1
    /\ Perform([dev EXCEPT !.out = <<r>>], FALSE)
    /\ UNCHANGED <<ready, dialog, confirm, initialWapPending, booting,
                   delivered, done, lastID, crashes>>

CancelSession == OtherLaunch([id |-> NoID, type |-> "cancel"])
InjectPackage0 == OtherLaunch([id |-> InjectedID, type |-> "client"])

----------------------------------------------------------------------------
\* The confirmation dialog

OpenDialog ==
    /\ dev.notification
    /\ ~dialog
    /\ dialog' = TRUE
    /\ dev' = [dev EXCEPT !.notification = FALSE]
    /\ UNCHANGED <<ready, confirm, tree, initialWapPending, booting, service,
                   launched, delivered, lastID, clock, held,
                   counters>>

UserConfirms ==
    /\ dialog
    /\ dialog' = FALSE
    /\ confirm' = TRUE
    /\ UNCHANGED <<dev, ready, tree, initialWapPending, booting, service,
                   launched, delivered, lastID, clock, held,
                   counters>>

\* userDeniedSession: the message is dropped, whatever its state.
UserDenies ==
    /\ dialog
    /\ dialog' = FALSE
    /\ Perform(CleanAll(dev), FALSE)
    /\ UNCHANGED <<ready, confirm, initialWapPending, booting, delivered,
                   lastID, counters>>

----------------------------------------------------------------------------
\* The data connection service

NetworkUnchanged == <<dialog, confirm, tree, initialWapPending, booting,
                      service, launched, delivered, lastID, clock,
                      held, counters>>

\* A network that is gone and comes back is available once more.
NetworkAvailable(n) ==
    /\ n \in dev.dcs.waiting \cup dev.dcs.available
    /\ dev' = [dev EXCEPT !.dcs.waiting = @ \ {n},
                          !.dcs.available = @ \cup {n}]
    /\ ready' = TRUE
    /\ UNCHANGED NetworkUnchanged

\* After two minutes the request is given up; one for Wi-Fi is followed by one
\* for the FOTA APN.
NetworkUnavailable(n) ==
    /\ n \in dev.dcs.waiting
    /\ dev' = [dev EXCEPT !.dcs.waiting =
                   (@ \ {n}) \cup (IF n = "wifi" THEN {"cell"} ELSE {})]
    /\ UNCHANGED <<ready, NetworkUnchanged>>

----------------------------------------------------------------------------
\* The client service, the clock, crashes

ServiceUnchanged == <<dev, ready, dialog, confirm, tree, initialWapPending,
                      booting, launched, delivered, lastID, clock,
                      held, counters>>

ServiceStep ==
    /\ \/ Client!Skip \/ Client!Begin \/ Client!Engage \/ Client!Finish
       \/ \E ret \in {"success", "fail"} : Client!Answer(ret)
    /\ UNCHANGED ServiceUnchanged

\* 24 hours go by.  nanoTime, which a reboot resets, may need more of them.
Age ==
    /\ dev.id # NoID
    /\ ~old \/ ~expired
    /\ old' = TRUE
    /\ expired' = (old \/ ~rebooted)
    /\ UNCHANGED <<dev, ready, dialog, confirm, tree, initialWapPending,
                   booting, service, launched, delivered, lastID, rebooted,
                   held, counters>>

\* The process dies.  The data connection service is started again with its
\* last intent; broadcasts, alarms and notifications are the system's.
Crash(n) ==
    /\ crashes < MaxCrashes
    /\ crashes' = crashes + 1
    /\ Client!Lose
    /\ initialWapPending' = FALSE
    /\ dialog' = FALSE
    /\ dev' = IF dev.dcs.on
              THEN [dev EXCEPT !.dcs = [Off EXCEPT !.on = TRUE,
                                                   !.waiting = {n}]]
              ELSE dev
    /\ UNCHANGED <<ready, confirm, tree, booting, launched, delivered, lastID,
                   clock, held, foreign>>

\* The phone restarts: only the files are left.
Reboot ==
    /\ crashes < MaxCrashes
    /\ crashes' = crashes + 1
    /\ Client!Lose
    /\ handled' = Len(answers)
    /\ dev' = [dev EXCEPT !.alarm = FALSE, !.notification = FALSE,
                          !.dcs = Off]
    /\ ready' = FALSE /\ dialog' = FALSE /\ confirm' = FALSE
    /\ initialWapPending' = FALSE
    /\ booting' = TRUE
    /\ rebooted' = (dev.id # NoID) /\ expired' = FALSE
    /\ UNCHANGED <<tree, launched, done, lastID, old, held, foreign>>

----------------------------------------------------------------------------
Init ==
    /\ dev = [state |-> "idle", id |-> NoID, type |-> "none",
              uiMode |-> "none", attempts |-> 0, data |-> FALSE,
              fota |-> "init", alarm |-> FALSE, notification |-> FALSE,
              dcs |-> Off, out |-> <<>>]
    /\ ready = FALSE /\ dialog = FALSE /\ confirm = FALSE
    /\ tree \in BOOLEAN /\ booting = TRUE
    /\ initialWapPending = FALSE
    /\ Client!Init
    /\ launched = <<>> /\ handled = 0 /\ done = {} /\ lastID = 0
    /\ old = FALSE /\ expired = FALSE /\ rebooted = FALSE
    /\ held = FALSE
    /\ foreign = 0 /\ crashes = 0

Next ==
    \/ \E e \in Environments :
           \/ \E ui \in Modes, written \in BOOLEAN :
                  WapPush(ui, written, e)
           \/ ClientFota(e) \/ UserConfirmed(e) \/ StartUp(e) \/ TimeAlert(e)
           \/ NotifyResult(e)
    \/ BadWapPush \/ DataConnectionReady \/ ServiceResult
    \/ CancelSession \/ InjectPackage0
    \/ OpenDialog \/ UserConfirms \/ UserDenies
    \/ \E n \in Networks :
           NetworkAvailable(n) \/ NetworkUnavailable(n) \/ Crash(n)
    \/ ServiceStep \/ Age \/ Reboot

Spec == Init /\ [][Next]_vars

\* The alarm goes off, start_up comes, a broadcast is delivered, the worker of
\* the client service runs and time passes.  Nothing is assumed of users,
\* networks or servers.
Fairness ==
    /\ WF_vars(\E e \in Environments : TimeAlert(e))
    /\ WF_vars(\E e \in Environments : StartUp(e))
    /\ WF_vars(ServiceResult)
    /\ WF_vars(ServiceStep)
    /\ WF_vars(Age)

FairSpec == Spec /\ Fairness

----------------------------------------------------------------------------
\* Properties

SavedIDs == 1..MaxMessages
NewLaunches == (DOMAIN launched') \ (DOMAIN launched)

TypeOK ==
    /\ dev \in Device /\ dev.out = <<>>
    /\ {ready, dialog, confirm, tree, initialWapPending, booting} \subseteq
           BOOLEAN
    /\ launched \in Seq(Launches) /\ Len(launched) <= MaxLaunches
    /\ accepted = 1..Len(launched)
    /\ pending \in Seq(accepted)
    /\ active \in accepted \cup {0}
    /\ busy \in BOOLEAN
    /\ answers \in Seq([req : accepted, ret : {"success", "fail"}])
    /\ handled \in 0..Len(answers)
    /\ done \subseteq 0..InjectedID
    /\ lastID \in 0..MaxMessages
    /\ {old, expired, rebooted, held} \subseteq BOOLEAN
    /\ foreign \in 0..MaxForeign /\ crashes \in 0..MaxCrashes

\* A message that is to lead to a session is never left without anything that
\* takes it up again, the alarm or start_up, in whatever order broadcasts,
\* results, crashes and reboots came.  startProcess makes one exception: in
\* emergency callback mode it returns without an alarm.
NotForgotten == dev.state # "idle" => dev.alarm \/ booting \/ held

\* A message whose session succeeded is never asked a session for again:
\* neither by an alarm, a network, a confirmation nor a reboot that was under
\* way when the result came.
DoneIsDone ==
    [][\A n \in NewLaunches : launched'[n].id \notin done \cap SavedIDs]_vars

\* No path to startDMSession misses the test of the message's age.
FreshSession ==
    [][\A n \in NewLaunches :
          launched'[n].id \in SavedIDs \cap {dev.id} => ~expired]_vars

\* One report request leads to one notification session at most, however often
\* the network comes and goes, and however often the process dies.
ReportedOnce ==
    Cardinality({n \in DOMAIN launched : launched[n].type = "notify"})
        <= foreign

\* Every message ends, whatever the service answers, whether or not it does,
\* and whatever the network and the user do: it is done, given up or replaced.
MessageEnds == \A m \in SavedIDs : dev.id = m ~> dev.id # m
=============================================================================
