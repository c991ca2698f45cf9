# TLA+ models of the OMA-DM client

This directory is a verification project for the OMA Device Management client
of this repository: the Android application under `src/DMService` and the
native engine under `src/engine/dmlib`. It holds TLA+ modules that model the
parts with state and concurrency of their own, TLC configurations that check
them on small instances, and proofs for TLAPS. `PROJECT.json` lists components,
runs, mutants, the source lines of every definition, hazards, findings and
theorems. Paths below are relative to `src/`; `.../service` stands for
`DMService/src/com/android/omadm/service`, `dmengine` for
`engine/dmlib/dmengine`.

## 1. The system

### Components

| Component | State it keeps | Operations | Talks to |
|---|---|---|---|
| **Intent receiver** (`DMIntentReceiver`, `DMHelper`) | shared preferences (message state, id, type, attempts, FOTA APN state), the postponed message's file, an alarm, a notification | one handler per broadcast: WAP push, client FOTA, user confirmation, start-up, alarm, result report, network ready, session result, cancel, injected package 0 | starts the client service and the data connection service |
| **Data connection service** (`DMDataConnectionService`) | networks asked for and available; restarted by Android with its last intent | start, stop, network callbacks | broadcasts `DATA_CONNECTION_READY` |
| **Confirmation dialog** (`DMSessionConfirmAlertActivity`) | none that names a message | confirm, deny | receiver |
| **Client service** (`DMClientService`, `DMSession`) | `mSessionLock`, `mSession`, the ten-minute timeout, the static `sIsDMSessionInProgress` | intents on a worker thread, timeout and lifecycle on the main thread, `getDMTree` on binder threads | native engine through JNI, `DM_SERVICE_RESULT` broadcasts to the receiver |
| **Alerts** (`DMAlert`, `DMAlertActivity`) | a lock, a condition, a dialog | show and wait, answer, time out | called by the native session on the worker; answered by a broadcast on the main thread |
| **Session engine** (`dmengine/dm_ssession`: `dmServerSession`, `dmClientSrvCreds`, `dmServerAuthentication`) | credentials and nonces of both sides, retry counts, `g_cancelSession` | notification check, package loop, authentication, challenges | transport, package processor, the account in the tree |
| **Package processor** (`dm_ua_handlecommand.cc`, `SYNCML_DM_BuildPackage.cc`) | the open Atomic and Sequence, kept and built statuses, the object on its way, the user's answer to an alert | one handler per command, start and end of Atomic and Sequence, building of the answer | tree, lock context manager, alerts |
| **Transport** (`dmengine/dm_transport`, `DMHttpConnector`) | a connection, retry counts | send, receive, redirect | server |
| **Lock context manager** (`dmengine/dm_ua`) | contexts with a file set and a lock type | lock, release, commit, atomic, rollback | file manager |
| **Archiver** (`dmengine/dm_persist`) | per archive: a file, `.temp`, `.bak`, dirty and time stamps in memory | serialize, deserialize, recovery, rollback, aging | file system, tree |
| **Commit log and large objects** (`dm_persist`, `dm_tnm`) | per archive a `.cmt` log; per object a file and a `.mid` | replace, commit, play back, roll back | archiver |
| **Tree and node manager** (`dmengine/dm_tnm`, `dm_ua/src/dmACLManager.cc`, `dmMetaDataManager.cc`) | the tree, ACLs, device description | get, add, replace, delete, rename, set leaf children, exec | archiver, configuration files, plug-ins |
| **Configuration files** (`dm_ua/src/dmConfigManager.cc`, `dmSubscriptionManager.cc`) | the ACLs of nodes and the subscriptions to events: a file each, with `.temp` and `.bak` | look up, set, remove, save, revert, recover | tree, lock context manager |
| **DMT API** (`engine/dmlib/dmtapi`) | lock ids of open trees | C++ and asynchronous access to the tree | lock context manager |
| Notification agent, security, configuration database, plug-ins, portability layer, vendored OMA toolkit, tools, samples, settings application | little or none | parsing, digests, key-value storage, device nodes | |

A message's life crosses most of them: a package 0 arrives as a WAP push, is
saved by the receiver, may wait for the user, for a network or for the end of
emergency callback mode, is launched as an intent of the client service, runs
as a native session in which server and client authenticate each other and the
server's commands change the tree under its ACLs; tree and ACLs are saved by the
archiver and the configuration manager, and a result broadcast ends it, which
the receiver uses to clean up or to try again.

### Which behaviours are hard

* *Threads.* The worker keeps `mSessionLock` for a whole session, the main
  thread takes it in the timeout callback, binder threads take it in
  `getDMTree`; a session's alert waits for a broadcast that only the main
  thread can deliver. `sIsDMSessionInProgress` is read without any lock.
* *Ordering.* Results, alarms, networks, confirmations and new messages reach
  the receiver in any order; each handler works on the persisted state that the
  one before it left, and the intents that are on their way were sent for an
  older state.
* *Crash and restart.* The process may die of an uncaught exception with intents
  queued; a reboot keeps preferences and files but not alarms, notifications,
  services or broadcasts, and restarts `System.nanoTime`.
* *Persistence.* A save of the tree is a series of renames over several files,
  each of which may be the last thing that happens or may fail; so is its
  recovery.
* *Timeouts and retries.* The session timeout, the dialog's timeout, the alarm
  that retries a message, the message's lifetime, the limit of its attempts.
* *Two parties over a bad network.* Each side gives the other nonces; a request
  or an answer may be lost after one side has acted on it, and what a nonce is
  saved to may be rolled back.
* *Long sequences.* Atomics, Sequences, TNDS objects, objects in chunks and the
  user's answers leave flags behind that the next commands are decided by, over
  any split of the commands into messages.
* *Partial failure.* An Add makes a chain of nodes, a Delete walks a subtree, a
  set of leaf children is replaced one by one; each may be refused half-way and
  has to be taken back.

### What makes each component correct

* Client service: the native engine has one user at a time; each intent gets one
  result, in order; the in-progress flag can be trusted by the receiver; no
  intent stays unanswered while the process lives; a timeout ends the alert that
  a session waits for, which the code does not achieve (run `alert_timeout`).
* Receiver: a message is not forgotten, not run beyond its age or after it
  succeeded, and a report goes out once; in the end every message is done with.
* Archiver: the tree is saved as a whole or not at all; no archive is ever left
  without a complete copy; a success that is returned is true.
* Large objects: replaced with the tree they belong to, neither before nor only
  in part.
* Session engine: no command is executed before the server is authenticated;
  refusals are bounded, and stale nonces alone exclude nobody for good; a cancel
  ends the session.
* Package processor: each command is answered once, and what it is told is what
  the tree and later the disk hold; an Atomic has its effect as a whole or not
  at all; a cancelled alert is final.
* Tree: nothing is added or deleted where the ACLs do not permit it, and an
  operation of several steps that fails is taken back.
* Configuration files: ACLs are saved as a whole or not at all, and nothing but
  a load that fails can cost the root its ACL.

## 2. Plan

Done, in this order, the most important behaviour first:

1. `SessionQueue`, `DMClientService`: threads, lock, results, deaths; the
   refinement of the one by the other.
2. `DMClientServiceProofs`: all safety of the client service.
3. `DMIntentReceiver`, which composes with the client service through
   `SessionQueue`; `DMIntentReceiverProofs`: all its safety.
4. `AtomicTree`, `DMArchiver`: persistence and recovery; the refinement of the
   one by the other.
5. `DMArchiverProofs`: what the archiver promises about the files of the tree.
6. `ManagementSession`, `DMServerSession`, `DMServerSessionProofs`: the session
   with a server over a bad network; the refinement of the one by the other,
   proved.
7. `DMCommands`, `DMCommandsProofs`, `DMAtomicProofs`: the commands of its
   messages.
8. `DMTree`, `DMTreeProofs`: the tree under ACLs and the device description.
9. `ConfigStore`, `DMConfigFile`, `DMConfigFileProofs`: the ACL and event files;
   the refinement of the one by the other, proved.

Next:

10. `DMLockContext` (`dmengine/dm_ua/src/dmLockCtxMgr.cc`, `dmLock.cc`): contexts
    over a part of the files, and the exclusive and shared locks of the locking
    build, with the archiver at its promise.
11. The commit log of the read-write plug-in (`SyncML_PlugIn_WBXMLLog.cc`).

## 3. Modules

### SessionQueue and DMClientService

`SessionQueue` is what the client service promises: intents are taken in order,
one at a time; each that is not skipped is answered once, while the service says
it is busy; a death of the process loses what is not answered and nothing else.

`DMClientService` has the worker (`wpc`), the main thread (`mpc`) and any number
of binder threads (`bpc`). Its actions follow the code between two points where
another thread can get in:

| Code | Actions |
|---|---|
| `onHandleIntent` (342-461) | `ReturnEarly`, `HandleSession`, `HandleCancel`, `WorkerCancel` |
| `processMsg` (236-329) | `BeginProcessMsg`, `CreateSession` (takes the lock), `StartTimeOutTick`, `RejectPkg0`, `EnterSession`, `FinishSession`, `ClearSession`, `SendResult`, `EndProcessMsg` |
| `mAbortSession`, `cancelSession` (331-340, 568-581) | `FireTimeout`, `AbortSession` |
| `getDMTree` (101-134) | `CallGetDMTree`, `ReadDMTree`, `ReturnDMTree` |
| `DMAlert.showConfirmAlert`, `DMAlertActivity` | `ShowAlert`, `AwaitClosed`, `OpenDialog`, `CloseDialog`, `DeliverClosed`, `AlertReturn` |
| `onCreate`, `onDestroy`, `DMConfigureTask` | `Launch`, `OnDestroy`, `DestroyUnready`, `CreateConfigDB` |

`DMSession.cancelSession` dereferences a connector that is null unless a session
runs; `Die` is the uncaught exception, which loses the queue.

### DMIntentReceiver

The preferences and everything the receiver asked of the system are one record,
`dev`; a handler is a function from a device and an environment (Wi-Fi, mobile
network, emergency mode) to a device, built from operators that carry the names
of the methods (`StartProcess`, `StartDMSession`, `Preprocess`, `SetState`,
`CleanAll`). Each broadcast is one action, since handlers run to their end on
the main thread. The client service takes part at its promise: its variables are
those of `SessionQueue`, and its steps are the ones of that module, so that what
is checked here rests on the refinement proved for `DMClientService`. Broadcasts
under way are delivered in any order. `Crash` and `Reboot` keep what Android
keeps.

### AtomicTree and DMArchiver

`AtomicTree` has two variables that matter, what a restart would load and what
the engine works on, and says that the first changes to the second as a whole.

`DMArchiver` has the files of each archive (`orig`, `bak`, `temp`), the commit
logs and large objects (`cmt`, `lob`, `mid`), the memory of the process, and a
control point `pc` with the loop index `i`. Every file operation is an action
and `Crash` is enabled everywhere.

| Code | Actions |
|---|---|
| `ValidateAndLockTNM`, `deserialize`, `checkRecovery` | `Lock`, then `Undo`, `Purge`, `PurgeLog`, or `Drop`, `Playback`, `Replayed`, and `Sweep` |
| `SyncML_DM_WBXMLArchive::deserialize` | `Load` |
| a change of a node, of a large object | `Edit`, `Replace` |
| `ReleaseContext`: COMMIT, ATOMIC, RELEASE | `Save` |
| `serialize` | `Write`, `Fill`; `Keep`; `Swap`; `CommitESN`, `Playback`, `Played`, `Unlink`, `SkipClean`; failures: `WriteFails`, `KeepFails`, `CloseFails`, `SwapFails`, `UnlinkFails` |
| ROLLBACK | `Rollback`, `RollbackOne` |
| `CheckMemoryAging` | `Age` (the time is not compared: the `if` at line 673 only logs) |

The refinement mapping computes what a recovery would leave (`Recovered`): the
`.bak` files where a `.temp` file exists anywhere, the files otherwise. The
atomic step of a save is therefore the removal of the last `.temp` name by its
rename, and a recovery changes nothing, which is what TLC verifies.

Simplifications, all named in the module's header: a content is a version; large
objects are replaced, not created or removed; plug-ins and the out-of-memory
flag are left out, and the ACL and event files have a module of their own
(`DMConfigFile`); the modification time of a file stands for its content; the
operations of a recovery do not fail; a lock context spans all archives; the
entries of a log are played in any order; `Age` may come at any time between
commands.

### ManagementSession and DMServerSession

`ManagementSession` is a session as its user sees it: the server is trusted or
not after each of its messages, commands run only while it is, refusals are
bounded, no message is taken once the client was rejected too often, and an
authentication failure has a reason. Its bounds are parameters, and
`DMServerSession` gives them the code's numbers: with `Tolerated` =
`MAX_AUTH_RETRY` = 2 a session survives two refusals of a side, which is one
attempt more than the comment at `dmServerSession.h:44` allows (section 6).

`DMServerSession` has the client's session (`pc`, `sess`, `creds`, the request
and the answer), the account in the tree and on disk, a server (`srv`), and the
network between the two. A credential is its type and the nonce that is in it.

| Code | Actions |
|---|---|
| `DMServerSession::Start`, `BuildPackageOne`, `LoadInitialValues` | `StartSession` |
| `DMServerAuthentication::AuthenticateServer` | `Notify` |
| `SendPackage`, `DMServiceConnection`, `DMHttpConnector` | `SendPackage`, `LoseRequest`, `HttpFails`, `Retry`, `Exchange` (with an answer that may get lost) |
| the loop of `Start` and its conditions | `LeaveCancelled`, `GiveUp`, `Continue`, `EndSession` |
| `RecvPackage`, `HandleStartMessage`, `CheckAuthorization` | `ReceiveMessage` |
| `HandleStatusCommand`, `BuildFinishSyncHdr` | `HandleStatus` |
| the commands of a message | `HandleCommands` (counted, run, abort the session or save) |
| errors of `ParseMessage` | `ParseFails` (rolls back, unless the header fails) |
| `cancelSession`, the end of the process | `Cancel`, `Crash` |

An honest server follows the protocol: it authenticates itself as the client's
last challenge asks, knows the client by the right nonce, and gives out new ones.
Any other server sends any credential, verdict and challenge; it is what the
safety of the session is checked against.

### DMCommands

The tree is the set of the commands that had their effect on it, `s.saved` what
of it is on disk. `s` is also the user data of `dmSessionDefs.h` with the kept
(`oStatus`) and the sent statuses (`told`); `lob` is the object on its way in
either direction.

| Code | Actions |
|---|---|
| `ProcessCommand` for Add and Replace, `LargeObjectRecvFirstChunk`, `LargeObjectRecvNextChunk` | `Edit` |
| `ProcessTndsCommand` | `Tnds` |
| `HandleDeleteCommand`, `HandleGetCommand`, `HandleExecCommand`, `HandleCopyCommand` | `Delete`, `Get`, `Exec`, `Copy` |
| `HandleAlertCommand`, `ProcessAlertCommand`, `processResponse` | `Alert` |
| `HandleStartSequence`, `HandleEndSequence`, `HandleStartAtomic`, `HandleEndAtomic` | `StartSequence`, `EndSequence`, `StartAtomic`, `EndAtomic` |
| `HandleEndMessage`, `LargeObjectSendFirstChunk`, `LargeObjectSendNextChunk` | `EndMessage` |
| the end of a session, with and without an error | `EndSession`, `ParseFails` |

`ProcessStatus`, `AtomicRollback`, `IsCommandSkipped`, `LargeObjectClear` carry
the names of the functions that all handlers share. The history variables name
the commands that edit (`edits`), those of the last Atomic (`members`), the
Deletes that interrupted an object (`cut`), the objects that were applied without
their beginning (`torn`), what goes beyond the care of the handlers (`odd`) and
a cancelled alert.

### DMTree

A step is one call of the tree's interface, since each runs alone under the lock
of the tree. Inside a call the order of the code is kept by composition: `Add`
builds the missing interior nodes from the top and takes them back when one is
refused, `Delete` asks and then walks from the leaves up, `SetLeafChildren` goes
through new and old children with the marks of the code and rolls back by them.
The device description is a set of constants (which paths, leaves, multi nodes,
access types, permanent nodes); the order of siblings and the node the
description refuses are chosen by each call. `InOrder` gives each sibling the
place that the number of those before it gives it.

Two restrictions: the code verifies the format of the renamed node only, and
`DoRename` takes a name under which the description has the nodes below alike, so
that a rename from a node of one kind to one of another kind is left out; and the
names that a tree may have are finitely many (`OrderAssumption`), as their length
is bounded (`GetMaxPathSegmentLength`, `dm_tree_class_public.cc:2010`).

| Code | Operators |
|---|---|
| `DMTree::Add`, `AddNodeInternal` | `Add`, `AddChain`, `AddNodeInternal`, `OwnACL` |
| `DMTree::Delete`, `CheckDeleteForNode`, `DeleteNode` | `Delete`, `CheckDeleteForNode`, `DeleteNode` |
| `DMTree::Replace`, `ReplaceNodeInternal`, `ReplaceACLProperty`, `ReplaceNameProperty`, `FixACL` | the same names, `Replace` |
| `setLeafChildren`, `handleNewChildren`, `handleOldChildren`, `rollback` | `SetLeafChildren`, `HandleNewChildren`, `HandleOldChildren`, `Rollback` and their steps for one child |
| `DMAclManager`, `DMConfigManager::Delete`, `DMMetaDataManager` | `AclOf`, `IsPermitted`, `IsValidServer`, `SetACL`, `DeleteACL`, `AboveMulti`, `VerifyAccessType` |

### ConfigStore and DMConfigFile

`ConfigStore` is a working copy and what is durable of it: a save makes the one
the other, an error or a death goes back. It does not promise that going back
succeeds: the users are not told when a load fails, and the copy that they then
read, change and save is a part of what was saved, or nothing. `whole` says
whether the copy is free of that.

`DMConfigFile` has both files with their `.temp` and `.bak`, what is in memory
and its flags, and the step of a save. `Start` is `DMConfigManager::Init`, which
creates files that are missing; `Read`, `SetItem` and `RemoveItem` load
first what is not loaded (`Deserialize`, `CheckRecovery`, `CheckLocking`);
`Loads` is what `Deserialize` may leave (`dmConfigManager.cc:119-174`): all of
the file, nothing when it cannot be opened or memory runs out, or the items
before one that cannot be added, which count as loaded. No caller looks at the
status (`dmACLManager.cc:97-98`, `dmConfigManager.cc:400`), so every action goes
on with any of them;
`Save`, `Write` or `WriteFails`, `KeepBak`, `RenameTemp`, `RemoveBak` are the
steps of `Serialize`; `Revert` is a release after an error; `Die` and
`DieInRecovery` may come between any two. In the build without locks a release
always picks the ACL file. The history variables say which memory stems from a
load that failed (`whole`) and whether such ACLs were saved (`short`). The
renames of a recovery and of a save are taken to succeed (section 6).

## 4. Runs

| Run | Result | What it shows |
|---|---|---|
| `service` | holds | A package 0, a session and a cancel, two binder threads, an alert, the timeout at any moment: mutual exclusion in the engine, trust in the flag, one result each and in order, deaths only outside a session, the refinement of `SessionQueue`; and under fair scheduling every intent is settled, with binder threads and the timeout competing for the lock, unless an alert waits for ever. |
| `alert_timeout` | violated | `TimeoutEndsAlert`: the timeout of a session does not end the alert that the session waits for ("Cancel alert when DM session times out.", A:435): the main thread waits for `mSessionLock`, the worker keeps it and waits for the main thread. |
| `receiver` | holds | One message, one foreign request, two launches, a death or reboot: nothing forgotten, nothing launched beyond its age or after its success, one report. |
| `receiver_live` | holds | Every message ends. |
| `archiver` | holds | Two archives with files, two large objects of one archive, two deaths anywhere, two failing operations: `ImplementsAtomicTree` and `LobDurable` as long as nothing has failed, `ArchiveSurvives` and `SuccessIsSaved` always. |
| `session` | holds | Three sessions or notifications with an honest server and nonces, over a network that loses requests and answers, with cancels and deaths: a nonce is stored only when the server has been sent it, stale nonces alone never exhaust the retries, and undisturbed sessions leave both sides in step. |
| `session_live` | holds | One session with any server: it keeps the promises of `ManagementSession` with the code's numbers (the third refusal in a row ends it, the second by the comment at `dmServerSession.h:44`), ends after a cancel, and ends if the server never gets authenticated. |
| `commands` | holds | Four commands of every kind, two levels of Atomics and Sequences, any split into messages, with a death or a failing message anywhere: success and failure are what tree and disk hold, Atomics are all or nothing, each command is answered once, a cancelled alert is final. |
| `torn_object` | violated | `ObjectsAreWhole`: the answer of a Get makes the client forget the beginning of an object that it receives, and it stores the last chunk as the whole. |
| `tree` | holds | Two servers change a small tree and its ACLs; each call may be refused by the device description at any node: no Delete and no Add without permission, `setLeafChildren` all or nothing. |
| `failed_add` | violated | `FailedAddKeepsNodes`: an Add of a deep node whose first missing node is refused deletes the subtree that the path starts in, in the tree as it is shipped. |
| `config` | holds | Changes of ACLs and subscriptions, releases with and without an error, loads and writes that fail, two deaths in any step: the refinement of `ConfigStore`, and a root that loses its ACL by a failed load only. |

Every property of a run that holds has a mutant: an operator with the name of
the definition it replaces and a suffix, kept beside it, that a plausible bug
would turn the definition into and that violates the property.

### Bounds, and why they are enough

* `DMClientService`: a package 0 (`p1`), a session without a request id (`s2`)
  and a cancel (`c1`) are one of each kind that reaches the engine, sent in any
  order, so that a cancel comes before, between and after two sessions; an
  intent that is ignored before the configuration is ready is any of the three.
  Two binder threads are what exclusion among them needs. One alert meets the
  timeout, a cancel and the binder threads at every point of it. The proofs are
  for any number of each. `alert_timeout` needs one session with one alert.
* `DMIntentReceiver`: the handlers compare the saved message with one other
  request at a time, so one message and one foreign request meet in every way.
  Two launches let a message be tried
  twice. One crash or reboot can fall between any two broadcasts.
* `DMArchiver`: two archives are the fewest for a save that is half done; two
  large objects in one archive are what the buffer of the log needs to have one
  entry written and one not; two deaths let a recovery be interrupted and
  started again; a second failing operation reaches the branches where the
  `.bak` file that should be put back does not exist. Two changes give each
  archive, or one archive twice, a new content. All actions and their branches
  are reached.

* `DMServerSession`: a lost answer needs one session to happen in, one to meet the
  consequences and one to have recovered; `MaxTries` 2 lets one request be sent
  again after its answer was lost. Nine nonces let there always be a fresh one,
  and `Fresh` takes the smallest, since their names make no difference. The
  liveness run has any server in one session of one try, which reaches every
  verdict and credential in every round.
* `DMCommands`: four commands are an Atomic with two members and one after it, or
  an object in two chunks with a command in between and one after; two levels are
  an Atomic inside an Atomic or a Sequence. The violation needs three.
* `DMTree`: two servers, since permissions of a third are like those of the
  second; a node whose leaves differ in their access types, a chain of interior
  nodes, and one below a multi node, where the ACL is looked up twice; two orders
  of siblings put the refused node first and last. `MaxAcls` 2 gives one node
  besides the root an ACL of its own at a time, over any history of nodes.
  The properties quantify over all calls in each of the 1846 trees.
* `DMConfigFile`: the root and two other paths with two values tell apart what is
  added, changed and removed; a load that fails may keep any part of the items,
  and any number of loads may fail; two deaths interrupt a recovery of an
  interrupted save.

`CHECK_DEADLOCK` is off where the environment's actions are bounded and the
system may rest when they are used up; `tree` and `config` are checked for
deadlock.

### Fairness

`DMClientService`: weak fairness of the worker's steps, of the dialog and of
binder threads that hold the lock: the scheduler runs threads that can run, and
the dialog has its own timeout. Strong fairness of the steps that take
`mSessionLock`: a Java monitor has no queue, a thread that tries again and again
gets it. That a session returns rests on the transport's bounded retries. An
alert may wait for ever under these assumptions (section 6): `RequestsSettle`
excepts exactly that, and `TimeoutEndsAlert` is violated under the same ones.
Starting the timeout, sending intents and opening the configuration database are
not fair.

`DMIntentReceiver`: the alarm goes off, `start_up` comes after a boot, result
broadcasts are delivered, the service's worker runs, time passes. Nothing is
assumed of users, networks and servers; the message's age is what ends it when
they do nothing.

`DMServerSession`: weak fairness of the session's thread (`Step`), in which the
network is one of the outcomes of a step: the transport gives up after
`MaxTries`. Nothing is assumed of the server, and neither a cancel nor a death
is fair.

The other modules have no liveness property: their steps are calls that return,
or loops over archives and commands.

## 5. Proofs

`DMClientServiceProofs` proves, for every set of intents, every number of binder
threads and every bound of alerts, from the assumptions named in
`DMClientService` (the constants have their types, thread names differ):

| Theorem | States |
|---|---|
| `TypeCorrect` | `Spec => []TypeOK` |
| `NativeEngineExclusive` | `Spec => []NativeExclusive` |
| `FlagIsTrusted` | `Spec => []FlagCoversSession` |
| `AnsweredOnce` | `Spec => []OneResultEach` |
| `ResultPrecedesFlag` | `Spec => ResultBeforeFlagClears` |
| `DeathOutsideSession` | `Spec => DiesOutsideSession` |
| `Refinement` | `Spec => ImplementsSessionQueue` |

None of the safety properties is inductive. The invariant they follow from,
`IInv`, has four parts. `OtherTypes` gives the types (Booleans are in
`BooleanTypes`, proved on its own with the first-order prover). `LockInv` says who
owns `mSessionLock` at each control point: without it a binder thread in
`getDMTree` could be in the engine while a session starts. `SessionInv` ties the
session object, its connector, the cancel flag and the in-progress flag to the
worker's control point; it is what makes a timeout that takes the lock find a
session without a connector. `RequestInv` says where each intent is: in the
queue once, at hand or answered, and never in two of these places. Each part has
one step lemma, with one case per action; the properties and the refinement
(each action is one of `SessionQueue`'s or a stutter) follow from `IInv`.

`DMIntentReceiverProofs` proves, for every number of messages, foreign requests,
launches and crashes, phones with and without LTE, every set of user interaction
modes and with or without the emergency callback mode, from the named assumptions
of `DMIntentReceiver` (the constants have their types):

| Theorem | States |
|---|---|
| `ReceiverTypes` | `Spec => []TypeOK` |
| `NeverForgotten` | `Spec => []NotForgotten` |
| `DoneForGood` | `Spec => DoneIsDone` |
| `SessionsAreFresh` | `Spec => FreshSession` |
| `ReportsOnce` | `Spec => []ReportedOnce` |

The handlers are functions on the device record, so each operator has one lemma
about the record it returns. `Taken` is what they have in common: the message is
the same or gone, and a session for it was asked for or not. `HandlerStep` says
what a record must satisfy for a handler's end (`Perform`) to keep the invariant;
the step of each broadcast is a use of it, and `OutsideStep` does the same for
the steps of users, networks, the service and time. The invariant has two parts
besides the types and `NotForgotten`. `IDInv`: the saved id was given out, has a
type and is not among those that are done; a launch without a message has no id;
and the attempts never exceed the launches, which bounds their type. `ReportInv`
counts the report that waits for a network ("report" of the FOTA APN state) along
with those that were sent: without it the second could go out on a request that
the first has used.

`DMArchiverProofs` proves, for every number of archives and large objects and
every bound on changes, deaths and failures, from the assumptions named in
`DMArchiver`:

| Theorem | Assuming | States |
|---|---|---|
| `ArchiverTypes` | | `Spec => []TypeOK` |
| `ArchiveNeverLost` | `Stored = Archives` | `Spec => []ArchiveSurvives` |
| `SuccessMeansSaved` | `Stored = Archives` | `Spec => SuccessIsSaved` |
| `ArchiverRefinement` | `Stored = Archives` | `Spec => ImplementsAtomicTree` |
| `LobsSurvive` | `Stored = Archives` | `Spec => []LobDurable` |

`Stored = Archives`, a tree whose archives all have files, is the case of the
`archiver` run; section 6 tells what may happen without it.
The invariant (`IInv`) has three layers over the types:

* `Survival`, whatever fails. An archive without its file has a `.bak` file, so
  it is not lost, and a `.temp` file, so the next recovery undoes the save
  (`UndoneInv`). The difficult part is a rename that fails in the second loop of
  renames: `serialize` goes on and removes `.bak` files. `CommitInv` says why
  that is safe: the archive whose rename failed has its `.bak` file back under
  its name, so that its own removal fails and ends the loop (`StopsAt`) before
  the archives that still lack their files.
* `Saving`: what a save wrote to the `.temp` files and what it has renamed, and
  that the loop over the `.bak` files stops at or before an archive whose file
  does not hold what is in memory.
* `Quiet`, only as long as nothing has failed: for each control point the
  `.bak` and `.temp` files there are, and that what is loaded and clean is what
  the file holds.

Each part has a step lemma with one case per action. For the refinement,
`StoredStep` says that what a restart would load changes with the last rename of
a save only, and `WorkStep` how what is loaded changes; the steps of `AtomicTree`
follow from the two (`TreeStep`). After a failure a step is `AtomicTree`'s `Fail`.

For the large objects `Logged` joins the invariant, only as long as nothing has
failed. `OwedInv` is its aim: an object is `Settled`, its file has what was saved
or a later content, or `Owed` it, by a `.mid` file and a log on the disk that
names it and that the save at hand, or the next recovery, plays before the tree
is open. `FreshInv` leads there: until the last rename of a save a replacement
has its `.mid` file and its entry, in the log or in the buffer of its handle,
and the first loop of renames flushes the buffers (`LogInv`). `EntryInv` says
that a log is about its own archive and that no `.mid` file is older than what
is saved, so that a log played for a save that did not take place (section 6) is
harmless to the property.

`DMCommandsProofs` proves, for every number of commands, every depth and all
URIs:

| Theorem | States |
|---|---|
| `CommandTypes` | `Spec => []TypeOK` |
| `SuccessfulCommandsHold` | `Spec => []SuccessHolds` |
| `FailedCommandsLeaveNothing` | `Spec => []FailureLeavesNothing` |
| `CancelledForGood` | `Spec => CancelIsFinal` |

`CancelInv` says that what is saved is in the tree, so that a rollback only takes
away, and that a cancelled alert's flag stays. `SoundInv` extends "what was told
with success is in the tree" to the statuses that are still kept, and says that
inside an Atomic what was told is saved: a rollback cannot take it back.
`CleanInv` is the other side: what failed is neither in the tree nor saved, and
what is kept with success in an open Atomic is not saved yet, so that a rollback,
which turns those statuses into failures, takes all of it back. Each is proved
action by action, with lemmas on what `ProcessStatus`, `AtomicRollback` and
`FinishAtomic` do to the two lists.

`DMAtomicProofs` goes on with

| Theorem | States |
|---|---|
| `AtomicsAreWhole` | `Spec => []AtomicAllOrNothing` |
| `CommandsAnsweredOnce` | `Spec => []AnsweredOnce` |

for sessions in which nothing odd has happened (section 6). `Nested` says how the
user data know of the containers that the server has opened: an open Atomic is
one of them, the only one, and messages are authorized as long as it is open;
without it an end that belongs to a refused Atomic could commit. `Whole` is what
the edits of an open Atomic have done so far: all in the tree and none saved, or
the Atomic is rolled back and none is in either. `Once` is a partition: the
commands so far are those told of, those whose status is kept, and the open
Atomic. A handler's result is described by `Recorded` (one status more) and
`Shaped` (what happened to the tree); each helper has a lemma about the two, and
`HandledStep` leads from there to the invariant.

`DMTreeProofs` proves, for every device description over finitely many names, any
first tree, permanent nodes and ACLs, any orders of siblings, paths of any depth
and lists of any length:

| Theorem | States |
|---|---|
| `TypesHold` | `Spec => []TypeOK` |
| `DeleteIsPermitted` | `Spec => []DeletesArePermitted` |
| `AddIsPermitted` | `Spec => []AddsArePermitted` |
| `SetLeafChildrenIsAtomic` | `Spec => []LeafChildrenAtomic` |

The inductive invariant `IInv` is `TypeOK`, written as membership in sets of
functions: the nodes are a part of the description that has, with a node, its
parent, and each holds what its format asks for. The last three are about one
call in a state with the invariant, so what has to be proved is what each call
does to a tree. Each operation has such a lemma (`AddNodeFacts`, `DeleteFacts`,
`RenameFacts`, ...), and the operations built from others cite it.

* `Delete`: the nodes that the walk removes, complete or cut short, are among
  those that `CheckDeleteForNode` has asked about (no invariant is needed); and
  what is left has, with a node, its parent, since the walk goes from the leaves
  up (`WalkedClosed`).
* `Add`: a new node is a prefix of the path, and every one but the topmost has a
  new parent (`AddChainFacts`), so that the tree's ACLs decided on the topmost
  alone. A failed `Add` removes only nodes (it may remove too many, which is the
  finding of `failed_add`).
* `SetLeafChildren`: `Progress` says what the lists `action` and `delete` mean at
  any point. Besides the reading of each mark (`Marked`, `Brought`) it needs that
  a new child of an old one's name has replaced it (`Paired`) and that the
  unmarked children come last in each list (`CleanEnd`): without that the
  rollback, which ends at the first one unmarked, could leave a child replaced.
  `Restored` and `Undone` go through the two loops of the rollback.

Add and setLeafChildren are folds over lists, and the prover's library states
induction with operators as parameters, which its backends cannot use. Here
induction is about sets: a set of numbers that has 0 and, with a number, the next
has them all (`NatSetInduction`, from the well-foundedness of `<`). `FoldExists`
proves with it that a function with a fold's equations exists, the `...Steps`
lemma of each fold that the fold's values after 0, 1, ... elements satisfy its
step, and `Upwards` leads from one step to the whole list.

`DMConfigFileProofs` proves, for all paths and values, any first ACLs with one
for the root, and any number of deaths:

| Theorem | States |
|---|---|
| `ConfigTypes` | `Spec => []TypeOK` |
| `RootAlwaysGoverned` | `Spec => []RootGoverned` |
| `ConfigRefinement` | `Spec => AclsSaved` |

`RootGoverned` excludes what the code loses by a load that fails: a reader's
copy that stems from one (`~whole`), and the file once such a copy was saved
(`short`). `AclsSaved` excludes nothing: a failed load is a step of `ConfigStore`.
The invariant says of both files that whatever the process dies in leaves a
complete copy where the recovery finds it (`DurableOK`). Of the ACL file it says
(`AclInv`) that as long as nothing short was saved what is durable has the root's
ACL, and that in a memory that stems from no failed load what is loaded has it
too and a change implies a load; and which of the three names exist at each step
of a save. Without the second part a change before a load could be saved over
the file.

`DMServerSessionProofs` proves, for all nonces, profiles of both sides, security
levels, honest servers and others, and every bound on tries and sessions:

| Theorem | States |
|---|---|
| `SessionTypes` | `Spec => []TypeOK` |
| `StoredNoncesDelivered` | `Spec => []StoredNonceDelivered` |
| `SidesRecover` | `Spec => []HonestSidesRecover`, if the account has profiles of the server's two types |
| `SidesAgree` | `Spec => NoncesAgree`, for an honest server with MD5 or HMAC on both sides, the only type of the client's profiles, and no stronger server profile that the client's level selects |
| `SessionRefinement` | `Spec => ImplementsManagementSession` |

The invariant has three parts over the types. `CredsInv` is about the
credentials: whenever the server has a profile its nonce is one of the tree or a
generated one, a challenge that needs a nonce has it, and an answer carries one
credential at most. `RetryInv` ties the retry counts of the session, which the
HMAC header and the credentials of the `SyncHdr` change in two places
(`RecvPackage`, `CheckAuthorization`), to the messages that were refused in a row:
they differ by one at most, so that a session that gives up has seen that many
refusals. An answer with both kinds of credentials could break this, and there is
none in the model. `NonceInv` says where a nonce that was generated for the server
is until it is stored: in memory and in the request's challenge, and from the
answer on among those that the server was sent. Without it the nonce that
`HandleStatus` saves could be one that a lost request never delivered. Each action
has a lemma; what the helpers on credentials return is stated once
(`ServerAuth`, `ClientAuth`, `InitialValues`, `ServerNonceSaved`,
`ClientNonceSaved`) and cited.

`SidesRecover` needs more: what an honest server and the client know of each
other while answers are lost. `FirstInv` is about a session in which no answer was
received: the server proves itself with the nonce that it has, which may be any.
After the first answer `LaterInv` says that each request asks for what the client
expects (`Asked`), or that basic credentials suffice, so that the next answer is
accepted and the server is refused at most once. `ClientInv` is the client's side:
the next request has the type and nonce that the server wants (`Ready`, and
`Right` on the wire) unless an answer with a new nonce was lost, so that refusals
in a row exceed the losses by one at most. The assumption that the account has
profiles of the server's types is needed: without one the client has nothing to
answer a challenge with.

`SidesAgree` ties these to the nonces in the tree, from the notification before a
session to its end. `AgreeInv` has four parts. `InStep`: the credentials are those
of the client's only profile, with the nonce in the tree. `OwnInv`: the nonce that
the client expects of the server is the stored one, or a generated one that is
stored when its answer is handled; the server is trusted exactly when it is the
server's own. `GivenInv`: a server that knows the client has given it the nonce in
the tree, unless an answer was lost (`quiet` is false then), or its challenge with
the new nonce is the answer at hand. `ResyncInv`: the resynchronization nonce is in
the tree only when the server has it too, and then it stays; it is needed because
`UseClientProfile` replaces the client's nonce by it. A quiet session can end only
at the end of its loop's body (`QuietEnd`), where the parts together are `InSync`.
TLC checked `AgreeInv` for both types, each security level and several sets of the
server's profiles first. The assumptions are needed: TLC shows the property broken
for a server of MD5 whose account has an HMAC profile too, with a client level of
HMAC, which is made to change its type by the first answer (`SetPrefServerAuth`
selects the stronger profile), so that the nonce of the MD5 profile is left behind;
and for types that differ (section 6). With basic credentials no nonce is
exchanged. An account with several client profiles is not covered.

Only model-checked: liveness (`RequestsSettle`, `MessageEnds`, `CancelEnds`,
`StrangersLeave`), which needs fairness and `ENABLED`, beyond the prover.

## 6. Observations

These were met while reading and modelling. Four of them are findings, with the
runs `alert_timeout`, `session_live`, `torn_object` and `failed_add`; the
others have no run. The models contain the behaviour where the code is
modelled; a property that the behaviour would break excludes it and refers to
this section. `R` is `DMIntentReceiver.java`, `A` `DMAlert.java`, `HC`
`dm_ua_handlecommand.cc`, `TP` `dm_tree_class_public.cc`, `AR`
`SyncML_DM_Archiver.cc`.

### Client service and alerts

* The timeout that fires while an alert is up blocks the main thread on
  `mSessionLock` (`DMClientService.java:332`), which the waiting worker keeps
  (A:204); the answer that would wake it is a broadcast that needs the main
  thread. A:435 has "Cancel alert when DM session times out." Run
  `alert_timeout`.
* A dialog that closes before the worker awaits leaves the alert waiting for ever
  (A:200-204), although there is a "maximum display time" (A:174).
* A cancel intent is handled on the worker that runs the session: it is taken
  when the session is over (`DMClientService.java:442`). The timeout cannot stop a
  session that runs either: it waits for the lock that the session holds.

### Receiver

* The result of another request is taken for the saved message's: the `return`
  at R:725 is a comment, beside R:695 and R:724.
* A message that needs consent starts without it after it replaced a silent one
  (R:453 beside R:451, `DMHelper.java:78`).
* After a reboot a report is dropped for a session that does not exist
  (R:297-308, R:393-394): the FOTA APN state outlives the process.
* `getState` takes the interval between a launch intent and the worker's first
  step for a session that died (R:803); a push that arrives there replaces the
  message.
* A reboot restarts `System.nanoTime`, so a message that is older than 24 hours
  can start a session (`DMHelper.java:324`).
* Attempts are counted before a session and compared with `>` after it: the
  limit of three lets a fourth session start (R:769).
* Emergency callback mode returns without an alarm (R:587): `NotForgotten` names
  it as its one exception.
* The confirmation dialog names no message and acts on whichever is saved
  (`DMSessionConfirmAlertActivity.java:97`).

### Session

* After an accepted status without a challenge `BuildFinishSyncHdr(NONE)` sets
  the client's type to none, so that the next request has no HMAC header; the
  comments at `SYNCML_DM_BuildPackage.cc:720` and HC:2545 expect one.
* After a resynchronization the profile keeps the resynchronization nonce although
  the server has given a new one, and `SetClientAuth`
  (`dmClientSrvCreds.cc:455-470`) prefers it at each start: the first message of
  each session is rejected. `NoncesAgree` excludes it.
* With client and server profiles of different types `SetClientAuth` replaces the
  server profile that a postponed nonce is saved to: it goes to another profile
  or nowhere.
* `AuthenticateServer` says that it tries all profiles; the first one that is
  checked and fails ends it.
* A session whose server is never authenticated and sends no commands returns
  success, as does a cancelled one (`dmServerSession.cc:264`).
* "According to spec, we should only have two attempts to access the server"
  (`dmServerSession.h:44`), but the loop is left only when a count is greater
  than `MAX_AUTH_RETRY` (`dmServerSession.cc:305`): there is a third attempt, and
  its refusal ends the session. With `Tolerated` 1, the comment's number, TLC
  finds a third package after two rejections that is no step of
  `ManagementSession`. After an authorized message four unauthorized ones are
  taken before the session ends, since the first of them does not count while the server is
  still authorized (`dmServerSession.cc:483`); `Limit` of `ManagementSession` is that number.
* When the header of a message fails, the session ends without the rollback that
  a failing command brings (`dmProcessScriptSession.cc:317-318`).
* `StartServerSession` only logs `IsLocked()`; the return is a comment.

### Commands

* A Delete that interrupts an object in chunks is answered with success and
  deletes nothing (HC:1443-1447 calls `ProcessStatus` with a status that is still
  success; HC:1415 documents the status as the result). `cut` in `SuccessHolds`.
* `AtomicRollback` does nothing once `rollback` is set, which outside an Atomic
  nothing resets: the second failing TNDS object of a session is not rolled back
  (HC:1075-1076, `dmSessionDefs.h:218`), and a later Atomic is skipped although
  its own status is success. A TNDS object in an Atomic saves what the Atomic has
  done so far. `odd` with `"tnds"`.
* An Atomic inside an Atomic is refused ("nested atomics are not allowed",
  HC:2342), but its end is taken for the end of the outer one, which is then
  answered twice. `odd` with `"nested"`.
* Atomic, Sequence and Exec that interrupt an object are dropped without a
  status, and the end of the first two is handled with the number of another
  command. `odd` with `"chunk"`. A Delete interrupts a Replace in chunks nowhere.
* Exec runs in a Sequence that has failed, and after a cancelled alert.
* A failing Get, a bad URI and an interrupted object do not fail a Sequence. The
  first chunk of an object does, and it rolls an Atomic back, since its status is
  not success.
* An alert that is answered with no outside of a container skips the next one.
* The commands of a message that follow a session abort are still executed.
* A message that cannot be parsed to its end takes back what its earlier commands
  were told as done.
* Statuses that do not fit into the answer are overwritten with the success of
  `LargeObjectSendNextChunk`, and the message is marked final; a result that
  never fits is tried again for ever when the server takes no large objects. An
  allocation that fails in `LargeObjectRecvFirstChunk` is a success with the
  object dropped. (The model's answers have room, and its memory lasts.)

### Tree

* `DeleteNode` asks neither access types nor permanence of the nodes below the
  one that is deleted; one that is refused half-way leaves the deleted part
  deleted and unlogged, neither saved nor rolled back.
* An Add without permission on its parent's Replace sets the new node's ACL
  before the description is asked: when that refuses, an ACL without a node
  remains, and governs the node that another server adds later. The ACL is kept
  under the URI as it was given, which may be relative.
* `FixACL` moves the ACL of a renamed node, not those of the nodes below.
* A failed Add whose interior nodes may not be deleted leaves them.
* `setLeafChildren` (TP:3208-3213, "If the children were not in the new set of
  leaf children, remove them") marks only the old children before a match
  (TP:3320-3330): those behind it stay. Its rollback adds children again without
  their ACLs and properties.
* The check of the root's ACL in `ReplaceACLProperty` is never reached, since the
  root is always refused. An ACL of a node below a multi node grants nothing that
  the one above the multi node does not (TP:1053 expects it to).
* `dmMetaDataManager.cc:613-618` returns on every path: an interior node that has
  automatic nodes cannot be added.

### Archiver and configuration files

* When the first file of one archive and a later file of another are saved
  together and the rename of the first fails, the second loses its `.bak` while
  its new content is still in its `.temp` file, which the next recovery deletes:
  `ArchiveSurvives` fails with `Stored = {2}` and one fault. Without any fault, a
  death between two renames of such a save leaves a half-saved tree:
  `ImplementsAtomicTree` fails with `Stored = {2}` and one crash. Archives that
  have their files, the case of the `archiver` run, are safe from both.
* The first save of an archive returns success although its file is not in place:
  AR:295 overwrites the status of the rename (documented at AR:164). The next
  recovery deletes the `.temp` file that holds the data.
* A recovery plays any commit log it finds (AR:568, AR:588-590): a death in
  mid-session publishes a large object that nobody committed, although
  TP:136-137 commits only with the tree. `LobDurable` is about what was committed.
* `setWritableExist(TRUE)` in `serialize` cannot be reached
  (AR:320-321, after `setDirty(false)` at 297), so that an archive's second save
  in the same process has no `.bak` either.
* A RELEASE whose save fails leaves its change in memory, and the next context
  marks it clean (AR:379).
* `playLog` does not advance on an unknown byte, and a closed log takes no
  entries (`SyncML_Commit_Log.cc:362`, 157).
* Tree archives and configuration files are saved one after the other: a death in
  between leaves a tree without its ACLs.
* A configuration file that cannot be loaded leaves an empty map, or the items
  before the one that failed (`dmConfigManager.cc:119-174`), and nobody looks at
  the status (`dmACLManager.cc:97-98`, `dmConfigManager.cc:400`). With an empty
  map everything is permitted (`dmACLManager.cc:60-61`), and the next change that
  is saved replaces all ACLs, the root's included, by what is in memory. A
  release after an error reloads only what counts as loaded: a change to a map
  that was not loaded stays, and a later release saves it.
* The results of the renames of a configuration file are not looked at
  (`dmConfigManager.cc:226`, 334, 344): when the second of a save fails, the
  `.bak` file goes and the next start makes an empty file. The model leaves
  failing renames out.
* In the build without locks a release always picks the ACL file
  (`dmLockCtxMgr.cc:368`), so the event file is never saved; and with an empty
  file `m_bLoaded` is not set (`dmConfigManager.cc:125`), so that the next
  `OnNodeChanged` (`dmSubscriptionManager.cc:151`) drops what was subscribed.
  `UnSubscribeEvent` before any load does not find what is in the file, and a
  line that cannot be read is ignored.

## 7. Not modelled

* Plug-ins: nodes backed by device settings. The commit log of the read-write
  plug-in is planned (section 2).
* The lock manager's partial contexts and the locking build: planned. The product
  is built with `DM_NO_LOCKING`, whose one context is in the models.
* The asynchronous and the C++ interfaces of the tree (`dmtapi`): forwarding to
  the engine; what they exclude is `getDMTree` in `DMClientService`.
* Bootstrap and script sessions: `DMCommands` on local input, a session to
  `DMClientService`.
* Security (digests), the notification parser, the configuration database, the
  portability layers: conversions and wrappers. What the others use of them is in
  those models: a credential is its type and nonce, a notification valid or not,
  a file operation done or failed.
* The vendored OMA toolkit, tools, samples, the settings application and the
  configuration data.

Most lines of the repository parse, encode, copy strings or show dialogs, or are
vendored; the modules cover the parts with state, order and failure of their own.
In `DMTree` and `DMCommands`, where data and control meet, plug-ins, titles,
automatic nodes, limits on children, items of one command and the space in a
message are left out, as their headers say.
