----------------------- MODULE DMClientServiceProofs -----------------------
(***************************************************************************)
(* Proofs about DMClientService, for any number of intents, binder threads *)
(* and alerts.                                                             *)
(*                                                                         *)
(* The argument: mSessionLock is owned by the worker exactly inside the    *)
(* native session, and the connector lives exactly as long.  So whoever    *)
(* else has the lock finds no connector, no cancel gets through to a       *)
(* running session, and a cancel that finds a session object throws.       *)
(***************************************************************************)
EXTENDS DMClientService, TLAPS

\* The owner of mSessionLock is known from the control points.
LockInv ==
    /\ lock = Worker <=> wpc \in InNative
    /\ \A b \in Binders : lock = b <=> bpc[b] = "in"
    /\ lock # Main

\* The life of the session object, its connector and the cancel flag.
SessionInv ==
    /\ mHttpConnector => wpc \in InNative
    /\ wpc \in InNative => g_cancelSession = 0
    /\ mSession => wpc \in InNative \cup {"tick", "enter", "clear"}
    /\ sIsDMSessionInProgress <=> wpc \in InProcessMsg

\* Where each intent is: queued, at hand, answered.
RequestInv ==
    /\ cur = NoRequest <=> wpc = "idle"
    /\ cur \in Answered <=> wpc = "finally"
    /\ cur # NoRequest => Kind[cur] # "ignored"
    /\ \A i, j \in DOMAIN queue : queue[i] = queue[j] => i = j
    /\ \A i, j \in DOMAIN results : results[i].req = results[j].req => i = j
    /\ \A i \in DOMAIN queue :
           /\ queue[i] \in sent
           /\ queue[i] # cur
           /\ \A j \in DOMAIN results : queue[i] # results[j].req
    /\ cur \in sent \cup {NoRequest}
    /\ \A j \in DOMAIN results :
           results[j].req \in sent /\ Kind[results[j].req] # "ignored"

----------------------------------------------------------------------------
\* Types.  The Boolean variables have a part of their own: Zenon proves it,
\* the SMT solver the rest.
BooleanTypes ==
    /\ up \in BOOLEAN
    /\ configReady \in BOOLEAN
    /\ mSession \in BOOLEAN
    /\ mHttpConnector \in BOOLEAN
    /\ mUIMode \in BOOLEAN
    /\ timer \in BOOLEAN
    /\ sIsDMSessionInProgress \in BOOLEAN
    /\ crashed \in BOOLEAN

OtherTypes ==
    /\ sent \subseteq Requests
    /\ queue \in Seq(Requests)
    /\ wpc \in WorkerPCs
    /\ cur \in Requests \cup {NoRequest}
    /\ ret \in Results
    /\ mpc \in {"idle", "abort"}
    /\ bpc \in [Binders -> {"out", "wait", "in"}]
    /\ lock \in Binders \cup {Worker, Main, Nobody}
    /\ mServiceID \in Nat
    /\ g_cancelSession \in {0, 1}
    /\ alerts \in 0..MaxAlerts
    /\ dialog \in {"none", "starting", "open", "closed"}
    /\ results \in Seq([req : Requests, ret : Results])
    /\ wpc # "idle" => cur \in Requests

LEMMA BooleanTypesStep == BooleanTypes /\ [Next]_vars => BooleanTypes'
  <1> SUFFICES ASSUME BooleanTypes, [Next]_vars PROVE BooleanTypes'
    OBVIOUS
  <1>1. ASSUME NEW r \in Requests, Launch(r)
        PROVE  BooleanTypes'
    BY <1>1, Zenon DEF Launch, worker, session, alert, BooleanTypes
  <1>2. CASE ReturnEarly
    BY <1>2, Zenon DEF ReturnEarly, TakeIntent, Unhandled, worker, session,
       alert, BooleanTypes
  <1>3. CASE HandleSession
    BY <1>3, Zenon DEF HandleSession, TakeIntent, Unhandled, worker,
       session, alert, BooleanTypes
  <1>4. CASE HandleCancel
    BY <1>4, Zenon DEF HandleCancel, TakeIntent, Unhandled, worker, session,
       alert, BooleanTypes
  <1>5. CASE WorkerCancel
    BY <1>5, Zenon DEF WorkerCancel, CancelThrows, Cancels, CancelSession,
       Die, worker, session, alert, BooleanTypes
  <1>6. CASE BeginProcessMsg
    BY <1>6, Zenon DEF BeginProcessMsg, Goto, worker, session, alert,
       BooleanTypes
  <1>7. CASE CreateSession
    BY <1>7, Zenon DEF CreateSession, Goto, worker, session, alert,
       BooleanTypes
  <1>8. CASE StartTimeOutTick
    BY <1>8, Zenon DEF StartTimeOutTick, Goto, worker, session, alert,
       BooleanTypes
  <1>9. CASE RejectPkg0
    BY <1>9, Zenon DEF RejectPkg0, Goto, worker, session, alert,
       BooleanTypes
  <1>10. CASE EnterSession
    BY <1>10, Zenon DEF EnterSession, Goto, worker, session, alert,
       BooleanTypes
  <1>11. CASE FinishSession
    BY <1>11, Zenon DEF FinishSession, Goto, worker, session, alert,
       BooleanTypes
  <1>12. CASE ClearSession
    BY <1>12, Zenon DEF ClearSession, Goto, worker, session, alert,
       BooleanTypes
  <1>13. CASE SendResult
    BY <1>13, Zenon DEF SendResult, Goto, worker, session, alert,
       BooleanTypes
  <1>14. CASE EndProcessMsg
    BY <1>14, Zenon DEF EndProcessMsg, worker, session, alert, BooleanTypes
  <1>15. CASE ShowAlert
    BY <1>15, Zenon DEF ShowAlert, AlertUnchanged, worker, session, alert,
       BooleanTypes
  <1>16. CASE AwaitClosed
    BY <1>16, Zenon DEF AwaitClosed, AlertUnchanged, worker, session, alert,
       BooleanTypes
  <1>17. CASE AlertReturn
    BY <1>17, Zenon DEF AlertReturn, AlertUnchanged, worker, session, alert,
       BooleanTypes
  <1>18. CASE FireTimeout
    BY <1>18, Zenon DEF FireTimeout, worker, session, alert, BooleanTypes
  <1>19. CASE AbortSession
    BY <1>19, Zenon DEF AbortSession, CancelThrows, Cancels, CancelSession,
       Die, worker, session, alert, BooleanTypes
  <1>20. CASE OpenDialog
    BY <1>20, Zenon DEF OpenDialog, AlertUnchanged, worker, session, alert,
       BooleanTypes
  <1>21. CASE CloseDialog
    BY <1>21, Zenon DEF CloseDialog, AlertUnchanged, worker, session, alert,
       BooleanTypes
  <1>22. CASE DeliverClosed
    BY <1>22, Zenon DEF DeliverClosed, AlertUnchanged, worker, session,
       alert, BooleanTypes
  <1>23. CASE CreateConfigDB
    BY <1>23, Zenon DEF CreateConfigDB, worker, session, alert, BooleanTypes
  <1>24. CASE OnDestroy
    BY <1>24, Zenon DEF OnDestroy, Unused, worker, session, alert,
       BooleanTypes
  <1>25. CASE DestroyUnready
    BY <1>25, Zenon DEF DestroyUnready, Unused, Die, worker, session, alert,
       BooleanTypes
  <1>26. ASSUME NEW b \in Binders, CallGetDMTree(b)
        PROVE  BooleanTypes'
    BY <1>26, Zenon DEF CallGetDMTree, BinderUnchanged, worker, session,
       alert, BooleanTypes
  <1>27. ASSUME NEW b \in Binders, ReadDMTree(b)
        PROVE  BooleanTypes'
    BY <1>27, Zenon DEF ReadDMTree, BinderUnchanged, worker, session, alert,
       BooleanTypes
  <1>28. ASSUME NEW b \in Binders, ReturnDMTree(b)
        PROVE  BooleanTypes'
    BY <1>28, Zenon DEF ReturnDMTree, BinderUnchanged, worker, session,
       alert, BooleanTypes
  <1>29. CASE UNCHANGED vars
    BY <1>29, Zenon DEF vars, worker, session, alert, BooleanTypes
  <1>30. QED
    BY <1>1, <1>2, <1>3, <1>4, <1>5, <1>6, <1>7, <1>8, <1>9, <1>10, <1>11,
       <1>12, <1>13, <1>14, <1>15, <1>16, <1>17, <1>18, <1>19, <1>20, <1>21,
       <1>22, <1>23, <1>24, <1>25, <1>26, <1>27, <1>28, <1>29 DEF Next,
       WorkerStep, DialogStep, BinderStep

LEMMA OtherTypesStep == OtherTypes /\ [Next]_vars => OtherTypes'
  <1> SUFFICES ASSUME OtherTypes, [Next]_vars PROVE OtherTypes'
    OBVIOUS
  <1> USE RequestsAssumption, MaxAlertsAssumption
  <1>1. ASSUME NEW r \in Requests, Launch(r)
        PROVE  OtherTypes'
    BY <1>1 DEF Launch, worker, session, alert, OtherTypes, WorkerPCs,
       Results
  <1>2. CASE ReturnEarly
    BY <1>2 DEF ReturnEarly, TakeIntent, Unhandled, worker, session, alert,
       OtherTypes, WorkerPCs, Results
  <1>3. CASE HandleSession
    BY <1>3 DEF HandleSession, TakeIntent, Unhandled, worker, session,
       alert, OtherTypes, WorkerPCs, Results
  <1>4. CASE HandleCancel
    BY <1>4 DEF HandleCancel, TakeIntent, Unhandled, worker, session, alert,
       OtherTypes, WorkerPCs, Results
  <1>5. CASE WorkerCancel
    <2>1. CASE CancelThrows(RequestID[cur])
      <3>1. Die
        BY <1>5, <2>1 DEF WorkerCancel
      <3>2. QED
        BY <3>1 DEF Die, OtherTypes, WorkerPCs, Results
    <2>2. CASE ~CancelThrows(RequestID[cur])
      <3>1. g_cancelSession' \in {0, 1}
        BY <1>5, <2>2 DEF WorkerCancel, CancelSession, OtherTypes
      <3>2. QED
        BY <1>5, <2>2, <3>1
        DEF WorkerCancel, CancelSession, worker, alert, OtherTypes, WorkerPCs,
            Results
    <2>3. QED
      BY <2>1, <2>2
  <1>6. CASE BeginProcessMsg
    BY <1>6 DEF BeginProcessMsg, Goto, worker, session, alert, OtherTypes,
       WorkerPCs, Results
  <1>7. CASE CreateSession
    BY <1>7 DEF CreateSession, Goto, worker, session, alert, OtherTypes,
       WorkerPCs, Results
  <1>8. CASE StartTimeOutTick
    BY <1>8 DEF StartTimeOutTick, Goto, worker, session, alert, OtherTypes,
       WorkerPCs, Results
  <1>9. CASE RejectPkg0
    BY <1>9 DEF RejectPkg0, Goto, worker, session, alert, OtherTypes,
       WorkerPCs, Results
  <1>10. CASE EnterSession
    BY <1>10 DEF EnterSession, Goto, worker, session, alert, OtherTypes,
       WorkerPCs, Results
  <1>11. CASE FinishSession
    BY <1>11 DEF FinishSession, Goto, worker, session, alert, OtherTypes,
       WorkerPCs, Results
  <1>12. CASE ClearSession
    BY <1>12 DEF ClearSession, Goto, worker, session, alert, OtherTypes,
       WorkerPCs, Results
  <1>13. CASE SendResult
    <2>1. [req |-> cur, ret |-> ret] \in [req : Requests, ret : Results]
      BY <1>13 DEF SendResult, Goto, OtherTypes
    <2>2. results' \in Seq([req : Requests, ret : Results])
      BY <1>13, <2>1 DEF SendResult, OtherTypes
    <2>3. QED
      BY <1>13, <2>2
      DEF SendResult, Goto, session, alert, OtherTypes, WorkerPCs, Results
  <1>14. CASE EndProcessMsg
    BY <1>14 DEF EndProcessMsg, worker, session, alert, OtherTypes,
       WorkerPCs, Results
  <1>15. CASE ShowAlert
    BY <1>15 DEF ShowAlert, AlertUnchanged, worker, session, alert,
       OtherTypes, WorkerPCs, Results
  <1>16. CASE AwaitClosed
    BY <1>16 DEF AwaitClosed, AlertUnchanged, worker, session, alert,
       OtherTypes, WorkerPCs, Results
  <1>17. CASE AlertReturn
    BY <1>17 DEF AlertReturn, AlertUnchanged, worker, session, alert,
       OtherTypes, WorkerPCs, Results
  <1>18. CASE FireTimeout
    BY <1>18 DEF FireTimeout, worker, session, alert, OtherTypes, WorkerPCs,
       Results
  <1>19. CASE AbortSession
    <2>1. CASE CancelThrows(0)
      <3>1. Die
        BY <1>19, <2>1 DEF AbortSession
      <3>2. QED
        BY <3>1 DEF Die, OtherTypes, WorkerPCs, Results
    <2>2. CASE ~CancelThrows(0)
      <3>1. g_cancelSession' \in {0, 1}
        BY <1>19, <2>2 DEF AbortSession, CancelSession, OtherTypes
      <3>2. QED
        BY <1>19, <2>2, <3>1
        DEF AbortSession, CancelSession, worker, alert, OtherTypes, WorkerPCs,
            Results
    <2>3. QED
      BY <2>1, <2>2
  <1>20. CASE OpenDialog
    BY <1>20 DEF OpenDialog, AlertUnchanged, worker, session, alert,
       OtherTypes, WorkerPCs, Results
  <1>21. CASE CloseDialog
    BY <1>21 DEF CloseDialog, AlertUnchanged, worker, session, alert,
       OtherTypes, WorkerPCs, Results
  <1>22. CASE DeliverClosed
    BY <1>22 DEF DeliverClosed, AlertUnchanged, worker, session, alert,
       OtherTypes, WorkerPCs, Results
  <1>23. CASE CreateConfigDB
    BY <1>23 DEF CreateConfigDB, worker, session, alert, OtherTypes,
       WorkerPCs, Results
  <1>24. CASE OnDestroy
    BY <1>24 DEF OnDestroy, Unused, worker, session, alert, OtherTypes,
       WorkerPCs, Results
  <1>25. CASE DestroyUnready
    BY <1>25 DEF DestroyUnready, Unused, Die, worker, session, alert,
       OtherTypes, WorkerPCs, Results
  <1>26. ASSUME NEW b \in Binders, CallGetDMTree(b)
        PROVE  OtherTypes'
    BY <1>26 DEF CallGetDMTree, BinderUnchanged, worker, session, alert,
       OtherTypes, WorkerPCs, Results
  <1>27. ASSUME NEW b \in Binders, ReadDMTree(b)
        PROVE  OtherTypes'
    BY <1>27 DEF ReadDMTree, BinderUnchanged, worker, session, alert,
       OtherTypes, WorkerPCs, Results
  <1>28. ASSUME NEW b \in Binders, ReturnDMTree(b)
        PROVE  OtherTypes'
    BY <1>28 DEF ReturnDMTree, BinderUnchanged, worker, session, alert,
       OtherTypes, WorkerPCs, Results
  <1>29. CASE UNCHANGED vars
    BY <1>29 DEF vars, worker, session, alert, OtherTypes, WorkerPCs,
       Results
  <1>30. QED
    BY <1>1, <1>2, <1>3, <1>4, <1>5, <1>6, <1>7, <1>8, <1>9, <1>10, <1>11,
       <1>12, <1>13, <1>14, <1>15, <1>16, <1>17, <1>18, <1>19, <1>20, <1>21,
       <1>22, <1>23, <1>24, <1>25, <1>26, <1>27, <1>28, <1>29 DEF Next,
       WorkerStep, DialogStep, BinderStep

\* Every variable keeps its type.
THEOREM TypeCorrect == Spec => []TypeOK
<1>1. BooleanTypes /\ OtherTypes => TypeOK
  BY Zenon DEF TypeOK, BooleanTypes, OtherTypes
<1>2. Init => BooleanTypes
  BY Zenon DEF Init, BooleanTypes
<1>3. Init => OtherTypes
  BY RequestsAssumption, MaxAlertsAssumption
  DEF Init, OtherTypes, WorkerPCs, Results
<1>4. QED
  BY <1>1, <1>2, <1>3, BooleanTypesStep, OtherTypesStep, PTL DEF Spec

----------------------------------------------------------------------------
\* Locking.
LEMMA LockStep == OtherTypes /\ LockInv /\ [Next]_vars => LockInv'
  <1> SUFFICES ASSUME OtherTypes, LockInv, [Next]_vars PROVE LockInv'
    OBVIOUS
  <1> USE ThreadsAssumption
  <1>1. ASSUME NEW r \in Requests, Launch(r)
        PROVE  LockInv'
    BY <1>1 DEF Launch, worker, session, alert, OtherTypes, LockInv,
       InNative
  <1>2. CASE ReturnEarly
    BY <1>2 DEF ReturnEarly, TakeIntent, Unhandled, worker, session, alert,
       OtherTypes, LockInv, InNative
  <1>3. CASE HandleSession
    BY <1>3 DEF HandleSession, TakeIntent, Unhandled, worker, session,
       alert, OtherTypes, LockInv, InNative
  <1>4. CASE HandleCancel
    BY <1>4 DEF HandleCancel, TakeIntent, Unhandled, worker, session, alert,
       OtherTypes, LockInv, InNative
  <1>5. CASE WorkerCancel
    <2>1. CASE CancelThrows(RequestID[cur])
      BY <1>5, <2>1
      DEF WorkerCancel, Die, OtherTypes, LockInv, InNative
    <2>2. CASE ~CancelThrows(RequestID[cur])
      BY <1>5, <2>2
      DEF WorkerCancel, CancelSession, worker, alert, OtherTypes, LockInv, InNative
    <2>3. QED
      BY <2>1, <2>2
  <1>6. CASE BeginProcessMsg
    BY <1>6 DEF BeginProcessMsg, Goto, worker, session, alert, OtherTypes,
       LockInv, InNative
  <1>7. CASE CreateSession
    BY <1>7 DEF CreateSession, Goto, worker, session, alert, OtherTypes,
       LockInv, InNative
  <1>8. CASE StartTimeOutTick
    BY <1>8 DEF StartTimeOutTick, Goto, worker, session, alert, OtherTypes,
       LockInv, InNative
  <1>9. CASE RejectPkg0
    BY <1>9 DEF RejectPkg0, Goto, worker, session, alert, OtherTypes,
       LockInv, InNative
  <1>10. CASE EnterSession
    BY <1>10 DEF EnterSession, Goto, worker, session, alert, OtherTypes,
       LockInv, InNative
  <1>11. CASE FinishSession
    BY <1>11 DEF FinishSession, Goto, worker, session, alert, OtherTypes,
       LockInv, InNative
  <1>12. CASE ClearSession
    BY <1>12 DEF ClearSession, Goto, worker, session, alert, OtherTypes,
       LockInv, InNative
  <1>13. CASE SendResult
    BY <1>13 DEF SendResult, Goto, worker, session, alert, OtherTypes,
       LockInv, InNative
  <1>14. CASE EndProcessMsg
    BY <1>14 DEF EndProcessMsg, worker, session, alert, OtherTypes, LockInv,
       InNative
  <1>15. CASE ShowAlert
    BY <1>15 DEF ShowAlert, AlertUnchanged, worker, session, alert,
       OtherTypes, LockInv, InNative
  <1>16. CASE AwaitClosed
    BY <1>16 DEF AwaitClosed, AlertUnchanged, worker, session, alert,
       OtherTypes, LockInv, InNative
  <1>17. CASE AlertReturn
    BY <1>17 DEF AlertReturn, AlertUnchanged, worker, session, alert,
       OtherTypes, LockInv, InNative
  <1>18. CASE FireTimeout
    BY <1>18 DEF FireTimeout, worker, session, alert, OtherTypes, LockInv,
       InNative
  <1>19. CASE AbortSession
    <2>1. CASE CancelThrows(0)
      BY <1>19, <2>1
      DEF AbortSession, Die, OtherTypes, LockInv, InNative
    <2>2. CASE ~CancelThrows(0)
      BY <1>19, <2>2
      DEF AbortSession, CancelSession, worker, alert, OtherTypes, LockInv, InNative
    <2>3. QED
      BY <2>1, <2>2
  <1>20. CASE OpenDialog
    BY <1>20 DEF OpenDialog, AlertUnchanged, worker, session, alert,
       OtherTypes, LockInv, InNative
  <1>21. CASE CloseDialog
    BY <1>21 DEF CloseDialog, AlertUnchanged, worker, session, alert,
       OtherTypes, LockInv, InNative
  <1>22. CASE DeliverClosed
    BY <1>22 DEF DeliverClosed, AlertUnchanged, worker, session, alert,
       OtherTypes, LockInv, InNative
  <1>23. CASE CreateConfigDB
    BY <1>23 DEF CreateConfigDB, worker, session, alert, OtherTypes,
       LockInv, InNative
  <1>24. CASE OnDestroy
    BY <1>24 DEF OnDestroy, Unused, worker, session, alert, OtherTypes,
       LockInv, InNative
  <1>25. CASE DestroyUnready
    BY <1>25 DEF DestroyUnready, Unused, Die, worker, session, alert,
       OtherTypes, LockInv, InNative
  <1>26. ASSUME NEW b \in Binders, CallGetDMTree(b)
        PROVE  LockInv'
    BY <1>26 DEF CallGetDMTree, BinderUnchanged, worker, session, alert,
       OtherTypes, LockInv, InNative
  <1>27. ASSUME NEW b \in Binders, ReadDMTree(b)
        PROVE  LockInv'
    BY <1>27 DEF ReadDMTree, BinderUnchanged, worker, session, alert,
       OtherTypes, LockInv, InNative
  <1>28. ASSUME NEW b \in Binders, ReturnDMTree(b)
        PROVE  LockInv'
    BY <1>28 DEF ReturnDMTree, BinderUnchanged, worker, session, alert,
       OtherTypes, LockInv, InNative
  <1>29. CASE UNCHANGED vars
    BY <1>29 DEF vars, worker, session, alert, OtherTypes, LockInv, InNative
  <1>30. QED
    BY <1>1, <1>2, <1>3, <1>4, <1>5, <1>6, <1>7, <1>8, <1>9, <1>10, <1>11,
       <1>12, <1>13, <1>14, <1>15, <1>16, <1>17, <1>18, <1>19, <1>20, <1>21,
       <1>22, <1>23, <1>24, <1>25, <1>26, <1>27, <1>28, <1>29 DEF Next,
       WorkerStep, DialogStep, BinderStep

\* The session object.
LEMMA SessionStep ==
    OtherTypes /\ LockInv /\ SessionInv /\ [Next]_vars => SessionInv'
  <1> SUFFICES ASSUME OtherTypes, LockInv, SessionInv, [Next]_vars
               PROVE  SessionInv'
    OBVIOUS
  <1> USE ThreadsAssumption
  <1>1. ASSUME NEW r \in Requests, Launch(r)
        PROVE  SessionInv'
    BY <1>1 DEF Launch, worker, session, alert, OtherTypes, LockInv,
       SessionInv, InNative, InProcessMsg, WorkerPCs
  <1>2. CASE ReturnEarly
    BY <1>2 DEF ReturnEarly, TakeIntent, Unhandled, worker, session, alert,
       OtherTypes, LockInv, SessionInv, InNative, InProcessMsg, WorkerPCs
  <1>3. CASE HandleSession
    BY <1>3 DEF HandleSession, TakeIntent, Unhandled, worker, session,
       alert, OtherTypes, LockInv, SessionInv, InNative, InProcessMsg,
       WorkerPCs
  <1>4. CASE HandleCancel
    BY <1>4 DEF HandleCancel, TakeIntent, Unhandled, worker, session, alert,
       OtherTypes, LockInv, SessionInv, InNative, InProcessMsg, WorkerPCs
  <1>5. CASE WorkerCancel
    <2>1. CASE CancelThrows(RequestID[cur])
      <3>1. Die
        BY <1>5, <2>1 DEF WorkerCancel
      <3>2. QED
        BY <3>1 DEF Die, SessionInv, InNative, InProcessMsg, WorkerPCs
    <2>2. CASE ~CancelThrows(RequestID[cur])
      BY <1>5, <2>2
      DEF WorkerCancel, CancelSession, worker, alert, OtherTypes, LockInv,
          SessionInv, InNative, InProcessMsg, WorkerPCs
    <2>3. QED
      BY <2>1, <2>2
  <1>6. CASE BeginProcessMsg
    BY <1>6 DEF BeginProcessMsg, Goto, worker, session, alert, OtherTypes,
       LockInv, SessionInv, InNative, InProcessMsg, WorkerPCs
  <1>7. CASE CreateSession
    BY <1>7 DEF CreateSession, Goto, worker, session, alert, OtherTypes,
       LockInv, SessionInv, InNative, InProcessMsg, WorkerPCs
  <1>8. CASE StartTimeOutTick
    BY <1>8 DEF StartTimeOutTick, Goto, worker, session, alert, OtherTypes,
       LockInv, SessionInv, InNative, InProcessMsg, WorkerPCs
  <1>9. CASE RejectPkg0
    BY <1>9 DEF RejectPkg0, Goto, worker, session, alert, OtherTypes,
       LockInv, SessionInv, InNative, InProcessMsg, WorkerPCs
  <1>10. CASE EnterSession
    BY <1>10 DEF EnterSession, Goto, worker, session, alert, OtherTypes,
       LockInv, SessionInv, InNative, InProcessMsg, WorkerPCs
  <1>11. CASE FinishSession
    BY <1>11 DEF FinishSession, Goto, worker, session, alert, OtherTypes,
       LockInv, SessionInv, InNative, InProcessMsg, WorkerPCs
  <1>12. CASE ClearSession
    BY <1>12 DEF ClearSession, Goto, worker, session, alert, OtherTypes,
       LockInv, SessionInv, InNative, InProcessMsg, WorkerPCs
  <1>13. CASE SendResult
    BY <1>13 DEF SendResult, Goto, worker, session, alert, OtherTypes,
       LockInv, SessionInv, InNative, InProcessMsg, WorkerPCs
  <1>14. CASE EndProcessMsg
    BY <1>14 DEF EndProcessMsg, worker, session, alert, OtherTypes, LockInv,
       SessionInv, InNative, InProcessMsg, WorkerPCs
  <1>15. CASE ShowAlert
    BY <1>15 DEF ShowAlert, AlertUnchanged, worker, session, alert,
       OtherTypes, LockInv, SessionInv, InNative, InProcessMsg, WorkerPCs
  <1>16. CASE AwaitClosed
    BY <1>16 DEF AwaitClosed, AlertUnchanged, worker, session, alert,
       OtherTypes, LockInv, SessionInv, InNative, InProcessMsg, WorkerPCs
  <1>17. CASE AlertReturn
    BY <1>17 DEF AlertReturn, AlertUnchanged, worker, session, alert,
       OtherTypes, LockInv, SessionInv, InNative, InProcessMsg, WorkerPCs
  <1>18. CASE FireTimeout
    BY <1>18 DEF FireTimeout, worker, session, alert, OtherTypes, LockInv,
       SessionInv, InNative, InProcessMsg, WorkerPCs
  <1>19. CASE AbortSession
    <2>1. CASE CancelThrows(0)
      <3>1. Die
        BY <1>19, <2>1 DEF AbortSession
      <3>2. QED
        BY <3>1 DEF Die, SessionInv, InNative, InProcessMsg, WorkerPCs
    <2>2. CASE ~CancelThrows(0)
      BY <1>19, <2>2
      DEF AbortSession, CancelSession, worker, alert, OtherTypes, LockInv,
          SessionInv, InNative, InProcessMsg, WorkerPCs
    <2>3. QED
      BY <2>1, <2>2
  <1>20. CASE OpenDialog
    BY <1>20 DEF OpenDialog, AlertUnchanged, worker, session, alert,
       OtherTypes, LockInv, SessionInv, InNative, InProcessMsg, WorkerPCs
  <1>21. CASE CloseDialog
    BY <1>21 DEF CloseDialog, AlertUnchanged, worker, session, alert,
       OtherTypes, LockInv, SessionInv, InNative, InProcessMsg, WorkerPCs
  <1>22. CASE DeliverClosed
    BY <1>22 DEF DeliverClosed, AlertUnchanged, worker, session, alert,
       OtherTypes, LockInv, SessionInv, InNative, InProcessMsg, WorkerPCs
  <1>23. CASE CreateConfigDB
    BY <1>23 DEF CreateConfigDB, worker, session, alert, OtherTypes,
       LockInv, SessionInv, InNative, InProcessMsg, WorkerPCs
  <1>24. CASE OnDestroy
    BY <1>24 DEF OnDestroy, Unused, worker, session, alert, OtherTypes,
       LockInv, SessionInv, InNative, InProcessMsg, WorkerPCs
  <1>25. CASE DestroyUnready
    BY <1>25 DEF DestroyUnready, Unused, Die, worker, session, alert,
       OtherTypes, LockInv, SessionInv, InNative, InProcessMsg, WorkerPCs
  <1>26. ASSUME NEW b \in Binders, CallGetDMTree(b)
        PROVE  SessionInv'
    BY <1>26 DEF CallGetDMTree, BinderUnchanged, worker, session, alert,
       OtherTypes, LockInv, SessionInv, InNative, InProcessMsg, WorkerPCs
  <1>27. ASSUME NEW b \in Binders, ReadDMTree(b)
        PROVE  SessionInv'
    BY <1>27 DEF ReadDMTree, BinderUnchanged, worker, session, alert,
       OtherTypes, LockInv, SessionInv, InNative, InProcessMsg, WorkerPCs
  <1>28. ASSUME NEW b \in Binders, ReturnDMTree(b)
        PROVE  SessionInv'
    BY <1>28 DEF ReturnDMTree, BinderUnchanged, worker, session, alert,
       OtherTypes, LockInv, SessionInv, InNative, InProcessMsg, WorkerPCs
  <1>29. CASE UNCHANGED vars
    BY <1>29 DEF vars, worker, session, alert, OtherTypes, LockInv,
       SessionInv, InNative, InProcessMsg, WorkerPCs
  <1>30. QED
    BY <1>1, <1>2, <1>3, <1>4, <1>5, <1>6, <1>7, <1>8, <1>9, <1>10, <1>11,
       <1>12, <1>13, <1>14, <1>15, <1>16, <1>17, <1>18, <1>19, <1>20, <1>21,
       <1>22, <1>23, <1>24, <1>25, <1>26, <1>27, <1>28, <1>29 DEF Next,
       WorkerStep, DialogStep, BinderStep

----------------------------------------------------------------------------
\* Requests.  Each intent is in one place: in the queue, at hand, answered.
LEMMA RequestStep ==
    OtherTypes /\ RequestInv /\ [Next]_vars => RequestInv'
  <1> SUFFICES ASSUME OtherTypes, RequestInv, [Next]_vars PROVE RequestInv'
    OBVIOUS
  <1> USE RequestsAssumption
  <1>1. ASSUME NEW r \in Requests, Launch(r)
        PROVE  RequestInv'
    <2>1. queue' = Append(queue, r) /\ sent' = sent \cup {r} /\ r \notin sent
      BY <1>1 DEF Launch
    <2>2. UNCHANGED <<wpc, cur, ret, results>>
      BY <1>1 DEF Launch, worker
    <2>3. \A i \in DOMAIN queue' :
              \/ i \in DOMAIN queue /\ queue'[i] = queue[i]
              \/ i = Len(queue) + 1 /\ queue'[i] = r
      BY <2>1 DEF OtherTypes
    <2>4. QED
      BY SMTT(30), <2>1, <2>2, <2>3 DEF OtherTypes, RequestInv, Answered
  <1>2. CASE ReturnEarly
    <2>1. queue # <<>> /\ queue' = Tail(queue)
      BY <1>2 DEF ReturnEarly, TakeIntent
    <2>2. \A i \in DOMAIN queue' :
              /\ i \in Nat \ {0} /\ i + 1 \in DOMAIN queue
              /\ queue'[i] = queue[i + 1]
      BY <2>1 DEF OtherTypes
    <2>3. 1 \in DOMAIN queue /\ Head(queue) = queue[1]
      BY <2>1 DEF OtherTypes
    <2>4. \A i \in DOMAIN queue' : queue'[i] # Head(queue)
      BY <2>2, <2>3 DEF RequestInv
    <2>5. UNCHANGED <<sent, results>>
      BY <1>2 DEF ReturnEarly, Unhandled
    <2>6. \A i, j \in DOMAIN queue' : queue'[i] = queue'[j] => i = j
      BY <2>1, <2>2 DEF OtherTypes, RequestInv
    <2>7. \A i \in DOMAIN queue' :
              /\ queue'[i] \in sent
              /\ queue'[i] # cur
              /\ \A j \in DOMAIN results : queue'[i] # results[j].req
      BY <2>2 DEF RequestInv
    <2>8. /\ Head(queue) \in sent \cap Requests
          /\ \A j \in DOMAIN results : Head(queue) # results[j].req
      BY <2>3 DEF OtherTypes, RequestInv
    <2>9. UNCHANGED <<wpc, cur>>
      BY <1>2 DEF ReturnEarly, TakeIntent, worker, SessionKinds
    <2>10. QED
      BY <2>4, <2>5, <2>6, <2>7, <2>8, <2>9
      DEF RequestInv, Answered
  <1>3. CASE HandleSession
    <2>1. queue # <<>> /\ queue' = Tail(queue)
      BY <1>3 DEF HandleSession, TakeIntent
    <2>2. \A i \in DOMAIN queue' :
              /\ i \in Nat \ {0} /\ i + 1 \in DOMAIN queue
              /\ queue'[i] = queue[i + 1]
      BY <2>1 DEF OtherTypes
    <2>3. 1 \in DOMAIN queue /\ Head(queue) = queue[1]
      BY <2>1 DEF OtherTypes
    <2>4. \A i \in DOMAIN queue' : queue'[i] # Head(queue)
      BY <2>2, <2>3 DEF RequestInv
    <2>5. UNCHANGED <<sent, results>>
      BY <1>3 DEF HandleSession, Unhandled
    <2>6. \A i, j \in DOMAIN queue' : queue'[i] = queue'[j] => i = j
      BY <2>1, <2>2 DEF OtherTypes, RequestInv
    <2>7. \A i \in DOMAIN queue' :
              /\ queue'[i] \in sent
              /\ queue'[i] # cur
              /\ \A j \in DOMAIN results : queue'[i] # results[j].req
      BY <2>2 DEF RequestInv
    <2>8. /\ Head(queue) \in sent \cap Requests
          /\ \A j \in DOMAIN results : Head(queue) # results[j].req
      BY <2>3 DEF OtherTypes, RequestInv
    <2>9. /\ wpc = "idle" /\ wpc' = "process"
          /\ cur' = Head(queue) /\ Kind[Head(queue)] # "ignored"
      BY <1>3 DEF HandleSession, TakeIntent, worker, SessionKinds
    <2>10. QED
      BY <2>4, <2>5, <2>6, <2>7, <2>8, <2>9
      DEF RequestInv, Answered
  <1>4. CASE HandleCancel
    <2>1. queue # <<>> /\ queue' = Tail(queue)
      BY <1>4 DEF HandleCancel, TakeIntent
    <2>2. \A i \in DOMAIN queue' :
              /\ i \in Nat \ {0} /\ i + 1 \in DOMAIN queue
              /\ queue'[i] = queue[i + 1]
      BY <2>1 DEF OtherTypes
    <2>3. 1 \in DOMAIN queue /\ Head(queue) = queue[1]
      BY <2>1 DEF OtherTypes
    <2>4. \A i \in DOMAIN queue' : queue'[i] # Head(queue)
      BY <2>2, <2>3 DEF RequestInv
    <2>5. UNCHANGED <<sent, results>>
      BY <1>4 DEF HandleCancel, Unhandled
    <2>6. \A i, j \in DOMAIN queue' : queue'[i] = queue'[j] => i = j
      BY <2>1, <2>2 DEF OtherTypes, RequestInv
    <2>7. \A i \in DOMAIN queue' :
              /\ queue'[i] \in sent
              /\ queue'[i] # cur
              /\ \A j \in DOMAIN results : queue'[i] # results[j].req
      BY <2>2 DEF RequestInv
    <2>8. /\ Head(queue) \in sent \cap Requests
          /\ \A j \in DOMAIN results : Head(queue) # results[j].req
      BY <2>3 DEF OtherTypes, RequestInv
    <2>9. /\ wpc = "idle" /\ wpc' = "cancel"
          /\ cur' = Head(queue) /\ Kind[Head(queue)] # "ignored"
      BY <1>4 DEF HandleCancel, TakeIntent, worker, SessionKinds
    <2>10. QED
      BY <2>4, <2>5, <2>6, <2>7, <2>8, <2>9
      DEF RequestInv, Answered
  <1>5. CASE WorkerCancel
    <2>1. CASE CancelThrows(RequestID[cur])
      <3>1. Die
        BY <1>5, <2>1 DEF WorkerCancel
      <3>2. cur' \notin Answered'
        BY <3>1 DEF Die, RequestInv, Answered, OtherTypes
      <3>3. QED
        BY <3>1, <3>2 DEF Die, RequestInv, Answered, OtherTypes
    <2>2. CASE ~CancelThrows(RequestID[cur])
      BY <1>5, <2>2
      DEF WorkerCancel, CancelSession, worker, OtherTypes, RequestInv, Answered
    <2>3. QED
      BY <2>1, <2>2
  <1>6. CASE BeginProcessMsg
    BY <1>6 DEF BeginProcessMsg, Goto, worker, session, alert, OtherTypes,
       RequestInv, Answered
  <1>7. CASE CreateSession
    BY <1>7 DEF CreateSession, Goto, worker, session, alert, OtherTypes,
       RequestInv, Answered
  <1>8. CASE StartTimeOutTick
    BY <1>8 DEF StartTimeOutTick, Goto, worker, session, alert, OtherTypes,
       RequestInv, Answered
  <1>9. CASE RejectPkg0
    BY <1>9 DEF RejectPkg0, Goto, worker, session, alert, OtherTypes,
       RequestInv, Answered
  <1>10. CASE EnterSession
    BY <1>10 DEF EnterSession, Goto, worker, session, alert, OtherTypes,
       RequestInv, Answered
  <1>11. CASE FinishSession
    BY <1>11 DEF FinishSession, Goto, worker, session, alert, OtherTypes,
       RequestInv, Answered
  <1>12. CASE ClearSession
    BY <1>12 DEF ClearSession, Goto, worker, session, alert, OtherTypes,
       RequestInv, Answered
  <1>13. CASE SendResult
    <2>1. /\ wpc = "result" /\ wpc' = "finally" /\ cur' = cur
          /\ UNCHANGED <<sent, queue>>
          /\ results' = Append(results, [req |-> cur, ret |-> ret])
      BY <1>13 DEF SendResult, Goto
    <2>2. \A i \in DOMAIN results' :
              \/ i \in DOMAIN results /\ results'[i] = results[i]
              \/ i = Len(results) + 1 /\ results'[i].req = cur
      BY <2>1 DEF OtherTypes
    <2>3. Len(results) + 1 \in DOMAIN results'
          /\ results'[Len(results) + 1].req = cur
      BY <2>1 DEF OtherTypes
    <2>4. cur \in Answered'
      BY <2>3, <2>1 DEF Answered
    <2>5. \A i \in DOMAIN results : results[i].req # cur
      BY <2>1 DEF RequestInv, Answered
    <2>6. QED
      BY SMTT(30), <2>1, <2>2, <2>4, <2>5 DEF OtherTypes, RequestInv, Answered
  <1>14. CASE EndProcessMsg
    BY <1>14 DEF EndProcessMsg, worker, session, alert, OtherTypes,
       RequestInv, Answered
  <1>15. CASE ShowAlert
    BY <1>15 DEF ShowAlert, AlertUnchanged, worker, session, alert,
       OtherTypes, RequestInv, Answered
  <1>16. CASE AwaitClosed
    BY <1>16 DEF AwaitClosed, AlertUnchanged, worker, session, alert,
       OtherTypes, RequestInv, Answered
  <1>17. CASE AlertReturn
    BY <1>17 DEF AlertReturn, AlertUnchanged, worker, session, alert,
       OtherTypes, RequestInv, Answered
  <1>18. CASE FireTimeout
    BY <1>18 DEF FireTimeout, worker, session, alert, OtherTypes,
       RequestInv, Answered
  <1>19. CASE AbortSession
    <2>1. CASE CancelThrows(0)
      <3>1. Die
        BY <1>19, <2>1 DEF AbortSession
      <3>2. cur' \notin Answered'
        BY <3>1 DEF Die, RequestInv, Answered, OtherTypes
      <3>3. QED
        BY <3>1, <3>2 DEF Die, RequestInv, Answered, OtherTypes
    <2>2. CASE ~CancelThrows(0)
      BY <1>19, <2>2
      DEF AbortSession, CancelSession, worker, OtherTypes, RequestInv, Answered
    <2>3. QED
      BY <2>1, <2>2
  <1>20. CASE OpenDialog
    BY <1>20 DEF OpenDialog, AlertUnchanged, worker, session, alert,
       OtherTypes, RequestInv, Answered
  <1>21. CASE CloseDialog
    BY <1>21 DEF CloseDialog, AlertUnchanged, worker, session, alert,
       OtherTypes, RequestInv, Answered
  <1>22. CASE DeliverClosed
    BY <1>22 DEF DeliverClosed, AlertUnchanged, worker, session, alert,
       OtherTypes, RequestInv, Answered
  <1>23. CASE CreateConfigDB
    BY <1>23 DEF CreateConfigDB, worker, session, alert, OtherTypes,
       RequestInv, Answered
  <1>24. CASE OnDestroy
    BY <1>24 DEF OnDestroy, Unused, worker, session, alert, OtherTypes,
       RequestInv, Answered
  <1>25. CASE DestroyUnready
    BY <1>25 DEF DestroyUnready, Unused, Die, worker, session, alert,
       OtherTypes, RequestInv, Answered
  <1>26. ASSUME NEW b \in Binders, CallGetDMTree(b)
        PROVE  RequestInv'
    BY <1>26 DEF CallGetDMTree, BinderUnchanged, worker, session, alert,
       OtherTypes, RequestInv, Answered
  <1>27. ASSUME NEW b \in Binders, ReadDMTree(b)
        PROVE  RequestInv'
    BY <1>27 DEF ReadDMTree, BinderUnchanged, worker, session, alert,
       OtherTypes, RequestInv, Answered
  <1>28. ASSUME NEW b \in Binders, ReturnDMTree(b)
        PROVE  RequestInv'
    BY <1>28 DEF ReturnDMTree, BinderUnchanged, worker, session, alert,
       OtherTypes, RequestInv, Answered
  <1>29. CASE UNCHANGED vars
    BY <1>29 DEF vars, worker, session, alert, OtherTypes, RequestInv,
       Answered
  <1>30. QED
    BY <1>1, <1>2, <1>3, <1>4, <1>5, <1>6, <1>7, <1>8, <1>9, <1>10, <1>11,
       <1>12, <1>13, <1>14, <1>15, <1>16, <1>17, <1>18, <1>19, <1>20, <1>21,
       <1>22, <1>23, <1>24, <1>25, <1>26, <1>27, <1>28, <1>29 DEF Next,
       WorkerStep, DialogStep, BinderStep

----------------------------------------------------------------------------
\* The invariant, and the safety properties that follow from it.
IInv == OtherTypes /\ LockInv /\ SessionInv /\ RequestInv

LEMMA Invariant == Spec => []IInv
<1>1. Init => OtherTypes
  BY RequestsAssumption, MaxAlertsAssumption
  DEF Init, OtherTypes, WorkerPCs, Results
<1>2. Init => LockInv /\ SessionInv
  BY ThreadsAssumption
  DEF Init, LockInv, SessionInv, InNative, InProcessMsg, WorkerPCs
<1>3. Init => RequestInv
  BY DEF Init, RequestInv, Answered
<1>4. QED
  BY <1>1, <1>2, <1>3, OtherTypesStep, LockStep, SessionStep, RequestStep, PTL
  DEF Spec, IInv

\* getDMTree and a session never use the native engine at once.
THEOREM NativeEngineExclusive == Spec => []NativeExclusive
<1>1. IInv => NativeExclusive
  BY ThreadsAssumption DEF IInv, OtherTypes, LockInv, NativeExclusive
<1>2. QED
  BY <1>1, Invariant, PTL

\* sIsDMSessionInProgress is set for as long as there is a session.
THEOREM FlagIsTrusted == Spec => []FlagCoversSession
<1>1. IInv => FlagCoversSession
  BY DEF IInv, SessionInv, FlagCoversSession, InNative, InProcessMsg,
         WorkerPCs
<1>2. QED
  BY <1>1, Invariant, PTL

\* No launch intent is answered twice, or while it waits.
THEOREM AnsweredOnce == Spec => []OneResultEach
<1>1. IInv => OneResultEach
  BY DEF IInv, RequestInv, OneResultEach, Answered, Queued
<1>2. QED
  BY <1>1, Invariant, PTL

----------------------------------------------------------------------------
\* Refinement.  Each action is an action of SessionQueue or a stuttering step.
LEMMA RefinementStep == IInv /\ [Next]_vars => [Service!Next]_Service!vars
  <1> SUFFICES ASSUME IInv, [Next]_vars
               PROVE  [Service!Next]_Service!vars
    OBVIOUS
  <1> DEFINE Step == [Service!Next]_Service!vars
  <1>a. Die => Service!Next
    BY DEF Die, Service!Next, Service!Lose
  <1>1. ASSUME NEW r \in Requests, Launch(r)
        PROVE  Step
    <2>1. Service!Accept(r)
      BY <1>1 DEF Launch, worker, Service!Accept
    <2>2. QED
      BY <2>1 DEF Service!Next
  <1>2. CASE ReturnEarly
    <2>1. cur = NoRequest
      BY <1>2 DEF ReturnEarly, TakeIntent, IInv, RequestInv
    <2>2. Head(queue) \in Requests
      BY <1>2 DEF ReturnEarly, TakeIntent, IInv, OtherTypes
    <2>3. Service!Skip
      BY <1>2, <2>1, <2>2
      DEF ReturnEarly, TakeIntent, Unhandled, worker, SessionKinds,
          Service!Skip
    <2>4. QED
      BY <2>3 DEF Service!Next
  <1>3. CASE HandleSession
    <2>1. cur = NoRequest
      BY <1>3 DEF HandleSession, TakeIntent, IInv, RequestInv
    <2>2. Head(queue) \in Requests
      BY <1>3 DEF HandleSession, TakeIntent, IInv, OtherTypes
    <2>3. Service!Begin
      BY <1>3, <2>1, <2>2
      DEF HandleSession, TakeIntent, Unhandled, worker, SessionKinds,
          Service!Begin
    <2>4. QED
      BY <2>3 DEF Service!Next
  <1>4. CASE HandleCancel
    <2>1. cur = NoRequest
      BY <1>4 DEF HandleCancel, TakeIntent, IInv, RequestInv
    <2>2. Head(queue) \in Requests
      BY <1>4 DEF HandleCancel, TakeIntent, IInv, OtherTypes
    <2>3. Service!Begin
      BY <1>4, <2>1, <2>2
      DEF HandleCancel, TakeIntent, Unhandled, worker, SessionKinds,
          Service!Begin
    <2>4. QED
      BY <2>3 DEF Service!Next
  <1>5. CASE WorkerCancel
    <2>1. CASE CancelThrows(RequestID[cur])
      BY <1>5, <2>1, <1>a DEF WorkerCancel
    <2>2. CASE ~CancelThrows(RequestID[cur])
      BY <1>5, <2>2 DEF WorkerCancel, CancelSession, worker, Service!vars
    <2>3. QED
      BY <2>1, <2>2
  <1>6. CASE BeginProcessMsg
    <2>1. cur # NoRequest /\ ~sIsDMSessionInProgress
      BY <1>6 DEF BeginProcessMsg, Goto, IInv, RequestInv, SessionInv,
                InProcessMsg
    <2>2. Service!Engage
      BY <1>6, <2>1, Zenon DEF BeginProcessMsg, Goto, Service!Engage
    <2>3. QED
      BY <2>2 DEF Service!Next
  <1>7. CASE CreateSession
    BY <1>7 DEF CreateSession, Goto, worker, session, alert, Service!vars
  <1>8. CASE StartTimeOutTick
    BY <1>8 DEF StartTimeOutTick, Goto, worker, session, alert, Service!vars
  <1>9. CASE RejectPkg0
    BY <1>9 DEF RejectPkg0, Goto, worker, session, alert, Service!vars
  <1>10. CASE EnterSession
    BY <1>10 DEF EnterSession, Goto, worker, session, alert, Service!vars
  <1>11. CASE FinishSession
    BY <1>11 DEF FinishSession, Goto, worker, session, alert, Service!vars
  <1>12. CASE ClearSession
    BY <1>12 DEF ClearSession, Goto, worker, session, alert, Service!vars
  <1>13. CASE SendResult
    <2>1. /\ cur # NoRequest /\ cur \notin Answered
          /\ sIsDMSessionInProgress /\ ret \in Results
      BY <1>13 DEF SendResult, Goto, IInv, OtherTypes, RequestInv, SessionInv,
                InProcessMsg, WorkerPCs
    <2>2. Service!Answer(ret)
      BY <1>13, <2>1
      DEF SendResult, Goto, Service!Answer, Service!Answered, Answered
    <2>3. QED
      BY <2>1, <2>2 DEF Service!Next
  <1>14. CASE EndProcessMsg
    <2>1. cur \in Answered /\ sIsDMSessionInProgress
      BY <1>14 DEF EndProcessMsg, IInv, RequestInv, SessionInv, InProcessMsg,
                WorkerPCs
    <2>2. Service!Finish
      BY <1>14, <2>1
      DEF EndProcessMsg, Service!Finish, Service!Answered, Answered
    <2>3. QED
      BY <2>2 DEF Service!Next
  <1>15. CASE ShowAlert
    BY <1>15 DEF ShowAlert, AlertUnchanged, worker, session, alert,
       Service!vars
  <1>16. CASE AwaitClosed
    BY <1>16 DEF AwaitClosed, AlertUnchanged, worker, session, alert,
       Service!vars
  <1>17. CASE AlertReturn
    BY <1>17 DEF AlertReturn, AlertUnchanged, worker, session, alert,
       Service!vars
  <1>18. CASE FireTimeout
    BY <1>18 DEF FireTimeout, worker, session, alert, Service!vars
  <1>19. CASE AbortSession
    <2>1. CASE CancelThrows(0)
      BY <1>19, <2>1, <1>a DEF AbortSession
    <2>2. CASE ~CancelThrows(0)
      BY <1>19, <2>2 DEF AbortSession, CancelSession, worker, Service!vars
    <2>3. QED
      BY <2>1, <2>2
  <1>20. CASE OpenDialog
    BY <1>20 DEF OpenDialog, AlertUnchanged, worker, session, alert,
       Service!vars
  <1>21. CASE CloseDialog
    BY <1>21 DEF CloseDialog, AlertUnchanged, worker, session, alert,
       Service!vars
  <1>22. CASE DeliverClosed
    BY <1>22 DEF DeliverClosed, AlertUnchanged, worker, session, alert,
       Service!vars
  <1>23. CASE CreateConfigDB
    BY <1>23 DEF CreateConfigDB, worker, session, alert, Service!vars
  <1>24. CASE OnDestroy
    BY <1>24 DEF OnDestroy, Unused, worker, session, alert, Service!vars
  <1>25. CASE DestroyUnready
    BY <1>25, <1>a DEF DestroyUnready
  <1>26. ASSUME NEW b \in Binders, CallGetDMTree(b)
        PROVE  Step
    BY <1>26 DEF CallGetDMTree, BinderUnchanged, worker, session, alert,
       Service!vars
  <1>27. ASSUME NEW b \in Binders, ReadDMTree(b)
        PROVE  Step
    BY <1>27 DEF ReadDMTree, BinderUnchanged, worker, session, alert,
       Service!vars
  <1>28. ASSUME NEW b \in Binders, ReturnDMTree(b)
        PROVE  Step
    BY <1>28 DEF ReturnDMTree, BinderUnchanged, worker, session, alert,
       Service!vars
  <1>29. CASE UNCHANGED vars
    BY <1>29 DEF vars, worker, session, alert, Service!vars
  <1>30. QED
    BY <1>1, <1>2, <1>3, <1>4, <1>5, <1>6, <1>7, <1>8, <1>9, <1>10, <1>11,
       <1>12, <1>13, <1>14, <1>15, <1>16, <1>17, <1>18, <1>19, <1>20, <1>21,
       <1>22, <1>23, <1>24, <1>25, <1>26, <1>27, <1>28, <1>29 DEF Next,
       WorkerStep, DialogStep, BinderStep

\* The service keeps the promise of SessionQueue: intents in order, one at a
\* time, one answer each, none repeated by a crash.
THEOREM Refinement == Spec => ImplementsSessionQueue
<1>1. Init => Service!Init
  BY DEF Init, Service!Init
<1>2. QED
  BY <1>1, Invariant, RefinementStep, PTL
  DEF Spec, Service!Spec, ImplementsSessionQueue

----------------------------------------------------------------------------
\* Action properties.
FlagStep == sIsDMSessionInProgress /\ ~sIsDMSessionInProgress'
                => cur \in Answered \/ ~up'

LEMMA FlagStepHolds == IInv /\ [Next]_vars => FlagStep
  <1> SUFFICES ASSUME IInv, [Next]_vars PROVE FlagStep
    OBVIOUS
  <1>a. Die => FlagStep
    BY DEF Die, FlagStep
  <1>1. ASSUME NEW r \in Requests, Launch(r)
        PROVE  FlagStep
    BY <1>1, Zenon DEF Launch, FlagStep
  <1>2. CASE ReturnEarly
    BY <1>2, Zenon DEF ReturnEarly, TakeIntent, Unhandled, FlagStep
  <1>3. CASE HandleSession
    BY <1>3, Zenon DEF HandleSession, TakeIntent, Unhandled, FlagStep
  <1>4. CASE HandleCancel
    BY <1>4, Zenon DEF HandleCancel, TakeIntent, Unhandled, FlagStep
  <1>5. CASE WorkerCancel
    <2>1. CASE CancelThrows(RequestID[cur])
      BY <1>5, <2>1, <1>a DEF WorkerCancel
    <2>2. CASE ~CancelThrows(RequestID[cur])
      BY <1>5, <2>2, Zenon DEF WorkerCancel, CancelSession, FlagStep
    <2>3. QED
      BY <2>1, <2>2
  <1>6. CASE BeginProcessMsg
    BY <1>6, Zenon DEF BeginProcessMsg, Goto, FlagStep
  <1>7. CASE CreateSession
    BY <1>7, Zenon DEF CreateSession, Goto, FlagStep
  <1>8. CASE StartTimeOutTick
    BY <1>8, Zenon DEF StartTimeOutTick, Goto, FlagStep
  <1>9. CASE RejectPkg0
    BY <1>9, Zenon DEF RejectPkg0, Goto, FlagStep
  <1>10. CASE EnterSession
    BY <1>10, Zenon DEF EnterSession, Goto, FlagStep
  <1>11. CASE FinishSession
    BY <1>11, Zenon DEF FinishSession, Goto, FlagStep
  <1>12. CASE ClearSession
    BY <1>12, Zenon DEF ClearSession, Goto, FlagStep
  <1>13. CASE SendResult
    BY <1>13, Zenon DEF SendResult, Goto, FlagStep
  <1>14. CASE EndProcessMsg
    BY <1>14 DEF EndProcessMsg, FlagStep, IInv, RequestInv
  <1>15. CASE ShowAlert
    BY <1>15, Zenon DEF ShowAlert, AlertUnchanged, FlagStep
  <1>16. CASE AwaitClosed
    BY <1>16, Zenon DEF AwaitClosed, AlertUnchanged, FlagStep
  <1>17. CASE AlertReturn
    BY <1>17, Zenon DEF AlertReturn, AlertUnchanged, FlagStep
  <1>18. CASE FireTimeout
    BY <1>18, Zenon DEF FireTimeout, FlagStep
  <1>19. CASE AbortSession
    <2>1. CASE CancelThrows(0)
      BY <1>19, <2>1, <1>a DEF AbortSession
    <2>2. CASE ~CancelThrows(0)
      BY <1>19, <2>2, Zenon DEF AbortSession, CancelSession, FlagStep
    <2>3. QED
      BY <2>1, <2>2
  <1>20. CASE OpenDialog
    BY <1>20, Zenon DEF OpenDialog, AlertUnchanged, FlagStep
  <1>21. CASE CloseDialog
    BY <1>21, Zenon DEF CloseDialog, AlertUnchanged, FlagStep
  <1>22. CASE DeliverClosed
    BY <1>22, Zenon DEF DeliverClosed, AlertUnchanged, FlagStep
  <1>23. CASE CreateConfigDB
    BY <1>23, Zenon DEF CreateConfigDB, FlagStep
  <1>24. CASE OnDestroy
    BY <1>24, Zenon DEF OnDestroy, Unused, FlagStep
  <1>25. CASE DestroyUnready
    BY <1>25, <1>a DEF DestroyUnready
  <1>26. ASSUME NEW b \in Binders, CallGetDMTree(b)
        PROVE  FlagStep
    BY <1>26, Zenon DEF CallGetDMTree, BinderUnchanged, FlagStep
  <1>27. ASSUME NEW b \in Binders, ReadDMTree(b)
        PROVE  FlagStep
    BY <1>27, Zenon DEF ReadDMTree, BinderUnchanged, FlagStep
  <1>28. ASSUME NEW b \in Binders, ReturnDMTree(b)
        PROVE  FlagStep
    BY <1>28, Zenon DEF ReturnDMTree, BinderUnchanged, FlagStep
  <1>29. CASE UNCHANGED vars
    BY <1>29, Zenon DEF vars, FlagStep
  <1>30. QED
    BY <1>1, <1>2, <1>3, <1>4, <1>5, <1>6, <1>7, <1>8, <1>9, <1>10, <1>11,
       <1>12, <1>13, <1>14, <1>15, <1>16, <1>17, <1>18, <1>19, <1>20, <1>21,
       <1>22, <1>23, <1>24, <1>25, <1>26, <1>27, <1>28, <1>29 DEF Next,
       WorkerStep, DialogStep, BinderStep

\* The in-progress flag falls only once the result of the intent is out, or
\* with the process.
THEOREM ResultPrecedesFlag == Spec => ResultBeforeFlagClears
<1>1. QED
  BY Invariant, FlagStepHolds, PTL DEF Spec, ResultBeforeFlagClears, FlagStep

DeathStep == sIsDMSessionInProgress /\ up /\ ~up'
                 => mSession /\ wpc \in {"tick", "enter", "clear"}

LEMMA DeathStepHolds == IInv /\ [Next]_vars => DeathStep
  <1> SUFFICES ASSUME IInv, [Next]_vars PROVE DeathStep
    OBVIOUS
  <1>1. ASSUME NEW r \in Requests, Launch(r)
        PROVE  DeathStep
    BY <1>1, Zenon DEF Launch, DeathStep
  <1>2. CASE ReturnEarly
    BY <1>2, Zenon DEF ReturnEarly, TakeIntent, Unhandled, DeathStep
  <1>3. CASE HandleSession
    BY <1>3, Zenon DEF HandleSession, TakeIntent, Unhandled, DeathStep
  <1>4. CASE HandleCancel
    BY <1>4, Zenon DEF HandleCancel, TakeIntent, Unhandled, DeathStep
  <1>5. CASE WorkerCancel
    <2>1. CASE CancelThrows(RequestID[cur])
      BY <1>5 DEF WorkerCancel, DeathStep, IInv, SessionInv, InProcessMsg
    <2>2. CASE ~CancelThrows(RequestID[cur])
      BY <1>5, <2>2, Zenon DEF WorkerCancel, CancelSession, DeathStep
    <2>3. QED
      BY <2>1, <2>2
  <1>6. CASE BeginProcessMsg
    BY <1>6, Zenon DEF BeginProcessMsg, Goto, DeathStep
  <1>7. CASE CreateSession
    BY <1>7, Zenon DEF CreateSession, Goto, DeathStep
  <1>8. CASE StartTimeOutTick
    BY <1>8, Zenon DEF StartTimeOutTick, Goto, DeathStep
  <1>9. CASE RejectPkg0
    BY <1>9, Zenon DEF RejectPkg0, Goto, DeathStep
  <1>10. CASE EnterSession
    BY <1>10, Zenon DEF EnterSession, Goto, DeathStep
  <1>11. CASE FinishSession
    BY <1>11, Zenon DEF FinishSession, Goto, DeathStep
  <1>12. CASE ClearSession
    BY <1>12, Zenon DEF ClearSession, Goto, DeathStep
  <1>13. CASE SendResult
    BY <1>13, Zenon DEF SendResult, Goto, DeathStep
  <1>14. CASE EndProcessMsg
    BY <1>14, Zenon DEF EndProcessMsg, DeathStep
  <1>15. CASE ShowAlert
    BY <1>15, Zenon DEF ShowAlert, AlertUnchanged, DeathStep
  <1>16. CASE AwaitClosed
    BY <1>16, Zenon DEF AwaitClosed, AlertUnchanged, DeathStep
  <1>17. CASE AlertReturn
    BY <1>17, Zenon DEF AlertReturn, AlertUnchanged, DeathStep
  <1>18. CASE FireTimeout
    BY <1>18, Zenon DEF FireTimeout, DeathStep
  <1>19. CASE AbortSession
    <2>1. CASE CancelThrows(0)
      <3>1. mSession /\ wpc \notin InNative
        BY <1>19, <2>1, ThreadsAssumption
        DEF AbortSession, CancelThrows, Cancels, IInv, LockInv
      <3>2. QED
        BY <3>1 DEF DeathStep, IInv, SessionInv
    <2>2. CASE ~CancelThrows(0)
      BY <1>19, <2>2, Zenon DEF AbortSession, CancelSession, DeathStep
    <2>3. QED
      BY <2>1, <2>2
  <1>20. CASE OpenDialog
    BY <1>20, Zenon DEF OpenDialog, AlertUnchanged, DeathStep
  <1>21. CASE CloseDialog
    BY <1>21, Zenon DEF CloseDialog, AlertUnchanged, DeathStep
  <1>22. CASE DeliverClosed
    BY <1>22, Zenon DEF DeliverClosed, AlertUnchanged, DeathStep
  <1>23. CASE CreateConfigDB
    BY <1>23, Zenon DEF CreateConfigDB, DeathStep
  <1>24. CASE OnDestroy
    BY <1>24 DEF OnDestroy, Unused, DeathStep, IInv, SessionInv, InProcessMsg
  <1>25. CASE DestroyUnready
    BY <1>25 DEF DestroyUnready, Unused, DeathStep, IInv, SessionInv,
           InProcessMsg
  <1>26. ASSUME NEW b \in Binders, CallGetDMTree(b)
        PROVE  DeathStep
    BY <1>26, Zenon DEF CallGetDMTree, BinderUnchanged, DeathStep
  <1>27. ASSUME NEW b \in Binders, ReadDMTree(b)
        PROVE  DeathStep
    BY <1>27, Zenon DEF ReadDMTree, BinderUnchanged, DeathStep
  <1>28. ASSUME NEW b \in Binders, ReturnDMTree(b)
        PROVE  DeathStep
    BY <1>28, Zenon DEF ReturnDMTree, BinderUnchanged, DeathStep
  <1>29. CASE UNCHANGED vars
    BY <1>29, Zenon DEF vars, DeathStep
  <1>30. QED
    BY <1>1, <1>2, <1>3, <1>4, <1>5, <1>6, <1>7, <1>8, <1>9, <1>10, <1>11,
       <1>12, <1>13, <1>14, <1>15, <1>16, <1>17, <1>18, <1>19, <1>20, <1>21,
       <1>22, <1>23, <1>24, <1>25, <1>26, <1>27, <1>28, <1>29 DEF Next,
       WorkerStep, DialogStep, BinderStep

\* The process dies of an exception only in a window before or after the
\* native session.
THEOREM DeathOutsideSession == Spec => DiesOutsideSession
<1>1. QED
  BY Invariant, DeathStepHolds, PTL DEF Spec, DiesOutsideSession, DeathStep
=============================================================================
